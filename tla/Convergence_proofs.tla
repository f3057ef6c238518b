------------------------ MODULE Convergence_proofs ------------------------
(***************************************************************************)
(* Proofs of the safety properties of Convergence, for any callers, keys,  *)
(* stages, commits and faults.                                             *)
(*                                                                         *)
(* A call works from copies: of its Run, of its Request, of the session.   *)
(* A copy may be old, yet what it says of the past stays said: a Run keeps *)
(* its head and what is bound to it, a Request that passed has passed.     *)
(* Knows says what a call has learned when it is at a place; only the      *)
(* compare-and-set writes ask for more, that the copy is the row.          *)
(***************************************************************************)
EXTENDS Convergence, TLAPS

-----------------------------------------------------------------------------
(* The inductive invariant.                                                *)

Underway ==
    {"verify", "block", "index", "askidx", "bindidx", "recidx", "asked", "waiting",
     "stages", "record", "request", "bindreq", "read", "bindjob", "cifail", "finalize",
     "proven", "sync", "bindev", "finalizing", "passing"}

Places == {"idle", "open"} \cup Underway

RequestRows ==
    [status : {"none", "accepted", "queued", "running", "passed", "failed"},
     att : BOOLEAN]

SessRows == [head : Commits, ev : Requests \cup {NoRun}, active : BOOLEAN]

CallRows ==
    [pc : Places, key : Runs \cup {NoRun}, k : Runs \cup {NoRun}, snap : RunRows,
     fresh : BOOLEAN, again : BOOLEAN, seen : SessRows,
     sfresh : BOOLEAN, wfresh : BOOLEAN, index : {"pending", "ready", "failed"},
     job : Jobs \cup {NoJob}, todo : SUBSET Stages, bad : SUBSET Stages,
     whole : BOOLEAN, q : RequestRows]

Typed ==
    /\ run \in [Runs -> RunRows]
    /\ req \in [Requests -> RequestRows]
    /\ sess \in SessRows
    /\ tip \in Commits
    /\ call \in [Clients -> CallRows]

\* What a copy of a Run says that the Run says, too.
Told(snap, r) ==
    /\ snap.head = r.head
    /\ snap.asked => r.asked
    /\ snap.cjob => r.cjob
    /\ snap.att => r.att

\* What a call x knows at a place of its Run r and its Request q.
Knows(x, pc, r, q) ==
    /\ pc # "idle" => x.key \in Runs
    /\ pc \in Underway => x.k \in Runs /\ r.phase # "none" /\ Told(x.snap, r)
    /\ pc = "bindreq" => q.status # "none"
    /\ pc \in {"read", "bindjob", "finalize"} => r.asked
    /\ pc \in {"bindjob", "finalize", "proven", "sync", "bindev", "finalizing", "passing"} =>
          /\ x.q.status # "none"
          /\ x.q.status = "passed" => q.status = "passed"
          /\ x.q.att => q.att
    /\ pc = "finalize" /\ x.q.status = "passed" => r.cjob
    /\ pc \in {"proven", "sync", "bindev", "finalizing", "passing"} =>
          /\ x.q.status = "passed" /\ r.cjob
          /\ x.q.att => r.att
    /\ pc \in {"bindev", "finalizing", "passing"} => x.q.att
    /\ pc = "bindev" => x.seen.active /\ x.seen.head = x.snap.head

CallSound(x, rn, rq, s) ==
    /\ x.fresh => x.k \in Runs /\ x.snap = rn[x.k] /\ x.snap.phase # "none"
    /\ x.sfresh => x.seen = s
    /\ Knows(x, x.pc, rn[x.k], rq[x.k])

\* What a Run r says of its Request q.
RowSound(r, q) ==
    /\ r.cjob => r.asked
    /\ r.asked => q.status # "none"
    /\ r.att => q.att
    /\ r.phase = "passed" => q.status = "passed" /\ r.cjob /\ r.att

RequestSound(k, q) == q.att => q.status = "passed" /\ Mode[k] = "full"

ConvInv ==
    /\ Typed
    /\ \A k \in Runs : RowSound(run[k], req[k]) /\ RequestSound(k, req[k])
    /\ \A c \in Clients : CallSound(call[c], run, req, sess)

-----------------------------------------------------------------------------
(* How rows and calls move.                                                *)

\* The next state n of a Run r, whose Request is q.
Later(r, n, q) ==
    r.phase # "none" =>
      /\ n.phase # "none"
      /\ Rank(n.phase) >= Rank(r.phase)
      /\ Terminal(r) => n.phase = r.phase
      /\ n.head = r.head
      /\ r.ijob # NoJob => n.ijob = r.ijob
      /\ r.cjob => n.cjob /\ r.asked
      /\ r.asked => n.asked
      /\ r.att => n.att
      /\ n.phase = "passed" => q.status = "passed" /\ r.cjob /\ r.att

ReqLater(q, p) ==
    /\ q.status # "none" => p.status # "none"
    /\ q.status = "passed" => p.status = "passed"
    /\ q.att => p.att

\* A call x that another one turned into y, while its Run became n.
Follows(x, y, r, n, s, t) ==
    /\ y.pc = x.pc /\ y.key = x.key /\ y.k = x.k
    /\ y.snap = x.snap /\ y.q = x.q /\ y.seen = x.seen
    /\ y.fresh => x.fresh /\ n = r
    /\ y.sfresh => x.sfresh /\ t = s

-----------------------------------------------------------------------------
(* Values.                                                                 *)

Phases == {"none", "accepted", "index_requested", "analysis_pending", "ci_requested",
           "ci_running", "post_ci_finalize", "passed", "failed", "blocked"}

RunStatuses == {"accepted", "pending", "degraded", "ready", "queued", "running",
                "finalizing", "passed", "failed", "blocked"}

LEMMA RankFacts ==
    ASSUME NEW p \in Phases
    PROVE  /\ Rank(p) \in Nat /\ Rank(p) <= 7
           /\ Rank(p) = 7 <=> p \in {"passed", "failed", "blocked"}
           /\ Rank(p) = 0 <=> p = "none"
  BY DEF Phases, Rank

LEMMA RowFields ==
    ASSUME NEW r \in RunRows
    PROVE  /\ r.phase \in Phases /\ r.status \in RunStatuses /\ r.head \in Commits
           /\ r.stage \in [AnalysisStages -> {"pending", "ready", "failed"}]
           /\ r.ijob \in Jobs \cup {NoJob}
           /\ r.asked \in BOOLEAN /\ r.cjob \in BOOLEAN /\ r.att \in BOOLEAN
  BY DEF RunRows, Phases, RunStatuses

LEMMA CallFields ==
    ASSUME NEW x \in CallRows
    PROVE  /\ x.pc \in Places /\ x.key \in Runs \cup {NoRun} /\ x.k \in Runs \cup {NoRun}
           /\ x.snap \in RunRows /\ x.seen \in SessRows /\ x.q \in RequestRows
           /\ x.fresh \in BOOLEAN /\ x.again \in BOOLEAN
           /\ x.sfresh \in BOOLEAN /\ x.wfresh \in BOOLEAN /\ x.whole \in BOOLEAN
           /\ x.index \in {"pending", "ready", "failed"} /\ x.job \in Jobs \cup {NoJob}
           /\ x.todo \subseteq Stages /\ x.bad \subseteq Stages
  BY DEF CallRows

LEMMA NewRunTyped ==
    ASSUME ConvergenceAssumption, NEW h \in Commits
    PROVE  /\ NewRun(h) \in RunRows
           /\ NewRun(h).phase = "accepted" /\ NewRun(h).head = h
           /\ NewRun(h).asked = FALSE /\ NewRun(h).cjob = FALSE /\ NewRun(h).att = FALSE
  BY DEF NewRun, RunRows

LEMMA IdleTyped ==
    ASSUME ConvergenceAssumption
    PROVE  /\ Idle \in CallRows /\ Idle.pc = "idle" /\ Idle.fresh = FALSE
           /\ Idle.sfresh = FALSE
           /\ Idle.snap = [NewRun(0) EXCEPT !.phase = "none"]
           /\ Idle.snap \in RunRows /\ Idle.snap.phase = "none"
           /\ Idle.snap.asked = FALSE /\ Idle.snap.cjob = FALSE /\ Idle.snap.att = FALSE
  <1>1. 0 \in Commits
    BY DEF ConvergenceAssumption
  <1>2. /\ NewRun(0) \in RunRows
        /\ NewRun(0).asked = FALSE /\ NewRun(0).cjob = FALSE /\ NewRun(0).att = FALSE
    BY <1>1, NewRunTyped
  <1> DEFINE row == [NewRun(0) EXCEPT !.phase = "none"]
  <1>3. /\ row \in RunRows /\ row.phase = "none"
        /\ row.asked = FALSE /\ row.cjob = FALSE /\ row.att = FALSE
    BY <1>2 DEF RunRows
  <1>4. Idle.snap = row
    BY DEF Idle
  <1> HIDE DEF row
  <1>5. /\ NoRequest \in RequestRows
        /\ [head |-> 0, ev |-> NoRun, active |-> TRUE] \in SessRows
    BY <1>1 DEF NoRequest, RequestRows, SessRows
  <1>6. Idle = [pc |-> "idle", key |-> NoRun, k |-> NoRun, snap |-> row,
         fresh |-> FALSE, again |-> FALSE,
         seen |-> [head |-> 0, ev |-> NoRun, active |-> TRUE],
         sfresh |-> FALSE, wfresh |-> FALSE, index |-> "pending", job |-> NoJob,
         todo |-> {}, bad |-> {}, whole |-> FALSE, q |-> NoRequest]
    BY DEF Idle, row
  <1>7. Idle \in CallRows /\ Idle.pc = "idle" /\ Idle.fresh = FALSE /\ Idle.sfresh = FALSE
    BY <1>3, <1>5, <1>6 DEF CallRows, Places
  <1> QED
    BY <1>3, <1>4, <1>7 DEF row

LEMMA IdleSound ==
    ASSUME ConvergenceAssumption, NEW rn, NEW rq, NEW s
    PROVE  CallSound(Idle, rn, rq, s)
  BY IdleTyped DEF CallSound, Knows, Underway

\* Where a call goes on keeps its row in shape.
LEMMA OnwardTyped ==
    ASSUME ConvergenceAssumption, NEW x \in CallRows, NEW pc \in Places
    PROVE  Onward(x, pc) \in CallRows
  <1>1. [x EXCEPT !.pc = pc, !.again = FALSE] \in CallRows
    BY DEF CallRows
  <1> QED
    BY <1>1, IdleTyped DEF Onward

LEMMA OnwardSound ==
    ASSUME ConvergenceAssumption, NEW x \in CallRows, NEW pc \in Places,
           NEW rn, NEW rq, NEW s,
           x.fresh => x.k \in Runs /\ x.snap = rn[x.k] /\ x.snap.phase # "none",
           x.sfresh => x.seen = s,
           Knows(x, pc, rn[x.k], rq[x.k])
    PROVE  CallSound(Onward(x, pc), rn, rq, s)
  <1>1. CASE pc = "idle"
    BY <1>1, IdleSound DEF Onward
  <1>2. CASE pc # "idle"
    <2> DEFINE y == [x EXCEPT !.pc = pc, !.again = FALSE]
    <2>1. /\ y.pc = pc /\ y.key = x.key /\ y.k = x.k /\ y.snap = x.snap /\ y.q = x.q
          /\ y.seen = x.seen /\ y.fresh = x.fresh /\ y.sfresh = x.sfresh
      BY DEF CallRows
    <2>2. Onward(x, pc) = y
      BY <1>2 DEF Onward
    <2> HIDE DEF y
    <2> QED
      BY <2>1, <2>2 DEF CallSound, Knows, Told
  <1> QED
    BY <1>1, <1>2

-----------------------------------------------------------------------------
(* What one step has to show.                                              *)

LEMMA LaterSame ==
    ASSUME NEW r \in RunRows, NEW q \in RequestRows, RowSound(r, q)
    PROVE  Later(r, r, q)
  <1>1. r.phase \in Phases
    BY RowFields
  <1>2. Rank(r.phase) \in Nat
    BY <1>1, RankFacts
  <1>3. Rank(r.phase) >= Rank(r.phase)
    BY <1>2
  <1> QED
    BY <1>3 DEF Later, RowSound

\* A call that goes on unchanged while the rows move on knows what it knew.
LEMMA FollowsSound ==
    ASSUME NEW x \in CallRows, NEW y \in CallRows,
           NEW rn, NEW rm, NEW rq, NEW rp, NEW s, NEW t,
           CallSound(x, rn, rq, s),
           x.k \in Runs => Later(rn[x.k], rm[x.k], rq[x.k]) /\ ReqLater(rq[x.k], rp[x.k]),
           Follows(x, y, rn[x.k], rm[x.k], s, t)
    PROVE  CallSound(y, rm, rp, t)
  <1>1. CASE x.k \in Runs /\ x.pc \in Underway
    <2>1. Knows(x, x.pc, rn[x.k], rq[x.k])
      BY DEF CallSound
    <2>2. Later(rn[x.k], rm[x.k], rq[x.k]) /\ ReqLater(rq[x.k], rp[x.k])
      BY <1>1
    <2>3. Told(x.snap, rm[x.k])
      BY <1>1, <2>1, <2>2 DEF Knows, Told, Later
    <2>4. Knows(x, x.pc, rm[x.k], rp[x.k])
      BY <1>1, <2>1, <2>2, <2>3 DEF Knows, Later, ReqLater
    <2>5. Knows(y, y.pc, rm[y.k], rp[y.k])
      BY <2>4 DEF Knows, Follows, Told
    <2> QED
      BY <2>5 DEF CallSound, Follows
  <1>2. CASE x.k \notin Runs \/ x.pc \notin Underway
    <2>1. x.pc \notin Underway
      BY <1>2 DEF CallSound, Knows
    <2>2. Knows(y, y.pc, rm[y.k], rp[y.k])
      BY <2>1 DEF CallSound, Knows, Follows, Underway
    <2> QED
      BY <2>2 DEF CallSound, Follows
  <1> QED
    BY <1>1, <1>2

\* What a step keeps and shows.
Moves ==
    /\ Typed'
    /\ \A k \in Runs :
         /\ RowSound(run'[k], req'[k]) /\ RequestSound(k, req'[k])
         /\ Later(run[k], run'[k], req[k])
    /\ \A c \in Clients : CallSound(call'[c], run', req', sess')

LEMMA InvFields ==
    ASSUME ConvInv, NEW c \in Clients
    PROVE  /\ call[c] \in CallRows
           /\ CallSound(call[c], run, req, sess)
           /\ sess \in SessRows /\ tip \in Commits
           /\ run \in [Runs -> RunRows] /\ req \in [Requests -> RequestRows]
           /\ call[c].k \in Runs => /\ run[call[c].k] \in RunRows
                                    /\ req[call[c].k] \in RequestRows
                                    /\ RowSound(run[call[c].k], req[call[c].k])
                                    /\ RequestSound(call[c].k, req[call[c].k])
  BY DEF ConvInv, Typed, Requests

\* A step after which every call is sound or only follows.
LEMMA Goes ==
    ASSUME ConvInv, Typed',
           \A k \in Runs :
             /\ RowSound(run'[k], req'[k]) /\ RequestSound(k, req'[k])
             /\ Later(run[k], run'[k], req[k]) /\ ReqLater(req[k], req'[k]),
           \A c \in Clients :
             \/ CallSound(call'[c], run', req', sess')
             \/ Follows(call[c], call'[c], run[call[c].k], run'[call[c].k], sess, sess')
    PROVE  Moves
  <1>1. ASSUME NEW c \in Clients PROVE CallSound(call'[c], run', req', sess')
    <2>1. CASE CallSound(call'[c], run', req', sess')
      BY <2>1
    <2>2. CASE Follows(call[c], call'[c], run[call[c].k], run'[call[c].k], sess, sess')
      <3>1. call[c] \in CallRows /\ call'[c] \in CallRows /\ CallSound(call[c], run, req, sess)
        BY InvFields DEF Typed
      <3>2. call[c].k \in Runs =>
               Later(run[call[c].k], run'[call[c].k], req[call[c].k])
               /\ ReqLater(req[call[c].k], req'[call[c].k])
        OBVIOUS
      <3> QED
        BY <2>2, <3>1, <3>2, FollowsSound
    <2> QED
      BY <2>1, <2>2
  <1> QED
    BY <1>1 DEF Moves

LEMMA RowsStay ==
    ASSUME ConvInv, UNCHANGED <<run, req>>
    PROVE  \A k \in Runs :
             /\ RowSound(run'[k], req'[k]) /\ RequestSound(k, req'[k])
             /\ Later(run[k], run'[k], req[k]) /\ ReqLater(req[k], req'[k])
  <1>1. ASSUME NEW k \in Runs
        PROVE  Later(run[k], run[k], req[k]) /\ ReqLater(req[k], req[k])
    <2>1. run[k] \in RunRows /\ req[k] \in RequestRows /\ RowSound(run[k], req[k])
      BY DEF ConvInv, Typed, Requests
    <2> QED
      BY <2>1, LaterSame DEF ReqLater
  <1> QED
    BY <1>1 DEF ConvInv

LEMMA FollowsSelf ==
    ASSUME NEW x, NEW r, NEW s
    PROVE  Follows(x, x, r, r, s, s)
  BY DEF Follows

\* A step of one call that writes no row.
LEMMA Continues ==
    ASSUME ConvInv, NEW c \in Clients, NEW x \in CallRows,
           Continue(c, x), UNCHANGED <<run, req, sess, tip>>,
           CallSound(x, run, req, sess)
    PROVE  Moves
  <1>1. Typed'
    BY DEF ConvInv, Typed, Continue
  <1>2. call'[c] = x /\ \A d \in Clients \ {c} : call'[d] = call[d]
    BY DEF ConvInv, Typed, Continue
  <1>3. \A d \in Clients :
          \/ CallSound(call'[d], run', req', sess')
          \/ Follows(call[d], call'[d], run[call[d].k], run'[call[d].k], sess, sess')
    BY <1>2, FollowsSelf
  <1> QED
    BY <1>1, <1>3, RowsStay, Goes

\* A step of one call that writes its Run.
LEMMA Writes ==
    ASSUME ConvInv, NEW c \in Clients, NEW k \in Runs, NEW n \in RunRows, NEW x \in CallRows,
           UNCHANGED <<req, sess, tip>>,
           run' = [run EXCEPT ![k] = n],
           call' = [d \in Clients |->
                      IF d = c THEN x
                      ELSE IF call[d].k = k THEN [call[d] EXCEPT !.fresh = FALSE]
                      ELSE call[d]],
           RowSound(n, req[k]), Later(run[k], n, req[k]),
           CallSound(x, run', req, sess)
    PROVE  Moves
  <1>1. ASSUME NEW d \in Clients
        PROVE  LET y == [call[d] EXCEPT !.fresh = FALSE]
               IN /\ y \in CallRows
                  /\ y.pc = call[d].pc /\ y.key = call[d].key /\ y.k = call[d].k
                  /\ y.snap = call[d].snap /\ y.q = call[d].q /\ y.seen = call[d].seen
                  /\ y.fresh = FALSE /\ y.sfresh = call[d].sfresh
    BY InvFields DEF CallRows
  <1>2. run' \in [Runs -> RunRows] /\ run'[k] = n /\ \A j \in Runs \ {k} : run'[j] = run[j]
    BY DEF ConvInv, Typed
  <1>3. call' \in [Clients -> CallRows]
    BY <1>1, InvFields
  <1>4. Typed'
    BY <1>2, <1>3 DEF ConvInv, Typed
  <1>5. ASSUME NEW j \in Runs
        PROVE  /\ RowSound(run'[j], req'[j]) /\ RequestSound(j, req'[j])
               /\ Later(run[j], run'[j], req[j]) /\ ReqLater(req[j], req'[j])
    <2>1. run[j] \in RunRows /\ req[j] \in RequestRows
          /\ RowSound(run[j], req[j]) /\ RequestSound(j, req[j])
      BY DEF ConvInv, Typed, Requests
    <2>2. Later(run[j], run[j], req[j]) /\ ReqLater(req[j], req[j])
      BY <2>1, LaterSame DEF ReqLater
    <2> QED
      BY <1>2, <2>1, <2>2
  <1>6. ASSUME NEW d \in Clients
        PROVE  \/ CallSound(call'[d], run', req', sess')
               \/ Follows(call[d], call'[d], run[call[d].k], run'[call[d].k], sess, sess')
    <2>1. CASE d = c
      BY <2>1
    <2>2. CASE d # c /\ call[d].k = k
      <3>1. call'[d] = [call[d] EXCEPT !.fresh = FALSE]
        BY <2>2
      <3> QED
        BY <1>1, <3>1 DEF Follows
    <2>3. CASE d # c /\ call[d].k # k
      <3>1. call'[d] = call[d]
        BY <2>3
      <3>2. call[d].fresh => call[d].k \in Runs
        BY InvFields DEF CallSound
      <3>3. call[d].fresh => run'[call[d].k] = run[call[d].k]
        BY <1>2, <2>3, <3>2
      <3> QED
        BY <3>1, <3>3 DEF Follows
    <2> QED
      BY <2>1, <2>2, <2>3
  <1> QED
    BY <1>4, <1>5, <1>6, Goes

-----------------------------------------------------------------------------
(* The writes.                                                             *)

LEMMA UnderwayFacts ==
    ASSUME ConvInv, NEW c \in Clients, call[c].pc \in Underway
    PROVE  /\ call[c].k \in Runs /\ call[c].key \in Runs
           /\ Knows(call[c], call[c].pc, run[call[c].k], req[call[c].k])
           /\ run[call[c].k] \in RunRows /\ req[call[c].k] \in RequestRows
           /\ RowSound(run[call[c].k], req[call[c].k])
           /\ RequestSound(call[c].k, req[call[c].k])
           /\ run[call[c].k].phase # "none"
           /\ Told(call[c].snap, run[call[c].k])
           /\ call[c].fresh => call[c].snap = run[call[c].k]
           /\ call[c] \in CallRows /\ call[c].snap \in RunRows
  <1>1. CallSound(call[c], run, req, sess) /\ call[c] \in CallRows
    BY InvFields
  <1>2. Knows(call[c], call[c].pc, run[call[c].k], req[call[c].k])
    BY <1>1 DEF CallSound
  <1>3. call[c].k \in Runs
    BY <1>2 DEF Knows
  <1>4. call[c].key \in Runs
    BY <1>2 DEF Knows, Underway
  <1> QED
    BY <1>1, <1>2, <1>3, <1>4, InvFields, CallFields DEF CallSound, Knows

LEMMA RaiseMoves ==
    ASSUME ConvergenceAssumption, ConvInv, NEW c \in Clients, call[c].pc \in Underway,
           Raise(c), UNCHANGED <<run, req, sess, tip>>
    PROVE  Moves
  <1>1. CASE call[c].pc \in {"bindreq", "bindjob"}
    <2> DEFINE x == [call[c] EXCEPT !.pc = "cifail", !.fresh = FALSE, !.again = FALSE]
    <2>1. /\ x \in CallRows
          /\ x.pc = "cifail" /\ x.key = call[c].key /\ x.k = call[c].k
          /\ x.snap = call[c].snap /\ x.seen = call[c].seen
          /\ x.fresh = FALSE /\ x.sfresh = call[c].sfresh
      <3>1. call[c] \in CallRows /\ "cifail" \in Places
        BY UnderwayFacts DEF Places, Underway
      <3> QED
        BY <3>1 DEF CallRows
    <2>2. Continue(c, x)
      BY <1>1 DEF Raise
    <2> HIDE DEF x
    <2>3. x.sfresh => x.seen = sess
      BY <2>1, InvFields DEF CallSound
    <2>4. Knows(x, "cifail", run[x.k], req[x.k])
      BY <2>1, UnderwayFacts DEF Knows, Told
    <2>5. CallSound(x, run, req, sess)
      BY <2>1, <2>3, <2>4 DEF CallSound
    <2> QED
      BY <2>1, <2>2, <2>5, Continues
  <1>2. CASE call[c].pc \notin {"bindreq", "bindjob"}
    BY <1>2, IdleTyped, IdleSound, Continues DEF Raise, Return
  <1> QED
    BY <1>1, <1>2

LEMMA RereadMoves ==
    ASSUME ConvInv, NEW c \in Clients, call[c].pc \in Underway,
           Continue(c, [call[c] EXCEPT !.snap = run[call[c].k], !.fresh = TRUE, !.again = TRUE]),
           UNCHANGED <<run, req, sess, tip>>
    PROVE  Moves
  <1> DEFINE x == [call[c] EXCEPT !.snap = run[call[c].k], !.fresh = TRUE, !.again = TRUE]
  <1>1. /\ x \in CallRows
        /\ x.pc = call[c].pc /\ x.key = call[c].key /\ x.k = call[c].k
        /\ x.snap = run[call[c].k] /\ x.seen = call[c].seen /\ x.q = call[c].q
        /\ x.fresh = TRUE /\ x.sfresh = call[c].sfresh
    BY UnderwayFacts DEF CallRows
  <1>2. Continue(c, x)
    OBVIOUS
  <1> HIDE DEF x
  <1>3. x.sfresh => x.seen = sess
    BY <1>1, InvFields DEF CallSound
  <1>4. Told(x.snap, run[x.k])
    BY <1>1 DEF Told
  <1>5. Knows(x, x.pc, run[x.k], req[x.k])
    <2>1. Knows(call[c], call[c].pc, run[call[c].k], req[call[c].k])
      BY UnderwayFacts
    <2>2. call[c].snap.head = x.snap.head
      BY <1>1, UnderwayFacts DEF Told
    <2> QED
      BY <1>1, <1>4, <2>1, <2>2 DEF Knows
  <1>6. CallSound(x, run, req, sess)
    BY <1>1, <1>3, <1>5, UnderwayFacts DEF CallSound
  <1> QED
    BY <1>1, <1>2, <1>6, Continues

\* me is the call c but for the stages that are left to record.
Same(c, me) ==
    /\ me.pc = call[c].pc /\ me.key = call[c].key /\ me.k = call[c].k
    /\ me.snap = call[c].snap /\ me.seen = call[c].seen /\ me.q = call[c].q
    /\ me.fresh = call[c].fresh /\ me.sfresh = call[c].sfresh /\ me.again = call[c].again

LEMMA TryWriteMoves ==
    ASSUME ConvergenceAssumption, ConvInv, NEW c \in Clients, call[c].pc \in Underway,
           NEW me \in CallRows, Same(c, me),
           NEW needed \in BOOLEAN, NEW refused \in BOOLEAN,
           NEW new \in RunRows, NEW pc \in Places,
           TryWrite(c, me, needed, refused, new, pc),
           UNCHANGED <<req, sess, tip>>,
           ~ needed => Knows(me, pc, run[me.k], req[me.k]),
           needed /\ me.fresh /\ ~ refused =>
              /\ RowSound(new, req[me.k])
              /\ Later(run[me.k], new, req[me.k])
              /\ Knows([me EXCEPT !.snap = new], pc, new, req[me.k])
    PROVE  Moves
  <1>0. /\ me.k \in Runs
        /\ me.fresh => me.snap = run[me.k] /\ me.snap.phase # "none"
        /\ run[me.k].phase # "none"
        /\ me.sfresh => me.seen = sess
    BY UnderwayFacts, InvFields DEF Same, CallSound
  <1>1. CASE ~ needed
    <2>1. Continue(c, Onward(me, pc)) /\ UNCHANGED run
      BY <1>1 DEF TryWrite
    <2>2. Onward(me, pc) \in CallRows
      BY OnwardTyped
    <2>3. CallSound(Onward(me, pc), run, req, sess)
      BY <1>0, <1>1, OnwardSound
    <2> QED
      BY <2>1, <2>2, <2>3, Continues
  <1>2. CASE needed /\ me.fresh /\ refused
    <2>1. Raise(c) /\ UNCHANGED run
      BY <1>2 DEF TryWrite
    <2> QED
      BY <2>1, RaiseMoves
  <1>3. CASE needed /\ me.fresh /\ ~ refused
    <2> DEFINE y == [me EXCEPT !.snap = new]
    <2> DEFINE z == [y EXCEPT !.fresh = TRUE]
    <2>1. y \in CallRows /\ y.k = me.k /\ y.snap = new /\ y.fresh = TRUE
          /\ y.sfresh = me.sfresh /\ y.seen = me.seen /\ y = z
      BY <1>3 DEF CallRows
    <2>2. run' = [run EXCEPT ![me.k] = new]
      BY <1>3 DEF TryWrite
    <2>3. run'[me.k] = new
      BY <1>0, <2>2 DEF ConvInv, Typed
    <2>4. Knows(y, pc, new, req[me.k])
      BY <1>3
    <2>5. IF new = me.snap THEN Continue(c, Onward(me, pc)) ELSE Wrote(c, y, pc)
      BY <1>3 DEF TryWrite
    <2> HIDE DEF y
    <2>0. new.phase # "none"
      BY <1>0, <1>3 DEF Later
    <2>6. CallSound(Onward(y, pc), run', req, sess)
      BY <1>0, <2>0, <2>1, <2>3, <2>4, OnwardSound
    <2>7. Onward(y, pc) \in CallRows
      BY <2>1, OnwardTyped
    <2>8. CASE new = me.snap
      <3>1. y = me
        BY <2>8 DEF y, CallRows
      <3>2. run' = run
        BY <1>0, <1>3, <2>2, <2>8 DEF ConvInv, Typed
      <3> QED
        BY <2>5, <2>6, <2>7, <2>8, <3>1, <3>2, Continues
    <2>9. CASE new # me.snap
      <3>1. Wrote(c, y, pc)
        BY <2>5, <2>9
      <3>2. call' = [d \in Clients |->
                       IF d = c THEN Onward(y, pc)
                       ELSE IF call[d].k = me.k THEN [call[d] EXCEPT !.fresh = FALSE]
                       ELSE call[d]]
        BY <2>1, <3>1 DEF Wrote, Same
      <3> QED
        BY <1>0, <1>3, <2>2, <2>6, <2>7, <3>2, Writes
    <2> QED
      BY <2>8, <2>9
  <1>4. CASE needed /\ ~ me.fresh /\ ~ me.again
    <2>1. Continue(c, [call[c] EXCEPT !.snap = run[call[c].k], !.fresh = TRUE, !.again = TRUE])
          /\ UNCHANGED run
      BY <1>4 DEF TryWrite, Same
    <2> QED
      BY <2>1, RereadMoves
  <1>5. CASE needed /\ ~ me.fresh /\ me.again
    <2>1. Raise(c) /\ UNCHANGED run
      BY <1>5 DEF TryWrite
    <2> QED
      BY <2>1, RaiseMoves
  <1> QED
    BY <1>1, <1>2, <1>3, <1>4, <1>5, CallFields

-----------------------------------------------------------------------------
(* The kinds of writes.                                                    *)

\* What a write makes of the row r.
LEMMA MovedPhase ==
    ASSUME NEW r \in RunRows, NEW q \in RequestRows, RowSound(r, q), ~ Terminal(r),
           r.phase # "none",
           NEW phase \in Phases, NEW status \in RunStatuses, phase # "none",
           phase = "passed" => q.status = "passed" /\ r.cjob /\ r.att,
           NEW n, n = Transitioned(r, IF Rank(phase) > Rank(r.phase) THEN phase ELSE r.phase, status)
    PROVE  n \in RunRows /\ RowSound(n, q) /\ Later(r, n, q) /\ Told(n, n)
           /\ n.asked = r.asked /\ n.cjob = r.cjob /\ n.att = r.att /\ n.head = r.head
           /\ n.phase # "none"
  <1> DEFINE p == IF Rank(phase) > Rank(r.phase) THEN phase ELSE r.phase
  <1>1. p \in Phases /\ p # "none" /\ Rank(p) >= Rank(r.phase)
    BY RankFacts, RowFields
  <1>2. p = "passed" => q.status = "passed" /\ r.cjob /\ r.att
    BY DEF RowSound
  <1>3. n = [r EXCEPT !.phase = p, !.status = status]
    BY DEF Transitioned
  <1> HIDE DEF p
  <1>4. /\ n \in RunRows /\ n.phase = p /\ n.head = r.head /\ n.ijob = r.ijob
        /\ n.asked = r.asked /\ n.cjob = r.cjob /\ n.att = r.att
    BY <1>1, <1>3 DEF RunRows, Phases, RunStatuses
  <1>5. RowSound(n, q) /\ Told(n, n)
    BY <1>2, <1>4 DEF RowSound, Told
  <1>6. Later(r, n, q)
    BY <1>1, <1>2, <1>4 DEF Later, RowSound
  <1> QED
    BY <1>1, <1>4, <1>5, <1>6

\* A row n that is r but for what is bound to it or recorded of its stages.
Marked(r, n) ==
    /\ n \in RunRows
    /\ n.phase = r.phase /\ n.head = r.head
    /\ r.ijob # NoJob => n.ijob = r.ijob
    /\ r.asked => n.asked
    /\ r.cjob => n.cjob
    /\ r.att => n.att

LEMMA MarkedLater ==
    ASSUME NEW r \in RunRows, NEW q \in RequestRows, RowSound(r, q),
           NEW n, Marked(r, n)
    PROVE  Later(r, n, q)
  <1>1. Rank(n.phase) >= Rank(r.phase)
    BY RankFacts, RowFields DEF Marked
  <1> QED
    BY <1>1 DEF Later, RowSound, Marked

LEMMA TransitionMoves ==
    ASSUME ConvergenceAssumption, ConvInv, NEW c \in Clients, call[c].pc \in Underway,
           NEW phase \in Phases, phase # "none", NEW status \in RunStatuses, NEW pc \in Places,
           phase = "passed" =>
              LET k == call[c].k
              IN req[k].status = "passed" /\ run[k].cjob /\ run[k].att,
           Transition(c, phase, status, pc),
           UNCHANGED <<req, sess, tip>>,
           \A x \in CallRows, r \in RunRows :
              /\ x.k = call[c].k /\ x.key = call[c].key
              /\ x.seen = call[c].seen /\ x.q = call[c].q
              /\ r.phase # "none" /\ Told(x.snap, r)
              /\ r.asked = run[call[c].k].asked /\ r.cjob = run[call[c].k].cjob
              /\ r.att = run[call[c].k].att
              => Knows(x, pc, r, req[call[c].k])
    PROVE  Moves
  <1> DEFINE me == call[c]
  <1> DEFINE needed == ~ Terminal(me.snap)
                       /\ (Rank(phase) > Rank(me.snap.phase) \/ me.snap.status # status)
  <1> DEFINE new == Transitioned(me.snap, IF Rank(phase) > Rank(me.snap.phase)
                                            THEN phase ELSE me.snap.phase, status)
  <1>1. TryWrite(c, me, needed, Terminal(me.snap), new, pc)
    BY DEF Transition
  <1>2. /\ me \in CallRows /\ me.snap \in RunRows /\ me.k \in Runs
        /\ Same(c, me) /\ needed \in BOOLEAN /\ Terminal(me.snap) \in BOOLEAN
    BY UnderwayFacts DEF Same, Terminal
  <1>3. new \in RunRows
    <2> DEFINE p == IF Rank(phase) > Rank(me.snap.phase) THEN phase ELSE me.snap.phase
    <2>1. p \in Phases
      BY <1>2, RowFields
    <2> HIDE DEF p
    <2>2. [me.snap EXCEPT !.phase = p, !.status = status] \in RunRows
      BY <1>2, <2>1 DEF RunRows, Phases, RunStatuses
    <2> QED
      BY <2>2 DEF p, Transitioned
  <1>4. Knows(me, pc, run[me.k], req[me.k])
    BY UnderwayFacts
  <1>5. ASSUME needed, me.fresh, ~ Terminal(me.snap)
        PROVE  /\ RowSound(new, req[me.k])
               /\ Later(run[me.k], new, req[me.k])
               /\ Knows([me EXCEPT !.snap = new], pc, new, req[me.k])
    <2>1. me.snap = run[me.k]
      BY <1>5, UnderwayFacts
    <2>2. /\ RowSound(new, req[me.k]) /\ Later(me.snap, new, req[me.k]) /\ Told(new, new)
          /\ new.asked = me.snap.asked /\ new.cjob = me.snap.cjob /\ new.att = me.snap.att
          /\ new.phase # "none"
      <3>1. me.snap \in RunRows /\ req[me.k] \in RequestRows /\ RowSound(me.snap, req[me.k])
            /\ me.snap.phase # "none"
        BY <2>1, UnderwayFacts
      <3>2. phase = "passed" => req[me.k].status = "passed" /\ me.snap.cjob /\ me.snap.att
        BY <2>1
      <3> QED
        BY <1>5, <3>1, <3>2, MovedPhase
    <2> HIDE DEF new
    <2> DEFINE y == [me EXCEPT !.snap = new]
    <2>3. /\ y \in CallRows /\ y.snap = new /\ y.k = me.k /\ y.key = me.key
          /\ y.seen = me.seen /\ y.q = me.q
      BY <1>2, <1>3 DEF CallRows
    <2> HIDE DEF y
    <2>4. Knows(y, pc, new, req[me.k])
      BY <1>3, <2>1, <2>2, <2>3
    <2> QED
      BY <2>1, <2>2, <2>4 DEF y
  <1> HIDE DEF needed, new
  <1> QED
    BY <1>1, <1>2, <1>3, <1>4, <1>5, TryWriteMoves

-----------------------------------------------------------------------------
(* The steps of a call, kind by kind.                                      *)

\* Where a call knows no more than its Run.
Plain == {"verify", "block", "index", "askidx", "bindidx", "recidx", "asked", "waiting", "stages",
          "record", "request", "cifail"}

LEMMA PlainPlaces ==
    Plain \subseteq Underway /\ Plain \subseteq Places /\ "idle" \in Places
    /\ Underway \subseteq Places /\ "idle" \notin Underway
  BY DEF Plain, Underway, Places

LEMMA PlainKnows ==
    ASSUME NEW x, NEW pc \in Plain \cup {"idle"}, NEW r, NEW q,
           x.key \in Runs, x.k \in Runs, r.phase # "none", Told(x.snap, r)
    PROVE  Knows(x, pc, r, q)
  BY DEF Knows, Plain, Underway

\* A call goes on with another record, and nothing else happens.
LEMMA GoesOn ==
    ASSUME ConvergenceAssumption, ConvInv, NEW c \in Clients, call[c].pc \in Underway,
           NEW x \in CallRows,
           Continue(c, x), UNCHANGED <<run, req, sess, tip>>,
           x.fresh = call[c].fresh, x.sfresh = call[c].sfresh, x.snap = call[c].snap,
           x.k = call[c].k, x.seen = call[c].seen,
           Knows(x, x.pc, run[x.k], req[x.k])
    PROVE  Moves
  <1>1. CallSound(x, run, req, sess)
    BY InvFields DEF CallSound
  <1> QED
    BY <1>1, Continues

LEMMA GoesOnward ==
    ASSUME ConvergenceAssumption, ConvInv, NEW c \in Clients, call[c].pc \in Underway,
           NEW pc \in Places,
           Continue(c, Onward(call[c], pc)), UNCHANGED <<run, req, sess, tip>>,
           Knows(call[c], pc, run[call[c].k], req[call[c].k])
    PROVE  Moves
  <1>1. Onward(call[c], pc) \in CallRows
    BY OnwardTyped, InvFields
  <1>2. CallSound(Onward(call[c], pc), run, req, sess)
    BY OnwardSound, InvFields DEF CallSound
  <1> QED
    BY <1>1, <1>2, Continues

LEMMA Returns ==
    ASSUME ConvergenceAssumption, ConvInv, NEW c \in Clients,
           Return(c), UNCHANGED <<run, req, sess, tip>>
    PROVE  Moves
  BY IdleTyped, IdleSound, Continues DEF Return

LEMMA PlainTransition ==
    ASSUME ConvergenceAssumption, ConvInv, NEW c \in Clients, call[c].pc \in Underway,
           NEW phase \in Phases, phase \notin {"none", "passed"},
           NEW status \in RunStatuses, NEW pc \in Plain \cup {"idle"},
           Transition(c, phase, status, pc),
           UNCHANGED <<req, sess, tip>>
    PROVE  Moves
  <1>1. \A x \in CallRows, r \in RunRows :
              /\ x.k = call[c].k /\ x.key = call[c].key
              /\ r.phase # "none" /\ Told(x.snap, r)
              => Knows(x, pc, r, req[call[c].k])
    BY UnderwayFacts, PlainKnows
  <1> QED
    BY <1>1, TransitionMoves, PlainPlaces

LEMMA EarlyMoves ==
    ASSUME ConvergenceAssumption, ConvInv, NEW c \in Clients, call[c].pc \in Underway,
           NEW before \in Phases,
           NEW phase \in Phases, phase \notin {"none", "passed"},
           NEW status \in RunStatuses, NEW pc \in Plain \cup {"idle"},
           Early(c, before, phase, status, pc),
           UNCHANGED <<req, sess, tip>>
    PROVE  Moves
  <1>1. CASE Transition(c, phase, status, pc)
    BY <1>1, PlainTransition
  <1>2. CASE Continue(c, Onward(call[c], pc)) /\ UNCHANGED run
    <2>1. Knows(call[c], pc, run[call[c].k], req[call[c].k])
      BY UnderwayFacts, PlainKnows
    <2> QED
      BY <1>2, <2>1, GoesOnward, PlainPlaces
  <1> QED
    BY <1>1, <1>2 DEF Early

LEMMA MarkMoves ==
    ASSUME ConvergenceAssumption, ConvInv, NEW c \in Clients, call[c].pc \in Underway,
           NEW me \in CallRows, Same(c, me),
           NEW needed \in BOOLEAN, NEW refused \in BOOLEAN,
           NEW new \in RunRows, NEW pc \in Places,
           TryWrite(c, me, needed, refused, new, pc),
           UNCHANGED <<req, sess, tip>>,
           ~ needed => Knows(me, pc, run[me.k], req[me.k]),
           needed /\ me.fresh /\ ~ refused =>
              /\ Marked(me.snap, new)
              /\ RowSound(new, req[me.k])
              /\ Knows([me EXCEPT !.snap = new], pc, new, req[me.k])
    PROVE  Moves
  <1>1. ASSUME needed, me.fresh, ~ refused
        PROVE  Later(run[me.k], new, req[me.k])
    BY <1>1, UnderwayFacts, MarkedLater DEF Same
  <1> QED
    BY <1>1, TryWriteMoves

LEMMA PlainMark ==
    ASSUME ConvergenceAssumption, ConvInv, NEW c \in Clients, call[c].pc \in Underway,
           NEW me \in CallRows, Same(c, me),
           NEW needed \in BOOLEAN, NEW refused \in BOOLEAN,
           NEW new \in RunRows, NEW pc \in Plain \cup {"idle"},
           TryWrite(c, me, needed, refused, new, pc),
           UNCHANGED <<req, sess, tip>>,
           needed /\ ~ refused => Marked(me.snap, new),
           new.asked = me.snap.asked, new.cjob = me.snap.cjob, new.att = me.snap.att
    PROVE  Moves
  <1>1. me.k \in Runs /\ me.key \in Runs /\ run[me.k].phase # "none" /\ Told(me.snap, run[me.k])
        /\ RowSound(run[me.k], req[me.k]) /\ (me.fresh => me.snap = run[me.k])
    BY UnderwayFacts DEF Same
  <1>2. Knows(me, pc, run[me.k], req[me.k])
    BY <1>1, PlainKnows
  <1>3. ASSUME needed, me.fresh, ~ refused
        PROVE  /\ Marked(me.snap, new)
               /\ RowSound(new, req[me.k])
               /\ Knows([me EXCEPT !.snap = new], pc, new, req[me.k])
    <2>1. Marked(me.snap, new)
      BY <1>3
    <2>2. RowSound(new, req[me.k])
      BY <1>1, <1>3, <2>1 DEF RowSound, Marked
    <2> DEFINE y == [me EXCEPT !.snap = new]
    <2>3. y.snap = new /\ y.k = me.k /\ y.key = me.key
      BY DEF CallRows
    <2> HIDE DEF y
    <2>4. Told(y.snap, new) /\ new.phase # "none"
      BY <1>1, <1>3, <2>1, <2>3 DEF Told, Marked
    <2>5. Knows(y, pc, new, req[me.k])
      BY <1>1, <2>3, <2>4, PlainKnows
    <2> QED
      BY <2>1, <2>2, <2>5 DEF y
  <1> QED
    BY <1>2, <1>3, MarkMoves, PlainPlaces

LEMMA StageMoves ==
    ASSUME ConvergenceAssumption, ConvInv, NEW c \in Clients, call[c].pc \in Underway,
           NEW me \in CallRows, Same(c, me),
           NEW s \in AnalysisStages, NEW state \in {"ready", "failed"}, NEW pc \in Plain,
           RecordStage(c, me, s, state, pc),
           UNCHANGED <<req, sess, tip>>
    PROVE  Moves
  <1> DEFINE r == me.snap
  <1> DEFINE new == [r EXCEPT !.stage[s] = state]
  <1> DEFINE needed == r.stage[s] # state
  <1>1. r \in RunRows
    BY CallFields
  <1>2. new = [r EXCEPT !.stage = [r.stage EXCEPT ![s] = state]]
    BY <1>1 DEF RunRows
  <1>3. [r.stage EXCEPT ![s] = state] \in [AnalysisStages -> {"pending", "ready", "failed"}]
    BY <1>1, RowFields
  <1>4. /\ new \in RunRows /\ new.phase = r.phase /\ new.head = r.head /\ new.ijob = r.ijob
        /\ new.asked = r.asked /\ new.cjob = r.cjob /\ new.att = r.att
    BY <1>1, <1>2, <1>3 DEF RunRows
  <1>5. TryWrite(c, me, needed, Terminal(r), new, pc)
    BY DEF RecordStage
  <1>6. Terminal(r) \in BOOLEAN /\ needed \in BOOLEAN
    BY DEF Terminal
  <1> HIDE DEF new, needed
  <1>7. Marked(r, new)
    BY <1>4 DEF Marked
  <1> QED
    BY <1>4, <1>5, <1>6, <1>7, PlainMark

-----------------------------------------------------------------------------
(* The steps up to the analysis.                                           *)

LEMMA BeginMoves ==
    ASSUME ConvergenceAssumption, ConvInv, NEW c \in Clients, NEW k \in Runs, Begin(c, k)
    PROVE  Moves
  <1> DEFINE x == [Idle EXCEPT !.pc = "open", !.key = k, !.seen = sess,
                               !.sfresh = TRUE, !.wfresh = TRUE]
  <1>1. /\ x \in CallRows /\ x.pc = "open" /\ x.key = k /\ x.seen = sess
        /\ x.fresh = FALSE
    <2>1. Idle \in CallRows /\ Idle.fresh = FALSE /\ "open" \in Places /\ sess \in SessRows
      BY IdleTyped, InvFields DEF Places
    <2> QED
      BY <2>1 DEF CallRows
  <1>2. Continue(c, x) /\ UNCHANGED <<run, req, sess, tip>>
    BY DEF Begin
  <1> HIDE DEF x
  <1>3. CallSound(x, run, req, sess)
    BY <1>1 DEF CallSound, Knows, Underway
  <1> QED
    BY <1>1, <1>2, <1>3, Continues

LEMMA TakeMoves ==
    ASSUME ConvergenceAssumption, ConvInv, NEW c \in Clients, call[c].pc = "open",
           NEW k \in Runs, Exists(k), NEW pc \in {"verify", "block"},
           Take(c, k, pc), UNCHANGED <<run, req, sess, tip>>
    PROVE  Moves
  <1> DEFINE x == [call[c] EXCEPT !.pc = pc, !.k = k, !.snap = run[k], !.fresh = TRUE]
  <1>0. call[c] \in CallRows /\ run[k] \in RunRows /\ pc \in Places
    BY InvFields, PlainPlaces DEF Plain
  <1>1. /\ x \in CallRows /\ x.pc = pc /\ x.key = call[c].key /\ x.k = k
        /\ x.snap = run[k] /\ x.seen = call[c].seen /\ x.sfresh = call[c].sfresh
    BY <1>0 DEF CallRows
  <1>2. Continue(c, x)
    BY DEF Take
  <1> HIDE DEF x
  <1>3. x.key \in Runs /\ (x.sfresh => x.seen = sess)
    BY <1>1, InvFields DEF CallSound, Knows
  <1>4. Knows(x, pc, run[x.k], req[x.k])
    BY <1>1, <1>3, PlainKnows DEF Exists, Plain, Told
  <1>5. CallSound(x, run, req, sess)
    BY <1>1, <1>3, <1>4 DEF CallSound, Exists
  <1> QED
    BY <1>1, <1>2, <1>5, Continues

LEMMA UseRunMoves ==
    ASSUME ConvergenceAssumption, ConvInv, NEW c \in Clients, call[c].pc = "open",
           NEW k \in Runs, Exists(k),
           UseRun(c, k), UNCHANGED <<run, req, sess, tip>>
    PROVE  Moves
  <1>1. CASE ~ Terminal(run[k])
    BY <1>1, TakeMoves DEF UseRun
  <1>2. CASE Terminal(run[k]) /\ run[k].phase = "passed" /\ Mode[k] = "full"
    <2> DEFINE w == [req[k] EXCEPT !.att = run[k].att]
    <2> DEFINE x == [call[c] EXCEPT !.pc = "sync", !.k = k, !.snap = run[k],
                                  !.fresh = TRUE, !.q = w]
    <2>0. call[c] \in CallRows /\ run[k] \in RunRows /\ req[k] \in RequestRows
          /\ RowSound(run[k], req[k]) /\ "sync" \in Places /\ run[k].att \in BOOLEAN
      BY InvFields, RowFields DEF ConvInv, Typed, Requests, Places, Underway
    <2>1. w \in RequestRows /\ w.status = req[k].status /\ w.att = run[k].att
      BY <2>0 DEF RequestRows
    <2> HIDE DEF w
    <2>2. /\ x \in CallRows /\ x.pc = "sync" /\ x.key = call[c].key /\ x.k = k /\ x.q = w
          /\ x.snap = run[k] /\ x.seen = call[c].seen /\ x.sfresh = call[c].sfresh
      BY <2>0, <2>1 DEF CallRows
    <2>3. Continue(c, x)
      BY <1>2 DEF UseRun, w
    <2> HIDE DEF x
    <2>4. x.key \in Runs /\ (x.sfresh => x.seen = sess)
      BY <2>2, InvFields DEF CallSound, Knows
    <2>5. Knows(x, "sync", run[k], req[k])
      BY <1>2, <2>0, <2>1, <2>2, <2>4 DEF Knows, Exists, Told, RowSound
    <2>6. CallSound(x, run, req, sess)
      BY <2>2, <2>4, <2>5 DEF CallSound, Exists
    <2> QED
      BY <2>2, <2>3, <2>6, Continues
  <1>3. CASE Terminal(run[k]) /\ ~ (run[k].phase = "passed" /\ Mode[k] = "full")
    BY <1>3, Returns DEF UseRun
  <1> QED
    BY <1>1, <1>2, <1>3

LEMMA CreateMoves ==
    ASSUME ConvergenceAssumption, ConvInv, NEW c \in Clients, call[c].pc = "open",
           NEW k \in Runs, k = call[c].key, ~ Exists(k),
           NEW n, n = NewRun(call[c].seen.head),
           run' = [run EXCEPT ![k] = n],
           Continue(c, [call[c] EXCEPT !.pc = "verify", !.k = k, !.snap = n, !.fresh = TRUE]),
           UNCHANGED <<req, sess, tip>>
    PROVE  Moves
  <1> DEFINE x == [call[c] EXCEPT !.pc = "verify", !.k = k, !.snap = n, !.fresh = TRUE]
  <1>1. call[c] \in CallRows /\ call[c].seen \in SessRows /\ "verify" \in Places
    BY InvFields, CallFields DEF Places, Underway
  <1>2. n \in RunRows /\ n.phase = "accepted" /\ ~ n.asked /\ ~ n.cjob /\ ~ n.att
    <2>1. call[c].seen.head \in Commits
      BY <1>1 DEF SessRows
    <2> QED
      BY <2>1, NewRunTyped
  <1>3. /\ x \in CallRows /\ x.pc = "verify" /\ x.key = call[c].key /\ x.k = k
        /\ x.snap = n /\ x.seen = call[c].seen /\ x.sfresh = call[c].sfresh
    BY <1>1, <1>2 DEF CallRows
  <1>4. call' = [call EXCEPT ![c] = x]
    BY DEF Continue
  <1> HIDE DEF x
  <1>5. run' \in [Runs -> RunRows] /\ run'[k] = n /\ \A j \in Runs \ {k} : run'[j] = run[j]
    BY <1>2 DEF ConvInv, Typed
  <1>6. Typed' /\ call'[c] = x /\ \A d \in Clients \ {c} : call'[d] = call[d]
    BY <1>3, <1>4, <1>5 DEF ConvInv, Typed
  <1>7. ASSUME NEW j \in Runs
        PROVE  /\ RowSound(run'[j], req'[j]) /\ RequestSound(j, req'[j])
               /\ Later(run[j], run'[j], req[j]) /\ ReqLater(req[j], req'[j])
    <2>1. run[j] \in RunRows /\ req[j] \in RequestRows
          /\ RowSound(run[j], req[j]) /\ RequestSound(j, req[j])
      BY DEF ConvInv, Typed, Requests
    <2>2. Later(run[j], run[j], req[j]) /\ ReqLater(req[j], req[j])
      BY <2>1, LaterSame DEF ReqLater
    <2>3. CASE j = k
      <3>1. RowSound(n, req[k]) /\ Later(run[k], n, req[k])
        BY <1>2 DEF RowSound, Later, Exists
      <3> QED
        BY <1>5, <2>1, <2>2, <2>3, <3>1
    <2> QED
      BY <1>5, <2>1, <2>2, <2>3
  <1>8. CallSound(x, run', req', sess')
    <2>1. x.key \in Runs /\ (x.sfresh => x.seen = sess)
      BY <1>3, InvFields DEF CallSound
    <2>2. Knows(x, "verify", run'[k], req[k])
      BY <1>2, <1>3, <1>5, <2>1, PlainKnows DEF Plain, Told
    <2> QED
      BY <1>2, <1>3, <1>5, <2>1, <2>2 DEF CallSound
  <1>9. ASSUME NEW d \in Clients
        PROVE  \/ CallSound(call'[d], run', req', sess')
               \/ Follows(call[d], call'[d], run[call[d].k], run'[call[d].k], sess, sess')
    <2>1. CASE d # c /\ call[d].k # k
      <3>1. call[d].fresh => run'[call[d].k] = run[call[d].k]
        BY <1>5, <2>1, InvFields DEF CallSound
      <3> QED
        BY <1>6, <2>1, <3>1 DEF Follows
    <2>2. CASE d # c /\ call[d].k = k
      <3>1. CallSound(call[d], run, req, sess) /\ call[d] \in CallRows
        BY InvFields
      <3>2. call'[d] = call[d] /\ ~ call[d].fresh
        BY <1>6, <2>2, <3>1 DEF CallSound, Exists
      <3> QED
        BY <3>1, <3>2 DEF Follows
    <2> QED
      BY <1>6, <1>8, <2>1, <2>2
  <1> QED
    BY <1>6, <1>7, <1>9, Goes

LEMMA OpenMoves ==
    ASSUME ConvergenceAssumption, ConvInv, NEW c \in Clients, Open(c)
    PROVE  Moves
  <1>0. /\ call[c].pc = "open" /\ call[c].key \in Runs
        /\ UNCHANGED <<req, sess, tip>>
    BY InvFields DEF Open, At, CallSound, Knows
  <1>1. CASE Conflict(c) /\ UNCHANGED run /\ Exists(call[c].key)
    <2>1. CASE Terminal(run[call[c].key])
      BY <1>0, <1>1, <2>1, Returns DEF Conflict
    <2>2. CASE ~ Terminal(run[call[c].key])
      BY <1>0, <1>1, <2>2, TakeMoves DEF Conflict
    <2> QED
      BY <2>1, <2>2
  <1>2. CASE CreateOrGet(c)
    <2>1. CASE Exists(call[c].key)
      <3>1. UseRun(c, call[c].key) /\ UNCHANGED run
        BY <1>2, <2>1 DEF CreateOrGet
      <3> QED
        BY <1>0, <2>1, <3>1, UseRunMoves
    <2>2. CASE ~ Exists(call[c].key) /\ ActiveRuns(c) # {}
      <3>1. (\E a \in ActiveRuns(c) : UseRun(c, a)) /\ UNCHANGED run
        BY <1>2, <2>2 DEF CreateOrGet
      <3>2. PICK a \in ActiveRuns(c) : UseRun(c, a)
        BY <3>1
      <3>3. a \in Runs /\ Exists(a)
        BY DEF ActiveRuns
      <3> QED
        BY <1>0, <3>1, <3>2, <3>3, UseRunMoves
    <2>3. CASE ~ Exists(call[c].key) /\ ActiveRuns(c) = {}
      <3> DEFINE k == call[c].key
      <3> DEFINE n == NewRun(call[c].seen.head)
      <3>1. /\ run' = [run EXCEPT ![k] = n]
            /\ Continue(c, [call[c] EXCEPT !.pc = "verify", !.k = k, !.snap = n, !.fresh = TRUE])
        BY <1>2, <2>3 DEF CreateOrGet
      <3> HIDE DEF n
      <3>2. n = NewRun(call[c].seen.head)
        BY DEF n
      <3> QED
        BY <1>0, <2>3, <3>1, <3>2, CreateMoves
    <2> QED
      BY <2>1, <2>2, <2>3
  <1> QED
    BY <1>1, <1>2 DEF Open

LEMMA VerifyMoves ==
    ASSUME ConvergenceAssumption, ConvInv, NEW c \in Clients, Verify(c)
    PROVE  Moves
  <1>0. call[c].pc \in Underway /\ UNCHANGED <<run, req, sess, tip>>
    BY DEF Verify, At, Underway
  <1>1. PICK pc \in {"index", "block"} : Continue(c, Onward(call[c], pc))
    <2>1. \/ Continue(c, Onward(call[c], IF Verified(c) THEN "index" ELSE "block"))
          \/ Continue(c, Onward(call[c], "block"))
      BY DEF Verify
    <2> QED
      BY <2>1
  <1>2. pc \in Plain
    BY DEF Plain
  <1>3. Knows(call[c], pc, run[call[c].k], req[call[c].k])
    BY <1>0, <1>2, UnderwayFacts, PlainKnows
  <1> QED
    BY <1>0, <1>1, <1>2, <1>3, GoesOnward, PlainPlaces

LEMMA BlockMoves ==
    ASSUME ConvergenceAssumption, ConvInv, NEW c \in Clients, Block(c)
    PROVE  Moves
  <1>1. call[c].pc \in Underway /\ UNCHANGED <<req, sess, tip>>
        /\ Transition(c, "blocked", "blocked", "idle")
    BY DEF Block, At, Underway
  <1>2. "blocked" \in Phases /\ "blocked" \in RunStatuses
    BY DEF Phases, RunStatuses
  <1> QED
    BY <1>1, <1>2, PlainTransition

LEMMA AnsweredTyped ==
    ASSUME NEW k \in Keys, NEW h \in Commits
    PROVE  AnsweredBy(k, h) \in Jobs \cup {NoJob}
  <1>1. Active(h) \subseteq Jobs
    BY DEF Active
  <1>2. Active(h) # {} => (CHOOSE j \in Active(h) : TRUE) \in Active(h)
    OBVIOUS
  <1>3. <<k, h>> \in Jobs
    BY DEF Jobs
  <1> QED
    BY <1>1, <1>2, <1>3 DEF AnsweredBy

LEMMA IndexMoves ==
    ASSUME ConvergenceAssumption, ConvInv, NEW c \in Clients, Index(c)
    PROVE  Moves
  <1>0. call[c].pc \in Underway /\ UNCHANGED <<run, req, sess, tip>>
    BY DEF Index, LookAtIndex, AskForIndex, At, Underway
  <1>1. call[c] \in CallRows
    BY InvFields
  <1>2. ASSUME NEW x \in CallRows, Continue(c, x), x.pc \in {"recidx", "askidx", "bindidx"},
               x.key = call[c].key, x.k = call[c].k, x.snap = call[c].snap,
               x.seen = call[c].seen, x.fresh = call[c].fresh, x.sfresh = call[c].sfresh
        PROVE  Moves
    <2>1. x.pc \in Plain
      BY <1>2 DEF Plain
    <2>2. Knows(x, x.pc, run[x.k], req[x.k])
      BY <1>0, <1>2, <2>1, UnderwayFacts, PlainKnows
    <2> QED
      BY <1>0, <1>2, <2>2, GoesOn
  <1>3. "recidx" \in Places /\ "askidx" \in Places /\ "bindidx" \in Places
    BY DEF Places, Underway
  <1>4. ASSUME NEW i \in {"pending", "ready", "failed"},
               Continue(c, [call[c] EXCEPT !.pc = "recidx", !.index = i])
        PROVE  Moves
    <2> DEFINE x == [call[c] EXCEPT !.pc = "recidx", !.index = i]
    <2>1. /\ x \in CallRows /\ x.pc = "recidx" /\ x.key = call[c].key /\ x.k = call[c].k
          /\ x.snap = call[c].snap /\ x.seen = call[c].seen
          /\ x.fresh = call[c].fresh /\ x.sfresh = call[c].sfresh
      BY <1>1, <1>3 DEF CallRows
    <2>2. Continue(c, x)
      BY <1>4
    <2> HIDE DEF x
    <2> QED
      BY <1>2, <2>1, <2>2
  <1>5. ASSUME NEW answered \in BOOLEAN, LookAtIndex(c, answered)
        PROVE  Moves
    <2> DEFINE x == [call[c] EXCEPT !.pc = "askidx"]
    <2>1. /\ x \in CallRows /\ x.pc = "askidx" /\ x.key = call[c].key /\ x.k = call[c].k
          /\ x.snap = call[c].snap /\ x.seen = call[c].seen
          /\ x.fresh = call[c].fresh /\ x.sfresh = call[c].sfresh
      BY <1>1, <1>3 DEF CallRows
    <2>2. \/ Continue(c, [call[c] EXCEPT !.pc = "recidx", !.index = "ready"])
          \/ Continue(c, [call[c] EXCEPT !.pc = "recidx", !.index = "pending"])
          \/ Continue(c, x)
      BY <1>5 DEF LookAtIndex
    <2> HIDE DEF x
    <2> QED
      BY <1>2, <1>4, <2>1, <2>2
  <1>6. CASE AskForIndex(c)
    <2> DEFINE j == AnsweredBy(call[c].key, call[c].snap.head)
    <2>1. j \in Jobs \cup {NoJob}
      <3>1. call[c].key \in Keys /\ call[c].snap.head \in Commits
        BY <1>0, UnderwayFacts, RowFields DEF Runs
      <3> QED
        BY <3>1, AnsweredTyped
    <2>2. \/ Continue(c, [call[c] EXCEPT !.pc = "bindidx", !.job = j, !.index = IndexAnswer(j)])
          \/ Continue(c, [call[c] EXCEPT !.pc = "recidx", !.index = "ready"])
          \/ Continue(c, [call[c] EXCEPT !.pc = "recidx", !.index = "failed"])
      BY <1>6 DEF AskForIndex
    <2> HIDE DEF j
    <2>3. CASE Continue(c, [call[c] EXCEPT !.pc = "bindidx", !.job = j, !.index = IndexAnswer(j)])
      <3> DEFINE i == IndexAnswer(j)
      <3>1. i \in {"pending", "ready", "failed"}
        BY DEF IndexAnswer
      <3> HIDE DEF i
      <3> DEFINE x == [call[c] EXCEPT !.pc = "bindidx", !.job = j, !.index = i]
      <3>2. /\ x \in CallRows /\ x.pc = "bindidx" /\ x.key = call[c].key /\ x.k = call[c].k
            /\ x.snap = call[c].snap /\ x.seen = call[c].seen
            /\ x.fresh = call[c].fresh /\ x.sfresh = call[c].sfresh
        BY <1>1, <1>3, <2>1, <3>1 DEF CallRows
      <3>3. Continue(c, x)
        BY <2>3 DEF i
      <3> HIDE DEF x
      <3> QED
        BY <1>2, <3>2, <3>3
    <2> QED
      BY <1>4, <2>2, <2>3
  <1> QED
    BY <1>5, <1>6 DEF Index

LEMMA BindIndexMoves ==
    ASSUME ConvergenceAssumption, ConvInv, NEW c \in Clients, BindIndex(c)
    PROVE  Moves
  <1>0. call[c].pc \in Underway /\ UNCHANGED <<req, sess, tip>>
    BY DEF BindIndex, At, Underway
  <1> DEFINE me == call[c]
  <1> DEFINE r == me.snap
  <1> DEFINE new == [r EXCEPT !.ijob = me.job]
  <1> DEFINE refused == Terminal(r) \/ r.ijob \notin {NoJob, me.job}
  <1> DEFINE needed == TRUE
  <1>1. me \in CallRows /\ r \in RunRows /\ me.job \in Jobs \cup {NoJob} /\ Same(c, me)
    BY InvFields, CallFields DEF Same
  <1>2. /\ new \in RunRows /\ new.ijob = me.job /\ new.phase = r.phase /\ new.head = r.head
        /\ new.asked = r.asked /\ new.cjob = r.cjob /\ new.att = r.att
    BY <1>1 DEF RunRows
  <1>3. TryWrite(c, me, needed, refused, new, "recidx")
    BY DEF BindIndex, Bind
  <1>4. needed \in BOOLEAN /\ refused \in BOOLEAN
    BY DEF Terminal
  <1>5. ~ refused => Marked(r, new)
    BY <1>2 DEF Marked
  <1> HIDE DEF new, refused, needed
  <1>6. "recidx" \in Plain
    BY DEF Plain
  <1> QED
    BY <1>0, <1>1, <1>2, <1>3, <1>4, <1>5, <1>6, PlainMark

LEMMA RecordIndexMoves ==
    ASSUME ConvergenceAssumption, ConvInv, NEW c \in Clients, RecordIndex(c)
    PROVE  Moves
  <1>0. call[c].pc \in Underway /\ UNCHANGED <<req, sess, tip>>
    BY DEF RecordIndex, At, Underway
  <1>1. /\ "index" \in AnalysisStages /\ call[c] \in CallRows /\ Same(c, call[c])
        /\ "stages" \in Plain /\ "asked" \in Plain
    BY InvFields DEF AnalysisStages, Same, Plain
  <1>2. CASE call[c].index = "ready"
    <2>1. RecordStage(c, call[c], "index", "ready", "stages")
      BY <1>2 DEF RecordIndex
    <2> QED
      BY <1>0, <1>1, <2>1, StageMoves
  <1>3. CASE call[c].index = "failed"
    <2>1. RecordStage(c, call[c], "index", "failed", "asked")
      BY <1>3 DEF RecordIndex
    <2> QED
      BY <1>0, <1>1, <2>1, StageMoves
  <1>4. CASE call[c].index \notin {"ready", "failed"}
    <2>1. Continue(c, Onward(call[c], "asked")) /\ UNCHANGED run
      BY <1>4 DEF RecordIndex
    <2>2. Knows(call[c], "asked", run[call[c].k], req[call[c].k])
      BY <1>0, <1>1, UnderwayFacts, PlainKnows
    <2> QED
      BY <1>0, <1>1, <2>1, <2>2, GoesOnward, PlainPlaces
  <1> QED
    BY <1>2, <1>3, <1>4

-----------------------------------------------------------------------------
(* The analysis and the CI track.                                          *)

LEMMA IndexRequestedMoves ==
    ASSUME ConvergenceAssumption, ConvInv, NEW c \in Clients, IndexRequested(c)
    PROVE  Moves
  <1>1. /\ call[c].pc \in Underway /\ UNCHANGED <<req, sess, tip>>
        /\ Early(c, "index_requested", "index_requested", "pending", "waiting")
    BY DEF IndexRequested, At, Underway
  <1>2. /\ "index_requested" \in Phases /\ "pending" \in RunStatuses /\ "waiting" \in Plain
    BY DEF Phases, RunStatuses, Plain
  <1> QED
    BY <1>1, <1>2, EarlyMoves

LEMMA AnalysisPendingMoves ==
    ASSUME ConvergenceAssumption, ConvInv, NEW c \in Clients, AnalysisPending(c)
    PROVE  Moves
  <1> DEFINE status == IF call[c].index = "failed" THEN "degraded" ELSE "pending"
  <1>1. /\ call[c].pc \in Underway /\ UNCHANGED <<req, sess, tip>>
        /\ Early(c, "analysis_pending", "analysis_pending", status, "request")
    BY DEF AnalysisPending, At, Underway
  <1>2. /\ "analysis_pending" \in Phases /\ status \in RunStatuses /\ "request" \in Plain
    BY DEF Phases, RunStatuses, Plain
  <1> HIDE DEF status
  <1> QED
    BY <1>1, <1>2, EarlyMoves

LEMMA RunStagesMoves ==
    ASSUME ConvergenceAssumption, ConvInv, NEW c \in Clients, RunStages(c)
    PROVE  Moves
  <1>0. call[c].pc \in Underway /\ UNCHANGED <<run, req, sess, tip>>
    BY DEF RunStages, At, Underway
  <1> DEFINE pending == {s \in Stages : call[c].snap.stage[s] = "pending"}
  <1>1. PICK bad \in SUBSET pending, stored \in BOOLEAN :
           Continue(c, [call[c] EXCEPT !.pc = "record", !.todo = pending, !.bad = bad,
                                      !.whole = stored /\ bad = {}])
    BY DEF RunStages
  <1> DEFINE whole == stored /\ bad = {}
  <1>2. pending \in SUBSET Stages /\ bad \in SUBSET Stages /\ whole \in BOOLEAN
        /\ "record" \in Places /\ "record" \in Plain /\ call[c] \in CallRows
    BY InvFields DEF Places, Underway, Plain
  <1> HIDE DEF pending, whole
  <1> DEFINE x == [call[c] EXCEPT !.pc = "record", !.todo = pending, !.bad = bad, !.whole = whole]
  <1>3. /\ x \in CallRows /\ x.pc = "record" /\ x.key = call[c].key /\ x.k = call[c].k
        /\ x.snap = call[c].snap /\ x.seen = call[c].seen
        /\ x.fresh = call[c].fresh /\ x.sfresh = call[c].sfresh
    BY <1>2 DEF CallRows
  <1>4. Continue(c, x)
    BY <1>1 DEF whole
  <1> HIDE DEF x
  <1>5. Knows(x, x.pc, run[x.k], req[x.k])
    BY <1>0, <1>2, <1>3, UnderwayFacts, PlainKnows
  <1> QED
    BY <1>0, <1>3, <1>4, <1>5, GoesOn

LEMMA RecordOneMoves ==
    ASSUME ConvergenceAssumption, ConvInv, NEW c \in Clients, RecordOne(c)
    PROVE  Moves
  <1>0. call[c].pc \in Underway /\ call[c].todo # {} /\ UNCHANGED <<req, sess, tip>>
    BY DEF RecordOne, At, Underway
  <1> DEFINE s == CHOOSE s \in call[c].todo : TRUE
  <1> DEFINE me == [call[c] EXCEPT !.todo = @ \ {s}]
  <1> DEFINE state == IF s \in call[c].bad THEN "failed" ELSE "ready"
  <1>1. RecordStage(c, me, s, state, "record")
    BY DEF RecordOne
  <1>2. call[c] \in CallRows /\ call[c].todo \subseteq Stages /\ s \in call[c].todo
    BY <1>0, InvFields, CallFields
  <1> HIDE DEF s
  <1>3. me \in CallRows /\ Same(c, me)
    BY <1>2 DEF CallRows, Same
  <1>4. s \in AnalysisStages /\ state \in {"ready", "failed"} /\ "record" \in Plain
    BY <1>2 DEF AnalysisStages, Plain
  <1> HIDE DEF me, state
  <1> QED
    BY <1>0, <1>1, <1>3, <1>4, StageMoves

LEMMA AnalysisReadyMoves ==
    ASSUME ConvergenceAssumption, ConvInv, NEW c \in Clients, AnalysisReady(c)
    PROVE  Moves
  <1> DEFINE status == IF AllReady(call[c].snap) THEN "ready"
                       ELSE IF call[c].whole THEN "pending" ELSE "degraded"
  <1>1. /\ call[c].pc \in Underway /\ UNCHANGED <<req, sess, tip>>
        /\ Early(c, "ci_requested", "analysis_pending", status, "request")
    BY DEF AnalysisReady, At, Underway
  <1>2. /\ "analysis_pending" \in Phases /\ "ci_requested" \in Phases
        /\ status \in RunStatuses /\ "request" \in Plain
    BY DEF Phases, RunStatuses, Plain
  <1> HIDE DEF status
  <1> QED
    BY <1>1, <1>2, EarlyMoves

\* A call whose CI track begins goes on where it knows what it has to.
LEMMA OntoSound ==
    ASSUME ConvergenceAssumption, ConvInv, NEW c \in Clients, call[c].pc \in Underway,
           NEW pc \in Places, Onto(c, pc), NEW rq,
           Knows(call[c], pc, run[call[c].k], rq[call[c].k])
    PROVE  \E x \in CallRows :
             /\ Continue(c, x)
             /\ CallSound(x, run, rq, sess)
  <1> DEFINE whole == call[c].whole /\ AllReady(call[c].snap)
  <1> DEFINE x == [call[c] EXCEPT !.pc = pc, !.whole = whole, !.todo = {}, !.bad = {},
                                !.job = NoJob]
  <1>1. call[c] \in CallRows /\ whole \in BOOLEAN
    BY InvFields, CallFields DEF AllReady
  <1>2. Continue(c, x)
    <2>1. x = [call[c] EXCEPT !.pc = pc, !.whole = @ /\ AllReady(call[c].snap),
                              !.todo = {}, !.bad = {}, !.job = NoJob]
      BY <1>1 DEF CallRows
    <2> QED
      BY <2>1 DEF Onto
  <1> HIDE DEF whole
  <1>3. /\ x \in CallRows /\ x.pc = pc /\ x.key = call[c].key /\ x.k = call[c].k
        /\ x.snap = call[c].snap /\ x.seen = call[c].seen /\ x.q = call[c].q
        /\ x.fresh = call[c].fresh /\ x.sfresh = call[c].sfresh
    BY <1>1 DEF CallRows
  <1> HIDE DEF x
  <1>4. Knows(x, x.pc, run[x.k], rq[x.k])
    BY <1>3 DEF Knows
  <1>5. CallSound(x, run, rq, sess)
    BY <1>3, <1>4, InvFields DEF CallSound
  <1> QED
    BY <1>2, <1>3, <1>5

\* A step of a call or of the CI control plane that writes one Request.
LEMMA RequestMovesOn ==
    ASSUME ConvInv, NEW k \in Runs, NEW p \in RequestRows,
           req' = [req EXCEPT ![k] = p],
           ReqLater(req[k], p), RequestSound(k, p),
           UNCHANGED <<run, sess, tip>>,
           call' \in [Clients -> CallRows],
           \A c \in Clients : call'[c] = call[c] \/ CallSound(call'[c], run', req', sess')
    PROVE  Moves
  <1>1. /\ req' \in [Requests -> RequestRows] /\ req'[k] = p
        /\ \A j \in Runs \ {k} : req'[j] = req[j]
    BY DEF ConvInv, Typed, Requests
  <1>2. Typed'
    BY <1>1 DEF ConvInv, Typed
  <1>3. ASSUME NEW j \in Runs
        PROVE  /\ RowSound(run'[j], req'[j]) /\ RequestSound(j, req'[j])
               /\ Later(run[j], run'[j], req[j]) /\ ReqLater(req[j], req'[j])
    <2>1. run[j] \in RunRows /\ req[j] \in RequestRows
          /\ RowSound(run[j], req[j]) /\ RequestSound(j, req[j])
      BY DEF ConvInv, Typed, Requests
    <2>2. Later(run[j], run[j], req[j]) /\ ReqLater(req[j], req[j])
      BY <2>1, LaterSame DEF ReqLater
    <2>3. ReqLater(req[j], req'[j]) /\ RequestSound(j, req'[j])
      BY <1>1, <2>1, <2>2
    <2>4. RowSound(run[j], req'[j])
      BY <2>1, <2>3 DEF RowSound, ReqLater
    <2> QED
      BY <2>2, <2>3, <2>4
  <1>4. \A c \in Clients :
          \/ CallSound(call'[c], run', req', sess')
          \/ Follows(call[c], call'[c], run[call[c].k], run'[call[c].k], sess, sess')
    BY FollowsSelf
  <1> QED
    BY <1>2, <1>3, <1>4, Goes

LEMMA CreateRequestMoves ==
    ASSUME ConvergenceAssumption, ConvInv, NEW c \in Clients, CreateRequest(c)
    PROVE  Moves
  <1>0. call[c].pc \in Underway /\ UNCHANGED <<run, sess, tip>>
    BY DEF CreateRequest, At, Underway
  <1> DEFINE k == call[c].k
  <1>1. "read" \in Places /\ "bindreq" \in Places
    BY DEF Places, Underway
  <1>2. CASE call[c].snap.asked
    <2>1. Onto(c, "read") /\ UNCHANGED req
      BY <1>2 DEF CreateRequest
    <2>2. Knows(call[c], "read", run[k], req[k])
      BY <1>0, <1>2, UnderwayFacts DEF Knows, Told
    <2>3. PICK x \in CallRows : Continue(c, x) /\ CallSound(x, run, req, sess)
      BY <1>0, <1>1, <2>1, <2>2, OntoSound
    <2> QED
      BY <1>0, <2>1, <2>3, Continues
  <1>3. CASE ~ call[c].snap.asked
    <2> DEFINE p == IF req[k].status = "none" THEN [req[k] EXCEPT !.status = "accepted"]
                                              ELSE req[k]
    <2>1. Onto(c, "bindreq")
          /\ req' = [req EXCEPT ![k] = IF @.status = "none" THEN [@ EXCEPT !.status = "accepted"]
                                       ELSE @]
      BY <1>3 DEF CreateRequest
    <2>2. k \in Runs /\ req[k] \in RequestRows /\ RequestSound(k, req[k])
      BY <1>0, UnderwayFacts
    <2>3. p \in RequestRows /\ p.status # "none" /\ ReqLater(req[k], p) /\ RequestSound(k, p)
      <3>1. [req[k] EXCEPT !.status = "accepted"] \in RequestRows
            /\ [req[k] EXCEPT !.status = "accepted"].status = "accepted"
            /\ [req[k] EXCEPT !.status = "accepted"].att = req[k].att
        BY <2>2 DEF RequestRows
      <3> QED
        BY <2>2, <3>1 DEF ReqLater, RequestSound
    <2>4. req' = [req EXCEPT ![k] = p]
      BY <2>1, <2>2 DEF ConvInv, Typed
    <2> HIDE DEF p
    <2>5. req'[k] = p
      BY <2>2, <2>4 DEF ConvInv, Typed, Requests
    <2>6. Knows(call[c], "bindreq", run[k], req'[k])
      BY <1>0, <2>3, <2>5, UnderwayFacts DEF Knows
    <2>7. PICK x \in CallRows : Continue(c, x) /\ CallSound(x, run, req', sess)
      <3> DEFINE rp == req'
      <3>1. Knows(call[c], "bindreq", run[k], rp[k])
        BY <2>6
      <3> HIDE DEF rp
      <3>2. \E x \in CallRows : Continue(c, x) /\ CallSound(x, run, rp, sess)
        BY <1>0, <1>1, <2>1, <3>1, OntoSound
      <3> QED
        BY <3>2 DEF rp
    <2>8. /\ call' \in [Clients -> CallRows]
          /\ call'[c] = x /\ \A d \in Clients \ {c} : call'[d] = call[d]
      BY <2>7 DEF ConvInv, Typed, Continue
    <2>9. \A d \in Clients : call'[d] = call[d] \/ CallSound(call'[d], run', req', sess')
      BY <1>0, <2>7, <2>8
    <2> QED
      BY <1>0, <2>2, <2>3, <2>4, <2>8, <2>9, RequestMovesOn
  <1> QED
    BY <1>2, <1>3

LEMMA BindRequestMoves ==
    ASSUME ConvergenceAssumption, ConvInv, NEW c \in Clients, BindRequest(c)
    PROVE  Moves
  <1>0. call[c].pc \in Underway /\ call[c].pc = "bindreq" /\ UNCHANGED <<req, sess, tip>>
    BY DEF BindRequest, At, Underway
  <1> DEFINE me == call[c]
  <1> DEFINE r == me.snap
  <1> DEFINE new == [r EXCEPT !.asked = TRUE]
  <1> DEFINE refused == Terminal(r) \/ r.asked \notin {FALSE, TRUE}
  <1> DEFINE needed == TRUE
  <1>1. me \in CallRows /\ r \in RunRows /\ Same(c, me)
    BY InvFields, CallFields DEF Same
  <1>2. /\ new \in RunRows /\ new.asked = TRUE /\ new.phase = r.phase /\ new.head = r.head
        /\ new.ijob = r.ijob /\ new.cjob = r.cjob /\ new.att = r.att
    BY <1>1 DEF RunRows
  <1>3. TryWrite(c, me, needed, refused, new, "read")
    BY DEF BindRequest, Bind
  <1>4. needed \in BOOLEAN /\ refused \in BOOLEAN
    BY DEF Terminal
  <1>9. needed
    OBVIOUS
  <1> DEFINE y == [me EXCEPT !.snap = new]
  <1>5. y.snap = new /\ y.k = me.k /\ y.key = me.key
    BY <1>1 DEF CallRows
  <1> HIDE DEF new, refused, needed, y
  <1>8. ~ needed => Knows(me, "read", run[me.k], req[me.k])
    BY <1>9
  <1>6. ASSUME me.fresh, needed
        PROVE  Marked(r, new) /\ RowSound(new, req[me.k]) /\ Knows(y, "read", new, req[me.k])
    <2>1. r = run[me.k] /\ RowSound(r, req[me.k]) /\ r.phase # "none"
          /\ req[me.k].status # "none" /\ me.k \in Runs /\ me.key \in Runs
      BY <1>0, <1>6, UnderwayFacts DEF Knows
    <2>2. Marked(r, new)
      BY <1>2 DEF Marked
    <2>3. RowSound(new, req[me.k])
      BY <1>2, <2>1 DEF RowSound
    <2>4. Knows(y, "read", new, req[me.k])
      BY <1>2, <1>5, <2>1 DEF Knows, Told
    <2> QED
      BY <2>2, <2>3, <2>4
  <1>7. "read" \in Places
    BY DEF Places, Underway
  <1> QED
    BY <1>0, <1>1, <1>2, <1>3, <1>4, <1>6, <1>7, <1>8, MarkMoves DEF y

LEMMA ReadRequestMoves ==
    ASSUME ConvergenceAssumption, ConvInv, NEW c \in Clients, ReadRequest(c)
    PROVE  Moves
  <1>0. call[c].pc \in Underway /\ call[c].pc = "read" /\ UNCHANGED <<run, req, sess, tip>>
    BY DEF ReadRequest, At, Underway
  <1> DEFINE k == call[c].k
  <1> DEFINE pc == IF HasJob(req[k]) /\ ~ call[c].snap.cjob THEN "bindjob" ELSE "finalize"
  <1> DEFINE x == [call[c] EXCEPT !.q = req[k], !.pc = pc]
  <1>1. /\ call[c] \in CallRows /\ req[k] \in RequestRows /\ k \in Runs /\ call[c].key \in Runs
        /\ run[k].phase # "none" /\ Told(call[c].snap, run[k]) /\ run[k].asked
        /\ RowSound(run[k], req[k])
    BY <1>0, UnderwayFacts DEF Knows
  <1>2. pc \in Places
    BY DEF Places, Underway
  <1>3. Continue(c, x)
    BY DEF ReadRequest
  <1>4. pc \in {"bindjob", "finalize"}
    OBVIOUS
  <1>5. pc = "finalize" /\ req[k].status = "passed" => run[k].cjob
    BY <1>1 DEF HasJob, Told
  <1> HIDE DEF pc
  <1>6. /\ x \in CallRows /\ x.pc = pc /\ x.key = call[c].key /\ x.k = k /\ x.q = req[k]
        /\ x.snap = call[c].snap /\ x.seen = call[c].seen
        /\ x.fresh = call[c].fresh /\ x.sfresh = call[c].sfresh
    BY <1>1, <1>2 DEF CallRows
  <1> HIDE DEF x
  <1>7. Knows(x, x.pc, run[x.k], req[x.k])
    BY <1>1, <1>4, <1>5, <1>6 DEF Knows, RowSound
  <1> QED
    BY <1>0, <1>3, <1>6, <1>7, GoesOn

LEMMA BindJobMoves ==
    ASSUME ConvergenceAssumption, ConvInv, NEW c \in Clients, BindJob(c)
    PROVE  Moves
  <1>0. call[c].pc \in Underway /\ call[c].pc = "bindjob" /\ UNCHANGED <<req, sess, tip>>
    BY DEF BindJob, At, Underway
  <1> DEFINE me == call[c]
  <1> DEFINE r == me.snap
  <1> DEFINE new == [r EXCEPT !.cjob = TRUE]
  <1> DEFINE refused == Terminal(r) \/ r.cjob \notin {FALSE, TRUE}
  <1> DEFINE needed == TRUE
  <1>1. me \in CallRows /\ r \in RunRows /\ Same(c, me)
    BY InvFields, CallFields DEF Same
  <1>2. /\ new \in RunRows /\ new.cjob = TRUE /\ new.phase = r.phase /\ new.head = r.head
        /\ new.ijob = r.ijob /\ new.asked = r.asked /\ new.att = r.att
    BY <1>1 DEF RunRows
  <1>3. TryWrite(c, me, needed, refused, new, "finalize")
    BY DEF BindJob, Bind
  <1>4. needed \in BOOLEAN /\ refused \in BOOLEAN
    BY DEF Terminal
  <1>9. needed
    OBVIOUS
  <1> DEFINE y == [me EXCEPT !.snap = new]
  <1>5. y.snap = new /\ y.k = me.k /\ y.key = me.key /\ y.q = me.q
    BY <1>1 DEF CallRows
  <1> HIDE DEF new, refused, needed, y
  <1>8. ~ needed => Knows(me, "finalize", run[me.k], req[me.k])
    BY <1>9
  <1>6. ASSUME me.fresh, needed
        PROVE  Marked(r, new) /\ RowSound(new, req[me.k]) /\ Knows(y, "finalize", new, req[me.k])
    <2>1. r = run[me.k] /\ RowSound(r, req[me.k]) /\ Knows(me, "bindjob", r, req[me.k])
      BY <1>0, <1>6, UnderwayFacts
    <2>2. Marked(r, new)
      BY <1>2 DEF Marked
    <2>3. r.asked /\ me.k \in Runs /\ me.key \in Runs /\ r.phase # "none"
      BY <2>1 DEF Knows, Underway
    <2>4. RowSound(new, req[me.k])
      BY <1>2, <2>1, <2>3 DEF RowSound
    <2>5. Knows(y, "finalize", new, req[me.k])
      BY <1>2, <1>5, <2>1, <2>3 DEF Knows, Told
    <2> QED
      BY <2>2, <2>4, <2>5
  <1>7. "finalize" \in Places
    BY DEF Places, Underway
  <1> QED
    BY <1>0, <1>1, <1>2, <1>3, <1>4, <1>6, <1>7, <1>8, MarkMoves DEF y

LEMMA CITrackFailedMoves ==
    ASSUME ConvergenceAssumption, ConvInv, NEW c \in Clients, CITrackFailed(c)
    PROVE  Moves
  <1>1. call[c].pc \in Underway /\ UNCHANGED <<req, sess, tip>>
        /\ Transition(c, "failed", "failed", "idle")
    BY DEF CITrackFailed, At, Underway
  <1>2. "failed" \in Phases /\ "failed" \in RunStatuses
    BY DEF Phases, RunStatuses
  <1> QED
    BY <1>1, <1>2, PlainTransition

LEMMA EvidenceMoves ==
    ASSUME ConvergenceAssumption, ConvInv, NEW c \in Clients, call[c].pc = "finalize",
           call[c].q.status = "passed",
           RecordEvidence(c, "proven"), UNCHANGED <<req, sess, tip>>
    PROVE  Moves
  <1>0. call[c].pc \in Underway
    BY DEF Underway
  <1> DEFINE me == call[c]
  <1> DEFINE r == me.snap
  <1> DEFINE new == [r EXCEPT !.att = TRUE]
  <1> DEFINE refused == FALSE
  <1> DEFINE needed == me.q.att /\ ~ r.att
  <1>1. me \in CallRows /\ r \in RunRows /\ Same(c, me) /\ r.att \in BOOLEAN
    BY InvFields, CallFields, RowFields DEF Same
  <1>2. /\ new \in RunRows /\ new.cjob = r.cjob /\ new.phase = r.phase /\ new.head = r.head
        /\ new.ijob = r.ijob /\ new.asked = r.asked /\ new.att = TRUE
    BY <1>1 DEF RunRows
  <1>3. TryWrite(c, me, needed, refused, new, "proven")
    BY DEF RecordEvidence
  <1>4. needed \in BOOLEAN /\ refused \in BOOLEAN
    OBVIOUS
  <1>5. Knows(me, "finalize", run[me.k], req[me.k]) /\ Told(r, run[me.k])
    BY <1>0, UnderwayFacts
  <1>6. ~ needed => Knows(me, "proven", run[me.k], req[me.k])
    BY <1>5 DEF Knows, Told, Underway
  <1>7. needed => me.q.att
    OBVIOUS
  <1> DEFINE y == [me EXCEPT !.snap = new]
  <1>8. y.snap = new /\ y.k = me.k /\ y.key = me.key /\ y.q = me.q
    BY <1>1 DEF CallRows
  <1> HIDE DEF new, refused, needed, y
  <1>9. ASSUME me.fresh, needed
        PROVE  Marked(r, new) /\ RowSound(new, req[me.k]) /\ Knows(y, "proven", new, req[me.k])
    <2>1. r = run[me.k] /\ RowSound(r, req[me.k])
      BY <1>0, <1>9, UnderwayFacts
    <2>2. Marked(r, new)
      BY <1>2 DEF Marked
    <2>3. /\ r.cjob /\ me.k \in Runs /\ me.key \in Runs /\ r.phase # "none"
          /\ me.q.att /\ req[me.k].att /\ req[me.k].status = "passed"
      BY <1>5, <1>7, <1>9, <2>1 DEF Knows, Underway
    <2>4. RowSound(new, req[me.k])
      BY <1>2, <2>1, <2>3 DEF RowSound
    <2>5. Knows(y, "proven", new, req[me.k])
      BY <1>2, <1>8, <2>3 DEF Knows, Told
    <2> QED
      BY <2>2, <2>4, <2>5
  <1>10. "proven" \in Places
    BY DEF Places, Underway
  <1> QED
    BY <1>0, <1>1, <1>2, <1>3, <1>4, <1>6, <1>9, <1>10, MarkMoves DEF y

LEMMA FinalizeMoves ==
    ASSUME ConvergenceAssumption, ConvInv, NEW c \in Clients, Finalize(c)
    PROVE  Moves
  <1> DEFINE q == call[c].q
  <1>0. call[c].pc \in Underway /\ call[c].pc = "finalize" /\ UNCHANGED <<req, sess, tip>>
    BY DEF Finalize, At, Underway
  <1>1. q \in RequestRows /\ q.status # "none"
    BY <1>0, UnderwayFacts, CallFields DEF Knows
  <1>2. CASE ~ Ended(q)
    <2> DEFINE phase == IF q.status = "running" THEN "ci_running" ELSE "ci_requested"
    <2>1. Transition(c, phase, q.status, "idle")
      BY <1>2 DEF Finalize, Ended
    <2>2. phase \in Phases /\ phase \notin {"none", "passed"} /\ q.status \in RunStatuses
      BY <1>1, <1>2 DEF Phases, RunStatuses, RequestRows, Ended
    <2> HIDE DEF phase
    <2> QED
      BY <1>0, <2>1, <2>2, PlainTransition
  <1>3. CASE q.status = "failed"
    <2>1. Transition(c, "failed", "failed", "idle")
      BY <1>3 DEF Finalize, Ended
    <2>2. "failed" \in Phases /\ "failed" \in RunStatuses
      BY DEF Phases, RunStatuses
    <2> QED
      BY <1>0, <2>1, <2>2, PlainTransition
  <1>4. CASE q.status = "passed" /\ FullGate(c) /\ ~ q.att
    <2>1. Transition(c, "post_ci_finalize", "pending", "idle")
      BY <1>4 DEF Finalize, Ended
    <2>2. "post_ci_finalize" \in Phases /\ "pending" \in RunStatuses
      BY DEF Phases, RunStatuses
    <2> QED
      BY <1>0, <2>1, <2>2, PlainTransition
  <1>5. CASE q.status = "passed" /\ ~ (FullGate(c) /\ ~ q.att)
    <2>1. RecordEvidence(c, "proven")
      BY <1>5 DEF Finalize, Ended
    <2> QED
      BY <1>0, <1>5, <2>1, EvidenceMoves
  <1> QED
    BY <1>1, <1>2, <1>3, <1>4, <1>5 DEF RequestRows, Ended

LEMMA CompleteMoves ==
    ASSUME ConvergenceAssumption, ConvInv, NEW c \in Clients, Complete(c)
    PROVE  Moves
  <1>0. call[c].pc \in Underway /\ call[c].pc = "proven" /\ UNCHANGED <<req, sess, tip>>
    BY DEF Complete, At, Underway
  <1>1. CASE call[c].whole /\ AllReady(call[c].snap)
    <2>1. Continue(c, Onward(call[c], "sync")) /\ UNCHANGED run
      BY <1>1 DEF Complete
    <2>2. Knows(call[c], "sync", run[call[c].k], req[call[c].k])
      BY <1>0, UnderwayFacts DEF Knows
    <2> QED
      BY <1>0, <2>1, <2>2, GoesOnward DEF Places, Underway
  <1>2. CASE ~ (call[c].whole /\ AllReady(call[c].snap))
    <2> DEFINE status == IF call[c].index = "pending" THEN "pending" ELSE "degraded"
    <2>1. Transition(c, "post_ci_finalize", status, "idle")
      BY <1>2 DEF Complete
    <2>2. "post_ci_finalize" \in Phases /\ status \in RunStatuses
      BY DEF Phases, RunStatuses
    <2> HIDE DEF status
    <2> QED
      BY <1>0, <2>1, <2>2, PlainTransition
  <1> QED
    BY <1>1, <1>2

LEMMA SyncMoves ==
    ASSUME ConvergenceAssumption, ConvInv, NEW c \in Clients, Sync(c)
    PROVE  Moves
  <1>0. call[c].pc \in Underway /\ call[c].pc = "sync" /\ UNCHANGED <<run, req, sess, tip>>
    BY DEF Sync, At, Underway
  <1>1. \/ Return(c)
        \/ Provable(c) /\ Continue(c, Onward(call[c], AfterSync(c)))
        \/ Provable(c) /\ Continue(c, Onward(call[c], "bindev"))
    BY DEF Sync
  <1>2. CASE Provable(c) /\ Continue(c, Onward(call[c], AfterSync(c)))
    <2>1. AfterSync(c) \in {"idle", "finalizing"} /\ AfterSync(c) \in Places
      BY DEF AfterSync, Places, Underway
    <2>2. Knows(call[c], AfterSync(c), run[call[c].k], req[call[c].k])
      BY <1>0, <1>2, <2>1, UnderwayFacts DEF Knows, Provable, Underway
    <2> QED
      BY <1>0, <1>2, <2>1, <2>2, GoesOnward
  <1>3. CASE Provable(c) /\ Continue(c, Onward(call[c], "bindev"))
    <2>1. "bindev" \in Places
      BY DEF Places, Underway
    <2>2. Knows(call[c], "bindev", run[call[c].k], req[call[c].k])
      BY <1>0, <1>3, UnderwayFacts DEF Knows, Provable, Underway
    <2> QED
      BY <1>0, <1>3, <2>1, <2>2, GoesOnward
  <1> QED
    BY <1>0, <1>1, <1>2, <1>3, Returns

\* A write to the session row makes its copies stale and nothing else.
LEMMA SessionMoves ==
    ASSUME ConvergenceAssumption, ConvInv, NEW new \in SessRows, NEW moved \in BOOLEAN,
           NEW calls \in [Clients -> CallRows],
           WriteSession(new, moved, calls), UNCHANGED <<run, req, tip>>,
           \A c \in Clients : CallSound(calls[c], run, req, sess)
    PROVE  Moves
  <1>1. ASSUME NEW c \in Clients
        PROVE  call'[c] \in CallRows /\ CallSound(call'[c], run, req, new)
    <2> DEFINE w == calls[c].wfresh /\ ~ moved
    <2> DEFINE y == [calls[c] EXCEPT !.sfresh = FALSE, !.wfresh = w]
    <2>1. calls[c] \in CallRows /\ w \in BOOLEAN
      BY CallFields
    <2>2. call'[c] = y
      <3>1. call'[c] = [calls[c] EXCEPT !.sfresh = FALSE, !.wfresh = @ /\ ~ moved]
        BY DEF WriteSession
      <3> QED
        BY <2>1, <3>1 DEF CallRows
    <2> HIDE DEF w
    <2>3. /\ y \in CallRows /\ y.sfresh = FALSE /\ y.pc = calls[c].pc /\ y.key = calls[c].key
          /\ y.k = calls[c].k /\ y.snap = calls[c].snap /\ y.q = calls[c].q
          /\ y.seen = calls[c].seen /\ y.fresh = calls[c].fresh
      BY <2>1 DEF CallRows
    <2> HIDE DEF y
    <2>4. Knows(y, y.pc, run[y.k], req[y.k])
      BY <2>3 DEF CallSound, Knows, Told
    <2>5. CallSound(y, run, req, new)
      BY <2>3, <2>4 DEF CallSound
    <2> QED
      BY <2>2, <2>3, <2>5
  <1>2. call' \in [Clients -> CallRows]
    BY <1>1 DEF WriteSession
  <1>3. Typed'
    BY <1>2 DEF ConvInv, Typed, WriteSession
  <1>4. \A c \in Clients : CallSound(call'[c], run', req', sess')
    BY <1>1 DEF WriteSession
  <1> QED
    BY <1>3, <1>4, RowsStay, Goes

LEMMA BindEvidenceMoves ==
    ASSUME ConvergenceAssumption, ConvInv, NEW c \in Clients, BindEvidence(c)
    PROVE  Moves
  <1>0. call[c].pc \in Underway /\ call[c].pc = "bindev" /\ UNCHANGED <<run, req, tip>>
    BY DEF BindEvidence, At, Underway
  <1> DEFINE x == Onward(call[c], AfterSync(c))
  <1> DEFINE done == [call EXCEPT ![c] = x]
  <1>1. AfterSync(c) \in {"idle", "finalizing"} /\ AfterSync(c) \in Places
    BY DEF AfterSync, Places, Underway
  <1>2. Knows(call[c], AfterSync(c), run[call[c].k], req[call[c].k])
    BY <1>0, <1>1, UnderwayFacts DEF Knows, Underway
  <1>3. x \in CallRows
    BY <1>1, OnwardTyped, InvFields
  <1>4. CallSound(x, run, req, sess)
    BY <1>1, <1>2, OnwardSound, InvFields DEF CallSound
  <1>5. \/ call[c].sfresh /\ WriteSession([sess EXCEPT !.ev = call[c].k], FALSE, done)
        \/ call' = done /\ UNCHANGED sess
        \/ Return(c) /\ UNCHANGED sess
    BY DEF BindEvidence
  <1> HIDE DEF x
  <1>6. CASE WriteSession([sess EXCEPT !.ev = call[c].k], FALSE, done)
    <2> DEFINE new == [sess EXCEPT !.ev = call[c].k]
    <2> DEFINE moved == FALSE
    <2>1. new \in SessRows
      <3>1. sess \in SessRows /\ call[c].k \in Requests
        BY <1>0, UnderwayFacts, InvFields DEF Requests
      <3> QED
        BY <3>1 DEF SessRows
    <2>2. done \in [Clients -> CallRows] /\ done[c] = x
          /\ \A d \in Clients \ {c} : done[d] = call[d]
      BY <1>3 DEF ConvInv, Typed
    <2>3. \A d \in Clients : CallSound(done[d], run, req, sess)
      BY <1>4, <2>2, InvFields
    <2>4. WriteSession(new, moved, done) /\ moved \in BOOLEAN
      BY <1>6
    <2> HIDE DEF done, new, moved
    <2> QED
      BY <1>0, <2>1, <2>2, <2>3, <2>4, SessionMoves
  <1>7. CASE call' = done /\ UNCHANGED sess
    BY <1>0, <1>3, <1>4, <1>7, Continues DEF Continue
  <1>8. CASE Return(c) /\ UNCHANGED sess
    BY <1>0, <1>8, Returns
  <1> QED
    BY <1>5, <1>6, <1>7, <1>8

LEMMA PostCIFinalizeMoves ==
    ASSUME ConvergenceAssumption, ConvInv, NEW c \in Clients, PostCIFinalize(c)
    PROVE  Moves
  <1>0. call[c].pc \in Underway /\ call[c].pc = "finalizing" /\ UNCHANGED <<req, sess, tip>>
        /\ Transition(c, "post_ci_finalize", "finalizing", "passing")
    BY DEF PostCIFinalize, At, Underway
  <1>1. /\ "post_ci_finalize" \in Phases /\ "finalizing" \in RunStatuses /\ "passing" \in Places
    BY DEF Phases, RunStatuses, Places, Underway
  <1> DEFINE k == call[c].k
  <1>2. Knows(call[c], "finalizing", run[k], req[k])
    BY <1>0, UnderwayFacts
  <1>3. ASSUME NEW x \in CallRows, NEW r \in RunRows,
               x.k = k, x.key = call[c].key, x.seen = call[c].seen, x.q = call[c].q,
               r.phase # "none", Told(x.snap, r), r.asked = run[k].asked,
               r.cjob = run[k].cjob, r.att = run[k].att
        PROVE  Knows(x, "passing", r, req[k])
    BY <1>2, <1>3 DEF Knows, Underway
  <1> QED
    BY <1>0, <1>1, <1>3, TransitionMoves

LEMMA PassMoves ==
    ASSUME ConvergenceAssumption, ConvInv, NEW c \in Clients, Pass(c)
    PROVE  Moves
  <1>0. call[c].pc \in Underway /\ call[c].pc = "passing" /\ UNCHANGED <<req, sess, tip>>
        /\ Transition(c, "passed", "passed", "idle")
    BY DEF Pass, At, Underway
  <1>1. /\ "passed" \in Phases /\ "passed" \in RunStatuses /\ "idle" \in Places
    BY DEF Phases, RunStatuses, Places
  <1> DEFINE k == call[c].k
  <1>2. req[k].status = "passed" /\ run[k].cjob /\ run[k].att
    BY <1>0, UnderwayFacts DEF Knows
  <1>3. ASSUME NEW x \in CallRows, NEW r \in RunRows,
               x.key = call[c].key, x.k = k, r.phase # "none", Told(x.snap, r)
        PROVE  Knows(x, "idle", r, req[k])
    BY <1>0, <1>3, UnderwayFacts, PlainKnows
  <1> QED
    BY <1>0, <1>1, <1>2, <1>3, TransitionMoves

LEMMA StepMoves ==
    ASSUME ConvergenceAssumption, ConvInv, NEW c \in Clients, Step(c)
    PROVE  Moves
  BY OpenMoves, VerifyMoves, BlockMoves, IndexMoves, BindIndexMoves, RecordIndexMoves,
     IndexRequestedMoves, AnalysisPendingMoves, RunStagesMoves, RecordOneMoves,
     AnalysisReadyMoves, CreateRequestMoves, BindRequestMoves, ReadRequestMoves,
     BindJobMoves, CITrackFailedMoves, FinalizeMoves, CompleteMoves, SyncMoves,
     BindEvidenceMoves, PostCIFinalizeMoves, PassMoves DEF Step

-----------------------------------------------------------------------------
(* What goes on beside the calls.                                          *)

LEMMA RequestMovesMoves ==
    ASSUME ConvInv, NEW k \in Requests, RequestMoves(k)
    PROVE  Moves
  <1>1. /\ req \in [Requests -> RequestRows] /\ req[k] \in RequestRows /\ k \in Runs
        /\ RequestSound(k, req[k]) /\ UNCHANGED <<run, sess, tip, call>>
    BY DEF ConvInv, Typed, Requests, RequestMoves
  <1>2. PICK next \in {"queued", "running", "passed", "failed"} :
           /\ req' = [req EXCEPT ![k].status = next]
           /\ req[k].status \in {"accepted", "queued", "running"}
    BY <1>1 DEF RequestMoves
  <1> DEFINE p == [req[k] EXCEPT !.status = next]
  <1>3. p \in RequestRows /\ p.status = next /\ p.att = req[k].att
    BY <1>1 DEF RequestRows
  <1>4. req' = [req EXCEPT ![k] = p]
    BY <1>2
  <1> HIDE DEF p
  <1>5. ReqLater(req[k], p) /\ RequestSound(k, p)
    BY <1>1, <1>2, <1>3 DEF ReqLater, RequestSound
  <1>6. call' \in [Clients -> CallRows] /\ \A c \in Clients : call'[c] = call[c]
    BY <1>1 DEF ConvInv, Typed
  <1> QED
    BY <1>1, <1>3, <1>4, <1>5, <1>6, RequestMovesOn

LEMMA RequestAttestedMoves ==
    ASSUME ConvInv, NEW k \in Requests, RequestAttested(k)
    PROVE  Moves
  <1>1. /\ req \in [Requests -> RequestRows] /\ req[k] \in RequestRows /\ k \in Runs
        /\ req[k].status = "passed" /\ Mode[k] = "full"
        /\ req' = [req EXCEPT ![k].att = TRUE]
        /\ UNCHANGED <<run, sess, tip, call>>
    BY DEF ConvInv, Typed, Requests, RequestAttested
  <1> DEFINE p == [req[k] EXCEPT !.att = TRUE]
  <1>3. p \in RequestRows /\ p.status = "passed" /\ p.att = TRUE
    BY <1>1 DEF RequestRows
  <1>4. req' = [req EXCEPT ![k] = p]
    BY <1>1
  <1> HIDE DEF p
  <1>5. ReqLater(req[k], p) /\ RequestSound(k, p)
    BY <1>1, <1>3 DEF ReqLater, RequestSound
  <1>6. call' \in [Clients -> CallRows] /\ \A c \in Clients : call'[c] = call[c]
    BY <1>1 DEF ConvInv, Typed
  <1> QED
    BY <1>1, <1>3, <1>4, <1>5, <1>6, RequestMovesOn

\* Nothing that a call rests on changes.
LEMMA Elsewhere ==
    ASSUME ConvInv, UNCHANGED <<run, req, sess, call>>, tip' \in Commits
    PROVE  Moves
  <1>1. Typed'
    BY DEF ConvInv, Typed
  <1>2. \A c \in Clients : CallSound(call'[c], run', req', sess')
    BY DEF ConvInv
  <1> QED
    BY <1>1, <1>2, RowsStay, Goes

\* The session is written beside the calls.
LEMMA SessionMovesAlone ==
    ASSUME ConvergenceAssumption, ConvInv, NEW new \in SessRows, NEW moved \in BOOLEAN,
           WriteSession(new, moved, call), UNCHANGED <<run, req, tip>>
    PROVE  Moves
  BY SessionMoves DEF ConvInv, Typed

LEMMA EnvironmentMoves ==
    ASSUME ConvergenceAssumption, ConvInv, Environment
    PROVE  Moves
  <1>0. sess \in SessRows /\ tip \in Commits
    BY DEF ConvInv, Typed
  <1>1. CASE \E k \in Requests : RequestMoves(k) \/ RequestAttested(k)
    BY <1>1, RequestMovesMoves, RequestAttestedMoves
  <1>2. CASE \E j \in Jobs : BuildStep(j) \/ IndexTrouble(j)
    BY <1>0, <1>2, Elsewhere DEF BuildStep, PruneStep, IndexTrouble, Fault, convVars
  <1>3. CASE \E k \in Others, h \in Commits : OthersAsk(k, h)
    BY <1>0, <1>3, Elsewhere DEF OthersAsk
  <1>4. CASE Push
    BY <1>4, Elsewhere DEF Push
  <1>5. CASE Join
    <2>1. PICK ev \in {sess.ev, NoRun} :
             WriteSession([sess EXCEPT !.head = tip, !.ev = ev], TRUE, call)
      BY <1>5 DEF Join
    <2> DEFINE new == [sess EXCEPT !.head = tip, !.ev = ev]
    <2> DEFINE moved == TRUE
    <2>2. new \in SessRows /\ moved \in BOOLEAN
      BY <1>0 DEF SessRows
    <2>3. WriteSession(new, moved, call) /\ UNCHANGED <<run, req, tip>>
      BY <1>5, <2>1 DEF Join
    <2> HIDE DEF new, moved
    <2> QED
      BY <2>2, <2>3, SessionMovesAlone
  <1>6. CASE Renew
    <2> DEFINE moved == TRUE
    <2>1. WriteSession(sess, moved, call) /\ UNCHANGED <<run, req, tip>> /\ moved \in BOOLEAN
      BY <1>6 DEF Renew, Fault
    <2> HIDE DEF moved
    <2> QED
      BY <1>0, <2>1, SessionMovesAlone
  <1>7. CASE Close
    <2> DEFINE new == [sess EXCEPT !.active = FALSE]
    <2> DEFINE moved == FALSE
    <2>2. new \in SessRows /\ moved \in BOOLEAN
      BY <1>0 DEF SessRows
    <2>3. WriteSession(new, moved, call) /\ UNCHANGED <<run, req, tip>>
      BY <1>7 DEF Close, Fault
    <2> HIDE DEF new, moved
    <2> QED
      BY <2>2, <2>3, SessionMovesAlone
  <1>8. CASE Restart
    <2>1. UNCHANGED <<run, req, sess, tip>> /\ call' = [c \in Clients |-> Idle]
      BY <1>8 DEF Restart, Fault
    <2>2. Typed'
      BY <2>1, IdleTyped DEF ConvInv, Typed
    <2>3. \A c \in Clients : CallSound(call'[c], run', req', sess')
      BY <2>1, IdleSound
    <2> QED
      BY <2>1, <2>2, <2>3, RowsStay, Goes
  <1>9. CASE Recover
    BY <1>0, <1>9, Elsewhere DEF Recover, Fault
  <1> QED
    BY <1>1, <1>2, <1>3, <1>4, <1>5, <1>6, <1>7, <1>8, <1>9 DEF Environment

LEMMA NextMoves ==
    ASSUME ConvergenceAssumption, ConvInv, [Next]_vars
    PROVE  Moves
  <1>1. CASE Next
    BY <1>1, StepMoves, BeginMoves, EnvironmentMoves DEF Next
  <1>2. CASE UNCHANGED vars
    BY <1>2, Elsewhere DEF vars, convVars, ConvInv, Typed
  <1> QED
    BY <1>1, <1>2

-----------------------------------------------------------------------------
(* The index keeps its type.                                               *)

LEMMA RequestIndexTyped ==
    ASSUME IndexTypeOK, NEW k \in Keys, NEW h \in Commits, RequestIndexBuild(k, h)
    PROVE  IndexTypeOK'
  <1>1. AnsweredBy(k, h) \in Jobs \cup {NoJob}
    BY AnsweredTyped
  <1> QED
    BY <1>1 DEF RequestIndexBuild, SetJob, SetThread, IndexTypeOK, indexVars

LEMMA BuildTyped ==
    ASSUME IndexTypeOK, NEW j \in Jobs, Build(j)
    PROVE  IndexTypeOK'
  <1>0. CommitOf(j) \in Commits
    BY DEF CommitOf, Jobs
  <1>1. CASE StartBuild(j)
    BY <1>1 DEF StartBuild, SetJob, SetThread, IndexTypeOK
  <1>2. CASE StopCancelled(j)
    BY <1>2 DEF StopCancelled, SetJob, SetThread, IndexTypeOK
  <1>3. CASE FinishBuild(j)
    BY <1>0, <1>3 DEF FinishBuild, SetJob, SetThread, IndexTypeOK
  <1>4. CASE FindTree(j)
    BY <1>4 DEF FindTree, SetJob, SetThread, IndexTypeOK
  <1>5. CASE CompleteTreeReuse(j)
    BY <1>0, <1>5 DEF CompleteTreeReuse, SetJob, SetThread, IndexTypeOK
  <1> QED
    BY <1>1, <1>2, <1>3, <1>4, <1>5 DEF Build

LEMMA PruneTyped ==
    ASSUME IndexTypeOK, NEW j \in Jobs, NEW pins, Prune(j, pins)
    PROVE  IndexTypeOK'
  <1>1. CASE PruneRead(j, pins)
    <2>1. PICK old \in Prunable(pins) :
             /\ found' = [found EXCEPT ![j] = old]
             /\ SetThread(j, IF old = {} THEN "none" ELSE "prune")
      BY <1>1 DEF PruneRead
    <2>2. old \in SUBSET Commits
      BY DEF Prunable, IndexTypeOK
    <2> QED
      BY <1>1, <2>1, <2>2 DEF PruneRead, SetThread, IndexTypeOK
  <1>2. CASE PruneOne(j, pins)
    BY <1>2 DEF PruneOne, SetThread, IndexTypeOK
  <1> QED
    BY <1>1, <1>2 DEF Prune

LEMMA IndexTroubleTyped ==
    ASSUME IndexTypeOK, NEW j \in Jobs, CancelIndexJob(j) \/ FailBuild(j)
    PROVE  IndexTypeOK'
  BY DEF CancelIndexJob, FailBuild, SetJob, SetThread, IndexTypeOK

LEMMA IndexTyped ==
    ASSUME ConvergenceAssumption, ConvInv, IndexTypeOK, [Next]_vars
    PROVE  IndexTypeOK'
  <1>1. CASE UNCHANGED indexVars
    BY <1>1 DEF indexVars, IndexTypeOK
  <1>2. CASE \E c \in Clients : Index(c)
    <2>1. PICK c \in Clients : Index(c)
      BY <1>2
    <2>2. call[c].key \in Keys /\ call[c].snap.head \in Commits
      <3>1. call[c].pc \in Underway
        BY <2>1 DEF Index, LookAtIndex, AskForIndex, At, Underway
      <3> QED
        BY <3>1, UnderwayFacts, RowFields DEF Runs
    <2>3. UNCHANGED indexVars \/ RequestIndexBuild(call[c].key, call[c].snap.head)
      BY <2>1 DEF Index, LookAtIndex, AskForIndex
    <2> QED
      BY <1>1, <2>2, <2>3, RequestIndexTyped
  <1>3. CASE \E j \in Jobs : BuildStep(j)
    BY <1>3, BuildTyped, PruneTyped DEF BuildStep, PruneStep
  <1>4. CASE \E j \in Jobs : IndexTrouble(j)
    BY <1>4, IndexTroubleTyped DEF IndexTrouble
  <1>5. CASE \E k \in Others, h \in Commits : OthersAsk(k, h)
    <2>1. PICK k \in Others, h \in Commits : OthersAsk(k, h)
      BY <1>5
    <2>2. k \in Keys
      BY DEF ConvergenceAssumption
    <2> QED
      BY <2>1, <2>2, RequestIndexTyped DEF OthersAsk
  <1>6. CASE Restart
    BY <1>6 DEF Restart, ThreadsDie, IndexTypeOK
  <1>7. CASE Recover
    BY <1>7 DEF Recover, RecoverOrphanedIndexJobs, IndexTypeOK
  <1>8. CASE \E c \in Clients : Step(c) /\ ~ Index(c)
    BY <1>1, <1>8 DEF Step, Open, Verify, Block, BindIndex, RecordIndex, IndexRequested,
       AnalysisPending, RunStages, RecordOne, AnalysisReady, CreateRequest, BindRequest,
       ReadRequest, BindJob, CITrackFailed, Finalize, Complete, Sync, BindEvidence,
       PostCIFinalize, Pass
  <1>9. CASE \E k \in Requests : RequestMoves(k) \/ RequestAttested(k)
    BY <1>1, <1>9 DEF RequestMoves, RequestAttested
  <1>10. CASE Push \/ Join \/ Renew \/ Close
    BY <1>1, <1>10 DEF Push, Join, Renew, Close
  <1>11. CASE \E c \in Clients, k \in Runs : Begin(c, k)
    BY <1>1, <1>11 DEF Begin
  <1>12. CASE UNCHANGED vars
    BY <1>1, <1>12 DEF vars
  <1> QED
    BY <1>2, <1>3, <1>4, <1>5, <1>6, <1>7, <1>8, <1>9, <1>10, <1>11, <1>12
       DEF Next, Environment

-----------------------------------------------------------------------------
(* The theorems.                                                           *)

LEMMA InitInv ==
    ASSUME ConvergenceAssumption, Init
    PROVE  ConvInv /\ IndexTypeOK
  <1>0. 0 \in Commits
    BY DEF ConvergenceAssumption
  <1>1. Typed
    <2>1. NoRequest \in RequestRows /\ [head |-> 0, ev |-> NoRun, active |-> TRUE] \in SessRows
      BY <1>0 DEF NoRequest, RequestRows, SessRows
    <2> QED
      BY <1>0, <2>1, IdleTyped DEF Init, Typed
  <1>2. ASSUME NEW k \in Runs PROVE RowSound(run[k], req[k]) /\ RequestSound(k, req[k])
    <2>1. run[k] = Idle.snap /\ req[k] = NoRequest
      BY DEF Init, Requests
    <2>2. NoRequest.att = FALSE
      BY DEF NoRequest
    <2> QED
      BY <2>1, <2>2, IdleTyped DEF RowSound, RequestSound
  <1>3. \A c \in Clients : CallSound(call[c], run, req, sess)
    BY IdleSound DEF Init
  <1>4. IndexTypeOK
    BY <1>0 DEF Init, IndexInit, IndexTypeOK
  <1> QED
    BY <1>1, <1>2, <1>3, <1>4 DEF ConvInv

LEMMA NextInv ==
    ASSUME ConvergenceAssumption, ConvInv, IndexTypeOK, [Next]_vars
    PROVE  ConvInv' /\ IndexTypeOK'
  <1>1. Moves
    BY NextMoves
  <1>2. ConvInv'
    BY <1>1 DEF Moves, ConvInv
  <1> QED
    BY <1>2, IndexTyped

\* What a call knows of its Run, its Request and the session where it is holds
\* at every moment, however many other calls moved them since it read them.
THEOREM CallsKnow == Spec => [](ConvInv /\ IndexTypeOK)
  <1>1. Init => ConvInv /\ IndexTypeOK
    BY ConvergenceAssumption, InitInv
  <1>2. (ConvInv /\ IndexTypeOK) /\ [Next]_vars => (ConvInv /\ IndexTypeOK)'
    BY ConvergenceAssumption, NextInv
  <1> QED
    BY <1>1, <1>2, PTL DEF Spec

\* The rows of the index, of the Runs and of the session keep their types, and
\* a copy that no write made stale is the row.
THEOREM ConvergenceTyped == Spec => []TypeOK
  <1>1. ConvInv /\ IndexTypeOK => TypeOK
    <2> SUFFICES ASSUME ConvInv, IndexTypeOK PROVE TypeOK
      OBVIOUS
    <2>1. sess.head \in Commits /\ sess.ev \in Requests \cup {NoRun}
      BY DEF ConvInv, Typed, SessRows
    <2>2. \A c \in Clients :
            /\ call[c].fresh => call[c].snap = run[call[c].k]
            /\ call[c].sfresh => call[c].seen = sess
      BY DEF ConvInv, CallSound
    <2> QED
      BY <2>1, <2>2 DEF TypeOK, ConvInv, Typed
  <1> QED
    BY <1>1, CallsKnow, PTL

\* Overlapping calls never take a Run back: its phase only advances, an end
\* stays, its head and the identities bound to it stay, and it passes only with
\* a passed Request and the attestation that a full gate needs.
THEOREM RunsOnlyAdvance == Spec => RunsAdvance
  <1> DEFINE Advance ==
        \A k \in Runs :
          Exists(k) =>
            /\ Rank(run'[k].phase) >= Rank(run[k].phase)
            /\ Terminal(run[k]) => run'[k].phase = run[k].phase
            /\ run'[k].head = run[k].head
            /\ run[k].ijob # NoJob => run'[k].ijob = run[k].ijob
            /\ run[k].cjob => run'[k].cjob /\ run[k].asked
            /\ run'[k].phase = "passed" =>
                  req[k].status = "passed" /\ run[k].cjob /\ run[k].att
  <1>1. ConvInv /\ [Next]_vars => Advance
    <2> SUFFICES ASSUME ConvInv, [Next]_vars, NEW k \in Runs, Exists(k)
                 PROVE  Later(run[k], run'[k], req[k])
      BY DEF Later, Exists
    <2> QED
      BY ConvergenceAssumption, NextMoves DEF Moves
  <1>2. ConvInv /\ [Next]_vars => [Advance]_vars
    BY <1>1
  <1> QED
    BY <1>2, CallsKnow, PTL DEF Spec, RunsAdvance

\* Every step binds the session to nothing but the proof of its own head.
LEMMA BindsProof ==
    ASSUME ConvergenceAssumption, ConvInv, [Next]_vars,
           sess'.ev \notin {sess.ev, NoRun}
    PROVE  /\ req[sess'.ev].status = "passed" /\ req[sess'.ev].att
           /\ Mode[sess'.ev] = "full"
           /\ run[sess'.ev].head = sess.head /\ sess.active
  <1>0. sess \in SessRows
    BY DEF ConvInv, Typed
  <1>1. CASE \E c \in Clients : BindEvidence(c)
    <2>1. PICK c \in Clients : BindEvidence(c)
      BY <1>1
    <2>2. call[c].sfresh /\ sess' = [sess EXCEPT !.ev = call[c].k]
      BY <2>1 DEF BindEvidence, WriteSession
    <2>3. sess'.ev = call[c].k
      BY <1>0, <2>2 DEF SessRows
    <2>4. call[c].pc = "bindev" /\ call[c].pc \in Underway
      BY <2>1 DEF BindEvidence, At, Underway
    <2>5. /\ Knows(call[c], "bindev", run[call[c].k], req[call[c].k])
          /\ RequestSound(call[c].k, req[call[c].k])
          /\ Told(call[c].snap, run[call[c].k])
      BY <2>4, UnderwayFacts
    <2>6. call[c].seen = sess
      BY <2>2, InvFields DEF CallSound
    <2> QED
      BY <2>3, <2>5, <2>6 DEF Knows, Told, RequestSound
  <1>2. CASE \E c \in Clients : Step(c) /\ ~ BindEvidence(c)
    <2>1. UNCHANGED sess
      BY <1>2 DEF Step, Open, Verify, Block, Index, LookAtIndex, AskForIndex, BindIndex,
         RecordIndex, IndexRequested, AnalysisPending, RunStages, RecordOne, AnalysisReady, CreateRequest, BindRequest,
         ReadRequest, BindJob, CITrackFailed, Finalize, Complete, Sync,
         PostCIFinalize, Pass
    <2> QED
      BY <2>1
  <1>3. CASE Join
    <2>1. PICK ev \in {sess.ev, NoRun} : sess' = [sess EXCEPT !.head = tip, !.ev = ev]
      BY <1>3 DEF Join, WriteSession
    <2>2. sess'.ev = ev
      BY <1>0, <2>1 DEF SessRows
    <2> QED
      BY <2>2
  <1>4. CASE Close
    BY <1>0, <1>4 DEF Close, WriteSession, SessRows
  <1>5. CASE Environment /\ ~ Join /\ ~ Close
    <2>1. UNCHANGED sess
      BY <1>5 DEF Environment, RequestMoves, RequestAttested, BuildStep, PruneStep, IndexTrouble,
         Fault, OthersAsk, Push, Renew, Restart, Recover, WriteSession, convVars
    <2> QED
      BY <2>1
  <1>6. CASE \E c \in Clients, k \in Runs : Begin(c, k)
    BY <1>6 DEF Begin
  <1>7. CASE UNCHANGED vars
    BY <1>7 DEF vars, convVars
  <1> QED
    BY <1>1, <1>2, <1>3, <1>4, <1>5, <1>6, <1>7 DEF Next

\* A session is only ever bound to the evidence of a full Request that passed,
\* has its attestation, and ran on the head that the session has.
THEOREM EvidenceIsBound == Spec => EvidenceBound
  <1> DEFINE Bound ==
        sess'.ev \notin {sess.ev, NoRun} =>
          /\ req[sess'.ev].status = "passed" /\ req[sess'.ev].att
          /\ Mode[sess'.ev] = "full"
          /\ run[sess'.ev].head = sess.head /\ sess.active
  <1>1. ConvInv /\ [Next]_vars => [Bound]_vars
    BY ConvergenceAssumption, BindsProof
  <1> QED
    BY <1>1, CallsKnow, PTL DEF Spec, EvidenceBound
=============================================================================
