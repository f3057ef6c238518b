---------------------- MODULE InfraDeployments_proofs ----------------------
(***************************************************************************)
(* Proofs of the safety properties of InfraDeployments, for any            *)
(* deployments, commits, clients and faults.                               *)
(*                                                                         *)
(* What makes them hold is that a request tells the truth when it is       *)
(* handled, however late: Sound says what that is, for each kind of        *)
(* request.  It stays true because a status never goes back, because what  *)
(* a script printed stays printed, and because the executor does not take  *)
(* a deployment up again (RowsForward, ScriptsForward, Taken).             *)
(***************************************************************************)
EXTENDS InfraDeployments, SequenceTheorems, TLAPS

-----------------------------------------------------------------------------
(* The inductive invariant.                                                *)

Statuses == {"none", "queued", "claimed", "running", "passed", "failed"}
Open == {"claimed", "running"}
Fresh == {"none", "queued"}
Phases == {"controller_switch", "health"}
Spots == {"none", "begun", "marked", "stopped", "started", "ok", "bad"}
Execs == [at : Places, job : Deployments \cup {None}, read : Nat]

\* Where the executor is before the script, and while it reads its output.
Early == {"source", "prepare", "checked", "launch"}
Reading == {"watch", "line"}

\* The script of d came to the switch of the Controller.
Switched(d) == Len(script[d].said) > 0 /\ script[d].said[1] = "controller_switch"

\* A line is reported that the script printed.
LinePrinted == exec.at = "line" => exec.read < Len(script[exec.job].said)

\* Identities are used in order.
InOrder ==
    \A d, e \in Deployments :
        row[d].status = "none" /\ row[e].status # "none" => e < d

\* A script that has not printed anything has not begun to work, it announces
\* the switch first or not at all, and belongs to a row that was claimed.
ScriptLog ==
    \A d \in Deployments :
        /\ script[d].at \in {"none", "begun"} => script[d].said = <<>>
        /\ \A i \in DOMAIN script[d].said :
              script[d].said[i] = "controller_switch" => i = 1
        /\ script[d].at # "none" => row[d].status \notin Fresh
        /\ script[d].at = "none" => ~ script[d].left

\* The executor works on a row that was claimed, which has no script before it
\* launches one; a completion follows a script that ended well.
Holding ==
    /\ exec.at # "poll" => row[exec.job].status \notin Fresh
    /\ exec.at \in Early => script[exec.job].at = "none"
    /\ exec.at \in Reading => script[exec.job].at # "none"
    /\ exec.at \in Early \cup Reading => row[exec.job].status \in Open
    /\ exec.at = "complete" => script[exec.job].at = "ok"

\* A request tells the truth.
Sound(m) ==
    /\ m \in Requests
    /\ m.op # "claim" => m.job \in Deployments /\ row[m.job].status \notin Fresh
    /\ m.op = "progress" => m.step \in Steps
    /\ m.op = "progress" /\ m.step = "controller_switch" => Switched(m.job)
    /\ m.op = "complete" => script[m.job].at = "ok"
    /\ m.op \in {"complete", "fail"} /\ exec.job = m.job =>
          exec.at \notin Early \cup Reading

LateSound == \A m \in late : Sound(m)

\* A plan of a recovery has its source.
PlansSound ==
    \A c \in Clients :
        ask[c].of # None => RecoverySource(ask[c].of, ask[c].commit)

MarkedSound == \A d \in Deployments : row[d].marked => Switched(d)

\* A script that is under way is the one the executor reads, unless it was
\* left behind.
LiveIsRead ==
    \A d \in Deployments :
        /\ script[d].at \notin {"none", "ok", "bad"} /\ ~ script[d].left
        => exec.job = d /\ exec.at \in Reading

\* Until the script has stopped it, the Controller is the build that the planner
\* expected, unless a script was left behind.
BuildExpected ==
    /\ exec.at \in Early \cup Reading
    /\ script[exec.job].at \in {"none", "begun", "marked"}
    /\ \A e \in Deployments : ~ script[e].left
    => Up /\ build = row[exec.job].expected

InfraInv ==
    /\ TypeOK /\ LinePrinted /\ InOrder /\ ScriptLog /\ Holding /\ LateSound
    /\ PlansSound /\ MarkedSound /\ LiveIsRead /\ BuildExpected
    /\ OneActive /\ RecoverySound

-----------------------------------------------------------------------------
(* How a request changes the rows.                                         *)

\* A served request took row d on: a claim a queued row, the others the row
\* they name.
Handled(m, d) ==
    /\ row'[d].recovery = row[d].recovery
    /\ row'[d].of = row[d].of
    /\ row'[d].commit = row[d].commit
    /\ row'[d].expected = row[d].expected
    /\ row'[d].rev = row[d].rev + 1
    /\ \/ /\ m.op = "claim" /\ row[d].status = "queued"
          /\ row'[d].status \in {"claimed", "failed"}
          /\ row'[d].marked = row[d].marked
       \/ /\ m.op = "progress" /\ d = m.job /\ row[d].status \in Open
          /\ row'[d].status = "running"
          /\ row'[d].marked = (row[d].marked \/ m.step = "controller_switch")
       \/ /\ m.op = "complete" /\ d = m.job /\ row[d].status \in Open
          /\ build = row[d].commit
          /\ row'[d].status = "passed"
          /\ row'[d].marked = row[d].marked
       \/ /\ m.op = "fail" /\ d = m.job /\ row[d].status \in Open
          /\ row'[d].status = "failed"
          /\ row'[d].marked = row[d].marked

LEMMA StatusKinds ==
    ASSUME TypeOK, NEW d \in Deployments
    PROVE  /\ row[d] \in Rows
           /\ row[d].status \in Statuses
           /\ Active(d) <=> row[d].status \in Open \cup {"queued"}
           /\ Ended(d) <=> row[d].status \in TerminalStatuses
           /\ row[d].rev \in Nat
  BY DEF TypeOK, Rows, Statuses, Active, Ended, Open

\* What is left alone when a row is revised, and what is not.
RevisedTo(d, status, marked) ==
    /\ row' \in [Deployments -> Rows]
    /\ row'[d].status = status
    /\ row'[d].marked = marked
    /\ row'[d].rev = row[d].rev + 1
    /\ row'[d].recovery = row[d].recovery
    /\ row'[d].of = row[d].of
    /\ row'[d].commit = row[d].commit
    /\ row'[d].expected = row[d].expected
    /\ \A e \in Deployments : e # d => row'[e] = row[e]

LEMMA RevisedRow ==
    ASSUME TypeOK, NEW d \in Deployments, NEW status \in Statuses,
           NEW step \in Steps, NEW marked \in BOOLEAN,
           Revised(d, status, step, marked)
    PROVE  RevisedTo(d, status, marked)
  <1> DEFINE k == row[d].rev + 1
             r == [row[d] EXCEPT !.status = status, !.step = step,
                                 !.marked = marked, !.rev = k]
  <1>1. row \in [Deployments -> Rows] /\ row[d] \in Rows
    BY DEF TypeOK
  <1>2. k \in Nat /\ k = row[d].rev + 1
    BY <1>1 DEF Rows
  <1>3. row' = [row EXCEPT ![d] = r]
    BY <1>1 DEF Revised
  <1> HIDE DEF k
  <1>4. /\ r \in Rows
        /\ r.status = status /\ r.marked = marked /\ r.rev = k
        /\ r.recovery = row[d].recovery /\ r.of = row[d].of
        /\ r.commit = row[d].commit /\ r.expected = row[d].expected
    BY <1>1, <1>2 DEF Rows, Statuses
  <1> HIDE DEF r
  <1>5. row' \in [Deployments -> Rows] /\ row'[d] = r
    BY <1>1, <1>3, <1>4
  <1>6. \A e \in Deployments : e # d => row'[e] = row[e]
    BY <1>1, <1>3
  <1> QED
    BY <1>2, <1>4, <1>5, <1>6 DEF RevisedTo

\* While one deployment is active at most, the oldest queued one is the only.
LEMMA OldestQueued ==
    ASSUME TypeOK, InfraAssumption, OneActive, Queued # {}
    PROVE  Oldest \in Deployments /\ row[Oldest].status = "queued"
  <1>1. PICK d \in Queued : TRUE
    OBVIOUS
  <1>2. d \in Nat
    BY <1>1 DEF Queued, InfraAssumption
  <1>3. \A e \in Queued : e = d
    BY <1>1 DEF Queued, OneActive, Active
  <1>4. d \in Queued /\ \A e \in Queued : d <= e
    BY <1>1, <1>2, <1>3
  <1>5. Oldest \in Queued
    BY <1>4 DEF Oldest
  <1> QED
    BY <1>5 DEF Queued

LEMMA ServeHandles ==
    ASSUME TypeOK, InfraAssumption, OneActive, NEW m, Sound(m), Serve(m)
    PROVE  /\ row' \in [Deployments -> Rows]
           /\ heart' \in {"unknown", "idle", "running"}
           /\ \A d \in Deployments : row'[d] = row[d] \/ Handled(m, d)
           /\ Up
  <1>0. row \in [Deployments -> Rows] /\ heart \in {"unknown", "idle", "running"}
    BY DEF TypeOK
  <1>1. CASE m.op = "claim"
    <2>1. Claim
      BY <1>1 DEF Serve
    <2>2. CASE Queued = {}
      BY <1>0, <2>1, <2>2 DEF Claim, Serve
    <2>3. CASE Queued # {}
      <3>1. Oldest \in Deployments /\ row[Oldest].status = "queued"
        BY <2>3, OldestQueued
      <3>2. row[Oldest] \in Rows /\ row[Oldest].marked \in BOOLEAN
        BY <1>0, <3>1 DEF Rows
      <3>3. \E status \in {"claimed", "failed"}, step \in Steps :
               Revised(Oldest, status, step, row[Oldest].marked)
        <4>1. "preflight" \in Steps /\ "claimed" \in Steps
          BY DEF Steps
        <4> QED
          BY <2>1, <2>3, <4>1 DEF Claim
      <3>4. PICK status \in {"claimed", "failed"}, step \in Steps :
               Revised(Oldest, status, step, row[Oldest].marked)
        BY <3>3
      <3>5. status \in Statuses
        BY DEF Statuses
      <3>6. RevisedTo(Oldest, status, row[Oldest].marked)
        BY <3>1, <3>2, <3>4, <3>5, RevisedRow
      <3>7. Handled(m, Oldest)
        BY <1>1, <3>1, <3>2, <3>6 DEF Handled, RevisedTo
      <3>8. heart' \in {"unknown", "idle", "running"} /\ Up
        BY <2>1 DEF Claim, Serve
      <3> QED
        BY <3>6, <3>7, <3>8 DEF RevisedTo
    <2> QED
      BY <2>2, <2>3
  <1>2. CASE m.op # "claim"
    <2> DEFINE d == m.job
    <2>1. d \in Deployments /\ row[d].status \notin Fresh
      BY <1>2 DEF Sound
    <2>2. row[d] \in Rows /\ row[d].marked \in BOOLEAN
      BY <1>0, <2>1 DEF Rows
    <2>3. CASE row' = row
      BY <1>0, <1>2, <2>3 DEF Serve, Progress, Complete, Fail
    <2>4. CASE row' # row
      <3>1. \E status \in Statuses, step \in Steps, marked \in BOOLEAN :
              /\ Revised(d, status, step, marked)
              /\ row[d].status \in Open
              /\ \/ /\ m.op = "progress" /\ status = "running"
                    /\ marked = (row[d].marked \/ m.step = "controller_switch")
                 \/ /\ m.op = "complete" /\ status = "passed"
                    /\ build = row[d].commit /\ marked = row[d].marked
                 \/ m.op = "fail" /\ status = "failed" /\ marked = row[d].marked
        <4>1. CASE m.op = "progress"
          <5>1. Progress(d, m.step) /\ m.step \in Steps
            BY <4>1 DEF Serve, Sound
          <5>2. (row[d].marked \/ m.step = "controller_switch") \in BOOLEAN
            OBVIOUS
          <5> QED
            BY <2>4, <4>1, <5>1, <5>2 DEF Progress, Open, Statuses
        <4>2. CASE m.op = "complete"
          BY <2>2, <2>4, <4>2 DEF Serve, Complete, Completable, Open, Statuses, Steps
        <4>3. CASE m.op = "fail"
          <5>1. row[d].status \in Open
            BY <2>1, <2>2, <2>4, <4>3
            DEF Serve, Fail, Ended, TerminalStatuses, Open, Fresh, Rows
          <5> QED
            BY <2>2, <2>4, <4>3, <5>1 DEF Serve, Fail, Statuses, Steps
        <4> QED
          BY <1>2, <4>1, <4>2, <4>3 DEF Serve
      <3>2. PICK status \in Statuses, step \in Steps, marked \in BOOLEAN :
              /\ Revised(d, status, step, marked)
              /\ row[d].status \in Open
              /\ \/ /\ m.op = "progress" /\ status = "running"
                    /\ marked = (row[d].marked \/ m.step = "controller_switch")
                 \/ /\ m.op = "complete" /\ status = "passed"
                    /\ build = row[d].commit /\ marked = row[d].marked
                 \/ m.op = "fail" /\ status = "failed" /\ marked = row[d].marked
        BY <3>1
      <3>3. RevisedTo(d, status, marked)
        BY <2>1, <3>2, RevisedRow
      <3>4. Handled(m, d)
        BY <2>2, <3>2, <3>3 DEF Handled, RevisedTo
      <3>5. heart' \in {"unknown", "idle", "running"} /\ Up
        BY <1>0, <1>2 DEF Serve, Progress, Complete, Fail
      <3> QED
        BY <3>3, <3>4, <3>5 DEF RevisedTo
    <2> QED
      BY <2>3, <2>4
  <1> QED
    BY <1>1, <1>2

-----------------------------------------------------------------------------
(* Which actions change which variables.                                   *)

Framed ==
    /\ \/ row' = row
       \/ \E c \in Clients : StartDeployment(c)
       \/ CallController \/ AnswerLost \/ LateRequest
    /\ \/ script' = script
       \/ Launch \/ OutputUnreadable \/ ExecutorDies
       \/ \E d \in Deployments : ScriptStep(d)
    /\ exec' = exec \/ ExecutorStep \/ OutputUnreadable \/ ExecutorDies
    /\ \/ UNCHANGED <<build, ask, late>>
       \/ /\ UNCHANGED <<build, late, row>>
          /\ \E c \in Clients, b \in Commits, of \in Deployments \cup {None} :
                PlanDeployment(c, b, of)
       \/ /\ UNCHANGED <<build, late>>
          /\ \E c \in Clients : StartDeployment(c)
       \/ /\ UNCHANGED <<build, ask>>
          /\ RequestDelayed \/ LateRequest
       \/ \E d \in Deployments : StopController(d) \/ StartController(d)
       \/ OperatorDeploys
    /\ main' = main \/ MainMoves
    /\ faults' = faults \/ Fault
    /\ heart' = heart \/ heart' = "running" \/ row' # row
       \/ CallController \/ AnswerLost \/ LateRequest

LEMMA Frame ==
    ASSUME [Next]_vars
    PROVE  Framed
  <1>1. CASE UNCHANGED vars
    BY <1>1 DEF Framed, vars
  <1>2. ASSUME NEW c \in Clients, NEW b \in Commits, NEW of \in Deployments \cup {None},
               PlanDeployment(c, b, of)
        PROVE  Framed
    BY <1>2 DEF Framed, PlanDeployment
  <1>3. ASSUME NEW c \in Clients, StartDeployment(c)
        PROVE  Framed
    BY <1>3 DEF Framed, StartDeployment
  <1>4. CASE ExecutorStep
    BY <1>4 DEF Framed, ExecutorStep, CallController, GiveUp, PrepareWorkspace, Launch, Watch
  <1>5. ASSUME NEW d \in Deployments, ScriptStep(d)
        PROVE  Framed
    BY <1>5 DEF Framed, ScriptStep, AnnounceSwitch, StopController, StartController,
                RecoverInPlace, ScriptEnds
  <1>6. CASE World
    BY <1>6 DEF Framed, World, AnswerLost, RequestDelayed, LateRequest, OutputUnreadable,
                HeartBeat, ExecutorDies, MainMoves, OperatorDeploys
  <1> QED
    BY <1>1, <1>2, <1>3, <1>4, <1>5, <1>6 DEF Next

-----------------------------------------------------------------------------
(* What the executor sends, and where it goes on.                          *)

LEMMA ExecutorHolds ==
    ASSUME TypeOK
    PROVE  /\ exec \in Execs
           /\ exec.at # "poll" => exec.job \in Deployments
           /\ exec.at = "poll" => exec.job = None
  BY DEF TypeOK, Execs

LEMMA PendingSound ==
    ASSUME InfraInv, Waiting
    PROVE  Sound(Pending)
  <1>0. TypeOK /\ LinePrinted /\ ScriptLog /\ Holding
    BY DEF InfraInv
  <1>1. exec \in Execs /\ (exec.at # "poll" => exec.job \in Deployments)
    BY <1>0, ExecutorHolds
  <1>2. CASE exec.at = "poll"
    <2>1. Pending = [op |-> "claim", job |-> None, step |-> ""]
      BY <1>2 DEF Pending, Request
    <2> QED
      BY <2>1 DEF Sound, Requests
  <1>3. CASE exec.at \in {"source", "checked"}
    <2>1. PICK step \in {"source_prepare", "validation"} :
             Pending = [op |-> "progress", job |-> exec.job, step |-> step]
      BY <1>3 DEF Pending, Request
    <2>2. exec.job \in Deployments /\ row[exec.job].status \notin Fresh
      BY <1>0, <1>1, <1>3 DEF Holding
    <2>3. step \in Steps /\ step # "controller_switch"
      BY DEF Steps
    <2> QED
      BY <2>1, <2>2, <2>3 DEF Sound, Requests
  <1>4. CASE exec.at = "line"
    <2> DEFINE said == script[exec.job].said
               step == said[exec.read + 1]
    <2>1. Pending = [op |-> "progress", job |-> exec.job, step |-> step]
      BY <1>4 DEF Pending, Request
    <2>2. exec.job \in Deployments /\ exec.read \in Nat /\ exec.read < Len(said)
      BY <1>0, <1>1, <1>4 DEF LinePrinted, Execs
    <2>3. said \in Seq(Phases)
      BY <1>0, <2>2 DEF TypeOK, Scripts, Phases
    <2>4. step \in Phases /\ exec.read + 1 \in DOMAIN said
      BY <2>2, <2>3
    <2>5. step = "controller_switch" => exec.read + 1 = 1
      BY <1>0, <2>2, <2>4 DEF ScriptLog
    <2>6. step = "controller_switch" => Switched(exec.job)
      BY <2>2, <2>3, <2>5 DEF Switched
    <2>7. row[exec.job].status \notin Fresh
      BY <1>0, <1>4 DEF Holding
    <2> HIDE DEF step
    <2> QED
      BY <2>1, <2>2, <2>4, <2>6, <2>7 DEF Sound, Requests, Steps, Phases
  <1>5. CASE exec.at \in {"complete", "failing"}
    <2>1. \/ exec.at = "complete"
             /\ Pending = [op |-> "complete", job |-> exec.job, step |-> ""]
          \/ exec.at = "failing"
             /\ Pending = [op |-> "fail", job |-> exec.job, step |-> ""]
      BY <1>5 DEF Pending, Request
    <2>2. exec.job \in Deployments /\ row[exec.job].status \notin Fresh
      BY <1>0, <1>1, <1>5 DEF Holding
    <2>3. /\ exec.at = "complete" => script[exec.job].at = "ok"
          /\ exec.at \notin Early \cup Reading
      BY <1>0, <1>5 DEF Holding, Early, Reading
    <2>4. PICK op \in {"complete", "fail"} :
            /\ Pending = [op |-> op, job |-> exec.job, step |-> ""]
            /\ op = "complete" => exec.at = "complete"
      BY <2>1
    <2> QED
      BY <2>2, <2>3, <2>4 DEF Sound, Requests
  <1> QED
    BY <1>2, <1>3, <1>4, <1>5 DEF Waiting

LEMMA ClaimableQueued ==
    ASSUME TypeOK, InfraAssumption, OneActive, Claimable # None
    PROVE  /\ Claimable = Oldest /\ Queued # {}
           /\ Claimable \in Deployments /\ row[Claimable].status = "queued"
           /\ ~ Stale(Claimable)
  <1>1. Queued # {} /\ ~ Stale(Oldest) /\ Claimable = Oldest
    BY DEF Claimable
  <1> QED
    BY <1>1, OldestQueued

\* Where the executor goes on after an answer.
LEMMA AnsweredWhere ==
    ASSUME TypeOK, InfraAssumption, OneActive, Waiting
    PROVE  /\ Answered \in Execs
           /\ \/ Answered = Polling
              \/ /\ exec.at = "poll" /\ Claimable # None
                 /\ Answered.at = "source" /\ Answered.job = Claimable
              \/ exec.at = "source" /\ Answered.at = "prepare" /\ Answered.job = exec.job
              \/ exec.at = "checked" /\ Answered.at = "launch" /\ Answered.job = exec.job
              \/ exec.at = "line" /\ Answered.at = "watch" /\ Answered.job = exec.job
  <1>1. exec \in Execs
    BY ExecutorHolds
  <1>2. Polling \in Execs
    BY DEF Polling, Execs, Places
  <1>3. CASE exec.at = "poll"
    <2>1. CASE Claimable = None
      BY <1>2, <1>3, <2>1 DEF Answered
    <2>2. CASE Claimable # None
      <3>1. Claimable \in Deployments
        BY <2>2, ClaimableQueued
      <3>2. Answered = [Polling EXCEPT !.at = "source", !.job = Claimable]
        BY <1>3, <2>2 DEF Answered
      <3> QED
        BY <1>3, <2>2, <3>1, <3>2 DEF Polling, Execs, Places
    <2> QED
      BY <2>1, <2>2
  <1>4. CASE exec.at \in {"source", "checked"}
    BY <1>1, <1>4 DEF Answered, Goto, Execs, Places
  <1>5. CASE exec.at = "line"
    <2> DEFINE k == exec.read + 1
    <2>1. k \in Nat
      BY <1>1 DEF Execs
    <2>2. Answered = [exec EXCEPT !.at = "watch", !.read = k]
      BY <1>5 DEF Answered
    <2> HIDE DEF k
    <2> QED
      BY <1>1, <1>5, <2>1, <2>2 DEF Execs, Places
  <1>6. CASE exec.at \in {"complete", "failing"}
    BY <1>2, <1>6 DEF Answered
  <1> QED
    BY <1>3, <1>4, <1>5, <1>6 DEF Waiting

-----------------------------------------------------------------------------
(* How a step changes the rows.                                            *)

\* Row d is new, from the plan of c.
Inserted(c, d) ==
    /\ New(d) /\ MayInsert(c) /\ Up
    /\ row'[d].status = "queued"
    /\ row'[d].recovery = (ask[c].of # None)
    /\ row'[d].of = ask[c].of
    /\ row'[d].commit = ask[c].commit
    /\ row'[d].expected = ask[c].expected
    /\ ~ row'[d].marked
    /\ \A e \in Deployments : e # d => row'[e] = row[e]
    /\ UNCHANGED <<build, script, exec, late>>

LEMMA InsertStep ==
    ASSUME TypeOK, NEW c \in Clients, StartDeployment(c)
    PROVE  /\ row' \in [Deployments -> Rows]
           /\ row' = row \/ \E d \in Deployments : Inserted(c, d)
  <1> DEFINE r == [NoRow EXCEPT !.status = "queued", !.step = "queued",
                                !.recovery = ask[c].of # None, !.of = ask[c].of,
                                !.commit = ask[c].commit, !.expected = ask[c].expected]
  <1>0. row \in [Deployments -> Rows]
    BY DEF TypeOK
  <1>1. PICK d \in Deployments :
          /\ New(d)
          /\ row' = IF MayInsert(c) THEN [row EXCEPT ![d] = r] ELSE row
    BY DEF StartDeployment
  <1>2. r \in Rows
    <2> DEFINE recovery == ask[c].of # None
               of == ask[c].of
               commit == ask[c].commit
               expected == ask[c].expected
    <2>1. /\ of \in Deployments \cup {None}
          /\ commit \in Commits \cup {NoBuild} /\ expected \in Commits \cup {NoBuild}
      BY DEF TypeOK, Plans
    <2>2. recovery \in BOOLEAN
      OBVIOUS
    <2>3. r = [NoRow EXCEPT !.status = "queued", !.step = "queued",
                            !.recovery = recovery, !.of = of,
                            !.commit = commit, !.expected = expected]
      OBVIOUS
    <2>4. NoRow \in Rows /\ "queued" \in Steps
      BY DEF NoRow, Rows, Steps
    <2> HIDE DEF recovery, of, commit, expected, r
    <2> QED
      BY <2>1, <2>2, <2>3, <2>4 DEF Rows
  <1>3. /\ r.status = "queued" /\ r.recovery = (ask[c].of # None) /\ r.of = ask[c].of
        /\ r.commit = ask[c].commit /\ r.expected = ask[c].expected /\ r.marked = FALSE
    BY DEF NoRow
  <1> HIDE DEF r
  <1>4. CASE MayInsert(c)
    <2>1. row' = [row EXCEPT ![d] = r]
      BY <1>1, <1>4
    <2>2. /\ row' \in [Deployments -> Rows] /\ row'[d] = r
          /\ \A e \in Deployments : e # d => row'[e] = row[e]
      BY <1>0, <1>2, <2>1
    <2> QED
      BY <1>1, <1>3, <1>4, <2>2 DEF Inserted, StartDeployment
  <1>5. CASE ~ MayInsert(c)
    BY <1>0, <1>1, <1>5
  <1> QED
    BY <1>4, <1>5

LEMMA RowStep ==
    ASSUME InfraInv, InfraAssumption, [Next]_vars
    PROVE  /\ row' \in [Deployments -> Rows]
           /\ heart' \in {"unknown", "idle", "running"}
           /\ \/ row' = row
              \/ \E c \in Clients, d \in Deployments : Inserted(c, d)
              \/ \E m :
                    /\ Sound(m) /\ Up
                    /\ \A d \in Deployments : row'[d] = row[d] \/ Handled(m, d)
                    /\ UNCHANGED <<main, build, ask, script>>
  <1>0. TypeOK /\ OneActive /\ LateSound
    BY DEF InfraInv
  <1>1. row \in [Deployments -> Rows] /\ heart \in {"unknown", "idle", "running"}
    BY <1>0 DEF TypeOK
  <1>2. CASE CallController \/ AnswerLost \/ LateRequest
    <2>1. UNCHANGED <<main, build, ask, script>>
      BY <1>2 DEF CallController, AnswerLost, LateRequest
    <2>2. \E m : Sound(m) /\ Serve(m)
      BY <1>0, <1>2, PendingSound DEF CallController, AnswerLost, LateRequest, LateSound
    <2> QED
      BY <1>0, <2>1, <2>2, ServeHandles
  <1>3. ASSUME NEW c \in Clients, StartDeployment(c)
        PROVE  /\ row' \in [Deployments -> Rows] /\ heart' = heart
               /\ row' = row \/ \E d \in Deployments : Inserted(c, d)
    BY <1>0, <1>3, InsertStep DEF StartDeployment
  <1>4. CASE row' = row /\ (heart' = heart \/ heart' = "running")
    BY <1>1, <1>4
  <1> QED
    BY <1>1, <1>2, <1>3, <1>4, Frame DEF Framed

\* A status never goes back, a row keeps where it came from, and a deployment
\* that has ended stays as it is.
LEMMA RowsForward ==
    ASSUME InfraInv, InfraAssumption, [Next]_vars, NEW d \in Deployments
    PROVE  /\ row'[d] \in Rows
           /\ row[d].status # "none" =>
                 /\ row'[d].status # "none"
                 /\ row[d].status \notin Fresh => row'[d].status \notin Fresh
                 /\ row'[d].recovery = row[d].recovery /\ row'[d].of = row[d].of
                 /\ row'[d].commit = row[d].commit /\ row'[d].expected = row[d].expected
                 /\ row[d].status \in TerminalStatuses => row'[d] = row[d]
           /\ row'[d].status \in Open \cup {"queued"} =>
                 \/ row[d].status \in Open \cup {"queued"}
                 \/ \E c \in Clients : Inserted(c, d)
           /\ row[d].status \in Open =>
                 \/ row'[d].status \in Open
                 \/ \E m : Sound(m) /\ m.op \in {"complete", "fail"} /\ m.job = d
           /\ row'[d].marked => row[d].marked \/ Switched(d)
  <1>0. TypeOK /\ row[d] \in Rows
    BY StatusKinds DEF InfraInv
  <1>1. row'[d] \in Rows
    BY RowStep
  <1>2. CASE row'[d] = row[d]
    BY <1>1, <1>2
  <1>3. ASSUME NEW c \in Clients, NEW e \in Deployments, Inserted(c, e), row'[d] # row[d]
        PROVE  d = e /\ row[d].status = "none" /\ row'[d].status = "queued" /\ ~ row'[d].marked
    BY <1>3 DEF Inserted, New
  <1>4. ASSUME NEW m, Sound(m), Handled(m, d)
        PROVE  /\ row[d].status \in Open \cup {"queued"}
               /\ row'[d].status \notin Fresh
               /\ row'[d].recovery = row[d].recovery /\ row'[d].of = row[d].of
               /\ row'[d].commit = row[d].commit /\ row'[d].expected = row[d].expected
               /\ row[d].status \in Open /\ row'[d].status \notin Open =>
                     m.op \in {"complete", "fail"} /\ m.job = d
               /\ row'[d].marked => row[d].marked \/ Switched(d)
    BY <1>4 DEF Handled, Sound, Open, Fresh
  <1>5. TerminalStatuses \cap (Open \cup Fresh) = {} /\ "none" \in Fresh
    BY DEF TerminalStatuses, Open, Fresh
  <1>6. \/ row'[d] = row[d]
        \/ \E c \in Clients, e \in Deployments : Inserted(c, e)
        \/ \E m : Sound(m) /\ Handled(m, d)
    BY RowStep
  <1>7. CASE row'[d] # row[d] /\ \E c \in Clients, e \in Deployments : Inserted(c, e)
    BY <1>1, <1>3, <1>5, <1>7 DEF Open
  <1>8. CASE \E m : Sound(m) /\ Handled(m, d)
    <2>1. PICK m : Sound(m) /\ Handled(m, d)
      BY <1>8
    <2>2. row[d].status # "none" /\ row[d].status \notin TerminalStatuses
          /\ row'[d].status # "none"
      BY <1>4, <1>5, <2>1 DEF Open, TerminalStatuses, Fresh
    <2> QED
      BY <1>1, <1>4, <2>1, <2>2
  <1> QED
    BY <1>2, <1>6, <1>7, <1>8

-----------------------------------------------------------------------------
(* How a step changes the scripts.                                         *)

Live == Spots \ {"none", "ok", "bad"}

\* What becomes of the script of a deployment, s, in one step, t.
Prolonged(s, t) ==
    /\ t \in Scripts
    /\ s.left => t.left
    /\ s.at \in {"ok", "bad"} => t.at = s.at
    /\ t.at = "none" => s.at = "none" /\ t.left = s.left
    /\ t.at = "begun" => s.at \in {"none", "begun"}
    /\ t.at = "marked" => s.at \in {"begun", "marked"}
    /\ \/ t.said = s.said
       \/ t.said = Append(s.said, "health") /\ t.at \notin {"none", "begun"}
       \/ /\ s.said = <<>> /\ t.said = Append(<<>>, "controller_switch")
          /\ t.at \notin {"none", "begun"}

LEMMA ScriptKinds ==
    ASSUME TypeOK, NEW d \in Deployments
    PROVE  /\ script \in [Deployments -> Scripts]
           /\ script[d] \in Scripts
           /\ script[d].at \in Spots
           /\ script[d].said \in Seq(Phases)
           /\ script[d].left \in BOOLEAN
  BY DEF TypeOK, Scripts, Spots, Phases

LEMMA Said ==
    ASSUME TypeOK, NEW d \in Deployments, NEW at \in Spots, NEW phase \in Phases,
           Says(d, at, phase)
    PROVE  /\ script' \in [Deployments -> Scripts]
           /\ script'[d].at = at
           /\ script'[d].said = Append(script[d].said, phase)
           /\ script'[d].left = script[d].left
           /\ \A e \in Deployments : e # d => script'[e] = script[e]
  <1> DEFINE said == Append(script[d].said, phase)
             t == [script[d] EXCEPT !.at = at, !.said = said]
  <1>1. script \in [Deployments -> Scripts] /\ script[d] \in Scripts
        /\ script[d].said \in Seq(Phases)
    BY ScriptKinds
  <1>2. said \in Seq(Phases)
    BY <1>1
  <1>3. script' = [script EXCEPT ![d] = t]
    BY <1>1 DEF Says
  <1> HIDE DEF said
  <1>4. t \in Scripts /\ t.at = at /\ t.said = said /\ t.left = script[d].left
    BY <1>1, <1>2 DEF Scripts, Spots, Phases
  <1> HIDE DEF t
  <1>5. script' \in [Deployments -> Scripts] /\ script'[d] = t
    BY <1>1, <1>3, <1>4
  <1>6. \A e \in Deployments : e # d => script'[e] = script[e]
    BY <1>1, <1>3
  <1> QED
    BY <1>4, <1>5, <1>6 DEF said

LEMMA Moved ==
    ASSUME TypeOK, NEW d \in Deployments, NEW at \in Spots,
           script' = [script EXCEPT ![d].at = at]
    PROVE  /\ script' \in [Deployments -> Scripts]
           /\ script'[d].at = at
           /\ script'[d].said = script[d].said
           /\ script'[d].left = script[d].left
           /\ \A e \in Deployments : e # d => script'[e] = script[e]
  <1> DEFINE t == [script[d] EXCEPT !.at = at]
  <1>1. script \in [Deployments -> Scripts] /\ script[d] \in Scripts
    BY ScriptKinds
  <1>2. script' = [script EXCEPT ![d] = t]
    BY <1>1
  <1>3. t \in Scripts /\ t.at = at /\ t.said = script[d].said /\ t.left = script[d].left
    BY <1>1 DEF Scripts, Spots
  <1> HIDE DEF t
  <1>4. script' \in [Deployments -> Scripts] /\ script'[d] = t
    BY <1>1, <1>2, <1>3
  <1>5. \A e \in Deployments : e # d => script'[e] = script[e]
    BY <1>1, <1>2
  <1> QED
    BY <1>3, <1>4, <1>5

LEMMA LaunchStep ==
    ASSUME InfraInv, Launch
    PROVE  /\ exec.job \in Deployments
           /\ script' \in [Deployments -> Scripts]
           /\ script[exec.job].at = "none" /\ script'[exec.job].at = "begun"
           /\ script'[exec.job].said = script[exec.job].said
           /\ script'[exec.job].left = script[exec.job].left
           /\ \A e \in Deployments : e # exec.job => script'[e] = script[e]
  <1> DEFINE d == exec.job
             t == [NoScript EXCEPT !.at = "begun"]
  <1>0. TypeOK /\ Holding /\ ScriptLog
    BY DEF InfraInv
  <1>1. d \in Deployments
    BY <1>0, ExecutorHolds DEF Launch
  <1>2. script \in [Deployments -> Scripts]
    BY <1>0, <1>1, ScriptKinds
  <1>3. script[d].at = "none" /\ script[d].said = <<>> /\ ~ script[d].left
    BY <1>0, <1>1 DEF Holding, ScriptLog, Launch, Early
  <1>4. script[d].left = FALSE
    BY <1>0, <1>1, <1>3, ScriptKinds
  <1>5. script' = [script EXCEPT ![d] = t]
    BY DEF Launch
  <1>6. NoScript \in Scripts /\ NoScript.said = <<>> /\ NoScript.left = FALSE
    BY DEF NoScript, Scripts
  <1>7. t \in Scripts /\ t.at = "begun" /\ t.said = <<>> /\ t.left = FALSE
    BY <1>6 DEF Scripts
  <1> HIDE DEF t, d
  <1>8. /\ script' \in [Deployments -> Scripts] /\ script'[d] = t
        /\ \A e \in Deployments : e # d => script'[e] = script[e]
    BY <1>1, <1>2, <1>5, <1>7
  <1> QED
    BY <1>1, <1>3, <1>4, <1>7, <1>8 DEF d

LEMMA UnreadableStep ==
    ASSUME InfraInv, OutputUnreadable
    PROVE  /\ exec.job \in Deployments
           /\ script' \in [Deployments -> Scripts]
           /\ script'[exec.job].at = script[exec.job].at
           /\ script'[exec.job].said = script[exec.job].said
           /\ script'[exec.job].left =
                 (script[exec.job].left \/ script[exec.job].at \notin {"ok", "bad"})
           /\ script[exec.job].at # "none"
           /\ \A e \in Deployments : e # exec.job => script'[e] = script[e]
  <1> DEFINE d == exec.job
             left == script[d].left \/ script[d].at \notin {"ok", "bad"}
             t == [script[d] EXCEPT !.left = left]
  <1>0. TypeOK /\ Holding
    BY DEF InfraInv
  <1>1. d \in Deployments /\ script[d].at # "none"
    BY <1>0, ExecutorHolds DEF OutputUnreadable, Holding, Reading
  <1>2. script \in [Deployments -> Scripts] /\ script[d] \in Scripts
    BY <1>0, <1>1, ScriptKinds
  <1>3. script' = [script EXCEPT ![d] = t]
    BY <1>1, <1>2 DEF OutputUnreadable
  <1>4. left \in BOOLEAN
    OBVIOUS
  <1> HIDE DEF left
  <1>5. t \in Scripts /\ t.at = script[d].at /\ t.said = script[d].said /\ t.left = left
    BY <1>2, <1>4 DEF Scripts
  <1> HIDE DEF t, d
  <1>6. /\ script' \in [Deployments -> Scripts] /\ script'[d] = t
        /\ \A e \in Deployments : e # d => script'[e] = script[e]
    BY <1>1, <1>2, <1>3, <1>5
  <1> QED
    BY <1>1, <1>5, <1>6 DEF d, left

LEMMA DiesStep ==
    ASSUME InfraInv, ExecutorDies
    PROVE  /\ exec.job \in Deployments
           /\ script' \in [Deployments -> Scripts]
           /\ script'[exec.job].at =
                 IF script[exec.job].at \in {"none", "ok"} THEN script[exec.job].at ELSE "bad"
           /\ script'[exec.job].said = script[exec.job].said
           /\ script'[exec.job].left = script[exec.job].left
           /\ \A e \in Deployments : e # exec.job => script'[e] = script[e]
  <1>0. TypeOK
    BY DEF InfraInv
  <1>1. exec.job \in Deployments
    BY <1>0, ExecutorHolds DEF ExecutorDies
  <1>2. CASE script[exec.job].at \in {"none", "ok"}
    BY <1>0, <1>1, <1>2, ScriptKinds DEF ExecutorDies
  <1>3. CASE script[exec.job].at \notin {"none", "ok"}
    <2>1. script' = [script EXCEPT ![exec.job].at = "bad"] /\ "bad" \in Spots
      BY <1>3 DEF ExecutorDies, Spots
    <2> DEFINE d == exec.job
    <2>2. d \in Deployments
      BY <1>1
    <2>3. script' = [script EXCEPT ![d].at = "bad"]
      BY <2>1
    <2> HIDE DEF d
    <2>4. /\ script' \in [Deployments -> Scripts]
          /\ script'[d].at = "bad"
          /\ script'[d].said = script[d].said
          /\ script'[d].left = script[d].left
          /\ \A e \in Deployments : e # d => script'[e] = script[e]
      BY <1>0, <2>1, <2>2, <2>3, Moved
    <2> QED
      BY <1>1, <1>3, <2>4 DEF d
  <1> QED
    BY <1>2, <1>3

LEMMA ScriptProlongs ==
    ASSUME InfraInv, NEW e \in Deployments, ScriptStep(e)
    PROVE  /\ script' \in [Deployments -> Scripts]
           /\ Prolonged(script[e], script'[e])
           /\ script[e].at \in Live
           /\ script'[e].left = script[e].left
           /\ script'[e].at = "stopped" => script[e].at = "marked"
           /\ \A d \in Deployments : d # e => script'[d] = script[d]
  <1>0. TypeOK /\ script[e].at \in Spots /\ script[e].said \in Seq(Phases)
        /\ (script[e].at \in {"none", "begun"} => script[e].said = <<>>)
    BY ScriptKinds DEF InfraInv, ScriptLog
  <1>1. CASE AnnounceSwitch(e)
    <2>1. Says(e, "marked", "controller_switch") /\ script[e].at = "begun"
          /\ "marked" \in Spots /\ "controller_switch" \in Phases
      BY <1>1 DEF AnnounceSwitch, At, Spots, Phases
    <2>2. /\ script' \in [Deployments -> Scripts]
          /\ script'[e].at = "marked" /\ script'[e].left = script[e].left
          /\ script'[e].said = Append(script[e].said, "controller_switch")
          /\ \A d \in Deployments : d # e => script'[d] = script[d]
      BY <1>0, <2>1, Said
    <2> QED
      BY <1>0, <2>1, <2>2 DEF Prolonged, Live, Spots
  <1>2. CASE StartController(e) \/ RecoverInPlace(e)
    <2>1. Says(e, "started", "health") /\ script[e].at \in {"begun", "stopped"}
          /\ "started" \in Spots /\ "health" \in Phases
      BY <1>2 DEF StartController, RecoverInPlace, At, Spots, Phases
    <2>2. /\ script' \in [Deployments -> Scripts]
          /\ script'[e].at = "started" /\ script'[e].left = script[e].left
          /\ script'[e].said = Append(script[e].said, "health")
          /\ \A d \in Deployments : d # e => script'[d] = script[d]
      BY <1>0, <2>1, Said
    <2> QED
      BY <1>0, <2>1, <2>2 DEF Prolonged, Live, Spots
  <1>3. CASE StopController(e) \/ ScriptEnds(e)
    <2>1. PICK at \in {"stopped", "ok", "bad"} :
            /\ script' = [script EXCEPT ![e].at = at]
            /\ script[e].at \in Live
            /\ at = "stopped" => script[e].at = "marked"
      BY <1>0, <1>3 DEF StopController, ScriptEnds, At, Spots, Live
    <2>2. at \in Spots
      BY DEF Spots
    <2>3. /\ script' \in [Deployments -> Scripts]
          /\ script'[e].at = at /\ script'[e].left = script[e].left
          /\ script'[e].said = script[e].said
          /\ \A d \in Deployments : d # e => script'[d] = script[d]
      BY <1>0, <2>1, <2>2, Moved
    <2> QED
      BY <1>0, <2>1, <2>3 DEF Prolonged, Live, Spots
  <1> QED
    BY <1>1, <1>2, <1>3 DEF ScriptStep

\* A script goes on, whoever makes the step.  What begins is launched by the
\* executor, on the deployment it holds.
LEMMA ScriptsForward ==
    ASSUME InfraInv, [Next]_vars
    PROVE  /\ script' \in [Deployments -> Scripts]
           /\ \A d \in Deployments :
                 /\ Prolonged(script[d], script'[d])
                 /\ script'[d].at = "none" \/ script[d].at # "none"
                    \/ (Launch /\ d = exec.job)
                 /\ script'[d].at = "stopped" => script[d].at \in {"marked", "stopped"}
  <1>0. TypeOK /\ script \in [Deployments -> Scripts]
    BY DEF InfraInv, TypeOK
  <1>1. \A d \in Deployments : Prolonged(script[d], script[d])
    BY <1>0, ScriptKinds DEF Prolonged
  <1>2. CASE script' = script
    BY <1>0, <1>1, <1>2
  <1>3. CASE Launch
    <2>1. Prolonged(script[exec.job], script'[exec.job])
      BY <1>3, LaunchStep DEF Prolonged
    <2> QED
      BY <1>1, <1>3, <2>1, LaunchStep
  <1>4. CASE OutputUnreadable
    <2>1. Prolonged(script[exec.job], script'[exec.job])
      BY <1>4, UnreadableStep DEF Prolonged
    <2> QED
      BY <1>1, <1>4, <2>1, UnreadableStep
  <1>5. CASE ExecutorDies
    <2>1. Prolonged(script[exec.job], script'[exec.job])
      BY <1>5, DiesStep DEF Prolonged
    <2>2. script'[exec.job].at # "stopped" \/ script'[exec.job].at = script[exec.job].at
      BY <1>5, DiesStep
    <2> QED
      BY <1>1, <1>5, <2>1, <2>2, DiesStep
  <1>6. ASSUME NEW e \in Deployments, ScriptStep(e)
        PROVE  /\ script' \in [Deployments -> Scripts]
               /\ \A d \in Deployments :
                     /\ Prolonged(script[d], script'[d])
                     /\ script'[d].at = "none" \/ script[d].at # "none"
                     /\ script'[d].at = "stopped" => script[d].at \in {"marked", "stopped"}
    <2>1. script[e].at # "none"
      BY <1>6, ScriptProlongs DEF Live
    <2> QED
      BY <1>1, <1>6, <2>1, ScriptProlongs
  <1> QED
    BY <1>2, <1>3, <1>4, <1>5, <1>6, Frame DEF Framed

LEMMA SwitchedForward ==
    ASSUME InfraInv, [Next]_vars, NEW d \in Deployments
    PROVE  /\ Len(script[d].said) <= Len(script'[d].said)
           /\ Switched(d) => Switched(d)'
  <1>1. script[d].said \in Seq(Phases)
    BY ScriptKinds DEF InfraInv
  <1>2. \/ script'[d].said = script[d].said
        \/ script'[d].said = Append(script[d].said, "health")
        \/ /\ script[d].said = <<>>
           /\ script'[d].said = Append(<<>>, "controller_switch")
    BY ScriptsForward DEF Prolonged
  <1>3. "health" \in Phases
    BY DEF Phases
  <1> QED
    BY <1>1, <1>2, <1>3 DEF Switched

-----------------------------------------------------------------------------
(* How a step changes the executor.                                        *)

\* It starts afresh, goes on with the deployment it holds, or takes the oldest
\* queued one.
Worked ==
    \/ exec' = Polling
    \/ /\ exec.at # "poll" /\ exec'.at # "poll" /\ exec'.job = exec.job
       /\ exec'.at \in Early => exec.at \in Early /\ UNCHANGED script
       /\ exec'.at \in Reading => exec.at \in Reading \/ Launch
       /\ exec'.at = "complete" =>
             exec.at = "complete" \/ script[exec.job].at = "ok"
       /\ exec'.at = "line" =>
             \/ exec.at = "line" /\ exec'.read = exec.read
             \/ exec'.read < Len(script[exec.job].said)
    \/ /\ exec.at = "poll" /\ CallController /\ Claimable # None
       /\ exec'.at = "source" /\ exec'.job = Claimable

LEMMA GotoKinds ==
    ASSUME TypeOK, NEW at \in Places
    PROVE  Goto(at) \in Execs /\ Goto(at).at = at
           /\ Goto(at).job = exec.job /\ Goto(at).read = exec.read
  BY ExecutorHolds DEF Goto, Execs

LEMMA PollingKinds ==
    /\ Polling \in Execs /\ Polling.at = "poll" /\ Polling.job = None
    /\ "poll" \notin Early \cup Reading
  BY DEF Polling, Execs, Places, Early, Reading

LEMMA ExecForward ==
    ASSUME InfraInv, InfraAssumption, [Next]_vars
    PROVE  /\ exec' \in Execs
           /\ exec'.job = None <=> exec'.at = "poll"
           /\ exec' = exec \/ Worked
           /\ exec.at \in Reading =>
                 \/ exec'.job = exec.job /\ exec'.at \in Reading
                 \/ script'[exec.job].at \in {"ok", "bad"}
                 \/ script'[exec.job].left
  <1>0. TypeOK /\ OneActive /\ Holding
    BY DEF InfraInv
  <1>1. exec \in Execs /\ (exec.job = None <=> exec.at = "poll")
    <2>1. exec.job = None <=> exec.at = "poll"
      BY <1>0 DEF TypeOK
    <2> QED
      BY <1>0, <2>1, ExecutorHolds
  <1>2. CASE exec' = exec
    BY <1>1, <1>2
  <1>3. CASE CallController \/ (GiveUp /\ exec' = Answered)
    <2>1. Waiting /\ exec' = Answered /\ script' = script
          /\ (exec.at = "poll" => CallController)
      BY <1>3 DEF CallController, GiveUp, Waiting
    <2>2. /\ Answered \in Execs
          /\ \/ Answered = Polling
             \/ /\ exec.at = "poll" /\ Claimable # None
                /\ Answered.at = "source" /\ Answered.job = Claimable
             \/ exec.at = "source" /\ Answered.at = "prepare" /\ Answered.job = exec.job
             \/ exec.at = "checked" /\ Answered.at = "launch" /\ Answered.job = exec.job
             \/ exec.at = "line" /\ Answered.at = "watch" /\ Answered.job = exec.job
      BY <1>0, <2>1, AnsweredWhere
    <2>3. exec.at = "line" => Answered # Polling
      BY <1>1 DEF Answered, Polling, Execs
    <2> QED
      BY <1>1, <2>1, <2>2, <2>3, PollingKinds DEF Worked, Early, Reading, Waiting
  <1>4. CASE GiveUp /\ exec' # Answered
    <2>1. exec.at = "complete" /\ exec' = Goto("failing") /\ "failing" \in Places
      BY <1>4 DEF GiveUp, Places
    <2> QED
      BY <1>0, <1>1, <2>1, GotoKinds DEF Worked, Early, Reading
  <1>5. CASE PrepareWorkspace
    <2>1. exec.at = "prepare" /\ exec' \in {Goto("checked"), Goto("failing")}
          /\ script' = script /\ "checked" \in Places /\ "failing" \in Places
      BY <1>5 DEF PrepareWorkspace, Places
    <2> QED
      BY <1>0, <1>1, <2>1, GotoKinds DEF Worked, Early, Reading
  <1>6. CASE Launch
    <2>1. exec.at = "launch" /\ exec' = Goto("watch") /\ "watch" \in Places
      BY <1>6 DEF Launch, Places
    <2> QED
      BY <1>0, <1>1, <1>6, <2>1, GotoKinds DEF Worked, Early, Reading
  <1>7. CASE Watch
    <2>1. exec.at = "watch" /\ script' = script
      BY <1>7 DEF Watch
    <2>2. CASE exec' = Goto("line") /\ exec.read < Len(script[exec.job].said)
      <3>1. "line" \in Places
        BY DEF Places
      <3> QED
        BY <1>0, <1>1, <2>1, <2>2, <3>1, GotoKinds DEF Worked, Early, Reading
    <2>3. CASE /\ script[exec.job].at \in {"ok", "bad"}
               /\ \E at \in Verdict(exec.job) : exec' = Goto(at)
      <3>1. PICK at \in {"complete", "failing"} :
              exec' = Goto(at) /\ (at = "complete" => script[exec.job].at = "ok")
        BY <2>3 DEF Verdict
      <3>2. at \in Places
        BY DEF Places
      <3>3. exec' \in Execs /\ exec'.at = at /\ exec'.job = exec.job
        BY <1>0, <3>1, <3>2, GotoKinds
      <3> QED
        BY <1>1, <2>1, <2>3, <3>1, <3>3 DEF Worked, Early, Reading
    <2> QED
      BY <1>7, <2>2, <2>3 DEF Watch
  <1>8. CASE OutputUnreadable
    <2>1. exec.at = "watch" /\ exec' = Goto("failing") /\ "failing" \in Places
      BY <1>8 DEF OutputUnreadable, Places
    <2>2. script'[exec.job].at = script[exec.job].at
          /\ script'[exec.job].left =
                (script[exec.job].left \/ script[exec.job].at \notin {"ok", "bad"})
      BY <1>8, UnreadableStep
    <2> QED
      BY <1>0, <1>1, <2>1, <2>2, GotoKinds DEF Worked, Early, Reading
  <1>9. CASE ExecutorDies
    <2>1. exec' = Polling
      BY <1>9 DEF ExecutorDies
    <2>2. exec.at \in Reading => script'[exec.job].at \in {"ok", "bad"}
      BY <1>0, <1>9, DiesStep DEF Holding
    <2> QED
      BY <1>1, <2>1, <2>2, PollingKinds DEF Worked
  <1> QED
    BY <1>2, <1>3, <1>4, <1>5, <1>6, <1>7, <1>8, <1>9, Frame DEF Framed, ExecutorStep

\* What the executor takes: a queued deployment whose planner saw this build.
LEMMA Taken ==
    ASSUME InfraInv, InfraAssumption, exec.at = "poll", CallController, Claimable # None
    PROVE  /\ Claimable \in Deployments
           /\ row[Claimable].status = "queued" /\ row'[Claimable].status = "claimed"
           /\ row'[Claimable].expected = row[Claimable].expected
           /\ Up /\ build = row[Claimable].expected
           /\ script[Claimable].at = "none"
           /\ UNCHANGED <<build, script, late>>
  <1>0. TypeOK /\ OneActive /\ ScriptLog
    BY DEF InfraInv
  <1>1. /\ Claimable = Oldest /\ Queued # {}
        /\ Claimable \in Deployments /\ row[Claimable].status = "queued"
        /\ ~ Stale(Claimable)
    BY <1>0, ClaimableQueued
  <1>2. UNCHANGED <<build, script, late>> /\ Up /\ Claim
    <2>1. Pending.op = "claim"
      BY DEF Pending, Request
    <2> QED
      BY <2>1 DEF CallController, Serve
  <1> DEFINE d == Claimable
  <1>3. Revised(d, "claimed", "claimed", row[d].marked)
    BY <1>1, <1>2 DEF Claim
  <1>4. row[d].marked \in BOOLEAN /\ "claimed" \in Statuses /\ "claimed" \in Steps
    BY <1>0, <1>1, StatusKinds DEF Rows, Statuses, Steps
  <1>5. d \in Deployments
    BY <1>1
  <1> HIDE DEF d
  <1>6. row'[d].status = "claimed" /\ row'[d].expected = row[d].expected
    BY <1>0, <1>3, <1>4, <1>5, RevisedRow DEF RevisedTo
  <1>7. script[Claimable].at = "none"
    BY <1>0, <1>1 DEF ScriptLog, Fresh
  <1> QED
    BY <1>1, <1>2, <1>6, <1>7 DEF Stale, d

\* The executor is in the middle of a deployment: it was before, or took it.
LEMMA MidWork ==
    ASSUME InfraInv, InfraAssumption, [Next]_vars, exec'.at \in Early \cup Reading
    PROVE  \/ exec'.job = exec.job /\ exec.at \in Early \cup Reading
           \/ /\ exec.at = "poll" /\ CallController /\ Claimable # None
              /\ exec'.at = "source" /\ exec'.job = Claimable
  <1>1. exec' = exec \/ Worked
    BY ExecForward
  <1>2. CASE Worked
    BY <1>2, PollingKinds DEF Worked, Launch, Early, Reading
  <1> QED
    BY <1>1, <1>2

-----------------------------------------------------------------------------
(* The parts of the inductive invariant.                                   *)

LEMMA LinePrintedStep ==
    ASSUME InfraInv, InfraAssumption, [Next]_vars
    PROVE  LinePrinted'
  <1> SUFFICES ASSUME exec'.at = "line"
               PROVE  exec'.read < Len(script'[exec'.job].said)
    BY DEF LinePrinted
  <1>0. TypeOK /\ LinePrinted
    BY DEF InfraInv
  <1>1. /\ exec \in Execs /\ exec' \in Execs
        /\ exec.at # "poll" => exec.job \in Deployments
    BY <1>0, ExecutorHolds, ExecForward
  <1>2. /\ exec.at # "poll" /\ exec'.job = exec.job
        /\ exec'.read < Len(script[exec.job].said)
    <2>1. CASE exec' = exec
      BY <1>0, <2>1 DEF LinePrinted
    <2>2. CASE Worked
      BY <1>0, <2>2, PollingKinds DEF Worked, LinePrinted
    <2> QED
      BY <2>1, <2>2, ExecForward
  <1>3. /\ script[exec.job].said \in Seq(Phases)
        /\ Len(script[exec.job].said) <= Len(script'[exec.job].said)
    BY <1>0, <1>1, <1>2, ScriptKinds, SwitchedForward
  <1>4. script'[exec.job].said \in Seq(Phases)
    BY <1>1, <1>2, ScriptsForward DEF Scripts, Phases
  <1>5. /\ Len(script[exec.job].said) \in Nat /\ Len(script'[exec.job].said) \in Nat
        /\ exec'.read \in Nat
    BY <1>1, <1>3, <1>4 DEF Execs
  <1> QED
    BY <1>2, <1>3, <1>5

LEMMA InOrderStep ==
    ASSUME InfraInv, InfraAssumption, [Next]_vars
    PROVE  InOrder'
  <1> SUFFICES ASSUME NEW d \in Deployments, NEW e \in Deployments,
                      row'[d].status = "none", row'[e].status # "none"
               PROVE  e < d
    BY DEF InOrder
  <1>0. InOrder /\ d \in Nat /\ e \in Nat
    BY DEF InfraInv, InfraAssumption
  <1>1. row[d].status = "none"
    BY RowsForward
  <1>2. CASE row[e].status # "none"
    BY <1>0, <1>1, <1>2 DEF InOrder
  <1>3. CASE row[e].status = "none"
    <2>1. row'[e] # row[e] /\ ~ \E m : Handled(m, e)
      BY <1>3 DEF Handled, Open
    <2>2. PICK c \in Clients, k \in Deployments : Inserted(c, k)
      BY <2>1, RowStep
    <2>3. New(e)
      BY <2>1, <2>2 DEF Inserted
    <2> QED
      BY <1>0, <1>1, <1>3, <2>3 DEF New
  <1> QED
    BY <1>2, <1>3

LEMMA ScriptLogStep ==
    ASSUME InfraInv, InfraAssumption, [Next]_vars
    PROVE  ScriptLog'
  <1> SUFFICES ASSUME NEW d \in Deployments
               PROVE  /\ script'[d].at \in {"none", "begun"} => script'[d].said = <<>>
                      /\ \A i \in DOMAIN script'[d].said :
                            script'[d].said[i] = "controller_switch" => i = 1
                      /\ script'[d].at # "none" => row'[d].status \notin Fresh
                      /\ script'[d].at = "none" => ~ script'[d].left
    BY DEF ScriptLog
  <1>0. TypeOK /\ ScriptLog /\ Holding
    BY DEF InfraInv
  <1>1. Prolonged(script[d], script'[d])
    BY ScriptsForward
  <1>2. script[d].said \in Seq(Phases)
    BY <1>0, ScriptKinds
  <1>3. script'[d].at \in {"none", "begun"} => script'[d].said = <<>>
    BY <1>0, <1>1 DEF Prolonged, ScriptLog
  <1>4. ASSUME NEW i \in DOMAIN script'[d].said, script'[d].said[i] = "controller_switch"
        PROVE  i = 1
    <2>1. CASE script'[d].said = script[d].said
      BY <1>0, <1>4, <2>1 DEF ScriptLog
    <2>2. CASE script'[d].said = Append(script[d].said, "health")
      <3>1. "health" \in Phases
        BY DEF Phases
      <3>2. i \in DOMAIN script[d].said /\ script[d].said[i] = "controller_switch"
        BY <1>2, <1>4, <2>2, <3>1
      <3> QED
        BY <1>0, <3>2 DEF ScriptLog
    <2>3. CASE script'[d].said = Append(<<>>, "controller_switch")
      BY <1>4, <2>3
    <2> QED
      BY <1>1, <2>1, <2>2, <2>3 DEF Prolonged
  <1>5. script'[d].at # "none" => row'[d].status \notin Fresh
    <2>1. CASE script[d].at # "none"
      BY <1>0, <2>1, RowsForward DEF ScriptLog, Fresh
    <2>2. CASE Launch /\ d = exec.job
      BY <1>0, <2>2, RowsForward DEF Holding, Launch, Fresh
    <2> QED
      BY <2>1, <2>2, ScriptsForward
  <1>6. script'[d].at = "none" => ~ script'[d].left
    BY <1>0, <1>1 DEF Prolonged, ScriptLog
  <1> QED
    BY <1>3, <1>4, <1>5, <1>6

LEMMA HoldingStep ==
    ASSUME InfraInv, InfraAssumption, [Next]_vars
    PROVE  Holding'
  <1>0. TypeOK /\ Holding /\ LateSound
    BY DEF InfraInv
  <1>1. exec.at # "poll" => exec.job \in Deployments
    BY <1>0, ExecutorHolds
  <1>2. exec'.at # "poll" => row'[exec'.job].status \notin Fresh
    <2>1. CASE exec'.job = exec.job /\ exec.at # "poll"
      BY <1>0, <1>1, <2>1, RowsForward DEF Holding, Fresh
    <2>2. CASE exec.at = "poll" /\ exec' # exec /\ exec' # Polling
      BY <2>2, ExecForward, Taken DEF Worked, Fresh
    <2>3. CASE exec' = Polling
      BY <2>3, PollingKinds
    <2> QED
      BY <2>1, <2>2, <2>3, ExecForward DEF Worked
  <1>3. exec'.at \in Early => script'[exec'.job].at = "none"
    <2>1. CASE exec' = exec /\ exec.at \in Early
      <3>1. exec.job \in Deployments
        BY <1>1, <2>1, PollingKinds
      <3>2. script[exec.job].at = "none"
        BY <1>0, <2>1 DEF Holding
      <3>3. Launch => exec'.at = "watch"
        BY DEF Launch, Goto
      <3> QED
        BY <2>1, <3>1, <3>2, <3>3, ScriptsForward DEF Early
    <2>2. CASE Worked /\ exec'.at \in Early
      BY <1>0, <2>2, Taken, PollingKinds DEF Worked, Holding
    <2> QED
      BY <2>1, <2>2, ExecForward
  <1>4. exec'.at \in Reading => script'[exec'.job].at # "none"
    <2>1. CASE exec'.job = exec.job /\ exec.at \in Reading
      <3>1. exec.job \in Deployments /\ script[exec.job].at # "none"
        BY <1>0, <1>1, <2>1, PollingKinds DEF Holding
      <3> QED
        BY <2>1, <3>1, ScriptsForward DEF Prolonged
    <2>2. CASE exec'.job = exec.job /\ Launch
      BY <2>2, LaunchStep
    <2>3. exec'.at \in Reading => exec'.job = exec.job /\ (exec.at \in Reading \/ Launch)
      BY ExecForward, PollingKinds DEF Worked, Reading
    <2> QED
      BY <2>1, <2>2, <2>3
  <1>5. exec'.at \in Early \cup Reading => row'[exec'.job].status \in Open
    <2>1. CASE exec'.job = exec.job /\ exec.at \in Early \cup Reading
      <3>1. exec.job \in Deployments /\ row[exec.job].status \in Open
        BY <1>0, <1>1, <2>1, PollingKinds DEF Holding
      <3>2. ~ \E m : Sound(m) /\ m.op \in {"complete", "fail"} /\ m.job = exec.job
        BY <2>1 DEF Sound
      <3> QED
        BY <2>1, <3>1, <3>2, RowsForward
    <2>2. CASE exec.at = "poll" /\ CallController /\ Claimable # None /\ exec'.job = Claimable
      BY <2>2, Taken DEF Open
    <2> QED
      BY <2>1, <2>2, MidWork
  <1>6. exec'.at = "complete" => script'[exec'.job].at = "ok"
    <2>1. exec'.at = "complete" =>
            exec'.job = exec.job /\ exec.at # "poll" /\ script[exec.job].at = "ok"
      BY <1>0, ExecForward, PollingKinds DEF Worked, Holding
    <2> QED
      BY <1>1, <2>1, ScriptsForward DEF Prolonged
  <1> QED
    BY <1>2, <1>3, <1>4, <1>5, <1>6 DEF Holding

\* A request stays true, however long it is on its way.
LEMMA SoundForward ==
    ASSUME InfraInv, InfraAssumption, [Next]_vars, NEW m, Sound(m)
    PROVE  Sound(m)'
  <1>1. m.op # "claim" => m.job \in Deployments /\ row[m.job].status \notin Fresh
    BY DEF Sound
  <1>2. m.op # "claim" => row'[m.job].status \notin Fresh
    BY <1>1, RowsForward DEF Fresh
  <1>3. m.op = "progress" /\ m.step = "controller_switch" => Switched(m.job)'
    BY <1>1, SwitchedForward DEF Sound
  <1>4. m.op = "complete" => script'[m.job].at = "ok"
    BY <1>1, ScriptsForward DEF Sound, Prolonged
  <1>5. ASSUME m.op \in {"complete", "fail"}, exec'.job = m.job,
               exec'.at \in Early \cup Reading
        PROVE  FALSE
    <2>1. CASE exec'.job = exec.job /\ exec.at \in Early \cup Reading
      BY <1>5, <2>1 DEF Sound
    <2>2. CASE exec.at = "poll" /\ CallController /\ Claimable # None
               /\ exec'.job = Claimable
      BY <1>1, <1>5, <2>2, Taken DEF Fresh
    <2> QED
      BY <1>5, <2>1, <2>2, MidWork
  <1> QED
    BY <1>1, <1>2, <1>3, <1>4, <1>5 DEF Sound

LEMMA LateSoundStep ==
    ASSUME InfraInv, InfraAssumption, [Next]_vars
    PROVE  LateSound'
  <1> SUFFICES ASSUME NEW m \in late'
               PROVE  Sound(m)'
    BY DEF LateSound
  <1>1. m \in late \/ (m = Pending /\ Waiting)
    BY Frame DEF Framed, RequestDelayed, LateRequest, StopController, StartController,
                 OperatorDeploys, Restarted
  <1>2. Sound(m)
    BY <1>1, PendingSound DEF InfraInv, LateSound
  <1> QED
    BY <1>2, SoundForward

\* What made a recovery possible stays.
SourceNext(s, commit) ==
    /\ s \in Deployments
    /\ row'[s].status = "failed"
    /\ row'[s].commit = commit
    /\ row'[s].marked \/ (row'[s].recovery /\ row'[s].of # None)

LEMMA RecoverySourceForward ==
    ASSUME InfraInv, InfraAssumption, [Next]_vars, NEW s, NEW commit, RecoverySource(s, commit)
    PROVE  SourceNext(s, commit)
  <1>1. s \in Deployments /\ row'[s] = row[s]
    BY RowsForward DEF RecoverySource, TerminalStatuses
  <1> QED
    BY <1>1 DEF RecoverySource, SourceNext

LEMMA PlansSoundStep ==
    ASSUME InfraInv, InfraAssumption, [Next]_vars
    PROVE  PlansSound'
  <1> SUFFICES ASSUME NEW c \in Clients, ask'[c].of # None
               PROVE  SourceNext(ask'[c].of, ask'[c].commit)
    BY DEF PlansSound, RecoverySource, SourceNext
  <1>0. TypeOK /\ PlansSound /\ ask \in [Clients -> Plans]
    BY DEF InfraInv, TypeOK
  <1>1. NoAsk.of = None
    BY DEF NoAsk
  <1>2. CASE ask'[c] = ask[c]
    <2>1. RecoverySource(ask[c].of, ask[c].commit)
      BY <1>0, <1>2 DEF PlansSound
    <2> QED
      BY <1>2, <2>1, RecoverySourceForward
  <1>3. CASE ask'[c] # ask[c]
    <2>1. \/ \E b \in Commits, of \in Deployments \cup {None} : PlanDeployment(c, b, of)
          \/ ask'[c] = NoAsk
      <3>1. ASSUME NEW k \in Clients, NEW b \in Commits, NEW of \in Deployments \cup {None},
                   PlanDeployment(k, b, of)
            PROVE  PlanDeployment(c, b, of)
        BY <1>0, <1>3, <3>1 DEF PlanDeployment
      <3>2. ASSUME NEW k \in Clients, StartDeployment(k)
            PROVE  ask'[c] = NoAsk
        BY <1>0, <1>3, <3>2 DEF StartDeployment
      <3>3. (ask' = [k \in Clients |-> NoAsk]) => ask'[c] = NoAsk
        OBVIOUS
      <3> QED
        BY <1>3, <3>1, <3>2, <3>3, Frame
        DEF Framed, StopController, StartController, OperatorDeploys, Restarted
    <2>2. PICK b \in Commits, of \in Deployments \cup {None} : PlanDeployment(c, b, of)
      BY <1>1, <2>1
    <2>3. /\ ask'[c] = [of |-> of, commit |-> b, expected |-> build]
          /\ Eligible(b, of) /\ UNCHANGED row
      BY <1>0, <2>2 DEF PlanDeployment
    <2>4. RecoverySource(of, b)
      BY <2>3 DEF Eligible
    <2> QED
      BY <2>3, <2>4, RecoverySourceForward
  <1> QED
    BY <1>2, <1>3

LEMMA MarkedSoundStep ==
    ASSUME InfraInv, InfraAssumption, [Next]_vars
    PROVE  MarkedSound'
  <1> SUFFICES ASSUME NEW d \in Deployments, row'[d].marked
               PROVE  Switched(d)'
    BY DEF MarkedSound
  <1>1. Switched(d)
    BY RowsForward DEF InfraInv, MarkedSound
  <1> QED
    BY <1>1, SwitchedForward

LEMMA LiveIsReadStep ==
    ASSUME InfraInv, InfraAssumption, [Next]_vars
    PROVE  LiveIsRead'
  <1> SUFFICES ASSUME NEW d \in Deployments, script'[d].at \notin {"none", "ok", "bad"},
                      ~ script'[d].left
               PROVE  exec'.job = d /\ exec'.at \in Reading
    BY DEF LiveIsRead
  <1>0. TypeOK /\ LiveIsRead
    BY DEF InfraInv
  <1>1. CASE script[d].at # "none"
    <2>1. script[d].at \notin {"none", "ok", "bad"} /\ ~ script[d].left
      BY <1>1, ScriptsForward DEF Prolonged
    <2>2. exec.job = d /\ exec.at \in Reading
      BY <1>0, <2>1 DEF LiveIsRead
    <2> QED
      BY <2>2, ExecForward
  <1>2. CASE Launch /\ d = exec.job
    BY <1>2 DEF Launch, Goto, Reading
  <1> QED
    BY <1>1, <1>2, ScriptsForward

LEMMA BuildExpectedStep ==
    ASSUME InfraInv, InfraAssumption, [Next]_vars
    PROVE  BuildExpected'
  <1> SUFFICES ASSUME exec'.at \in Early \cup Reading,
                      script'[exec'.job].at \in {"none", "begun", "marked"},
                      \A e \in Deployments : ~ script'[e].left
               PROVE  build' # NoBuild /\ build' = row'[exec'.job].expected
    BY DEF BuildExpected, Up
  <1>0. TypeOK /\ Holding /\ LiveIsRead /\ BuildExpected
    BY DEF InfraInv
  <1>1. CASE exec.at = "poll" /\ CallController /\ Claimable # None /\ exec'.job = Claimable
    BY <1>1, Taken DEF Up
  <1>2. CASE exec'.job = exec.job /\ exec.at \in Early \cup Reading
    <2> DEFINE d == exec.job
    <2>1. d \in Deployments
      BY <1>0, <1>2, ExecutorHolds, PollingKinds
    <2>2. \A e \in Deployments : ~ script[e].left
      BY ScriptsForward DEF Prolonged
    <2>3. script[d].at \in {"none", "begun", "marked"}
      <3>1. script'[d].at \in {"none", "begun", "marked"}
        BY <1>2
      <3>2. Prolonged(script[d], script'[d])
        BY <2>1, ScriptsForward
      <3> QED
        BY <3>1, <3>2 DEF Prolonged
    <2>4. build # NoBuild /\ build = row[d].expected
      BY <1>0, <1>2, <2>2, <2>3 DEF BuildExpected, Up
    <2>5. row[d].status \in Open /\ row'[d].expected = row[d].expected
      BY <1>0, <1>2, <2>1, RowsForward DEF Holding, Open
    <2>6. build' = build
      <3>1. ASSUME NEW e \in Deployments, StopController(e)
            PROVE  FALSE
        <4>1. script[e].at = "marked" /\ script'[e].at = "stopped"
          BY <1>0, <3>1, ScriptKinds DEF StopController, At, Scripts
        <4>2. exec.job = e
          BY <1>0, <2>2, <4>1 DEF LiveIsRead
        <4> QED
          BY <1>2, <4>1, <4>2
      <3>2. ASSUME NEW e \in Deployments, StartController(e)
            PROVE  FALSE
        BY <2>4, <3>2 DEF StartController, Up
      <3>3. ~ OperatorDeploys
        BY <2>1, <2>4, <2>5 DEF OperatorDeploys, Up, Open
      <3> QED
        BY <3>1, <3>2, <3>3, Frame DEF Framed
    <2> QED
      BY <1>2, <2>4, <2>5, <2>6
  <1> QED
    BY <1>1, <1>2, MidWork

LEMMA OneActiveStep ==
    ASSUME InfraInv, InfraAssumption, [Next]_vars
    PROVE  OneActive'
  <1> SUFFICES ASSUME NEW d \in Deployments, NEW e \in Deployments,
                      Active(d)', Active(e)'
               PROVE  d = e
    BY DEF OneActive
  <1>0. TypeOK /\ OneActive
    BY DEF InfraInv
  <1>1. \A k \in Deployments : Active(k)' =>
           Active(k) \/ \E c \in Clients : Inserted(c, k)
    BY <1>0, RowsForward, StatusKinds DEF Active, Open
  <1>2. ASSUME NEW k \in Deployments, NEW j \in Deployments, NEW c \in Clients,
               Inserted(c, k), Active(j)'
        PROVE  j = k
    BY <1>2 DEF Inserted, MayInsert, Active
  <1> QED
    BY <1>0, <1>1, <1>2 DEF OneActive

LEMMA RecoverySoundStep ==
    ASSUME InfraInv, InfraAssumption, [Next]_vars
    PROVE  RecoverySound'
  <1> DEFINE Backed(s, commit) ==
               /\ s \in Deployments
               /\ row'[s].status = "failed" /\ row'[s].commit = commit
               /\ \/ row'[s].recovery
                  \/ /\ Len(script'[s].said) > 0
                     /\ script'[s].said[1] = "controller_switch"
  <1> SUFFICES ASSUME NEW d \in Deployments, row'[d].recovery
               PROVE  Backed(row'[d].of, row'[d].commit) /\ row'[d].of < d
    BY DEF RecoverySound, Switched
  <1>0. TypeOK /\ RecoverySound /\ InOrder /\ PlansSound /\ MarkedSound
    BY DEF InfraInv
  <1>1. ASSUME NEW s \in Deployments, row[s].status = "failed",
               row[s].recovery \/ Switched(s)
        PROVE  Backed(s, row[s].commit)
    BY <1>1, RowsForward, SwitchedForward DEF TerminalStatuses, Switched
  <1>2. CASE row[d].recovery /\ row[d].of = row'[d].of /\ row[d].commit = row'[d].commit
    BY <1>0, <1>1, <1>2 DEF RecoverySound, Switched
  <1>3. ASSUME NEW c \in Clients, Inserted(c, d)
        PROVE  Backed(row'[d].of, row'[d].commit) /\ row'[d].of < d
    <2> DEFINE s == ask[c].of
    <2>1. /\ s # None /\ row'[d].of = s /\ row'[d].commit = ask[c].commit
          /\ row[d].status = "none"
      BY <1>3 DEF Inserted, New
    <2>2. RecoverySource(s, ask[c].commit)
      BY <1>0, <2>1 DEF PlansSound
    <2>3. /\ s \in Deployments /\ row[s].status = "failed"
          /\ row[s].commit = ask[c].commit
          /\ row[s].recovery \/ Switched(s)
      BY <1>0, <2>2 DEF RecoverySource, MarkedSound
    <2>4. s < d
      BY <1>0, <2>1, <2>3 DEF InOrder
    <2> QED
      BY <1>1, <2>1, <2>3, <2>4
  <1>4. \/ row[d].recovery = row'[d].recovery
           /\ row[d].of = row'[d].of /\ row[d].commit = row'[d].commit
        \/ \E c \in Clients : Inserted(c, d)
    <2>1. CASE row' = row
      BY <2>1
    <2>2. ASSUME NEW c \in Clients, NEW k \in Deployments, Inserted(c, k)
          PROVE  d = k \/ row'[d] = row[d]
      BY <2>2 DEF Inserted
    <2>3. ASSUME NEW m, Handled(m, d)
          PROVE  /\ row[d].recovery = row'[d].recovery
                 /\ row[d].of = row'[d].of /\ row[d].commit = row'[d].commit
      BY <2>3 DEF Handled
    <2> QED
      BY <2>1, <2>2, <2>3, RowStep
  <1> QED
    BY <1>2, <1>3, <1>4

LEMMA TypeOKStep ==
    ASSUME InfraInv, InfraAssumption, [Next]_vars
    PROVE  TypeOK'
  <1>0. TypeOK /\ LateSound
    BY DEF InfraInv
  <1>1. row' \in [Deployments -> Rows] /\ heart' \in {"unknown", "idle", "running"}
    BY RowStep
  <1>2. main' \in Commits
    BY <1>0, Frame DEF Framed, MainMoves, TypeOK
  <1>3. build' \in Commits \cup {NoBuild}
    <2>1. ASSUME NEW d \in Deployments, StopController(d) \/ StartController(d)
          PROVE  build' \in Commits \cup {NoBuild}
      BY <1>0, <2>1, StatusKinds DEF StopController, StartController, Restarted, Rows
    <2>2. CASE OperatorDeploys
      BY <2>2 DEF OperatorDeploys, Restarted
    <2>3. CASE build' = build
      BY <1>0, <2>3 DEF TypeOK
    <2> QED
      BY <2>1, <2>2, <2>3, Frame DEF Framed
  <1>4. ask' \in [Clients -> Plans]
    <2>1. ask \in [Clients -> Plans] /\ NoAsk \in Plans
          /\ build \in Commits \cup {NoBuild}
      BY <1>0 DEF TypeOK, NoAsk, Plans
    <2>2. ASSUME NEW c \in Clients, NEW b \in Commits, NEW of \in Deployments \cup {None},
                 PlanDeployment(c, b, of)
          PROVE  ask' \in [Clients -> Plans]
      <3> DEFINE plan == [of |-> of, commit |-> b, expected |-> build]
      <3>1. plan \in Plans
        BY <2>1 DEF Plans
      <3>2. ask' = [ask EXCEPT ![c] = plan]
        BY <2>2 DEF PlanDeployment
      <3> HIDE DEF plan
      <3> QED
        BY <2>1, <3>1, <3>2
    <2>3. ASSUME NEW c \in Clients, StartDeployment(c)
          PROVE  ask' \in [Clients -> Plans]
      BY <2>1, <2>3 DEF StartDeployment
    <2>4. ask' = [c \in Clients |-> NoAsk] => ask' \in [Clients -> Plans]
      BY <2>1
    <2> QED
      BY <2>1, <2>2, <2>3, <2>4, Frame
      DEF Framed, StopController, StartController, OperatorDeploys, Restarted
  <1>5. exec' \in Execs /\ (exec'.job = None <=> exec'.at = "poll")
    BY ExecForward
  <1>6. script' \in [Deployments -> Scripts]
    BY ScriptsForward
  <1>7. late' \in SUBSET Requests
        /\ \A m \in late' : m.op # "claim" => m.job \in Deployments
    <2>1. LateSound'
      BY LateSoundStep
    <2> QED
      BY <2>1 DEF LateSound, Sound
  <1>8. faults' \in Nat
    <2>1. faults \in Nat
      BY <1>0 DEF TypeOK
    <2> QED
      BY <2>1, Frame DEF Framed, Fault
  <1> QED
    BY <1>1, <1>2, <1>3, <1>4, <1>5, <1>6, <1>7, <1>8 DEF TypeOK, Execs

LEMMA InfraInvInit ==
    ASSUME InfraAssumption, Init
    PROVE  InfraInv
  <1>1. NoRow \in Rows /\ NoScript \in Scripts /\ NoAsk \in Plans
    BY DEF NoRow, Rows, Steps, NoScript, Scripts, NoAsk, Plans
  <1>2. \A d \in Deployments : row[d] = NoRow /\ script[d] = NoScript
    BY DEF Init
  <1>3. TypeOK
    <2>1. row \in [Deployments -> Rows] /\ script \in [Deployments -> Scripts]
          /\ ask \in [Clients -> Plans]
      BY <1>1 DEF Init
    <2>2. heart \in {"unknown", "idle", "running"} /\ main \in Commits
          /\ build \in Commits \cup {NoBuild} /\ faults \in Nat /\ late = {}
      BY DEF Init
    <2>3. exec \in Execs /\ (exec.job = None <=> exec.at = "poll")
      BY PollingKinds DEF Init
    <2> QED
      BY <2>1, <2>2, <2>3 DEF TypeOK, Execs
  <1>4. exec.at = "poll" /\ late = {}
    BY PollingKinds DEF Init
  <1>5. LinePrinted /\ Holding /\ LateSound /\ BuildExpected
    BY <1>4, PollingKinds
    DEF LinePrinted, Holding, LateSound, BuildExpected, Early, Reading
  <1>6. InOrder /\ OneActive /\ RecoverySound /\ MarkedSound
    <2>1. \A d \in Deployments :
             row[d].status = "none" /\ row[d].recovery = FALSE /\ row[d].marked = FALSE
      BY <1>2 DEF NoRow
    <2>2. InOrder /\ OneActive
      BY <2>1 DEF InOrder, OneActive, Active
    <2>3. RecoverySound /\ MarkedSound
      BY <2>1 DEF RecoverySound, MarkedSound
    <2> QED
      BY <2>2, <2>3
  <1>7. ScriptLog /\ LiveIsRead
    <2>1. NoScript.at = "none" /\ NoScript.said = <<>> /\ NoScript.left = FALSE
      BY DEF NoScript
    <2>2. DOMAIN <<>> = {}
      OBVIOUS
    <2>3. \A d \in Deployments :
             script[d].at = "none" /\ script[d].said = <<>> /\ script[d].left = FALSE
      BY <1>2, <2>1
    <2> QED
      BY <2>2, <2>3 DEF ScriptLog, LiveIsRead
  <1>8. PlansSound
    BY DEF Init, NoAsk, PlansSound
  <1> QED
    BY <1>3, <1>5, <1>6, <1>7, <1>8 DEF InfraInv

LEMMA InfraInvStep ==
    ASSUME InfraInv, InfraAssumption, [Next]_vars
    PROVE  InfraInv'
  <1>1. TypeOK'
    BY TypeOKStep
  <1>2. LinePrinted' /\ InOrder' /\ ScriptLog' /\ Holding'
    BY LinePrintedStep, InOrderStep, ScriptLogStep, HoldingStep
  <1>3. LateSound' /\ PlansSound' /\ MarkedSound'
    BY LateSoundStep, PlansSoundStep, MarkedSoundStep
  <1>4. LiveIsRead' /\ BuildExpected' /\ OneActive' /\ RecoverySound'
    BY LiveIsReadStep, BuildExpectedStep, OneActiveStep, RecoverySoundStep
  <1> QED
    BY <1>1, <1>2, <1>3, <1>4 DEF InfraInv

-----------------------------------------------------------------------------
(* The theorems.                                                           *)

\* The inductive invariant holds of every behaviour.
THEOREM Invariance == Spec => []InfraInv
  <1>1. Init => InfraInv
    BY InfraAssumption, InfraInvInit
  <1>2. InfraInv /\ [Next]_vars => InfraInv'
    BY InfraAssumption, InfraInvStep
  <1> QED
    BY <1>1, <1>2, PTL DEF Spec

\* Every variable keeps its kind.
THEOREM TypeCorrect == Spec => []TypeOK
  <1>1. InfraInv => TypeOK
    BY DEF InfraInv
  <1> QED
    BY <1>1, Invariance, PTL

\* At most one deployment is queued, claimed or running: the insert asks again
\* for what the plan had found.
THEOREM OneActiveHolds == Spec => []OneActive
  <1>1. InfraInv => OneActive
    BY DEF InfraInv
  <1> QED
    BY <1>1, Invariance, PTL

\* A recovery goes back to a failed deployment of the same commit whose script
\* had come to the switch, whatever callbacks are lost or late.
THEOREM RecoverySoundHolds == Spec => []RecoverySound
  <1>1. InfraInv => RecoverySound
    BY DEF InfraInv
  <1> QED
    BY <1>1, Invariance, PTL

\* A change of a row raises its revision, and the row of a deployment that
\* has ended does not change.
THEOREM RowsAreRevisionedHolds == Spec => RowsAreRevisioned
  <1>1. ASSUME InfraInv, [Next]_vars, NEW d \in Deployments,
               row'[d] # row[d], row[d].status # "none"
        PROVE  row'[d].rev = row[d].rev + 1 /\ ~ Ended(d)
    <2>1. ~ \E c \in Clients, k \in Deployments : Inserted(c, k) /\ row'[d] # row[d]
      BY <1>1 DEF Inserted, New
    <2>2. PICK m : Handled(m, d)
      BY <1>1, <2>1, InfraAssumption, RowStep
    <2> QED
      BY <2>2 DEF Handled, Ended, TerminalStatuses, Open
  <1>2. InfraInv /\ [Next]_vars =>
          (\A d \in Deployments :
              row'[d] # row[d] /\ row[d].status # "none" =>
                 row'[d].rev = row[d].rev + 1 /\ ~ Ended(d))
    BY <1>1
  <1> QED
    BY <1>2, Invariance, PTL DEF Spec, RowsAreRevisioned

\* A deployment passes only after a script that ended well, while the
\* Controller runs its commit.
THEOREM PassedIsProvenHolds == Spec => PassedIsProven
  <1>1. ASSUME InfraInv, [Next]_vars, NEW d \in Deployments,
               row[d].status # "passed", row'[d].status = "passed"
        PROVE  script[d].at = "ok" /\ build = row[d].commit
    <2>1. ~ \E c \in Clients, k \in Deployments : Inserted(c, k)
      BY <1>1 DEF Inserted
    <2>2. PICK m : Sound(m) /\ Handled(m, d)
      BY <1>1, <2>1, InfraAssumption, RowStep
    <2>3. m.op = "complete" /\ d = m.job /\ build = row[d].commit
      BY <1>1, <2>2 DEF Handled
    <2> QED
      BY <2>2, <2>3 DEF Sound
  <1>2. InfraInv /\ [Next]_vars =>
          (\A d \in Deployments :
              row[d].status # "passed" /\ row'[d].status = "passed" =>
                 script[d].at = "ok" /\ build = row[d].commit)
    BY <1>1
  <1> QED
    BY <1>2, Invariance, PTL DEF Spec, PassedIsProven

\* A script stops the build that its planner expected, unless an earlier
\* failure left a script behind.
THEOREM SwitchesExpectedHolds == Spec => SwitchesExpected
  <1>1. ASSUME InfraInv, [Next]_vars, NEW d \in Deployments,
               script[d].at = "marked", \A e \in Deployments : ~ script[e].left
        PROVE  build = row[d].expected
    <2>1. exec.job = d /\ exec.at \in Reading
      BY <1>1 DEF InfraInv, LiveIsRead
    <2> QED
      BY <1>1, <2>1 DEF InfraInv, BuildExpected
  <1>2. InfraInv /\ [Next]_vars =>
          (\A d \in Deployments :
              At(d, "marked") /\ script'[d].at = "stopped" =>
                 \/ build = row[d].expected
                 \/ \E e \in Deployments : script[e].left)
    BY <1>1 DEF At
  <1> QED
    BY <1>2, Invariance, PTL DEF Spec, SwitchesExpected

\* A script is launched for a deployment that never had one, however its
\* callbacks fare.
THEOREM LaunchedOnce ==
    Spec => [][ \A d \in Deployments :
                  Launch /\ exec.job = d => script[d].at = "none" ]_vars
  <1>1. InfraInv /\ [Next]_vars =>
          (\A d \in Deployments : Launch /\ exec.job = d => script[d].at = "none")
    BY LaunchStep
  <1> QED
    BY <1>1, Invariance, PTL DEF Spec
=============================================================================
