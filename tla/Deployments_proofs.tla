------------------------ MODULE Deployments_proofs ------------------------
(***************************************************************************)
(* Proofs of the safety properties of Deployments, for any deployments,    *)
(* commits, ways and faults.                                               *)
(*                                                                         *)
(* The types come first, one lemma for each program.  Then two summaries   *)
(* spare the later lemmas the list of actions: RowStep says in which ways  *)
(* the status of a row changes, Frame which actions change which variable. *)
(* The inductive invariant DepInv has one lemma for each of its parts.     *)
(***************************************************************************)
EXTENDS Deployments, FiniteSetTheorems, SequenceTheorems, TLAPS

-----------------------------------------------------------------------------
(* The inductive invariant.                                                *)

\* Statuses of a row that nobody took up, or that was cancelled.
Untouched == {"absent", "queued", "cancelled"}

\* A row in one of them has no checkout, and a row that waits no marker either.
NotBegun ==
    \A d \in Deployments :
        /\ row[d].status \in Untouched => d \notin checkouts
        /\ row[d].status \in {"absent", "queued"} => ~ row[d].marked

\* Nobody holds such a row: neither the executor, nor its list, nor the agent
\* between claim and delegation, nor a completion.
Held ==
    /\ exec.at # "idle" => row[exec.job].status \notin Untouched
    /\ \A i \in DOMAIN todo : row[todo[i].job].status \notin Untouched
    /\ \A i, j \in DOMAIN todo : todo[i].job = todo[j].job => i = j
    /\ agent.at = "claimed" =>
           /\ agent.job \in Deployments
           /\ row[agent.job].status \notin Untouched
           /\ ~ row[agent.job].marked
    /\ closing.next # "none" =>
           row[closing.job].status \notin Untouched

\* A release that was made by hand is out of the executor's and the agent's way.
ByHand ==
    \A d \in Deployments :
        script[d] # "none" /\ d \notin checkouts =>
            /\ row[d].status \in {"passed", "failed"}
            /\ exec.job # d
            /\ \A i \in DOMAIN todo : todo[i].job # d
            /\ agent.at = "claimed" => agent.job # d

\* The releases that the status file, or somebody about to write it, knows.
Known ==
    file.releases \cup {file.current}
        \cup agent.prior.releases \cup {agent.prior.current, agent.retained}
        \cup {closing.job} \cup {d \in Deployments : row[d].status = "passed"}

\* All of them are live, but for the placeholders, and the executor is not in
\* the script of one of them.
KnownIsLive ==
    /\ \A r \in Known : r \in {0, NoRelease} \/ script[r] = "switched"
    /\ exec.at = "completing" => script[exec.job] = "switched"
    /\ exec.at = "validate" => script[exec.job] = "none"
    /\ exec.at \in {"validate", "script"} =>
           exec.job \in checkouts /\ exec.job \notin Known

DepInv == TypeOK /\ NotBegun /\ Held /\ ByHand /\ KnownIsLive
-----------------------------------------------------------------------------
(* Types.                                                                  *)

LEMMA UpdatedType ==
    ASSUME NEW r \in Rows, NEW new \in Statuses,
           NEW at \in {"working", "closed"}
    PROVE  Updated(r, new, at) \in Rows
  <1>1. CASE r.status \in Terminal
    BY <1>1 DEF Updated
  <1>2. CASE r.status \notin Terminal
    <2> DEFINE st == IF r.status = "cancel_requested" /\ new = "running" THEN r.status ELSE new
    <2>1. st \in Statuses /\ Later(r.revision) \in 0 .. 2
      BY DEF Rows, Statuses, Later
    <2>2. Updated(r, new, at)
            = [r EXCEPT !.status = st, !.step = at, !.revision = Later(r.revision)]
      BY <1>2 DEF Updated, Rows
    <2> HIDE DEF st
    <2> QED
      BY <2>1, <2>2 DEF Rows
  <1> QED
    BY <1>1, <1>2

LEMMA InsertType ==
    ASSUME NEW d \in Deployments, NEW new \in {"queued", "passed"},
           NEW kind \in {"fullstack", "rollback"},
           NEW sha \in Commits, NEW release \in Releases \cup {NoRelease},
           row \in [Deployments -> Rows],
           Insert(d, new, kind, sha, release)
    PROVE  row' \in [Deployments -> Rows]
  <1> DEFINE at == IF new = "passed" THEN "closed" ELSE "none"
             rev == IF new = "passed" THEN 1 ELSE 0
             r == [row[d] EXCEPT !.status = new, !.scope = kind, !.commit = sha,
                                 !.before = release, !.step = at, !.revision = rev]
  <1>1. new \in Statuses /\ at \in {"none", "closed"} /\ rev \in 0 .. 2
    BY DEF Statuses, Terminal
  <1>2. row' = [row EXCEPT ![d] = r]
    BY DEF Insert
  <1>3. row[d] \in Rows
    OBVIOUS
  <1> HIDE DEF at, rev
  <1>4. r \in Rows
    BY <1>1, <1>3 DEF Rows
  <1> QED
    BY <1>2, <1>4

LEMMA CurrentType ==
    ASSUME TypeOK
    PROVE  Current \in Releases \cup {NoRelease}
  BY DEF Current, TypeOK, Files

LEMMA IdleTypes ==
    /\ NoPlan \in Plans
    /\ NotClosing \in Closings
    /\ Idle \in Agents
    /\ Resting \in Executions
    /\ Torn \in Files
  BY DEF Plans, Closings, Agents, Executions, Torn, Files

\* What the placeholders tell.
LEMMA Busy ==
    ASSUME TypeOK
    PROVE  /\ exec = Resting <=> exec.at = "idle"
           /\ exec # Resting =>
                  exec \in [at : {"prepare", "validate", "script", "completing", "failing"},
                            job : Deployments]
           /\ closing = NotClosing <=> closing.next = "none"
           /\ closing # NotClosing =>
                  closing \in [job : Deployments, next : {"finish", "persist", "persist_manual"}]
           /\ agent = Idle <=> agent.at = "idle"
           /\ agent.write # "done" => agent # Idle
           /\ agent # Idle =>
                  agent \in [at : {"polled", "claimed", "delegated"},
                             job : Deployments \cup {NoDeployment},
                             retained : Releases \cup {NoRelease},
                             prior : Files,
                             write : {"read", "truncate", "write", "done"}]
  <1>1. /\ exec = Resting <=> exec.at = "idle"
        /\ exec # Resting =>
               exec \in [at : {"prepare", "validate", "script", "completing", "failing"},
                         job : Deployments]
    BY DEF TypeOK, Executions, Resting
  <1>2. /\ closing = NotClosing <=> closing.next = "none"
        /\ closing # NotClosing =>
               closing \in [job : Deployments, next : {"finish", "persist", "persist_manual"}]
    BY DEF TypeOK, Closings, NotClosing
  <1>3. /\ agent = Idle <=> agent.at = "idle"
        /\ agent.write # "done" => agent # Idle
        /\ agent # Idle =>
               agent \in [at : {"polled", "claimed", "delegated"},
                          job : Deployments \cup {NoDeployment},
                          retained : Releases \cup {NoRelease},
                          prior : Files,
                          write : {"read", "truncate", "write", "done"}]
    BY DEF TypeOK, Agents, Idle
  <1> QED
    BY <1>1, <1>2, <1>3

LEMMA TodoJobs ==
    ASSUME TypeOK
    PROVE  \A i \in DOMAIN todo : todo[i].job \in Deployments
  <1> DEFINE E == [job : Deployments, cancel : BOOLEAN]
  <1>1. todo \in Seq(E)
    BY DEF TypeOK
  <1>2. \A x \in E : x.job \in Deployments
    OBVIOUS
  <1> HIDE DEF E
  <1>3. \A i \in DOMAIN todo : todo[i] \in E
    BY <1>1
  <1> QED
    BY <1>2, <1>3

LEMMA TodoTail ==
    ASSUME TypeOK, todo # <<>>
    PROVE  /\ Head(todo) = todo[1]
           /\ 1 \in DOMAIN todo
           /\ Head(todo).job \in Deployments
           /\ Head(todo).cancel \in BOOLEAN
           /\ Tail(todo) \in Seq([job : Deployments, cancel : BOOLEAN])
           /\ \A i \in DOMAIN Tail(todo) :
                 i + 1 \in DOMAIN todo /\ i + 1 # 1 /\ Tail(todo)[i] = todo[i + 1]
  <1> DEFINE E == [job : Deployments, cancel : BOOLEAN]
  <1>1. todo \in Seq(E)
    BY DEF TypeOK
  <1>2. \A x \in E : x.job \in Deployments /\ x.cancel \in BOOLEAN
    OBVIOUS
  <1> HIDE DEF E
  <1>3. /\ Head(todo) = todo[1]
        /\ Head(todo) \in E
        /\ 1 \in DOMAIN todo
        /\ Tail(todo) \in Seq(E)
        /\ \A i \in DOMAIN Tail(todo) :
              i + 1 \in DOMAIN todo /\ i + 1 # 1 /\ Tail(todo)[i] = todo[i + 1]
    BY <1>1
  <1> QED
    BY <1>2, <1>3 DEF E

LEMMA FetchTodo ==
    ASSUME TypeOK, Fetch
    PROVE  /\ todo' \in Seq([job : Deployments, cancel : BOOLEAN])
           /\ \A i \in DOMAIN todo' : todo'[i].job \in Deployments /\ Listed(todo'[i].job)
           /\ \A i, j \in DOMAIN todo' : todo'[i].job = todo'[j].job => i = j
  <1> DEFINE S == {d \in Deployments : Listed(d)}
             n == Cardinality(S)
  <1>1. n \in Nat
    BY DeploymentsAssumption, FS_Subset, FS_CardinalityType
  <1>2. PICK ids \in Orders(S) :
          todo' = [i \in DOMAIN ids |->
                      [job |-> ids[i], cancel |-> row[ids[i]].status = "cancel_requested"]]
    BY DEF Fetch
  <1>3. /\ ids \in [1 .. n -> S]
        /\ \A i, j \in 1 .. n : i < j => ids[i] < ids[j]
    BY DEF Orders
  <1> DEFINE E == [job : Deployments, cancel : BOOLEAN]
  <1>4. \A i \in 1 .. n : /\ todo'[i] \in E
                          /\ todo'[i].job = ids[i]
    BY <1>2, <1>3
  <1>5. DOMAIN todo' = 1 .. n
    BY <1>2, <1>3
  <1>6. todo' \in [1 .. n -> E]
    BY <1>2, <1>3
  <1>7. \A i \in 1 .. n : ids[i] \in S /\ ids[i] \in Nat
    BY <1>3, DeploymentsAssumption
  <1> HIDE DEF S, n, E
  <1>8. todo' \in Seq(E)
    BY <1>1, <1>6, SeqDef
  <1>9. \A i, j \in 1 .. n : ids[i] = ids[j] => i = j
    BY <1>1, <1>3, <1>7
  <1> QED
    BY <1>4, <1>5, <1>7, <1>8, <1>9 DEF S, E

\* A write of a well-typed row leaves a well-typed table.
LEMMA RowWrite ==
    ASSUME row \in [Deployments -> Rows], NEW d \in Deployments, NEW r \in Rows,
           row' = [row EXCEPT ![d] = r]
    PROVE  row' \in [Deployments -> Rows]
  OBVIOUS

LEMMA RowEdits ==
    ASSUME NEW r \in Rows
    PROVE  /\ [r EXCEPT !.status = "cancelled", !.step = "closed", !.cancelled = TRUE] \in Rows
           /\ [r EXCEPT !.status = "cancel_requested", !.cancelled = TRUE] \in Rows
           /\ [r EXCEPT !.status = "claimed", !.step = "claimed"] \in Rows
           /\ [r EXCEPT !.status = "running", !.step = "claimed",
                        !.revision = Later(r.revision), !.marked = TRUE] \in Rows
           /\ [r EXCEPT !.status = "cancelled", !.step = "closed",
                        !.revision = Later(r.revision)] \in Rows
           /\ [r EXCEPT !.status = "failed"] \in Rows
           /\ \A d \in Deployments : [r EXCEPT !.followers = @ \cup {d}] \in Rows
  <1> DEFINE n == Later(r.revision)
  <1>1. n \in 0 .. 2
    BY DEF Later, Rows
  <1> HIDE DEF n
  <1>2. /\ [r EXCEPT !.status = "cancelled", !.step = "closed", !.cancelled = TRUE] \in Rows
        /\ [r EXCEPT !.status = "cancel_requested", !.cancelled = TRUE] \in Rows
        /\ [r EXCEPT !.status = "claimed", !.step = "claimed"] \in Rows
    BY DEF Rows, Statuses, Terminal
  <1>3. /\ [r EXCEPT !.status = "running", !.step = "claimed",
                     !.revision = n, !.marked = TRUE] \in Rows
        /\ [r EXCEPT !.status = "cancelled", !.step = "closed", !.revision = n] \in Rows
    BY <1>1 DEF Rows, Statuses, Terminal
  <1>4. /\ [r EXCEPT !.status = "failed"] \in Rows
        /\ \A d \in Deployments : [r EXCEPT !.followers = r.followers \cup {d}] \in Rows
    BY DEF Rows, Statuses, Terminal
  <1> QED
    BY <1>2, <1>3, <1>4 DEF n

LEMMA ToolTypes ==
    ASSUME TypeOK, Users
    PROVE  TypeOK'
  <1>0. row \in [Deployments -> Rows]
    BY DEF TypeOK
  <1>1. CASE PlanTestDeployment
    <2>1. plan' \in Plans
      BY <1>1, CurrentType DEF PlanTestDeployment, TypeOK, Plans
    <2> QED
      BY <1>1, <2>1 DEF PlanTestDeployment, TypeOK, executorVars
  <1>2. CASE RefuseStart
    BY <1>2, IdleTypes DEF RefuseStart, TypeOK, executorVars
  <1>3. ASSUME NEW d \in Deployments, NEW force \in BOOLEAN, StartTestDeployment(d, force)
        PROVE  TypeOK'
    <2>1. plan \in [commit : Commits, before : Releases \cup {NoRelease}]
      BY <1>3 DEF StartTestDeployment, TypeOK, Plans
    <2>2. row' \in [Deployments -> Rows]
      <3>1. Insert(d, "queued", "fullstack", plan.commit, plan.before)
        BY <1>3 DEF StartTestDeployment
      <3> QED
        BY <1>0, <2>1, <3>1, InsertType
    <2> QED
      BY <1>3, <2>2, IdleTypes DEF StartTestDeployment, TypeOK, executorVars
  <1>4. ASSUME NEW d \in Deployments, NEW target \in Releases, RollbackTestDeployment(d, target)
        PROVE  TypeOK'
    <2>1. ReleaseCommit(target) \in Commits
      BY <1>0, DeploymentsAssumption DEF ReleaseCommit, Releases, Rows
    <2>2. file.current \in Releases \cup {NoRelease}
      BY DEF TypeOK, Files
    <2>3. row' \in [Deployments -> Rows]
      BY <1>0, <1>4, <2>1, <2>2, InsertType DEF RollbackTestDeployment
    <2> QED
      BY <1>4, <2>3 DEF RollbackTestDeployment, TypeOK, controllerVars, executorVars
  <1>5. ASSUME NEW d \in Deployments, CancelTestDeployment(d)
        PROVE  TypeOK'
    <2> DEFINE q == [row[d] EXCEPT !.status = "cancelled", !.step = "closed", !.cancelled = TRUE]
               c == [row[d] EXCEPT !.status = "cancel_requested", !.cancelled = TRUE]
    <2>1. q \in Rows /\ c \in Rows
      BY <1>0, RowEdits
    <2>2. row' = [row EXCEPT ![d] = q] \/ row' = [row EXCEPT ![d] = c]
      BY <1>0, <1>5 DEF CancelTestDeployment
    <2> HIDE DEF q, c
    <2>3. row' \in [Deployments -> Rows]
      BY <1>0, <2>1, <2>2, RowWrite
    <2> QED
      BY <1>5, <2>3 DEF CancelTestDeployment, TypeOK, controllerVars, executorVars
  <1>6. ASSUME NEW sha \in Commits, MainMoves(sha)
        PROVE  TypeOK'
    BY <1>6 DEF MainMoves, TypeOK, executorVars
  <1>7. CASE PreflightManualRelease
    BY <1>7, CurrentType DEF PreflightManualRelease, TypeOK, executorVars
  <1>8. ASSUME NEW d \in Deployments, ReconcileManualRelease(d)
        PROVE  TypeOK'
    <2>1. row' \in [Deployments -> Rows]
      <3>1. main \in Commits
        BY DEF TypeOK
      <3> QED
        BY <1>0, <1>8, <3>1, CurrentType, InsertType DEF ReconcileManualRelease
    <2>2. script' \in [Deployments -> {"none", "running", "switched", "over"}]
      BY <1>8 DEF ReconcileManualRelease, TypeOK
    <2>3. closing' \in Closings
      BY <1>8 DEF ReconcileManualRelease, Closings, TypeOK
    <2> QED
      BY <1>8, <2>1, <2>2, <2>3 DEF ReconcileManualRelease, TypeOK
  <1>9. CASE DropTicket
    BY <1>9 DEF DropTicket, TypeOK, executorVars
  <1> QED
    BY <1>1, <1>2, <1>3, <1>4, <1>5, <1>6, <1>7, <1>8, <1>9 DEF Users

LEMMA AgentTypes ==
    ASSUME DepInv, Agent
    PROVE  TypeOK'
  <1> USE DEF DepInv
  <1> DEFINE B == [at : {"polled", "claimed", "delegated"},
                   job : Deployments \cup {NoDeployment},
                   retained : Releases \cup {NoRelease},
                   prior : Files,
                   write : {"read", "truncate", "write", "done"}]
  <1>0. row \in [Deployments -> Rows] /\ file \in Files
    BY DEF TypeOK
  <1>a. B \subseteq Agents
    BY DEF Agents
  <1>1. CASE Poll
    <2>1. ASSUME NEW d \in Deployments \cup {NoDeployment}
          PROVE  Polled(d) \in B
      BY <1>0 DEF Polled, Files, Torn
    <2>2. agent' \in Agents
      BY <1>1, <1>a, <2>1 DEF Poll, Queued
    <2> QED
      BY <1>1, <2>2 DEF Poll, TypeOK, controllerVars, executorVars
  <1>2. CASE ReadPrior
    <2>1. agent \in B
      BY <1>2, Busy DEF ReadPrior
    <2>2. agent' \in B
      BY <1>0, <1>2, <2>1 DEF ReadPrior
    <2> QED
      BY <1>2, <1>a, <2>2 DEF ReadPrior, TypeOK, controllerVars, executorVars
  <1>3. CASE Truncate
    <2>1. agent \in B
      BY <1>3, Busy DEF Truncate
    <2>2. agent' \in B
      BY <1>3, <2>1 DEF Truncate
    <2> QED
      BY <1>3, <1>a, <2>2, IdleTypes DEF Truncate, TypeOK, controllerVars, executorVars
  <1>4. CASE WritePayload
    <2>1. agent \in B
      BY <1>4, Busy DEF WritePayload
    <2>2. Payload \in Files
      <3>1. agent.prior \in Files /\ agent.retained \in Releases \cup {NoRelease}
        BY <2>1
      <3> QED
        BY <3>1 DEF Payload, Files
    <2>3. [agent EXCEPT !.write = "done", !.prior = Torn] \in B
      BY <2>1, IdleTypes
    <2>4. agent' \in Agents
      BY <1>4, <1>a, <2>3, IdleTypes DEF WritePayload
    <2> QED
      BY <1>0, <1>4, <2>2, <2>4 DEF WritePayload, TypeOK, controllerVars, executorVars
  <1>5. CASE Claim
    <2>1. agent \in B
      BY <1>5, Busy DEF Claim
    <2>2. [agent EXCEPT !.at = "claimed", !.write = "read"] \in B
      BY <2>1
    <2>3. ASSUME agent.job \in Deployments
          PROVE  [row[agent.job] EXCEPT !.status = "claimed", !.step = "claimed"] \in Rows
      BY <1>0, <2>3, RowEdits
    <2>4. row' \in [Deployments -> Rows]
      BY <1>0, <1>5, <2>3 DEF Claim, Queued
    <2>5. agent' \in Agents
      BY <1>5, <1>a, <2>2, IdleTypes DEF Claim
    <2> QED
      BY <1>5, <2>4, <2>5 DEF Claim, TypeOK, controllerVars, executorVars
  <1>6. CASE Delegate
    <2>1. agent.job \in Deployments /\ agent \in B
      BY <1>6, Busy DEF Delegate, Held
    <2> DEFINE r == [row[agent.job] EXCEPT !.status = "running", !.step = "claimed",
                                            !.revision = Later(row[agent.job].revision),
                                            !.marked = TRUE]
    <2>2. r \in Rows
      BY <1>0, <2>1, RowEdits
    <2>3. row' = [row EXCEPT ![agent.job] = r]
      BY <1>6 DEF Delegate
    <2> HIDE DEF r
    <2>4. row' \in [Deployments -> Rows]
      BY <1>0, <2>1, <2>2, <2>3, RowWrite
    <2>5. agent' \in B
      BY <1>6, <2>1 DEF Delegate
    <2> QED
      BY <1>6, <1>a, <2>4, <2>5 DEF Delegate, TypeOK, controllerVars, executorVars
  <1> QED
    BY <1>1, <1>2, <1>3, <1>4, <1>5, <1>6 DEF Agent

LEMMA ControllerTypes ==
    ASSUME DepInv, Controller \/ PersistFails \/ ControllerCrash
    PROVE  TypeOK'
  <1> USE DEF DepInv
  <1>0. row \in [Deployments -> Rows] /\ file \in Files /\ closing \in Closings
    BY DEF TypeOK
  <1>1. CASE FinishComplete
    <2>1. closing.job \in Deployments
      BY <1>1, Busy DEF FinishComplete
    <2>2. row' \in [Deployments -> Rows]
      <3> DEFINE done == Finished(closing.job)
      <3>1. done \in [Deployments -> Rows]
        BY <1>0, <2>1, RowEdits DEF Finished
      <3>2. row' = [done EXCEPT ![closing.job].step = "closed"]
        BY <1>1 DEF FinishComplete
      <3> HIDE DEF done
      <3>3. [done[closing.job] EXCEPT !.step = "closed"] \in Rows
        BY <2>1, <3>1 DEF Rows
      <3> QED
        BY <2>1, <3>1, <3>2, <3>3
    <2>3. closing' \in Closings
      BY <1>1, Busy DEF FinishComplete, Closings
    <2> QED
      BY <1>1, <2>2, <2>3 DEF FinishComplete, TypeOK, executorVars
  <1>2. CASE PersistRelease
    <2>1. file' \in Files
      <3>1. closing.job \in Deployments
        BY <1>2, Busy DEF PersistRelease
      <3> QED
        BY <1>0, <1>2, <3>1 DEF PersistRelease, Files, Releases
    <2> QED
      BY <1>2, <2>1, IdleTypes DEF PersistRelease, TypeOK, executorVars
  <1>3. CASE PersistFails
    <2>1. closing.job \in Deployments
      BY <1>3, Busy DEF PersistFails
    <2> DEFINE r == [row[closing.job] EXCEPT !.status = "failed"]
    <2>2. r \in Rows
      BY <1>0, <2>1, RowEdits
    <2>3. row' = [row EXCEPT ![closing.job] = r] \/ row' = row
      BY <1>0, <1>3, <2>1 DEF PersistFails, Rows
    <2> HIDE DEF r
    <2>4. row' \in [Deployments -> Rows]
      BY <1>0, <2>1, <2>2, <2>3, RowWrite
    <2>5. faults' \in 0 .. MaxFaults
      BY <1>3, DeploymentsAssumption DEF PersistFails, Fault, TypeOK
    <2> QED
      BY <1>3, <2>4, <2>5, IdleTypes DEF PersistFails, TypeOK, executorVars
  <1>4. CASE ControllerCrash
    <2>1. faults' \in 0 .. MaxFaults
      BY <1>4, DeploymentsAssumption DEF ControllerCrash, Fault, TypeOK
    <2> QED
      BY <1>4, <2>1, IdleTypes DEF ControllerCrash, TypeOK, executorVars
  <1> QED
    BY <1>1, <1>2, <1>3, <1>4 DEF Controller

LEMMA FaultTypes ==
    ASSUME DepInv,
           AgentCrash \/ ExecutorCrash \/ BeginLost \/ ProgressLost \/ CompleteLost
    PROVE  TypeOK'
  <1> USE DEF DepInv
  <1>0. row \in [Deployments -> Rows] /\ exec \in Executions
    BY DEF TypeOK
  <1>1. faults' \in 0 .. MaxFaults
    <2>1. Fault
      BY DEF AgentCrash, ExecutorCrash, BeginLost, ProgressLost, CompleteLost
    <2>2. faults \in 0 .. MaxFaults
      BY DEF TypeOK
    <2> QED
      BY <2>1, <2>2, DeploymentsAssumption DEF Fault
  <1>2. CASE AgentCrash
    BY <1>1, <1>2, IdleTypes DEF AgentCrash, TypeOK, controllerVars, executorVars
  <1>3. CASE ExecutorCrash
    <2>1. exec.job \in Deployments
      BY <1>3, Busy DEF ExecutorCrash
    <2> QED
      BY <1>1, <1>3, <2>1, IdleTypes DEF ExecutorCrash, Dead, TypeOK, controllerVars
  <1>4. CASE BeginLost
    <2>1. todo # <<>>
      BY <1>4 DEF BeginLost, TakesUp
    <2> DEFINE d == Head(todo).job
    <2>2. d \in Deployments
      BY <2>1, TodoTail
    <2>3. Updated(row[d], "running", "working") \in Rows
      BY <1>0, <2>2, UpdatedType DEF Statuses
    <2>4. row' \in [Deployments -> Rows]
      BY <1>0, <1>4, <2>2, <2>3 DEF BeginLost, Progress
    <2>5. todo' \in Seq([job : Deployments, cancel : BOOLEAN])
      BY <1>4, <2>1, TodoTail DEF BeginLost, TakesUp
    <2>6. stranded' \in SUBSET Deployments
      BY <1>4, <2>2 DEF BeginLost, TypeOK
    <2> QED
      BY <1>1, <1>4, <2>4, <2>5, <2>6 DEF BeginLost, TypeOK, controllerVars
  <1>5. CASE CompleteLost
    <2>1. exec.job \in Deployments
      BY <1>5, Busy DEF CompleteLost
    <2>2. Updated(row[exec.job], "passed", "closed") \in Rows
      BY <1>0, <2>1, UpdatedType DEF Statuses, Terminal
    <2>3. row' \in [Deployments -> Rows]
      BY <1>0, <1>5, <2>1, <2>2 DEF CompleteLost, Complete
    <2>4. closing' \in Closings
      BY <1>5, <2>1 DEF CompleteLost, Complete, Closings, TypeOK
    <2>5. exec' \in Executions
      BY <1>5, Busy DEF CompleteLost, Executions
    <2> QED
      BY <1>1, <1>5, <2>3, <2>4, <2>5 DEF CompleteLost, TypeOK
  <1>6. CASE ProgressLost
    <2>1. exec.job \in Deployments
      BY <1>6, Busy DEF ProgressLost
    <2>2. Updated(row[exec.job], "running", "working") \in Rows
      BY <1>0, <2>1, UpdatedType DEF Statuses
    <2>3. row' \in [Deployments -> Rows]
      BY <1>0, <1>6, <2>1, <2>2 DEF ProgressLost, Progress
    <2>4. exec' \in Executions
      BY <1>6, Busy DEF ProgressLost, Executions
    <2> QED
      BY <1>1, <1>6, <2>3, <2>4 DEF ProgressLost, TypeOK, controllerVars
  <1> QED
    BY <1>2, <1>3, <1>4, <1>5, <1>6

LEMMA ExecutorTypes ==
    ASSUME DepInv, Executor
    PROVE  TypeOK'
  <1> USE DEF DepInv
  <1> DEFINE E == [job : Deployments, cancel : BOOLEAN]
             B == [at : {"prepare", "validate", "script", "completing", "failing"},
                   job : Deployments]
  <1>0. row \in [Deployments -> Rows]
    BY DEF TypeOK
  <1>a. B \subseteq Executions
    BY DEF Executions
  <1>b. ASSUME NEW d \in Deployments
        PROVE  /\ Updated(row[d], "running", "working") \in Rows
               /\ Updated(row[d], "passed", "closed") \in Rows
               /\ Updated(row[d], "failed", "closed") \in Rows
    BY <1>0, UpdatedType DEF Statuses, Terminal
  <1>1. CASE Fetch
    BY <1>1, FetchTodo DEF Fetch, TypeOK, controllerVars
  <1>2. CASE AcknowledgeCancel
    <2>1. todo # <<>>
      BY <1>2 DEF AcknowledgeCancel, TakesUp
    <2> DEFINE d == Head(todo).job
    <2>2. d \in Deployments
      BY <2>1, TodoTail
    <2> DEFINE r == [row[d] EXCEPT !.status = "cancelled", !.step = "closed",
                                   !.revision = Later(row[d].revision)]
    <2>3. r \in Rows
      BY <1>0, <2>2, RowEdits
    <2>4. row' = row \/ row' = [row EXCEPT ![d] = r]
      BY <1>2 DEF AcknowledgeCancel, Acknowledge
    <2>5. row' \in [Deployments -> Rows]
      <3> HIDE DEF r, d
      <3> QED
        BY <1>0, <2>2, <2>3, <2>4, RowWrite
    <2>6. todo' \in Seq(E)
      BY <1>2, <2>1, TodoTail DEF AcknowledgeCancel, TakesUp
    <2> QED
      BY <1>2, <2>5, <2>6 DEF AcknowledgeCancel, TypeOK, controllerVars
  <1>3. CASE Begin
    <2>1. todo # <<>>
      BY <1>3 DEF Begin, TakesUp
    <2> DEFINE d == Head(todo).job
    <2>2. d \in Deployments
      BY <2>1, TodoTail
    <2>3. row' \in [Deployments -> Rows]
      BY <1>0, <1>3, <1>b, <2>2 DEF Begin, Progress
    <2>4. todo' \in Seq(E)
      BY <1>3, <2>1, TodoTail DEF Begin, TakesUp
    <2>5. exec' = exec \/ exec' \in B
      BY <1>3, <2>2 DEF Begin
    <2> QED
      BY <1>3, <1>a, <2>3, <2>4, <2>5 DEF Begin, TypeOK, controllerVars
  <1>4. CASE Prepare
    <2>1. exec \in B /\ exec' \in B
      BY <1>4, Busy DEF Prepare
    <2>2. checkouts' \in SUBSET Deployments
      BY <1>4, <2>1 DEF Prepare, TypeOK
    <2> QED
      BY <1>4, <1>a, <2>1, <2>2 DEF Prepare, TypeOK, controllerVars
  <1>5. CASE PrepareFails
    <2>1. exec \in B /\ exec' \in B
      BY <1>5, Busy DEF PrepareFails
    <2>2. checkouts' \in SUBSET Deployments
      BY <1>5, <2>1 DEF PrepareFails, TypeOK
    <2> QED
      BY <1>5, <1>a, <2>1, <2>2 DEF PrepareFails, TypeOK, controllerVars
  <1>6. CASE StartScript
    <2>1. exec \in B /\ exec' \in B
      BY <1>6, Busy DEF StartScript
    <2>2. exec.job \in Deployments
      BY <2>1
    <2>3. row' \in [Deployments -> Rows]
      BY <1>0, <1>6, <1>b, <2>2 DEF StartScript, Progress
    <2>4. script' \in [Deployments -> {"none", "running", "switched", "over"}]
      BY <1>6 DEF StartScript, TypeOK
    <2> QED
      BY <1>6, <1>a, <2>1, <2>3, <2>4 DEF StartScript, TypeOK, controllerVars
  <1>7. CASE ScriptProgress
    <2>1. exec \in B
      BY <1>7, Busy DEF ScriptProgress
    <2>2. exec' \in B
      BY <1>7, <2>1 DEF ScriptProgress
    <2>3. row' \in [Deployments -> Rows]
      BY <1>0, <1>7, <1>b, <2>1 DEF ScriptProgress, Progress
    <2> QED
      BY <1>7, <1>a, <2>2, <2>3 DEF ScriptProgress, TypeOK, controllerVars
  <1>8. CASE ScriptExits
    <2>1. exec \in B
      BY <1>8, Busy DEF ScriptExits
    <2>2. exec' \in B
      BY <1>8, <2>1 DEF ScriptExits
    <2>3. script' \in [Deployments -> {"none", "running", "switched", "over"}]
      BY <1>8 DEF ScriptExits, TypeOK
    <2> QED
      BY <1>8, <1>a, <2>2, <2>3 DEF ScriptExits, TypeOK, controllerVars
  <1>9. CASE ReportComplete
    <2>1. exec \in B
      BY <1>9, Busy DEF ReportComplete
    <2>2. exec' \in Executions
      BY <1>9, <1>a, <2>1, IdleTypes DEF ReportComplete
    <2>3. exec.job \in Deployments
      BY <2>1
    <2>4. row' \in [Deployments -> Rows]
      BY <1>0, <1>9, <1>b, <2>3 DEF ReportComplete, Complete
    <2>5. closing' \in Closings
      BY <1>9, <2>3 DEF ReportComplete, Complete, Closings, TypeOK
    <2> QED
      BY <1>9, <2>2, <2>4, <2>5 DEF ReportComplete, TypeOK
  <1>10. CASE ReportFailed
    <2>1. exec.job \in Deployments
      BY <1>10, Busy DEF ReportFailed
    <2>2. row' \in [Deployments -> Rows]
      BY <1>0, <1>10, <1>b, <2>1 DEF ReportFailed, Fail
    <2>3. exec' \in Executions
      BY <1>10, IdleTypes DEF ReportFailed, Dead
    <2>4. todo' \in Seq(E)
      <3>1. <<>> \in Seq(E) /\ todo \in Seq(E)
        BY DEF TypeOK
      <3> QED
        BY <1>10, <3>1 DEF ReportFailed, Dead
    <2> QED
      BY <1>10, <2>2, <2>3, <2>4 DEF ReportFailed, TypeOK, controllerVars
  <1> QED
    BY <1>1, <1>2, <1>3, <1>4, <1>5, <1>6, <1>7, <1>8, <1>9, <1>10 DEF Executor

LEMMA TypeStep ==
    ASSUME DepInv, [Next]_vars
    PROVE  TypeOK'
  <1>1. ASSUME NEW d \in Deployments, ScriptSwitches(d)
        PROVE  TypeOK'
    <2>1. script' \in [Deployments -> {"none", "running", "switched", "over"}]
      BY <1>1 DEF ScriptSwitches, DepInv, TypeOK
    <2> QED
      BY <1>1, <2>1 DEF ScriptSwitches, DepInv, TypeOK, controllerVars
  <1>2. CASE UNCHANGED vars
    BY <1>2 DEF vars, controllerVars, executorVars, DepInv, TypeOK
  <1>3. CASE Users
    BY <1>3, ToolTypes DEF DepInv
  <1> QED
    BY <1>1, <1>2, <1>3, AgentTypes, ControllerTypes, ExecutorTypes, FaultTypes
       DEF Next, Faults

-----------------------------------------------------------------------------
(* What a step does to the status and the marker of a row.                 *)

LEMMA UpdatedEffect ==
    ASSUME NEW r \in Rows, NEW new \in {"running", "passed", "failed"},
           NEW at \in {"working", "closed"}
    PROVE  /\ Updated(r, new, at).marked = r.marked
           /\ r.status \in Terminal => Updated(r, new, at) = r
           /\ r.status \notin Terminal =>
                 \/ /\ ~ (r.status = "cancel_requested" /\ new = "running")
                    /\ Updated(r, new, at).status = new
                 \/ /\ new = "running"
                    /\ r.status = "cancel_requested"
                    /\ Updated(r, new, at).status = "cancel_requested"
  <1>1. CASE r.status \in Terminal
    BY <1>1 DEF Updated
  <1>2. CASE r.status \notin Terminal
    <2> DEFINE st == IF r.status = "cancel_requested" /\ new = "running" THEN r.status ELSE new
    <2>1. Updated(r, new, at)
            = [r EXCEPT !.status = st, !.step = at, !.revision = Later(r.revision)]
      BY <1>2 DEF Updated, Rows
    <2>2. /\ Updated(r, new, at).marked = r.marked
          /\ Updated(r, new, at).status = st
      <3> HIDE DEF st
      <3> QED
        BY <2>1 DEF Rows
    <2> QED
      BY <1>2, <2>2
  <1> QED
    BY <1>1, <1>2

LEMMA InsertEffect ==
    ASSUME TypeOK, NEW d \in Deployments, NEW new, NEW kind, NEW sha, NEW release,
           Insert(d, new, kind, sha, release)
    PROVE  \A e \in Deployments :
              /\ row'[e].marked = row[e].marked
              /\ \/ row'[e].status = row[e].status
                 \/ e = d /\ row[d].status = "absent" /\ row'[d].status = new
  <1>1. row \in [Deployments -> Rows]
    BY DEF TypeOK
  <1> DEFINE at == IF new = "passed" THEN "closed" ELSE "none"
             rev == IF new = "passed" THEN 1 ELSE 0
             r == [row[d] EXCEPT !.status = new, !.scope = kind, !.commit = sha,
                                 !.before = release, !.step = at, !.revision = rev]
  <1>2. row[d].status = "absent" /\ row' = [row EXCEPT ![d] = r]
    BY DEF Insert
  <1>3. row[d] \in Rows
    BY <1>1
  <1> HIDE DEF at, rev
  <1>4. r.marked = row[d].marked /\ r.status = new
    BY <1>3 DEF Rows
  <1> HIDE DEF r
  <1> QED
    BY <1>1, <1>2, <1>4

LEMMA CancelEffect ==
    ASSUME TypeOK, NEW d \in Deployments, CancelTestDeployment(d)
    PROVE  \A e \in Deployments :
              /\ row'[e].marked = row[e].marked
              /\ \/ row'[e].status = row[e].status
                 \/ e = d /\ row[d].status = "queued" /\ row'[d].status = "cancelled"
                 \/ /\ e = d
                    /\ row[d].status \in {"claimed", "running"}
                    /\ row'[d].status = "cancel_requested"
  <1>1. row \in [Deployments -> Rows]
    BY DEF TypeOK
  <1> DEFINE q == [row[d] EXCEPT !.status = "cancelled", !.step = "closed", !.cancelled = TRUE]
             c == [row[d] EXCEPT !.status = "cancel_requested", !.cancelled = TRUE]
  <1>2. /\ row[d].status \in {"queued", "claimed", "running"}
        /\ row' = [row EXCEPT ![d] = IF row[d].status = "queued" THEN q ELSE c]
    BY DEF CancelTestDeployment
  <1>3. row[d] \in Rows
    BY <1>1
  <1>4. /\ q.marked = row[d].marked /\ q.status = "cancelled"
        /\ c.marked = row[d].marked /\ c.status = "cancel_requested"
    BY <1>3 DEF Rows
  <1> HIDE DEF q, c
  <1> QED
    BY <1>1, <1>2, <1>4

LEMMA FinishEffect ==
    ASSUME TypeOK, FinishComplete
    PROVE  \A e \in Deployments :
              row'[e].marked = row[e].marked /\ row'[e].status = row[e].status
  <1> SUFFICES ASSUME NEW e \in Deployments
               PROVE  row'[e].marked = row[e].marked /\ row'[e].status = row[e].status
    OBVIOUS
  <1> DEFINE done == Finished(closing.job)
             c == [done[e] EXCEPT !.step = "closed"]
  <1>1. row[e] \in Rows
    BY DEF TypeOK
  <1>2. done[e] = row[e] \/ done[e] = [row[e] EXCEPT !.followers = @ \cup {closing.job}]
    BY DEF Finished
  <1>3. /\ done[e].marked = row[e].marked
        /\ done[e].status = row[e].status
        /\ c.marked = row[e].marked
        /\ c.status = row[e].status
    BY <1>1, <1>2 DEF Rows
  <1>4. row' = [done EXCEPT ![closing.job].step = "closed"] /\ DOMAIN done = Deployments
    BY DEF FinishComplete, Finished
  <1> HIDE DEF done
  <1>5. row'[e] = done[e] \/ row'[e] = c
    BY <1>4
  <1> HIDE DEF c
  <1> QED
    BY <1>3, <1>5

LEMMA PersistFailsEffect ==
    ASSUME TypeOK, PersistFails
    PROVE  \A e \in Deployments :
              /\ row'[e].marked = row[e].marked
              /\ \/ row'[e].status = row[e].status
                 \/ /\ closing.next = "persist_manual"
                    /\ closing' = NotClosing
                    /\ e = closing.job
                    /\ row'[e].status = "failed"
  <1>1. row \in [Deployments -> Rows]
    BY DEF TypeOK
  <1>2. closing.job \in Deployments
    BY Busy DEF PersistFails
  <1>3. row[closing.job] \in Rows
    BY <1>1, <1>2
  <1> DEFINE r == [row[closing.job] EXCEPT !.status = "failed"]
  <1>4. r.marked = row[closing.job].marked /\ r.status = "failed"
    BY <1>3 DEF Rows
  <1>5. \/ row' = row
        \/ closing.next = "persist_manual" /\ row' = [row EXCEPT ![closing.job] = r]
    BY <1>1, <1>3 DEF PersistFails, Rows
  <1>6. closing' = NotClosing
    BY DEF PersistFails
  <1> HIDE DEF r
  <1> QED
    BY <1>1, <1>2, <1>4, <1>5, <1>6

LEMMA ClaimEffect ==
    ASSUME TypeOK, Claim
    PROVE  /\ \A e \in Deployments :
                 /\ row'[e].marked = row[e].marked
                 /\ \/ row'[e].status = row[e].status
                    \/ e = agent.job /\ row[e].status = "queued" /\ row'[e].status = "claimed"
           /\ agent.job \in Queued => row'[agent.job].status = "claimed"
  <1>1. row \in [Deployments -> Rows]
    BY DEF TypeOK
  <1>2. CASE agent.job \in Queued
    <2> DEFINE r == [row[agent.job] EXCEPT !.status = "claimed", !.step = "claimed"]
    <2>1. agent.job \in Deployments /\ row[agent.job].status = "queued"
      BY <1>2 DEF Queued
    <2>2. row[agent.job] \in Rows
      BY <1>1, <2>1
    <2>3. r.marked = row[agent.job].marked /\ r.status = "claimed"
      BY <2>2 DEF Rows
    <2>4. row' = [row EXCEPT ![agent.job] = r]
      BY <1>2 DEF Claim
    <2> HIDE DEF r
    <2> QED
      BY <1>1, <2>1, <2>3, <2>4
  <1>3. CASE agent.job \notin Queued
    BY <1>3 DEF Claim
  <1> QED
    BY <1>2, <1>3

LEMMA DelegateEffect ==
    ASSUME DepInv, Delegate
    PROVE  /\ agent.job \in Deployments
           /\ row'[agent.job].status = "running"
           /\ \A e \in Deployments : e # agent.job => row'[e] = row[e]
  <1>1. row \in [Deployments -> Rows]
    BY DEF DepInv, TypeOK
  <1>2. agent.job \in Deployments
    BY DEF DepInv, Held, Delegate
  <1>3. row[agent.job] \in Rows
    BY <1>1, <1>2
  <1> DEFINE r == [row[agent.job] EXCEPT !.status = "running", !.step = "claimed",
                                         !.revision = Later(row[agent.job].revision),
                                         !.marked = TRUE]
  <1>4. r.status = "running"
    BY <1>3 DEF Rows
  <1>5. row' = [row EXCEPT ![agent.job] = r]
    BY DEF Delegate
  <1> HIDE DEF r
  <1> QED
    BY <1>1, <1>2, <1>4, <1>5

LEMMA AcknowledgeEffect ==
    ASSUME TypeOK, AcknowledgeCancel
    PROVE  LET d == Head(todo).job
           IN  \/ row' = row
               \/ /\ d \in Deployments \ checkouts
                  /\ row[d].status = "cancel_requested"
                  /\ row[d].marked
                  /\ row'[d].status = "cancelled"
                  /\ row'[d].marked = row[d].marked
                  /\ \A e \in Deployments : e # d => row'[e] = row[e]
  <1> DEFINE d == Head(todo).job
  <1>1. row \in [Deployments -> Rows]
    BY DEF TypeOK
  <1>2. d \in Deployments
    BY TodoTail DEF AcknowledgeCancel, TakesUp
  <1>3. row[d] \in Rows
    BY <1>1, <1>2
  <1> DEFINE r == [row[d] EXCEPT !.status = "cancelled", !.step = "closed",
                                 !.revision = Later(row[d].revision)]
  <1>4. r.status = "cancelled" /\ r.marked = row[d].marked
    BY <1>3 DEF Rows
  <1>5. \/ row' = row
        \/ /\ d \notin checkouts
           /\ row[d].status = "cancel_requested"
           /\ row[d].marked
           /\ row' = [row EXCEPT ![d] = r]
    BY DEF AcknowledgeCancel, Acknowledge, CancelPending
  <1> HIDE DEF d, r
  <1>6. \/ row' = row
        \/ /\ d \in Deployments \ checkouts
           /\ row[d].status = "cancel_requested"
           /\ row[d].marked
           /\ row'[d].status = "cancelled"
           /\ row'[d].marked = row[d].marked
           /\ \A e \in Deployments : e # d => row'[e] = row[e]
    BY <1>1, <1>2, <1>4, <1>5
  <1> QED
    BY <1>6 DEF d

\* The ways in which the status of a row changes.
Inserted(e) ==
    /\ row[e].status = "absent"
    /\ \/ row'[e].status = "queued"
       \/ row'[e].status = "passed" /\ ReconcileManualRelease(e)

Cancelled(e) ==
    \/ row[e].status = "queued" /\ row'[e].status = "cancelled"
    \/ row[e].status \in {"claimed", "running"} /\ row'[e].status = "cancel_requested"

Claimed(e) ==
    Claim /\ e = agent.job /\ row[e].status = "queued" /\ row'[e].status = "claimed"

Delegated(e) == Delegate /\ e = agent.job /\ row'[e].status = "running"

Reported(e) ==
    /\ row[e].status \in {"claimed", "running", "cancel_requested"}
    /\ \/ row'[e].status = "running" /\ row[e].status # "cancel_requested"
       \/ row'[e].status = "failed"
       \/ row'[e].status = "passed" /\ exec.at = "completing" /\ e = exec.job

Unregistered(e) ==
    /\ closing # NotClosing
    /\ closing.next = "persist_manual"
    /\ closing' = NotClosing
    /\ e = closing.job
    /\ row'[e].status = "failed"

Acknowledged(e) ==
    /\ AcknowledgeCancel
    /\ e = Head(todo).job
    /\ row[e].status = "cancel_requested"
    /\ row[e].marked
    /\ e \notin checkouts
    /\ row'[e].status = "cancelled"

StatusChange(e) ==
    \/ row'[e].status = row[e].status
    \/ Inserted(e)
    \/ Cancelled(e)
    \/ Claimed(e)
    \/ Delegated(e)
    \/ Reported(e)
    \/ Unregistered(e)
    \/ Acknowledged(e)

RowChange ==
    \A e \in Deployments :
        /\ StatusChange(e)
        /\ ~ Delegate => row'[e].marked = row[e].marked

\* A row that somebody holds and that did not end is under way.
LEMMA UnderWay ==
    ASSUME TypeOK, NEW d \in Deployments,
           row[d].status \notin Untouched, row[d].status \notin Terminal
    PROVE  row[d].status \in {"claimed", "running", "cancel_requested"}
  <1>1. row[d].status \in Statuses
    BY DEF TypeOK, Rows
  <1> QED
    BY <1>1 DEF Statuses, Untouched

\* What the executor holds is no row that nobody took up.
LEMMA ExecHeld ==
    ASSUME DepInv, exec.at # "idle"
    PROVE  exec.job \in Deployments /\ row[exec.job].status \notin Untouched
  BY Busy DEF DepInv, Held

LEMMA HeadHeld ==
    ASSUME DepInv, todo # <<>>
    PROVE  Head(todo).job \in Deployments /\ row[Head(todo).job].status \notin Untouched
  BY TodoTail DEF DepInv, Held

LEMMA DelegateMoves ==
    ASSUME TypeOK, agent' = agent
    PROVE  ~ Delegate
  <1>1. SUFFICES ASSUME Delegate
                 PROVE  FALSE
    OBVIOUS
  <1>2. agent.at = "claimed" /\ agent # Idle
    BY <1>1 DEF Delegate, Idle
  <1>3. agent' = [agent EXCEPT !.at = "delegated", !.job = NoDeployment, !.write = "read"]
    BY <1>1 DEF Delegate
  <1>4. agent'.at = "delegated"
    BY <1>2, <1>3, Busy
  <1> QED
    BY <1>2, <1>4

LEMMA ReportChange ==
    ASSUME DepInv, NEW d \in Deployments, row[d].status \notin Untouched,
           NEW new \in {"running", "passed", "failed"}, NEW at \in {"working", "closed"},
           new = "passed" => exec.at = "completing" /\ d = exec.job,
           agent' = agent,
           row' = [row EXCEPT ![d] = Updated(row[d], new, at)]
    PROVE  RowChange
  <1>1. TypeOK
    BY DEF DepInv
  <1>a. row \in [Deployments -> Rows] /\ row[d] \in Rows
    BY <1>1 DEF TypeOK
  <1>b. \A e \in Deployments : row'[e] = IF e = d THEN Updated(row[d], new, at) ELSE row[e]
    BY <1>a
  <1>2. \A e \in Deployments :
           /\ row'[e].marked = row[e].marked
           /\ \/ row'[e].status = row[e].status
              \/ /\ e = d
                 /\ row[d].status \notin Terminal
                 /\ ~ (row[d].status = "cancel_requested" /\ new = "running")
                 /\ row'[d].status = new
    BY <1>a, <1>b, UpdatedEffect
  <1>3. row[d].status \notin Terminal
           => row[d].status \in {"claimed", "running", "cancel_requested"}
    BY <1>1, UnderWay
  <1>4. ASSUME NEW e \in Deployments, row'[e].status # row[e].status
        PROVE  Reported(e)
    <2>1. /\ e = d
          /\ row[d].status \notin Terminal
          /\ ~ (row[d].status = "cancel_requested" /\ new = "running")
          /\ row'[d].status = new
      BY <1>2, <1>4
    <2>2. row[d].status \in {"claimed", "running", "cancel_requested"}
      BY <1>3, <2>1
    <2> QED
      BY <2>1, <2>2 DEF Reported
  <1>5. \A e \in Deployments : row'[e].marked = row[e].marked
    BY <1>2
  <1> QED
    BY <1>4, <1>5 DEF RowChange, StatusChange

LEMMA RowStep ==
    ASSUME DepInv, [Next]_vars
    PROVE  RowChange
  <1>0. TypeOK
    BY DEF DepInv
  <1>1. ASSUME row' = row
        PROVE  RowChange
    BY <1>1 DEF RowChange, StatusChange
  <1>2. ASSUME NEW d \in Deployments, NEW force \in BOOLEAN, StartTestDeployment(d, force)
        PROVE  RowChange
    <2>1. Insert(d, "queued", "fullstack", plan.commit, plan.before)
      BY <1>2 DEF StartTestDeployment
    <2> QED
      BY <1>0, <2>1, InsertEffect DEF RowChange, StatusChange, Inserted
  <1>3. ASSUME NEW d \in Deployments, NEW target \in Releases, RollbackTestDeployment(d, target)
        PROVE  RowChange
    <2>1. Insert(d, "queued", "rollback", ReleaseCommit(target), file.current)
      BY <1>3 DEF RollbackTestDeployment
    <2> QED
      BY <1>0, <2>1, InsertEffect DEF RowChange, StatusChange, Inserted
  <1>4. ASSUME NEW d \in Deployments, CancelTestDeployment(d)
        PROVE  RowChange
    BY <1>0, <1>4, CancelEffect DEF RowChange, StatusChange, Cancelled
  <1>5. ASSUME NEW d \in Deployments, ReconcileManualRelease(d)
        PROVE  RowChange
    <2>1. CASE Insert(d, "passed", "fullstack", main, Current)
      BY <1>0, <1>5, <2>1, InsertEffect DEF RowChange, StatusChange, Inserted
    <2>2. CASE row' = row
      BY <1>1, <2>2
    <2> QED
      BY <1>5, <2>1, <2>2 DEF ReconcileManualRelease
  <1>6. CASE FinishComplete
    BY <1>0, <1>6, FinishEffect DEF RowChange, StatusChange
  <1>7. CASE PersistFails
    <2>1. closing # NotClosing
      BY <1>0, <1>7, Busy DEF PersistFails
    <2> QED
      BY <1>0, <1>7, <2>1, PersistFailsEffect DEF RowChange, StatusChange, Unregistered
  <1>8. CASE Claim
    BY <1>0, <1>8, ClaimEffect DEF RowChange, StatusChange, Claimed
  <1>9. CASE Delegate
    BY <1>9, DelegateEffect DEF RowChange, StatusChange, Delegated
  <1>10. CASE AcknowledgeCancel
    <2>1. ~ Delegate
      BY <1>0, <1>10, DelegateMoves DEF AcknowledgeCancel, TakesUp
    <2> DEFINE d == Head(todo).job
    <2>2. \/ row' = row
          \/ /\ d \in Deployments \ checkouts
             /\ row[d].status = "cancel_requested"
             /\ row[d].marked
             /\ row'[d].status = "cancelled"
             /\ row'[d].marked = row[d].marked
             /\ \A e \in Deployments : e # d => row'[e] = row[e]
      BY <1>0, <1>10, AcknowledgeEffect
    <2> HIDE DEF d
    <2>3. ASSUME NEW e \in Deployments
          PROVE  StatusChange(e) /\ (row'[e].marked = row[e].marked)
      BY <1>10, <2>2 DEF StatusChange, Acknowledged, d
    <2> QED
      BY <2>3 DEF RowChange
  <1>11. CASE Begin \/ BeginLost
    <2>1. todo # <<>> /\ todo' = Tail(todo)
      BY <1>11 DEF Begin, BeginLost, TakesUp
    <2>2. row' = row \/ Progress(Head(todo).job)
      BY <1>11 DEF Begin, BeginLost
    <2>3. agent' = agent
      BY <1>11 DEF Begin, BeginLost
    <2> QED
      BY <1>1, <2>1, <2>2, <2>3, HeadHeld, ReportChange DEF Progress
  <1>12. CASE StartScript \/ ScriptProgress \/ ProgressLost
    <2>1. exec.at # "idle"
      BY <1>12 DEF StartScript, ScriptProgress, ProgressLost
    <2>2. row' = row \/ Progress(exec.job)
      BY <1>12 DEF StartScript, ScriptProgress, ProgressLost
    <2>3. agent' = agent
      BY <1>12 DEF StartScript, ScriptProgress, ProgressLost
    <2> QED
      BY <1>1, <2>1, <2>2, <2>3, ExecHeld, ReportChange DEF Progress
  <1>13. CASE ReportComplete \/ CompleteLost
    <2>1. exec.at = "completing"
      BY <1>13 DEF ReportComplete, CompleteLost
    <2>2. row' = row \/ row' = [row EXCEPT ![exec.job] = Updated(row[exec.job], "passed", "closed")]
      BY <1>13 DEF ReportComplete, CompleteLost, Complete
    <2>3. agent' = agent
      BY <1>13 DEF ReportComplete, CompleteLost
    <2> QED
      BY <1>1, <2>1, <2>2, <2>3, ExecHeld, ReportChange
  <1>14. CASE ReportFailed
    <2>1. exec.at # "idle"
      BY <1>14 DEF ReportFailed
    <2>2. row' = row \/ Fail(exec.job)
      BY <1>14 DEF ReportFailed
    <2>3. agent' = agent
      BY <1>14 DEF ReportFailed
    <2> QED
      BY <1>1, <2>1, <2>2, <2>3, ExecHeld, ReportChange DEF Fail
  <1>15. CASE UNCHANGED vars
    BY <1>1, <1>15 DEF vars
  <1>16. CASE PlanTestDeployment \/ RefuseStart \/ PreflightManualRelease \/ DropTicket
    BY <1>1, <1>16 DEF PlanTestDeployment, RefuseStart, PreflightManualRelease, DropTicket
  <1>17. ASSUME NEW sha \in Commits, MainMoves(sha)
         PROVE  RowChange
    BY <1>1, <1>17 DEF MainMoves
  <1>18. CASE PersistRelease \/ ControllerCrash \/ Poll \/ ReadPrior \/ Truncate \/ WritePayload
                \/ AgentCrash
    BY <1>1, <1>18
       DEF PersistRelease, ControllerCrash, Poll, ReadPrior, Truncate, WritePayload, AgentCrash
  <1>19. CASE Fetch \/ Prepare \/ PrepareFails \/ ScriptExits \/ ExecutorCrash
    BY <1>1, <1>19 DEF Fetch, Prepare, PrepareFails, ScriptExits, ExecutorCrash
  <1>20. ASSUME NEW d \in Deployments, ScriptSwitches(d)
         PROVE  RowChange
    BY <1>1, <1>20 DEF ScriptSwitches
  <1> QED
    BY <1>2, <1>3, <1>4, <1>5, <1>6, <1>7, <1>8, <1>9, <1>10, <1>11, <1>12, <1>13, <1>14,
       <1>15, <1>16, <1>17, <1>18, <1>19, <1>20
       DEF Next, Users, Controller, Agent, Executor, Faults

-----------------------------------------------------------------------------
(* Which steps change what.                                                *)

Framed ==
    /\ \/ checkouts' = checkouts
       \/ Prepare \/ PrepareFails
    /\ \/ exec' = exec
       \/ Begin \/ Prepare \/ PrepareFails \/ StartScript \/ ScriptProgress
       \/ ProgressLost \/ ScriptExits \/ ReportComplete \/ CompleteLost
       \/ ReportFailed \/ ExecutorCrash
    /\ \/ todo' = todo
       \/ Fetch \/ AcknowledgeCancel \/ Begin \/ BeginLost \/ ReportFailed
       \/ ExecutorCrash
    /\ \/ closing' = closing
       \/ FinishComplete \/ PersistRelease \/ PersistFails \/ ControllerCrash
       \/ ReportComplete \/ CompleteLost
       \/ \E d \in Deployments : ReconcileManualRelease(d)
    /\ \/ agent' = agent
       \/ Poll \/ ReadPrior \/ Truncate \/ WritePayload \/ Claim \/ Delegate
       \/ AgentCrash
    /\ \/ script' = script
       \/ StartScript \/ ScriptExits
       \/ \E d \in Deployments : ReconcileManualRelease(d) \/ ScriptSwitches(d)
    /\ \/ file' = file
       \/ PersistRelease \/ Truncate \/ WritePayload

LEMMA Frame ==
    ASSUME [Next]_vars
    PROVE  Framed
  <1>1. CASE UNCHANGED vars
    BY <1>1
       DEF Framed, controllerVars, executorVars, vars
  <1>2. CASE PlanTestDeployment \/ RefuseStart \/ PreflightManualRelease \/ DropTicket
    BY <1>2
       DEF Framed, controllerVars, executorVars, PlanTestDeployment, RefuseStart, PreflightManualRelease, DropTicket
  <1>3. ASSUME NEW d \in Deployments, NEW force \in BOOLEAN, StartTestDeployment(d, force)
        PROVE  Framed
    BY <1>3
       DEF Framed, controllerVars, executorVars, StartTestDeployment
  <1>4. ASSUME NEW d \in Deployments, NEW target \in Releases, RollbackTestDeployment(d, target)
        PROVE  Framed
    BY <1>4
       DEF Framed, controllerVars, executorVars, RollbackTestDeployment
  <1>5. ASSUME NEW d \in Deployments, CancelTestDeployment(d)
        PROVE  Framed
    BY <1>5
       DEF Framed, controllerVars, executorVars, CancelTestDeployment
  <1>6. ASSUME NEW sha \in Commits, MainMoves(sha)
        PROVE  Framed
    BY <1>6
       DEF Framed, controllerVars, executorVars, MainMoves
  <1>7. ASSUME NEW d \in Deployments, ReconcileManualRelease(d)
        PROVE  Framed
    BY <1>7
       DEF Framed, controllerVars, executorVars, ReconcileManualRelease
  <1>8. ASSUME NEW d \in Deployments, ScriptSwitches(d)
        PROVE  Framed
    BY <1>8
       DEF Framed, controllerVars, executorVars, ScriptSwitches
  <1>9. CASE Controller
    BY <1>9
       DEF Framed, controllerVars, executorVars, Controller, FinishComplete, PersistRelease
  <1>10. CASE Agent
    BY <1>10
       DEF Framed, controllerVars, executorVars, Agent, Poll, ReadPrior, Truncate, WritePayload, Claim, Delegate
  <1>11. CASE Executor
    BY <1>11
       DEF Framed, controllerVars, executorVars, Executor, Fetch, AcknowledgeCancel, Begin, Prepare, PrepareFails, StartScript,
           ScriptProgress, ScriptExits, ReportComplete, ReportFailed
  <1>12. CASE Faults
    BY <1>12
       DEF Framed, controllerVars, executorVars, Faults, PersistFails, ControllerCrash, AgentCrash, BeginLost,
           ProgressLost, CompleteLost, ExecutorCrash
  <1> QED
    BY <1>1, <1>2, <1>3, <1>4, <1>5, <1>6, <1>7, <1>8, <1>9, <1>10, <1>11, <1>12
       DEF Next, Users

-----------------------------------------------------------------------------
(* The parts of the inductive invariant.                                   *)

LEMMA NotBegunStep ==
    ASSUME DepInv, [Next]_vars
    PROVE  NotBegun'
  <1>0. TypeOK /\ NotBegun /\ Held
    BY DEF DepInv
  <1>1. RowChange
    BY RowStep
  \* Only the preparation makes a checkout, for a row the executor holds.
  <1>2. ASSUME NEW d \in Deployments, d \in checkouts'
        PROVE  d \in checkouts \/ (row[d].status \notin Untouched /\ row' = row)
    <2>1. CASE Prepare \/ PrepareFails
      <3>1. exec.at # "idle" /\ row' = row
        BY <2>1 DEF Prepare, PrepareFails
      <3>2. d \in checkouts \/ d = exec.job
        BY <1>2, <2>1 DEF Prepare, PrepareFails
      <3> QED
        BY <3>1, <3>2, ExecHeld
    <2>2. CASE checkouts' = checkouts
      BY <1>2, <2>2
    <2>3. Prepare \/ PrepareFails \/ checkouts' = checkouts
      BY Frame DEF Framed
    <2> QED
      BY <2>1, <2>2, <2>3
  <1>3. ASSUME NEW d \in Deployments, row'[d].status \in Untouched
        PROVE  (row[d].status \in Untouched /\ d \notin checkouts) \/ Acknowledged(d)
    <2>1. StatusChange(d)
      BY <1>1 DEF RowChange
    <2>2. row[d].status \in Untouched \/ Acknowledged(d)
      BY <1>3, <2>1
         DEF StatusChange, Inserted, Cancelled, Claimed, Delegated, Reported, Unregistered,
             Untouched
    <2> QED
      BY <1>0, <2>2 DEF NotBegun
  <1>4. ASSUME NEW d \in Deployments, row'[d].status \in {"absent", "queued"}
        PROVE  ~ row'[d].marked
    <2>1. StatusChange(d) /\ (~ Delegate => row'[d].marked = row[d].marked)
      BY <1>1 DEF RowChange
    <2>2. row[d].status \in {"absent", "queued"}
      BY <1>4, <2>1
         DEF StatusChange, Inserted, Cancelled, Claimed, Delegated, Reported, Unregistered,
             Acknowledged
    <2>3. CASE Delegate
      <3>1. d # agent.job /\ row'[d] = row[d]
        BY <1>4, <2>3, DelegateEffect
      <3> QED
        BY <1>0, <2>2, <3>1 DEF NotBegun
    <2>4. CASE ~ Delegate
      BY <1>0, <2>1, <2>2, <2>4 DEF NotBegun
    <2> QED
      BY <2>3, <2>4
  <1>5. ASSUME NEW d \in Deployments, row'[d].status \in Untouched
        PROVE  d \notin checkouts'
    <2>1. CASE Acknowledged(d)
      <3>1. d \notin checkouts /\ checkouts' = checkouts
        BY <2>1 DEF Acknowledged, AcknowledgeCancel
      <3> QED
        BY <3>1
    <2>2. CASE row[d].status \in Untouched /\ d \notin checkouts
      BY <1>2, <2>2
    <2> QED
      BY <1>3, <1>5, <2>1, <2>2
  <1> QED
    BY <1>4, <1>5 DEF NotBegun

\* Nothing but an acknowledgement takes a row back to those that nobody holds.
LEMMA StaysTaken ==
    ASSUME DepInv, [Next]_vars, NEW d \in Deployments,
           row[d].status \notin Untouched, ~ Acknowledged(d)
    PROVE  row'[d].status \notin Untouched
  <1>1. StatusChange(d)
    BY RowStep DEF RowChange
  <1> QED
    BY <1>1
       DEF StatusChange, Inserted, Cancelled, Claimed, Delegated, Reported, Unregistered,
           Untouched

ExecTaken == exec.at # "idle" => row[exec.job].status \notin Untouched
TodoTaken == \A i \in DOMAIN todo : row[todo[i].job].status \notin Untouched
TodoOnce == \A i, j \in DOMAIN todo : todo[i].job = todo[j].job => i = j
AgentTaken ==
    agent.at = "claimed" =>
        /\ agent.job \in Deployments
        /\ row[agent.job].status \notin Untouched
        /\ ~ row[agent.job].marked
ClosingTaken == closing.next # "none" => row[closing.job].status \notin Untouched

\* Where a deployment in the executor's hands comes from.
LEMMA ExecNext ==
    ASSUME DepInv, [Next]_vars
    PROVE  \/ exec' = Resting
           \/ exec.at # "idle" /\ exec'.job = exec.job
           \/ Begin /\ exec'.job = Head(todo).job
  <1>1. TypeOK
    BY DEF DepInv
  <1>2. CASE exec' = exec
    BY <1>1, <1>2, Busy
  <1>3. CASE Begin
    BY <1>3 DEF Begin, TakesUp
  <1>4. CASE Prepare \/ PrepareFails \/ StartScript \/ ScriptProgress \/ ScriptExits
             \/ ReportComplete \/ CompleteLost \/ ReportFailed \/ ExecutorCrash \/ ProgressLost
    <2>1. exec.at # "idle"
      BY <1>1, <1>4, Busy
         DEF Prepare, PrepareFails, StartScript, ScriptProgress, ScriptExits, ReportComplete,
             CompleteLost, ReportFailed, ExecutorCrash, ProgressLost
    <2>2. \/ exec' = exec
          \/ exec' = Resting
          \/ exec' = [exec EXCEPT !.at = "validate"]
          \/ exec' = [exec EXCEPT !.at = "script"]
          \/ exec' = [exec EXCEPT !.at = "completing"]
          \/ exec' = [exec EXCEPT !.at = "failing"]
      BY <1>4
         DEF Prepare, PrepareFails, StartScript, ScriptProgress, ScriptExits, ReportComplete,
             CompleteLost, ReportFailed, ExecutorCrash, ProgressLost, Dead
    <2> QED
      BY <1>1, <2>1, <2>2, Busy
  <1> QED
    BY <1>2, <1>3, <1>4, Frame DEF Framed

\* Where a deployment on its list comes from.
LEMMA TodoNext ==
    ASSUME DepInv, [Next]_vars, NEW i \in DOMAIN todo'
    PROVE  \/ Fetch /\ Listed(todo'[i].job)
           \/ \E j \in DOMAIN todo : todo'[i].job = todo[j].job
  <1>1. TypeOK
    BY DEF DepInv
  <1>2. CASE Fetch
    BY <1>1, <1>2, FetchTodo
  <1>3. CASE AcknowledgeCancel \/ Begin \/ BeginLost
    <2>1. todo # <<>> /\ todo' = Tail(todo)
      BY <1>3 DEF AcknowledgeCancel, Begin, BeginLost, TakesUp
    <2> QED
      BY <1>1, <2>1, TodoTail
  <1>4. CASE todo' = todo
    BY <1>4
  <1>5. ReportFailed \/ ExecutorCrash => todo' = todo \/ todo' = <<>>
    BY DEF ReportFailed, ExecutorCrash, Dead
  <1> QED
    BY <1>2, <1>3, <1>4, <1>5, Frame DEF Framed

\* Where a claim comes from.
LEMMA AgentNext ==
    ASSUME DepInv, [Next]_vars, agent'.at = "claimed"
    PROVE  /\ agent'.job = agent.job
           /\ \/ agent.at = "claimed" /\ ~ Delegate
              \/ Claim /\ agent.job \in Queued
  <1>1. TypeOK
    BY DEF DepInv
  <1>2. CASE agent' = agent
    BY <1>1, <1>2, DelegateMoves
  <1>3. CASE Claim
    <2>1. \/ agent' = Idle
          \/ agent.job \in Queued /\ agent' = [agent EXCEPT !.at = "claimed", !.write = "read"]
      BY <1>3 DEF Claim
    <2>2. agent' # Idle
      BY DEF Idle
    <2>3. agent # Idle
      BY <1>3 DEF Claim, Idle
    <2>4. agent'.job = agent.job
      BY <1>1, <2>1, <2>2, <2>3, Busy
    <2> QED
      BY <1>3, <2>1, <2>2, <2>4
  <1>4. CASE Delegate
    BY <1>1, <1>4, Busy DEF Delegate
  <1>5. CASE Poll
    BY <1>5 DEF Poll, Polled
  <1>6. CASE AgentCrash
    BY <1>6 DEF AgentCrash, Idle
  <1>7. CASE ReadPrior \/ Truncate \/ WritePayload
    <2>1. agent # Idle /\ agent.write # "done"
      BY <1>1, <1>7, Busy DEF ReadPrior, Truncate, WritePayload
    <2>2. \/ agent' = Idle
          \/ agent'.at = agent.at /\ agent'.job = agent.job
      <3>1. CASE ReadPrior
        BY <1>1, <2>1, <3>1, Busy DEF ReadPrior
      <3>2. CASE Truncate
        BY <1>1, <2>1, <3>2, Busy DEF Truncate
      <3>3. CASE WritePayload
        BY <1>1, <2>1, <3>3, Busy DEF WritePayload
      <3> QED
        BY <1>7, <3>1, <3>2, <3>3
    <2>3. ~ Delegate
      BY <2>1 DEF Delegate
    <2> QED
      BY <2>2, <2>3 DEF Idle
  <1> QED
    BY <1>2, <1>3, <1>4, <1>5, <1>6, <1>7, Frame DEF Framed

LEMMA ExecTakenStep ==
    ASSUME DepInv, [Next]_vars
    PROVE  ExecTaken'
  <1>1. CASE exec' = Resting
    BY <1>1 DEF ExecTaken, Resting
  <1>2. CASE exec.at # "idle" /\ exec'.job = exec.job
    <2>1. ~ Acknowledged(exec.job)
      BY <1>2 DEF Acknowledged, AcknowledgeCancel, TakesUp, Resting
    <2> QED
      BY <1>2, <2>1, ExecHeld, StaysTaken DEF ExecTaken
  <1>3. CASE Begin /\ exec'.job = Head(todo).job
    <2>1. todo # <<>>
      BY <1>3 DEF Begin, TakesUp
    <2>2. ~ Acknowledged(Head(todo).job)
      BY <1>3 DEF Acknowledged, AcknowledgeCancel, Begin, TakesUp
    <2>3. row'[Head(todo).job].status \notin Untouched
      BY <2>1, <2>2, HeadHeld, StaysTaken
    <2> QED
      BY <1>3, <2>3 DEF ExecTaken
  <1> QED
    BY <1>1, <1>2, <1>3, ExecNext

LEMMA TodoTakenStep ==
    ASSUME DepInv, [Next]_vars
    PROVE  TodoTaken' /\ TodoOnce'
  <1>1. TypeOK /\ TypeOK' /\ TodoTaken /\ TodoOnce
    BY TypeStep DEF DepInv, Held, TodoTaken, TodoOnce
  <1>2. \A i \in DOMAIN todo : todo[i].job \in Deployments
    BY <1>1, TodoJobs
  <1>3. CASE Fetch
    <2>1. row' = row
      BY <1>3 DEF Fetch
    <2>2. \A d : Listed(d) => row[d].status \notin Untouched
      BY DEF Listed, CancelPending, Untouched
    <2> QED
      BY <1>1, <1>3, <2>1, <2>2, FetchTodo DEF TodoTaken, TodoOnce
  <1>4. CASE AcknowledgeCancel \/ Begin \/ BeginLost
    <2>1. todo # <<>> /\ todo' = Tail(todo)
      BY <1>4 DEF AcknowledgeCancel, Begin, BeginLost, TakesUp
    <2>2. \A i \in DOMAIN Tail(todo) :
             i + 1 \in DOMAIN todo /\ i + 1 # 1 /\ Tail(todo)[i] = todo[i + 1]
      BY <1>1, <2>1, TodoTail
    <2>3. TodoOnce'
      <3>1. ASSUME NEW i \in DOMAIN Tail(todo), NEW j \in DOMAIN Tail(todo),
                   Tail(todo)[i].job = Tail(todo)[j].job
            PROVE  i = j
        <4>1. i + 1 = j + 1
          BY <1>1, <2>2, <3>1 DEF TodoOnce
        <4>2. i \in Int /\ j \in Int
          BY <1>1, <2>1, TodoTail
        <4> QED
          BY <4>1, <4>2
      <3> QED
        BY <2>1, <3>1 DEF TodoOnce
    <2>4. ASSUME NEW i \in DOMAIN Tail(todo)
          PROVE  row'[Tail(todo)[i].job].status \notin Untouched
      <3> DEFINE d == todo[i + 1].job
      <3>1. d \in Deployments /\ row[d].status \notin Untouched /\ Tail(todo)[i].job = d
        BY <1>1, <1>2, <2>2 DEF TodoTaken
      <3>2. d # Head(todo).job
        BY <1>1, <2>1, <2>2, TodoTail DEF TodoOnce
      <3>3. ~ Acknowledged(d)
        BY <3>2 DEF Acknowledged
      <3> QED
        BY <3>1, <3>3, StaysTaken
    <2> QED
      BY <2>1, <2>3, <2>4 DEF TodoTaken
  <1>5. CASE todo' = <<>>
    BY <1>5 DEF TodoTaken, TodoOnce
  <1>6. CASE todo' = todo
    <2>1. ~ AcknowledgeCancel
      BY <1>1, <1>6 DEF AcknowledgeCancel, TakesUp, TypeOK
    <2>2. \A i \in DOMAIN todo : row'[todo[i].job].status \notin Untouched
      BY <1>1, <1>2, <2>1, StaysTaken DEF TodoTaken, Acknowledged
    <2> QED
      BY <1>1, <1>6, <2>2 DEF TodoTaken, TodoOnce
  <1>7. ReportFailed \/ ExecutorCrash => todo' = todo \/ todo' = <<>>
    BY DEF ReportFailed, ExecutorCrash, Dead
  <1> QED
    BY <1>3, <1>4, <1>5, <1>6, <1>7, Frame DEF Framed

LEMMA AgentTakenStep ==
    ASSUME DepInv, [Next]_vars
    PROVE  AgentTaken'
  <1>1. TypeOK /\ NotBegun
    BY DEF DepInv
  <1> SUFFICES ASSUME agent'.at = "claimed"
               PROVE  AgentTaken'
    BY DEF AgentTaken
  <1>2. agent'.job = agent.job
    BY AgentNext
  <1>3. CASE agent.at = "claimed" /\ ~ Delegate
    <2>1. /\ agent.job \in Deployments
          /\ row[agent.job].status \notin Untouched
          /\ ~ row[agent.job].marked
      BY <1>3 DEF DepInv, Held
    <2>2. row'[agent.job].status \notin Untouched
      BY <2>1, StaysTaken DEF Acknowledged
    <2>3. row'[agent.job].marked = row[agent.job].marked
      BY <1>3, <2>1, RowStep DEF RowChange
    <2> QED
      BY <1>2, <2>1, <2>2, <2>3 DEF AgentTaken
  <1>4. CASE Claim /\ agent.job \in Queued
    <2>1. agent.job \in Deployments /\ row[agent.job].status = "queued"
      BY <1>4 DEF Queued
    <2>2. ~ row[agent.job].marked
      BY <1>1, <2>1 DEF NotBegun
    <2>3. row'[agent.job].marked = row[agent.job].marked
      BY <1>1, <1>4, <2>1, ClaimEffect
    <2>4. row'[agent.job].status = "claimed"
      BY <1>1, <1>4, ClaimEffect
    <2> QED
      BY <1>2, <2>1, <2>2, <2>3, <2>4 DEF AgentTaken, Untouched
  <1> QED
    BY <1>3, <1>4, AgentNext

LEMMA ClosingTakenStep ==
    ASSUME DepInv, [Next]_vars
    PROVE  ClosingTaken'
  <1>1. TypeOK /\ TypeOK'
    BY TypeStep DEF DepInv
  <1>2. CASE closing' = NotClosing
    BY <1>2 DEF ClosingTaken, NotClosing
  <1>3. CASE closing # NotClosing /\ closing'.job = closing.job
    <2>1. closing.job \in Deployments /\ row[closing.job].status \notin Untouched
      BY <1>1, <1>3, Busy DEF DepInv, Held
    <2>2. ~ Acknowledged(closing.job)
      BY <1>3 DEF Acknowledged, AcknowledgeCancel, LoopFree
    <2> QED
      BY <1>3, <2>1, <2>2, StaysTaken DEF ClosingTaken
  <1>4. CASE FinishComplete
    <2>1. closing # NotClosing /\ closing'.job = closing.job
      BY <1>1, <1>4, Busy DEF FinishComplete
    <2> QED
      BY <1>3, <2>1
  <1>5. CASE ReportComplete \/ CompleteLost
    <2>1. exec.at # "idle" /\ ~ AcknowledgeCancel
      BY <1>5 DEF ReportComplete, CompleteLost, AcknowledgeCancel, TakesUp, Resting
    <2>2. row'[exec.job].status \notin Untouched
      BY <2>1, ExecHeld, StaysTaken DEF Acknowledged
    <2>3. closing' = closing \/ closing'.job = exec.job
      BY <1>5 DEF ReportComplete, CompleteLost, Complete
    <2> QED
      BY <1>2, <1>3, <2>2, <2>3 DEF ClosingTaken
  <1>6. ASSUME NEW d \in Deployments, ReconcileManualRelease(d)
        PROVE  ClosingTaken'
    <2>1. row'[d].status = "passed"
      <3>1. CASE Insert(d, "passed", "fullstack", main, Current)
        <4>1. row[d] \in Rows /\ row \in [Deployments -> Rows]
          BY <1>1 DEF TypeOK
        <4>2. row'[d] = [row[d] EXCEPT !.status = "passed", !.scope = "fullstack",
                                       !.commit = main, !.before = Current,
                                       !.step = "closed", !.revision = 1]
          BY <3>1, <4>1 DEF Insert
        <4> QED
          BY <4>1, <4>2 DEF Rows
      <3>2. CASE row' = row /\ row[d].status = "passed"
        BY <3>2
      <3> QED
        BY <1>6, <3>1, <3>2 DEF ReconcileManualRelease
    <2>2. closing'.job = d
      BY <1>6 DEF ReconcileManualRelease
    <2> QED
      BY <2>1, <2>2 DEF ClosingTaken, Untouched
  <1>7. PersistRelease \/ PersistFails \/ ControllerCrash => closing' = NotClosing
    BY DEF PersistRelease, PersistFails, ControllerCrash
  <1> QED
    BY <1>2, <1>3, <1>4, <1>5, <1>6, <1>7, Frame DEF Framed

LEMMA HeldStep ==
    ASSUME DepInv, [Next]_vars
    PROVE  Held'
  BY ExecTakenStep, TodoTakenStep, AgentTakenStep, ClosingTakenStep
     DEF Held, ExecTaken, TodoTaken, TodoOnce, AgentTaken, ClosingTaken

LEMMA ByHandStep ==
    ASSUME DepInv, [Next]_vars
    PROVE  ByHand'
  <1>1. TypeOK /\ ByHand /\ KnownIsLive /\ Held
    BY DEF DepInv
  <1> SUFFICES ASSUME NEW d \in Deployments, script'[d] # "none", d \notin checkouts'
               PROVE  /\ row'[d].status \in {"passed", "failed"}
                      /\ exec'.job # d
                      /\ \A i \in DOMAIN todo' : todo'[i].job # d
                      /\ agent'.at = "claimed" => agent'.job # d
    BY DEF ByHand
  <1>2. d \notin checkouts
    <2>1. CASE Prepare \/ PrepareFails
      BY <2>1 DEF Prepare, PrepareFails
    <2>2. CASE checkouts' = checkouts
      BY <2>2
    <2> QED
      BY <2>1, <2>2, Frame DEF Framed
  <1>3. exec.at \in {"validate", "script"} => exec.job # d
    BY <1>1, <1>2 DEF KnownIsLive
  <1>4. Resting.job # d
    BY DeploymentsAssumption DEF Resting, NoDeployment
  <1>5. CASE script[d] # "none"
    <2>1. /\ row[d].status \in {"passed", "failed"}
          /\ exec.job # d
          /\ \A i \in DOMAIN todo : todo[i].job # d
          /\ agent.at = "claimed" => agent.job # d
      BY <1>1, <1>2, <1>5 DEF ByHand
    <2>2. row'[d].status \in {"passed", "failed"}
      <3>1. StatusChange(d)
        BY RowStep DEF RowChange
      <3>2. ~ Delegated(d)
        BY <2>1 DEF Delegated, Delegate
      <3> QED
        BY <2>1, <3>1, <3>2
           DEF StatusChange, Inserted, Cancelled, Claimed, Reported, Unregistered, Acknowledged
    <2>3. exec'.job # d
      <3>1. Begin => Head(todo).job # d
        <4>1. Begin => todo # <<>>
          BY DEF Begin, TakesUp
        <4> QED
          BY <1>1, <2>1, <4>1, TodoTail
      <3> QED
        BY <1>4, <2>1, <3>1, ExecNext
    <2>4. \A i \in DOMAIN todo' : todo'[i].job # d
      <3>1. ~ Listed(d)
        BY <2>1 DEF Listed, CancelPending
      <3> QED
        BY <2>1, <3>1, TodoNext
    <2>5. agent'.at = "claimed" => agent'.job # d
      BY <2>1, AgentNext DEF Queued
    <2> QED
      BY <2>2, <2>3, <2>4, <2>5
  <1>6. CASE script[d] = "none"
    <2>1. ReconcileManualRelease(d)
      <3>1. script' # script
        BY <1>6
      <3>2. CASE StartScript
        BY <1>1, <1>3, <1>6, <3>2 DEF StartScript, TypeOK
      <3>3. CASE ScriptExits
        BY <1>1, <1>3, <1>6, <3>3 DEF ScriptExits, TypeOK
      <3>4. ASSUME NEW e \in Deployments, ReconcileManualRelease(e)
            PROVE  e = d
        BY <1>1, <1>6, <3>4 DEF ReconcileManualRelease, TypeOK
      <3>5. ASSUME NEW e \in Deployments, ScriptSwitches(e)
            PROVE  FALSE
        BY <1>1, <1>6, <3>5 DEF ScriptSwitches, TypeOK
      <3> QED
        BY <3>1, <3>2, <3>3, <3>4, <3>5, Frame DEF Framed
    <2>2. Insert(d, "passed", "fullstack", main, Current)
      BY <1>6, <2>1 DEF ReconcileManualRelease
    <2>3. row[d].status = "absent"
      BY <2>2 DEF Insert
    <2>4. row'[d].status = "passed"
      <3>1. row[d] \in Rows /\ row \in [Deployments -> Rows]
        BY <1>1 DEF TypeOK
      <3>2. row'[d] = [row[d] EXCEPT !.status = "passed", !.scope = "fullstack",
                                     !.commit = main, !.before = Current,
                                     !.step = "closed", !.revision = 1]
        BY <2>2, <3>1 DEF Insert
      <3> QED
        BY <3>1, <3>2 DEF Rows
    <2>5. exec' = exec /\ todo' = todo /\ agent' = agent
      BY <2>1 DEF ReconcileManualRelease
    <2>6. exec.job # d
      BY <1>1, <1>4, <2>3, Busy DEF Held, Untouched
    <2>7. \A i \in DOMAIN todo : todo[i].job # d
      BY <1>1, <2>3 DEF Held, Untouched
    <2>8. agent.at = "claimed" => agent.job # d
      BY <1>1, <2>3 DEF Held, Untouched
    <2> QED
      BY <2>4, <2>5, <2>6, <2>7, <2>8
  <1> QED
    BY <1>5, <1>6

LEMMA ScriptNext ==
    ASSUME DepInv, [Next]_vars, NEW d \in Deployments
    PROVE  \/ script'[d] = script[d]
           \/ StartScript /\ d = exec.job /\ script'[d] = "running"
           \/ ScriptExits /\ d = exec.job /\ script'[d] = "over"
           \/ ReconcileManualRelease(d) /\ script'[d] = "switched"
           \/ script[d] = "running" /\ script'[d] = "switched"
  <1>1. script \in [Deployments -> {"none", "running", "switched", "over"}]
    BY DEF DepInv, TypeOK
  <1>2. CASE script' = script
    BY <1>2
  <1>3. CASE StartScript
    BY <1>1, <1>3 DEF StartScript
  <1>4. CASE ScriptExits
    BY <1>1, <1>4 DEF ScriptExits
  <1>5. ASSUME NEW e \in Deployments, ReconcileManualRelease(e)
        PROVE  script'[d] = script[d] \/ (e = d /\ script'[d] = "switched")
    BY <1>1, <1>5 DEF ReconcileManualRelease
  <1>6. ASSUME NEW e \in Deployments, ScriptSwitches(e)
        PROVE  \/ script'[d] = script[d]
               \/ script[d] = "running" /\ script'[d] = "switched"
    BY <1>1, <1>6 DEF ScriptSwitches
  <1> QED
    BY <1>2, <1>3, <1>4, <1>5, <1>6, Frame DEF Framed

\* What becomes known is known before, or the release that the executor reports
\* as complete, or one that is reconciled.
Reveals(r) ==
    \/ r \in Known \cup {0, NoRelease}
    \/ exec.at = "completing" /\ r = exec.job
    \/ r \in Deployments /\ ReconcileManualRelease(r)

LEMMA FileReveals ==
    ASSUME DepInv, [Next]_vars, NEW r \in file'.releases \cup {file'.current}
    PROVE  Reveals(r)
  <1>1. CASE PersistRelease
    BY <1>1 DEF PersistRelease, Known, Reveals
  <1>2. CASE file' = file
    BY <1>2 DEF Known, Reveals
  <1>3. CASE file' = Torn
    BY <1>3 DEF Torn, Reveals
  <1>4. CASE file' = Payload
    BY <1>4 DEF Payload, Known, Reveals
  <1>5. Truncate \/ WritePayload => file' \in {file, Torn, Payload}
    BY DEF Truncate, WritePayload
  <1> QED
    BY <1>1, <1>2, <1>3, <1>4, <1>5, Frame DEF Framed

LEMMA AgentReveals ==
    ASSUME DepInv, [Next]_vars,
           NEW r \in agent'.prior.releases \cup {agent'.prior.current, agent'.retained}
    PROVE  Reveals(r)
  <1>1. TypeOK
    BY DEF DepInv
  <1>2. CASE agent' = agent
    BY <1>2 DEF Known, Reveals
  <1>3. CASE agent' = Idle
    BY <1>3 DEF Idle, Torn, Reveals
  <1>4. CASE Poll
    BY <1>4 DEF Poll, Polled, Torn, Known, Reveals
  <1>5. CASE agent # Idle /\ agent'.retained = agent.retained
             /\ agent'.prior \in {agent.prior, file, Torn}
    BY <1>5 DEF Torn, Known, Reveals
  <1>6. CASE ReadPrior \/ Truncate \/ WritePayload \/ Claim \/ Delegate \/ AgentCrash
    <2>1. agent # Idle
      BY <1>6 DEF ReadPrior, Truncate, WritePayload, Claim, Delegate, AgentCrash, Idle
    <2>2. \/ agent' = Idle
          \/ agent' = [agent EXCEPT !.prior = file, !.write = "truncate"]
          \/ agent' = [agent EXCEPT !.write = "write"]
          \/ agent' = [agent EXCEPT !.write = "done", !.prior = Torn]
          \/ agent' = [agent EXCEPT !.at = "claimed", !.write = "read"]
          \/ agent' = [agent EXCEPT !.at = "delegated", !.job = NoDeployment, !.write = "read"]
      BY <1>6 DEF ReadPrior, Truncate, WritePayload, Claim, Delegate, AgentCrash
    <2>3. \/ agent' = Idle
          \/ agent'.retained = agent.retained /\ agent'.prior \in {agent.prior, file, Torn}
      BY <1>1, <2>1, <2>2, Busy
    <2> QED
      BY <1>3, <1>5, <2>1, <2>3
  <1> QED
    BY <1>2, <1>4, <1>6, Frame DEF Framed

LEMMA ClosingReveals ==
    ASSUME DepInv, [Next]_vars
    PROVE  Reveals(closing'.job)
  <1>1. TypeOK
    BY DEF DepInv
  <1>2. CASE closing' = closing
    BY <1>2 DEF Known, Reveals
  <1>3. CASE closing' = NotClosing
    BY <1>3 DEF NotClosing, NoDeployment, Reveals
  <1>4. CASE FinishComplete
    <2>1. closing'.job = closing.job
      BY <1>1, <1>4, Busy DEF FinishComplete
    <2> QED
      BY <2>1 DEF Known, Reveals
  <1>5. CASE ReportComplete \/ CompleteLost
    <2>1. exec.at = "completing"
      BY <1>5 DEF ReportComplete, CompleteLost
    <2>2. closing' = closing \/ closing'.job = exec.job
      BY <1>5 DEF ReportComplete, CompleteLost, Complete
    <2> QED
      BY <1>2, <2>1, <2>2 DEF Reveals
  <1>6. ASSUME NEW d \in Deployments, ReconcileManualRelease(d)
        PROVE  Reveals(closing'.job)
    <2>1. closing'.job = d
      BY <1>6 DEF ReconcileManualRelease
    <2> QED
      BY <1>6, <2>1 DEF Reveals
  <1>7. PersistRelease \/ PersistFails \/ ControllerCrash => closing' = NotClosing
    BY DEF PersistRelease, PersistFails, ControllerCrash
  <1> QED
    BY <1>2, <1>3, <1>4, <1>5, <1>6, <1>7, Frame DEF Framed

LEMMA RowReveals ==
    ASSUME DepInv, [Next]_vars, NEW d \in Deployments, row'[d].status = "passed"
    PROVE  Reveals(d)
  <1>1. StatusChange(d)
    BY RowStep DEF RowChange
  <1>2. \/ row[d].status = "passed"
        \/ ReconcileManualRelease(d)
        \/ exec.at = "completing" /\ d = exec.job
    BY <1>1
       DEF StatusChange, Inserted, Cancelled, Claimed, Delegated, Reported, Unregistered,
           Acknowledged
  <1> QED
    BY <1>2 DEF Known, Reveals

LEMMA KnownNext ==
    ASSUME DepInv, [Next]_vars, NEW r \in Known'
    PROVE  Reveals(r)
  BY FileReveals, AgentReveals, ClosingReveals, RowReveals DEF Known

LEMMA KnownType ==
    ASSUME TypeOK
    PROVE  Known \subseteq Deployments \cup {0, NoRelease}
  <1>1. /\ file.releases \cup {file.current} \subseteq Releases \cup {NoRelease}
        /\ closing.job \in Deployments \cup {0}
    BY Busy DEF TypeOK, Files, NotClosing, NoDeployment
  <1>2. agent.prior.releases \cup {agent.prior.current, agent.retained}
           \subseteq Releases \cup {NoRelease}
    <2>1. CASE agent = Idle
      BY <2>1 DEF Idle, Torn
    <2>2. CASE agent # Idle
      <3>1. agent.prior \in Files /\ agent.retained \in Releases \cup {NoRelease}
        BY <2>2, Busy
      <3> QED
        BY <3>1 DEF Files
    <2> QED
      BY <2>1, <2>2
  <1> QED
    BY <1>1, <1>2 DEF Known, Releases

\* How the executor gets where its hands matter to the registry.
LEMMA ExecAt ==
    ASSUME DepInv, [Next]_vars, exec'.at \in {"validate", "script", "completing"}, exec' # exec
    PROVE  /\ exec.at # "idle" /\ exec'.job = exec.job /\ exec.job \in Deployments
           /\ \/ exec'.at = "validate" /\ Prepare
              \/ exec'.at = "script" /\ StartScript
              \/ /\ exec'.at = "completing" /\ exec.at = "script"
                 /\ script[exec.job] = "switched" /\ script' = script
  <1>1. TypeOK
    BY DEF DepInv
  <1>2. CASE Begin
    BY <1>2 DEF Begin
  <1>3. CASE ReportComplete \/ CompleteLost \/ ReportFailed \/ ExecutorCrash \/ PrepareFails
             \/ ScriptProgress \/ ProgressLost
    <2>1. \/ exec' = exec
          \/ exec' = Resting
          \/ exec' = [exec EXCEPT !.at = "failing"]
      BY <1>3
         DEF ReportComplete, CompleteLost, ReportFailed, ExecutorCrash, PrepareFails,
             ScriptProgress, ProgressLost, Dead
    <2>2. exec # Resting
      BY <1>1, <1>3, Busy
         DEF ReportComplete, CompleteLost, ReportFailed, ExecutorCrash, PrepareFails,
             ScriptProgress, ProgressLost
    <2>3. exec' = [exec EXCEPT !.at = "failing"] => exec'.at = "failing"
      BY <1>1, <2>2, Busy
    <2> QED
      BY <2>1, <2>3 DEF Resting
  <1>4. CASE Prepare
    BY <1>1, <1>4, Busy DEF Prepare
  <1>5. CASE StartScript
    BY <1>1, <1>5, Busy DEF StartScript
  <1>6. CASE ScriptExits
    BY <1>1, <1>6, Busy DEF ScriptExits
  <1> QED
    BY <1>2, <1>3, <1>4, <1>5, <1>6, Frame DEF Framed

LEMMA KnownStep ==
    ASSUME DepInv, [Next]_vars
    PROVE  KnownIsLive'
  <1>1. TypeOK /\ ByHand /\ KnownIsLive /\ Held
    BY DEF DepInv
  <1>2. ASSUME NEW d \in Deployments, script[d] = "switched",
               d \in Known \/ (exec.at = "completing" /\ d = exec.job)
        PROVE  script'[d] = "switched"
    <2>1. ~ (StartScript /\ d = exec.job)
      BY <1>1, <1>2 DEF StartScript, KnownIsLive
    <2>2. ~ (ScriptExits /\ d = exec.job)
      BY <1>1, <1>2 DEF ScriptExits, KnownIsLive
    <2> QED
      BY <1>2, <2>1, <2>2, ScriptNext
  <1>3. ASSUME NEW r \in Known'
        PROVE  r \in {0, NoRelease} \/ script'[r] = "switched"
    <2>1. CASE r \in Known
      BY <1>1, <1>2, <2>1, KnownType DEF KnownIsLive
    <2>2. CASE exec.at = "completing" /\ r = exec.job
      BY <1>1, <1>2, <2>2, ExecHeld DEF KnownIsLive
    <2>3. CASE r \in Deployments /\ ReconcileManualRelease(r)
      BY <1>1, <2>3 DEF ReconcileManualRelease, TypeOK
    <2> QED
      BY <2>1, <2>2, <2>3, KnownNext DEF Reveals
  \* A manual release is none that the executor holds before its script ends.
  <1>4. ASSUME exec.at # "idle", ReconcileManualRelease(exec.job)
        PROVE  exec.job \in Known /\ script[exec.job] = "switched"
    <2>1. exec.job \in Deployments /\ row[exec.job].status # "absent"
      BY <1>4, ExecHeld DEF Untouched
    <2>2. row[exec.job].status = "passed" /\ script[exec.job] = "switched"
      BY <1>4, <2>1 DEF ReconcileManualRelease, Insert
    <2> QED
      BY <2>1, <2>2 DEF Known
  <1>5. ASSUME Prepare
        PROVE  exec.job \in Deployments /\ script[exec.job] = "none" /\ exec.job \notin Known
    <2>1. exec.job \in Deployments /\ exec.job \notin checkouts
      BY <1>5, ExecHeld DEF Prepare
    <2>2. script[exec.job] = "none"
      BY <1>1, <2>1 DEF ByHand
    <2>3. exec.job \notin {0, NoRelease}
      BY <2>1, DeploymentsAssumption DEF NoRelease
    <2> QED
      BY <1>1, <2>1, <2>2, <2>3 DEF KnownIsLive
  <1>6. ASSUME exec'.at = "completing"
        PROVE  script'[exec'.job] = "switched"
    <2>1. CASE exec' = exec
      BY <1>1, <1>2, <1>6, <2>1, ExecHeld DEF KnownIsLive
    <2>2. CASE exec' # exec
      BY <1>6, <2>2, ExecAt
    <2> QED
      BY <2>1, <2>2
  <1>7. ASSUME exec'.at = "validate"
        PROVE  script'[exec'.job] = "none"
    <2>1. CASE exec' = exec
      <3>1. exec.job \in Deployments /\ script[exec.job] = "none"
        BY <1>1, <1>7, <2>1, ExecHeld DEF KnownIsLive
      <3>2. ~ StartScript
        BY <1>1, <1>7, <2>1, Busy DEF StartScript
      <3>3. ~ ScriptExits
        BY <1>7, <2>1 DEF ScriptExits
      <3>4. ~ ReconcileManualRelease(exec.job)
        BY <1>4, <1>7, <2>1, <3>1
      <3> QED
        BY <2>1, <3>1, <3>2, <3>3, <3>4, ScriptNext
    <2>2. CASE Prepare /\ exec'.job = exec.job
      <3>1. script' = script
        BY <2>2 DEF Prepare, executorVars
      <3> QED
        BY <1>5, <2>2, <3>1
    <2> QED
      BY <1>7, <2>1, <2>2, ExecAt
  <1>8. ASSUME exec'.at \in {"validate", "script"}
        PROVE  exec'.job \in checkouts' /\ exec'.job \notin Known'
    <2>1. /\ exec'.job = exec.job /\ exec.job \in Deployments
          /\ exec.at # "idle" /\ exec.at # "completing"
          /\ exec.job \notin Known
          /\ exec.job \in checkouts'
      <3>1. CASE exec' = exec
        <4>1. exec.job \in checkouts /\ exec.job \notin Known
          BY <1>1, <1>8, <3>1 DEF KnownIsLive
        <4>2. checkouts \subseteq checkouts'
          BY Frame DEF Framed, Prepare, PrepareFails
        <4> QED
          BY <1>8, <3>1, <4>1, <4>2, ExecHeld
      <3>2. CASE Prepare /\ exec'.job = exec.job
        BY <1>5, <3>2 DEF Prepare
      <3>3. CASE StartScript /\ exec'.job = exec.job
        <4>1. exec.at = "validate" /\ checkouts' = checkouts
          BY <3>3 DEF StartScript
        <4> QED
          BY <1>1, <3>3, <4>1, ExecHeld DEF KnownIsLive
      <3> QED
        BY <1>8, <3>1, <3>2, <3>3, ExecAt
    <2>2. ~ Reveals(exec.job)
      <3>1. exec.job \notin {0, NoRelease}
        BY <2>1, DeploymentsAssumption DEF NoRelease
      <3> QED
        BY <1>4, <2>1, <3>1 DEF Reveals
    <2> QED
      BY <2>1, <2>2, KnownNext
  <1> QED
    BY <1>3, <1>6, <1>7, <1>8 DEF KnownIsLive

-----------------------------------------------------------------------------
(* The theorems.                                                           *)

LEMMA DepInvInit ==
    ASSUME Init
    PROVE  DepInv
  <1>1. TypeOK
    <2>1. row \in [Deployments -> Rows]
      <3> DEFINE r == [status |-> "absent", step |-> "none", revision |-> 0, marked |-> FALSE,
                       scope |-> "fullstack", commit |-> 0, before |-> NoRelease,
                       cancelled |-> FALSE, followers |-> {}]
      <3>1. r \in Rows
        BY DeploymentsAssumption DEF Rows, Statuses
      <3>2. row = [d \in Deployments |-> r]
        BY DEF Init
      <3> HIDE DEF r
      <3> QED
        BY <3>1, <3>2
    <2>2. file \in Files
      BY DEF Init, Files, Releases
    <2>3. /\ main \in Commits
          /\ ticket \in Releases \cup {NoRelease, NoTicket}
          /\ checkouts \in SUBSET Deployments
          /\ stranded \in SUBSET Deployments
          /\ faults \in 0 .. MaxFaults
      BY DeploymentsAssumption DEF Init
    <2>4. todo \in Seq([job : Deployments, cancel : BOOLEAN])
      BY DEF Init
    <2>5. script \in [Deployments -> {"none", "running", "switched", "over"}]
      BY DEF Init
    <2>6. plan \in Plans /\ closing \in Closings /\ agent \in Agents /\ exec \in Executions
      BY IdleTypes DEF Init
    <2> QED
      BY <2>1, <2>2, <2>3, <2>4, <2>5, <2>6 DEF TypeOK
  <1>2. \A d \in Deployments :
           /\ row[d].status = "absent" /\ ~ row[d].marked
           /\ script[d] = "none"
    BY DEF Init
  <1>3. NotBegun
    BY <1>2 DEF Init, NotBegun
  <1>4. Held
    BY DEF Init, Held, Resting, Idle, NotClosing
  <1>5. ByHand
    BY <1>2 DEF ByHand
  <1>6. KnownIsLive
    <2>1. Known \subseteq {0, NoRelease}
      BY <1>2 DEF Init, Known, Idle, Torn, NotClosing, NoDeployment
    <2>2. exec.at = "idle"
      BY DEF Init, Resting
    <2> QED
      BY <2>1, <2>2 DEF KnownIsLive
  <1> QED
    BY <1>1, <1>3, <1>4, <1>5, <1>6 DEF DepInv

LEMMA DepInvStep ==
    ASSUME DepInv, [Next]_vars
    PROVE  DepInv'
  BY TypeStep, NotBegunStep, HeldStep, ByHandStep, KnownStep DEF DepInv

\* The inductive invariant holds in every state of deployment_service.py, the
\* queue consumer and the executor.
THEOREM DepInvHolds == Spec => []DepInv
  <1>1. Init => DepInv
    BY DepInvInit
  <1>2. DepInv /\ [Next]_vars => DepInv'
    BY DepInvStep
  <1> QED
    BY <1>1, <1>2, PTL DEF Spec

\* Rows, files, lists and positions stay well typed, whatever interleaves.
THEOREM DeploymentsTyped == Spec => []TypeOK
  <1>1. DepInv => TypeOK
    BY DEF DepInv
  <1> QED
    BY <1>1, DepInvHolds, PTL

\* A cancelled deployment never had a checkout: acknowledge_cancelled_deployment
\* accepts a cancel only where no execution began, for any number of deployments.
THEOREM CancelledRowsNeverRan == Spec => []CancelledNeverRan
  <1>1. DepInv => CancelledNeverRan
    BY DEF DepInv, NotBegun, CancelledNeverRan, Untouched
  <1> QED
    BY <1>1, DepInvHolds, PTL

\* The registry of the status file, which write_status and
\* _persist_release_snapshot both write, names live releases only.
THEOREM RegistryNamesLive == Spec => []RegistryOnlyVerified
  <1>1. ASSUME DepInv
        PROVE  RegistryOnlyVerified
    <2>1. TypeOK /\ KnownIsLive
      BY <1>1 DEF DepInv
    <2>2. file.releases \cup {file.current} \subseteq Known
      BY DEF Known
    <2>3. Known \subseteq Deployments \cup {0, NoRelease}
      BY <2>1, KnownType
    <2> QED
      BY <2>1, <2>2, <2>3 DEF KnownIsLive, RegistryOnlyVerified
  <1> QED
    BY <1>1, DepInvHolds, PTL

\* A cancelled deployment is never taken up again, by the agent that read it as
\* queued or by the executor that has it on its list.
THEOREM CancelledRowsStay == Spec => CancelledIsFinal
  <1>1. ASSUME DepInv, [Next]_vars, NEW d \in Deployments, row[d].status = "cancelled"
        PROVE  row'[d].status = "cancelled"
    <2>1. StatusChange(d)
      BY <1>1, RowStep DEF RowChange
    <2>2. ~ Delegated(d)
      BY <1>1 DEF DepInv, Held, Untouched, Delegated, Delegate
    <2>3. ~ Unregistered(d)
      BY <1>1, Busy DEF DepInv, Held, Untouched, Unregistered
    <2> QED
      BY <1>1, <2>1, <2>2, <2>3
         DEF StatusChange, Inserted, Cancelled, Claimed, Reported, Acknowledged
  <1>2. DepInv /\ [Next]_vars
          => [\A d \in Deployments :
                 row[d].status = "cancelled" => row'[d].status = "cancelled"]_vars
    BY <1>1
  <1> QED
    BY <1>2, DepInvHolds, PTL DEF Spec, CancelledIsFinal

\* But for the agent's delegation, no callback, tool or fault takes back a cancel
\* or an outcome (_deployment_callback_update), a pass included, except that of
\* a manual release in the step in which its registration fails.
THEOREM OutcomesKept == Spec => CallbacksKeepOutcome
  <1> DEFINE Kept(d) ==
               /\ row[d].status \in {"failed", "cancelled"} => row'[d].status = row[d].status
               /\ row[d].status = "passed" =>
                      \/ row'[d].status = "passed"
                      \/ /\ closing = [job |-> d, next |-> "persist_manual"]
                         /\ closing' = NotClosing
                         /\ row'[d].status = "failed"
               /\ row[d].status = "cancel_requested" =>
                      row'[d].status \in {"cancel_requested"} \cup Terminal
  <1>1. ASSUME DepInv, [Next]_vars, agent' = agent, NEW d \in Deployments
        PROVE  Kept(d)
    <2>1. StatusChange(d)
      BY <1>1, RowStep DEF RowChange
    <2>2. ~ Delegated(d)
      BY <1>1, DelegateMoves DEF DepInv, Delegated
    <2>3. Unregistered(d) => row[d].status # "cancelled"
      BY <1>1, Busy DEF DepInv, Held, Untouched, Unregistered
    <2>4. Unregistered(d) => /\ closing = [job |-> d, next |-> "persist_manual"]
                             /\ closing' = NotClosing
                             /\ row'[d].status = "failed"
      BY <1>1, Busy DEF DepInv, Unregistered
    <2> QED
      BY <2>1, <2>2, <2>3, <2>4
         DEF StatusChange, Inserted, Cancelled, Claimed, Reported, Acknowledged, Terminal
  <1>2. DepInv /\ [Next]_vars => [agent' = agent => \A d \in Deployments : Kept(d)]_vars
    BY <1>1
  <1> QED
    BY <1>2, DepInvHolds, PTL DEF Spec, CallbacksKeepOutcome

\* The script of a deployment starts at most once, although the agent may
\* delegate a row again that the executor has begun.
THEOREM ScriptsStartOnce == Spec => ScriptStartsOnce
  <1>1. ASSUME DepInv, [Next]_vars, NEW d \in Deployments, script[d] # "none"
        PROVE  script'[d] # "running" \/ script[d] = "running"
    <2>1. ~ (StartScript /\ d = exec.job)
      BY <1>1 DEF DepInv, KnownIsLive, StartScript
    <2> QED
      BY <1>1, <2>1, ScriptNext
  <1>2. DepInv /\ [Next]_vars
          => [\A d \in Deployments :
                 script[d] # "none" => script'[d] # "running" \/ script[d] = "running"]_vars
    BY <1>1
  <1> QED
    BY <1>2, DepInvHolds, PTL DEF Spec, ScriptStartsOnce
=============================================================================
