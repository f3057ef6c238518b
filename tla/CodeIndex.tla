------------------------------ MODULE CodeIndex ------------------------------
(***************************************************************************)
(* The repository index of mygithub12.py, for one repository: the ready    *)
(* snapshots by commit, the jobs that build them, the daemon threads that  *)
(* work for the jobs, and the retention each builder runs at its end.      *)
(*                                                                         *)
(* A job is asked for with a caller's key, which the callers make of their *)
(* own key and the commit: the job is that pair.  A thread is no part of   *)
(* the database: it dies with its process, and it knows nothing of what    *)
(* another process, or the startup of the next leader, wrote about its     *)
(* job in the meantime.                                                    *)
(***************************************************************************)
EXTENDS Naturals, FiniteSets

CONSTANTS
    Keys,           \* idempotency keys of the callers
    Commits,
    TreeOf,         \* the tree of each commit
    KeepLimit,      \* _index_retention_limit
    NoJob

ASSUME IndexAssumption ==
    /\ KeepLimit \in Nat \ {0}
    /\ NoJob \notin Keys \X Commits

Jobs == Keys \X Commits

VARIABLES
    ready,          \* commits with a row of indexes; its status is "ready"
    job,            \* jobs.status
    cancel,         \* jobs.cancel_requested
    thread,         \* where the thread of a job is
    found           \* the commits it read: the one whose index it copies,
                    \* later those its retention has still to delete

indexVars == <<ready, job, cancel, thread, found>>

IndexTypeOK ==
    /\ ready \subseteq Commits
    /\ job \in [Jobs -> {"none", "queued", "running", "completed", "failed",
                         "cancelled"}]
    /\ cancel \subseteq Jobs
    /\ thread \in [Jobs -> {"none", "start", "build", "copy", "built", "prune"}]
    /\ found \in [Jobs -> SUBSET Commits]

\* Some of the commits that are there may have an index.
IndexInit(old) ==
    /\ ready \in SUBSET old
    /\ job = [j \in Jobs |-> "none"]
    /\ cancel = {}
    /\ thread = [j \in Jobs |-> "none"]
    /\ found = [j \in Jobs |-> {}]

CommitOf(j) == j[2]
Active(h) == {j \in Jobs : CommitOf(j) = h /\ job[j] \in {"queued", "running"}}

SetJob(j, status) == job' = [job EXCEPT ![j] = status]
SetThread(j, at) == thread' = [thread EXCEPT ![j] = at]

-----------------------------------------------------------------------------
(* Asking for an index.                                                    *)

\* The job a request is answered with; NoJob when the index is there.  The
\* job of the same key answers whatever became of it.
AnsweredBy(k, h) ==
    IF h \in ready THEN NoJob
    ELSE IF job[<<k, h>>] # "none" \/ Active(h) = {} THEN <<k, h>>
    ELSE CHOOSE j \in Active(h) : TRUE

RequestIndexBuild(k, h) ==
    LET j == AnsweredBy(k, h)
    IN IF j # NoJob /\ job[j] = "none"
         THEN /\ SetJob(j, "queued")
              /\ SetThread(j, "start")
              /\ UNCHANGED <<ready, cancel, found>>
         ELSE UNCHANGED indexVars

CancelIndexJob(j) ==
    /\ job[j] \in {"queued", "running"}
    /\ cancel' = cancel \cup {j}
    /\ UNCHANGED <<ready, job, thread, found>>

-----------------------------------------------------------------------------
(* A builder thread.                                                       *)

\* The first update asks nothing of the status it replaces; the unique index
\* over the active jobs of a commit refuses a second one.
StartBuild(j) ==
    /\ thread[j] = "start"
    /\ IF Active(CommitOf(j)) \subseteq {j}
         THEN SetJob(j, "running") /\ SetThread(j, "build")
         ELSE SetJob(j, "failed") /\ SetThread(j, "none")
    /\ UNCHANGED <<ready, cancel, found>>

\* At any of the polls between the stages and the files of a build.
StopCancelled(j) ==
    /\ thread[j] \in {"build", "copy"} /\ j \in cancel
    /\ SetJob(j, "cancelled") /\ SetThread(j, "none")
    /\ found' = [found EXCEPT ![j] = {}]
    /\ UNCHANGED <<ready, cancel>>

\* A ready index of another commit with the same tree is looked for first.
FindTree(j) ==
    /\ thread[j] = "build"
    /\ \E h \in ready \ {CommitOf(j)} :
         /\ TreeOf[h] = TreeOf[CommitOf(j)]
         /\ found' = [found EXCEPT ![j] = {h}]
    /\ SetThread(j, "copy")
    /\ UNCHANGED <<ready, job, cancel>>

\* The copy is one transaction, too; retention may have deleted its source.
CompleteTreeReuse(j) ==
    /\ thread[j] = "copy"
    /\ IF found[j] \subseteq ready
         THEN /\ ready' = ready \cup {CommitOf(j)}
              /\ SetJob(j, "completed") /\ SetThread(j, "built")
         ELSE /\ SetJob(j, "failed") /\ SetThread(j, "none")
              /\ UNCHANGED ready
    /\ found' = [found EXCEPT ![j] = {}]
    /\ UNCHANGED cancel

\* One transaction writes the files, the index and the job, after the last
\* poll and whatever the job has become.
FinishBuild(j) ==
    /\ thread[j] = "build"
    /\ ready' = ready \cup {CommitOf(j)}
    /\ SetJob(j, "completed") /\ SetThread(j, "built")
    /\ UNCHANGED <<cancel, found>>

\* A quota, GitHub, or the database.
FailBuild(j) ==
    /\ thread[j] \in {"build", "copy"}
    /\ SetJob(j, "failed") /\ SetThread(j, "none")
    /\ found' = [found EXCEPT ![j] = {}]
    /\ UNCHANGED <<ready, cancel>>

Build(j) ==
    \/ StartBuild(j) \/ StopCancelled(j) \/ FinishBuild(j)
    \/ FindTree(j) \/ CompleteTreeReuse(j)

-----------------------------------------------------------------------------
(* Retention.  pins are the commits that live workspaces hold (the index   *)
(* they work with, their bases and their heads) or that active jobs have   *)
(* for a base.                                                             *)

Protected(pins) == pins \cup {h \in Commits : Active(h) # {}}

\* Which indexes were used last is left open.
Recent == {s \in SUBSET ready :
              Cardinality(s) = IF Cardinality(ready) < KeepLimit
                                 THEN Cardinality(ready) ELSE KeepLimit}

Prunable(pins) == {ready \ (s \cup Protected(pins)) : s \in Recent}

PruneRead(j, pins) ==
    /\ thread[j] = "built"
    /\ \E old \in Prunable(pins) :
         /\ found' = [found EXCEPT ![j] = old]
         /\ SetThread(j, IF old = {} THEN "none" ELSE "prune")
    /\ UNCHANGED <<ready, job, cancel>>

\* Each commit in a transaction of its own, which looks again.
PruneOne(j, pins) ==
    /\ thread[j] = "prune"
    /\ \E h \in found[j] :
         /\ ready' = IF h \in Protected(pins) THEN ready ELSE ready \ {h}
         /\ found' = [found EXCEPT ![j] = @ \ {h}]
         /\ SetThread(j, IF found[j] = {h} THEN "none" ELSE "prune")
    /\ UNCHANGED <<job, cancel>>

Prune(j, pins) == PruneRead(j, pins) \/ PruneOne(j, pins)

-----------------------------------------------------------------------------
(* The process.                                                            *)

\* The daemon threads go with the process, their jobs stay as they are.
ThreadsDie ==
    /\ thread' = [j \in Jobs |-> "none"]
    /\ found' = [j \in Jobs |-> {}]
    /\ UNCHANGED <<ready, job, cancel>>

\* The startup of a leader; the process it takes over from may still run.
RecoverOrphanedIndexJobs ==
    /\ \E h \in Commits : Active(h) # {}
    /\ job' = [j \in Jobs |-> IF j \in Active(CommitOf(j)) THEN "failed" ELSE job[j]]
    /\ UNCHANGED <<ready, cancel, thread, found>>

==============================================================================
