------------------------------ MODULE JobLease ------------------------------
(***************************************************************************)
(* What the CI job store promises about every job, without queues,         *)
(* workers' rows, time or counters: a job is offered once, is held by at   *)
(* most one worker at a time under an epoch that grows with every hold,    *)
(* goes from one holder to the next only through the queue, and is closed  *)
(* once, either by the epoch that holds it or by nobody.                   *)
(***************************************************************************)
EXTENDS Naturals

CONSTANTS Jobs, Workers, NoWorker

VARIABLES
    phase,      \* none, open (in the queue), held, closed
    holder,     \* who holds a held job
    epoch,      \* how often the job was held
    decidedBy   \* the epoch whose report closed the job, 0 if none did

vars == <<phase, holder, epoch, decidedBy>>

Init ==
    /\ phase = [j \in Jobs |-> "none"]
    /\ holder = [j \in Jobs |-> NoWorker]
    /\ epoch = [j \in Jobs |-> 0]
    /\ decidedBy = [j \in Jobs |-> 0]

\* The four columns of job j after a step.
Becomes(j, p, h, e, d) ==
    /\ phase'[j] = p
    /\ holder'[j] = h
    /\ epoch'[j] = e
    /\ decidedBy'[j] = d

Stay(j) == Becomes(j, phase[j], holder[j], epoch[j], decidedBy[j])

Offer(j) == /\ phase[j] = "none"
            /\ Becomes(j, "open", NoWorker, 0, 0)

Acquire(j, w) == /\ phase[j] = "open"
                 /\ Becomes(j, "held", w, epoch[j] + 1, 0)

\* Released, or taken back after the holder was lost.
Reopen(j) == /\ phase[j] = "held"
             /\ Becomes(j, "open", NoWorker, epoch[j], 0)

\* The holder reports its result.
Report(j) == /\ phase[j] = "held"
             /\ Becomes(j, "closed", NoWorker, epoch[j], epoch[j])

\* Cancelled or superseded in the queue, or given up when the holder is lost.
Withdraw(j) == /\ phase[j] \in {"open", "held"}
               /\ Becomes(j, "closed", NoWorker, epoch[j], 0)

Step(j) ==
    \/ Offer(j)
    \/ \E w \in Workers : Acquire(j, w)
    \/ Reopen(j)
    \/ Report(j)
    \/ Withdraw(j)

\* One transaction may take back or supersede several jobs; it lets at most
\* one worker acquire at most one job.
Next ==
    /\ \A j \in Jobs : Stay(j) \/ Step(j)
    /\ \A j, k \in Jobs :
          (epoch'[j] # epoch[j] /\ epoch'[k] # epoch[k]) => j = k

Spec == Init /\ [][Next]_vars
=============================================================================
