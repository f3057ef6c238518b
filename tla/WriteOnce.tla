----------------------------- MODULE WriteOnce -----------------------------
(***************************************************************************)
(* What a write through MyGitHub promises, whatever is retried, lost or    *)
(* interrupted on the way: its commit goes to the branch at most once, the *)
(* workspace takes the commit only then and at most once, the session      *)
(* joins the workspace afterwards, and a caller is told of success only    *)
(* when all of this is behind.                                             *)
(***************************************************************************)
EXTENDS Naturals

CONSTANTS
    Writes,
    Joining(_)      \* writes whose success also speaks of the session

VARIABLES
    commits,        \* commits made for each write
    taken,          \* writes that the workspace row took
    joined,         \* writes that the session row took
    told            \* writes reported as a success

vars == <<commits, taken, joined, told>>

Init == /\ commits = [r \in Writes |-> 0]
        /\ taken = {}
        /\ joined = {}
        /\ told = {}

Push(r) == /\ commits[r] = 0
           /\ commits' = [commits EXCEPT ![r] = 1]
           /\ UNCHANGED <<taken, joined, told>>

Take(r) == /\ commits[r] = 1
           /\ r \notin taken
           /\ taken' = taken \cup {r}
           /\ UNCHANGED <<commits, joined, told>>

Join(r) == /\ r \in taken
           /\ joined' = joined \cup {r}
           /\ UNCHANGED <<commits, taken, told>>

Tell(r) == /\ r \in taken
           /\ Joining(r) => r \in joined
           /\ told' = told \cup {r}
           /\ UNCHANGED <<commits, taken, joined>>

Next == \E r \in Writes : Push(r) \/ Take(r) \/ Join(r) \/ Tell(r)

Spec == Init /\ [][Next]_vars
=============================================================================
