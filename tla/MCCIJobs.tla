------------------------------ MODULE MCCIJobs ------------------------------
(* A small instance of CIJobs: two workers, two repositories; the first two *)
(* submissions supersede each other, the third is another repository's.     *)
EXTENDS CIJobs, TLC

CONSTANTS w1, w2

MCWorkers == {w1, w2}
MCRepos == {"r1", "r2"}
MCProfiles == {"full"}
MCSubmissions == {
    [repo |-> "r1", branch |-> "b", profile |-> "full", priority |-> 0, key |-> "k1"],
    [repo |-> "r1", branch |-> "b", profile |-> "full", priority |-> 0, key |-> "k2"],
    [repo |-> "r2", branch |-> "b", profile |-> "full", priority |-> 1, key |-> "k3"]}
MCSupports == [w \in MCWorkers |-> MCProfiles]
MCCapacity == [w \in MCWorkers |-> 1]
MCSymmetry == Permutations(MCWorkers)
=============================================================================
