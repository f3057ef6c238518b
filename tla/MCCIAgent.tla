------------------------------ MODULE MCCIAgent ------------------------------
(* A small instance of CIAgent: one worker, and one submission per job.     *)
EXTENDS CIAgent, TLC

CONSTANTS w1

MCWorkers == {w1}
MCRepos == {"r1"}
MCProfiles == {"full"}
MCSubmissions == {
    [repo |-> "r1", branch |-> "b", profile |-> "full", priority |-> 0, key |-> "k1"]}
MCSupports == [w \in MCWorkers |-> MCProfiles]
MCCapacity == [w \in MCWorkers |-> 1]
=============================================================================
