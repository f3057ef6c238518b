---------------------------- MODULE MCCIRequests ----------------------------
(* A small instance of CIRequests: two Requests for two commits of one      *)
(* branch, the later of which supersedes the queued job of the other, and a *)
(* job of that branch that no Request asked for.                            *)
EXTENDS CIRequests, TLC

CONSTANTS w1, q1, q2

MCWorkers == {w1}
MCRequests == {q1, q2}
MCRepos == {"r1"}
MCProfiles == {"auto"}
MCRequestSub == [q \in MCRequests |->
    [repo |-> "r1", branch |-> "b", profile |-> "auto", priority |-> 0, key |-> q]]
MCDirect == [repo |-> "r1", branch |-> "b", profile |-> "auto", priority |-> 0, key |-> "k"]
MCSubmissions == {MCDirect} \cup {MCRequestSub[q] : q \in MCRequests}
MCSupersedes == [q \in MCRequests |-> TRUE]
MCSupports == [w \in MCWorkers |-> MCProfiles]
MCCapacity == [w \in MCWorkers |-> 1]
MCSymmetry == Permutations(MCRequests)
=============================================================================
