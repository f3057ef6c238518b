---------------------------- MODULE MCCIDispatch ----------------------------
(* Small instances of CIDispatch: two Requests for two commits of one       *)
(* branch.                                                                  *)
EXTENDS CIDispatch, TLC

CONSTANTS w1, q1, q2

MCWorkers == {w1}
MCRepos == {"r1"}
MCProfiles == {"auto"}
MCSub(q) == [repo |-> "r1", branch |-> "b", profile |-> "auto", priority |-> 0, key |-> q]
MCRequestSub == [q \in Requests |-> MCSub(q)]
MCSubmissions == {MCSub(q) : q \in Requests}
MCSupersedes == [q \in Requests |-> TRUE]
MCSupports == [w \in Workers |-> MCProfiles]
MCCapacity == [w \in Workers |-> 1]
=============================================================================
