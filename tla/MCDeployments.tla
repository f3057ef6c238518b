--------------------------- MODULE MCDeployments ---------------------------
(* Small instances of Deployments: two deployments, or one that came about *)
(* in any way.                                                             *)
EXTENDS Deployments

MCDeploymentIds == 1 .. 2
MCCommits == 0 .. 1
MCQueuedWays ==
    [d \in MCDeploymentIds |-> IF d = 1 THEN {"start"} ELSE {"start", "rollback"}]
MCAnyWay == [d \in {1} |-> {"start", "rollback", "manual"}]
=============================================================================
