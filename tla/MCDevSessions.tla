--------------------------- MODULE MCDevSessions ---------------------------
(***************************************************************************)
(* One task, in two instances: one where two writes are under way at the   *)
(* same time while the branch and its base move, and one where nobody else *)
(* writes and the task lives long enough to be validated and merged.       *)
(***************************************************************************)
EXTENDS DevSessions, TLC

\* main advances from b0 to b1, stack is a branch the task can be retargeted
\* to.  w1 is the task's commit, m2 merges the advanced base into it, x1 is
\* what the branch is rewritten to.
CONSTANTS c1, c2, b0, b1, w1, m2, x1, main, stack, none

Pair_Clients == {c1, c2}
Pair_Calls == {"write"}
Pair_Branches == {main, stack}
Pair_Trunk == {b0, b1}
Pair_FirstBase == main :> b0 @@ stack :> b1
Pair_Commits == {b0, b1, w1, m2, x1}
Pair_Child == {<<b0, b1>>, <<b0, w1>>, <<w1, m2>>, <<b1, m2>>, <<b0, x1>>}
Pair_Before == Pair_Child \cup {<<b0, m2>>}

\* A task on a base that stays, with one commit.
Merge_Clients == {c1}
Merge_Calls == {"close", "write", "validate", "merge", "closing"}
Merge_Branches == {main}
Merge_Trunk == {b0}
Merge_FirstBase == main :> b0
Merge_Commits == {b0, w1}
Merge_Child == {<<b0, w1>>}

Symmetric == Permutations(Pair_Clients)
=============================================================================
