-------------------------- MODULE MCReviewCheckout --------------------------
(* Instances of ReviewCheckout for TLC.                                     *)
EXTENDS ReviewCheckout, TLC

CONSTANTS k1, k2, s1, s2

\* A repository that is the host's own and one that is not, under every registry, for a
\* PR with and without worktrees; the degraded path as well. Another repository's entry and
\* an invalid one differ in nothing once there is a worktree.
Deployments ==
    {c \in [registry : {"empty", "other", "valid", "invalid"}, foreign : BOOLEAN,
            rows : {{}, {"branch"}, {"owner", "branch"}}, factory : BOOLEAN] :
        /\ c.factory \/ c.rows = {}
        /\ c.registry = "invalid" => c.rows = {}}

OneServer == {[registry |-> "empty", foreign |-> FALSE, rows |-> {"branch"}, factory |-> TRUE]}

Symmetry == Permutations(Processes) \cup Permutations(Shas)
=============================================================================
