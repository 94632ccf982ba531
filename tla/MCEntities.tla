----------------------------- MODULE MCEntities -----------------------------
EXTENDS Entities, TLC

\* One import, of an epic with a feature and two tasks.
Imports == {<<"epic", "feature", "task", "task">>}

Symmetry == Permutations(Reqs) \cup Permutations(Worktrees)
=============================================================================
