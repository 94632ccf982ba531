----------------------------- MODULE MCWebhooks -----------------------------
(* Instances of Webhooks for TLC: two tasks of two projects that track the  *)
(* repository of PR p; the repository of PR f is nobody's.                  *)
EXTENDS Webhooks

CONSTANTS k1, k2, a, b, t1, t2, w1, w2, m, n, p, f

TwoProjects == [x \in Tasks \cup Worktrees |-> IF x \in {t2, n} THEN b ELSE a]
BothTrack == (p :> {a, b}) @@ (f :> {})
OwnOne == (t1 :> w1) @@ (t2 :> Nobody)
SameBranch == [w \in Worktrees |-> IF w \in {m, n} THEN Nobody ELSE p]

Begun == {h \in Handlers : step[h] # "none"}

\* Two handlers meet each other and, where no inbox is configured, one request. More
\* handlers are there for pushes of one PR that are handled in turn, of which one may come
\* again, late, or after its process has forgotten it.
PairsAndTurns ==
    /\ envSet => moves = 0
    /\ Cardinality(Begun) <= 2 => sent[MaxDeliveries] = Nobody
    /\ Cardinality(Begun) > 2 =>
        /\ moves = 0 /\ ~envSet
        /\ \A h \in Begun : worker[h] # Nobody /\ Pr(h) = p /\ TypeOf(h) \in HeadTypes
        /\ \A h \in Begun : Busy(h) => h = Cardinality(Begun)

Symmetry == Permutations(Workers)
=============================================================================
