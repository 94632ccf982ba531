------------------------------ MODULE MCRollup ------------------------------
(* Instances of Rollup for TLC.                                             *)
EXTENDS Rollup, TLC

CONSTANTS a, c, f1, f2

\* One task in each of two features.
TwoFeatures == (a :> f1) @@ (c :> f2)
\* Two tasks of one feature.
OneFeature == (a :> f1) @@ (c :> f1)

\* Requests are interchangeable, and so are the two features with their tasks.
Swap == (a :> c) @@ (c :> a) @@ (f1 :> f2) @@ (f2 :> f1)
Symmetry == Permutations(Requests) \cup {p @@ Swap : p \in Permutations(Requests)} \cup {Swap}
=============================================================================
