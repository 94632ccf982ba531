--------------------------- MODULE MCDependencies ---------------------------
(* Instances of Dependencies for TLC.                                       *)
EXTENDS Dependencies

CONSTANTS n1, n2, n3, n4

OneProject == [n \in Nodes |-> "p"]
TwoProjects == [n \in Nodes |-> IF n = n1 THEN "p" ELSE "q"]
=============================================================================
