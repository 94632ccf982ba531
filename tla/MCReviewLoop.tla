---------------------------- MODULE MCReviewLoop ----------------------------
(* Instances of ReviewLoop for TLC.                                         *)
EXTENDS ReviewLoop

\* With more than one turn, deliveries are for one commit only.
Reviewed == {h \in Heads : \/ \E t \in Turns : Exists(<<h, t>>)
                           \/ \E w \in Workers : row[w] # NoRow /\ Head(w) = h}
OneCommitIfManyTurns == codexMaxTurns > 1 => Cardinality(Reviewed) <= 1
=============================================================================
