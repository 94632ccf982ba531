---------------------------- MODULE MCReviewQueue ----------------------------
(* Instances of ReviewQueue for TLC.                                        *)
EXTENDS ReviewQueue
=============================================================================
