--------------------------- MODULE MCAgentSession ---------------------------
(* Small instances of AgentSession for TLC. Registrations and sweepers are  *)
(* interchangeable, so runs that check no liveness use them as a symmetry.  *)
EXTENDS AgentSession, TLC

Symmetry == Permutations(Regs) \cup Permutations(Sweepers)
=============================================================================
