--------------------------- MODULE MCAgentService ---------------------------
(* An instance of AgentService for TLC: two branches are requested off two  *)
(* bases, and scheduled analyses read one of the bases.                     *)
EXTENDS AgentService, TLC

CONSTANTS fix, feat, main, release

MCBaseOf == [q \in {fix, feat} |-> IF q = fix THEN main ELSE release]

Alike == Permutations(Defects) \cup Permutations(Rounds) \cup Permutations(Runs)
=============================================================================
