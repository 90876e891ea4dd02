--------------------------- MODULE MCRequirement ---------------------------
(* Instances of Requirement for TLC. *)
EXTENDS Requirement, TLC

\* Contents are compared with each other only.
Interchangeable == Permutations(Diffs) \cup Permutations(Needs)

\* Commands that are never interrupted, worktrees that nobody else edits.
EveryStep == Steps
=============================================================================
