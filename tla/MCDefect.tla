------------------------------ MODULE MCDefect ------------------------------
(* Instances of Defect for TLC. *)
EXTENDS Defect, TLC

\* Agent calls last for minutes: there a command is interrupted, or fails; or
\* between two saves that belong together.
OnlyAtWork == Steps \ {"analysed", "reproducing", "repairing", "implemented", "changed"}
OnlyAgents == Steps \ {"reproducing", "repairing"}

\* Somebody edits the worktree between two commands.
OnlyIdle == Steps \ {"idle"}
=============================================================================
