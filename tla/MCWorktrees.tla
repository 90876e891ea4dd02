------------------------------ MODULE MCWorktrees ------------------------------
(* Instances of Worktrees for TLC.                                          *)
EXTENDS Worktrees, TLC

CONSTANTS alone, group

\* One run of one repository and one run of two, which share a mirror.
MCKeys == (alone :> <<"app">>) @@ (group :> <<"lib", "app">>)
================================================================================
