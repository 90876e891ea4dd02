----------------------------- MODULE MCPublisher -----------------------------
(* Publisher for TLC: a terminal UI and a command line work on one run.      *)
EXTENDS Publisher

CONSTANTS tui, cli
=============================================================================
