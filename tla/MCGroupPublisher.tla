-------------------------- MODULE MCGroupPublisher --------------------------
(* GroupPublisher for TLC: a library and an application that depends on it. *)
EXTENDS GroupPublisher, TLC

CONSTANTS app, lib, tui, cli

MCRank == (lib :> 1) @@ (app :> 2)
=============================================================================
