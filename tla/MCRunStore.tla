---------------------------- MODULE MCRunStore -----------------------------
(* An instance of RunStore for TLC. *)
EXTENDS RunStore
=============================================================================
