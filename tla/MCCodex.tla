------------------------------ MODULE MCCodex -------------------------------
(* The instance of Codex, and so of RuntimeCache and Sandbox, for TLC. *)
EXTENDS Codex, TLC

CONSTANTS c1, c2

\* Preparations differ in nothing but their tokens.
Interchangeable == Permutations(Preparers)

\* Nobody; two calls beside each other; one call in which much goes wrong.
Calls == {[calls |-> {}, faults |-> 0, moves |-> 0],
          [calls |-> {c1, c2}, faults |-> 0, moves |-> 0],
          [calls |-> {c1}, faults |-> 2, moves |-> 2]}
=============================================================================
