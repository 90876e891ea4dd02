---------------------------- MODULE MCSchedules ----------------------------
(* Instances of Schedules for TLC. *)
EXTENDS Schedules, TLC

\* Plans and defects are interchangeable in every safety property.
Interchangeable == Permutations(Plans) \cup Permutations(Defects)
=============================================================================
