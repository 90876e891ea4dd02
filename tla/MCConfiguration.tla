--------------------------- MODULE MCConfiguration ---------------------------
(* The instance of Configuration, and so of Setup and Wizard, for TLC: two  *)
(* processes with two steps that each have a credential.                    *)
EXTENDS Configuration

CONSTANTS v1, bad

MCStepOrder == <<"ones", "provider">>

\* Nobody; the wizard the program installs; the steps of a workflow with its
\* folders; the single step that is tested and saved at once.
MCWizards ==
    {[steps |-> <<"ones">>, values |-> {v1}, inputs |-> 0],
     [steps |-> <<"ones", "provider">>, values |-> {v1, bad}, inputs |-> 1],
     [steps |-> <<"profile", "repositories">>, values |-> {v1}, inputs |-> 0],
     [steps |-> <<"ones">>, values |-> {v1, bad}, inputs |-> 2]}
=============================================================================
