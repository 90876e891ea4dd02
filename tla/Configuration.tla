---------------------------- MODULE Configuration ----------------------------
(***************************************************************************)
(* The configuration of the program, entered in a wizard (Wizard) and kept *)
(* by the store and the controllers of several processes (Setup).  Both    *)
(* have the controller in common: Wizard has its draft and the results of  *)
(* its steps as the screen changes them, and leaves out how an activation  *)
(* goes; Setup has the activation and other processes, and takes any order *)
(* of calls of the controller, those of the screen among them.  They share *)
(* no state, so each is looked at while the other is at rest.              *)
(***************************************************************************)
EXTENDS Setup, Wizard

VARIABLE at              \* what goes on: the wizard or the activation

configurationVars == <<setupVars, wizardVars, at>>

NobodyEnters ==
    /\ OneStep /\ inputs = 0 /\ import = "gone" /\ \A s \in Pages : draft[s] = Empty(s)

ConfigurationInit ==
    /\ SetupInit /\ WizardInit
    /\ \/ at = "activation" /\ NobodyEnters
       \/ at = "wizard" /\ ~(OneStep /\ inputs = 0) /\ doc = Stable(NoGen)

AtWizard == at = "wizard" /\ WizardNext /\ UNCHANGED <<setupVars, at>>

AtActivation == at = "activation" /\ SetupNext /\ UNCHANGED <<wizardVars, at>>

ConfigurationNext == AtWizard \/ AtActivation

ConfigurationSpec == ConfigurationInit /\ [][ConfigurationNext]_configurationVars
=============================================================================
