-------------------------------- MODULE Desk --------------------------------
(***************************************************************************)
(* A person at the terminal: at the dashboard (Terminal), at a workspace    *)
(* and its wizards (Offers), or at an editor (Editors), whose screens lie   *)
(* over the dashboard.  The three share no state but that closing a session *)
(* closes its controller, which Offers has as Shut; so what holds of each   *)
(* holds of all, and two of them are at rest while the third acts.          *)
(***************************************************************************)
EXTENDS Terminal, Offers, Editors

VARIABLE screen          \* the screen a person is at

deskVars == <<vars, offersVars, editorsVars, screen>>

NothingToSpend == [k \in Kinds |-> 0]
NothingToDo    == [d \in Doings |-> 0]
NothingToWrite == [edited |-> {}, mishaps |-> {}]

ASSUME DeskAssumption ==
    NothingToSpend \in Budgets /\ NothingToDo \in Spares /\ NothingToWrite \in Plays

NobodyEdits == play = {} /\ mishaps = {}
NobodyAsks  == spare = NothingToDo /\ ones = CHOOSE l \in Answers : TRUE

DeskInit ==
    /\ Init /\ OffersInit /\ EditorsInit
    /\ \/ screen = "dashboard" /\ NobodyAsks /\ NobodyEdits
       \/ screen = "workspace" /\ left = NothingToSpend /\ NobodyEdits
       \/ screen = "editor" /\ left = NothingToSpend /\ NobodyAsks

AtDashboard == screen = "dashboard" /\ Next /\ UNCHANGED <<offersVars, editorsVars, screen>>

AtWorkspace == screen = "workspace" /\ OffersNext /\ UNCHANGED <<vars, editorsVars, screen>>

AtEditor == screen = "editor" /\ EditorsNext /\ UNCHANGED <<vars, offersVars, screen>>

DeskNext == AtDashboard \/ AtWorkspace \/ AtEditor

DeskSpec == DeskInit /\ [][DeskNext]_deskVars /\ Fairness
=============================================================================
