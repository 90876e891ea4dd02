------------------------------ MODULE Editors ------------------------------
(***************************************************************************)
(* What people write down: tasks of the board and plans of the schedule,   *)
(* rows of two databases with a version each; and verification nodes,      *)
(* names and workspaces, sections of one configuration of which every      *)
(* terminal keeps a copy in memory.  An editor shows what its list showed, *)
(* and saves in a thread; plans are also written by the rounds that run    *)
(* them.  What is written is the number of the save, and for the           *)
(* workspaces the numbers of all saves that made one.                      *)
(***************************************************************************)
EXTENDS Naturals, FiniteSets

CONSTANTS Apps,        \* terminals
          MaxSaves,    \* bound: saves
          Plays        \* bounds: what is edited, and what may go wrong, once each

Rows     == {"task", "plan"}
Sections == {"nodes", "names", "groups"}
Texts    == Rows \cup Sections
Faults   == {"failed", "halfway", "options"}

ASSUME EditorsAssumption == MaxSaves \in Nat /\ Plays \subseteq [edited : SUBSET Texts, mishaps : SUBSET Faults]

VARIABLES
    db,        \* the rows
    conf,      \* the sections in the file
    memory,    \* the sections in the memory of each terminal
    listed,    \* what the lists of each terminal show
    editor,    \* the editor that is open in each terminal
    jobs,      \* the calls in threads
    round,     \* the plan a round of schedules runs, as it was claimed
    saves,     \* number of saves begun
    mishaps,   \* what may still go wrong
    play,      \* what is edited
    savers     \* history: the terminals that have written the file

stored      == <<db, conf, memory>>
editorsVars == <<stored, listed, editor, jobs, round, saves, mishaps, play, savers>>

NoRow  == [there |-> FALSE, version |-> 0, text |-> {}, on |-> FALSE]
NoEditor == [at |-> "none", what |-> "none", shown |-> NoRow, armed |-> FALSE, job |-> 0]

EditorsInit ==
    /\ db = [r \in Rows |-> NoRow] /\ conf = [s \in Sections |-> {}]
    /\ memory = [a \in Apps |-> conf]
    /\ listed = [a \in Apps |-> [t \in Texts |-> NoRow]]
    /\ editor = [a \in Apps |-> NoEditor] /\ jobs = {} /\ round = NoRow
    /\ saves = 0 /\ savers = {}
    /\ \E p \in Plays : play = p.edited /\ mishaps = p.mishaps

Fault(f) == f \in mishaps /\ mishaps' = mishaps \ {f}

-----------------------------------------------------------------------------
(* Lists and editors *)

\* A section has no version: the copy in memory is what is shown of it.
Shown(a, t) == IF t \in Rows THEN db[t] ELSE [NoRow EXCEPT !.there = TRUE, !.text = memory[a][t]]

NoDialog(a) == editor[a].at = "none"

Reread(a, t) ==
    /\ NoDialog(a) /\ t \in play /\ listed[a][t] # Shown(a, t)
    /\ listed' = [listed EXCEPT ![a][t] = Shown(a, t)]
    /\ UNCHANGED <<stored, editor, jobs, round, saves, mishaps, play, savers>>

ListTasks(a) == Reread(a, "task")
RefreshPlans(a) == Reread(a, "plan")
LoadNodes(a) == Reread(a, "nodes")

OpenOn(a, t, at, shown) ==
    /\ NoDialog(a) /\ t \in play
    /\ editor' = [editor EXCEPT ![a] = [NoEditor EXCEPT !.at = at, !.what = t, !.shown = shown]]
    /\ UNCHANGED <<stored, listed, jobs, round, saves, mishaps, play, savers>>

\* A row is added when there is none listed; the names of a terminal and its
\* workspaces are read when the editor opens.
OpenTask(a) == OpenOn(a, "task", "open", listed[a]["task"])
OpenPlan(a) == OpenOn(a, "plan", "loading", listed[a]["plan"])
OpenPlanDeletion(a) ==
    listed[a]["plan"].there /\ OpenOn(a, "plan", "confirm", listed[a]["plan"])
OpenNode(a) == listed[a]["nodes"].there /\ OpenOn(a, "nodes", "open", listed[a]["nodes"])
OpenRename(a) == OpenOn(a, "names", "open", Shown(a, "names"))
OpenCreate(a) == OpenOn(a, "groups", "loading", Shown(a, "groups"))

\* Members, states, projects and iterations come from ONES; without them
\* nothing can be saved.
OptionsLoaded(a) ==
    /\ editor[a].at = "loading"
    /\ \/ editor' = [editor EXCEPT ![a].at = "open"] /\ UNCHANGED mishaps
       \/ editor' = [editor EXCEPT ![a].at = "useless"] /\ Fault("options")
    /\ UNCHANGED <<stored, listed, jobs, round, saves, play, savers>>

\* Tasks and nodes are deleted by the second press.
Arm(a) ==
    /\ editor[a].at = "open" /\ editor[a].what \in {"task", "nodes"}
    /\ editor[a].shown.there /\ ~editor[a].armed
    /\ editor' = [editor EXCEPT ![a].armed = TRUE]
    /\ UNCHANGED <<stored, listed, jobs, round, saves, mishaps, play, savers>>

Submit(a, t, shown, op, on) ==
    /\ saves < MaxSaves /\ saves' = saves + 1
    /\ jobs' = jobs \cup {[app |-> a, what |-> t, shown |-> shown, op |-> op, on |-> on,
                           id |-> saves']}
    /\ editor' = [editor EXCEPT ![a] = [@ EXCEPT !.at = "saving", !.what = t, !.shown = shown,
                                                 !.job = saves']]
    /\ UNCHANGED <<stored, listed, round, mishaps, play, savers>>

From(a, t, op, on) ==
    editor[a].what = t /\ Submit(a, t, editor[a].shown, op, on)

SaveTask(a) == editor[a].at = "open" /\ From(a, "task", "save", TRUE)
DeleteTask(a) == editor[a].at = "open" /\ editor[a].armed /\ From(a, "task", "delete", FALSE)
SavePlan(a) == editor[a].at = "open" /\ \E on \in BOOLEAN : From(a, "plan", "save", on)
DeletePlan(a) == editor[a].at = "confirm" /\ From(a, "plan", "delete", FALSE)
SaveNode(a) == editor[a].at = "open" /\ From(a, "nodes", "save", TRUE)
DeleteNode(a) == editor[a].at = "open" /\ editor[a].armed /\ From(a, "nodes", "save", FALSE)
Rename(a) == editor[a].at = "open" /\ From(a, "names", "save", TRUE)
Create(a) == editor[a].at = "open" /\ From(a, "groups", "save", TRUE)

\* In the list, without an editor.
TogglePlan(a) ==
    LET plan == listed[a]["plan"] IN
    NoDialog(a) /\ plan.there /\ Submit(a, "plan", plan, "save", ~plan.on)

\* The editors of plans and of new workspaces can be left while they save;
\* the call goes on.
Leavable(e) ==
    \/ e.at \in {"loading", "open", "useless", "confirm"}
    \/ e.at = "saving" /\ \E j \in jobs : j.id = e.job /\ j.op = "save"
                                         /\ j.what \in {"plan", "groups"}

LeaveEditor(a) ==
    /\ Leavable(editor[a])
    /\ editor' = [editor EXCEPT ![a] = NoEditor]
    /\ UNCHANGED <<stored, listed, jobs, round, saves, mishaps, play, savers>>

-----------------------------------------------------------------------------
(* The calls *)

Waiting(j) == editor[j.app].at = "saving" /\ editor[j.app].job = j.id

\* The editor is closed and its list read again; or it stays, unarmed.
Succeeded(j) ==
    /\ jobs' = jobs \ {j}
    /\ IF Waiting(j)
       THEN /\ editor' = [editor EXCEPT ![j.app] = NoEditor]
            /\ listed' = [listed EXCEPT ![j.app][j.what] = Shown(j.app, j.what)']
       ELSE UNCHANGED <<editor, listed>>

Failed(j) ==
    /\ jobs' = jobs \ {j}
    /\ editor' = IF ~Waiting(j) THEN editor
                 ELSE [editor EXCEPT ![j.app] =
                         [@ EXCEPT !.at = IF j.op = "delete" /\ j.what = "plan"
                                          THEN "confirm" ELSE "open",
                                   !.armed = FALSE, !.job = 0]]
    /\ UNCHANGED listed

\* Mistake: a row that is there is replaced.
AcceptsAnyVersion(j) == db[j.what].there = j.shown.there

\* In one transaction with the write.
Accepts(j) ==
    db[j.what].there = j.shown.there /\ db[j.what].version = j.shown.version

Replaced(row, j) == [there |-> TRUE, version |-> row.version + 1, text |-> {j.id}, on |-> j.on]

\* A new row has a new identity, so that none comes back.
Removed(row) == [row EXCEPT !.there = FALSE, !.text = {}, !.on = FALSE]

Written(j) == db' = [db EXCEPT ![j.what] = IF j.op = "save" THEN Replaced(@, j) ELSE Removed(@)]

WriteRow(j) ==
    /\ j.what \in Rows
    /\ \/ Accepts(j) /\ Written(j) /\ Succeeded(j) /\ UNCHANGED mishaps
       \/ ~Accepts(j) /\ Failed(j) /\ UNCHANGED <<db, mishaps>>
       \/ Fault("failed") /\ Failed(j) /\ UNCHANGED db
    /\ UNCHANGED <<conf, memory, round, saves, play, savers>>

(* The whole configuration is saved, as this terminal has it; the file may   *)
(* be replaced by a save that fails.                                         *)
SavedAs(j) ==
    /\ conf' = [memory[j.app] EXCEPT ![j.what] = IF j.what = "groups" THEN @ \cup {j.id} ELSE {j.id}]
    /\ savers' = savers \cup {j.app}

\* Nodes are compared with those the editor was opened on.
MaySaveNodes(j) == j.what # "nodes" \/ memory[j.app]["nodes"] = j.shown.text

WriteSection(j) ==
    /\ j.what \in Sections
    /\ \/ /\ MaySaveNodes(j) /\ SavedAs(j)
          /\ \/ memory' = [memory EXCEPT ![j.app] = conf'] /\ Succeeded(j) /\ UNCHANGED mishaps
             \/ Fault("halfway") /\ Failed(j) /\ UNCHANGED memory
       \/ ~MaySaveNodes(j) /\ Failed(j) /\ UNCHANGED <<conf, memory, mishaps, play, savers>>
       \/ Fault("failed") /\ Failed(j) /\ UNCHANGED <<conf, memory, savers>>
    /\ UNCHANGED <<db, round, saves, play>>

\* A round claims a plan that is due, and pauses it when it has failed often.
ClaimDue ==
    /\ round = NoRow /\ db["plan"].on /\ round' = db["plan"]
    /\ UNCHANGED <<stored, listed, editor, jobs, saves, mishaps, play, savers>>

Finish ==
    /\ round # NoRow /\ round' = NoRow
    /\ \/ UNCHANGED db
       \/ /\ db["plan"].there /\ db["plan"].version = round.version
          /\ db' = [db EXCEPT !["plan"].on = FALSE]
    /\ UNCHANGED <<conf, memory, listed, editor, jobs, saves, mishaps, play, savers>>

-----------------------------------------------------------------------------
Reads(a) == ListTasks(a) \/ RefreshPlans(a) \/ LoadNodes(a)

Opens(a) ==
    \/ OpenTask(a) \/ OpenPlan(a) \/ OpenPlanDeletion(a) \/ OpenNode(a)
    \/ OpenRename(a) \/ OpenCreate(a) \/ OptionsLoaded(a)

Presses(a) ==
    \/ Arm(a) \/ SaveTask(a) \/ DeleteTask(a) \/ SavePlan(a) \/ DeletePlan(a) \/ TogglePlan(a)
    \/ SaveNode(a) \/ DeleteNode(a) \/ Rename(a) \/ Create(a) \/ LeaveEditor(a)

EditorsNext ==
    \/ \E a \in Apps : Reads(a) \/ Opens(a) \/ Presses(a)
    \/ \E j \in jobs : WriteRow(j) \/ WriteSection(j)
    \/ ClaimDue \/ Finish

-----------------------------------------------------------------------------
\* The call that a step ends has been made by somebody who was shown `text`.
Seen(what, text) == \E j \in jobs \ jobs' : j.what = what /\ j.shown.text = text

\* The only terminal that writes the file has in memory what is in it.
Alone == \E a \in Apps : savers' \subseteq {a} /\ memory[a] = conf

\* Nobody replaces a row, or deletes it, but who was shown it.
RowsRespected == \A r \in Rows : db'[r].text = db[r].text \/ Seen(r, db[r].text)

\* What pauses a plan without a save is a round that ran it as it is.
PausedAsRun ==
    db'["plan"].text = db["plan"].text /\ db'["plan"].on # db["plan"].on =>
        round.text = db["plan"].text

SectionsRespected ==
    /\ conf["groups"] \subseteq conf'["groups"]
    /\ \A s \in {"nodes", "names"} : conf'[s] = conf[s] \/ Seen(s, conf[s])

(* save and delete of PlanningTaskStore and ScheduleStore, finish of a round *)
(* and the savers of the controller: nobody replaces or deletes what he was  *)
(* not shown, and no round pauses a plan that is not the one it ran.  Of the *)
(* configuration this holds as long as one terminal writes it and no save    *)
(* fails halfway, which nobody compares.                                     *)
NothingOverwritten ==
    [][RowsRespected /\ PausedAsRun /\ (Alone => SectionsRespected)]_editorsVars
=============================================================================
