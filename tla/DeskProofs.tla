----------------------------- MODULE DeskProofs -----------------------------
(***************************************************************************)
(* Proofs about Desk, and so about Terminal, Offers and Editors, for any   *)
(* number of terminals, runs, work items, sessions and saves.  The three   *)
(* share no variable, so each has an invariant of its own, and a step of   *)
(* one leaves the invariants of the others alone.                          *)
(***************************************************************************)
EXTENDS Desk, FiniteSetTheorems, WellFoundedInduction, TLAPS

LEMMA LeastExists ==
    ASSUME NEW S \in SUBSET Nat, S # {}
    PROVE  \E n \in S : \A m \in S : n <= m
<1> DEFINE R == OpToRel(<, Nat)
<1>1. IsWellFoundedOn(R, Nat)
  BY NatLessThanWellFounded
<1>2. \A x, y \in Nat : x < y => <<x, y>> \in R
  BY DEF OpToRel
<1> HIDE DEF R
<1>3. \E x \in S : \A y \in S : ~ (<<y, x>> \in R)
  BY <1>1, WFMin
<1>4. \E x \in S : \A y \in S : ~ (y < x)
  BY <1>2, <1>3, Zenon
<1> QED
  BY <1>4

-----------------------------------------------------------------------------
(* Editors *)

RowType == [there : BOOLEAN, version : Nat, text : SUBSET Nat, on : BOOLEAN]

EditorType == [at : {"none", "open", "loading", "confirm", "useless", "saving"},
               what : Texts \cup {"none"}, shown : RowType, armed : BOOLEAN, job : Nat]

EditorsType ==
    /\ db \in [Rows -> RowType] /\ round \in RowType
    /\ conf \in [Sections -> SUBSET Nat] /\ memory \in [Apps -> [Sections -> SUBSET Nat]]
    /\ listed \in [Apps -> [Texts -> RowType]]
    /\ editor \in [Apps -> EditorType]
    /\ jobs \subseteq [app : Apps, what : Texts, shown : RowType, op : {"save", "delete"},
                       on : BOOLEAN, id : Nat]
    /\ saves \in Nat /\ savers \subseteq Apps

\* Every call has a number of its own, which nothing stored has yet.
Numbered ==
    /\ \A j \in jobs : j.id \in 1..saves
    /\ \A j, k \in jobs : j.id = k.id => j = k
    /\ \A r \in Rows : db[r].text \subseteq 1..saves /\ \A j \in jobs : j.id \notin db[r].text

\* A row that is there has a text, one that is not is paused, and never claimed.
RowsSound ==
    /\ \A r \in Rows : (db[r].there <=> db[r].text # {}) /\ (db[r].on => db[r].there)
    /\ round = NoRow \/ round.there

\* What was once shown of a row is what it is, or has another version.
Copy(row, s) ==
    /\ s.version <= row.version
    /\ s.version = row.version /\ s.there = row.there => s.text = row.text
    /\ ~s.there => s.text = {}

CopiesSound ==
    \A r \in Rows :
        /\ \A a \in Apps : /\ Copy(db[r], listed[a][r])
                           /\ editor[a].what = r => Copy(db[r], editor[a].shown)
        /\ \A j \in jobs : j.what = r => Copy(db[r], j.shown)
        /\ r = "plan" => Copy(db[r], round)

\* Only its own editor changes the names a terminal has in memory, and there is
\* no other while one is open or saves.
NamesHeld ==
    /\ \A a \in Apps :
         editor[a].what = "names" =>
             /\ editor[a].at \in {"open", "saving"}
             /\ editor[a].at = "open" => editor[a].shown.text = memory[a]["names"]
    /\ \A j \in jobs :
         /\ Waiting(j) => editor[j.app].what = j.what /\ editor[j.app].shown = j.shown
         /\ j.what = "names" => Waiting(j) /\ j.shown.text = memory[j.app]["names"]

EditorsInv == EditorsType /\ Numbered /\ RowsSound /\ CopiesSound /\ NamesHeld


LEMMA NoRowIsRow ==
    NoRow \in RowType /\ NoRow.text = {} /\ NoRow.version = 0 /\ NoRow.there = FALSE
BY DEF NoRow, RowType

LEMMA EditorsStart == EditorsInit => EditorsInv
<1> SUFFICES ASSUME EditorsInit PROVE EditorsInv
  OBVIOUS
<1>1. EditorsType
  BY EditorsAssumption
  DEF EditorsInit, EditorsType, EditorType, RowType, NoRow, NoEditor, Rows, Sections, Texts
<1>2. Numbered /\ RowsSound /\ NamesHeld
  BY DEF EditorsInit, Numbered, RowsSound, NamesHeld, NoRow, NoEditor, Rows, Sections, Texts
<1>3. CopiesSound
  <2>1. \A r \in Rows : db[r] = NoRow /\ Copy(db[r], NoRow)
    BY NoRowIsRow DEF EditorsInit, Copy
  <2>2. /\ \A a \in Apps, r \in Rows : listed[a][r] = NoRow /\ editor[a].what # r
        /\ jobs = {} /\ round = NoRow
    BY DEF EditorsInit, NoEditor, Rows, Texts
  <2> QED
    BY <2>1, <2>2 DEF CopiesSound
<1> QED
  BY <1>1, <1>2, <1>3 DEF EditorsInv

LEMMA ShownIsCopy ==
    ASSUME EditorsInv, NEW a \in Apps, NEW t \in Texts
    PROVE  Shown(a, t) \in RowType /\ (t \in Rows => Copy(db[t], Shown(a, t)))
<1>1. CASE t \in Rows
  <2>1. Shown(a, t) = db[t] /\ db[t] \in RowType
    BY <1>1 DEF Shown, EditorsInv, EditorsType
  <2>2. db[t].version <= db[t].version /\ (~db[t].there => db[t].text = {})
    BY <1>1, <2>1 DEF EditorsInv, RowsSound, RowType
  <2> QED
    BY <2>1, <2>2 DEF Copy
<1>2. CASE t \in Sections
  <2>1. Shown(a, t) = [there |-> TRUE, version |-> 0, text |-> memory[a][t], on |-> FALSE]
    BY <1>2 DEF Shown, NoRow, Rows, Sections
  <2>2. memory[a][t] \in SUBSET Nat
    BY <1>2 DEF EditorsInv, EditorsType
  <2> QED
    BY <1>2, <2>1, <2>2 DEF RowType, Rows, Sections
<1> QED
  BY <1>1, <1>2 DEF Texts

LEMMA RereadKeeps ==
    ASSUME EditorsInv, NEW a \in Apps, NEW t \in Texts, Reread(a, t)
    PROVE  EditorsInv'
<1>1. /\ listed' = [listed EXCEPT ![a][t] = Shown(a, t)]
      /\ UNCHANGED <<db, conf, memory, editor, jobs, round, saves, savers>>
  BY DEF Reread, stored
<1>2. EditorsType'
  BY <1>1, ShownIsCopy DEF EditorsInv, EditorsType
<1>3. \A b \in Apps, r \in Rows :
         listed'[b][r] = IF b = a /\ r = t THEN Shown(a, t) ELSE listed[b][r]
  BY <1>1 DEF EditorsInv, EditorsType, Texts
<1>4. CopiesSound'
  BY <1>1, <1>3, ShownIsCopy DEF EditorsInv, CopiesSound, Copy
<1>5. Numbered' /\ RowsSound' /\ NamesHeld'
  BY <1>1 DEF EditorsInv, Numbered, RowsSound, NamesHeld, Waiting
<1> QED
  BY <1>2, <1>4, <1>5 DEF EditorsInv

\* Nothing but the editor of one terminal changes, to what it may show.
LEMMA EditorKeeps ==
    ASSUME EditorsInv, NEW a \in Apps, NEW e \in EditorType, e.at # "saving",
           editor' = [editor EXCEPT ![a] = e],
           UNCHANGED <<db, conf, memory, listed, jobs, round, saves, savers>>,
           e.what \in Rows => Copy(db[e.what], e.shown),
           e.what = "names" => e.at = "open" /\ e.shown.text = memory[a]["names"],
           \A j \in jobs : j.what = "names" => j.app # a
    PROVE  EditorsInv'
<1>1. EditorsType'
  BY DEF EditorsInv, EditorsType
<1>2. \A b \in Apps : editor'[b] = IF b = a THEN e ELSE editor[b]
  BY DEF EditorsInv, EditorsType
<1>3. CopiesSound'
  BY <1>2 DEF EditorsInv, CopiesSound, Copy
<1>4. NamesHeld'
  BY <1>2 DEF EditorsInv, EditorsType, NamesHeld, Waiting
<1>5. Numbered' /\ RowsSound'
  BY DEF EditorsInv, Numbered, RowsSound
<1> QED
  BY <1>1, <1>3, <1>4, <1>5 DEF EditorsInv

LEMMA OpenOnKeeps ==
    ASSUME EditorsInv, NEW a \in Apps, NEW t \in Texts, NEW at \in {"open", "loading", "confirm"},
           NEW shown \in RowType, t \in Rows => Copy(db[t], shown),
           t = "names" => at = "open" /\ shown.text = memory[a]["names"],
           OpenOn(a, t, at, shown)
    PROVE  EditorsInv'
<1> DEFINE e == [NoEditor EXCEPT !.at = at, !.what = t, !.shown = shown]
<1>1. editor' = [editor EXCEPT ![a] = e]
  BY DEF OpenOn
<1>2. UNCHANGED <<db, conf, memory, listed, jobs, round, saves, savers>> /\ editor[a].at = "none"
  BY DEF OpenOn, NoDialog, stored
<1>3. \A j \in jobs : j.what = "names" => j.app # a
  BY <1>2 DEF EditorsInv, NamesHeld, Waiting
<1>4. e \in EditorType /\ e.what = t /\ e.shown = shown /\ e.at = at
  BY DEF EditorType, NoEditor
<1> HIDE DEF e
<1> QED
  BY <1>1, <1>2, <1>3, <1>4, EditorKeeps

LEMMA OpensKeep ==
    ASSUME EditorsInv, NEW a \in Apps, Opens(a)
    PROVE  EditorsInv'
<1> USE DEF Rows, Sections, Texts
<1>1. CASE OpenTask(a) \/ OpenPlan(a) \/ OpenPlanDeletion(a) \/ OpenNode(a)
  <2>1. \A t \in Texts : listed[a][t] \in RowType
    BY DEF EditorsInv, EditorsType
  <2>2. \A t \in Rows : Copy(db[t], listed[a][t])
    BY DEF EditorsInv, CopiesSound
  <2> QED
    BY <1>1, <2>1, <2>2, OpenOnKeeps DEF OpenTask, OpenPlan, OpenPlanDeletion, OpenNode
<1>2. CASE OpenRename(a) \/ OpenCreate(a)
  <2>1. Shown(a, "names").text = memory[a]["names"]
    BY DEF Shown, NoRow
  <2> QED
    BY <1>2, <2>1, ShownIsCopy, OpenOnKeeps DEF OpenRename, OpenCreate
<1>3. CASE OptionsLoaded(a)
  <2>1. PICK at \in {"open", "useless"} : editor' = [editor EXCEPT ![a].at = at]
    BY <1>3 DEF OptionsLoaded
  <2>2. /\ editor[a].at = "loading"
        /\ UNCHANGED <<db, conf, memory, listed, jobs, round, saves, savers>>
    BY <1>3 DEF OptionsLoaded, stored
  <2>3. editor' = [editor EXCEPT ![a] = [editor[a] EXCEPT !.at = at]]
    BY <2>1
  <2>4. editor[a].what # "names"
    BY <2>2 DEF EditorsInv, NamesHeld
  <2>5. \A j \in jobs : j.what = "names" => j.app # a
    BY <2>2 DEF EditorsInv, NamesHeld, Waiting
  <2>6. editor[a].what \in Rows => Copy(db[editor[a].what], editor[a].shown)
    BY DEF EditorsInv, CopiesSound
  <2> DEFINE e == [editor[a] EXCEPT !.at = at]
  <2>7. editor' = [editor EXCEPT ![a] = e] /\ e.what # "names"
    BY <2>3, <2>4 DEF EditorsInv, EditorsType, EditorType
  <2>8. e \in EditorType /\ e.at = at /\ e.what = editor[a].what /\ e.shown = editor[a].shown
    BY DEF EditorsInv, EditorsType, EditorType
  <2> HIDE DEF e
  <2> QED
    BY <2>1, <2>2, <2>5, <2>6, <2>7, <2>8, EditorKeeps
<1> QED
  BY <1>1, <1>2, <1>3 DEF Opens

LEMMA SubmitKeeps ==
    ASSUME EditorsInv, NEW a \in Apps, NEW t \in Texts, NEW shown \in RowType,
           NEW op \in {"save", "delete"}, NEW on \in BOOLEAN,
           editor[a].at # "saving", t \in Rows => Copy(db[t], shown),
           t = "names" => shown.text = memory[a]["names"],
           Submit(a, t, shown, op, on)
    PROVE  EditorsInv'
<1> DEFINE new == [app |-> a, what |-> t, shown |-> shown, op |-> op, on |-> on, id |-> saves + 1]
<1> DEFINE e == [editor[a] EXCEPT !.at = "saving", !.what = t, !.shown = shown, !.job = saves + 1]
<1>1. /\ saves' = saves + 1 /\ saves \in Nat /\ jobs' = jobs \cup {new}
      /\ editor' = [editor EXCEPT ![a] = e]
      /\ UNCHANGED <<db, conf, memory, listed, round, savers>>
  BY DEF Submit, stored, EditorsInv, EditorsType
<1>2. EditorsType'
  <2>1. new \in [app : Apps, what : Texts, shown : RowType, op : {"save", "delete"},
                 on : BOOLEAN, id : Nat]
    BY <1>1
  <2>2. saves + 1 \in Nat
    BY <1>1
  <2>3. e \in EditorType
    <3>1. editor[a] \in EditorType
      BY DEF EditorsInv, EditorsType
    <3>2. saves + 1 \in Nat
      BY <1>1
    <3>3. \A n \in Nat : [editor[a] EXCEPT !.at = "saving", !.what = t, !.shown = shown, !.job = n]
                           \in EditorType
      BY <3>1 DEF EditorType
    <3> QED
      BY <3>2, <3>3
  <2> HIDE DEF new, e
  <2> QED
    BY <1>1, <2>1, <2>2, <2>3 DEF EditorsInv, EditorsType
<1>3. Numbered'
  BY <1>1 DEF EditorsInv, EditorsType, Numbered
<1>4. RowsSound'
  BY <1>1 DEF EditorsInv, RowsSound
<1>5. CopiesSound'
  BY <1>1 DEF EditorsInv, EditorsType, CopiesSound, Copy
<1>6. NamesHeld'
  <2>1. /\ e.at = "saving" /\ e.what = t /\ e.shown = shown /\ e.job = saves + 1
        /\ new.app = a /\ new.what = t /\ new.shown = shown /\ new.id = saves + 1
    BY DEF EditorsInv, EditorsType, EditorType
  <2>2. \A b \in Apps : editor'[b] = IF b = a THEN e ELSE editor[b]
    BY <1>1 DEF EditorsInv, EditorsType
  <2>3. \A j \in jobs : j.id # saves + 1 /\ j.app \in Apps
    BY <1>1 DEF EditorsInv, EditorsType, Numbered
  <2> HIDE DEF new, e
  <2> QED
    BY <1>1, <2>1, <2>2, <2>3 DEF EditorsInv, NamesHeld, Waiting
<1> QED
  BY <1>2, <1>3, <1>4, <1>5, <1>6 DEF EditorsInv

LEMMA PressesKeep ==
    ASSUME EditorsInv, NEW a \in Apps, Presses(a)
    PROVE  EditorsInv'
<1> USE DEF Rows, Sections, Texts
<1>1. CASE TogglePlan(a)
  <2> DEFINE plan == listed[a]["plan"]
  <2>1. plan \in RowType /\ Copy(db["plan"], plan) /\ plan.on \in BOOLEAN
    BY DEF EditorsInv, EditorsType, CopiesSound, RowType
  <2>2. (~plan.on) \in BOOLEAN /\ editor[a].at # "saving"
    BY <1>1, <2>1 DEF TogglePlan, NoDialog
  <2>3. Submit(a, "plan", plan, "save", ~plan.on)
    BY <1>1 DEF TogglePlan
  <2> HIDE DEF plan
  <2> QED
    BY <2>1, <2>2, <2>3, SubmitKeeps
<1>2. CASE Arm(a)
  <2>1. /\ editor' = [editor EXCEPT ![a] = [editor[a] EXCEPT !.armed = TRUE]]
        /\ editor[a].at = "open" /\ editor[a].what \in {"task", "nodes"}
        /\ UNCHANGED <<db, conf, memory, listed, jobs, round, saves, savers>>
    BY <1>2 DEF Arm, stored
  <2>2. \A j \in jobs : j.what = "names" => j.app # a
    BY <2>1 DEF EditorsInv, NamesHeld, Waiting
  <2>3. editor[a].what \in Rows => Copy(db[editor[a].what], editor[a].shown)
    BY DEF EditorsInv, CopiesSound
  <2> DEFINE e == [editor[a] EXCEPT !.armed = TRUE]
  <2>4. e \in EditorType /\ e.at = editor[a].at /\ e.what = editor[a].what /\ e.shown = editor[a].shown
    BY DEF EditorsInv, EditorsType, EditorType
  <2>5. editor' = [editor EXCEPT ![a] = e] /\ e.what # "names"
    BY <2>1, <2>4
  <2> HIDE DEF e
  <2> QED
    BY <2>1, <2>2, <2>3, <2>4, <2>5, EditorKeeps
<1>3. CASE LeaveEditor(a)
  <2>1. /\ Leavable(editor[a]) /\ editor' = [editor EXCEPT ![a] = NoEditor]
        /\ UNCHANGED <<db, conf, memory, listed, jobs, round, saves, savers>>
    BY <1>3 DEF LeaveEditor, stored
  <2>2. \A j \in jobs : j.what = "names" => j.app # a
    BY <2>1 DEF EditorsInv, NamesHeld, Numbered, Waiting, Leavable
  <2>3. NoEditor.what = "none" /\ NoEditor.at = "none" /\ NoEditor \in EditorType
    BY NoRowIsRow DEF NoEditor, EditorType
  <2> QED
    BY <2>1, <2>2, <2>3, EditorKeeps
<1>4. ASSUME NEW t \in Texts, NEW op \in {"save", "delete"}, NEW on \in BOOLEAN,
             editor[a].at \in {"open", "confirm"}, From(a, t, op, on)
      PROVE EditorsInv'
  <2>1. editor[a].shown \in RowType /\ (t \in Rows => Copy(db[t], editor[a].shown))
    BY <1>4 DEF From, EditorsInv, EditorsType, EditorType, CopiesSound
  <2>2. t = "names" => editor[a].shown.text = memory[a]["names"]
    BY <1>4 DEF From, EditorsInv, NamesHeld
  <2> QED
    BY <1>4, <2>1, <2>2, SubmitKeeps DEF From
<1> QED
  BY <1>1, <1>2, <1>3, <1>4
  DEF Presses, SaveTask, DeleteTask, SavePlan, DeletePlan, SaveNode, DeleteNode, Rename, Create


\* A call ends: its editor closes over a list read again, or it stays.
LEMMA EndKeeps ==
    ASSUME EditorsInv, NEW j \in jobs, NEW row \in RowType,
           UNCHANGED <<round, saves>>, savers' \subseteq Apps,
           conf' \in [Sections -> SUBSET Nat], memory' \in [Apps -> [Sections -> SUBSET Nat]],
           \A a \in Apps : memory'[a]["names"] = memory[a]["names"] \/ a = j.app,
           \/ Succeeded(j)
              /\ (j.what # "names" => memory'[j.app]["names"] = memory[j.app]["names"])
           \/ Failed(j) /\ memory'[j.app]["names"] = memory[j.app]["names"],
           \/ UNCHANGED db
           \/ /\ j.what \in Rows /\ db' = [db EXCEPT ![j.what] = row]
              /\ row.there <=> row.text # {}
              /\ row.on => row.there
              /\ row.text \subseteq {j.id}
              /\ \/ row.version = db[j.what].version + 1
                 \/ row.version = db[j.what].version /\ ~row.there
    PROVE  EditorsInv'
<1>1. j.app \in Apps /\ j.what \in Texts /\ j.shown \in RowType /\ j.id \in 1..saves
  BY DEF EditorsInv, EditorsType, Numbered
<1>2. jobs' = jobs \ {j} /\ j \notin jobs' /\ jobs' \subseteq jobs
  BY DEF Succeeded, Failed
<1>3. db' \in [Rows -> RowType]
  BY DEF EditorsInv, EditorsType
<1>4. Numbered'
  BY <1>1, <1>2 DEF EditorsInv, EditorsType, Numbered, RowType
<1>5. RowsSound'
  BY DEF EditorsInv, EditorsType, RowsSound
<1>6. ASSUME NEW r \in Rows, NEW s \in RowType, Copy(db[r], s) PROVE Copy(db'[r], s)
  <2>1. CASE db'[r] = db[r]
    BY <1>6, <2>1
  <2>2. CASE db'[r] # db[r]
    <3>1. /\ r = j.what /\ db'[r] = row /\ db[r] \in RowType
          /\ row.there <=> row.text # {}
          /\ row.version = db[r].version + 1 \/ (row.version = db[r].version /\ ~row.there)
      BY <2>2 DEF EditorsInv, EditorsType
    <3>2. CASE row.version = db[r].version + 1
      BY <1>6, <3>1, <3>2 DEF Copy, RowType
    <3>3. CASE row.version = db[r].version /\ ~row.there
      <4>1. row.text = {} /\ row.there = FALSE
        BY <3>1, <3>3 DEF RowType
      <4> QED
        BY <1>6, <3>1, <3>3, <4>1 DEF Copy, RowType
    <3> QED
      BY <3>1, <3>2, <3>3
  <2> QED
    BY <2>1, <2>2
<1>7. \A a \in Apps, r \in Rows : /\ listed[a][r] \in RowType /\ Copy(db[r], listed[a][r])
                                  /\ editor[a] \in EditorType /\ editor[a].shown \in RowType
  BY DEF EditorsInv, EditorsType, EditorType, CopiesSound, Texts
<1>8. \A r \in Rows : Copy(db'[r], db'[r])
  BY <1>3, <1>5 DEF Copy, RowsSound, RowType
<1>9. CASE /\ Failed(j) /\ memory'[j.app]["names"] = memory[j.app]["names"]
           /\ ~Waiting(j)
  <2>1. UNCHANGED <<editor, listed>>
    BY <1>9 DEF Failed
  <2>2. EditorsType'
    BY <1>2, <1>3, <2>1 DEF EditorsInv, EditorsType
  <2>3. CopiesSound'
    BY <1>2, <1>6, <1>7, <2>1 DEF EditorsInv, EditorsType, CopiesSound
  <2>4. NamesHeld'
    BY <1>2, <1>9, <2>1 DEF EditorsInv, EditorsType, Numbered, NamesHeld, Waiting
  <2> QED
    BY <1>4, <1>5, <2>2, <2>3, <2>4 DEF EditorsInv
<1>10. CASE /\ Failed(j) /\ memory'[j.app]["names"] = memory[j.app]["names"]
            /\ Waiting(j)
  <2> DEFINE at == IF j.op = "delete" /\ j.what = "plan" THEN "confirm" ELSE "open"
             e == [editor[j.app] EXCEPT !.at = at, !.armed = FALSE, !.job = 0]
  <2>1. at \in {"open", "confirm"} /\ (j.what = "names" => at = "open")
    OBVIOUS
  <2>2. editor' = [editor EXCEPT ![j.app] = e] /\ UNCHANGED listed
    BY <1>10 DEF Failed
  <2>3. /\ e \in EditorType /\ e.at = at
        /\ e.what = editor[j.app].what /\ e.shown = editor[j.app].shown
    <3>1. editor[j.app] \in EditorType /\ at \in {"open", "confirm"}
      BY <1>1 DEF EditorsInv, EditorsType
    <3> HIDE DEF at
    <3> QED
      BY <3>1 DEF EditorType
  <2> HIDE DEF at
  <2> HIDE DEF e
  <2>4. EditorsType'
    BY <1>2, <1>3, <2>2, <2>3 DEF EditorsInv, EditorsType
  <2>5. \A a \in Apps : editor'[a] = IF a = j.app THEN e ELSE editor[a]
    BY <2>2 DEF EditorsInv, EditorsType
  <2>6. CopiesSound'
    BY <1>2, <1>6, <1>7, <2>2, <2>3, <2>5 DEF EditorsInv, EditorsType, CopiesSound
  <2>7. \A k \in jobs : k.what = "names" /\ k.app = j.app => k = j
    BY <1>10 DEF EditorsInv, Numbered, NamesHeld, Waiting
  <2>8. ASSUME NEW a \in Apps, editor'[a].what = "names"
        PROVE  /\ editor'[a].at \in {"open", "saving"}
               /\ editor'[a].at = "open" => editor'[a].shown.text = memory'[a]["names"]
    <3>1. CASE a # j.app
      BY <2>5, <2>8, <3>1 DEF EditorsInv, NamesHeld
    <3>2. CASE a = j.app
      <4>1. e.what = "names" /\ j.what = "names" /\ editor[a].shown = j.shown
        BY <1>10, <2>3, <2>5, <2>8, <3>2 DEF EditorsInv, NamesHeld
      <4>2. j.shown.text = memory[a]["names"]
        BY <3>2, <4>1 DEF EditorsInv, NamesHeld
      <4> QED
        BY <1>10, <2>1, <2>3, <2>5, <3>2, <4>1, <4>2
    <3> QED
      BY <3>1, <3>2
  <2>9. NamesHeld'
    <3>1. ASSUME NEW k \in jobs'
          PROVE  /\ Waiting(k)' => editor'[k.app].what = k.what /\ editor'[k.app].shown = k.shown
                 /\ k.what = "names" => Waiting(k)' /\ k.shown.text = memory'[k.app]["names"]
      <4>1. k \in jobs /\ k # j /\ k.app \in Apps
        BY <1>2 DEF EditorsInv, EditorsType
      <4>2. CASE k.app = j.app
        BY <2>1, <2>3, <2>5, <2>7, <4>1, <4>2 DEF Waiting
      <4>3. CASE k.app # j.app
        BY <2>5, <4>1, <4>3 DEF EditorsInv, NamesHeld, Waiting
      <4> QED
        BY <4>2, <4>3
    <3> QED
      BY <2>8, <3>1 DEF NamesHeld
  <2> QED
    BY <1>4, <1>5, <2>4, <2>6, <2>9 DEF EditorsInv
<1>11. CASE /\ Succeeded(j) /\ (j.what # "names" => memory'[j.app]["names"] = memory[j.app]["names"])
            /\ ~Waiting(j)
  <2>1. UNCHANGED <<editor, listed>>
    BY <1>11 DEF Succeeded
  <2>2. EditorsType'
    BY <1>2, <1>3, <2>1 DEF EditorsInv, EditorsType
  <2>3. CopiesSound'
    BY <1>2, <1>6, <1>7, <2>1 DEF EditorsInv, EditorsType, CopiesSound
  <2>4. NamesHeld'
    BY <1>2, <1>11, <2>1 DEF EditorsInv, EditorsType, Numbered, NamesHeld, Waiting
  <2> QED
    BY <1>4, <1>5, <2>2, <2>3, <2>4 DEF EditorsInv
<1>12. CASE /\ Succeeded(j) /\ (j.what # "names" => memory'[j.app]["names"] = memory[j.app]["names"])
            /\ Waiting(j)
  <2>1. /\ editor' = [editor EXCEPT ![j.app] = NoEditor]
        /\ listed' = [listed EXCEPT ![j.app][j.what] = Shown(j.app, j.what)']
    BY <1>12 DEF Succeeded
  <2> DEFINE shown == Shown(j.app, j.what)'
  <2>2. shown \in RowType /\ (j.what \in Rows => shown = db'[j.what])
    <3>1. CASE j.what \in Rows
      BY <1>3, <3>1 DEF Shown
    <3>2. CASE j.what \in Sections
      <4>1. shown = [NoRow EXCEPT !.there = TRUE, !.text = memory'[j.app][j.what]]
        BY <3>2 DEF Shown, Rows, Sections
      <4>2. memory'[j.app][j.what] \in SUBSET Nat
        BY <1>1, <3>2
      <4>3. \A m \in SUBSET Nat : [NoRow EXCEPT !.there = TRUE, !.text = m] \in RowType
        BY NoRowIsRow DEF RowType
      <4> QED
        BY <3>2, <4>1, <4>2, <4>3 DEF Rows, Sections
    <3> QED
      BY <1>1, <3>1, <3>2 DEF Texts
  <2> HIDE DEF shown
  <2>3. \A a \in Apps, r \in Rows :
           listed'[a][r] = IF a = j.app /\ r = j.what THEN shown ELSE listed[a][r]
    BY <2>1 DEF shown, EditorsInv, EditorsType, Texts
  <2>4. \A a \in Apps : editor'[a] = IF a = j.app THEN NoEditor ELSE editor[a]
    BY <2>1 DEF EditorsInv, EditorsType
  <2>5. NoEditor.at = "none" /\ NoEditor.what = "none" /\ NoEditor \in EditorType
    BY NoRowIsRow DEF NoEditor, EditorType
  <2>6. EditorsType'
    <3>1. listed' \in [Apps -> [Texts -> RowType]]
      BY <1>1, <2>1, <2>2 DEF shown, EditorsInv, EditorsType
    <3>2. editor' \in [Apps -> EditorType]
      BY <2>1, <2>5 DEF EditorsInv, EditorsType
    <3> QED
      BY <1>2, <1>3, <3>1, <3>2 DEF EditorsInv, EditorsType
  <2>7. CopiesSound'
    <3>1. \A a \in Apps, r \in Rows : Copy(db'[r], listed'[a][r])
      BY <1>6, <1>7, <1>8, <2>2, <2>3
    <3>2. \A a \in Apps, r \in Rows : editor'[a].what = r => Copy(db'[r], editor'[a].shown)
      BY <1>6, <1>7, <2>4, <2>5 DEF EditorsInv, CopiesSound, Rows
    <3>3. \A k \in jobs', r \in Rows : k.what = r => Copy(db'[r], k.shown)
      BY <1>2, <1>6 DEF EditorsInv, EditorsType, CopiesSound
    <3>4. Copy(db'["plan"], round')
      BY <1>6 DEF EditorsInv, EditorsType, CopiesSound, Rows
    <3> QED
      BY <3>1, <3>2, <3>3, <3>4 DEF CopiesSound
  <2>8. \A k \in jobs : k.what = "names" /\ k.app = j.app => k = j
    BY <1>12 DEF EditorsInv, Numbered, NamesHeld, Waiting
  <2>9. ASSUME NEW k \in jobs'
        PROVE  /\ Waiting(k)' => editor'[k.app].what = k.what /\ editor'[k.app].shown = k.shown
               /\ k.what = "names" => Waiting(k)' /\ k.shown.text = memory'[k.app]["names"]
    <3>1. k \in jobs /\ k # j /\ k.app \in Apps
      BY <1>2 DEF EditorsInv, EditorsType
    <3>2. CASE k.app = j.app
      BY <2>4, <2>5, <2>8, <3>1, <3>2 DEF Waiting
    <3>3. CASE k.app # j.app
      BY <2>4, <3>1, <3>3 DEF EditorsInv, NamesHeld, Waiting
    <3> QED
      BY <3>2, <3>3
  <2>10. NamesHeld'
    BY <2>4, <2>5, <2>9 DEF EditorsInv, NamesHeld
  <2> QED
    BY <1>4, <1>5, <2>6, <2>7, <2>10 DEF EditorsInv
<1> QED
  BY <1>9, <1>10, <1>11, <1>12


LEMMA WriteRowKeeps ==
    ASSUME EditorsInv, NEW j \in jobs, WriteRow(j)
    PROVE  EditorsInv'
<1>1. /\ j.what \in Rows /\ (Succeeded(j) \/ Failed(j))
      /\ UNCHANGED <<conf, memory, round, saves, savers>>
  BY DEF WriteRow
<1>2. /\ conf \in [Sections -> SUBSET Nat] /\ memory \in [Apps -> [Sections -> SUBSET Nat]]
      /\ savers \subseteq Apps /\ db[j.what] \in RowType /\ j.id \in Nat /\ j.on \in BOOLEAN
      /\ j.what # "names"
  BY <1>1 DEF EditorsInv, EditorsType, Rows
<1>3. CASE UNCHANGED db
  BY <1>1, <1>2, <1>3, NoRowIsRow, EndKeeps
<1>4. CASE Written(j)
  <2>1. CASE j.op = "save"
    <3> DEFINE row == Replaced(db[j.what], j)
    <3>1. /\ row \in RowType /\ row.there /\ row.text = {j.id}
          /\ row.version = db[j.what].version + 1
      BY <1>2 DEF Replaced, RowType
    <3>2. db' = [db EXCEPT ![j.what] = row]
      BY <1>4, <2>1 DEF Written
    <3> HIDE DEF row
    <3> QED
      BY <1>1, <1>2, <3>1, <3>2, EndKeeps
  <2>2. CASE j.op # "save"
    <3> DEFINE row == Removed(db[j.what])
    <3>1. /\ row \in RowType /\ ~row.there /\ row.text = {} /\ ~row.on
          /\ row.version = db[j.what].version
      BY <1>2 DEF Removed, RowType
    <3>2. db' = [db EXCEPT ![j.what] = row]
      BY <1>4, <2>2 DEF Written
    <3> HIDE DEF row
    <3> QED
      BY <1>1, <1>2, <3>1, <3>2, EndKeeps
  <2> QED
    BY <2>1, <2>2
<1> QED
  BY <1>3, <1>4 DEF WriteRow

LEMMA SavedIsConfig ==
    ASSUME EditorsInv, NEW j \in jobs, j.what \in Sections, SavedAs(j)
    PROVE  /\ conf' \in [Sections -> SUBSET Nat] /\ savers' = savers \cup {j.app}
           /\ \A s \in Sections \ {j.what} : conf'[s] = memory[j.app][s]
           /\ memory[j.app]["groups"] \subseteq conf'["groups"]
<1>1. memory[j.app] \in [Sections -> SUBSET Nat] /\ j.id \in Nat
  BY DEF EditorsInv, EditorsType
<1> QED
  BY <1>1 DEF SavedAs, Sections

LEMMA WriteSectionKeeps ==
    ASSUME EditorsInv, NEW j \in jobs, WriteSection(j)
    PROVE  EditorsInv'
<1>1. /\ j.what \in Sections /\ (Succeeded(j) \/ Failed(j))
      /\ UNCHANGED <<db, round, saves>>
  BY DEF WriteSection
<1>2. /\ conf \in [Sections -> SUBSET Nat] /\ memory \in [Apps -> [Sections -> SUBSET Nat]]
      /\ savers \subseteq Apps /\ j.app \in Apps
  BY DEF EditorsInv, EditorsType
<1>3. CASE SavedAs(j) /\ memory' = [memory EXCEPT ![j.app] = conf'] /\ Succeeded(j)
  <2>1. /\ conf' \in [Sections -> SUBSET Nat] /\ savers' = savers \cup {j.app}
        /\ j.what # "names" => conf'["names"] = memory[j.app]["names"]
    BY <1>1, <1>3, SavedIsConfig DEF Sections
  <2>2. /\ memory' \in [Apps -> [Sections -> SUBSET Nat]] /\ savers' \subseteq Apps
        /\ \A a \in Apps : memory'[a] = IF a = j.app THEN conf' ELSE memory[a]
    BY <1>2, <1>3, <2>1
  <2> QED
    BY <1>1, <1>2, <1>3, <2>1, <2>2, NoRowIsRow, EndKeeps
<1>4. CASE SavedAs(j) /\ Failed(j) /\ UNCHANGED memory
  <2>1. conf' \in [Sections -> SUBSET Nat] /\ savers' \subseteq Apps
    BY <1>1, <1>2, <1>4, SavedIsConfig
  <2> QED
    BY <1>1, <1>2, <1>4, <2>1, NoRowIsRow, EndKeeps
<1>5. CASE Failed(j) /\ UNCHANGED <<conf, memory, savers>>
  BY <1>1, <1>2, <1>5, NoRowIsRow, EndKeeps
<1> QED
  BY <1>3, <1>4, <1>5 DEF WriteSection

LEMMA ClaimDueKeeps == EditorsInv /\ ClaimDue => EditorsInv'
<1> SUFFICES ASSUME EditorsInv, ClaimDue PROVE EditorsInv'
  OBVIOUS
<1>1. /\ round' = db["plan"] /\ db["plan"].on /\ db["plan"] \in RowType
      /\ UNCHANGED <<db, conf, memory, listed, editor, jobs, saves, savers>>
  BY DEF ClaimDue, stored, EditorsInv, EditorsType, Rows
<1>2. db["plan"].there /\ Copy(db["plan"], db["plan"])
  BY <1>1 DEF EditorsInv, RowsSound, Copy, RowType, Rows
<1>3. EditorsType'
  BY <1>1 DEF EditorsInv, EditorsType
<1>4. RowsSound'
  BY <1>1, <1>2 DEF EditorsInv, RowsSound
<1>5. CopiesSound'
  BY <1>1, <1>2 DEF EditorsInv, CopiesSound, Copy
<1>6. Numbered' /\ NamesHeld'
  BY <1>1 DEF EditorsInv, Numbered, NamesHeld, Waiting
<1> QED
  BY <1>3, <1>4, <1>5, <1>6 DEF EditorsInv

LEMMA FinishKeeps == EditorsInv /\ Finish => EditorsInv'
<1> SUFFICES ASSUME EditorsInv, Finish PROVE EditorsInv'
  OBVIOUS
<1>1. /\ round' = NoRow
      /\ UNCHANGED <<conf, memory, listed, editor, jobs, saves, savers>>
      /\ UNCHANGED db \/ db' = [db EXCEPT !["plan"].on = FALSE]
  BY DEF Finish
<1>2. db \in [Rows -> RowType] /\ db["plan"] \in RowType
  BY DEF EditorsInv, EditorsType, Rows
<1>3. db' \in [Rows -> RowType]
  BY <1>1, <1>2 DEF RowType
<1>4. \A r \in Rows : /\ db'[r].there = db[r].there /\ db'[r].version = db[r].version
                      /\ db'[r].text = db[r].text /\ (db'[r].on => db[r].on)
  BY <1>1, <1>2 DEF RowType
<1>5. EditorsType'
  BY <1>1, <1>3, NoRowIsRow DEF EditorsInv, EditorsType
<1>6. RowsSound' /\ Numbered'
  BY <1>1, <1>4 DEF EditorsInv, RowsSound, Numbered
<1>7. CopiesSound'
  <2>1. \A r \in Rows : \A s \in RowType : Copy(db[r], s) => Copy(db'[r], s)
    BY <1>4 DEF Copy
  <2>2. \A r \in Rows : Copy(db'[r], NoRow)
    BY <1>3, <1>4, NoRowIsRow DEF Copy, RowType, EditorsInv, RowsSound
  <2>3. \A a \in Apps : /\ editor[a].shown \in RowType
                        /\ \A r \in Rows : listed[a][r] \in RowType
    BY DEF EditorsInv, EditorsType, EditorType, Texts
  <2>4. \A j \in jobs : j.shown \in RowType
    BY DEF EditorsInv, EditorsType
  <2> QED
    BY <1>1, <2>1, <2>2, <2>3, <2>4 DEF EditorsInv, CopiesSound
<1>8. NamesHeld'
  BY <1>1 DEF EditorsInv, NamesHeld, Waiting
<1> QED
  BY <1>5, <1>6, <1>7, <1>8 DEF EditorsInv

LEMMA EditorsStep == EditorsInv /\ [EditorsNext]_editorsVars => EditorsInv'
<1> SUFFICES ASSUME EditorsInv, [EditorsNext]_editorsVars PROVE EditorsInv'
  OBVIOUS
<1>1. CASE \E a \in Apps : Reads(a)
  BY <1>1, RereadKeeps DEF Reads, ListTasks, RefreshPlans, LoadNodes, Texts, Rows, Sections
<1>2. CASE \E a \in Apps : Opens(a)
  BY <1>2, OpensKeep
<1>3. CASE \E a \in Apps : Presses(a)
  BY <1>3, PressesKeep
<1>4. CASE \E j \in jobs : WriteRow(j)
  BY <1>4, WriteRowKeeps
<1>5. CASE \E j \in jobs : WriteSection(j)
  BY <1>5, WriteSectionKeeps
<1>6. CASE ClaimDue \/ Finish
  BY <1>6, ClaimDueKeeps, FinishKeeps
<1>7. CASE UNCHANGED editorsVars
  BY <1>7 DEF editorsVars, stored, EditorsInv, EditorsType, Numbered, RowsSound, CopiesSound,
              NamesHeld, Waiting
<1> QED
  BY <1>1, <1>2, <1>3, <1>4, <1>5, <1>6, <1>7 DEF EditorsNext

\* Whoever writes a row was shown what it holds.
LEMMA RowsAreRespected ==
    ASSUME EditorsInv, NEW j \in jobs, WriteRow(j)
    PROVE  RowsRespected /\ PausedAsRun /\ SectionsRespected
<1>1. /\ j.what \in Rows /\ db \in [Rows -> RowType] /\ j.id \notin db[j.what].text
      /\ j.shown \in RowType /\ Copy(db[j.what], j.shown) /\ conf' = conf
  BY DEF WriteRow, EditorsInv, EditorsType, Numbered, CopiesSound
<1>2. CASE UNCHANGED db
  BY <1>1, <1>2 DEF RowsRespected, PausedAsRun, SectionsRespected
<1>3. CASE Accepts(j) /\ Written(j) /\ Succeeded(j)
  <2>1. j.shown.text = db[j.what].text
    BY <1>1, <1>3 DEF Accepts, Copy
  <2>2. jobs' = jobs \ {j}
    BY <1>3 DEF Succeeded
  <2>3. Seen(j.what, db[j.what].text)
    BY <2>1, <2>2 DEF Seen
  <2>4. \A r \in Rows \ {j.what} : db'[r] = db[r]
    BY <1>1, <1>3 DEF Written
  <2>5. RowsRespected
    BY <2>3, <2>4 DEF RowsRespected
  <2>6. CASE j.what # "plan"
    BY <1>1, <2>4, <2>5, <2>6 DEF PausedAsRun, SectionsRespected, Rows
  <2>7. CASE j.what = "plan" /\ j.op = "save"
    <3>1. db'["plan"].text = {j.id}
      BY <1>1, <1>3, <2>7 DEF Written, Replaced
    <3> QED
      BY <1>1, <2>5, <2>7, <3>1 DEF PausedAsRun, SectionsRespected
  <2>8. CASE j.what = "plan" /\ j.op # "save"
    <3>1. db'["plan"] = Removed(db["plan"]) /\ db["plan"] \in RowType
      BY <1>1, <1>3, <2>8 DEF Written
    <3>2. db'["plan"].text = {} /\ db'["plan"].on = FALSE
      BY <3>1 DEF Removed, RowType
    <3>3. db["plan"].text = {} => db["plan"].on = FALSE
      BY <1>1, <2>8, <3>1 DEF EditorsInv, RowsSound, RowType
    <3> QED
      BY <1>1, <2>5, <3>2, <3>3 DEF PausedAsRun, SectionsRespected
  <2> QED
    BY <2>6, <2>7, <2>8
<1> QED
  BY <1>2, <1>3 DEF WriteRow

\* The only terminal that writes the file was shown what it replaces.
LEMMA SectionsAreRespected ==
    ASSUME EditorsInv, NEW j \in jobs, WriteSection(j)
    PROVE  RowsRespected /\ PausedAsRun /\ (Alone => SectionsRespected)
<1>1. j.what \in Sections /\ j.app \in Apps /\ db' = db
  BY DEF WriteSection, EditorsInv, EditorsType
<1>2. RowsRespected /\ PausedAsRun
  BY <1>1 DEF RowsRespected, PausedAsRun
<1>3. CASE UNCHANGED conf
  BY <1>2, <1>3 DEF SectionsRespected
<1>4. CASE MaySaveNodes(j) /\ SavedAs(j) /\ (Succeeded(j) \/ Failed(j))
  <2>1. SUFFICES ASSUME Alone PROVE SectionsRespected
    BY <1>2
  <2>2. savers' = savers \cup {j.app} /\ jobs' = jobs \ {j}
    BY <1>1, <1>4, SavedIsConfig DEF Succeeded, Failed
  <2>3. memory[j.app] = conf
    BY <2>1, <2>2 DEF Alone
  <2>4. \A s \in Sections \ {j.what} : conf'[s] = conf[s]
    BY <1>1, <1>4, <2>3, SavedIsConfig
  <2>5. conf["groups"] \subseteq conf'["groups"]
    BY <1>1, <1>4, <2>3, SavedIsConfig
  <2>6. j.what \in {"nodes", "names"} => j.shown.text = conf[j.what]
    BY <1>4, <2>3 DEF MaySaveNodes, EditorsInv, NamesHeld
  <2>7. j.what \in {"nodes", "names"} => Seen(j.what, conf[j.what])
    BY <2>2, <2>6 DEF Seen
  <2> QED
    BY <2>4, <2>5, <2>7 DEF SectionsRespected, Sections
<1> QED
  BY <1>2, <1>3, <1>4 DEF WriteSection

\* Only what ends a call, and the end of a round, writes anything.
LEMMA EditorsRespect ==
    EditorsInv /\ [EditorsNext]_editorsVars =>
        [RowsRespected /\ PausedAsRun /\ (Alone => SectionsRespected)]_editorsVars
<1> SUFFICES ASSUME EditorsInv, EditorsNext
             PROVE  RowsRespected /\ PausedAsRun /\ (Alone => SectionsRespected)
  OBVIOUS
<1>1. CASE UNCHANGED <<db, conf>>
  BY <1>1 DEF RowsRespected, PausedAsRun, SectionsRespected
<1>2. CASE \E a \in Apps : Reads(a) \/ Opens(a) \/ Presses(a)
  <2>1. UNCHANGED stored
    BY <1>2 DEF Reads, ListTasks, RefreshPlans, LoadNodes, Reread, Opens, OpenTask, OpenPlan,
         OpenPlanDeletion, OpenNode, OpenRename, OpenCreate, OpenOn, OptionsLoaded, Presses, Arm,
         SaveTask, DeleteTask, SavePlan, DeletePlan, TogglePlan, SaveNode, DeleteNode, Rename,
         Create, LeaveEditor, From, Submit
  <2> QED
    BY <1>1, <2>1 DEF stored
<1>3. CASE \E j \in jobs : WriteRow(j) \/ WriteSection(j)
  BY <1>3, RowsAreRespected, SectionsAreRespected
<1>4. CASE ClaimDue
  BY <1>1, <1>4 DEF ClaimDue, stored
<1>5. CASE Finish
  <2>1. CASE UNCHANGED db
    BY <1>1, <1>5, <2>1 DEF Finish
  <2>2. CASE /\ db["plan"].there /\ db["plan"].version = round.version
             /\ db' = [db EXCEPT !["plan"].on = FALSE]
    <3>1. db \in [Rows -> RowType] /\ round \in RowType /\ round.there /\ conf' = conf
      BY <1>5 DEF Finish, EditorsInv, EditorsType, RowsSound
    <3>2. \A r \in Rows : db'[r].text = db[r].text
      BY <2>2, <3>1 DEF RowType
    <3>3. round.text = db["plan"].text
      BY <2>2, <3>1 DEF EditorsInv, CopiesSound, Copy, Rows, RowType
    <3> QED
      BY <3>1, <3>2, <3>3 DEF RowsRespected, PausedAsRun, SectionsRespected
  <2> QED
    BY <1>5, <2>1, <2>2 DEF Finish
<1> QED
  BY <1>2, <1>3, <1>4, <1>5 DEF EditorsNext

(* save, delete, finish and the savers of the controller: nobody replaces or *)
(* deletes what he was not shown, no round pauses a plan it did not run, and *)
(* as long as one terminal writes the configuration nothing in it is lost;   *)
(* for any number of terminals, editors and saves.                           *)
THEOREM NothingIsOverwritten == DeskSpec => NothingOverwritten
<1>1. DeskInit => EditorsInv
  BY EditorsStart DEF DeskInit
<1>2. EditorsInv /\ [DeskNext]_deskVars => EditorsInv'
  BY EditorsStep DEF DeskNext, AtDashboard, AtWorkspace, AtEditor, deskVars
<1>3. EditorsInv /\ [DeskNext]_deskVars =>
          [RowsRespected /\ PausedAsRun /\ (Alone => SectionsRespected)]_editorsVars
  BY EditorsRespect DEF DeskNext, AtDashboard, AtWorkspace, AtEditor, deskVars
<1> HIDE DEF EditorsInv
<1> QED
  BY <1>1, <1>2, <1>3, PTL DEF DeskSpec, NothingOverwritten

-----------------------------------------------------------------------------
(* Terminal *)

Alive == {n \in Sessions : handle[n] \in {"open", "draining"}}

Stages == {"setup", "bind", "rebind", "mount", "live", "discard", "discarding", "stuck",
           "close", "close inline", "saving", "draining", "gone"}

\* At each stage, which runtime may be alive and who holds it.
RuntimesInv ==
    /\ stage \in Stages /\ session \in Sessions \cup {0} /\ pending \in Sessions \cup {0}
    /\ handle \in [Sessions -> {"none", "open", "draining", "closed"}]
    /\ stage \in {"setup", "saving", "gone"} => session = 0 /\ pending = 0 /\ Alive = {}
    /\ stage \in {"bind", "rebind"} =>
         /\ session = 0 /\ pending = 0
         /\ \E n \in Sessions : handle[n] = "open" /\ Alive = {n}
    /\ stage \in {"mount", "live"} =>
         session # 0 /\ pending = 0 /\ handle[session] = "open" /\ Alive = {session}
    /\ stage = "discard" =>
         /\ pending = 0
         /\ \E n \in Sessions : handle[n] = "open" /\ Alive = {n} /\ session \in {0, n}
    /\ stage \in {"close", "close inline"} => session # 0 /\ pending = 0
    /\ stage = "discarding" => InHand # 0
    /\ stage \in {"close", "close inline", "discarding", "stuck", "draining"} =>
         Alive \subseteq {InHand} /\ (InHand # 0 => handle[InHand] # "open" /\ handle[InHand] # "none")

TaskType == [session : Sessions \cup {0}, key : Keys \cup {None}, gate : Nat,
             at : {"none", "queued", "running", "ended", "done"}, version : Nat]

CallsType ==
    task \in [Tasks -> TaskType] /\ gates \in [Keys -> [of : Nat, refs : Nat]]

\* The calls that hold a reference to the gate of a key.
Referring(k) == {t \in Tasks : Mine(t) /\ Unfinished(t) /\ task[t].key = k}

(* A gate lives as long as one of its calls does, so that they all have the  *)
(* same; and only the supervisor of an open runtime has calls to start.      *)
GatesInv ==
    /\ \A k \in Keys :
         /\ IsFiniteSet(Referring(k)) /\ Cardinality(Referring(k)) <= gates[k].refs
         /\ gates[k].refs > 0 => gates[k].of # 0
         /\ \A t \in Referring(k) : task[t].gate = gates[k].of
    /\ \A t \in Tasks :
         /\ task[t].at # "none" => task[t].session # 0 /\ task[t].key \in Keys
         /\ task[t].session # 0 => handle[task[t].session] # "none"
         /\ task[t].session # 0 /\ handle[task[t].session] = "open" => task[t].session = session

RunningInv ==
    \A n \in Sessions :
        /\ IsFiniteSet(Running(n)) /\ Cardinality(Running(n)) <= Concurrency
        /\ \A t, u \in Running(n) : task[t].key = task[u].key => t = u

CallsInv == CallsType /\ GatesInv /\ RunningInv

DetailType == [run : Runs \cup {None}, version : Nat]

\* The newest answer on its way is of the highlighted run.
ShownInv ==
    /\ store \in [Runs -> Nat] /\ cursor \in Runs \cup {None}
    /\ dialog \in [kind : {"action", "delete"}, run : Runs, version : Nat] \cup {None}
    /\ ask \in [Askers -> [run : Runs \cup {None}, latest : BOOLEAN]]
    /\ pane \in DetailType /\ chosen \in DetailType /\ (chosen # Nothing => chosen.run # None)
    /\ \A a \in Askers : ask[a].latest => ask[a].run = cursor
    /\ \A a \in Askers : ask[a] = NoAsk => ~ask[a].latest
    /\ pane.run # None => /\ chosen \in {Nothing, pane}
                          /\ pane.run = cursor \/ \E a \in Askers : ask[a].latest
    /\ pane = Nothing => chosen = Nothing

LEMMA LeastOf ==
    ASSUME NEW S \in SUBSET Nat, S # {}
    PROVE  (CHOOSE n \in S : \A m \in S : n <= m) \in S
BY LeastExists

LEMMA RuntimesStart == Init => RuntimesInv
BY TerminalAssumption DEF Init, RuntimesInv, Stages, Alive, InHand

\* What the supervisor, a person, the dashboard and other processes do is
\* nothing to the runtimes.
LEMMA OthersLeaveRuntimes ==
    ASSUME Supervise \/ Press \/ Show \/ DispatchSchedules \/ \E r \in Runs : Elsewhere(r)
    PROVE  UNCHANGED <<stage, session, pending, handle>>
BY DEF Supervise, Press, Show, DispatchSchedules, Elsewhere, Start, Act, DeleteRun, End, Done,
       SelectRun, Decide, Prepare, Confirm, Dismiss, Resume, AskDelete, Delete, RefreshStep,
       ReadList, LoseList, ListEmpty, ApplyList, ListFails, Poll, ReadMessages, ShowDetail,
       DetailFails, app

LEMMA NewSessionIs ==
    ASSUME RuntimesInv, NEW n \in Sessions, handle[n] = "open", Alive = {n}
    PROVE  NewSession = n
<1>1. \A m \in Sessions : handle[m] = "open" => m = n
  BY DEF Alive
<1>2. NewSession \in Sessions /\ handle[NewSession] = "open"
  BY DEF NewSession
<1> QED
  BY <1>1, <1>2

LEMMA BuiltIs ==
    ASSUME RuntimesInv, Built
    PROVE  /\ NewHandle \in Sessions /\ handle[NewHandle] = "none"
           /\ handle' = [handle EXCEPT ![NewHandle] = "open"]
<1>1. Unbuilt \in SUBSET Nat /\ Unbuilt # {}
  BY TerminalAssumption DEF Built, Unbuilt
<1>2. NewHandle \in Unbuilt
  BY <1>1, LeastOf DEF NewHandle
<1> QED
  BY <1>2 DEF Built, Unbuilt

LEMMA SwitchKeepsRuntimes == RuntimesInv /\ Switch => RuntimesInv'
<1> SUFFICES ASSUME RuntimesInv, Switch PROVE RuntimesInv'
  OBVIOUS
<1> USE TerminalAssumption DEF Stages
<1>1. CASE SetupDone \/ (CancelSetup /\ stage' = "bind") \/ Saved
  <2>1. /\ Built /\ stage' \in {"bind", "rebind"} /\ UNCHANGED <<session, pending>>
        /\ stage \in {"setup", "saving"}
    BY <1>1 DEF SetupDone, CancelSetup, Saved
  <2>2. PICK n \in Sessions : handle' = [handle EXCEPT ![n] = "open"]
    BY <2>1, BuiltIs
  <2>3. session = 0 /\ pending = 0 /\ Alive = {}
    BY <2>1 DEF RuntimesInv
  <2>4. Alive' = {n} /\ handle'[n] = "open"
    BY <2>2, <2>3 DEF Alive, RuntimesInv
  <2> QED
    BY <2>1, <2>2, <2>3, <2>4 DEF RuntimesInv
<1>2. CASE CancelSetup /\ stage' # "bind"
  BY <1>2 DEF CancelSetup, RuntimesInv, Alive, InHand
<1>3. CASE BindFails \/ Mounted \/ MountFails \/ NothingActivated \/ Quit
  BY <1>3 DEF BindFails, Mounted, MountFails, NothingActivated, Quit, RuntimesInv, Alive, InHand
<1>4. CASE BindRuntime \/ RebindRuntime
  <2>1. PICK n \in Sessions : handle[n] = "open" /\ Alive = {n}
    BY <1>4 DEF BindRuntime, RebindRuntime, RuntimesInv
  <2>2. session' = n /\ stage' = "mount" /\ UNCHANGED <<pending, handle>> /\ pending = 0
    BY <1>4, <2>1, NewSessionIs DEF BindRuntime, RebindRuntime, RuntimesInv
  <2>3. Alive' = {n} /\ n # 0
    BY <2>1, <2>2 DEF Alive
  <2> QED
    BY <2>1, <2>2, <2>3 DEF RuntimesInv
<1>5. CASE Discard
  <2>1. PICK n \in Sessions : handle[n] = "open" /\ Alive = {n} /\ session \in {0, n}
    BY <1>5 DEF Discard, RuntimesInv
  <2>2. /\ handle' = [handle EXCEPT ![n] = "draining"] /\ stage' = "discarding"
        /\ pending' = (IF session = 0 THEN n ELSE 0) /\ session' = session
    BY <1>5, <2>1, NewSessionIs DEF Discard
  <2>3. InHand' = n /\ n # 0
    BY <2>1, <2>2 DEF InHand
  <2> QED
    BY <2>1, <2>2, <2>3 DEF RuntimesInv, Alive
<1>6. CASE Discarded \/ ClosedInline \/ Closed \/ CloseFails
  <2>1. /\ handle' = handle /\ session' = 0 /\ pending' = 0 /\ stage' \in {"setup", "saving"}
        /\ Alive \subseteq {InHand} /\ CloseComplete(InHand)
    BY <1>6 DEF Discarded, ClosedInline, Closed, CloseFails, RuntimesInv, InHand
  <2>2. Alive' = {}
    BY <2>1 DEF Alive, CloseComplete
  <2> QED
    BY <2>1, <2>2 DEF RuntimesInv
<1>7. CASE DiscardLate \/ CloseLate
  BY <1>7 DEF DiscardLate, CloseLate, RuntimesInv, Alive, InHand
<1>8. CASE SaveInline \/ BeginReconfigure
  BY <1>8 DEF SaveInline, BeginReconfigure, Before, CloseSession, RuntimesInv, Alive, InHand
<1>9. CASE Drain
  BY <1>9 DEF Drain, CloseSession, RuntimesInv, Alive, InHand
<1>10. CASE Drained
  BY <1>10 DEF Drained, CloseComplete, RuntimesInv, Alive, InHand
<1> QED
  BY <1>1, <1>2, <1>3, <1>4, <1>5, <1>6, <1>7, <1>8, <1>9, <1>10 DEF Switch

LEMMA RuntimesStep == RuntimesInv /\ [Next]_vars => RuntimesInv'
<1> SUFFICES ASSUME RuntimesInv, [Next]_vars PROVE RuntimesInv'
  OBVIOUS
<1>1. CASE UNCHANGED <<stage, session, pending, handle>>
  BY <1>1 DEF RuntimesInv, Alive, InHand
<1>2. CASE \E n \in Sessions : HandleCloses(n)
  BY <1>2 DEF HandleCloses, RuntimesInv, Alive, InHand
<1> QED
  BY <1>1, <1>2, OthersLeaveRuntimes, SwitchKeepsRuntimes DEF Next, vars, app

LEMMA CallsStart == Init => CallsInv
<1> SUFFICES ASSUME Init PROVE CallsInv
  OBVIOUS
<1> USE TerminalAssumption
<1>1. CallsType
  BY DEF Init, CallsType, TaskType, NoTask, NoGate, Keys
<1>2. /\ \A k \in Keys : Referring(k) = {} /\ gates[k].refs = 0
      /\ \A n \in Sessions : Running(n) = {}
  BY DEF Init, Referring, Mine, Unfinished, Running, NoTask, NoGate
<1>3. \A t \in Tasks : task[t].at = "none" /\ task[t].session = 0
  BY DEF Init, NoTask
<1>4. \A S : S = {} => IsFiniteSet(S) /\ Cardinality(S) = 0
  BY FS_EmptySet
<1>5. GatesInv
  <2>1. ASSUME NEW k \in Keys
        PROVE  /\ IsFiniteSet(Referring(k)) /\ Cardinality(Referring(k)) = 0
               /\ gates[k].refs = 0 /\ Referring(k) = {}
    BY <1>2, <1>4
  <2> QED
    BY <1>3, <2>1 DEF GatesInv
<1>6. RunningInv
  <2>1. ASSUME NEW n \in Sessions
        PROVE  IsFiniteSet(Running(n)) /\ Cardinality(Running(n)) = 0 /\ Running(n) = {}
    BY <1>2, <1>4
  <2> QED
    BY <2>1 DEF RunningInv
<1> QED
  BY <1>1, <1>5, <1>6 DEF CallsInv

\* Calls end or are cancelled, runtimes are built, close and are let go.
LEMMA FewerCalls ==
    ASSUME CallsInv, RuntimesInv, UNCHANGED gates,
           task' \in [Tasks -> TaskType],
           \A t \in Tasks :
               /\ task'[t].session = task[t].session /\ task'[t].key = task[t].key
               /\ task'[t].gate = task[t].gate
               /\ task[t].at = "none" <=> task'[t].at = "none"
               /\ task'[t].at \in {"queued", "running", "ended"} =>
                      task[t].at \in {"queued", "running", "ended"}
               /\ task'[t].at = "running" => task[t].at = "running",
           session' = session \/ (session' = 0 /\ \A n \in Sessions : handle'[n] # "open"),
           \A n \in Sessions : /\ handle[n] # "none" => handle'[n] # "none"
                               /\ handle'[n] = "open" => handle[n] \in {"open", "none"}
    PROVE  CallsInv'
<1>1. CallsType'
  BY DEF CallsInv, CallsType
<1>2. \A t \in Tasks : task[t].session \in Sessions \cup {0}
  BY DEF CallsInv, CallsType, TaskType
<1>3. ASSUME NEW k \in Keys
      PROVE  /\ IsFiniteSet(Referring(k)') /\ Cardinality(Referring(k)') <= gates'[k].refs
             /\ gates'[k].refs > 0 => gates'[k].of # 0
             /\ \A t \in Referring(k)' : task'[t].gate = gates'[k].of
  <2>1. Referring(k)' \in SUBSET Referring(k)
    BY DEF Referring, Mine, Unfinished
  <2>2. /\ IsFiniteSet(Referring(k)) /\ Cardinality(Referring(k)) <= gates[k].refs
        /\ gates[k].refs > 0 => gates[k].of # 0
        /\ \A t \in Referring(k) : task[t].gate = gates[k].of
        /\ gates[k].refs \in Nat
    BY DEF CallsInv, CallsType, GatesInv
  <2>3. /\ IsFiniteSet(Referring(k)') /\ Cardinality(Referring(k)') <= Cardinality(Referring(k))
        /\ Cardinality(Referring(k)') \in Nat /\ Cardinality(Referring(k)) \in Nat
    BY <2>1, <2>2, FS_Subset, FS_CardinalityType
  <2>4. \A t \in Referring(k)' : task'[t].gate = task[t].gate
    BY DEF Referring
  <2>5. Cardinality(Referring(k)') <= gates[k].refs
    BY <2>2, <2>3
  <2> QED
    BY <2>1, <2>2, <2>3, <2>4, <2>5
<1>4. GatesInv'
  <2>1. \A t \in Tasks :
           /\ task'[t].at # "none" => task'[t].session # 0 /\ task'[t].key \in Keys
           /\ task'[t].session # 0 => handle'[task'[t].session] # "none"
           /\ task'[t].session # 0 /\ handle'[task'[t].session] = "open" =>
                  task'[t].session = session'
    BY <1>2 DEF CallsInv, GatesInv
  <2> QED
    BY <1>3, <2>1 DEF GatesInv
<1>5. ASSUME NEW n \in Sessions
      PROVE  /\ IsFiniteSet(Running(n)') /\ Cardinality(Running(n)') <= Concurrency
             /\ \A t, u \in Running(n)' : task'[t].key = task'[u].key => t = u
  <2>1. Running(n)' \in SUBSET Running(n)
    BY DEF Running
  <2>2. /\ IsFiniteSet(Running(n)) /\ Cardinality(Running(n)) <= Concurrency
        /\ \A t, u \in Running(n) : task[t].key = task[u].key => t = u
    BY DEF CallsInv, RunningInv
  <2>3. /\ IsFiniteSet(Running(n)') /\ Cardinality(Running(n)') <= Cardinality(Running(n))
        /\ Cardinality(Running(n)') \in Nat /\ Cardinality(Running(n)) \in Nat
    BY <2>1, <2>2, FS_Subset, FS_CardinalityType
  <2>4. Cardinality(Running(n)') <= Concurrency
    BY <2>2, <2>3, TerminalAssumption
  <2>5. \A t \in Running(n)' : task'[t].key = task[t].key
    BY DEF Running
  <2> QED
    BY <2>1, <2>2, <2>3, <2>4, <2>5
<1>6. RunningInv'
  BY <1>5 DEF RunningInv
<1> QED
  BY <1>1, <1>4, <1>6 DEF CallsInv

LEMMA SubmittedKeeps ==
    ASSUME CallsInv, RuntimesInv, NEW k \in Keys, NEW v \in Nat, Submitted(k, v),
           UNCHANGED <<session, handle>>
    PROVE  CallsInv'
<1> USE TerminalAssumption
<1> DEFINE free == {t \in Tasks : task[t] = NoTask}
<1> DEFINE t == CHOOSE i \in free : \A j \in free : i <= j
<1>1. t \in free
  BY LeastOf DEF Submitted
<1> DEFINE g == Gate(k, t)
           new == [session |-> session, key |-> k, gate |-> g, at |-> "queued", version |-> v]
<1>2. /\ gates' = [gates EXCEPT ![k] = [of |-> g, refs |-> gates[k].refs + 1]]
      /\ task' = [task EXCEPT ![t] = new]
      /\ session # 0 /\ handle[session] = "open"
  BY DEF Submitted, Open
<1> HIDE DEF t
<1>3. t \in Tasks /\ task[t].at = "none" /\ t \in Nat \ {0}
  BY <1>1 DEF NoTask
<1>4. session \in Sessions
  BY <1>2 DEF RuntimesInv
<1>5. gates[k].of \in Nat /\ gates[k].refs \in Nat /\ g \in Nat /\ g # 0
  BY <1>3 DEF CallsInv, CallsType, Gate
<1>6. new \in TaskType /\ new.session = session /\ new.key = k /\ new.gate = g /\ new.at = "queued"
  <2>1. \A n \in Nat : [session |-> session, key |-> k, gate |-> n, at |-> "queued", version |-> v]
                         \in TaskType
    BY <1>4 DEF TaskType
  <2> QED
    BY <1>5, <2>1
<1>7. \A u \in Tasks : task'[u] = IF u = t THEN new ELSE task[u]
  BY <1>2, <1>3 DEF CallsInv, CallsType
<1>8. \A j \in Keys : /\ gates'[j].of = IF j = k THEN g ELSE gates[j].of
                      /\ gates'[j].refs = IF j = k THEN gates[k].refs + 1 ELSE gates[j].refs
  BY <1>2 DEF CallsInv, CallsType
<1>9. /\ IsFiniteSet(Referring(k)) /\ Cardinality(Referring(k)) <= gates[k].refs
      /\ \A u \in Referring(k) : task[u].gate = gates[k].of
      /\ gates[k].refs > 0 => gates[k].of # 0
      /\ Cardinality(Referring(k)) \in Nat
  BY FS_CardinalityType DEF CallsInv, GatesInv
<1>10. t \notin Referring(k)
  BY <1>3 DEF Referring, Unfinished
<1>11. \A u \in Referring(k) : task[u].gate = g
  <2>1. CASE gates[k].of # 0
    BY <1>9, <2>1 DEF Gate
  <2>2. CASE gates[k].of = 0
    <3>1. Cardinality(Referring(k)) = 0
      BY <1>5, <1>9, <2>2
    <3> QED
      BY <1>9, <3>1, FS_EmptySet
  <2> QED
    BY <2>1, <2>2
<1>12. CallsType'
  <2>1. task' \in [Tasks -> TaskType]
    BY <1>2, <1>3, <1>6 DEF CallsInv, CallsType
  <2>2. gates' \in [Keys -> [of : Nat, refs : Nat]]
    <3>1. [of |-> g, refs |-> gates[k].refs + 1] \in [of : Nat, refs : Nat]
      BY <1>5
    <3> HIDE DEF g
    <3> QED
      BY <1>2, <3>1 DEF CallsInv, CallsType
  <2> QED
    BY <2>1, <2>2 DEF CallsType
<1> HIDE DEF new, g, free
<1>13. Referring(k)' = Referring(k) \cup {t}
  BY <1>2, <1>3, <1>6, <1>7, <1>10 DEF Referring, Mine, Unfinished
<1>14. \A j \in Keys \ {k} : Referring(j)' = Referring(j)
  BY <1>2, <1>3, <1>6, <1>7 DEF Referring, Mine, Unfinished
<1>15. ASSUME NEW j \in Keys
       PROVE  /\ IsFiniteSet(Referring(j)') /\ Cardinality(Referring(j)') <= gates'[j].refs
              /\ gates'[j].refs > 0 => gates'[j].of # 0
              /\ \A u \in Referring(j)' : task'[u].gate = gates'[j].of
  <2>1. CASE j = k
    <3>1. IsFiniteSet(Referring(k)') /\ Cardinality(Referring(k)') = Cardinality(Referring(k)) + 1
      BY <1>9, <1>10, <1>13, FS_AddElement
    <3>2. \A u \in Referring(k)' : task'[u].gate = g
      BY <1>6, <1>7, <1>11, <1>13 DEF Referring
    <3>3. Cardinality(Referring(k)') <= gates[k].refs + 1
      BY <1>5, <1>9, <3>1
    <3> QED
      BY <1>5, <1>8, <2>1, <3>1, <3>2, <3>3
  <2>2. CASE j # k
    <3>1. \A u \in Referring(j) : task'[u].gate = task[u].gate
      BY <1>3, <1>7 DEF Referring, Unfinished
    <3> QED
      BY <1>8, <1>14, <2>2, <3>1 DEF CallsInv, GatesInv
  <2> QED
    BY <2>1, <2>2
<1>16. GatesInv'
  <2>1. \A u \in Tasks :
           /\ task'[u].at # "none" => task'[u].session # 0 /\ task'[u].key \in Keys
           /\ task'[u].session # 0 => handle'[task'[u].session] # "none"
           /\ task'[u].session # 0 /\ handle'[task'[u].session] = "open" =>
                  task'[u].session = session'
    BY <1>2, <1>6, <1>7 DEF CallsInv, GatesInv
  <2> QED
    BY <1>15, <2>1 DEF GatesInv
<1>17. RunningInv'
  <2>1. \A n \in Sessions : Running(n)' = Running(n)
    BY <1>3, <1>6, <1>7 DEF Running
  <2>2. \A n \in Sessions : \A u \in Running(n) : task'[u].key = task[u].key
    BY <1>3, <1>7 DEF Running
  <2> QED
    BY <2>1, <2>2 DEF CallsInv, RunningInv
<1> QED
  BY <1>12, <1>16, <1>17 DEF CallsInv

LEMMA StartKeeps ==
    ASSUME CallsInv, RuntimesInv, NEW t \in Tasks, Start(t)
    PROVE  CallsInv'
<1> USE TerminalAssumption
<1>1. /\ task' = [task EXCEPT ![t].at = "running"] /\ UNCHANGED <<gates, session, handle>>
      /\ task[t].at = "queued" /\ task[t].session = session /\ session # 0 /\ ~Held(t)
      /\ Cardinality(Running(session)) < Concurrency
  BY DEF Start, Mine, app
<1>2. session \in Sessions /\ task[t].key \in Keys
  BY <1>1 DEF RuntimesInv, CallsInv, GatesInv
<1>3. /\ \A u \in Tasks : /\ task'[u].session = task[u].session /\ task'[u].key = task[u].key
                          /\ task'[u].gate = task[u].gate
                          /\ u # t => task'[u].at = task[u].at
      /\ task'[t].at = "running"
  BY <1>1 DEF CallsInv, CallsType, TaskType
<1>4. CallsType'
  <2>1. task' \in [Tasks -> TaskType]
    BY <1>1 DEF CallsInv, CallsType, TaskType
  <2> QED
    BY <1>1, <2>1 DEF CallsInv, CallsType
<1>5. \A k \in Keys : Referring(k)' = Referring(k)
  BY <1>1, <1>3 DEF Referring, Mine, Unfinished
<1>6. GatesInv'
  <2>1. \A k \in Keys : Referring(k) \subseteq Tasks
    BY DEF Referring
  <2>2. \A u \in Tasks : /\ task[u].at # "none" <=> task'[u].at # "none"
                         /\ task'[u].session = task[u].session /\ task'[u].key = task[u].key
                         /\ task'[u].gate = task[u].gate
    BY <1>1, <1>3
  <2> QED
    BY <1>1, <1>5, <2>1, <2>2 DEF CallsInv, GatesInv
<1>7. Running(session)' = Running(session) \cup {t}
  BY <1>1, <1>3 DEF Running
<1>8. \A n \in Sessions \ {session} : Running(n)' = Running(n)
  BY <1>1, <1>3 DEF Running
<1>9. \A u \in Running(session) : task[u].key # task[t].key
  <2> SUFFICES ASSUME NEW u \in Running(session), task[u].key = task[t].key PROVE FALSE
    OBVIOUS
  <2>1. u \in Referring(task[t].key) /\ t \in Referring(task[t].key)
    BY <1>1 DEF Running, Referring, Mine, Unfinished
  <2>2. task[u].gate = task[t].gate
    BY <1>2, <2>1 DEF CallsInv, GatesInv
  <2> QED
    BY <1>1, <2>2 DEF Held, Running
<1>10. ASSUME NEW n \in Sessions
       PROVE  /\ IsFiniteSet(Running(n)') /\ Cardinality(Running(n)') <= Concurrency
              /\ \A u, w \in Running(n)' : task'[u].key = task'[w].key => u = w
  <2>1. \A u \in Tasks : task'[u].key = task[u].key
    BY <1>1, <1>3
  <2>2. CASE n = session
    <3>1. IsFiniteSet(Running(session)) /\ t \notin Running(session)
      BY <1>1, <1>2 DEF Running, CallsInv, RunningInv
    <3>2. /\ IsFiniteSet(Running(session)')
          /\ Cardinality(Running(session)') = Cardinality(Running(session)) + 1
          /\ Cardinality(Running(session)) \in Nat
      BY <1>7, <3>1, FS_AddElement, FS_CardinalityType
    <3>3. Cardinality(Running(session)') <= Concurrency
      BY <1>1, <3>2
    <3>4. \A u, w \in Running(session)' : task[u].key = task[w].key => u = w
      BY <1>2, <1>7, <1>9 DEF CallsInv, RunningInv
    <3>5. \A u \in Running(session)' : u \in Tasks
      BY <1>7 DEF Running
    <3> QED
      BY <1>1, <2>1, <2>2, <3>2, <3>3, <3>4, <3>5
  <2>3. CASE n # session
    <3>1. Running(n)' = Running(n) /\ Running(n) \subseteq Tasks
      BY <1>8, <2>3 DEF Running
    <3> QED
      BY <2>1, <3>1 DEF CallsInv, RunningInv
  <2> QED
    BY <2>2, <2>3
<1> QED
  BY <1>4, <1>6, <1>10 DEF CallsInv, RunningInv

LEMMA DoneKeeps ==
    ASSUME CallsInv, RuntimesInv, NEW t \in Tasks, Done(t)
    PROVE  CallsInv'
<1>1. /\ task' = [task EXCEPT ![t].at = "done"] /\ UNCHANGED <<session, handle>>
      /\ task[t].at = "ended"
  BY DEF Done, app
<1>2. task' \in [Tasks -> TaskType]
  BY <1>1 DEF CallsInv, CallsType, TaskType
<1>3. /\ \A u \in Tasks : /\ task'[u].session = task[u].session /\ task'[u].key = task[u].key
                          /\ task'[u].gate = task[u].gate
                          /\ u # t => task'[u].at = task[u].at
      /\ task'[t].at = "done"
  BY <1>1 DEF CallsInv, CallsType, TaskType
<1>4. CASE ~Mine(t)
  <2>1. gates' = gates
    BY <1>4 DEF Done
  <2> QED
    BY <1>1, <1>2, <1>3, <2>1, FewerCalls
<1>5. CASE Mine(t)
  <2>1. PICK k \in Keys : task[t].key = k
    BY <1>1 DEF CallsInv, GatesInv
  <2>2. PICK g : g = DropGate(k) /\ gates' = [gates EXCEPT ![k] = g] /\ t \in Referring(k)
    BY <1>1, <1>5, <2>1 DEF Done, Referring, Unfinished
  <2>3. /\ IsFiniteSet(Referring(k)) /\ Cardinality(Referring(k)) <= gates[k].refs
        /\ \A u \in Referring(k) : task[u].gate = gates[k].of
        /\ gates[k].refs > 0 => gates[k].of # 0
        /\ gates[k].refs \in Nat /\ gates[k].of \in Nat /\ gates[k] \in [of : Nat, refs : Nat]
    BY <2>1 DEF CallsInv, CallsType, GatesInv
  <2>4. Referring(k)' = Referring(k) \ {t}
    BY <1>1, <1>3, <2>1 DEF Referring, Mine, Unfinished
  <2>5. \A j \in Keys \ {k} : Referring(j)' = Referring(j)
    BY <1>1, <1>3, <2>1 DEF Referring, Mine, Unfinished
  <2>6. /\ IsFiniteSet(Referring(k)') /\ Cardinality(Referring(k)') = Cardinality(Referring(k)) - 1
        /\ Cardinality(Referring(k)) \in Nat /\ Cardinality(Referring(k)') \in Nat
    <3>1. IsFiniteSet(Referring(k) \ {t})
          /\ Cardinality(Referring(k) \ {t}) = Cardinality(Referring(k)) - 1
      BY <2>2, <2>3, FS_RemoveElement
    <3> QED
      BY <2>3, <2>4, <3>1, FS_CardinalityType
  <2>7. gates[k].refs >= 1
    BY <2>3, <2>6
  <2>8. /\ g \in [of : Nat, refs : Nat] /\ g.refs = gates[k].refs - 1
        /\ g.refs > 0 => g.of = gates[k].of
    <3>1. CASE gates[k].refs = 1
      BY <2>2, <2>3, <3>1 DEF DropGate, NoGate
    <3>2. CASE gates[k].refs # 1
      <4>1. g = [gates[k] EXCEPT !.refs = @ - 1] /\ gates[k].refs - 1 \in Nat
        BY <2>2, <2>3, <2>7, <3>2 DEF DropGate
      <4> QED
        BY <2>3, <4>1
    <3> QED
      BY <3>1, <3>2
  <2>9. \A j \in Keys : gates'[j] = IF j = k THEN g ELSE gates[j]
    BY <2>2 DEF CallsInv, CallsType
  <2>10. CallsType'
    BY <1>2, <2>2, <2>8 DEF CallsInv, CallsType
  <2>11. ASSUME NEW j \in Keys
         PROVE  /\ IsFiniteSet(Referring(j)') /\ Cardinality(Referring(j)') <= gates'[j].refs
                /\ gates'[j].refs > 0 => gates'[j].of # 0
                /\ \A u \in Referring(j)' : task'[u].gate = gates'[j].of
    <3>1. CASE j = k
      <4>1. gates'[k] = g /\ Cardinality(Referring(k)') <= g.refs
        BY <2>1, <2>3, <2>6, <2>8, <2>9
      <4>2. \A u \in Referring(k)' : u \in Tasks /\ u \in Referring(k) /\ g.refs > 0
        <5>1. CASE g.refs > 0
          BY <2>4, <5>1 DEF Referring
        <5>2. CASE ~(g.refs > 0)
          <6>1. Cardinality(Referring(k)') = 0
            BY <2>6, <2>8, <2>3, <4>1, <5>2
          <6> QED
            BY <2>6, <6>1, FS_EmptySet
        <5> QED
          BY <5>1, <5>2
      <4>3. \A u \in Referring(k)' : task'[u].gate = g.of
        BY <1>3, <2>3, <2>8, <4>2
      <4>4. g.refs > 0 => g.of # 0
        BY <2>3, <2>7, <2>8
      <4> QED
        BY <2>6, <3>1, <4>1, <4>3, <4>4
    <3>2. CASE j # k
      <4>1. Referring(j)' = Referring(j) /\ gates'[j] = gates[j] /\ Referring(j) \subseteq Tasks
        BY <2>5, <2>9, <3>2 DEF Referring
      <4> QED
        BY <1>3, <4>1 DEF CallsInv, GatesInv
    <3> QED
      BY <3>1, <3>2
  <2>12. \A u \in Tasks :
            /\ task'[u].at # "none" => task'[u].session # 0 /\ task'[u].key \in Keys
            /\ task'[u].session # 0 => handle'[task'[u].session] # "none"
            /\ task'[u].session # 0 /\ handle'[task'[u].session] = "open" =>
                   task'[u].session = session'
    BY <1>1, <1>3 DEF CallsInv, GatesInv
  <2>13. GatesInv'
    BY <2>11, <2>12 DEF GatesInv
  <2>14. RunningInv'
    <3>1. \A n \in Sessions : Running(n)' = Running(n) /\ Running(n) \subseteq Tasks
      BY <1>1, <1>3 DEF Running
    <3> QED
      BY <1>3, <3>1 DEF CallsInv, RunningInv
  <2> QED
    BY <2>10, <2>13, <2>14 DEF CallsInv
<1> QED
  BY <1>4, <1>5

\* A supervisor that is new has no calls.
LEMMA BindKeeps ==
    ASSUME CallsInv, RuntimesInv, BindRuntime \/ RebindRuntime
    PROVE  CallsInv'
<1>1. PICK n \in Sessions : handle[n] = "open" /\ Alive = {n} /\ session = 0
  BY DEF BindRuntime, RebindRuntime, RuntimesInv
<1>2. session' = n /\ gates' = [k \in Keys |-> NoGate] /\ UNCHANGED <<task, handle>>
  BY <1>1, NewSessionIs DEF BindRuntime, RebindRuntime
<1>3. n # 0
  BY TerminalAssumption
<1>4. \A t \in Tasks : task[t].session # n
  BY <1>1, <1>3 DEF CallsInv, GatesInv
<1>5. CallsType'
  BY <1>2 DEF CallsInv, CallsType, NoGate
<1>6. \A S : S = {} => IsFiniteSet(S) /\ Cardinality(S) = 0
  BY FS_EmptySet
<1>7. ASSUME NEW k \in Keys
      PROVE  /\ IsFiniteSet(Referring(k)') /\ Cardinality(Referring(k)') = 0
             /\ gates'[k].refs = 0 /\ Referring(k)' = {}
  <2>1. Referring(k)' = {}
    BY <1>2, <1>4 DEF Referring, Mine
  <2> QED
    BY <1>2, <1>6, <2>1 DEF NoGate
<1>8. \A t \in Tasks :
         /\ task'[t].at # "none" => task'[t].session # 0 /\ task'[t].key \in Keys
         /\ task'[t].session # 0 => handle'[task'[t].session] # "none"
         /\ task'[t].session # 0 /\ handle'[task'[t].session] = "open" =>
                task'[t].session = session'
  BY <1>1, <1>2 DEF CallsInv, GatesInv
<1>9. GatesInv'
  BY <1>7, <1>8 DEF GatesInv
<1>10. RunningInv'
  BY <1>2 DEF CallsInv, RunningInv, Running
<1> QED
  BY <1>5, <1>9, <1>10 DEF CallsInv

LEMMA CancelledAre ==
    ASSUME CallsInv, NEW n, task' = Cancelled(n)
    PROVE  /\ task' \in [Tasks -> TaskType]
           /\ \A t \in Tasks :
               /\ task'[t].session = task[t].session /\ task'[t].key = task[t].key
               /\ task'[t].gate = task[t].gate
               /\ task[t].at = "none" <=> task'[t].at = "none"
               /\ task'[t].at \in {"queued", "running", "ended"} =>
                      task[t].at \in {"queued", "running", "ended"}
               /\ task'[t].at = "running" => task[t].at = "running"
<1>1. \A t \in Tasks : task[t] \in TaskType /\ [task[t] EXCEPT !.at = "done"] \in TaskType
  BY DEF CallsInv, CallsType, TaskType
<1>2. \A t \in Tasks : task'[t] = IF task[t].session = n /\ task[t].at = "queued"
                                 THEN [task[t] EXCEPT !.at = "done"] ELSE task[t]
  BY DEF Cancelled
<1>3. task' \in [Tasks -> TaskType]
  BY <1>1 DEF Cancelled
<1>4. \A t \in Tasks :
         LET d == [task[t] EXCEPT !.at = "done"]
         IN  d.session = task[t].session /\ d.key = task[t].key /\ d.gate = task[t].gate
             /\ d.at = "done"
  BY <1>1 DEF TaskType
<1> QED
  BY <1>2, <1>3, <1>4

LEMMA CallsStay ==
    ASSUME CallsInv, UNCHANGED <<session, handle, gates, task>>
    PROVE  CallsInv'
<1>1. CallsType'
  BY DEF CallsInv, CallsType
<1>2. \A k \in Keys : Referring(k)' = Referring(k) /\ Referring(k) \subseteq Tasks
  BY DEF Referring, Mine, Unfinished
<1>3. \A n \in Sessions : Running(n)' = Running(n)
  BY DEF Running
<1>4. GatesInv'
  BY <1>2 DEF CallsInv, GatesInv
<1>5. RunningInv'
  BY <1>3 DEF CallsInv, RunningInv
<1> QED
  BY <1>1, <1>4, <1>5 DEF CallsInv

LEMMA SwitchKeepsCalls ==
    ASSUME CallsInv, RuntimesInv, RuntimesInv', Switch
    PROVE  CallsInv'
<1> USE TerminalAssumption
<1>1. CASE BindRuntime \/ RebindRuntime
  BY <1>1, BindKeeps
<1>2. CASE UNCHANGED <<session, handle, calls>>
  BY <1>2, CallsStay DEF calls
<1>3. CASE SetupDone \/ (CancelSetup /\ stage' = "bind") \/ Saved
  <2>1. Built /\ UNCHANGED <<session, gates, task>>
    BY <1>3 DEF SetupDone, CancelSetup, Saved, calls
  <2>2. /\ NewHandle \in Sessions /\ handle[NewHandle] = "none"
        /\ handle' = [handle EXCEPT ![NewHandle] = "open"]
    BY <2>1, BuiltIs
  <2>3. \A n \in Sessions : /\ handle[n] # "none" => handle'[n] # "none"
                            /\ handle'[n] = "open" => handle[n] \in {"open", "none"}
    BY <2>2 DEF RuntimesInv
  <2>4. task' \in [Tasks -> TaskType]
    BY <2>1 DEF CallsInv, CallsType
  <2> QED
    BY <2>1, <2>3, <2>4, FewerCalls
<1>4. CASE Discard \/ SaveInline \/ BeginReconfigure \/ (Drain /\ CloseSession)
  <2>1. PICK n : task' = Cancelled(n) /\ handle' = [handle EXCEPT ![n] = "draining"]
    BY <1>4 DEF Discard, SaveInline, BeginReconfigure, Drain, CloseSession
  <2>2. UNCHANGED <<session, gates>>
    BY <1>4 DEF Discard, SaveInline, BeginReconfigure, Drain
  <2>3. \A m \in Sessions : /\ handle[m] # "none" => handle'[m] # "none"
                            /\ handle'[m] = "open" => handle[m] \in {"open", "none"}
    BY <2>1 DEF RuntimesInv
  <2> QED
    BY <2>1, <2>2, <2>3, CancelledAre, FewerCalls
<1>5. CASE Discarded \/ ClosedInline \/ Closed \/ CloseFails \/ Drained
  <2>1. /\ session' = 0 /\ UNCHANGED <<handle, gates, task>>
        /\ Alive \subseteq {InHand} /\ (InHand # 0 => handle[InHand] # "open")
    BY <1>5 DEF Discarded, ClosedInline, Closed, CloseFails, Drained, calls, RuntimesInv
  <2>2. \A n \in Sessions : handle'[n] # "open"
    BY <2>1 DEF Alive
  <2>3. task' \in [Tasks -> TaskType]
    BY <2>1 DEF CallsInv, CallsType
  <2> QED
    BY <2>1, <2>2, <2>3, FewerCalls
<1>6. CASE \/ CancelSetup /\ stage' # "bind"
           \/ BindFails \/ Mounted \/ MountFails \/ DiscardLate \/ CloseLate \/ NothingActivated
           \/ Quit
  BY <1>2, <1>6 DEF CancelSetup, BindFails, Mounted, MountFails, DiscardLate, CloseLate,
                    NothingActivated, Quit, calls
<1>7. CASE Drain
  <2>1. UNCHANGED <<session, gates>>
    BY <1>7 DEF Drain
  <2> QED
    BY <1>2, <1>4, <1>7, <2>1 DEF Drain, calls
<1> QED
  BY <1>1, <1>3, <1>4, <1>5, <1>6, <1>7 DEF Switch

LEMMA CallsStep == RuntimesInv /\ RuntimesInv' /\ ShownInv /\ CallsInv /\ [Next]_vars => CallsInv'
<1> SUFFICES ASSUME RuntimesInv, RuntimesInv', ShownInv, CallsInv, [Next]_vars PROVE CallsInv'
  OBVIOUS
<1>1. CASE UNCHANGED <<session, handle, gates, task>>
  BY <1>1, CallsStay
<1>2. CASE \E t \in Tasks : Start(t) \/ Done(t)
  BY <1>2, StartKeeps, DoneKeeps
<1>3. CASE \E t \in Tasks : Act(t) \/ End(t)
  <2>1. PICK t \in Tasks : Act(t) \/ End(t)
    BY <1>3
  <2>2. PICK new \in TaskType :
            /\ task' = [task EXCEPT ![t] = new] /\ UNCHANGED <<session, handle, gates>>
            /\ new.session = task[t].session /\ new.key = task[t].key /\ new.gate = task[t].gate
            /\ task[t].at = "running" /\ new.at \in {"running", "ended"}
    <3>1. task[t] \in TaskType
      BY DEF CallsInv, CallsType
    <3>2. CASE Act(t)
      <4>1. PICK r \in Runs :
               /\ store' = [store EXCEPT ![r] = store[r] + 1] /\ store \in [Runs -> Nat]
               /\ task' = [task EXCEPT ![t].version = store'[r]] /\ task[t].at = "running"
        BY <3>2 DEF Act, ShownInv
      <4> DEFINE v == store'[r]
      <4>2. v = store[r] + 1 /\ store[r] \in Nat
        BY <4>1
      <4>3. v \in Nat /\ task' = [task EXCEPT ![t].version = v] /\ task[t].at = "running"
        BY <4>1, <4>2
      <4> HIDE DEF v
      <4> DEFINE new == [task[t] EXCEPT !.version = v]
      <4>4. /\ new \in TaskType /\ new.session = task[t].session /\ new.key = task[t].key
            /\ new.gate = task[t].gate /\ new.at = task[t].at
        BY <3>1, <4>3 DEF TaskType
      <4>5. task' = [task EXCEPT ![t] = new]
        BY <4>3
      <4> HIDE DEF new
      <4> QED
        BY <3>2, <4>3, <4>4, <4>5 DEF Act, app
    <3>3. CASE End(t)
      <4> DEFINE new == [task[t] EXCEPT !.at = "ended"]
      <4>1. /\ new \in TaskType /\ new.session = task[t].session /\ new.key = task[t].key
            /\ new.gate = task[t].gate /\ new.at = "ended"
        BY <3>1 DEF TaskType
      <4>2. task' = [task EXCEPT ![t] = new] /\ task[t].at = "running"
        BY <3>3 DEF End
      <4> HIDE DEF new
      <4> QED
        BY <3>3, <4>1, <4>2 DEF End, app
    <3> QED
      BY <2>1, <3>2, <3>3
  <2>3. \A u \in Tasks : task'[u] = IF u = t THEN new ELSE task[u]
    BY <2>2 DEF CallsInv, CallsType
  <2>4. task' \in [Tasks -> TaskType]
    BY <2>2 DEF CallsInv, CallsType
  <2> QED
    BY <2>2, <2>3, <2>4, FewerCalls
<1>4. CASE Decide \/ Confirm \/ Resume \/ Delete \/ DispatchSchedules
  <2>1. UNCHANGED <<session, handle>>
    BY <1>4 DEF Decide, Confirm, Resume, Delete, DispatchSchedules, app
  <2>2. PICK k \in Keys, v \in Nat : Submitted(k, v)
    <3>1. CASE Decide
      BY <3>1 DEF Decide, ShownInv, DetailType, Keys
    <3>2. CASE Confirm \/ Delete
      BY <3>2 DEF Confirm, Delete, ShownInv, Keys
    <3>3. CASE Resume
      BY <3>3 DEF Resume, ShownInv, Keys
    <3>4. CASE DispatchSchedules
      BY <3>4 DEF DispatchSchedules, Keys
    <3> QED
      BY <1>4, <3>1, <3>2, <3>3, <3>4
  <2> QED
    BY <2>1, <2>2, SubmittedKeeps
<1>5. CASE Switch
  BY <1>5, SwitchKeepsCalls
<1>6. CASE \E n \in Sessions : HandleCloses(n)
  <2>1. PICK n \in Sessions : HandleCloses(n)
    BY <1>6
  <2>2. \A m \in Sessions : /\ handle[m] # "none" => handle'[m] # "none"
                            /\ handle'[m] = "open" => handle[m] \in {"open", "none"}
    BY <2>1 DEF HandleCloses, RuntimesInv
  <2>3. UNCHANGED <<session, gates, task>> /\ task' \in [Tasks -> TaskType]
    BY <2>1 DEF HandleCloses, calls, CallsInv, CallsType
  <2> QED
    BY <2>2, <2>3, FewerCalls
<1>7. CASE \/ \E t \in Tasks : DeleteRun(t)
           \/ \E r \in Runs : SelectRun(r) \/ Elsewhere(r)
           \/ Prepare \/ Dismiss \/ AskDelete \/ Show
  BY <1>1, <1>7 DEF DeleteRun, SelectRun, Elsewhere, Prepare, Dismiss, AskDelete, Show, RefreshStep,
       ReadList, LoseList, ListEmpty, ApplyList, ListFails, Poll, ReadMessages, ShowDetail,
       DetailFails, app, calls
<1>8. CASE UNCHANGED vars
  BY <1>1, <1>8 DEF vars, app, calls
<1> QED
  BY <1>2, <1>3, <1>4, <1>5, <1>6, <1>7, <1>8 DEF Next, Supervise, Press

LEMMA ShownStart == Init => ShownInv
BY TerminalAssumption DEF Init, ShownInv, NoAsk, Nothing, Detail, DetailType, Askers

\* Whoever asks last is answered last, and of the run that is highlighted.
LEMMA AskedKeeps ==
    ASSUME ShownInv, NEW who \in Askers, NEW r \in Runs, cursor' = r, ask' = Asked(who, r),
           UNCHANGED <<store, dialog, pane, chosen>>
    PROVE  ShownInv'
<1>1. r # None
  BY TerminalAssumption
<1>2. \A a \in Askers : /\ ask[a].run \in Runs \cup {None}
                       /\ [ask[a] EXCEPT !.latest = FALSE]
                             \in [run : Runs \cup {None}, latest : BOOLEAN]
                       /\ [ask[a] EXCEPT !.latest = FALSE].latest = FALSE
  BY DEF ShownInv
<1>3. ask' \in [Askers -> [run : Runs \cup {None}, latest : BOOLEAN]]
  BY <1>2 DEF Asked
<1>4. \A a \in Askers :
         ask'[a] = IF a = who THEN [run |-> r, latest |-> TRUE] ELSE [ask[a] EXCEPT !.latest = FALSE]
  BY DEF Asked
<1>5. /\ ask'[who].run = r /\ ask'[who].latest
      /\ \A a \in Askers \ {who} : ask'[a].latest = FALSE
  <2>1. ask'[who] = [run |-> r, latest |-> TRUE]
    BY <1>4
  <2>2. \A a \in Askers \ {who} : ask'[a] = [ask[a] EXCEPT !.latest = FALSE]
    BY <1>4
  <2>3. ask'[who].run = r /\ ask'[who].latest = TRUE
    BY <2>1
  <2>4. \A a \in Askers \ {who} : ask'[a].latest = FALSE
    BY <1>2, <2>2
  <2> QED
    BY <2>3, <2>4
<1>6. NoAsk.run = None /\ NoAsk.latest = FALSE
  BY DEF NoAsk
<1> QED
  BY <1>1, <1>3, <1>5, <1>6 DEF ShownInv

\* A list that is empty, or not to be had, makes the answers late.
LEMMA LateKeeps ==
    ASSUME ShownInv, ask' \in {Late, [a \in Askers |-> NoAsk]}, cursor' = None,
           UNCHANGED <<store, dialog>>,
           \/ pane' = Failure /\ chosen' = chosen
           \/ pane' = Nothing /\ chosen' = Nothing
    PROVE  ShownInv'
<1>1. \A a \in Askers : /\ [ask[a] EXCEPT !.latest = FALSE]
                             \in [run : Runs \cup {None}, latest : BOOLEAN]
                       /\ [ask[a] EXCEPT !.latest = FALSE].latest = FALSE
  BY DEF ShownInv
<1>2. NoAsk \in [run : Runs \cup {None}, latest : BOOLEAN] /\ NoAsk.latest = FALSE
  BY DEF NoAsk
<1>3. /\ ask' \in [Askers -> [run : Runs \cup {None}, latest : BOOLEAN]]
      /\ \A a \in Askers : ask'[a].latest = FALSE
  BY <1>1, <1>2 DEF Late
<1>4. /\ Failure.run = None /\ Failure # Nothing /\ Nothing.run = None
      /\ Failure \in DetailType /\ Nothing \in DetailType
  BY DEF Failure, Nothing, Detail, DetailType
<1> QED
  BY <1>3, <1>4 DEF ShownInv

LEMMA AnswerKeeps ==
    ASSUME ShownInv, NEW a \in Askers, ask[a].run # None, ask' = [ask EXCEPT ![a] = NoAsk],
           UNCHANGED <<store, dialog, cursor>>,
           \/ UNCHANGED <<pane, chosen>> /\ ~Wanted(a)
           \/ pane' = Failure /\ chosen' = chosen
           \/ \E v \in Nat : pane' = Detail(ask[a].run, v) /\ chosen' = pane' /\ Wanted(a)
    PROVE  ShownInv'
<1>1. /\ ask' \in [Askers -> [run : Runs \cup {None}, latest : BOOLEAN]]
      /\ \A b \in Askers : ask'[b] = IF b = a THEN NoAsk ELSE ask[b]
  BY DEF ShownInv, NoAsk
<1>2. NoAsk.latest = FALSE
  BY DEF NoAsk
<1>3. /\ Failure.run = None /\ Failure # Nothing /\ Nothing.run = None
      /\ Failure \in DetailType
  BY DEF Failure, Nothing, Detail, DetailType
<1>4. \A v \in Nat : Detail(ask[a].run, v) \in DetailType /\ Detail(ask[a].run, v).run = ask[a].run
  BY DEF ShownInv, Detail, DetailType
<1>5. ask[a].latest => ask[a].run = cursor
  BY DEF ShownInv
<1>6. CASE UNCHANGED <<pane, chosen>> /\ ~Wanted(a)
  BY <1>1, <1>2, <1>6 DEF ShownInv, Wanted
<1>7. CASE pane' = Failure /\ chosen' = chosen
  BY <1>1, <1>2, <1>3, <1>7 DEF ShownInv
<1>8. CASE \E v \in Nat : pane' = Detail(ask[a].run, v) /\ chosen' = pane' /\ Wanted(a)
  BY <1>1, <1>2, <1>3, <1>4, <1>5, <1>8 DEF ShownInv, Wanted
<1> QED
  BY <1>6, <1>7, <1>8

LEMMA ShownStep == ShownInv /\ [Next]_vars => ShownInv'
<1> SUFFICES ASSUME ShownInv, [Next]_vars PROVE ShownInv'
  OBVIOUS
<1>1. CASE UNCHANGED <<store, cursor, dialog, ask, pane, chosen>>
  BY <1>1 DEF ShownInv
<1>2. CASE \/ ListFails \/ ListEmpty \/ BindRuntime \/ Discard \/ Closed \/ CloseFails \/ CloseLate
           \/ NothingActivated
  BY <1>2, LateKeeps DEF ListFails, ListEmpty, BindRuntime, Discard, Closed, CloseFails, CloseLate,
                         NothingActivated, NoBoard
<1>3. CASE ApplyList \/ \E r \in Runs : SelectRun(r)
  BY <1>3, AskedKeeps DEF ApplyList, SelectRun, Askers
<1>4. ASSUME NEW a \in Askers, ShowDetail(a) \/ DetailFails(a) PROVE ShownInv'
  <2>1. ask[a].run # None /\ ask' = [ask EXCEPT ![a] = NoAsk] /\ UNCHANGED <<store, dialog, cursor>>
    BY <1>4 DEF ShowDetail, DetailFails, Answered
  <2>2. CASE DetailFails(a)
    BY <2>1, <2>2, AnswerKeeps DEF DetailFails
  <2>3. CASE ShowDetail(a)
    <3>1. store[ask[a].run] \in Nat
      BY <2>1 DEF ShownInv
    <3> QED
      BY <2>1, <2>3, <3>1, AnswerKeeps DEF ShowDetail
  <2> QED
    BY <1>4, <2>2, <2>3
<1>5. CASE Decide \/ Resume
  <2>1. chosen' = Nothing /\ UNCHANGED <<store, cursor, dialog, ask, pane>>
    BY <1>5 DEF Decide, Resume
  <2>2. Nothing \in DetailType
    BY DEF Nothing, Detail, DetailType
  <2> QED
    BY <2>1, <2>2 DEF ShownInv
<1>6. CASE Prepare \/ Confirm \/ Dismiss \/ AskDelete \/ Delete
  <2>1. /\ dialog' \in [kind : {"action", "delete"}, run : Runs, version : Nat] \cup {None}
        /\ UNCHANGED <<store, cursor, ask, pane, chosen>>
    BY <1>6 DEF Prepare, Confirm, Dismiss, AskDelete, Delete, board, ShownInv
  <2> QED
    BY <2>1 DEF ShownInv
<1>7. CASE \/ \E t \in Tasks : Act(t) \/ DeleteRun(t)
           \/ \E r \in Runs : Elsewhere(r)
  <2>1. store' \in [Runs -> Nat] /\ UNCHANGED <<cursor, dialog, ask, pane, chosen>>
    BY <1>7 DEF Act, DeleteRun, Elsewhere, board, ShownInv
  <2> QED
    BY <2>1 DEF ShownInv
<1>8. CASE \/ \E t \in Tasks : Start(t) \/ End(t) \/ Done(t)
           \/ ReadList \/ LoseList \/ Poll \/ ReadMessages \/ DispatchSchedules
           \/ \E n \in Sessions : HandleCloses(n)
  BY <1>1, <1>8 DEF Start, End, Done, ReadList, LoseList, Poll, ReadMessages, DispatchSchedules,
                    HandleCloses, board
<1>9. CASE \/ SetupDone \/ CancelSetup \/ BindFails \/ RebindRuntime \/ Mounted \/ MountFails
           \/ Discarded \/ DiscardLate \/ SaveInline \/ BeginReconfigure \/ ClosedInline \/ Saved
           \/ Quit \/ Drain \/ Drained
  BY <1>1, <1>9 DEF SetupDone, CancelSetup, BindFails, RebindRuntime, Mounted, MountFails, Discarded,
       DiscardLate, SaveInline, BeginReconfigure, ClosedInline, Saved, Quit, Drain, Drained, board
<1>10. CASE UNCHANGED vars
  BY <1>1, <1>10 DEF vars, board
<1> QED
  BY <1>2, <1>3, <1>4, <1>5, <1>6, <1>7, <1>8, <1>9, <1>10
  DEF Next, Supervise, Press, Show, Switch, RefreshStep

TerminalInv == RuntimesInv /\ CallsInv /\ ShownInv

LEMMA TerminalStart == DeskInit => TerminalInv
BY RuntimesStart, CallsStart, ShownStart DEF DeskInit, TerminalInv

LEMMA TerminalStep == TerminalInv /\ [DeskNext]_deskVars => TerminalInv'
<1>1. TerminalInv /\ [Next]_vars => TerminalInv'
  BY RuntimesStep, CallsStep, ShownStep DEF TerminalInv
<1> QED
  BY <1>1 DEF DeskNext, AtDashboard, AtWorkspace, AtEditor, deskVars

LEMMA RuntimesAreClosed == RuntimesInv => RuntimesClosed
<1> SUFFICES ASSUME RuntimesInv PROVE RuntimesClosed
  OBVIOUS
<1>1. PICK n : Alive \subseteq {n}
  BY DEF RuntimesInv, Stages
<1>2. Alive = {} \/ Alive = {n}
  BY <1>1
<1>3. Cardinality(Alive) <= 1
  <2>1. Alive = {} => Cardinality(Alive) = 0
    BY FS_EmptySet
  <2>2. Alive = {n} => Cardinality(Alive) = 1
    BY FS_Singleton
  <2> QED
    BY <1>2, <2>1, <2>2
<1>4. stage = "gone" => Alive = {}
  BY DEF RuntimesInv
<1> QED
  BY <1>3, <1>4 DEF RuntimesClosed, Alive

(* RunTaskSupervisor and the app: however gates are dropped and made anew,   *)
(* no supervisor has two calls on one run in threads or more than its bound, *)
(* and a runtime is built only after the one before is closed; for any       *)
(* number of runs, calls and sessions.                                       *)
THEOREM AlwaysOneAtATime == DeskSpec => []OneAtATime
<1>1. TerminalInv => OneAtATime
  BY RuntimesAreClosed DEF TerminalInv, CallsInv, RunningInv, OneAtATime, CallsApart
<1> HIDE DEF TerminalInv
<1> QED
  BY <1>1, TerminalStart, TerminalStep, PTL DEF DeskSpec

(* The dashboard: however clicks, refreshes and answers overtake each other, *)
(* once all answers are in the pane shows the run that is highlighted and    *)
(* the buttons act on it.                                                    *)
THEOREM AlwaysShownIsSelected == DeskSpec => []ShownIsSelected
<1>1. TerminalInv => ShownIsSelected
  BY DEF TerminalInv, ShownInv, ShownIsSelected
<1> HIDE DEF TerminalInv
<1> QED
  BY <1>1, TerminalStart, TerminalStep, PTL DEF DeskSpec

-----------------------------------------------------------------------------
(* Offers *)

\* Lists that may be shown, the places in them and what is there.
Lists   == Answers \cup {<<>>} \cup {Without(l, seen) : l \in Answers, seen \in SUBSET Items}
Indices == {0} \cup UNION {DOMAIN l : l \in Lists}
Things  == Items \cup {{}} \cup {l[i] : l \in Lists, i \in Indices}

OfferType == [kind : WorkKinds \cup {"none"}, items : Answers \cup {<<>>}, batch : BOOLEAN,
              live : BOOLEAN, old : BOOLEAN]

\* What refers to answers, by the numbers that may be referred to.
ListType(known)  == [list : Lists, of : known]
PumpType(known)  == [at : {"idle", "loading", "defects", "discard", "requirements", "landed", "draw",
                           "read", "drop", "ask", "show", "delete"},
                     old : known, new : known, list : Lists, seen : SUBSET Items]
PressType(known) == [panel : Panels \cup {"none"}, index : Indices, of : known,
                     item : SUBSET Things]
WizardType(known) ==
    [at : {"none", "loading", "filter", "landed", "candidates", "starting", "mapping", "confirming",
           "failed", "left"},
     kind : WorkKinds \cup {"none"}, home : BOOLEAN, offer : known, item : Things,
     asked : SUBSET Things, seen : known]
RunType(known)   == [kind : WorkKinds, offer : known \ {0}, item : Items, asked : SUBSET Things,
                     seen : known]

\* The answers there have been; the others are not referred to by anything.
Used  == {n \in Queries : offer[n].kind # "none"}
Referred == Used \cup {0}

Listed(p, c, known) == p \in [Panels -> ListType(known)] /\ c \in [Panels -> ListType(known)]
Handled(u, q, d, known) == /\ u \in [Pumps -> PumpType(known)]
                           /\ q \in [Pumps -> PressType(known)] /\ d \in PressType(known)
Begun(w, s, known) == w \in [Wizards -> WizardType(known)] /\ s \subseteq RunType(known)

KeptInv ==
    /\ ones \in Answers /\ shut \in BOOLEAN /\ here \in BOOLEAN
    /\ offer \in [Queries -> OfferType]
    /\ \A n \in Queries \ Used : offer[n] = NoOffer

OffersType ==
    KeptInv /\ Listed(panel, cards, Referred) /\ Handled(pump, press, choice, Referred)
    /\ Begun(wizard, started, Referred)

IsKind(n, kind) == n # 0 => offer[n].kind = kind

\* What the handler of the screen has in hand at each of its steps.
ScreenInv ==
    LET s == pump["screen"] IN
    /\ s.old # 0 => s.at \in {"discard", "drop"}
    /\ s.new # 0 => s.at \in {"landed", "draw", "show"}
    /\ s.at \in {"discard", "requirements", "landed", "draw"} => panel["requirements"].of = 0
    /\ s.at = "drop" => IsKind(s.old, "defect")
    /\ s.at = "show" => IsKind(s.new, "defect")
    /\ s.at \in {"landed", "draw"} => IsKind(s.new, "requirement")
    /\ IsKind(panel["requirements"].of, "requirement")
    /\ IsKind(panel["defects"].of, "defect") /\ IsKind(panel["board"].of, "defect")

Sound(z, o) ==
    /\ z.offer # 0 => o[z.offer].kind = z.kind
    /\ z.at \in {"none", "loading", "filter"} => z.offer = 0
    /\ z.at = "none" => z = NoWizard
    /\ z.at \in {"landed", "candidates", "starting", "left"} => z.offer # 0 /\ z.kind \in WorkKinds
    /\ z.kind = "requirement" /\ z.at \in {"mapping", "confirming", "failed"} /\ z.offer # 0 =>
           ~o[z.offer].live

WizardsInv == \A w \in Wizards : Sound(wizard[w], offer)

\* A press is of what the list of its answer has at its place.
IsOf(p, shown) ==
    p.of # 0 => p.index \in DOMAIN shown[p.of] /\ p.item = {shown[p.of][p.index]}

\* Every answer has one list that is shown of it, by whoever shows it.
Shows(shown) ==
    /\ \A p \in Panels : /\ panel[p].of # 0 => panel[p].list \in {<<>>, shown[panel[p].of]}
                         /\ cards[p].of # 0 => cards[p].list = shown[cards[p].of]
    /\ \A p \in Pumps :
         /\ pump[p].new # 0 => pump[p].at \in {"show", "landed", "draw"}
         /\ pump[p].at \in {"show", "landed"} /\ pump[p].new # 0 => pump[p].list = shown[pump[p].new]
         /\ IsOf(press[p], shown)
    /\ pump["screen"].at = "draw" /\ pump["screen"].new # 0 =>
           panel["requirements"].list = shown[pump["screen"].new]
    /\ IsOf(choice, shown)

Heard(r) == r.kind = "requirement" \/ r.offer = r.seen => r.asked = {r.item}

ListsInv == \E shown \in [Queries -> Lists] : Shows(shown)

AskedInv ==
    /\ \A w \in Wizards : wizard[w].at \in {"starting", "left"} => Heard(wizard[w])
    /\ \A r \in started : ~offer[r.offer].live /\ Heard(r)
    /\ \A r, s \in started : r.offer = s.offer => r = s

LEMMA ListsAre ==
    /\ Answers \subseteq Lists /\ <<>> \in Lists /\ {} \in Things /\ Items \subseteq Things
    /\ \A l \in Answers, seen \in SUBSET Items : Without(l, seen) \in Lists
    /\ \A l \in Lists : \A i \in DOMAIN l : i \in Indices /\ l[i] \in Things
    /\ \A l \in Answers \cup {<<>>} : \A i \in DOMAIN l : l[i] \in Items
    /\ 0 \in Indices
<1>1. /\ Answers \subseteq Lists /\ <<>> \in Lists /\ {} \in Things /\ Items \subseteq Things
      /\ 0 \in Indices
  BY DEF Lists, Things, Indices
<1>2. \A l \in Answers, seen \in SUBSET Items : Without(l, seen) \in Lists
  BY DEF Lists
<1>3. \A l \in Lists : \A i \in DOMAIN l : i \in Indices
  BY DEF Indices
<1>4. \A l \in Lists : \A i \in Indices : l[i] \in Things
  BY DEF Things
<1>5. \A l \in Answers \cup {<<>>} : \A i \in DOMAIN l : l[i] \in Items
  BY OffersAssumption
<1> QED
  BY <1>1, <1>2, <1>3, <1>4, <1>5


\* What the service keeps of an answer stays, but for how long it is good.
Same(o, p) ==
    /\ p.kind = o.kind /\ p.items = o.items /\ (p.live => o.live)
    /\ o = NoOffer => p = NoOffer

LEMMA DroppedIs ==
    ASSUME NEW o \in OfferType
    PROVE  LET dropped == [o EXCEPT !.live = FALSE] IN
           dropped \in OfferType /\ dropped.live = FALSE /\ Same(o, dropped) /\ Same(o, o)
<1> DEFINE dropped == [o EXCEPT !.live = FALSE]
<1>1. dropped \in OfferType /\ dropped.live = FALSE /\ dropped.kind = o.kind /\ dropped.items = o.items
  BY DEF OfferType
<1>2. o.live = FALSE => dropped = o
  BY DEF OfferType
<1>3. NoOffer.live = FALSE
  BY DEF NoOffer
<1> QED
  BY <1>1, <1>2, <1>3 DEF Same

LEMMA RevokedIs ==
    ASSUME KeptInv, NEW gone
    PROVE  /\ Revoked(gone) \in [Queries -> OfferType]
           /\ \A n \in Queries : /\ Same(offer[n], Revoked(gone)[n])
                                 /\ n \in gone => ~Revoked(gone)[n].live
<1>1. ASSUME NEW n \in Queries
      PROVE  /\ [offer[n] EXCEPT !.live = FALSE] \in OfferType
             /\ [offer[n] EXCEPT !.live = FALSE].live = FALSE
             /\ Same(offer[n], [offer[n] EXCEPT !.live = FALSE]) /\ Same(offer[n], offer[n])
  <2>1. offer[n] \in OfferType
    BY DEF KeptInv
  <2> QED
    BY <2>1, DroppedIs
<1>2. \A n \in Queries : Revoked(gone)[n] = IF n \in gone THEN [offer[n] EXCEPT !.live = FALSE]
                                           ELSE offer[n]
  BY DEF Revoked
<1>3. Revoked(gone) \in [Queries -> OfferType]
  BY <1>1 DEF Revoked, KeptInv
<1> QED
  BY <1>1, <1>2, <1>3

LEMMA BoundedIs ==
    ASSUME NEW o \in [Queries -> OfferType], NEW kind
    PROVE  /\ Bounded(o, kind) \in [Queries -> OfferType]
           /\ \A n \in Queries : Same(o[n], Bounded(o, kind)[n])
<1> DEFINE live == {n \in Queries : o[n].kind = kind /\ o[n].live}
           least == CHOOSE n \in live : \A m \in live : n <= m
<1>1. CASE Bounded(o, kind) = o
  BY <1>1 DEF Same
<1>2. CASE Bounded(o, kind) = [o EXCEPT ![least].live = FALSE]
  <2> HIDE DEF least
  <2> DEFINE b == [o EXCEPT ![least].live = FALSE]
  <2>1. b = [n \in Queries |-> IF n = least THEN [o[n] EXCEPT !.live = FALSE] ELSE o[n]]
    OBVIOUS
  <2>2. \A n \in Queries : /\ [o[n] EXCEPT !.live = FALSE] \in OfferType /\ Same(o[n], o[n])
                          /\ Same(o[n], [o[n] EXCEPT !.live = FALSE])
    BY DroppedIs
  <2>3. b \in [Queries -> OfferType] /\ \A n \in Queries : Same(o[n], b[n])
    BY <2>1, <2>2
  <2> HIDE DEF b
  <2> QED
    BY <1>2, <2>3 DEF b
<1> QED
  BY <1>1, <1>2 DEF Bounded

LEMMA RecordedIs ==
    ASSUME KeptInv, NEW kind \in WorkKinds, Recorded(kind)
    PROVE  /\ offer' \in [Queries -> OfferType] /\ Latest \in Queries /\ offer[Latest] = NoOffer
           /\ \A n \in Queries \ {Latest} : Same(offer[n], offer'[n])
           /\ offer'[Latest].kind = kind /\ offer'[Latest].items = ones
           /\ ones = <<>> \/ shut => ~offer'[Latest].live
<1>1. Latest \in Free
  BY LeastOf, OffersAssumption DEF Recorded, Free, Latest
<1>2. Latest \in Queries /\ offer[Latest] = NoOffer
  BY <1>1 DEF Free
<1> DEFINE n == Latest
           new == [kind |-> kind, items |-> ones, batch |-> kind = "defect",
                   live |-> ones # <<>> /\ ~shut, old |-> FALSE]
           o == [offer EXCEPT ![n] = new]
<1>3. offer' = Bounded(o, kind)
  BY DEF Recorded
<1>4. new \in OfferType /\ new.kind = kind /\ new.items = ones /\ (ones = <<>> \/ shut => new.live = FALSE)
  BY DEF KeptInv, OfferType
<1> HIDE DEF n, new
<1>5. /\ o \in [Queries -> OfferType] /\ o[n] = new
      /\ \A m \in Queries \ {n} : o[m] = offer[m]
  BY <1>2, <1>4 DEF KeptInv, n
<1> HIDE DEF o
<1>6. /\ Bounded(o, kind) \in [Queries -> OfferType]
      /\ \A m \in Queries : Same(o[m], Bounded(o, kind)[m])
  BY <1>5, BoundedIs
<1> QED
  BY <1>2, <1>3, <1>4, <1>5, <1>6 DEF Same, n

Grown ==
    /\ offer' \in [Queries -> OfferType] /\ Used \subseteq Used'
    /\ \A n \in Queries \ Used' : offer'[n] = NoOffer
    /\ \A n \in Used : Same(offer[n], offer'[n])

LEMMA KeptGrows ==
    ASSUME KeptInv, offer' \in [Queries -> OfferType],
           \A n \in Queries : Same(offer[n], offer'[n])
    PROVE  Grown
BY DEF Grown, KeptInv, Used, Same

LEMMA RecordedGrows ==
    ASSUME KeptInv, NEW kind \in WorkKinds, Recorded(kind)
    PROVE  Grown /\ Latest \in Used' \ Used
<1>1. /\ offer' \in [Queries -> OfferType] /\ Latest \in Queries /\ offer[Latest] = NoOffer
      /\ \A n \in Queries \ {Latest} : Same(offer[n], offer'[n])
      /\ offer'[Latest].kind = kind
  BY RecordedIs
<1>2. Latest \in Used' \ Used
  BY <1>1 DEF Used, WorkKinds, NoOffer
<1> QED
  BY <1>1, <1>2 DEF Grown, KeptInv, Used, Same

\* What a step makes of the answers: they stay, or there is one more.
Stay == offer' \in [Queries -> OfferType] /\ \A n \in Queries : Same(offer[n], offer'[n])

OneMore ==
    \/ Recorded("defect")
    \/ Recorded("requirement") /\ (RequirementsAnswered \/ \E w \in Wizards : WizardRequirements(w))

LEMMA OffersMove ==
    ASSUME KeptInv, OffersNext
    PROVE  Stay \/ OneMore
<1>1. CASE UNCHANGED offer
  BY <1>1 DEF Stay, Same, KeptInv
<1>2. CASE \E gone : offer' = Revoked(gone)
  BY <1>2, RevokedIs DEF Stay
<1>4. CASE \E n \in Queries : Age(n)
  <2>1. PICK n \in Queries : offer[n] # NoOffer /\ offer' = [offer EXCEPT ![n].old = TRUE]
    BY <1>4 DEF Age
  <2>2. /\ \A m \in Queries : offer[m] \in OfferType /\ [offer[m] EXCEPT !.old = TRUE] \in OfferType
        /\ \A m \in Queries : LET o == [offer[m] EXCEPT !.old = TRUE] IN
             o.kind = offer[m].kind /\ o.items = offer[m].items /\ o.live = offer[m].live
    BY DEF KeptInv, OfferType
  <2>3. offer' = [m \in Queries |-> IF m = n THEN [offer[m] EXCEPT !.old = TRUE] ELSE offer[m]]
    BY <2>1 DEF KeptInv
  <2> QED
    BY <2>1, <2>2, <2>3 DEF Stay, Same
<1>5. CASE \/ DefectsAnswered \/ RequirementsAnswered \/ RequirementsLanded \/ RequirementsDrawn
           \/ RequirementsRefused
  BY <1>1, <1>2, <1>5
  DEF DefectsAnswered, RequirementsAnswered, RequirementsLanded, RequirementsDrawn,
      RequirementsRefused, OneMore
<1>6. CASE RequirementsDiscarded \/ DeleteDone \/ Leave \/ Shut
  BY <1>2, <1>6 DEF RequirementsDiscarded, DeleteDone, Leave, Shut, Unmounted
<1>7. CASE \E p \in Pumps : BoardDiscarded(p) \/ BoardAnswered(p) \/ BoardFails(p)
  BY <1>1, <1>2, <1>7 DEF BoardDiscarded, BoardAnswered, BoardFails, OneMore
<1>8. CASE \E w \in Wizards : WizardDefects(w) \/ WizardRequirements(w) \/ StartRun(w) \/ CloseWizard(w)
  BY <1>1, <1>2, <1>8
  DEF WizardDefects, WizardRequirements, WizardAnswered, StartRun, CloseWizard, OneMore
<1> QED
  BY <1>1, <1>4, <1>5, <1>6, <1>7, <1>8
  DEF OffersNext, Watch, Board, Wizard, Around, Loaded, Reload, QueryDefects, QueryRequirements,
      PressCard, StartWorkspaceDefect, StartWorkspaceRequirement, PressExpired, ModuleChanged,
      RefreshPressed, TaskSaved, BeginRefresh, RunsRead, BoardShown, CardSelected,
      DefectActionSelected, DialogCancelled, ChooseWorkflow, WizardOptions, WizardShown, ConfirmMapping,
      SelectCandidate, DeleteWorkspace, Deleted, DeleteFails, PlanDisabled, Change, kept

LEMMA OffersGrow ==
    ASSUME KeptInv, OffersNext
    PROVE  Grown
BY OffersMove, KeptGrows, RecordedGrows DEF Stay, OneMore, WorkKinds

LEMMA TypesGrow ==
    ASSUME OffersType, Grown
    PROVE  /\ Listed(panel, cards, Referred') /\ Handled(pump, press, choice, Referred')
           /\ Begun(wizard, started, Referred') /\ Used' \subseteq Referred' /\ 0 \in Referred'
<1>1. Referred \subseteq Referred' /\ Used' \subseteq Referred' /\ 0 \in Referred'
  BY DEF Grown, Referred
<1>2. PICK more : more = Referred'
  OBVIOUS
<1>3. Referred \subseteq more
  BY <1>1, <1>2
<1>4. Listed(panel, cards, more)
  BY <1>3 DEF OffersType, Listed, ListType
<1>5. Handled(pump, press, choice, more)
  BY <1>3 DEF OffersType, Handled, PumpType, PressType
<1>6. Begun(wizard, started, more)
  BY <1>3 DEF OffersType, Begun, WizardType, RunType
<1> QED
  BY <1>1, <1>2, <1>4, <1>5, <1>6

LEMMA OffersTyped ==
    ASSUME OffersType, WizardsInv, OffersNext
    PROVE  OffersType'
<1>1. Grown
  BY OffersGrow DEF OffersType
<1>2. PICK known : known = Referred'
  OBVIOUS
<1>3. /\ Listed(panel, cards, known) /\ Handled(pump, press, choice, known)
      /\ Begun(wizard, started, known) /\ Used' \subseteq known /\ 0 \in known
      /\ ones \in Answers /\ shut \in BOOLEAN /\ here \in BOOLEAN
  BY <1>1, <1>2, TypesGrow DEF OffersType, KeptInv
<1>4. \A kind \in WorkKinds : Recorded(kind) => Latest \in known
  BY <1>3, RecordedGrows DEF OffersType
<1>5. ones' \in Answers /\ shut' \in BOOLEAN /\ here' \in BOOLEAN
  BY <1>3 DEF OffersNext, Watch, Board, Wizard, Around, Loaded, Reload, QueryDefects, DefectsAnswered,
        QueryRequirements, RequirementsDiscarded, RequirementsAnswered, RequirementsLanded,
        RequirementsDrawn, RequirementsRefused, PressCard, StartWorkspaceDefect,
        StartWorkspaceRequirement, PressExpired, ModuleChanged, RefreshPressed, TaskSaved,
        BeginRefresh, RunsRead, BoardDiscarded, BoardAnswered, BoardShown, BoardFails, CardSelected,
        DefectActionSelected, DialogCancelled, ChooseWorkflow, WizardOptions, WizardDefects,
        WizardRequirements, WizardAnswered, StartRun, WizardShown, ConfirmMapping, CloseWizard,
        SelectCandidate,
        DeleteWorkspace, Deleted, DeleteDone, DeleteFails, PlanDisabled, Leave, Shut, Change, Age,
        Unmounted, lists, screens, kept
<1>6. /\ \A p \in Panels : /\ panel[p].list \in Lists /\ panel[p].of \in known
                           /\ cards[p].list \in Lists /\ cards[p].of \in known
                           /\ \A i \in DOMAIN panel[p].list : panel[p].list[i] \in Things /\ i \in Indices
                           /\ \A i \in DOMAIN cards[p].list : cards[p].list[i] \in Things /\ i \in Indices
      /\ \A p \in Pumps : /\ pump[p].old \in known /\ pump[p].new \in known
                          /\ pump[p].list \in Lists /\ pump[p].seen \subseteq Items
                          /\ press[p].of \in known /\ press[p].item \subseteq Things
                          /\ press[p].index \in Indices
      /\ choice.of \in known /\ choice.item \subseteq Things /\ choice.index \in Indices
      /\ {r.item : r \in started} \subseteq Items
      /\ ones \in Lists /\ <<>> \in Lists /\ {} \in Things /\ 0 \in Indices
      /\ AtRest \in PumpType(known) /\ NoPress \in PressType(known)
      /\ NoWizard \in WizardType(known) /\ Empty \in ListType(known)
      /\ \A seen \in SUBSET Items : Unstarted(seen) \in Lists
  <2>1. \A p \in Panels : /\ panel[p].list \in Lists /\ panel[p].of \in known
                          /\ cards[p].list \in Lists /\ cards[p].of \in known
    BY <1>3 DEF Listed, ListType
  <2>2. /\ \A p \in Pumps : /\ pump[p].old \in known /\ pump[p].new \in known
                            /\ pump[p].list \in Lists /\ pump[p].seen \subseteq Items
                            /\ press[p].of \in known /\ press[p].item \subseteq Things
                            /\ press[p].index \in Indices
        /\ choice.of \in known /\ choice.item \subseteq Things /\ choice.index \in Indices
    BY <1>3 DEF Handled, PumpType, PressType
  <2>3. {r.item : r \in started} \subseteq Items
    BY <1>3 DEF Begun, RunType
  <2>4. \A seen \in SUBSET Items : Unstarted(seen) \in Lists
    BY <1>3, ListsAre DEF Unstarted
  <2>5. AtRest \in PumpType(known) /\ NoPress \in PressType(known) /\ Empty \in ListType(known)
    BY <1>3, ListsAre DEF AtRest, PumpType, NoPress, PressType, Empty, ListType
  <2>6. NoWizard \in WizardType(known)
    BY <1>3, ListsAre DEF NoWizard, WizardType
  <2> QED
    BY <1>3, <2>1, <2>2, <2>3, <2>4, <2>5, <2>6, ListsAre
<1>7. Listed(panel', cards', known)
  <2>1. CASE DefectsAnswered
    BY <2>1, <1>3, <1>4, <1>6 DEF DefectsAnswered, Listed, ListType, Panels, Pumps, WorkKinds
  <2>2. CASE QueryRequirements
    BY <2>2, <1>3, <1>4, <1>6 DEF QueryRequirements, Listed, ListType, Panels, Pumps, WorkKinds
  <2>3. CASE RequirementsDiscarded
    BY <2>3, <1>3, <1>4, <1>6 DEF RequirementsDiscarded, Listed, ListType, Panels, Pumps, WorkKinds
  <2>4. CASE RequirementsLanded
    BY <2>4, <1>3, <1>4, <1>6 DEF RequirementsLanded, Listed, ListType, Panels, Pumps, WorkKinds
  <2>5. CASE RequirementsDrawn
    BY <2>5, <1>3, <1>4, <1>6 DEF RequirementsDrawn, Listed, ListType, Panels, Pumps, WorkKinds
  <2>6. CASE RequirementsRefused
    BY <2>6, <1>3, <1>4, <1>6 DEF RequirementsRefused, Listed, ListType, Panels, Pumps, WorkKinds
  <2>7. CASE StartWorkspaceDefect
    BY <2>7, <1>3, <1>4, <1>6 DEF StartWorkspaceDefect, Listed, ListType, Panels, Pumps, WorkKinds
  <2>8. CASE StartWorkspaceRequirement
    BY <2>8, <1>3, <1>4, <1>6 DEF StartWorkspaceRequirement, Listed, ListType, Panels, Pumps, WorkKinds
  <2>9. CASE \E p \in Pumps : RunsRead(p)
    BY <2>9, <1>3, <1>4, <1>6 DEF RunsRead, Listed, ListType, Panels, Pumps, WorkKinds
  <2>10. CASE \E p \in Pumps : BoardAnswered(p)
    BY <2>10, <1>3, <1>4, <1>6 DEF BoardAnswered, Listed, ListType, Panels, Pumps, WorkKinds
  <2>11. CASE \E p \in Pumps : BoardShown(p)
    BY <2>11, <1>3, <1>4, <1>6 DEF BoardShown, Listed, ListType, Panels, Pumps, WorkKinds
  <2>12. CASE \E p \in Pumps : BoardFails(p)
    BY <2>12, <1>3, <1>4, <1>6 DEF BoardFails, Listed, ListType, Panels, Pumps, WorkKinds
  <2>13. CASE DefectActionSelected
    BY <2>13, <1>3, <1>4, <1>6 DEF DefectActionSelected, Listed, ListType, Panels, Pumps, WorkKinds
  <2>14. CASE DeleteDone \/ Leave
    BY <2>14, <1>3, <1>4, <1>6 DEF DeleteDone, Leave, Unmounted, Listed, ListType, Panels, Pumps, WorkKinds
  <2> QED
    BY <1>3, <2>1, <2>2, <2>3, <2>4, <2>5, <2>6, <2>7, <2>8, <2>9, <2>10, <2>11, <2>12, <2>13, <2>14
    DEF OffersNext, Watch, Board, Wizard, Around, Loaded, Reload, QueryDefects,
        RequirementsAnswered, PressCard, PressExpired, ModuleChanged, RefreshPressed, TaskSaved,
        BeginRefresh, BoardDiscarded, CardSelected, DialogCancelled, ChooseWorkflow, WizardOptions,
        WizardDefects, WizardRequirements, WizardAnswered, StartRun, WizardShown,
        ConfirmMapping, CloseWizard,
        SelectCandidate, DeleteWorkspace, Deleted, DeleteFails, PlanDisabled, Shut, Change, Age,
        Unmounted, lists, screens, kept
<1>8. Handled(pump', press', choice', known)
  <2>1. CASE Loaded
    BY <2>1, <1>3, <1>4, <1>6 DEF Loaded, Handled, PumpType, PressType, Pumps, Panels, WorkKinds, lists, screens
  <2>2. CASE QueryDefects
    BY <2>2, <1>3, <1>4, <1>6 DEF QueryDefects, Handled, PumpType, PressType, Pumps, Panels, WorkKinds, lists, screens
  <2>3. CASE DefectsAnswered
    BY <2>3, <1>3, <1>4, <1>6 DEF DefectsAnswered, Handled, PumpType, PressType, Pumps, Panels, WorkKinds, lists, screens
  <2>4. CASE QueryRequirements
    BY <2>4, <1>3, <1>4, <1>6 DEF QueryRequirements, Handled, PumpType, PressType, Pumps, Panels, WorkKinds, lists, screens
  <2>5. CASE RequirementsDiscarded
    BY <2>5, <1>3, <1>4, <1>6 DEF RequirementsDiscarded, Handled, PumpType, PressType, Pumps, Panels, WorkKinds, lists, screens
  <2>6. CASE RequirementsAnswered
    BY <2>6, <1>3, <1>4, <1>6 DEF RequirementsAnswered, Handled, PumpType, PressType, Pumps, Panels, WorkKinds, lists, screens
  <2>7. CASE RequirementsLanded
    BY <2>7, <1>3, <1>4, <1>6 DEF RequirementsLanded, Handled, PumpType, PressType, Pumps, Panels, WorkKinds, lists, screens
  <2>8. CASE RequirementsDrawn
    BY <2>8, <1>3, <1>4, <1>6 DEF RequirementsDrawn, Handled, PumpType, PressType, Pumps, Panels, WorkKinds, lists, screens
  <2>9. CASE RequirementsRefused
    BY <2>9, <1>3, <1>4, <1>6 DEF RequirementsRefused, Handled, PumpType, PressType, Pumps, Panels, WorkKinds, lists, screens
  <2>10. CASE \E p \in Panels : \E i \in DOMAIN cards[p].list : PressCard(p, i)
    BY <2>10, <1>3, <1>4, <1>6 DEF PressCard, Handled, PumpType, PressType, Pumps, Panels, WorkKinds, lists, screens
  <2>11. CASE StartWorkspaceDefect
    BY <2>11, <1>3, <1>4, <1>6 DEF StartWorkspaceDefect, Handled, PumpType, PressType, Pumps, Panels, WorkKinds, lists, screens
  <2>12. CASE StartWorkspaceRequirement
    BY <2>12, <1>3, <1>4, <1>6 DEF StartWorkspaceRequirement, Handled, PumpType, PressType, Pumps, Panels, WorkKinds, lists, screens
  <2>13. CASE PressExpired
    BY <2>13, <1>3, <1>4, <1>6 DEF PressExpired, Handled, PumpType, PressType, Pumps, Panels, WorkKinds, lists, screens
  <2>14. CASE ModuleChanged \/ RefreshPressed \/ TaskSaved
    BY <2>14, <1>3, <1>4, <1>6 DEF ModuleChanged, RefreshPressed, TaskSaved, BeginRefresh, Handled, PumpType, PressType, Pumps, Panels, WorkKinds, lists, screens
  <2>15. CASE \E p \in Pumps : RunsRead(p)
    <3>1. PICK p \in Pumps : RunsRead(p)
      BY <2>15
    <3>2. [AtRest EXCEPT !.at = "drop", !.old = panel["board"].of, !.seen = {r.item : r \in started}] \in PumpType(known)
      BY <1>3, <1>6, <3>1 DEF Handled, PumpType, Panels
    <3> QED
      BY <1>3, <1>6, <3>1, <3>2 DEF Handled, RunsRead, screens
  <2>16. CASE \E p \in Pumps : BoardDiscarded(p)
    <3>1. PICK p \in Pumps : BoardDiscarded(p)
      BY <2>16
    <3>2. [pump[p] EXCEPT !.at = "ask", !.old = 0] \in PumpType(known)
      BY <1>3, <1>6, <3>1 DEF Handled, PumpType, Panels
    <3> QED
      BY <1>3, <1>6, <3>1, <3>2 DEF Handled, BoardDiscarded, screens
  <2>17. CASE \E p \in Pumps : BoardAnswered(p)
    <3>1. PICK p \in Pumps : BoardAnswered(p)
      BY <2>17
    <3> DEFINE list == Unstarted(pump[p].seen)
    <3>2. CASE Recorded("defect") /\ pump' = [pump EXCEPT ![p] =
                   [@ EXCEPT !.at = "show", !.list = list, !.new = Latest]]
      <4>1. [pump[p] EXCEPT !.at = "show", !.list = list, !.new = Latest] \in PumpType(known)
        BY <1>3, <1>4, <1>6, <3>2 DEF Handled, PumpType, WorkKinds
      <4> QED
        BY <1>3, <3>1, <3>2, <4>1 DEF Handled, BoardAnswered, screens
    <3>3. CASE pump' = [pump EXCEPT ![p].at = "show"]
      BY <1>3, <3>1, <3>3 DEF Handled, PumpType, BoardAnswered, screens
    <3> QED
      BY <3>1, <3>2, <3>3 DEF BoardAnswered
  <2>18. CASE \E p \in Pumps : BoardShown(p)
    BY <2>18, <1>3, <1>4, <1>6 DEF BoardShown, Handled, PumpType, PressType, Pumps, Panels, WorkKinds, lists, screens
  <2>19. CASE \E p \in Pumps : BoardFails(p)
    BY <2>19, <1>3, <1>4, <1>6 DEF BoardFails, Handled, PumpType, PressType, Pumps, Panels, WorkKinds, lists, screens
  <2>20. CASE CardSelected
    <3>1. CASE UNCHANGED choice
      BY <1>3, <1>6, <2>20, <3>1 DEF Handled, CardSelected, Pumps
    <3>2. CASE /\ press["board"].index \in DOMAIN panel["board"].list
               /\ choice' = [press["board"] EXCEPT !.of = panel["board"].of,
                                !.item = {panel["board"].list[press["board"].index]}]
      <4>1. choice' \in PressType(known)
        BY <1>3, <1>6, <3>2 DEF Handled, PressType, Panels, Pumps
      <4> QED
        BY <1>3, <1>6, <2>20, <4>1 DEF Handled, CardSelected, Pumps
    <3> QED
      BY <2>20, <3>1, <3>2 DEF CardSelected
  <2>21. CASE DefectActionSelected \/ DialogCancelled
    BY <2>21, <1>3, <1>4, <1>6 DEF DefectActionSelected, DialogCancelled, Handled, PumpType, PressType, Pumps, Panels, WorkKinds, lists, screens
  <2>22. CASE DeleteWorkspace
    BY <2>22, <1>3, <1>4, <1>6 DEF DeleteWorkspace, Handled, PumpType, PressType, Pumps, Panels, WorkKinds, lists, screens
  <2>23. CASE DeleteDone \/ DeleteFails
    BY <2>23, <1>3, <1>4, <1>6 DEF DeleteDone, DeleteFails, Handled, PumpType, PressType, Pumps, Panels, WorkKinds, lists, screens
  <2> QED
    BY <1>3, <2>1, <2>2, <2>3, <2>4, <2>5, <2>6, <2>7, <2>8, <2>9, <2>10, <2>11, <2>12, <2>13, <2>14,
        <2>15, <2>16, <2>17, <2>18, <2>19, <2>20, <2>21, <2>22, <2>23
    DEF OffersNext, Watch, Board, Wizard, Around, Reload, BeginRefresh, ChooseWorkflow,
        WizardOptions, WizardDefects, WizardRequirements, WizardAnswered, StartRun, WizardShown,
        ConfirmMapping,
        CloseWizard, SelectCandidate, Deleted, PlanDisabled, Leave, Shut, Change, Age, Unmounted,
        lists, screens, kept
<1>9. Begun(wizard', started', known)
  <2>1. CASE StartWorkspaceDefect
    BY <2>1, <1>3, <1>4, <1>6 DEF StartWorkspaceDefect, OpenWizard, NewWizard, Begun, WizardType, WorkKinds, Panels, Pumps, screens, lists
  <2>2. CASE StartWorkspaceRequirement
    BY <2>2, <1>3, <1>4, <1>6 DEF StartWorkspaceRequirement, OpenWizard, NewWizard, Begun, WizardType, WorkKinds, Panels, Pumps, screens, lists
  <2>3. CASE DefectActionSelected
    <3>1. CASE UNCHANGED wizard
      BY <1>3, <2>3, <3>1 DEF Begun, DefectActionSelected
    <3>2. CASE OpenWizard("defect", panel["board"].list, choice.index, choice, panel["board"].of)
      BY <1>3, <1>6, <2>3, <3>2
      DEF Begun, WizardType, WorkKinds, Panels, DefectActionSelected, OpenWizard, NewWizard
    <3> QED
      BY <2>3, <3>1, <3>2 DEF DefectActionSelected
  <2>4. CASE \E k \in WorkKinds : ChooseWorkflow(k)
    <3>1. PICK k \in WorkKinds, w \in NewWizard :
              wizard' = [wizard EXCEPT ![w] =
                  [NoWizard EXCEPT !.at = IF k = "defect" THEN "loading" ELSE "filter", !.kind = k]]
      BY <2>4 DEF ChooseWorkflow
    <3>2. [NoWizard EXCEPT !.at = IF k = "defect" THEN "loading" ELSE "filter", !.kind = k]
              \in WizardType(known)
      BY <1>3, <1>6 DEF WizardType
    <3> QED
      BY <1>3, <2>4, <3>1, <3>2 DEF Begun, NewWizard, ChooseWorkflow
  <2>5. CASE \E w \in Wizards : WizardOptions(w)
    BY <2>5, <1>3, <1>4, <1>6 DEF WizardOptions, Begun, WizardType, WorkKinds, Panels, Pumps, screens, lists
  <2>6. CASE \E w \in Wizards : WizardDefects(w)
    <3>1. PICK w \in Wizards : WizardDefects(w)
      BY <2>6
    <3>2. Latest \in known
      BY <1>4, <3>1 DEF WizardDefects, WizardAnswered, WorkKinds
    <3>3. [wizard[w] EXCEPT !.at = "landed", !.offer = Latest] \in WizardType(known)
      BY <1>3, <3>2 DEF Begun, WizardType
    <3> QED
      BY <1>3, <3>1, <3>3 DEF Begun, WizardDefects, WizardAnswered
  <2>7. CASE \E w \in Wizards : WizardRequirements(w)
    <3>1. PICK w \in Wizards : WizardRequirements(w)
      BY <2>7
    <3>2. Latest \in known
      BY <1>4, <3>1 DEF WizardRequirements, WizardAnswered, WorkKinds
    <3>3. [wizard[w] EXCEPT !.at = "landed", !.offer = Latest] \in WizardType(known)
      BY <1>3, <3>2 DEF Begun, WizardType
    <3> QED
      BY <1>3, <3>1, <3>3 DEF Begun, WizardRequirements, WizardAnswered
  <2>8. CASE \E w \in Wizards : \E i \in DOMAIN List(w) : SelectCandidate(w, i)
    <3>0. PICK w \in Wizards : \E i \in DOMAIN List(w) : SelectCandidate(w, i)
      BY <2>8
    <3>1. PICK i \in DOMAIN List(w) : SelectCandidate(w, i)
      BY <3>0
    <3>2. List(w)[i] \in Things
      <4>1. At(w, "candidates") => wizard[w].offer \in Queries
        BY DEF OffersType, Begun, WizardType, WizardsInv, Sound, At, Referred, Used
      <4>2. List(w) \in Answers \cup {<<>>}
        BY <4>1 DEF List, OffersType, KeptInv, OfferType
      <4> QED
        BY <4>2, ListsAre
    <3>3. [wizard[w] EXCEPT !.at = "starting", !.item = List(w)[i], !.asked = {List(w)[i]},
                            !.seen = wizard[w].offer] \in WizardType(known)
      BY <1>3, <3>2 DEF Begun, WizardType
    <3> QED
      BY <1>3, <3>1, <3>3 DEF Begun, SelectCandidate
  <2>9. CASE \E w \in Wizards : StartRun(w)
    <3>1. PICK w \in Wizards : StartRun(w)
      BY <2>9
    <3>2. [wizard[w] EXCEPT !.at = "mapping"] \in WizardType(known)
          /\ [wizard[w] EXCEPT !.at = "failed"] \in WizardType(known)
      BY <1>3 DEF Begun, WizardType
    <3>3. wizard' \in [Wizards -> WizardType(known)]
      BY <1>3, <1>6, <3>1, <3>2 DEF Begun, StartRun
    <3>4. DefectStartable(wizard[w]) \/ RequirementStartable(wizard[w])
              => Run(wizard[w]) \in RunType(known)
      <4>1. wizard[w].offer \in Queries /\ wizard[w].offer # 0
        BY <3>1 DEF OffersType, Begun, WizardType, WizardsInv, Sound, StartRun, Referred, Used
      <4>2. offer[wizard[w].offer].items \in Answers \cup {<<>>}
        BY <4>1 DEF OffersType, KeptInv, OfferType
      <4>3. Offered(wizard[w]) => wizard[w].item \in Items
        BY <4>2, ListsAre DEF Offered
      <4> QED
        BY <1>3, <4>1, <4>3
        DEF DefectStartable, RequirementStartable, Run, RunType, Begun, WizardType, WorkKinds
    <3>5. started' = started
          \/ (Run(wizard[w]) \in RunType(known) /\ started' = started \cup {Run(wizard[w])})
      BY <3>1, <3>4 DEF StartRun
    <3> QED
      BY <1>3, <3>3, <3>5 DEF Begun
  <2>10. CASE \E w \in Wizards : WizardShown(w) \/ ConfirmMapping(w)
    BY <2>10, <1>3, <1>4, <1>6 DEF WizardShown, ConfirmMapping, Begun, WizardType, WorkKinds, Panels, Pumps, screens, lists
  <2>11. CASE \E w \in Wizards : CloseWizard(w)
    BY <2>11, <1>3, <1>4, <1>6 DEF CloseWizard, NoWizard, Begun, WizardType, WorkKinds, Panels, Pumps, screens, lists
  <2> QED
    BY <1>3, <2>1, <2>2, <2>3, <2>4, <2>5, <2>6, <2>7, <2>8, <2>9, <2>10, <2>11
    DEF OffersNext, Watch, Board, Wizard, Around, Loaded, Reload, QueryDefects, DefectsAnswered,
        QueryRequirements, RequirementsDiscarded, RequirementsAnswered, RequirementsLanded,
        RequirementsDrawn, RequirementsRefused, PressCard, PressExpired, ModuleChanged,
        RefreshPressed, TaskSaved, BeginRefresh, RunsRead, BoardDiscarded, BoardAnswered,
        BoardShown, BoardFails, CardSelected, DialogCancelled, WizardAnswered, DeleteWorkspace,
        Deleted, DeleteDone, DeleteFails, PlanDisabled, Leave, Shut, Change, Age, Unmounted, lists,
        screens, kept
<1> QED
  BY <1>1, <1>2, <1>5, <1>7, <1>8, <1>9 DEF OffersType, KeptInv, Grown

LEMMA ScreenKept ==
    ASSUME OffersType, ScreenInv, OffersNext
    PROVE  ScreenInv'
<1>1. pump \in [Pumps -> PumpType(Referred)] /\ panel \in [Panels -> ListType(Referred)]
  BY DEF OffersType, Handled, Listed
<1>2. \A n \in Used : offer'[n].kind = offer[n].kind
  BY OffersGrow DEF OffersType, Grown, Same
<1>3. \A kind \in WorkKinds : Recorded(kind) => offer'[Latest].kind = kind
  BY RecordedIs DEF OffersType
<1>4. /\ \A p \in Pumps : pump[p].old \in Used \cup {0} /\ pump[p].new \in Used \cup {0}
      /\ \A p \in Panels : panel[p].of \in Used \cup {0}
  BY <1>1 DEF PumpType, ListType, Referred
<1>11. CASE Loaded
  BY <1>11, <1>1, <1>2, <1>3, <1>4 DEF Loaded, ScreenInv, IsKind, Pumps, Panels, WorkKinds, AtRest, Empty, PumpType, ListType, lists, screens, Idle
<1>12. CASE QueryDefects
  BY <1>12, <1>1, <1>2, <1>3, <1>4 DEF QueryDefects, ScreenInv, IsKind, Pumps, Panels, WorkKinds, AtRest, Empty, PumpType, ListType, lists, screens, Idle
<1>13. CASE DefectsAnswered
  BY <1>13, <1>1, <1>2, <1>3, <1>4 DEF DefectsAnswered, ScreenInv, IsKind, Pumps, Panels, WorkKinds, AtRest, Empty, PumpType, ListType, lists, screens, Idle
<1>14. CASE QueryRequirements
  BY <1>14, <1>1, <1>2, <1>3, <1>4 DEF QueryRequirements, ScreenInv, IsKind, Pumps, Panels, WorkKinds, AtRest, Empty, PumpType, ListType, lists, screens, Idle
<1>15. CASE RequirementsDiscarded
  BY <1>15, <1>1, <1>2, <1>3, <1>4 DEF RequirementsDiscarded, ScreenInv, IsKind, Pumps, Panels, WorkKinds, AtRest, Empty, PumpType, ListType, lists, screens, Idle
<1>16. CASE RequirementsAnswered
  BY <1>16, <1>1, <1>2, <1>3, <1>4 DEF RequirementsAnswered, ScreenInv, IsKind, Pumps, Panels, WorkKinds, AtRest, Empty, PumpType, ListType, lists, screens, Idle
<1>17. CASE RequirementsLanded
  BY <1>17, <1>1, <1>2, <1>3, <1>4 DEF RequirementsLanded, ScreenInv, IsKind, Pumps, Panels, WorkKinds, AtRest, Empty, PumpType, ListType, lists, screens, Idle
<1>18. CASE RequirementsDrawn
  BY <1>18, <1>1, <1>2, <1>3, <1>4 DEF RequirementsDrawn, ScreenInv, IsKind, Pumps, Panels, WorkKinds, AtRest, Empty, PumpType, ListType, lists, screens, Idle
<1>19. CASE RequirementsRefused
  BY <1>19, <1>1, <1>2, <1>3, <1>4 DEF RequirementsRefused, ScreenInv, IsKind, Pumps, Panels, WorkKinds, AtRest, Empty, PumpType, ListType, lists, screens, Idle
<1>20. CASE StartWorkspaceDefect
  BY <1>20, <1>1, <1>2, <1>3, <1>4 DEF StartWorkspaceDefect, ScreenInv, IsKind, Pumps, Panels, WorkKinds, AtRest, Empty, PumpType, ListType, lists, screens, Idle
<1>21. CASE StartWorkspaceRequirement
  BY <1>21, <1>1, <1>2, <1>3, <1>4 DEF StartWorkspaceRequirement, ScreenInv, IsKind, Pumps, Panels, WorkKinds, AtRest, Empty, PumpType, ListType, lists, screens, Idle
<1>22. CASE ModuleChanged \/ RefreshPressed \/ TaskSaved
  BY <1>22, <1>1, <1>2, <1>3, <1>4 DEF ModuleChanged, RefreshPressed, TaskSaved, BeginRefresh, ScreenInv, IsKind, Pumps, Panels, WorkKinds, AtRest, Empty, PumpType, ListType, lists, screens, Idle
<1>23. CASE \E p \in Pumps : RunsRead(p)
  BY <1>23, <1>1, <1>2, <1>3, <1>4 DEF RunsRead, ScreenInv, IsKind, Pumps, Panels, WorkKinds, AtRest, Empty, PumpType, ListType, lists, screens, Idle
<1>24. CASE \E p \in Pumps : BoardDiscarded(p)
  <2>1. PICK p \in Pumps : BoardDiscarded(p)
    BY <1>24
  <2>2. CASE p = "board"
    BY <1>1, <1>2, <1>4, <2>1, <2>2 DEF BoardDiscarded, lists, ScreenInv, IsKind, Pumps, Panels, WorkKinds
  <2>3. CASE p = "screen"
    <3>1. pump'["screen"].at = "ask" /\ pump'["screen"].old = 0
          /\ pump'["screen"].new = pump["screen"].new
      BY <1>1, <2>1, <2>3 DEF BoardDiscarded, PumpType, Pumps
    <3> QED
      BY <1>2, <1>4, <2>1, <2>3, <3>1 DEF BoardDiscarded, lists, ScreenInv, IsKind, Pumps, Panels, WorkKinds
  <2> QED
    BY <2>2, <2>3 DEF Pumps
<1>25. CASE \E p \in Pumps : BoardAnswered(p)
  <2>1. PICK p \in Pumps : BoardAnswered(p)
    BY <1>25
  <2>2. /\ pump'["screen"].old = pump["screen"].old
        /\ \/ pump'["screen"].new = pump["screen"].new
           \/ pump'["screen"].new = Latest /\ Recorded("defect")
        /\ pump'["screen"].at = IF p = "screen" THEN "show" ELSE pump["screen"].at
        /\ p # "screen" => pump'["screen"] = pump["screen"]
        /\ pump[p].at = "ask"
    <3> DEFINE list == Unstarted(pump[p].seen)
    <3>1. pump[p] \in PumpType(Referred) /\ pump["screen"] \in PumpType(Referred) /\ "screen" \in Pumps
      BY <1>1, <2>1 DEF Pumps
    <3>2. \/ Recorded("defect")
             /\ pump' = [pump EXCEPT ![p] = [@ EXCEPT !.at = "show", !.list = list, !.new = Latest]]
          \/ pump' = [pump EXCEPT ![p].at = "show"]
      BY <2>1 DEF BoardAnswered
    <3> HIDE DEF list
    <3>3. CASE Recorded("defect")
             /\ pump' = [pump EXCEPT ![p] = [@ EXCEPT !.at = "show", !.list = list, !.new = Latest]]
      BY <1>1, <2>1, <3>1, <3>3 DEF BoardAnswered, PumpType
    <3>4. CASE pump' = [pump EXCEPT ![p].at = "show"]
      BY <1>1, <2>1, <3>1, <3>4 DEF BoardAnswered, PumpType
    <3> QED
      BY <3>2, <3>3, <3>4
  <2>3. /\ panel'["requirements"].of = panel["requirements"].of
        /\ panel'["defects"].of = panel["defects"].of
        /\ panel'["board"].of = panel["board"].of \/ (panel'["board"].of = Latest /\ Recorded("defect"))
    BY <1>1, <2>1 DEF BoardAnswered, ListType, Panels
  <2> QED
    BY <1>2, <1>3, <1>4, <2>1, <2>2, <2>3 DEF BoardAnswered, ScreenInv, IsKind, Pumps, Panels, WorkKinds
<1>26. CASE \E p \in Pumps : BoardShown(p)
  BY <1>26, <1>1, <1>2, <1>3, <1>4 DEF BoardShown, ScreenInv, IsKind, Pumps, Panels, WorkKinds, AtRest, Empty, PumpType, ListType, lists, screens, Idle
<1>27. CASE \E p \in Pumps : BoardFails(p)
  <2>1. PICK p \in Pumps : BoardFails(p)
    BY <1>27
  <2>2. /\ pump'["screen"] = IF p = "screen" THEN AtRest ELSE pump["screen"]
        /\ panel' = [panel EXCEPT !["board"] = Empty]
    BY <1>1, <2>1 DEF BoardFails, Pumps
  <2> QED
    BY <1>1, <1>2, <1>4, <2>2 DEF AtRest, Empty, ScreenInv, IsKind, Pumps, Panels, WorkKinds
<1>28. CASE DeleteWorkspace
  BY <1>28, <1>1, <1>2, <1>3, <1>4 DEF DeleteWorkspace, ScreenInv, IsKind, Pumps, Panels, WorkKinds, AtRest, Empty, PumpType, ListType, lists, screens, Idle
<1>29. CASE DefectActionSelected
  BY <1>29, <1>1, <1>2, <1>3, <1>4 DEF DefectActionSelected, ScreenInv, IsKind, Pumps, Panels, WorkKinds, AtRest, Empty, PumpType, ListType, lists, screens, Idle
<1>30. CASE DeleteFails
  BY <1>30, <1>1, <1>2, <1>3, <1>4 DEF DeleteFails, ScreenInv, IsKind, Pumps, Panels, WorkKinds, AtRest, Empty, PumpType, ListType, lists, screens, Idle
<1>31. CASE DeleteDone \/ Leave
  BY <1>31, <1>1, <1>2, <1>3, <1>4 DEF DeleteDone, Leave, Unmounted, ScreenInv, IsKind, Pumps, Panels, WorkKinds, AtRest, Empty, PumpType, ListType, lists, screens, Idle
<1>5. CASE UNCHANGED <<pump, panel>>
  BY <1>2, <1>4, <1>5 DEF ScreenInv, IsKind, Pumps, Panels, WorkKinds
<1> QED
  BY <1>5, <1>11, <1>12, <1>13, <1>14, <1>15, <1>16, <1>17, <1>18, <1>19, <1>20, <1>21, <1>22, <1>23,
        <1>24, <1>25, <1>26, <1>27, <1>28, <1>29, <1>30, <1>31
  DEF OffersNext, Watch, Board, Wizard, Around, Reload, PressCard, PressExpired, BeginRefresh,
        CardSelected, DialogCancelled, ChooseWorkflow, WizardOptions, WizardDefects,
        WizardRequirements, WizardAnswered, StartRun, WizardShown, ConfirmMapping, CloseWizard,
        SelectCandidate,
        Deleted, PlanDisabled, Shut, Change, Age, Unmounted, lists, screens, kept

LEMMA WizardsKept ==
    ASSUME OffersType, ScreenInv, WizardsInv, OffersNext
    PROVE  WizardsInv'
<1>1. wizard \in [Wizards -> WizardType(Referred)]
  BY DEF OffersType, Begun
<1>2. \A n \in Used : /\ offer'[n].kind = offer[n].kind /\ (offer'[n].live => offer[n].live)
                      /\ n \in Queries
  BY OffersGrow DEF OffersType, Grown, Same, Used
<1>3. \A w \in Wizards : Sound(wizard[w], offer')
  <2>1. \A w \in Wizards : wizard[w].offer \in Used \cup {0}
    BY <1>1 DEF WizardType, Referred
  <2> QED
    BY <1>2, <2>1 DEF WizardsInv, Sound
<1>4. ASSUME NEW w \in Wizards, NEW z, Sound(z, offer'), wizard' = [wizard EXCEPT ![w] = z]
      PROVE  WizardsInv'
  BY <1>1, <1>3, <1>4 DEF WizardsInv
<1>5. CASE UNCHANGED wizard
  BY <1>3, <1>5 DEF WizardsInv
<1>6. Sound(NoWizard, offer')
  BY DEF Sound, NoWizard
<1>7. ASSUME NEW kind \in WorkKinds, NEW list, NEW i, NEW p, NEW of \in Used, offer[of].kind = kind,
             OpenWizard(kind, list, i, p, of), kind = "requirement" => i \in DOMAIN list
      PROVE  WizardsInv'
  <2>1. PICK w \in Wizards : wizard' = [wizard EXCEPT ![w] =
            [at |-> IF i \in DOMAIN list THEN "starting" ELSE "failed", kind |-> kind,
             home |-> TRUE, offer |-> of, item |-> IF i \in DOMAIN list THEN list[i] ELSE {},
             asked |-> p.item, seen |-> p.of]]
    BY <1>7 DEF OpenWizard, NewWizard
  <2> DEFINE z == [at |-> IF i \in DOMAIN list THEN "starting" ELSE "failed", kind |-> kind,
             home |-> TRUE, offer |-> of, item |-> IF i \in DOMAIN list THEN list[i] ELSE {},
             asked |-> p.item, seen |-> p.of]
  <2>2. /\ z.at \in {"starting", "failed"} /\ (kind = "requirement" => z.at = "starting")
        /\ z.kind = kind /\ z.offer = of
    BY <1>7
  <2> HIDE DEF z
  <2>3. 0 \notin Queries
    BY OffersAssumption
  <2>4. Sound(z, offer')
    BY <1>2, <1>7, <2>2, <2>3 DEF Sound, Used
  <2> QED
    BY <1>4, <2>1, <2>4 DEF z
<1>8. \A p \in Panels : panel[p].of \in Used \cup {0}
  BY DEF OffersType, Listed, ListType, Referred
<1>11. CASE StartWorkspaceDefect
  BY <1>7, <1>8, <1>11 DEF StartWorkspaceDefect, Known, ScreenInv, IsKind, Panels, WorkKinds
<1>12. CASE StartWorkspaceRequirement
  BY <1>7, <1>8, <1>12 DEF StartWorkspaceRequirement, Known, ScreenInv, IsKind, Panels, WorkKinds
<1>13. CASE DefectActionSelected
  BY <1>5, <1>7, <1>8, <1>13 DEF DefectActionSelected, Known, ScreenInv, IsKind, Panels, WorkKinds
<1>14. CASE \E k \in WorkKinds : ChooseWorkflow(k)
  <2>1. PICK k \in WorkKinds, w \in Wizards :
            wizard' = [wizard EXCEPT ![w] =
                [NoWizard EXCEPT !.at = IF k = "defect" THEN "loading" ELSE "filter", !.kind = k]]
    BY <1>14 DEF ChooseWorkflow, NewWizard
  <2>2. Sound([NoWizard EXCEPT !.at = IF k = "defect" THEN "loading" ELSE "filter", !.kind = k], offer')
    BY DEF Sound, NoWizard
  <2> QED
    BY <1>4, <2>1, <2>2
<1>15. CASE \E w \in Wizards : WizardOptions(w) \/ WizardShown(w) \/ ConfirmMapping(w)
  <2>1. PICK w \in Wizards, at \in {"filter", "candidates", "confirming"} :
             wizard' = [wizard EXCEPT ![w].at = at] /\ (at = "filter" => wizard[w].at = "loading")
             /\ (at = "candidates" => wizard[w].at = "landed")
             /\ (at = "confirming" => wizard[w].at = "mapping")
    BY <1>15 DEF WizardOptions, WizardShown, ConfirmMapping, At
  <2>2. Sound([wizard[w] EXCEPT !.at = at], offer')
    BY <1>1, <1>3, <2>1 DEF Sound, WizardType
  <2>3. wizard' = [wizard EXCEPT ![w] = [wizard[w] EXCEPT !.at = at]]
    BY <1>1, <2>1
  <2> QED
    BY <1>4, <2>2, <2>3
<1>16. CASE \E w \in Wizards : WizardDefects(w) \/ WizardRequirements(w)
  <2>1. PICK w \in Wizards : /\ Recorded(wizard[w].kind) /\ wizard[w].kind \in WorkKinds
                             /\ wizard' = [wizard EXCEPT ![w] =
                                    [wizard[w] EXCEPT !.at = "landed", !.offer = Latest]]
                                \/ UNCHANGED wizard
    BY <1>16 DEF WizardDefects, WizardRequirements, WizardAnswered, WorkKinds
  <2>2. /\ offer'[Latest].kind = wizard[w].kind
        /\ Latest \in Queries
    BY <2>1, RecordedIs DEF OffersType
  <2>3. Latest # 0
    BY <2>2, OffersAssumption
  <2>4. Sound([wizard[w] EXCEPT !.at = "landed", !.offer = Latest], offer')
    BY <1>1, <2>1, <2>2, <2>3 DEF Sound, WizardType
  <2> QED
    BY <1>4, <1>5, <2>1, <2>4
<1>17. CASE \E w \in Wizards : \E i \in DOMAIN List(w) : SelectCandidate(w, i)
  <2>0. PICK w \in Wizards : \E i \in DOMAIN List(w) : SelectCandidate(w, i)
    BY <1>17
  <2>1. PICK i \in DOMAIN List(w) : SelectCandidate(w, i)
    BY <2>0
  <2>2. wizard[w].at = "candidates"
    BY DEF List, At
  <2>3. Sound([wizard[w] EXCEPT !.at = "starting", !.item = List(w)[i], !.asked = {List(w)[i]},
                              !.seen = wizard[w].offer], offer')
    BY <1>1, <1>3, <2>2 DEF Sound, WizardType
  <2> QED
    BY <1>4, <2>1, <2>3 DEF SelectCandidate
<1>18. CASE \E w \in Wizards : StartRun(w)
  <2>1. PICK w \in Wizards : StartRun(w)
    BY <1>18
  <2>2. offer' = Revoked({wizard[w].offer}) /\ wizard[w].at \in {"starting", "left"}
    BY <2>1 DEF StartRun
  <2>3. wizard[w].offer \in Queries /\ wizard[w].offer # 0
    BY <1>1, <2>2 DEF WizardType, Referred, Used, WizardsInv, Sound
  <2>4. ~offer'[wizard[w].offer].live
    BY <2>2, <2>3, RevokedIs DEF OffersType
  <2>5. \A at \in {"mapping", "failed"} : Sound([wizard[w] EXCEPT !.at = at], offer')
    <3>1. TAKE at \in {"mapping", "failed"}
    <3> DEFINE z == [wizard[w] EXCEPT !.at = at]
    <3>2. z.at = at /\ z.offer = wizard[w].offer /\ z.kind = wizard[w].kind
      BY <1>1 DEF WizardType
    <3> HIDE DEF z
    <3>3. wizard[w].offer # 0 => offer'[wizard[w].offer].kind = wizard[w].kind
      BY <1>3 DEF Sound
    <3> QED
      BY <2>4, <3>2, <3>3 DEF Sound
  <2>6. \/ wizard' = [wizard EXCEPT ![w] = NoWizard]
        \/ \E at \in {"mapping", "failed"} : wizard' = [wizard EXCEPT ![w] = [wizard[w] EXCEPT !.at = at]]
    BY <2>1 DEF StartRun
  <2> QED
    BY <1>4, <1>6, <2>5, <2>6
<1>19. CASE \E w \in Wizards : CloseWizard(w)
  <2>1. PICK w \in Wizards : CloseWizard(w)
    BY <1>19
  <2>2. \/ wizard' = [wizard EXCEPT ![w] = NoWizard]
        \/ wizard[w].at = "starting" /\ wizard' = [wizard EXCEPT ![w] = [wizard[w] EXCEPT !.at = "left"]]
    BY <2>1 DEF CloseWizard, At
  <2>3. wizard[w].at = "starting" => Sound([wizard[w] EXCEPT !.at = "left"], offer')
    BY <1>1, <1>3 DEF Sound, WizardType
  <2> QED
    BY <1>4, <1>6, <2>2, <2>3
<1> QED
  BY <1>5, <1>11, <1>12, <1>13, <1>14, <1>15, <1>16, <1>17, <1>18, <1>19
  DEF OffersNext, Watch, Board, Wizard, Around, Loaded, Reload, QueryDefects, DefectsAnswered,
      QueryRequirements, RequirementsDiscarded, RequirementsAnswered, RequirementsLanded,
      RequirementsDrawn, RequirementsRefused, PressCard, PressExpired, ModuleChanged,
      RefreshPressed, TaskSaved, BeginRefresh, RunsRead, BoardDiscarded, BoardAnswered, BoardShown,
      BoardFails, CardSelected, DialogCancelled, DeleteWorkspace, Deleted, DeleteDone, DeleteFails,
      PlanDisabled, Leave, Shut, Change, Age, Unmounted, lists, screens, kept

\* A controller that is closed has nothing left that may be started.
Forgotten == shut => \A n \in Queries : ~offer[n].live

HeldBy(n) == \/ n \in {panel["requirements"].of, pump["screen"].old, pump["screen"].new}
           \/ \E w \in Wizards : wizard[w].offer = n

\* An answer that may be given up is taken back, or was not the last's to give up.
LEMMA StaysHeld ==
    ASSUME OffersType, ScreenInv, WizardsInv, OffersNext, NEW n \in Queries, HeldBy(n),
           offer[n].kind = "requirement", offer[n].live, offer'[n].live, Forgotten
    PROVE  HeldBy(n)'
<1>1. /\ pump \in [Pumps -> PumpType(Referred)] /\ panel \in [Panels -> ListType(Referred)]
      /\ wizard \in [Wizards -> WizardType(Referred)] /\ n # 0
  BY OffersAssumption DEF OffersType, Handled, Listed, Begun
<1>2. \A gone : offer' = Revoked(gone) => n \notin gone
  BY RevokedIs DEF OffersType
<1>3. CASE UNCHANGED <<panel, pump, wizard>>
  BY <1>3 DEF HeldBy
<1>4. ASSUME NEW kind, NEW list, NEW i, NEW p, NEW of, OpenWizard(kind, list, i, p, of)
      PROVE  /\ \A v \in Wizards : wizard[v].offer = n => wizard'[v].offer = n
             /\ \E w \in Wizards : wizard'[w].offer = of
  <2>1. PICK w \in Wizards :
          /\ wizard[w] = NoWizard
          /\ wizard' = [wizard EXCEPT ![w] =
              [at |-> IF i \in DOMAIN list THEN "starting" ELSE "failed", kind |-> kind,
               home |-> TRUE, offer |-> of, item |-> IF i \in DOMAIN list THEN list[i] ELSE {},
               asked |-> p.item, seen |-> p.of]]
    BY <1>4 DEF OpenWizard, NewWizard
  <2>2. \A v \in Wizards : v # w => wizard'[v] = wizard[v]
    BY <1>1, <2>1
  <2>3. wizard'[w].offer = of /\ wizard[w].offer # n
    BY <1>1, <2>1 DEF NoWizard
  <2> QED
    BY <2>2, <2>3
<1>11. CASE Loaded
  BY <1>11, <1>1, <1>2 DEF Loaded, HeldBy, Pumps, Panels, AtRest, Empty, ScreenInv, IsKind, WorkKinds, lists, screens, kept, Idle, PumpType, ListType
<1>12. CASE QueryDefects
  BY <1>12, <1>1, <1>2 DEF QueryDefects, HeldBy, Pumps, Panels, AtRest, Empty, ScreenInv, IsKind, WorkKinds, lists, screens, kept, Idle, PumpType, ListType
<1>13. CASE DefectsAnswered
  BY <1>13, <1>1, <1>2 DEF DefectsAnswered, HeldBy, Pumps, Panels, AtRest, Empty, ScreenInv, IsKind, WorkKinds, lists, screens, kept, Idle, PumpType, ListType
<1>14. CASE QueryRequirements
  BY <1>14, <1>1, <1>2 DEF QueryRequirements, HeldBy, Pumps, Panels, AtRest, Empty, ScreenInv, IsKind, WorkKinds, lists, screens, kept, Idle, PumpType, ListType
<1>15. CASE RequirementsDiscarded
  BY <1>15, <1>1, <1>2 DEF RequirementsDiscarded, HeldBy, Pumps, Panels, AtRest, Empty, ScreenInv, IsKind, WorkKinds, lists, screens, kept, Idle, PumpType, ListType
<1>16. CASE RequirementsLanded
  BY <1>16, <1>1, <1>2 DEF RequirementsLanded, HeldBy, Pumps, Panels, AtRest, Empty, ScreenInv, IsKind, WorkKinds, lists, screens, kept, Idle, PumpType, ListType
<1>17. CASE RequirementsDrawn
  BY <1>17, <1>1, <1>2 DEF RequirementsDrawn, HeldBy, Pumps, Panels, AtRest, Empty, ScreenInv, IsKind, WorkKinds, lists, screens, kept, Idle, PumpType, ListType
<1>18. CASE RequirementsRefused
  BY <1>18, <1>1, <1>2 DEF RequirementsRefused, Forgotten, HeldBy, Pumps, Panels, AtRest, Empty, ScreenInv, IsKind, WorkKinds, lists, screens, kept, Idle, PumpType, ListType
<1>19. CASE ModuleChanged \/ RefreshPressed \/ TaskSaved
  BY <1>19, <1>1, <1>2 DEF ModuleChanged, RefreshPressed, TaskSaved, BeginRefresh, HeldBy, Pumps, Panels, AtRest, Empty, ScreenInv, IsKind, WorkKinds, lists, screens, kept, Idle, PumpType, ListType
<1>20. CASE \E p \in Pumps : RunsRead(p)
  BY <1>20, <1>1, <1>2 DEF RunsRead, HeldBy, Pumps, Panels, AtRest, Empty, ScreenInv, IsKind, WorkKinds, lists, screens, kept, Idle, PumpType, ListType
<1>21. CASE \E p \in Pumps : BoardDiscarded(p)
  BY <1>21, <1>1, <1>2 DEF BoardDiscarded, HeldBy, Pumps, Panels, AtRest, Empty, ScreenInv, IsKind, WorkKinds, lists, screens, kept, Idle, PumpType, ListType
<1>22. CASE \E p \in Pumps : BoardAnswered(p)
  BY <1>22, <1>1, <1>2 DEF BoardAnswered, HeldBy, Pumps, Panels, AtRest, Empty, ScreenInv, IsKind, WorkKinds, lists, screens, kept, Idle, PumpType, ListType
<1>23. CASE \E p \in Pumps : BoardShown(p)
  BY <1>23, <1>1, <1>2 DEF BoardShown, HeldBy, Pumps, Panels, AtRest, Empty, ScreenInv, IsKind, WorkKinds, lists, screens, kept, Idle, PumpType, ListType
<1>24. CASE \E p \in Pumps : BoardFails(p)
  BY <1>24, <1>1, <1>2 DEF BoardFails, HeldBy, Pumps, Panels, AtRest, Empty, ScreenInv, IsKind, WorkKinds, lists, screens, kept, Idle, PumpType, ListType
<1>25. CASE DeleteWorkspace
  BY <1>25, <1>1, <1>2 DEF DeleteWorkspace, HeldBy, Pumps, Panels, AtRest, Empty, ScreenInv, IsKind, WorkKinds, lists, screens, kept, Idle, PumpType, ListType
<1>26. CASE DeleteFails
  BY <1>26, <1>1, <1>2 DEF DeleteFails, HeldBy, Pumps, Panels, AtRest, Empty, ScreenInv, IsKind, WorkKinds, lists, screens, kept, Idle, PumpType, ListType
<1>27. CASE DeleteDone \/ Leave
  BY <1>27, <1>1, <1>2 DEF DeleteDone, Leave, Unmounted, HeldBy, Pumps, Panels, AtRest, Empty, ScreenInv, IsKind, WorkKinds, lists, screens, kept, Idle, PumpType, ListType
<1>28. CASE StartWorkspaceRequirement
  <2>1. /\ OpenWizard("requirement", panel["requirements"].list, press["screen"].index, press["screen"], panel["requirements"].of)
        /\ panel' = [panel EXCEPT !["requirements"].of = 0] /\ UNCHANGED pump
    BY <1>28 DEF StartWorkspaceRequirement
  <2>2. /\ \A v \in Wizards : wizard[v].offer = n => wizard'[v].offer = n
        /\ \E w \in Wizards : wizard'[w].offer = panel["requirements"].of
    BY <1>4, <2>1
  <2>3. panel'["requirements"].of = IF "requirements" = "requirements" THEN 0 ELSE panel["requirements"].of
    BY <1>1, <2>1 DEF ListType, Panels
  <2> QED
    BY <2>1, <2>2, <2>3 DEF HeldBy
<1>29. CASE StartWorkspaceDefect
  <2>1. /\ OpenWizard("defect", panel["defects"].list, press["screen"].index, press["screen"], panel["defects"].of)
        /\ panel' = [panel EXCEPT !["defects"].of = 0] /\ UNCHANGED pump
    BY <1>29 DEF StartWorkspaceDefect
  <2>2. /\ \A v \in Wizards : wizard[v].offer = n => wizard'[v].offer = n
        /\ \E w \in Wizards : wizard'[w].offer = panel["defects"].of
    BY <1>4, <2>1
  <2>3. panel'["requirements"].of = IF "defects" = "requirements" THEN 0 ELSE panel["requirements"].of
    BY <1>1, <2>1 DEF ListType, Panels
  <2> QED
    BY <2>1, <2>2, <2>3 DEF HeldBy
<1>30. CASE DefectActionSelected
  <2>1. /\ \/ OpenWizard("defect", panel["board"].list, choice.index, choice, panel["board"].of)
           \/ UNCHANGED wizard
        /\ panel' = [panel EXCEPT !["board"].of = 0] \/ UNCHANGED panel
        /\ UNCHANGED pump
    BY <1>30 DEF DefectActionSelected
  <2>2. \A v \in Wizards : wizard[v].offer = n => wizard'[v].offer = n
    BY <1>4, <2>1
  <2>3. panel'["requirements"].of = panel["requirements"].of
    BY <1>1, <2>1 DEF ListType, Panels
  <2> QED
    BY <2>1, <2>2, <2>3 DEF HeldBy
<1>31. CASE RequirementsAnswered
  BY <1>31, <1>1, <1>2 DEF RequirementsAnswered, HeldBy, Pumps, Panels, AtRest, Empty, ScreenInv, IsKind, WorkKinds, lists, screens, kept, Idle, WizardsInv, Sound, At
<1>32. CASE \E k \in WorkKinds : ChooseWorkflow(k)
  BY <1>32, <1>1, <1>2 DEF ChooseWorkflow, NewWizard, NoWizard, HeldBy, Pumps, Panels, AtRest, Empty, ScreenInv, IsKind, WorkKinds, lists, screens, kept, Idle, WizardsInv, Sound, At
<1>33. CASE \E w \in Wizards : WizardOptions(w)
  BY <1>33, <1>1, <1>2 DEF WizardOptions, HeldBy, Pumps, Panels, AtRest, Empty, ScreenInv, IsKind, WorkKinds, lists, screens, kept, Idle, WizardsInv, Sound, At
<1>34. CASE \E w \in Wizards : WizardDefects(w)
  BY <1>34, <1>1, <1>2 DEF WizardDefects, WizardAnswered, HeldBy, Pumps, Panels, AtRest, Empty, ScreenInv, IsKind, WorkKinds, lists, screens, kept, Idle, WizardsInv, Sound, At
<1>35. CASE \E w \in Wizards : WizardRequirements(w)
  BY <1>35, <1>1, <1>2 DEF WizardRequirements, WizardAnswered, HeldBy, Pumps, Panels, AtRest, Empty, ScreenInv, IsKind, WorkKinds, lists, screens, kept, Idle, WizardsInv, Sound, At
<1>36. CASE \E w \in Wizards : \E i \in DOMAIN List(w) : SelectCandidate(w, i)
  BY <1>36, <1>1, <1>2 DEF SelectCandidate, List, HeldBy, Pumps, Panels, AtRest, Empty, ScreenInv, IsKind, WorkKinds, lists, screens, kept, Idle, WizardsInv, Sound, At
<1>37. CASE \E w \in Wizards : StartRun(w)
  BY <1>37, <1>1, <1>2 DEF StartRun, Run, NoWizard, DefectStartable, RequirementStartable, HeldBy, Pumps, Panels, AtRest, Empty, ScreenInv, IsKind, WorkKinds, lists, screens, kept, Idle, WizardsInv, Sound, At
<1>38. CASE \E w \in Wizards : ConfirmMapping(w)
  BY <1>38, <1>1, <1>2
     DEF ConfirmMapping, HeldBy, Pumps, Panels, AtRest, Empty, ScreenInv, IsKind, WorkKinds, lists,
         screens, kept, Idle, WizardsInv, Sound, At
<1>40. CASE \E w \in Wizards : WizardShown(w)
  <2>1. PICK w \in Wizards : WizardShown(w)
    BY <1>40
  <2> QED
    BY <2>1, <1>1, <1>2
       DEF WizardShown, HeldBy, Pumps, Panels, AtRest, Empty, ScreenInv, IsKind, WorkKinds, lists,
           screens, kept, Idle, WizardsInv, Sound, At
<1>39. CASE \E w \in Wizards : CloseWizard(w)
  <2>1. PICK w \in Wizards : CloseWizard(w)
    BY <1>39
  <2>2. /\ UNCHANGED <<panel, pump>>
        /\ \A v \in Wizards : v # w => wizard'[v] = wizard[v]
        /\ wizard[w].at = "starting" => wizard'[w] = [wizard[w] EXCEPT !.at = "left"]
    BY <1>1, <2>1 DEF CloseWizard, lists, At
  <2>3. ASSUME wizard[w].offer = n, wizard[w].at # "starting"
        PROVE  FALSE
    <3>1. wizard[w].kind = "requirement"
      BY <2>3, <1>1 DEF WizardsInv, Sound
    <3>2. wizard[w].at \notin {"none", "left", "loading", "filter", "landed", "mapping", "confirming",
                               "failed"}
      BY <1>1, <2>1, <2>3, <3>1 DEF WizardsInv, Sound, CloseWizard
    <3>3. wizard[w].at = "candidates"
      BY <1>1, <2>3, <3>2 DEF WizardType
    <3>4. offer' = Revoked({n})
      BY <2>1, <2>3, <3>1, <3>3 DEF CloseWizard, At
    <3> QED
      BY <1>2, <3>4
  <2>4. \A v \in Wizards : wizard[v].offer = n => wizard'[v].offer = n
    BY <1>1, <2>2, <2>3 DEF WizardType
  <2> QED
    BY <2>2, <2>4 DEF HeldBy
<1> QED
  BY <1>3, <1>11, <1>12, <1>13, <1>14, <1>15, <1>16, <1>17, <1>18, <1>19, <1>20, <1>21, <1>22, <1>23,
     <1>24, <1>25, <1>26, <1>27, <1>28, <1>29, <1>30, <1>31, <1>32, <1>33, <1>34, <1>35, <1>36,
     <1>37, <1>38, <1>39, <1>40
  DEF OffersNext, Watch, Board, Wizard, Around, Reload, PressCard, PressExpired, CardSelected,
      DialogCancelled, Deleted, PlanDisabled, Shut, Change, Age, lists, screens, kept

LEMMA StaysForgotten ==
    ASSUME OffersType, Forgotten, OffersNext
    PROVE  Forgotten'
<1>1. SUFFICES ASSUME shut', NEW n \in Queries PROVE ~offer'[n].live
  BY DEF Forgotten
<1>2. CASE Shut
  BY <1>2, RevokedIs DEF Shut, OffersType
<1>3. CASE ~Shut
  <2>1. shut
    BY <1>1, <1>3
    DEF OffersNext, Watch, Board, Wizard, Around, Loaded, Reload, QueryDefects, DefectsAnswered,
        QueryRequirements, RequirementsDiscarded, RequirementsAnswered, RequirementsLanded,
        RequirementsDrawn, RequirementsRefused, PressCard, StartWorkspaceDefect,
        StartWorkspaceRequirement, PressExpired, ModuleChanged, RefreshPressed, TaskSaved,
        BeginRefresh, RunsRead, BoardDiscarded, BoardAnswered, BoardShown, BoardFails, CardSelected,
        DefectActionSelected, DialogCancelled, ChooseWorkflow, WizardOptions, WizardDefects,
        WizardRequirements, WizardAnswered, StartRun, WizardShown, ConfirmMapping, CloseWizard,
        SelectCandidate,
        DeleteWorkspace, Deleted, DeleteDone, DeleteFails, PlanDisabled, Leave, Change, Age,
        Unmounted, lists, screens, kept
  <2>2. ~offer[n].live
    BY <2>1 DEF Forgotten
  <2>3. CASE Stay
    BY <2>2, <2>3 DEF Stay, Same
  <2>4. CASE OneMore
    <3>1. PICK kind \in WorkKinds : Recorded(kind)
      BY <2>4 DEF OneMore, WorkKinds
    <3> QED
      BY <2>1, <2>2, <3>1, RecordedIs DEF Same, OffersType
  <2> QED
    BY <2>3, <2>4, OffersMove DEF OffersType
<1> QED
  BY <1>2, <1>3

LEMMA HeldKept ==
    ASSUME OffersType, ScreenInv, WizardsInv, Forgotten, HeldOrGone, OffersNext
    PROVE  HeldOrGone'
<1>1. SUFFICES ASSUME NEW n \in Queries, offer'[n].kind = "requirement", offer'[n].live
               PROVE  HeldBy(n)'
  BY DEF HeldOrGone, HeldBy
<1>4. /\ pump \in [Pumps -> PumpType(Referred)]
      /\ wizard \in [Wizards -> WizardType(Referred)]
  BY DEF OffersType, Handled, Begun
<1>2. CASE offer[n].kind = "requirement" /\ offer[n].live
  BY <1>1, <1>2, StaysHeld DEF HeldOrGone, HeldBy
<1>3. CASE ~(offer[n].kind = "requirement" /\ offer[n].live)
  <2>1. ~Stay
    BY <1>1, <1>3 DEF Stay, Same
  <2>2. OneMore
    BY <2>1, OffersMove DEF OffersType
  <2>3. \A kind \in WorkKinds : Recorded(kind) => n = Latest /\ kind = "requirement" /\ ones # <<>>
    BY <1>1, <1>3, RecordedIs DEF OffersType, Same
  <2>4. CASE RequirementsAnswered
    BY <2>2, <2>3, <2>4, <1>4 DEF RequirementsAnswered, HeldBy, Pumps, PumpType, OneMore, WorkKinds
  <2>5. CASE \E w \in Wizards : WizardRequirements(w)
    <3>1. PICK w \in Wizards : WizardRequirements(w)
      BY <2>5
    <3>2. wizard' = [wizard EXCEPT ![w] = [@ EXCEPT !.at = "landed", !.offer = n]]
      BY <2>2, <2>3, <3>1 DEF WizardRequirements, WizardAnswered, OneMore, WorkKinds
    <3> QED
      BY <3>1, <3>2, <1>4 DEF HeldBy, WizardType
  <2> QED
    BY <2>2, <2>3, <2>4, <2>5 DEF OneMore, WorkKinds
<1> QED
  BY <1>2, <1>3

LEMMA ListsShown ==
    ASSUME OffersType, ScreenInv, OffersNext, NEW shown \in [Queries -> Lists], Shows(shown),
           DefectsAnswered /\ Recorded("defect") => shown[Latest] = ones,
           RequirementsAnswered => shown[Latest] = ones,
           \A p \in Pumps : BoardAnswered(p) /\ Recorded("defect")
                                => shown[Latest] = Unstarted(pump[p].seen)
    PROVE  Shows(shown)'
<1>1. /\ pump \in [Pumps -> PumpType(Referred)] /\ panel \in [Panels -> ListType(Referred)]
      /\ cards \in [Panels -> ListType(Referred)] /\ press \in [Pumps -> PressType(Referred)]
      /\ choice \in PressType(Referred)
  BY DEF OffersType, Handled, Listed
<1>2. \A i : i \notin DOMAIN <<>>
  OBVIOUS
<1>3. /\ pump["screen"].at \in {"discard", "requirements", "landed", "draw"}
             => panel["requirements"].of = 0
      /\ \A n \in Queries : n # 0
  BY OffersAssumption DEF ScreenInv
<1>4. CASE UNCHANGED <<pump, panel, cards, press, choice>>
  BY <1>4 DEF Shows, IsOf
<1>11. CASE Loaded
  BY <1>11, <1>1, <1>2, <1>3 DEF Loaded, Shows, IsOf, Pumps, Panels, AtRest, NoPress, Empty, lists, screens, Idle, PumpType, ListType, PressType
<1>12. CASE QueryDefects
  BY <1>12, <1>1, <1>2, <1>3 DEF QueryDefects, Shows, IsOf, Pumps, Panels, AtRest, NoPress, Empty, lists, screens, Idle, PumpType, ListType, PressType
<1>13. CASE DefectsAnswered
  BY <1>13, <1>1, <1>2, <1>3 DEF DefectsAnswered, Shows, IsOf, Pumps, Panels, AtRest, NoPress, Empty, lists, screens, Idle, PumpType, ListType, PressType
<1>14. CASE QueryRequirements
  BY <1>14, <1>1, <1>2, <1>3 DEF QueryRequirements, Shows, IsOf, Pumps, Panels, AtRest, NoPress, Empty, lists, screens, Idle, PumpType, ListType, PressType
<1>15. CASE RequirementsDiscarded
  BY <1>15, <1>1, <1>2, <1>3 DEF RequirementsDiscarded, Shows, IsOf, Pumps, Panels, AtRest, NoPress, Empty, lists, screens, Idle, PumpType, ListType, PressType
<1>16. CASE RequirementsAnswered
  BY <1>16, <1>1, <1>2, <1>3 DEF RequirementsAnswered, Shows, IsOf, Pumps, Panels, AtRest, NoPress, Empty, lists, screens, Idle, PumpType, ListType, PressType
<1>17. CASE RequirementsLanded
  BY <1>17, <1>1, <1>2, <1>3 DEF RequirementsLanded, Shows, IsOf, Pumps, Panels, AtRest, NoPress, Empty, lists, screens, Idle, PumpType, ListType, PressType
<1>18. CASE RequirementsDrawn
  BY <1>18, <1>1, <1>2, <1>3 DEF RequirementsDrawn, Shows, IsOf, Pumps, Panels, AtRest, NoPress, Empty, lists, screens, Idle, PumpType, ListType, PressType
<1>19. CASE RequirementsRefused
  BY <1>19, <1>1, <1>2, <1>3 DEF RequirementsRefused, Shows, IsOf, Pumps, Panels, AtRest, NoPress, Empty, lists, screens, Idle, PumpType, ListType, PressType
<1>20. CASE \E p \in Panels : \E i \in DOMAIN cards[p].list : PressCard(p, i)
  BY <1>20, <1>1, <1>2, <1>3 DEF PressCard, Shows, IsOf, Pumps, Panels, AtRest, NoPress, Empty, lists, screens, Idle, PumpType, ListType, PressType
<1>21. CASE StartWorkspaceDefect
  BY <1>21, <1>1, <1>2, <1>3 DEF StartWorkspaceDefect, Shows, IsOf, Pumps, Panels, AtRest, NoPress, Empty, lists, screens, Idle, PumpType, ListType, PressType
<1>22. CASE StartWorkspaceRequirement
  BY <1>22, <1>1, <1>2, <1>3 DEF StartWorkspaceRequirement, Shows, IsOf, Pumps, Panels, AtRest, NoPress, Empty, lists, screens, Idle, PumpType, ListType, PressType
<1>23. CASE PressExpired
  BY <1>23, <1>1, <1>2, <1>3 DEF PressExpired, Shows, IsOf, Pumps, Panels, AtRest, NoPress, Empty, lists, screens, Idle, PumpType, ListType, PressType
<1>24. CASE ModuleChanged \/ RefreshPressed \/ TaskSaved
  BY <1>24, <1>1, <1>2, <1>3 DEF ModuleChanged, RefreshPressed, TaskSaved, BeginRefresh, Shows, IsOf, Pumps, Panels, AtRest, NoPress, Empty, lists, screens, Idle, PumpType, ListType, PressType
<1>25. CASE \E p \in Pumps : RunsRead(p)
  BY <1>25, <1>1, <1>2, <1>3 DEF RunsRead, Shows, IsOf, Pumps, Panels, AtRest, NoPress, Empty, lists, screens, Idle, PumpType, ListType, PressType
<1>26. CASE \E p \in Pumps : BoardDiscarded(p)
  BY <1>26, <1>1, <1>2, <1>3 DEF BoardDiscarded, Shows, IsOf, Pumps, Panels, AtRest, NoPress, Empty, lists, screens, Idle, PumpType, ListType, PressType
<1>27. CASE \E p \in Pumps : BoardAnswered(p)
  <2>1. PICK p \in Pumps : BoardAnswered(p)
    BY <1>27
  <2> DEFINE list == Unstarted(pump[p].seen)
  <2>2. /\ pump[p].at = "ask" /\ UNCHANGED <<cards, press, choice>> /\ pump[p] \in PumpType(Referred)
    BY <1>1, <2>1 DEF BoardAnswered, screens
  <2>3. pump[p].new = 0
    BY <2>2 DEF Shows
  <2>4. CASE /\ Recorded("defect")
             /\ panel' = [panel EXCEPT !["board"] = [list |-> list, of |-> Latest]]
             /\ pump' = [pump EXCEPT ![p] = [@ EXCEPT !.at = "show", !.list = list, !.new = Latest]]
    <3>1. shown[Latest] = list
      BY <2>1, <2>4
    <3>2. /\ pump'[p].at = "show" /\ pump'[p].list = list /\ pump'[p].new = Latest
          /\ \A q \in Pumps : q # p => pump'[q] = pump[q]
      BY <1>1, <2>2, <2>4 DEF PumpType
    <3>3. /\ panel'["board"].list = list /\ panel'["board"].of = Latest
          /\ \A q \in Panels : q # "board" => panel'[q] = panel[q]
      BY <1>1, <2>4 DEF Panels
    <3> HIDE DEF list
    <3>4. pump'["screen"].at = "draw" => pump'["screen"] = pump["screen"]
      BY <3>2 DEF Pumps
    <3> QED
      BY <2>2, <3>1, <3>2, <3>3, <3>4 DEF Shows, IsOf, Pumps, Panels
  <2>5. CASE /\ panel' = [panel EXCEPT !["board"].list = <<>>]
             /\ pump' = [pump EXCEPT ![p].at = "show"]
    <3>1. /\ pump'[p].at = "show" /\ pump'[p].new = 0
          /\ \A q \in Pumps : q # p => pump'[q] = pump[q]
      BY <1>1, <2>2, <2>3, <2>5 DEF PumpType
    <3>2. /\ panel'["board"].list = <<>>
          /\ \A q \in Panels : q # "board" => panel'[q] = panel[q]
      BY <1>1, <2>5 DEF Panels, ListType
    <3>3. pump'["screen"].at = "draw" => pump'["screen"] = pump["screen"]
      BY <3>1 DEF Pumps
    <3> QED
      BY <2>2, <3>1, <3>2, <3>3 DEF Shows, IsOf, Pumps, Panels
  <2> QED
    BY <2>1, <2>4, <2>5 DEF BoardAnswered
<1>28. CASE \E p \in Pumps : BoardShown(p)
  BY <1>28, <1>1, <1>2, <1>3 DEF BoardShown, Shows, IsOf, Pumps, Panels, AtRest, NoPress, Empty, lists, screens, Idle, PumpType, ListType, PressType
<1>29. CASE \E p \in Pumps : BoardFails(p)
  BY <1>29, <1>1, <1>2, <1>3 DEF BoardFails, Shows, IsOf, Pumps, Panels, AtRest, NoPress, Empty, lists, screens, Idle, PumpType, ListType, PressType
<1>30. CASE CardSelected
  <2>1. /\ \/ UNCHANGED choice
           \/ /\ press["board"].index \in DOMAIN panel["board"].list
              /\ choice' = [press["board"] EXCEPT !.of = panel["board"].of,
                               !.item = {panel["board"].list[press["board"].index]}]
        /\ press' = [press EXCEPT !["board"] = NoPress] /\ UNCHANGED <<panel, cards, pump>>
    BY <1>30 DEF CardSelected, lists
  <2>2. /\ press'["board"].of = 0 /\ press'["screen"] = press["screen"]
    BY <1>1, <2>1 DEF NoPress, Pumps
  <2>3. IsOf(choice', shown)
    <3>1. CASE UNCHANGED choice
      BY <3>1 DEF Shows
    <3>2. CASE /\ press["board"].index \in DOMAIN panel["board"].list
               /\ choice' = [press["board"] EXCEPT !.of = panel["board"].of,
                                !.item = {panel["board"].list[press["board"].index]}]
      <4>1. /\ choice'.of = panel["board"].of /\ choice'.index = press["board"].index
            /\ choice'.item = {panel["board"].list[press["board"].index]}
        BY <1>1, <3>2 DEF PressType, Pumps
      <4>2. panel["board"].of # 0 => panel["board"].list = shown[panel["board"].of]
        BY <1>2, <3>2 DEF Shows, Panels
      <4> QED
        BY <3>2, <4>1, <4>2 DEF IsOf
    <3> QED
      BY <2>1, <3>1, <3>2
  <2> QED
    BY <2>1, <2>2, <2>3 DEF Shows, IsOf, Pumps
<1>31. CASE DeleteWorkspace
  BY <1>31, <1>1, <1>2, <1>3 DEF DeleteWorkspace, Shows, IsOf, Pumps, Panels, AtRest, NoPress, Empty, lists, screens, Idle, PumpType, ListType, PressType
<1>32. CASE DefectActionSelected
  BY <1>32, <1>1, <1>2, <1>3 DEF DefectActionSelected, Shows, IsOf, Pumps, Panels, AtRest, NoPress, Empty, lists, screens, Idle, PumpType, ListType, PressType
<1>33. CASE DialogCancelled
  BY <1>33, <1>1, <1>2, <1>3 DEF DialogCancelled, Shows, IsOf, Pumps, Panels, AtRest, NoPress, Empty, lists, screens, Idle, PumpType, ListType, PressType
<1>34. CASE DeleteFails
  BY <1>34, <1>1, <1>2, <1>3 DEF DeleteFails, Shows, IsOf, Pumps, Panels, AtRest, NoPress, Empty, lists, screens, Idle, PumpType, ListType, PressType
<1>35. CASE DeleteDone \/ Leave
  BY <1>35, <1>1, <1>2, <1>3 DEF DeleteDone, Leave, Unmounted, Shows, IsOf, Pumps, Panels, AtRest, NoPress, Empty, lists, screens, Idle, PumpType, ListType, PressType
<1> QED
  BY <1>4, <1>11, <1>12, <1>13, <1>14, <1>15, <1>16, <1>17, <1>18, <1>19, <1>20, <1>21, <1>22, <1>23,
     <1>24, <1>25, <1>26, <1>27, <1>28, <1>29, <1>30, <1>31, <1>32, <1>33, <1>34, <1>35
  DEF OffersNext, Watch, Board, Wizard, Around, Reload, BeginRefresh, ChooseWorkflow,
        WizardOptions, WizardDefects, WizardRequirements, WizardAnswered, StartRun, WizardShown,
        ConfirmMapping,
        CloseWizard, SelectCandidate, Deleted, PlanDisabled, Shut, Change, Age, Unmounted, lists,
        screens, kept

\* Nothing refers to the answer that comes next.
LEMMA NextIsFree ==
    ASSUME OffersType, NEW shown \in [Queries -> Lists], Shows(shown), NEW n \in Queries, n \notin Used,
           NEW l \in Lists
    PROVE  Shows([shown EXCEPT ![n] = l])
<1>1. /\ pump \in [Pumps -> PumpType(Referred)] /\ panel \in [Panels -> ListType(Referred)]
      /\ cards \in [Panels -> ListType(Referred)] /\ press \in [Pumps -> PressType(Referred)]
      /\ choice \in PressType(Referred)
  BY DEF OffersType, Handled, Listed
<1>2. /\ \A p \in Panels : panel[p].of \in Used \cup {0} /\ cards[p].of \in Used \cup {0}
      /\ \A p \in Pumps : pump[p].new \in Used \cup {0} /\ press[p].of \in Used \cup {0}
      /\ choice.of \in Used \cup {0} /\ "screen" \in Pumps
  BY <1>1 DEF ListType, PumpType, PressType, Referred, Pumps
<1>3. \A m \in Used : [shown EXCEPT ![n] = l][m] = shown[m]
  BY DEF Used
<1> QED
  BY <1>2, <1>3 DEF Shows, IsOf

LEMMA ListsKept ==
    ASSUME OffersType, ScreenInv, ListsInv, OffersNext
    PROVE  ListsInv'
<1>1. PICK shown \in [Queries -> Lists] : Shows(shown)
  BY DEF ListsInv
<1>2. CASE \E kind \in WorkKinds : Recorded(kind)
  <2>1. Latest \in Queries /\ Latest \notin Used /\ ones \in Lists
    BY <1>2, RecordedGrows, ListsAre DEF OffersType, KeptInv, Used
  <2>2. PICK l \in Lists : /\ DefectsAnswered \/ RequirementsAnswered => l = ones
                           /\ \A p \in Pumps : BoardAnswered(p) => l = Unstarted(pump[p].seen)
    <3>1. CASE \E p \in Pumps : BoardAnswered(p)
      <4>1. PICK p \in Pumps : BoardAnswered(p)
        BY <3>1
      <4>2. Unstarted(pump[p].seen) \in Lists
        BY ListsAre DEF OffersType, KeptInv, Handled, PumpType, Unstarted
      <4>3. ~DefectsAnswered /\ ~RequirementsAnswered /\ \A q \in Pumps : BoardAnswered(q) => q = p
        <5>1. pump \in [Pumps -> PumpType(Referred)] /\ "screen" \in Pumps
          BY DEF OffersType, Handled, Pumps
        <5>2. \A q \in Pumps : BoardAnswered(q) =>
                  /\ pump[q].at = "ask" /\ pump'[q].at = "show"
                  /\ \A r \in Pumps : r # q => pump'[r] = pump[r]
          <6>1. TAKE q \in Pumps
          <6>2. HAVE BoardAnswered(q)
          <6>3. pump[q].at = "ask" /\ pump[q] \in PumpType(Referred)
            BY <5>1, <6>2 DEF BoardAnswered
          <6>4. PICK z : pump' = [pump EXCEPT ![q] = z] /\ z.at = "show"
            <7>1. \A l, n : [pump[q] EXCEPT !.at = "show", !.list = l, !.new = n].at = "show"
              BY <6>3 DEF PumpType
            <7>2. [pump[q] EXCEPT !.at = "show"].at = "show"
              BY <6>3 DEF PumpType
            <7>3. pump' = [pump EXCEPT ![q] = [pump[q] EXCEPT !.at = "show",
                               !.list = Unstarted(pump[q].seen), !.new = Latest]]
                  \/ pump' = [pump EXCEPT ![q] = [pump[q] EXCEPT !.at = "show"]]
              BY <5>1, <6>2 DEF BoardAnswered
            <7> DEFINE z1 == [pump[q] EXCEPT !.at = "show", !.list = Unstarted(pump[q].seen),
                                             !.new = Latest]
                       z2 == [pump[q] EXCEPT !.at = "show"]
            <7>4. z1.at = "show" /\ z2.at = "show"
              BY <7>1, <7>2
            <7>5. pump' = [pump EXCEPT ![q] = z1] \/ pump' = [pump EXCEPT ![q] = z2]
              BY <7>3
            <7> HIDE DEF z1, z2
            <7> QED
              BY <7>4, <7>5
          <6> QED
            BY <5>1, <6>3, <6>4
        <5>3. DefectsAnswered => pump["screen"].at = "defects" /\ pump'["screen"].at = "idle"
          BY <5>1 DEF DefectsAnswered, AtRest
        <5>4. RequirementsAnswered => pump["screen"].at = "requirements" /\ pump'["screen"].at = "landed"
          BY <5>1 DEF RequirementsAnswered, PumpType
        <5> QED
          BY <4>1, <5>1, <5>2, <5>3, <5>4
      <4> QED
        BY <4>2, <4>3
    <3>2. CASE ~ \E p \in Pumps : BoardAnswered(p)
      BY <2>1, <3>2
    <3> QED
      BY <3>1, <3>2
  <2>3. PICK k : k = Latest
    OBVIOUS
  <2> DEFINE more == [shown EXCEPT ![k] = l]
  <2>4. more \in [Queries -> Lists] /\ more[Latest] = l /\ Shows(more)
    BY <1>1, <2>1, <2>3, NextIsFree
  <2> HIDE DEF more
  <2>5. Shows(more)'
    BY <2>2, <2>4, ListsShown
  <2> QED
    BY <2>4, <2>5 DEF ListsInv
<1>3. CASE ~ \E kind \in WorkKinds : Recorded(kind)
  <2>1. Shows(shown)'
    BY <1>1, <1>3, ListsShown DEF WorkKinds, RequirementsAnswered
  <2> QED
    BY <2>1 DEF ListsInv
<1> QED
  BY <1>2, <1>3

LEMMA AskedKept ==
    ASSUME OffersType, ScreenInv, WizardsInv, ListsInv, AskedInv, OffersNext
    PROVE  AskedInv'
<1>1. /\ wizard \in [Wizards -> WizardType(Referred)] /\ started \subseteq RunType(Referred)
      /\ panel \in [Panels -> ListType(Referred)] /\ press \in [Pumps -> PressType(Referred)]
      /\ choice \in PressType(Referred)
  BY DEF OffersType, Begun, Listed, Handled
<1>2. PICK shown \in [Queries -> Lists] : Shows(shown)
  BY DEF ListsInv
<1>3. /\ \A n \in Queries : offer'[n].live => offer[n].live \/ n \notin Used
      /\ \A r \in started : r.offer \in Used
  BY <1>1, OffersGrow DEF OffersType, Grown, Same, RunType, Referred, Used
<1>4. \A r \in started : ~offer'[r.offer].live /\ Heard(r)
  BY <1>3 DEF AskedInv, Used
<1>5. ASSUME UNCHANGED started, NEW w \in Wizards, NEW z,
             z.at \in {"starting", "left"} => Heard(z), wizard' = [wizard EXCEPT ![w] = z]
      PROVE  AskedInv'
  BY <1>1, <1>4, <1>5 DEF AskedInv
<1>6. CASE UNCHANGED <<wizard, started>>
  BY <1>4, <1>6 DEF AskedInv
<1>7. ASSUME UNCHANGED started, NEW kind, NEW list, NEW i, NEW p, NEW of,
             OpenWizard(kind, list, i, p, of), p.of # 0 => IsOf(p, shown) /\ i = p.index,
             kind = "requirement" => p.of # 0 /\ p.of = of, of # 0, list \in {<<>>, shown[of]}
      PROVE  AskedInv'
  <2>1. PICK w \in Wizards : wizard' = [wizard EXCEPT ![w] =
            [at |-> IF i \in DOMAIN list THEN "starting" ELSE "failed", kind |-> kind,
             home |-> TRUE, offer |-> of, item |-> IF i \in DOMAIN list THEN list[i] ELSE {},
             asked |-> p.item, seen |-> p.of]]
    BY <1>7 DEF OpenWizard, NewWizard
  <2> DEFINE z == [at |-> IF i \in DOMAIN list THEN "starting" ELSE "failed", kind |-> kind,
             home |-> TRUE, offer |-> of, item |-> IF i \in DOMAIN list THEN list[i] ELSE {},
             asked |-> p.item, seen |-> p.of]
  <2>2. z.at = (IF i \in DOMAIN list THEN "starting" ELSE "failed")
        /\ z.kind = kind /\ z.offer = of /\ z.asked = p.item /\ z.seen = p.of
        /\ (i \in DOMAIN list => z.item = list[i])
    OBVIOUS
  <2> HIDE DEF z
  <2>3. ASSUME z.at \in {"starting", "left"}, kind = "requirement" \/ of = p.of
        PROVE  p.item = {list[i]}
    <3>1. i \in DOMAIN list
      BY <2>2, <2>3
    <3>2. list = shown[of] /\ p.of = of
      BY <1>7, <2>3, <3>1
    <3> QED
      BY <1>7, <3>1, <3>2 DEF IsOf
  <2>4. z.at \in {"starting", "left"} => Heard(z)
    BY <2>2, <2>3 DEF Heard
  <2> QED
    BY <1>5, <1>7, <2>1, <2>4 DEF z
<1>8. \A p \in Panels : panel[p].of # 0 => panel[p].list \in {<<>>, shown[panel[p].of]}
  BY <1>2 DEF Shows
<1>11. CASE StartWorkspaceDefect
  BY <1>1, <1>2, <1>7, <1>8, <1>11 DEF StartWorkspaceDefect, Known, Shows, Panels, Pumps
<1>12. CASE StartWorkspaceRequirement
  BY <1>1, <1>2, <1>7, <1>8, <1>12
  DEF StartWorkspaceRequirement, Known, SameGeneration, Shows, Panels, Pumps
<1>13. CASE DefectActionSelected
  BY <1>1, <1>2, <1>6, <1>7, <1>8, <1>13 DEF DefectActionSelected, Known, Shows, Panels
<1>14. CASE \E k \in WorkKinds : ChooseWorkflow(k)
  <2>1. PICK k \in WorkKinds, w \in Wizards :
            wizard' = [wizard EXCEPT ![w] =
                [NoWizard EXCEPT !.at = IF k = "defect" THEN "loading" ELSE "filter", !.kind = k]]
    BY <1>14 DEF ChooseWorkflow, NewWizard
  <2>2. [NoWizard EXCEPT !.at = IF k = "defect" THEN "loading" ELSE "filter", !.kind = k].at
            \notin {"starting", "left"}
    BY DEF NoWizard
  <2>3. UNCHANGED started
    BY <1>14 DEF ChooseWorkflow
  <2> QED
    BY <1>5, <2>1, <2>2, <2>3
<1>15. CASE \E w \in Wizards : WizardOptions(w) \/ WizardShown(w) \/ ConfirmMapping(w)
  <2>1. PICK w \in Wizards, at \in {"filter", "candidates", "confirming"} :
            wizard' = [wizard EXCEPT ![w] = [wizard[w] EXCEPT !.at = at]] /\ UNCHANGED started
    BY <1>1, <1>15 DEF WizardOptions, WizardShown, ConfirmMapping
  <2>2. [wizard[w] EXCEPT !.at = at].at \notin {"starting", "left"}
    BY <1>1 DEF WizardType
  <2> QED
    BY <1>5, <2>1, <2>2
<1>16. CASE \E w \in Wizards : WizardDefects(w) \/ WizardRequirements(w)
  <2>1. PICK w \in Wizards : /\ UNCHANGED started
                             /\ \/ wizard' = [wizard EXCEPT ![w] =
                                       [wizard[w] EXCEPT !.at = "landed", !.offer = Latest]]
                                \/ UNCHANGED wizard
    BY <1>16 DEF WizardDefects, WizardRequirements, WizardAnswered
  <2>2. [wizard[w] EXCEPT !.at = "landed", !.offer = Latest].at \notin {"starting", "left"}
    BY <1>1 DEF WizardType
  <2> QED
    BY <1>5, <1>6, <2>1, <2>2
<1>17. CASE \E w \in Wizards : \E i \in DOMAIN List(w) : SelectCandidate(w, i)
  <2>0. PICK w \in Wizards : \E i \in DOMAIN List(w) : SelectCandidate(w, i)
    BY <1>17
  <2>1. PICK i \in DOMAIN List(w) : SelectCandidate(w, i)
    BY <2>0
  <2> DEFINE z == [wizard[w] EXCEPT !.at = "starting", !.item = List(w)[i], !.asked = {List(w)[i]},
                                    !.seen = wizard[w].offer]
  <2>2. z.asked = {z.item}
    BY <1>1 DEF WizardType
  <2>3. wizard' = [wizard EXCEPT ![w] = z] /\ UNCHANGED started
    BY <2>1 DEF SelectCandidate
  <2> HIDE DEF z
  <2> QED
    BY <1>5, <2>2, <2>3 DEF Heard
<1>18. CASE \E w \in Wizards : StartRun(w)
  <2>1. PICK w \in Wizards : StartRun(w)
    BY <1>18
  <2>2. /\ wizard[w].at \in {"starting", "left"} /\ offer' = Revoked({wizard[w].offer})
        /\ \A v \in Wizards : v # w => wizard'[v] = wizard[v]
        /\ wizard'[w] = NoWizard \/ \E at \in {"mapping", "failed"} :
               wizard'[w] = [wizard[w] EXCEPT !.at = at]
    BY <1>1, <2>1 DEF StartRun
  <2>3. wizard'[w].at \notin {"starting", "left"}
    BY <1>1, <2>2 DEF WizardType, NoWizard
  <2>4. \A v \in Wizards : wizard'[v].at \in {"starting", "left"} => Heard(wizard'[v])
    BY <2>2, <2>3 DEF AskedInv
  <2>5. CASE UNCHANGED started
    BY <1>4, <2>4, <2>5 DEF AskedInv
  <2>6. CASE started' = started \cup {Run(wizard[w])} /\ offer[wizard[w].offer].live
    <3>1. wizard[w].offer \in Queries
      BY <1>1, <2>2 DEF WizardType, Referred, Used, WizardsInv, Sound
    <3>2. ~offer'[wizard[w].offer].live
      BY <2>2, <3>1, RevokedIs DEF OffersType
    <3> DEFINE new == Run(wizard[w])
    <3>3. new.offer = wizard[w].offer /\ Heard(new)
      BY <2>2 DEF Run, AskedInv, Heard
    <3> HIDE DEF new
    <3>4. \A r \in started : r.offer # new.offer
      BY <2>6, <3>3 DEF AskedInv
    <3>5. started' = started \cup {new}
      BY <2>6 DEF new
    <3> QED
      BY <1>4, <2>4, <3>2, <3>3, <3>4, <3>5 DEF AskedInv
  <2> QED
    BY <2>1, <2>5, <2>6 DEF StartRun, DefectStartable, RequirementStartable, Offered
<1>19. CASE \E w \in Wizards : CloseWizard(w)
  <2>1. PICK w \in Wizards : CloseWizard(w)
    BY <1>19
  <2>2. /\ UNCHANGED started
        /\ \/ wizard' = [wizard EXCEPT ![w] = NoWizard]
           \/ wizard[w].at = "starting" /\ wizard' = [wizard EXCEPT ![w] = [wizard[w] EXCEPT !.at = "left"]]
    BY <2>1 DEF CloseWizard, At
  <2>3. NoWizard.at \notin {"starting", "left"}
    BY DEF NoWizard
  <2>4. wizard[w].at = "starting" => Heard([wizard[w] EXCEPT !.at = "left"])
    BY <1>1 DEF AskedInv, Heard, WizardType
  <2> QED
    BY <1>5, <2>2, <2>3, <2>4
<1> QED
  BY <1>6, <1>11, <1>12, <1>13, <1>14, <1>15, <1>16, <1>17, <1>18, <1>19
  DEF OffersNext, Watch, Board, Wizard, Around, Loaded, Reload, QueryDefects, DefectsAnswered,
      QueryRequirements, RequirementsDiscarded, RequirementsAnswered, RequirementsLanded,
      RequirementsDrawn, RequirementsRefused, PressCard, PressExpired, ModuleChanged,
      RefreshPressed, TaskSaved, BeginRefresh, RunsRead, BoardDiscarded, BoardAnswered, BoardShown,
      BoardFails, CardSelected, DialogCancelled, DeleteWorkspace, Deleted, DeleteDone, DeleteFails,
      PlanDisabled, Leave, Shut, Change, Age, Unmounted, lists, screens, kept

OffersInv ==
    /\ OffersType /\ ScreenInv /\ WizardsInv /\ ListsInv /\ AskedInv
    /\ Forgotten /\ HeldOrGone

LEMMA OffersStart == OffersInit => OffersInv
<1> SUFFICES ASSUME OffersInit
             PROVE  OffersInv
  OBVIOUS
<1>1. NoOffer \in OfferType /\ NoOffer.kind = "none" /\ NoOffer.live = FALSE
  BY DEF NoOffer, OfferType
<1>2. /\ offer = [n \in Queries |-> NoOffer] /\ started = {} /\ choice = NoPress
      /\ panel = [p \in Panels |-> Empty] /\ cards = [p \in Panels |-> Empty]
      /\ pump = [p \in Pumps |-> IF p = "screen" THEN [AtRest EXCEPT !.at = "loading"] ELSE AtRest]
      /\ press = [p \in Pumps |-> NoPress] /\ wizard = [w \in Wizards |-> NoWizard]
      /\ ones \in Answers /\ shut = FALSE /\ here = TRUE
  BY DEF OffersInit
<1>3. KeptInv /\ 0 \in Referred
  BY <1>1, <1>2 DEF KeptInv, Used, Referred
<1>4. Listed(panel, cards, Referred)
  BY <1>2, <1>3, ListsAre DEF Listed, ListType, Empty
<1>5. Handled(pump, press, choice, Referred)
  BY <1>2, <1>3, ListsAre DEF Handled, PumpType, PressType, AtRest, NoPress
<1>6. Begun(wizard, started, Referred)
  BY <1>2, <1>3, ListsAre DEF Begun, WizardType, NoWizard
<1>7. ScreenInv
  BY <1>2 DEF ScreenInv, IsKind, Pumps, Panels, AtRest, Empty
<1>8. WizardsInv
  BY <1>2 DEF WizardsInv, Sound, NoWizard
<1>9. ListsInv
  <2> DEFINE shown == [n \in Queries |-> <<>>]
  <2>1. shown \in [Queries -> Lists]
    BY ListsAre
  <2> HIDE DEF shown
  <2>2. Shows(shown)
    BY <1>2 DEF Shows, IsOf, Pumps, Panels, AtRest, Empty, NoPress
  <2> QED
    BY <2>1, <2>2 DEF ListsInv
<1>10. AskedInv
  BY <1>2 DEF AskedInv, NoWizard
<1>11. Forgotten /\ HeldOrGone
  BY <1>1, <1>2 DEF Forgotten, HeldOrGone
<1> QED
  BY <1>3, <1>4, <1>5, <1>6, <1>7, <1>8, <1>9, <1>10, <1>11 DEF OffersInv, OffersType

LEMMA OffersRest == OffersInv /\ UNCHANGED offersVars => OffersInv'
BY DEF offersVars, kept, lists, screens, OffersInv, OffersType, KeptInv, Listed, Handled, Begun,
       Referred, Used, ScreenInv, IsKind, WizardsInv, ListsInv, Shows, AskedInv, Forgotten,
       HeldOrGone

LEMMA OffersStep == OffersInv /\ [DeskNext]_deskVars => OffersInv'
<1>1. CASE OffersNext
  BY <1>1, OffersTyped, ScreenKept, WizardsKept, ListsKept, AskedKept,
     StaysForgotten, HeldKept DEF OffersInv
<1>2. CASE UNCHANGED offersVars
  BY <1>2, OffersRest
<1> QED
  BY <1>1, <1>2 DEF DeskNext, AtDashboard, AtWorkspace, AtEditor, deskVars

(* The workspace screen, its board and its wizards: whatever list replaces   *)
(* another while a press waits, a requirement run is of the item whose       *)
(* button was pressed, a defect run is unless its list was replaced, and no  *)
(* answer of ONES is good for two runs; for any number of items, queries     *)
(* and wizards.                                                              *)
THEOREM AlwaysWhatWasAsked == DeskSpec => []WhatWasAsked
<1>1. OffersInv => WhatWasAsked
  BY DEF OffersInv, AskedInv, Heard, WhatWasAsked
<1>2. DeskInit => OffersInv
  BY OffersStart DEF DeskInit
<1> HIDE DEF OffersInv
<1> QED
  BY <1>1, <1>2, OffersStep, PTL DEF DeskSpec

(* TuiController: a session of requirements that may still be started is on  *)
(* a screen, in a wizard or with the handler that asked for it; however      *)
(* queries, failures and leaving interleave.                                 *)
THEOREM AlwaysHeldOrGone == DeskSpec => []HeldOrGone
<1>1. OffersInv => HeldOrGone
  BY DEF OffersInv
<1>2. DeskInit => OffersInv
  BY OffersStart DEF DeskInit
<1> HIDE DEF OffersInv
<1> QED
  BY <1>1, <1>2, OffersStep, PTL DEF DeskSpec
=============================================================================
