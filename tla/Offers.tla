------------------------------- MODULE Offers -------------------------------
(***************************************************************************)
(* Work on offer: what ONES answers to a query is a list of work items     *)
(* that is good for one run.  TuiController and DefectCandidateService     *)
(* keep the offers; the workspace screen shows them in a list of defects,  *)
(* a list of requirements and a board, and a wizard starts the run.        *)
(*                                                                         *)
(* Every widget handles one message after another: a pump that waits for   *)
(* a query keeps the presses that come meanwhile.  The screen and the      *)
(* board have a pump each and both refresh the board.  Filters, texts and  *)
(* the data of an item are left out.                                       *)
(***************************************************************************)
EXTENDS Naturals, FiniteSets, Sequences

CONSTANTS Items,        \* work items in ONES
          Answers,      \* the lists of open items that ONES may answer
          Queries,      \* bound: answers of ONES that are kept, 1..n
          Wizards,      \* bound: wizards that are open at once, 1..n
          MaxSessions,  \* max_candidate_sessions
          MaxBatches,   \* max_batches
          Plans,        \* scheduled plans of the workspace
          Spares        \* bounds: how often each thing of Doings may happen

Doings == {"defects", "requirements", "tab", "refresh", "edit", "wizard", "press",
           "leave", "delete", "change", "age", "shut", "error"}

ASSUME OffersAssumption ==
    /\ Answers \subseteq Seq(Items) /\ Answers # {}
    /\ Queries \subseteq Nat \ {0} /\ Wizards \subseteq Nat \ {0}
    /\ MaxSessions \in Nat \ {0} /\ MaxBatches \in Nat \ {0}
    /\ Spares \subseteq [Doings -> Nat]

VARIABLES
    ones,          \* what ONES answers now
    offer,         \* the answers: what the service and the controller keep of each
    shut,          \* _closed of the controller
    ready,         \* kinds of which the filter options are loaded
    panel,         \* of each list: its candidates and the offer they may be started from
    cards,         \* of each list: the cards drawn, and the offer they are drawn from
    pump,          \* what the handler of each widget waits for, with its local variables
    press,         \* the press each widget has still to handle
    choice,        \* the dialog of the board, with what it shows
    wizard,        \* the wizards, and the calls of those that are gone
    started,       \* history: runs, with what the person saw and asked for
    here,          \* the workspace screen is mounted
    workspace,     \* its configuration: "kept" or "gone"
    enabled,       \* its plans that are enabled
    spare          \* what is left of the bounds

kept       == <<offer, shut>>
lists      == <<panel, cards>>
screens    == <<press, choice, wizard>>
settings   == <<workspace, enabled>>
offersVars == <<ones, kept, ready, lists, pump, screens, started, here, settings, spare>>

Panels == {"defects", "requirements", "board"}
Pumps  == {"screen", "board"}
WorkKinds == {"defect", "requirement"}

NoOffer  == [kind |-> "none", items |-> <<>>, batch |-> FALSE, live |-> FALSE, old |-> FALSE]
Empty    == [list |-> <<>>, of |-> 0]
AtRest   == [at |-> "idle", old |-> 0, new |-> 0, list |-> <<>>, seen |-> {}]
NoPress  == [panel |-> "none", index |-> 0, of |-> 0, item |-> {}]
NoWizard == [at |-> "none", kind |-> "none", home |-> FALSE, offer |-> 0, item |-> {},
             asked |-> {}, seen |-> 0]

OffersInit ==
    /\ ones \in Answers
    /\ offer = [n \in Queries |-> NoOffer] /\ shut = FALSE /\ ready = {}
    /\ panel = [p \in Panels |-> Empty] /\ cards = [p \in Panels |-> Empty]
    /\ pump = [p \in Pumps |-> IF p = "screen" THEN [AtRest EXCEPT !.at = "loading"] ELSE AtRest]
    /\ press = [p \in Pumps |-> NoPress] /\ choice = NoPress
    /\ wizard = [w \in Wizards |-> NoWizard] /\ started = {}
    /\ here = TRUE /\ workspace = "kept" /\ enabled = Plans
    /\ spare \in Spares

Use(doing) == spare[doing] > 0 /\ spare' = [spare EXCEPT ![doing] = @ - 1]

-----------------------------------------------------------------------------
(* What the service and the controller keep *)

Free == {n \in Queries : offer[n] = NoOffer}

Latest == CHOOSE n \in Free : \A m \in Free : n <= m

\* The candidate batches that are neither released nor outlived.
Batches == {n \in Queries : offer[n].batch /\ ~offer[n].old}

\* The least recent session is dropped when there are too many of a kind.
Bounded(o, kind) ==
    LET live == {n \in Queries : o[n].kind = kind /\ o[n].live} IN
    IF Cardinality(live) <= MaxSessions THEN o
    ELSE [o EXCEPT ![CHOOSE n \in live : \A m \in live : n <= m].live = FALSE]

\* A batch is made in the controller's event loop, a session for what is in it.
Recorded(kind) ==
    /\ Free # {}
    /\ kind = "defect" => Cardinality(Batches) < MaxBatches
    /\ offer' = Bounded([offer EXCEPT ![Latest] =
                    [kind |-> kind, items |-> ones, batch |-> kind = "defect",
                     live |-> ones # <<>> /\ ~shut, old |-> FALSE]], kind)

\* ONES cannot be reached or answers out of scope; too many batches; closed.
Refused(kind) ==
    \/ Use("error")
    \/ /\ shut \/ (kind = "defect" /\ Cardinality(Batches) >= MaxBatches)
       /\ UNCHANGED spare

Revoked(gone) ==
    [n \in Queries |-> IF n \in gone THEN [offer[n] EXCEPT !.live = FALSE] ELSE offer[n]]

\* A session is good for one attempt, and what it stands for for a while.
Offered(w) ==
    LET o == offer[w.offer] IN
    o.live /\ ~o.old /\ w.item \in {o.items[i] : i \in DOMAIN o.items}

DefectStartable(w) == w.kind = "defect" /\ Offered(w) /\ offer[w.offer].batch

RequirementStartable(w) == w.kind = "requirement" /\ Offered(w)

-----------------------------------------------------------------------------
(* The pump of the workspace screen *)

Idle(p) == pump[p].at = "idle"

\* Nothing lies over the workspace screen.
OnTop == here /\ choice = NoPress
         /\ \A w \in Wizards : wizard[w].at \in {"none", "left"}

\* Whether ONES gives what a query needs: an assignee; a type of requirement.
Assignees == BOOLEAN

RequirementTypes == BOOLEAN

LoadDefectOptions ==
    \E found \in Assignees :
        ready' = IF found THEN ready \cup {"defect"} ELSE ready \ {"defect"}

LoadRequirementOptions ==
    \E found \in RequirementTypes :
        ready' = IF found THEN ready \cup {"requirement"} ELSE ready \ {"requirement"}

Loaded ==
    /\ pump["screen"].at = "loading"
    /\ \/ ready' = WorkKinds /\ UNCHANGED spare
       \/ ready' \in SUBSET WorkKinds /\ Use("error")
    /\ pump' = [pump EXCEPT !["screen"] = AtRest]
    /\ UNCHANGED <<ones, kept, lists, screens, started, here, settings>>

Reload ==
    /\ OnTop /\ Idle("screen") /\ Use("error")
    /\ LoadDefectOptions \/ LoadRequirementOptions
    /\ UNCHANGED <<ones, kept, lists, pump, screens, started, here, settings>>

(* The cards of the last query stay while the next one is on its way.        *)
QueryDefects ==
    /\ OnTop /\ Idle("screen") /\ "defect" \in ready /\ Use("defects")
    /\ pump' = [pump EXCEPT !["screen"].at = "defects"]
    /\ UNCHANGED <<ones, kept, ready, lists, screens, started, here, settings>>

DefectsAnswered ==
    /\ pump["screen"].at = "defects"
    /\ \/ /\ ~shut /\ Recorded("defect")
          /\ panel' = [panel EXCEPT !["defects"] = [list |-> ones, of |-> Latest]]
          /\ UNCHANGED spare
       \/ /\ Refused("defect")
          /\ panel' = [panel EXCEPT !["defects"] = Empty]
          /\ UNCHANGED offer
    /\ cards' = [cards EXCEPT !["defects"] = panel'["defects"]]
    /\ pump' = [pump EXCEPT !["screen"] = AtRest]
    /\ UNCHANGED <<ones, shut, ready, screens, started, here, settings>>

(* Every new query first takes back what the last one offered.               *)
QueryRequirements ==
    /\ OnTop /\ Idle("screen") /\ Use("requirements")
    /\ pump' = [pump EXCEPT !["screen"] =
                   [AtRest EXCEPT !.at = "discard", !.old = panel["requirements"].of]]
    /\ panel' = [panel EXCEPT !["requirements"] = Empty]
    /\ UNCHANGED <<ones, kept, ready, cards, screens, started, here, settings>>

RequirementsDiscarded ==
    /\ pump["screen"].at = "discard"
    /\ offer' = Revoked({pump["screen"].old})
    /\ cards' = [cards EXCEPT !["requirements"] = Empty]
    /\ pump' = [pump EXCEPT !["screen"] =
                   [AtRest EXCEPT !.at = IF "requirement" \in ready THEN "requirements"
                                         ELSE "idle"]]
    /\ UNCHANGED <<ones, shut, ready, panel, screens, started, here, settings, spare>>

RequirementsAnswered ==
    /\ pump["screen"].at = "requirements" /\ ~shut
    /\ Recorded("requirement")
    /\ pump' = [pump EXCEPT !["screen"] =
                   [@ EXCEPT !.at = "landed", !.new = IF ones = <<>> THEN 0 ELSE Latest,
                             !.list = ones]]
    /\ UNCHANGED <<ones, shut, ready, lists, screens, started, here, settings, spare>>

(* Who has left meanwhile gives back what nobody is going to see.            *)
RequirementsLanded ==
    /\ pump["screen"].at = "landed"
    /\ IF here
       THEN /\ panel' = [panel EXCEPT !["requirements"].list = pump["screen"].list]
            /\ pump' = [pump EXCEPT !["screen"].at = "draw"]
            /\ UNCHANGED offer
       ELSE /\ offer' = Revoked({pump["screen"].new})
            /\ pump' = [pump EXCEPT !["screen"] = AtRest]
            /\ UNCHANGED panel
    /\ UNCHANGED <<ones, shut, ready, cards, screens, started, here, settings, spare>>

RequirementsDrawn ==
    /\ pump["screen"].at = "draw"
    /\ LET new == pump["screen"].new IN
         /\ cards' = [cards EXCEPT !["requirements"] =
                         [list |-> panel["requirements"].list, of |-> new]]
         /\ IF here THEN /\ panel' = [panel EXCEPT !["requirements"].of = new]
                         /\ UNCHANGED offer
                    ELSE /\ offer' = Revoked({new}) /\ UNCHANGED panel
    /\ pump' = [pump EXCEPT !["screen"] = AtRest]
    /\ UNCHANGED <<ones, shut, ready, screens, started, here, settings, spare>>

(* The old offer has been taken back by then, the new one is given up; only  *)
(* when the app is closing the supervisor refuses to take back the old one.  *)
RequirementsRefused ==
    /\ pump["screen"].at \in {"discard", "requirements", "draw"}
    /\ Refused("requirement")
    /\ offer' = IF shut THEN offer ELSE Revoked({pump["screen"].old, pump["screen"].new})
    /\ panel' = [panel EXCEPT !["requirements"] = Empty]
    /\ cards' = [cards EXCEPT !["requirements"] = Empty]
    /\ pump' = [pump EXCEPT !["screen"] = AtRest]
    /\ UNCHANGED <<ones, shut, ready, screens, started, here, settings>>

(* A person presses the button of a card; the widget comes to it later.      *)
PressCard(p, i) ==
    LET at == IF p = "board" THEN "board" ELSE "screen" IN
    /\ OnTop /\ press[at] = NoPress /\ i \in DOMAIN cards[p].list /\ Use("press")
    /\ press' = [press EXCEPT ![at] = [panel |-> p, index |-> i, of |-> cards[p].of,
                                       item |-> {cards[p].list[i]}]]
    /\ UNCHANGED <<ones, kept, ready, lists, pump, choice, wizard, started, here, settings>>

NewWizard ==
    {w \in Wizards : wizard[w] = NoWizard /\ \A v \in Wizards : v < w => wizard[v] # NoWizard}

\* The wizard starts what its list has at the index, when it is mounted.
OpenWizard(kind, list, i, p, of) ==
    \E w \in NewWizard :
        wizard' = [wizard EXCEPT ![w] =
            [at |-> IF i \in DOMAIN list THEN "starting" ELSE "failed", kind |-> kind,
             home |-> TRUE, offer |-> of, item |-> IF i \in DOMAIN list THEN list[i] ELSE {},
             asked |-> p.item, seen |-> p.of]]

Known(p) == panel[p].of # 0

StartWorkspaceDefect ==
    LET p == press["screen"] IN
    /\ Idle("screen") /\ here /\ p.panel = "defects"
    /\ Known("defects") /\ p.index \in DOMAIN panel["defects"].list
    /\ OpenWizard("defect", panel["defects"].list, p.index, p, panel["defects"].of)
    /\ panel' = [panel EXCEPT !["defects"].of = 0]
    /\ cards' = [cards EXCEPT !["defects"] = Empty]
    /\ press' = [press EXCEPT !["screen"] = NoPress]
    /\ UNCHANGED <<ones, kept, ready, pump, choice, started, here, settings, spare>>

\* Mistake: only the place in the list is compared.
AnyGeneration(p) == TRUE

SameGeneration(p) == p.of = panel["requirements"].of

(* The cards of a requirement carry the number of the query they are from.   *)
StartWorkspaceRequirement ==
    LET p == press["screen"] IN
    /\ Idle("screen") /\ here /\ p.panel = "requirements"
    /\ Known("requirements") /\ SameGeneration(p)
    /\ p.index \in DOMAIN panel["requirements"].list
    /\ OpenWizard("requirement", panel["requirements"].list, p.index, p,
                  panel["requirements"].of)
    /\ panel' = [panel EXCEPT !["requirements"].of = 0]
    /\ cards' = [cards EXCEPT !["requirements"] = Empty]
    /\ press' = [press EXCEPT !["screen"] = NoPress]
    /\ UNCHANGED <<ones, kept, ready, pump, choice, started, here, settings, spare>>

PressExpired ==
    LET p == press["screen"] IN
    /\ Idle("screen") /\ p # NoPress
    /\ \/ ~here \/ ~Known(p.panel) \/ p.index \notin DOMAIN panel[p.panel].list
       \/ p.panel = "requirements" /\ ~SameGeneration(p)
    /\ press' = [press EXCEPT !["screen"] = NoPress]
    /\ UNCHANGED <<ones, kept, ready, lists, pump, choice, wizard, started, here, settings, spare>>

-----------------------------------------------------------------------------
(* The board, which its own pump and the screen's pump refresh *)

Refreshing == \E p \in Pumps : pump[p].at \in {"read", "drop", "ask", "show"}

BeginRefresh(p) ==
    /\ Idle(p)
    /\ pump' = [pump EXCEPT ![p] = [AtRest EXCEPT !.at = "read"]]
    /\ UNCHANGED <<ones, kept, ready, lists, screens, started, here, settings>>

ModuleChanged == OnTop /\ Use("tab") /\ BeginRefresh("screen")

RefreshPressed == OnTop /\ ~Refreshing /\ Use("refresh") /\ BeginRefresh("board")

TaskSaved == OnTop /\ Use("edit") /\ BeginRefresh("board")

(* The runs and the tasks are read; then the offer that is shown is taken    *)
(* back before ONES is asked again.                                          *)
RunsRead(p) ==
    /\ pump[p].at = "read"
    /\ pump' = [pump EXCEPT ![p] = [AtRest EXCEPT !.at = "drop", !.old = panel["board"].of,
                                                  !.seen = {r.item : r \in started}]]
    /\ panel' = [panel EXCEPT !["board"] = Empty]
    /\ UNCHANGED <<ones, kept, ready, cards, screens, started, here, settings, spare>>

BoardDiscarded(p) ==
    /\ pump[p].at = "drop"
    /\ offer' = Revoked({pump[p].old})
    /\ pump' = [pump EXCEPT ![p] = [@ EXCEPT !.at = "ask", !.old = 0]]
    /\ UNCHANGED <<ones, shut, ready, lists, screens, started, here, settings, spare>>

\* Defects that have a run are not offered on the board.
Without(list, seen) == SelectSeq(list, LAMBDA i : i \notin seen)

Unstarted(seen) == Without(ones, seen)

BoardAnswered(p) ==
    /\ pump[p].at = "ask"
    /\ LET list == Unstarted(pump[p].seen) IN
       \/ /\ ~shut /\ Recorded("defect")
          /\ panel' = [panel EXCEPT !["board"] = [list |-> list, of |-> Latest]]
          /\ pump' = [pump EXCEPT ![p] = [@ EXCEPT !.at = "show", !.list = list, !.new = Latest]]
          /\ UNCHANGED spare
       \/ /\ Refused("defect")
          /\ panel' = [panel EXCEPT !["board"].list = <<>>]
          /\ pump' = [pump EXCEPT ![p].at = "show"]
          /\ UNCHANGED offer
    /\ UNCHANGED <<ones, shut, ready, cards, screens, started, here, settings>>

BoardShown(p) ==
    /\ pump[p].at = "show"
    /\ cards' = [cards EXCEPT !["board"] = [list |-> pump[p].list, of |-> pump[p].new]]
    /\ pump' = [pump EXCEPT ![p] = AtRest]
    /\ UNCHANGED <<ones, kept, ready, panel, screens, started, here, settings, spare>>

(* The runs or tasks cannot be read, or the cards not be drawn.              *)
BoardFails(p) ==
    /\ pump[p].at \in {"read", "show"} /\ Use("error")
    /\ offer' = Revoked({panel["board"].of})
    /\ panel' = [panel EXCEPT !["board"] = Empty]
    /\ cards' = [cards EXCEPT !["board"] = Empty]
    /\ pump' = [pump EXCEPT ![p] = AtRest]
    /\ UNCHANGED <<ones, shut, ready, screens, started, here, settings>>

(* The dialog shows what the list has at the place of the card by now.       *)
CardSelected ==
    LET p == press["board"] IN
    /\ Idle("board") /\ here /\ p # NoPress
    /\ IF Known("board") /\ p.index \in DOMAIN panel["board"].list
       THEN choice' = [p EXCEPT !.of = panel["board"].of,
                                !.item = {panel["board"].list[p.index]}]
       ELSE UNCHANGED choice
    /\ press' = [press EXCEPT !["board"] = NoPress]
    /\ UNCHANGED <<ones, kept, ready, lists, pump, wizard, started, here, settings, spare>>

DefectActionSelected ==
    /\ choice # NoPress /\ Idle("board")
    /\ IF Known("board")
       THEN /\ OpenWizard("defect", panel["board"].list, choice.index, choice, panel["board"].of)
            /\ panel' = [panel EXCEPT !["board"].of = 0]
       ELSE UNCHANGED <<wizard, panel>>
    /\ choice' = NoPress
    /\ UNCHANGED <<ones, kept, ready, cards, pump, press, started, here, settings, spare>>

DialogCancelled ==
    /\ choice # NoPress /\ choice' = NoPress
    /\ UNCHANGED <<ones, kept, ready, lists, pump, press, wizard, started, here, settings, spare>>

-----------------------------------------------------------------------------
(* The wizards *)

At(w, at) == wizard[w].at = at

(* From the dashboard, a wizard asks ONES itself, once.                      *)
ChooseWorkflow(kind) ==
    /\ ~here /\ Use("wizard")
    /\ \E w \in NewWizard :
           wizard' = [wizard EXCEPT ![w] =
               [NoWizard EXCEPT !.at = IF kind = "defect" THEN "loading" ELSE "filter",
                                !.kind = kind]]
    /\ UNCHANGED <<ones, kept, ready, lists, pump, press, choice, started, here, settings>>

\* If it cannot, it stays as it is and may load again.
WizardOptions(w) ==
    /\ At(w, "loading") /\ ~shut
    /\ wizard' = [wizard EXCEPT ![w].at = "filter"]
    /\ UNCHANGED <<ones, kept, ready, lists, pump, press, choice, started, here, settings, spare>>

WizardAnswered(w) ==
    /\ Recorded(wizard[w].kind)
    /\ wizard' = IF ones = <<>> THEN wizard
                 ELSE [wizard EXCEPT ![w] = [@ EXCEPT !.at = "landed", !.offer = Latest]]
    /\ UNCHANGED <<ones, shut, ready, lists, pump, press, choice, started, here, settings, spare>>

WizardDefects(w) == At(w, "filter") /\ wizard[w].kind = "defect" /\ ~shut /\ WizardAnswered(w)

WizardRequirements(w) ==
    At(w, "filter") /\ wizard[w].kind = "requirement" /\ ~shut /\ WizardAnswered(w)

(* The list is shown when the handler comes to it; nothing else of the       *)
(* wizard is handled before.                                                 *)
WizardShown(w) ==
    /\ At(w, "landed")
    /\ wizard' = [wizard EXCEPT ![w].at = "candidates"]
    /\ UNCHANGED <<ones, kept, ready, lists, pump, press, choice, started, here, settings, spare>>

List(w) == IF At(w, "candidates") THEN offer[wizard[w].offer].items ELSE <<>>

SelectCandidate(w, i) ==
    /\ LET list == List(w) IN
         wizard' = [wizard EXCEPT ![w] = [@ EXCEPT !.at = "starting", !.item = list[i],
                                                   !.asked = {list[i]}, !.seen = wizard[w].offer]]
    /\ UNCHANGED <<ones, kept, ready, lists, pump, press, choice, started, here, settings, spare>>

Run(w) == [kind |-> w.kind, offer |-> w.offer, item |-> w.item, asked |-> w.asked, seen |-> w.seen]

(* In a thread; it takes the session before anything else.                   *)
StartRun(w) ==
    /\ wizard[w].at \in {"starting", "left"}
    /\ offer' = Revoked({wizard[w].offer})
    /\ LET ok == ~shut /\ (DefectStartable(wizard[w]) \/ RequirementStartable(wizard[w])) IN
         /\ started' = IF ok THEN started \cup {Run(wizard[w])} ELSE started
         /\ wizard' = [wizard EXCEPT ![w] =
                IF wizard[w].at = "left" THEN NoWizard
                ELSE [@ EXCEPT !.at = IF ok THEN "mapping" ELSE "failed"]]
    /\ UNCHANGED <<ones, shut, ready, lists, pump, press, choice, here, settings, spare>>

\* The workspace of the wizard and no other; from the dashboard, any.
Mapped(w) == wizard[w].home => workspace # "gone"

ConfirmMapping(w) ==
    /\ At(w, "mapping") /\ Mapped(w)
    /\ wizard' = [wizard EXCEPT ![w].at = "confirming"]
    /\ UNCHANGED <<ones, kept, ready, lists, pump, press, choice, started, here, settings, spare>>

(* A run that was confirmed goes on; one that was not waits in the list.     *)
CloseWizard(w) ==
    /\ wizard[w].at \notin {"none", "landed", "left"}
    /\ offer' = IF At(w, "candidates") /\ wizard[w].kind = "requirement"
                THEN Revoked({wizard[w].offer}) ELSE offer
    /\ wizard' = [wizard EXCEPT ![w] = IF At(w, "starting") THEN [@ EXCEPT !.at = "left"]
                                       ELSE NoWizard]
    /\ UNCHANGED <<ones, shut, ready, lists, pump, press, choice, started, here, settings, spare>>

-----------------------------------------------------------------------------
(* The workspace, its screen, and the world *)

(* The configuration is saved, then kept, then its plans are switched off    *)
(* one after another; all of it under the execution gate of the plans.       *)
DeleteWorkspace ==
    /\ OnTop /\ Idle("screen") /\ Use("delete")
    /\ pump' = [pump EXCEPT !["screen"].at = "delete"]
    /\ UNCHANGED <<ones, kept, ready, lists, screens, started, here, settings>>

Deleted ==
    /\ pump["screen"].at = "delete" /\ workspace = "kept"
    /\ workspace' = "gone"
    /\ UNCHANGED <<ones, kept, ready, lists, pump, screens, started, here, enabled, spare>>

PlanDisabled(plan) ==
    /\ pump["screen"].at = "delete" /\ workspace = "gone" /\ plan \in enabled
    /\ enabled' = enabled \ {plan}
    /\ UNCHANGED <<ones, kept, ready, lists, pump, screens, started, here, workspace, spare>>

\* Mistake: the lists are dropped with what they hold.
UnmountedHolding ==
    /\ here' = FALSE
    /\ UNCHANGED offer
    /\ panel' = [panel EXCEPT !["requirements"].of = 0, !["board"].of = 0]

Unmounted ==
    /\ here' = FALSE
    /\ offer' = Revoked({panel["requirements"].of, panel["board"].of})
    /\ panel' = [panel EXCEPT !["requirements"].of = 0, !["board"].of = 0]

DeleteDone ==
    /\ pump["screen"].at = "delete" /\ workspace = "gone" /\ enabled = {}
    /\ here /\ Unmounted
    /\ pump' = [pump EXCEPT !["screen"] = AtRest]
    /\ UNCHANGED <<ones, shut, ready, cards, screens, started, settings, spare>>

(* Reported as not deleted, at whichever step it fails.                      *)
DeleteFails ==
    /\ pump["screen"].at = "delete" /\ Use("error")
    /\ pump' = [pump EXCEPT !["screen"] = AtRest]
    /\ UNCHANGED <<ones, kept, ready, lists, screens, started, here, settings>>

Leave ==
    /\ OnTop /\ Use("leave") /\ Unmounted
    /\ UNCHANGED <<ones, shut, ready, cards, pump, screens, started, settings>>

(* The runtime closes: its supervisor takes no more calls, and its controller *)
(* forgets what is on offer.                                                  *)
Shut ==
    /\ ~shut /\ shut' = TRUE /\ Use("shut")
    /\ offer' = Revoked(Queries)
    /\ UNCHANGED <<ones, ready, lists, pump, screens, started, here, settings>>

Change ==
    /\ Use("change") /\ ones' \in Answers \ {ones}
    /\ UNCHANGED <<kept, ready, lists, pump, screens, started, here, settings>>

Age(n) ==
    /\ offer[n] # NoOffer /\ ~offer[n].old /\ Use("age")
    /\ offer' = [offer EXCEPT ![n].old = TRUE]
    /\ UNCHANGED <<ones, shut, ready, lists, pump, screens, started, here, settings>>

-----------------------------------------------------------------------------
Watch ==
    \/ Loaded \/ Reload \/ QueryDefects \/ DefectsAnswered
    \/ QueryRequirements \/ RequirementsDiscarded \/ RequirementsAnswered
    \/ RequirementsLanded \/ RequirementsDrawn \/ RequirementsRefused
    \/ \E p \in Panels : \E i \in DOMAIN cards[p].list : PressCard(p, i)
    \/ StartWorkspaceDefect \/ StartWorkspaceRequirement \/ PressExpired

Board ==
    \/ ModuleChanged \/ RefreshPressed \/ TaskSaved
    \/ \E p \in Pumps : RunsRead(p) \/ BoardDiscarded(p) \/ BoardAnswered(p) \/ BoardShown(p)
                       \/ BoardFails(p)
    \/ CardSelected \/ DefectActionSelected \/ DialogCancelled

Wizard ==
    \/ \E k \in WorkKinds : ChooseWorkflow(k)
    \/ \E w \in Wizards : WizardOptions(w) \/ WizardDefects(w) \/ WizardRequirements(w)
                         \/ WizardShown(w) \/ StartRun(w) \/ ConfirmMapping(w) \/ CloseWizard(w)
    \/ \E w \in Wizards : \E i \in DOMAIN List(w) : SelectCandidate(w, i)

Around ==
    \/ DeleteWorkspace \/ Deleted \/ DeleteDone \/ DeleteFails
    \/ \E plan \in Plans : PlanDisabled(plan)
    \/ Leave \/ Shut \/ Change
    \/ \E n \in Queries : Age(n)

OffersNext == Watch \/ Board \/ Wizard \/ Around

-----------------------------------------------------------------------------
(* Lists are replaced while presses wait and while a dialog is open.  A      *)
(* requirement run is of the item whose button was pressed, whatever came    *)
(* between; a defect run is, unless its list was replaced in between.  And   *)
(* an offer is good for one run.                                             *)
WhatWasAsked ==
    \A r \in started :
        /\ r.kind = "requirement" \/ r.offer = r.seen => r.asked = {r.item}
        /\ \A s \in started : r.offer = s.offer => r = s

(* However queries, presses and leaving interleave, and whatever fails: a    *)
(* requirement that may still be started is on a screen, in a wizard or in   *)
(* the hands of the handler that asked for it.                               *)
HeldOrGone ==
    \A n \in Queries :
        offer[n].kind = "requirement" /\ offer[n].live =>
            \/ n \in {panel["requirements"].of, pump["screen"].old, pump["screen"].new}
            \/ \E w \in Wizards : wizard[w].offer = n
=============================================================================
