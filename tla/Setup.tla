------------------------------- MODULE Setup -------------------------------
(***************************************************************************)
(* setup_store.py, credential_store.py and setup_controller.py: several    *)
(* processes of one user edit, test, save and activate the configuration   *)
(* of the developer workflow.  The configuration file points to an active  *)
(* generation and, while an activation is pending, to the one before it    *)
(* and to the generation that owns the activation; the credentials of a    *)
(* generation are in the vault of the operating system, which is written   *)
(* before the file points to them and cleared after it no longer does.     *)
(*                                                                         *)
(* A call of the store holds the lock of the configuration directory and   *)
(* is one action.  The controller of a process awaits such calls, and      *)
(* builds the runtime in a thread: between two awaits the user can edit,   *)
(* cancel and close, and another process can act.  A controller sees that  *)
(* its draft was edited by comparing revisions; since one operation runs   *)
(* at a time, that is one flag, cleared where an operation starts.         *)
(***************************************************************************)
EXTENDS Naturals, FiniteSets, Sequences

CONSTANTS Processes,          \* processes with a setup controller
          Editors,        \* bound: those whose user edits and saves
          StepOrder,      \* the steps before the review, in their order
          NeededToBuild,  \* steps without whose credential no runtime is built
          Fields,         \* values of the public fields of a step
          Credentials,    \* values of the credential of a step
          Missing,        \* the credential of a step is not there
          MaxGen,         \* bound: generations
          MaxEdits,       \* bound: edits and cancellations
          MaxFaults,      \* bound: failed writes and reads, crashes
          MaxWorkflow     \* bound: versions of the workflow options

ASSUME SetupAssumption ==
    /\ StepOrder \in Seq(STRING) /\ StepOrder # <<>>
    /\ \A i, j \in DOMAIN StepOrder : StepOrder[i] = StepOrder[j] => i = j
    /\ Editors \subseteq Processes /\ Missing \notin Credentials
    /\ MaxGen \in Nat \ {0} /\ MaxEdits \in Nat /\ MaxFaults \in Nat /\ MaxWorkflow \in Nat

SetupSteps == {StepOrder[i] : i \in DOMAIN StepOrder}
Rank(s) == CHOOSE i \in DOMAIN StepOrder : StepOrder[i] = s
Gens  == 1..MaxGen
NoGen == 0

VARIABLES
    doc,      \* the configuration file: active, previous, owner
    config,   \* what the file says of a generation
    vault,    \* credentials of a generation
    drawn,     \* generations drawn so far
    ctl,      \* controller of each process
    doing,       \* where the operation of each controller stands
    build,    \* the last runtime build of each process
    runtime,  \* generation of the runtime each process runs
    edits, faults,
    tested,   \* history: what each step had when its generation was committed
    ran,      \* history: the generations and configurations that were built
    lost      \* history: generations whose clean-up was lost

store   == <<doc, config, vault, drawn>>
bounds  == <<edits, faults>>
setupHistory == <<tested, ran, lost>>
setupVars    == <<store, ctl, doing, build, runtime, bounds, setupHistory>>

NoSecrets == [s \in SetupSteps |-> Missing]
NoResults == [s \in SetupSteps |-> "none"]
Untested  == [s \in SetupSteps |-> <<>>]
FirstFields == [s \in SetupSteps |-> CHOOSE v \in Fields : TRUE]
AllSecrets  == [s \in SetupSteps |-> CHOOSE c \in Credentials : TRUE]

NewCtl == [open |-> "open", pub |-> FirstFields, sec |-> NoSecrets,
           result |-> NoResults, passed |-> Untested, review |-> FALSE,
           workflow |-> 0, changed |-> FALSE, cancel |-> FALSE,
           step |-> StepOrder[1], probe |-> <<>>, gen |-> NoGen, copy |-> NoSecrets]
NoBuild == [thread |-> "none", from |-> <<>>, abandoned |-> FALSE, claimed |-> FALSE,
            watched |-> FALSE, closers |-> {}, given |-> FALSE, closed |-> 0]

NoConfig == [pub |-> FirstFields, kinds |-> {}, workflow |-> 0]
Stable(g) == [active |-> g, previous |-> NoGen, owner |-> NoGen]

\* There is no configuration yet, or a first generation is active, and the
\* processes that do not edit run it.
SetupInit ==
    /\ \E g \in {NoGen, 1} :
         /\ doc = Stable(g) /\ drawn = g
         /\ config = [h \in Gens |-> IF h = g THEN [NoConfig EXCEPT !.kinds = SetupSteps] ELSE NoConfig]
         /\ vault  = [h \in Gens |-> IF h = g THEN AllSecrets ELSE NoSecrets]
    /\ ctl = [p \in Processes |-> NewCtl] /\ doing = [p \in Processes |-> "idle"]
    /\ build = [p \in Processes |-> NoBuild]
    /\ runtime = [p \in Processes |-> IF p \in Editors THEN NoGen ELSE doc.active]
    /\ edits = 0 /\ faults = 0
    /\ tested = [g \in Gens |-> Untested] /\ ran = {} /\ lost = {}

-----------------------------------------------------------------------------
(* The store: each call holds the lock of the configuration directory *)

KindsIn(g)      == {s \in SetupSteps : vault[g][s] # Missing}
Referenced    == {doc.active, doc.previous} \ {NoGen}
OrphansOfActive == {g \in Gens : KindsIn(g) # {}} \ {doc.active}
Orphans       == {g \in Gens : KindsIn(g) # {}} \ Referenced
Cleared(v, G) == [g \in Gens |-> IF g \in G THEN NoSecrets ELSE v[g]]

Fault == faults < MaxFaults /\ faults' = faults + 1

\* commit: the credentials, then the pointer.  It refuses while another
\* activation is pending.
MayCommit(g) == doc.owner = NoGen /\ g \notin Referenced /\ KindsIn(g) = {}
Pending(g)   == [active |-> g, previous |-> doc.active, owner |-> g]

(* restore_previous and finalize_activation apply to the generation that    *)
(* owns the pending activation only.                                        *)
IsPending(g) == g # NoGen /\ doc.active = g /\ doc.owner = g

(* The pointer first, then the credentials it no longer refers to; deleting *)
(* them may fail, and leaves an orphan.                                     *)
Switch(new, obsolete) ==
    /\ doc' = new
    /\ \/ vault' = Cleared(vault, {obsolete}) /\ UNCHANGED faults
       \/ obsolete # NoGen /\ Fault /\ UNCHANGED vault

RestorePrevious    == Switch(Stable(doc.previous), doc.active)
FinalizeActivation == Switch(Stable(doc.active), doc.previous)

-----------------------------------------------------------------------------
(* The draft of a controller *)

Open(p)       == ctl[p].open = "open"
Finalizing(p) == doing[p] \in {"finalize", "finalized", "notFinalized"}
Mutable(p)    == Open(p) /\ ~Finalizing(p)
Busy(p)       == doing[p] \notin {"idle", "inline"}

(* _invalidate_after: results of the step, if it is included, and of the    *)
(* steps behind it are forgotten.                                           *)
InvalidateFrom(result, s, included) ==
    [t \in SetupSteps |-> IF Rank(t) > Rank(s) \/ (included /\ t = s) THEN "none" ELSE result[t]]

(* What a step was tested with is remembered as long as its result.         *)
Results(c, new) ==
    [c EXCEPT !.result = new,
              !.passed = [s \in SetupSteps |-> IF new[s] = "passed" THEN c.passed[s] ELSE <<>>]]

Changed(c, s, during) ==
    Results([c EXCEPT !.changed = during, !.review = FALSE], InvalidateFrom(c.result, s, TRUE))

Forgotten(c) == [c EXCEPT !.sec = NoSecrets]

Edit == edits < MaxEdits /\ edits' = edits + 1

(* apply_runtime_fields, apply_workflow, apply_step_transaction.            *)
SetPublic(p, s, v) ==
    /\ Mutable(p) /\ Edit
    /\ ctl' = [ctl EXCEPT ![p] = Changed([@ EXCEPT !.pub[s] = v], s, Busy(p))]
    /\ UNCHANGED <<store, doing, build, runtime, faults, setupHistory>>

SetSecret(p, s, v) ==
    /\ Mutable(p) /\ Edit
    /\ ctl' = [ctl EXCEPT ![p] = Changed([@ EXCEPT !.sec[s] = v], s, Busy(p))]
    /\ UNCHANGED <<store, doing, build, runtime, faults, setupHistory>>

(* cancel_edit: the operation that is under way is cancelled, a test loses  *)
(* its result, and the credentials are forgotten; other results are kept.   *)
Dropped(c) ==
    IF \E s \in SetupSteps : c.result[s] = "pending"
    THEN LET s == CHOOSE t \in SetupSteps : c.result[t] = "pending"
         IN  InvalidateFrom(c.result, s, TRUE)
    ELSE c.result

CancelEdit(p) ==
    /\ Edit
    /\ ctl' = [ctl EXCEPT ![p] =
         IF @.open = "closed" THEN Forgotten(@)
         ELSE Forgotten(Results([@ EXCEPT !.changed = Busy(p), !.review = FALSE,
                                          !.cancel = Busy(p)], Dropped(@)))]
    /\ UNCHANGED <<store, doing, build, runtime, faults, setupHistory>>

(* The task that awaits the operation is cancelled by the user interface.   *)
CancelTask(p) ==
    /\ Busy(p) /\ ~ctl[p].cancel /\ Edit
    /\ ctl' = [ctl EXCEPT ![p].cancel = TRUE]
    /\ UNCHANGED <<store, doing, build, runtime, faults, setupHistory>>

(* close: an operation that is under way still comes to its own end.        *)
Close(p) ==
    /\ Open(p)
    /\ ctl' = [ctl EXCEPT ![p] = IF Busy(p) THEN [@ EXCEPT !.open = "closing"]
                                 ELSE Forgotten([@ EXCEPT !.open = "closed"])]
    /\ UNCHANGED <<store, doing, build, runtime, bounds, setupHistory>>

(* A new controller for the first setup, or to change the configuration of  *)
(* the runtime, which is closed first: its public fields are those of the   *)
(* active generation, and a pending activation refuses.                     *)
NewController(p) ==
    /\ doing[p] = "idle" /\ ctl[p].open = "closed"
    /\ doc.owner = NoGen
    /\ ctl' = [ctl EXCEPT ![p] = IF doc.active = NoGen THEN NewCtl
                                 ELSE [NewCtl EXCEPT !.pub = config[doc.active].pub,
                                                     !.workflow = config[doc.active].workflow]]
    /\ runtime' = [runtime EXCEPT ![p] = NoGen]
    /\ UNCHANGED <<store, doing, build, bounds, setupHistory>>

-----------------------------------------------------------------------------
(* Editing one step with the credentials that are stored *)

(* prepare_inline_ones and its like, until they have the document.          *)
InlineLoad(p) ==
    /\ doing[p] = "idle" /\ Mutable(p)
    /\ doc.owner = NoGen /\ doc.active # NoGen
    /\ ctl' = [ctl EXCEPT ![p] =
         Results([@ EXCEPT !.pub = config[doc.active].pub, !.review = FALSE,
                           !.workflow = config[doc.active].workflow,
                           !.gen = doc.active], NoResults)]
    /\ doing' = [doing EXCEPT ![p] = "inline"]
    /\ UNCHANGED <<store, build, runtime, bounds, setupHistory>>

\* A new endpoint requires a new credential.
RequiresSecret(g, s, v) == v # config[g].pub[s]

(* They read the credentials of that document, which may be gone, and fill  *)
(* the draft with them and with what the user has changed.                  *)
InlineApply(p, s, v, secret) ==
    LET g == ctl[p].gen
        kept == [t \in SetupSteps |-> IF t = s /\ secret # Missing THEN secret
                                 ELSE IF t \in config[g].kinds THEN vault[g][t]
                                 ELSE ctl[p].sec[t]]
    IN  /\ doing[p] = "inline" /\ Edit
        /\ RequiresSecret(g, s, v) => secret # Missing
        /\ doing' = [doing EXCEPT ![p] = "idle"]
        /\ ctl' = [ctl EXCEPT ![p] =
             IF config[g].kinds \subseteq KindsIn(g) /\ Mutable(p)
             THEN Changed([@ EXCEPT !.sec = kept, !.pub[s] = v, !.gen = NoGen], StepOrder[1], FALSE)
             ELSE Forgotten([@ EXCEPT !.gen = NoGen])]
        /\ UNCHANGED <<store, build, runtime, faults, setupHistory>>

-----------------------------------------------------------------------------
(* Testing a step *)

Available(p, s) == \A t \in SetupSteps : Rank(t) < Rank(s) => ctl[p].result[t] = "passed"
AllPassed(p)    == \A s \in SetupSteps : ctl[p].result[s] = "passed"

\* An operation ends; a controller that was being closed is closed.
Rest(c) == [c EXCEPT !.changed = FALSE, !.cancel = FALSE, !.step = StepOrder[1],
                     !.probe = <<>>, !.gen = NoGen, !.copy = NoSecrets]
End(c)  == IF c.open = "closing" THEN Forgotten([Rest(c) EXCEPT !.open = "closed"]) ELSE Rest(c)

TestBegin(p, s) ==
    /\ doing[p] = "idle" /\ Open(p) /\ Available(p, s)
    /\ ctl' = [ctl EXCEPT ![p] =
         Results([@ EXCEPT !.step = s, !.probe = <<ctl[p].pub[s], ctl[p].sec[s]>>],
                 [@.result EXCEPT ![s] = "pending"])]
    /\ doing' = [doing EXCEPT ![p] = "test"]
    /\ UNCHANGED <<store, build, runtime, bounds, setupHistory>>

(* The probe ran with the fields and the credential the draft had when it   *)
(* began.  It passed or not, or what it says is void because of an edit or  *)
(* a cancellation.                                                          *)
Probed(c, ok) ==
    IF ok THEN Results([c EXCEPT !.passed[c.step] = c.probe], [c.result EXCEPT ![c.step] = "passed"])
    ELSE Results(c, InvalidateFrom(c.result, c.step, TRUE))

TestEndAnyRevision(p, ok) ==
    /\ doing[p] = "test" /\ (ok => ctl[p].probe[2] # Missing)
    /\ ctl' = [ctl EXCEPT ![p] = End(Probed(@, ok))]
    /\ doing' = [doing EXCEPT ![p] = "idle"]
    /\ UNCHANGED <<store, build, runtime, bounds, setupHistory>>

TestEnd(p, ok) ==
    LET c == ctl[p]
    IN  /\ doing[p] = "test"
        /\ ok => c.probe[2] # Missing
        /\ ctl' = [ctl EXCEPT ![p] = End(
             IF c.cancel \/ c.changed THEN Results(c, [c.result EXCEPT ![c.step] = "none"])
             ELSE Probed(c, ok))]
        /\ doing' = [doing EXCEPT ![p] = "idle"]
        /\ UNCHANGED <<store, build, runtime, bounds, setupHistory>>

ConfirmReview(p) ==
    /\ Open(p) /\ ~Busy(p) /\ AllPassed(p) /\ ~ctl[p].review
    /\ ctl' = [ctl EXCEPT ![p].review = TRUE]
    /\ UNCHANGED <<store, doing, build, runtime, bounds, setupHistory>>

-----------------------------------------------------------------------------
(* save_and_activate *)

Goto(p, where) == doing' = [doing EXCEPT ![p] = where]

(* The candidate is a copy of the draft under a fresh generation; without   *)
(* any credential there is none, and the review has to be confirmed again.  *)
SaveBegin(p) ==
    LET c == ctl[p]
    IN  /\ doing[p] = "idle" /\ Open(p) /\ AllPassed(p) /\ c.review
        /\ IF c.sec = NoSecrets
           THEN /\ ctl' = [ctl EXCEPT ![p].review = FALSE]
                /\ UNCHANGED <<doing, drawn, config, tested>>
           ELSE /\ drawn < MaxGen /\ drawn' = drawn + 1
                /\ config' = [config EXCEPT ![drawn'] =
                     [pub |-> c.pub, workflow |-> c.workflow,
                      kinds |-> {s \in SetupSteps : c.sec[s] # Missing}]]
                /\ tested' = [tested EXCEPT ![drawn'] = c.passed]
                /\ ctl' = [ctl EXCEPT ![p] = [@ EXCEPT !.gen = drawn', !.copy = c.sec]]
                /\ Goto(p, "commit")
        /\ UNCHANGED <<doc, vault, build, runtime, bounds, ran, lost>>

(* commit in its thread.  When it fails the credentials are deleted again,  *)
(* or they stay; and it can fail after the pointer was replaced.            *)
Commit(p) ==
    LET g == ctl[p].gen
        written == [vault EXCEPT ![g] = ctl[p].copy]
    IN  /\ doing[p] = "commit"
        /\ \/ /\ MayCommit(g)
              /\ vault' = written /\ doc' = Pending(g)
              /\ \/ Goto(p, "committed") /\ UNCHANGED faults
                 \/ Goto(p, "notCommitted") /\ Fault
           \/ /\ MayCommit(g) /\ Fault
              /\ vault' \in {vault, written}
              /\ Goto(p, "notCommitted") /\ UNCHANGED doc
           \/ /\ ~MayCommit(g)
              /\ Goto(p, "notCommitted") /\ UNCHANGED <<doc, vault, faults>>
        /\ UNCHANGED <<config, drawn, ctl, build, runtime, edits, setupHistory>>

(* What follows an error, and what follows a cancellation: the latter does  *)
(* not take the confirmation back.                                          *)
Abort(p, where) ==
    /\ Goto(p, where)
    /\ ctl' = [ctl EXCEPT ![p].review = @ /\ ctl[p].cancel]

Interrupted(p) == ctl[p].cancel \/ ctl[p].changed

(* A save that failed may have replaced the pointer: the file tells, if it  *)
(* can be read.                                                             *)
Detect(p) ==
    LET g == ctl[p].gen
    IN  /\ doing[p] = "notCommitted"
        /\ \/ Abort(p, IF doc.active = g THEN "rollback" ELSE "cleanup")
              /\ UNCHANGED <<faults, lost>>
           \/ Fault /\ Abort(p, "cleanup") /\ lost' = lost \cup {g}
        /\ UNCHANGED <<store, build, runtime, edits, tested, ran>>

AfterCommit(p) ==
    /\ doing[p] = "committed"
    /\ IF Interrupted(p) THEN Abort(p, "rollback") ELSE Goto(p, "read") /\ UNCHANGED ctl
    /\ UNCHANGED <<store, build, runtime, bounds, setupHistory>>

Settled(b) == b.thread \in {"none", "failed"} \/ b.given \/ (b.closed > 0 /\ b.closers = {})
Unoccupied(b)    == Settled(b) /\ ~b.watched
Started(g) == [NoBuild EXCEPT !.thread = "running", !.from = <<g, config[g]>>]

(* The credentials are read back as they were stored, without the lock; a   *)
(* thread then builds the runtime from them.                                *)
ReadSecrets(p) ==
    LET g == ctl[p].gen
    IN  /\ doing[p] = "read"
        /\ IF ~Interrupted(p) /\ config[g].kinds \subseteq KindsIn(g)
           THEN /\ Unoccupied(build[p])
                /\ build' = [build EXCEPT ![p] = Started(g)]
                /\ Goto(p, "build") /\ UNCHANGED ctl
           ELSE Abort(p, "rollback") /\ UNCHANGED build
        /\ UNCHANGED <<store, runtime, bounds, setupHistory>>

(* finalize_activation in its thread, when it still owns the activation; it *)
(* too can fail after the pointer was replaced.                             *)
Finalize(p) ==
    /\ doing[p] = "finalize"
    /\ IF IsPending(ctl[p].gen)
       THEN \/ FinalizeActivation /\ Goto(p, "finalized")
            \/ Fault /\ doc' \in {doc, Stable(doc.active)} /\ UNCHANGED vault
               /\ Goto(p, "notFinalized")
       ELSE Goto(p, "notFinalized") /\ UNCHANGED <<doc, vault, faults>>
    /\ UNCHANGED <<config, drawn, ctl, build, runtime, edits, setupHistory>>

\* The user interface gets the runtime; it closes it if it is closing itself.
HandOver(p) ==
    /\ build' = [build EXCEPT ![p].claimed = TRUE, ![p].given = TRUE]
    /\ runtime' = [runtime EXCEPT ![p] = IF Open(p) THEN ctl[p].gen ELSE NoGen]
    /\ ctl' = [ctl EXCEPT ![p] = Forgotten([Rest(@) EXCEPT !.open = "closed"])]
    /\ Goto(p, "idle")

AfterFinalize(p) ==
    /\ \/ doing[p] = "finalized" /\ ~ctl[p].cancel /\ HandOver(p)
       \/ doing[p] = "finalized" /\ ctl[p].cancel /\ Abort(p, "cleanup") /\ UNCHANGED <<build, runtime>>
       \/ doing[p] = "notFinalized" /\ Abort(p, "rollback") /\ UNCHANGED <<build, runtime>>
    /\ UNCHANGED <<store, bounds, setupHistory>>

(* restore_previous in its thread; its failure is not reported.             *)
Rollback(p) ==
    /\ doing[p] = "rollback" /\ Goto(p, "cleanup")
    /\ IF IsPending(ctl[p].gen)
       THEN \/ RestorePrevious /\ UNCHANGED lost
            \/ Fault /\ lost' = lost \cup {ctl[p].gen} /\ UNCHANGED <<doc, vault>>
       ELSE UNCHANGED <<doc, vault, faults, lost>>
    /\ UNCHANGED <<config, drawn, ctl, build, runtime, edits, tested, ran>>

\* A runtime that was delivered to the save is closed by a thread of its own.
InHands(b) == b.thread = "returned" /\ b.claimed /\ ~b.abandoned /\ ~b.given /\ b.closed = 0

Cleanup(p) ==
    /\ doing[p] = "cleanup" /\ Goto(p, "idle")
    /\ ctl' = [ctl EXCEPT ![p] = End(Forgotten(@))]
    /\ build' = [build EXCEPT ![p] =
         IF InHands(@) THEN [@ EXCEPT !.closers = {"own"}] ELSE @]
    /\ UNCHANGED <<store, runtime, bounds, setupHistory>>

-----------------------------------------------------------------------------
(* activate_existing: the runtime of the configuration that is stable *)

Activate(p) ==
    /\ doing[p] = "idle" /\ Open(p) /\ runtime[p] = NoGen
    /\ doc.owner = NoGen /\ doc.active # NoGen
    /\ ctl' = [ctl EXCEPT ![p].gen = doc.active]
    /\ Goto(p, "activate")
    /\ UNCHANGED <<store, build, runtime, bounds, setupHistory>>

ActivateRead(p) ==
    LET g == ctl[p].gen
    IN  /\ doing[p] = "activate"
        /\ IF ~ctl[p].cancel /\ config[g].kinds \subseteq KindsIn(g)
           THEN /\ Unoccupied(build[p])
                /\ build' = [build EXCEPT ![p] = Started(g)]
                /\ Goto(p, "rebuild") /\ UNCHANGED ctl
           ELSE /\ ctl' = [ctl EXCEPT ![p] = End(IF @.cancel THEN Forgotten(@) ELSE @)]
                /\ Goto(p, "idle") /\ UNCHANGED build
        /\ UNCHANGED <<store, runtime, bounds, setupHistory>>

-----------------------------------------------------------------------------
(* _bounded_build: a thread builds the runtime, the loop awaits it for some *)
(* time.  Whoever claims the handle first decides what becomes of it.       *)

(* _BuildAttempt: the first to claim a handle decides who closes it.        *)
ClaimedAgain(b, closers) == [b EXCEPT !.claimed = TRUE, !.closers = closers]
Claimed(b, closers) ==
    IF b.claimed THEN b ELSE [b EXCEPT !.claimed = TRUE, !.closers = closers]

\* The thread closes what nobody waits for any more: it offers the closer to
\* the loop and, if the loop does not answer, runs it in a thread.
HandOff == {"loop", "thread"}

BuildEnds(p, ok) ==
    LET b == build[p]
    IN  /\ b.thread = "running"
        /\ ok => NeededToBuild \subseteq b.from[2].kinds
        /\ build' = [build EXCEPT ![p] =
             IF ~ok THEN [b EXCEPT !.thread = "failed"]
             ELSE IF b.abandoned THEN Claimed([b EXCEPT !.thread = "returned"], HandOff)
             ELSE [b EXCEPT !.thread = "returned"]]
        /\ ran' = IF ok THEN ran \cup {b.from} ELSE ran
        /\ UNCHANGED <<store, ctl, doing, runtime, bounds, tested, lost>>

RunCloser(p, by) ==
    /\ by \in build[p].closers
    /\ build' = [build EXCEPT ![p].closers = {}, ![p].closed = @ + 1]
    /\ UNCHANGED <<store, ctl, doing, runtime, bounds, setupHistory>>

Building(p) == doing[p] \in {"build", "rebuild"}

\* The operation fails: the save is undone, an activation is just over.
BuildLost(p) ==
    IF doing[p] = "build" THEN Abort(p, "rollback")
    ELSE /\ ctl' = [ctl EXCEPT ![p] = End(IF @.cancel THEN Forgotten(@) ELSE @)]
         /\ Goto(p, "idle")

BuildFailed(p) ==
    /\ Building(p) /\ build[p].thread = "failed"
    /\ BuildLost(p)
    /\ UNCHANGED <<store, build, runtime, bounds, setupHistory>>

(* The time is over, or the operation is cancelled: abandon.                *)
BuildAbandoned(p) ==
    LET b == build[p]
    IN  /\ Building(p) /\ b.thread # "failed"
        /\ build' = [build EXCEPT ![p] =
             LET orphan == [b EXCEPT !.abandoned = TRUE, !.watched = TRUE]
             IN  IF b.thread = "returned" THEN Claimed(orphan, {"own"}) ELSE orphan]
        /\ BuildLost(p)
        /\ UNCHANGED <<store, runtime, bounds, setupHistory>>

(* _finish_abandoned_build, when the abandoned task is done.                *)
LateCallback(p) ==
    LET b == build[p]
    IN  /\ b.watched /\ b.thread \in {"returned", "failed"}
        /\ build' = [build EXCEPT ![p] =
             IF b.thread = "failed" THEN [b EXCEPT !.watched = FALSE]
             ELSE Claimed([b EXCEPT !.watched = FALSE], {"own"})]
        /\ UNCHANGED <<store, ctl, doing, runtime, bounds, setupHistory>>

(* deliver: the loop has the handle.  A draft that was edited meanwhile     *)
(* undoes the save; after that the draft cannot be edited any more.         *)
BuildDelivered(p) ==
    /\ Building(p) /\ build[p].thread = "returned" /\ ~ctl[p].cancel
    /\ IF doing[p] = "rebuild"
       THEN HandOver(p)
       ELSE /\ build' = [build EXCEPT ![p].claimed = TRUE]
            /\ IF ctl[p].changed THEN Abort(p, "rollback") ELSE Goto(p, "finalize") /\ UNCHANGED ctl
            /\ UNCHANGED runtime
    /\ UNCHANGED <<store, bounds, setupHistory>>

-----------------------------------------------------------------------------
(* Recovery, the running runtime, and crashes *)

(* The recovery screen: whoever sees a pending activation may undo it, also *)
(* while the process that owns it is still at work.                         *)
Recover(p) ==
    /\ doing[p] = "idle" /\ Open(p) /\ IsPending(doc.owner)
    /\ RestorePrevious
    /\ UNCHANGED <<config, drawn, ctl, doing, build, runtime, edits, setupHistory>>

(* Generations that the file does not refer to are deleted one by one.      *)
CleanupOrphans(p, G) ==
    /\ doing[p] = "idle" /\ Open(p) /\ doc.active # NoGen
    /\ G # {} /\ G \subseteq Orphans
    /\ vault' = Cleared(vault, G)
    /\ IF G = Orphans THEN UNCHANGED faults ELSE Fault
    /\ UNCHANGED <<doc, config, drawn, ctl, doing, build, runtime, edits, setupHistory>>

\* replace_active_workflow: the generation the runtime was built from, stable.
MayReplace(g) == doc.active = g /\ doc.owner = NoGen

SaveWorkflow(p) ==
    LET g == runtime[p]
    IN  /\ g # NoGen /\ MayReplace(g) /\ Edit
        /\ config[doc.active].workflow < MaxWorkflow
        /\ config' = [config EXCEPT ![doc.active].workflow = @ + 1]
        /\ UNCHANGED <<doc, vault, drawn, ctl, doing, build, runtime, faults, setupHistory>>

Saving == {"commit", "committed", "notCommitted", "read", "build", "finalize",
           "notFinalized", "rollback"}

ProcessCrashes(p) ==
    /\ Fault /\ doing[p] # "idle"
    /\ ctl' = [ctl EXCEPT ![p] = NewCtl] /\ Goto(p, "idle")
    /\ build' = [build EXCEPT ![p] = NoBuild] /\ runtime' = [runtime EXCEPT ![p] = NoGen]
    /\ lost' = IF doing[p] \in Saving THEN lost \cup {ctl[p].gen} ELSE lost
    /\ UNCHANGED <<store, edits, tested, ran>>

-----------------------------------------------------------------------------
(* What the process does by itself, and what its user does.                 *)
Operate(p) ==
    \/ \E ok \in BOOLEAN : TestEnd(p, ok)
    \/ Commit(p) \/ Detect(p) \/ AfterCommit(p) \/ ReadSecrets(p) \/ Finalize(p)
    \/ AfterFinalize(p) \/ Rollback(p) \/ Cleanup(p) \/ ActivateRead(p)
    \/ BuildFailed(p) \/ BuildAbandoned(p) \/ BuildDelivered(p)

Threads(p) ==
    \/ \E ok \in BOOLEAN : BuildEnds(p, ok)
    \/ RunCloser(p, "own") \/ RunCloser(p, "thread")

Change(p) ==
    \/ \E s \in SetupSteps :
         \/ TestBegin(p, s)
         \/ \E v \in Fields : SetPublic(p, s, v)
         \/ \E x \in Credentials : SetSecret(p, s, x)
         \/ \E v \in Fields, x \in Credentials \cup {Missing} : InlineApply(p, s, v, x)
    \/ CancelEdit(p) \/ CancelTask(p) \/ InlineLoad(p) \/ ConfirmReview(p) \/ SaveBegin(p)

Use(p) ==
    \/ Recover(p) \/ SaveWorkflow(p)
    \/ \E G \in SUBSET Gens : CleanupOrphans(p, G)
    \/ p \in Editors /\ (Close(p) \/ NewController(p) \/ Activate(p) \/ Change(p))

SetupNext == \E p \in Processes :
    Operate(p) \/ Threads(p) \/ LateCallback(p) \/ RunCloser(p, "loop") \/ Use(p) \/ ProcessCrashes(p)

SetupSpec == SetupInit /\ [][SetupNext]_setupVars

-----------------------------------------------------------------------------
(* Properties *)

(* The file, the vault, the controllers and the builds have their types;    *)
(* a stable file keeps no previous generation, a pending one is owned by    *)
(* the active generation.                                                   *)
SetupTypeOK ==
    /\ doc \in [active : 0..MaxGen, previous : 0..MaxGen, owner : 0..MaxGen]
    /\ doc.owner = NoGen => doc.previous = NoGen
    /\ doc.owner # NoGen => doc.owner = doc.active /\ doc.previous # doc.active
    /\ config \in [Gens -> [pub : [SetupSteps -> Fields], kinds : SUBSET SetupSteps,
                            workflow : 0..MaxWorkflow]]
    /\ vault \in [Gens -> [SetupSteps -> Credentials \cup {Missing}]]
    /\ drawn \in 0..MaxGen /\ edits \in 0..MaxEdits /\ faults \in 0..MaxFaults
    /\ \A p \in Processes :
         /\ ctl[p].open \in {"open", "closing", "closed"}
         /\ ctl[p].pub \in [SetupSteps -> Fields]
         /\ ctl[p].sec \in [SetupSteps -> Credentials \cup {Missing}]
         /\ ctl[p].result \in [SetupSteps -> {"none", "pending", "passed"}]
         /\ doing[p] \in Saving \cup {"idle", "inline", "test", "finalized", "cleanup",
                                   "activate", "rebuild"}
         /\ build[p].thread \in {"none", "running", "returned", "failed"}
         /\ runtime[p] \in 0..MaxGen
         /\ ctl[p].open = "closed" => doing[p] \in {"idle", "inline"} /\ ctl[p].sec = NoSecrets

(* setup_store.py commit, restore_previous, finalize_activation and         *)
(* cleanup_orphan_generations: whatever fails, crashes or is recovered by   *)
(* another process, all credentials of the active generation are stored,    *)
(* and of the previous one while the activation can still be undone.        *)
CredentialsKept ==
    \A g \in {doc.active, doc.previous} \ {NoGen} : KindsIn(g) = config[g].kinds /\ KindsIn(g) # {}

\* And an activation is pending only while the save that began it is under
\* way, or when its process crashed, or its roll back failed (_cleanup_save).
PendingIsOwned ==
    doc.owner # NoGen => doc.owner \in lost
                         \/ \E p \in Processes : ctl[p].gen = doc.owner /\ doing[p] \in Saving

PointerIsSound == CredentialsKept /\ PendingIsOwned

(* save_and_activate: what becomes the stable configuration is what passed  *)
(* its tests, fields and credentials of every step, and a runtime was built *)
(* from it: no edit, cancellation, timeout or forgotten credential slips in *)
(* between the tests, the commit and the end of the activation.             *)
Activated(g) ==
    /\ <<g, config[g]>> \in ran
    /\ \A s \in SetupSteps : tested[g][s] = <<config[g].pub[s], vault[g][s]>>
ActivatedAsTested ==
    [][doc.owner # NoGen /\ doc'.active = doc.owner /\ doc'.owner = NoGen
         => Activated(doc.owner)]_setupVars

(* _BuildAttempt, _CloseOnce, _bounded_build, _cleanup_save: a runtime that *)
(* was built is closed at most once, and never if the user interface got    *)
(* it; and however late it comes, as long as it is neither given nor closed *)
(* the operation still has it or a closer that needs no loop will run.      *)
RuntimesAccounted ==
    \A p \in Processes :
        LET b == build[p]
        IN  /\ b.closed <= 1 /\ (b.given => b.closed = 0)
            /\ ~Settled(b) /\ b.thread = "returned" =>
                   \/ b.closers \cap {"own", "thread"} # {}
                   \/ ~b.abandoned /\ doing[p] \in Saving \cup {"rebuild", "finalized", "cleanup"}
=============================================================================
