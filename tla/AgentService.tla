---------------------------- MODULE AgentService ----------------------------
(***************************************************************************)
(* The service of main.py: one process with one event loop.  Rounds of the *)
(* Scheduler (its timer, and poll_now) make work items of new defects and  *)
(* plan them; people, webhooks and ai_trigger act on the same items;       *)
(* execute makes branches in a clone; the tasks of the ScheduleManager     *)
(* report on defects and load the same clone in a thread.                  *)
(*                                                                         *)
(* What runs between two awaits is not interleaved with anything but that  *)
(* thread and the end of the process, so it is split only where something  *)
(* becomes durable.  Which tasks are due, what a plan says and how an      *)
(* answer is worded are choices.  All requests name one repository.        *)
(***************************************************************************)
EXTENDS Naturals, FiniteSets

CONSTANTS Defects,       \* defects of ONES
          Rounds,        \* who polls: the timer, and a person
          Requests,      \* branches that may be requested
          Bases,         \* branches of the remote
          BaseOf,        \* the base of each requested branch
          CodeBase,      \* the branch that scheduled analyses read
          Runs,          \* bound: runs of scheduled tasks
          None,          \* no defect, request or branch
          MaxEvents      \* bound: what comes from outside, ends of the process included

ASSUME ServiceAssumption ==
    /\ BaseOf \in [Requests -> Bases] /\ CodeBase \in Bases
    /\ None \notin Defects \cup Requests \cup Bases \cup {"origin"}
    /\ MaxEvents \in Nat

VARIABLES
    up, llm,             \* the process runs; a language model is configured
    items,               \* table work_items: state and plan of each defect
    seen, file,          \* Store: what it remembers, and seen_defects.json
    round,               \* each round: next step, defects to do, defect in hand
    trigger,             \* the item ai_trigger plans
    records,             \* table execution_records: their status
    job,                 \* the execution under way
    clone,               \* data/repos/<name>: is it there, what is checked out, who made a branch
    load, cached,        \* the thread that loads it, and that it has been loaded
    runs,                \* table scheduled_task_runs, and the next step of each
    events,              \* counts what came from outside
    released,            \* history: held plans a person has let pass
    cut,                 \* history: what was in hand when the process ended or a
                         \* person moved the item in hand
    mixed                \* history: requests during which the thread ran

work    == <<items, seen, file, round, trigger>>
branch  == <<records, job, clone>>
tasks   == <<load, cached, runs>>
history == <<released, cut, mixed>>
vars    == <<up, llm, work, branch, tasks, events, history>>

Torn    == {None}       \* no text of the file at all
States  == {"none", "pending", "parsing", "planning", "coding", "failed", "waiting_approval"}
Plans   == {"free", "held"}
Idle    == [pc |-> "off", todo |-> {}, cur |-> None]
NoJob   == [pc |-> "off", request |-> None]
Untried == [pc |-> "off", item |-> None, plan |-> "none"]
NoClone == [there |-> "no", head |-> None, made |-> [q \in Requests |-> None]]
NoRun   == [status |-> "none", pc |-> "off", errors |-> FALSE]

Init ==
    /\ up = TRUE /\ llm \in BOOLEAN
    /\ items = [d \in Defects |-> [state |-> "none", plan |-> "none"]]
    /\ seen = {} /\ file = {}
    /\ round = [r \in Rounds |-> Idle] /\ trigger = Untried
    /\ records = [q \in Requests |-> "none"] /\ job = NoJob /\ clone = NoClone
    /\ load = "off" /\ cached = FALSE
    /\ runs = [n \in Runs |-> NoRun]
    /\ events = 0 /\ released = {} /\ cut = {} /\ mixed = {}

-----------------------------------------------------------------------------
(* The event loop and the state machine *)

\* TRANSITIONS, as far as anything moves an item.
Transitions(state) ==
    CASE state = "pending"          -> {"parsing", "waiting_approval", "failed"}
      [] state = "parsing"          -> {"planning", "waiting_approval", "failed"}
      [] state = "planning"         -> {"coding", "waiting_approval", "failed"}
      [] state = "waiting_approval" -> {"coding", "failed"}
      [] state = "coding"           -> {"waiting_approval", "failed"}
      [] state = "failed"           -> {"pending"}
      [] OTHER                      -> {}

Legal(d, state) == state \in Transitions(items[d].state)

(* Nothing is between two awaits.                                            *)
Free ==
    /\ up /\ job.pc = "off" /\ trigger.pc = "off"
    /\ \A r \in Rounds : round[r].pc \in {"off", "fetch", "plan"}

FromOutside == Free /\ events < MaxEvents /\ events' = events + 1

Started(d, state) ==
    IF items[d].state # "none" THEN items
    ELSE [items EXCEPT ![d] = [state |-> state, plan |-> "none"]]

Moved(d, state) == [items EXCEPT ![d].state = state]

Target(plan) == IF plan = "held" THEN "waiting_approval" ELSE "coding"

\* Mistake: an item that is coded already keeps its state.
KeepCoded(d, plan) ==
    /\ items' = [items EXCEPT ![d] =
                   [state |-> IF @.state = "coding" THEN "coding" ELSE Target(plan), plan |-> plan]]
    /\ released' = released \ {d}

(* A plan is stored with the state it asks for; an approval of something     *)
(* else does not count for it.                                               *)
StorePlan(d, plan) ==
    /\ items' = [items EXCEPT ![d] = [state |-> Target(plan), plan |-> plan]]
    /\ released' = released \ {d}

-----------------------------------------------------------------------------
(* A round of the scheduler *)

Step(r, pc) == round' = [round EXCEPT ![r].pc = pc]

BeginRound(r) ==
    /\ FromOutside /\ round[r].pc = "off"
    /\ Step(r, "fetch")
    /\ UNCHANGED <<up, llm, items, seen, file, trigger, branch, tasks, history>>

FetchFails(r) ==
    /\ Free /\ round[r].pc = "fetch"
    /\ Step(r, "off")
    /\ UNCHANGED <<up, llm, items, seen, file, trigger, branch, tasks, events, history>>

(* filter_new: those not seen are to be marked, one after another.           *)
Fetched(r) ==
    /\ Free /\ round[r].pc = "fetch"
    /\ \E defects \in SUBSET Defects :
         round' = [round EXCEPT ![r] = [pc |-> "mark", todo |-> defects \ seen, cur |-> None]]
    /\ UNCHANGED <<up, llm, items, seen, file, trigger, branch, tasks, events, history>>

MarkSeen(r) ==
    /\ up /\ round[r].pc = "mark"
    /\ \E d \in round[r].todo \ seen : seen' = seen \cup {d}
    /\ file' = seen'
    /\ UNCHANGED <<up, llm, items, round, trigger, branch, tasks, events, history>>

Marked(r) ==
    /\ up /\ round[r].pc = "mark" /\ round[r].todo \subseteq seen
    /\ Step(r, "take")
    /\ file' = seen
    /\ UNCHANGED <<up, llm, items, seen, trigger, branch, tasks, events, history>>

EndRound(r) ==
    /\ up /\ round[r].pc = "take" /\ round[r].todo = {}
    /\ round' = [round EXCEPT ![r] = Idle]
    /\ UNCHANGED <<up, llm, items, seen, file, trigger, branch, tasks, events, history>>

\* Mistake: the round returns at the first defect that has an item.
ReturnAtKnown(r, d) == Idle

\* What is left to do when d has an item already.
SkipKnown(r, d) == [round[r] EXCEPT !.todo = @ \ {d}]

Take(r) ==
    /\ up /\ round[r].pc = "take"
    /\ \E d \in round[r].todo :
         /\ items' = Started(d, "parsing")
         /\ round' = [round EXCEPT ![r] =
                        IF items[d].state # "none" THEN SkipKnown(r, d)
                        ELSE [pc   |-> IF llm THEN "parsed" ELSE "take",
                              todo |-> @.todo \ {d},
                              cur  |-> IF llm THEN d ELSE None]]
    /\ UNCHANGED <<up, llm, seen, file, trigger, branch, tasks, events, history>>

AskPlan(r) ==
    /\ up /\ round[r].pc = "parsed"
    /\ items' = Moved(round[r].cur, "planning")
    /\ Step(r, "plan")
    /\ UNCHANGED <<up, llm, seen, file, trigger, branch, tasks, events, history>>

(* The planner always answers: with a held plan if the model cannot be       *)
(* reached, with a free and empty one if its answer cannot be read.          *)
PlanStored(r) ==
    /\ Free /\ round[r].pc = "plan"
    /\ \E plan \in Plans :
         /\ Legal(round[r].cur, Target(plan))
         /\ StorePlan(round[r].cur, plan)
    /\ round' = [round EXCEPT ![r].pc = "take", ![r].cur = None]
    /\ UNCHANGED <<up, llm, seen, file, trigger, branch, tasks, events, cut, mixed>>

(* The item has been moved while the planner worked.                         *)
PlanRefused(r) ==
    /\ Free /\ round[r].pc = "plan"
    /\ \E plan \in Plans : ~Legal(round[r].cur, Target(plan))
    /\ Step(r, "refused")
    /\ UNCHANGED <<up, llm, items, seen, file, trigger, branch, tasks, events, history>>

FailItem(r) ==
    /\ up /\ round[r].pc = "refused" /\ Legal(round[r].cur, "failed")
    /\ items' = Moved(round[r].cur, "failed")
    /\ round' = [round EXCEPT ![r].pc = "take", ![r].cur = None]
    /\ UNCHANGED <<up, llm, seen, file, trigger, branch, tasks, events, history>>

(* The handler raises too, and the rest of the round is dropped.             *)
RoundFails(r) ==
    /\ up /\ round[r].pc = "refused" /\ ~Legal(round[r].cur, "failed")
    /\ round' = [round EXCEPT ![r] = Idle]
    /\ UNCHANGED <<up, llm, items, seen, file, trigger, branch, tasks, events, history>>

-----------------------------------------------------------------------------
(* Requests about items *)

Webhook(d) ==
    /\ FromOutside
    /\ items' = Started(d, "pending")
    /\ UNCHANGED <<up, llm, seen, file, round, trigger, branch, tasks, history>>

InHand(d) == UNION {round[r].todo \cup {d} : r \in {s \in Rounds : round[s].cur = d}}

TaskAction(d, target) ==
    /\ FromOutside /\ Legal(d, target)
    /\ items' = Moved(d, target)
    /\ released' = IF target = "coding" THEN released \cup {d} ELSE released
    /\ cut' = cut \cup InHand(d)
    /\ UNCHANGED <<up, llm, seen, file, round, trigger, branch, tasks, mixed>>

TriggerAnalysis(d) ==
    /\ FromOutside /\ llm
    /\ items' = Started(d, "parsing")
    /\ UNCHANGED <<up, llm, seen, file, round, trigger, branch, tasks, history>>

TriggerPlan(d) ==
    /\ FromOutside /\ llm
    /\ \E plan \in Plans : trigger' = [pc |-> "start", item |-> d, plan |-> plan]
    /\ items' = Started(d, "parsing")
    /\ UNCHANGED <<up, llm, seen, file, round, branch, tasks, history>>

TriggerPlanning ==
    /\ up /\ trigger.pc = "start" /\ Legal(trigger.item, "planning")
    /\ items' = Moved(trigger.item, "planning")
    /\ trigger' = [trigger EXCEPT !.pc = "planning"]
    /\ UNCHANGED <<up, llm, seen, file, round, branch, tasks, events, history>>

TriggerRefused ==
    /\ up /\ trigger.pc = "start" /\ ~Legal(trigger.item, "planning")
    /\ trigger' = Untried
    /\ UNCHANGED <<up, llm, items, seen, file, round, branch, tasks, events, history>>

TriggerStored ==
    /\ up /\ trigger.pc = "planning"
    /\ StorePlan(trigger.item, trigger.plan)
    /\ trigger' = Untried
    /\ UNCHANGED <<up, llm, seen, file, round, branch, tasks, events, cut, mixed>>

-----------------------------------------------------------------------------
(* Making a branch: execute holds the event loop from end to end *)

Recorded(q, status) == [records EXCEPT ![q] = status]

\* An execution that has begun, or ended well, is not begun again.
Reused(q) == records[q] \in {"in_progress", "completed"}

(* Another request for the same branch is only counted.                      *)
RequestBranch(q) ==
    /\ FromOutside /\ ~Reused(q)
    /\ records' = Recorded(q, "in_progress")
    /\ job' = [pc |-> "clone", request |-> q]
    /\ mixed' = IF load # "off" THEN mixed \cup {q} ELSE mixed \ {q}
    /\ UNCHANGED <<up, llm, work, clone, tasks, released, cut>>

\* Mistake: what is checked out is taken for the base.
KeepHead(q) == clone.head

\* checkout and pull of the base.
CheckedOut(q) == BaseOf[q]

Executing(pc) == up /\ job.pc = pc

CloneRepo ==
    /\ Executing("clone") /\ clone.there # "partial"
    /\ clone' = [clone EXCEPT !.there = "yes",
                   !.head = IF clone.there = "no" THEN BaseOf[job.request]
                            ELSE CheckedOut(job.request)]
    /\ job' = [job EXCEPT !.pc = "base"]
    /\ UNCHANGED <<up, llm, work, records, tasks, events, history>>

CheckoutBase ==
    /\ Executing("base") /\ clone.there = "yes"
    /\ clone' = [clone EXCEPT !.head = CheckedOut(job.request)]
    /\ job' = [job EXCEPT !.pc = "branch"]
    /\ UNCHANGED <<up, llm, work, records, tasks, events, history>>

(* A local branch of the name is taken as it is, then a remote one, and only *)
(* then is one made of what is checked out.                                  *)
CheckoutBranch ==
    /\ Executing("branch") /\ clone.there = "yes"
    /\ LET q == job.request IN
       \E start \in {clone.head, "origin"} :
         clone' = [clone EXCEPT !.head = q, !.made[q] = IF @ = None THEN start ELSE @]
    /\ job' = [job EXCEPT !.pc = "done"]
    /\ UNCHANGED <<up, llm, work, records, tasks, events, history>>

Complete ==
    /\ Executing("done")
    /\ records' = Recorded(job.request, "completed")
    /\ job' = NoJob
    /\ UNCHANGED <<up, llm, work, clone, tasks, events, history>>

(* Git, the network, or the other user of the clone.                         *)
ExecutionFails ==
    /\ up /\ job.pc \in {"clone", "base", "branch"}
    /\ records' = Recorded(job.request, "failed")
    /\ job' = NoJob
    /\ UNCHANGED <<up, llm, work, clone, tasks, events, history>>

-----------------------------------------------------------------------------
(* Scheduled tasks *)

RunStep(n, pc) == runs' = [runs EXCEPT ![n].pc = pc]
FinishRun(n, status) == runs' = [runs EXCEPT ![n].status = status, ![n].pc = "off"]

(* By the clock or by a person; nothing keeps two runs of a task apart.      *)
ExecuteTask(n) ==
    /\ FromOutside /\ runs[n].status = "none"
    /\ runs' = [runs EXCEPT ![n] = [status |-> "running", pc |-> "fetch", errors |-> FALSE]]
    /\ UNCHANGED <<up, llm, work, branch, load, cached, history>>

NoItems(n) ==
    /\ Free /\ runs[n].pc = "fetch"
    /\ FinishRun(n, "success")
    /\ UNCHANGED <<up, llm, work, branch, load, cached, events, history>>

GotItems(n) ==
    /\ Free /\ runs[n].pc = "fetch"
    /\ \E pc \in {"load", "process"} : RunStep(n, pc)
    /\ UNCHANGED <<up, llm, work, branch, load, cached, events, history>>

(* Under _codebase_lock; a clone that has been loaded is not looked at again. *)
Load(n) ==
    /\ Free /\ runs[n].pc = "load" /\ ~cached /\ load = "off"
    /\ load' = "begin" /\ RunStep(n, "loading")
    /\ UNCHANGED <<up, llm, work, branch, cached, events, history>>

LoadCached(n) ==
    /\ Free /\ runs[n].pc = "load" /\ cached /\ load = "off"
    /\ RunStep(n, "process")
    /\ UNCHANGED <<up, llm, work, branch, load, cached, events, history>>

Meeting == IF job.pc = "off" THEN mixed ELSE mixed \cup {job.request}

(* Codebase._clone, in the thread: what git answers is not looked at.        *)
LoadClones ==
    /\ up /\ load = "begin" /\ clone.there = "no"
    /\ clone' = [clone EXCEPT !.there = "partial"]
    /\ load' = "cloning" /\ mixed' = Meeting
    /\ UNCHANGED <<up, llm, work, records, job, cached, runs, events, released, cut>>

LoadCloned ==
    /\ up /\ load = "cloning"
    /\ clone' \in {NoClone, [clone EXCEPT !.there = "yes", !.head = CodeBase]}
    /\ load' = "end" /\ mixed' = Meeting
    /\ UNCHANGED <<up, llm, work, records, job, cached, runs, events, released, cut>>

LoadChecksOut ==
    /\ up /\ load = "begin" /\ clone.there # "no"
    /\ clone' \in {clone, [clone EXCEPT !.head = IF clone.there = "yes" THEN CodeBase ELSE @]}
    /\ load' = "end" /\ mixed' = Meeting
    /\ UNCHANGED <<up, llm, work, records, job, cached, runs, events, released, cut>>

Loaded(n) ==
    /\ Free /\ runs[n].pc = "loading" /\ load = "end"
    /\ load' = "off" /\ cached' = TRUE
    /\ RunStep(n, "process")
    /\ UNCHANGED <<up, llm, work, branch, events, history>>

(* An item that cannot be planned or analysed is stored with its error.      *)
Process(n) ==
    /\ Free /\ runs[n].pc = "process"
    /\ \E errors \in BOOLEAN :
         /\ ~llm => errors
         /\ runs' = [runs EXCEPT ![n].pc = "notify", ![n].errors = errors]
    /\ UNCHANGED <<up, llm, work, branch, load, cached, events, history>>

Status(n) == IF runs[n].errors THEN "partial" ELSE "success"

Notified(n) ==
    /\ Free /\ runs[n].pc = "notify"
    /\ FinishRun(n, Status(n))
    /\ UNCHANGED <<up, llm, work, branch, load, cached, events, history>>

TaskFails(n) ==
    /\ Free /\ runs[n].pc \in {"fetch", "process", "notify"}
    /\ FinishRun(n, "failed")
    /\ UNCHANGED <<up, llm, work, branch, load, cached, events, history>>

-----------------------------------------------------------------------------
(* The end of the process, by a crash or in an orderly way, and its start *)

(* A file being written is truncated first; a killed git leaves its          *)
(* directory.                                                                *)
Stop ==
    /\ up /\ events < MaxEvents /\ events' = events + 1
    /\ up' = FALSE /\ seen' = {}
    /\ file' \in IF \E r \in Rounds : round[r].pc = "mark" THEN {file, Torn} ELSE {file}
    /\ clone' \in IF job.pc = "clone" /\ clone.there = "no"
                 THEN {clone, [clone EXCEPT !.there = "partial"]} ELSE {clone}
    /\ cut' = cut \cup (UNION {round[r].todo \cup {round[r].cur} : r \in Rounds})
                  \cup {trigger.item, job.request}
    /\ round' = [r \in Rounds |-> Idle] /\ trigger' = Untried /\ job' = NoJob
    /\ load' = "off" /\ cached' = FALSE
    /\ runs' = [n \in Runs |-> [runs[n] EXCEPT !.pc = "off"]]
    /\ UNCHANGED <<llm, items, records, released, mixed>>

(* Store reads the file as it is imported, and cannot if it is torn.         *)
Restart ==
    /\ ~up /\ file # Torn
    /\ up' = TRUE /\ seen' = file
    /\ UNCHANGED <<llm, items, file, round, trigger, branch, tasks, events, history>>

RemoveFile ==
    /\ ~up /\ file = Torn
    /\ file' = {}
    /\ UNCHANGED <<up, llm, items, seen, round, trigger, branch, tasks, events, history>>

-----------------------------------------------------------------------------
RoundStep(r) ==
    \/ BeginRound(r) \/ FetchFails(r) \/ Fetched(r) \/ MarkSeen(r) \/ Marked(r) \/ EndRound(r)
    \/ Take(r) \/ AskPlan(r) \/ PlanStored(r) \/ PlanRefused(r) \/ FailItem(r) \/ RoundFails(r)

ItemStep ==
    \/ \E d \in Defects :
         \/ Webhook(d) \/ TriggerAnalysis(d) \/ TriggerPlan(d)
         \/ \E target \in {"coding", "failed", "pending", "waiting_approval"} :
              TaskAction(d, target)
    \/ TriggerPlanning \/ TriggerRefused \/ TriggerStored

BranchStep ==
    \/ \E q \in Requests : RequestBranch(q)
    \/ CloneRepo \/ CheckoutBase \/ CheckoutBranch \/ Complete \/ ExecutionFails

TaskStep ==
    \/ \E n \in Runs :
         \/ ExecuteTask(n) \/ NoItems(n) \/ GotItems(n) \/ Load(n) \/ LoadCached(n)
         \/ Loaded(n) \/ Process(n) \/ Notified(n) \/ TaskFails(n)
    \/ LoadClones \/ LoadCloned \/ LoadChecksOut

Next ==
    \/ \E r \in Rounds : RoundStep(r)
    \/ ItemStep \/ BranchStep \/ TaskStep
    \/ Stop \/ Restart \/ RemoveFile

Spec == Init /\ [][Next]_vars

-----------------------------------------------------------------------------
(* An item under a plan that asks for an approval is coded only if a person  *)
(* has let it pass after that plan was stored: requires_human_approval.      *)
ApprovalIsAsked ==
    \A d \in Defects :
        items[d].state = "coding" /\ items[d].plan = "held" => d \in released

(* A defect that is marked as seen, and so never looked at again, has a work *)
(* item or is still to get one, and an item that is being planned has a      *)
(* planner; except for what was in hand when the process ended or a person   *)
(* moved the item in hand.                                                   *)
NothingForgotten ==
    \A d \in Defects \ cut :
        /\ d \in seen /\ items[d].state = "none" => \E r \in Rounds : d \in round[r].todo
        /\ items[d].state = "planning" =>
              trigger.item = d \/ \E r \in Rounds : round[r].cur = d

(* What the tables say happened: a record is completed only if its branch    *)
(* is in the clone, off the base it names if it was made here and the thread *)
(* kept out; what is in progress or running is, or was when the process      *)
(* ended; a run that succeeded had no errors.                                *)
RecordsTellTruth ==
    /\ \A q \in Requests :
         /\ records[q] = "completed" =>
              /\ clone.there = "yes" /\ clone.made[q] # None
              /\ clone.made[q] \in {BaseOf[q], "origin"} \/ q \in mixed
         /\ records[q] = "in_progress" => job.request = q \/ q \in cut
    /\ \A n \in Runs :
         /\ runs[n].pc # "off" => runs[n].status = "running"
         /\ runs[n].status = "success" => ~runs[n].errors
=============================================================================
