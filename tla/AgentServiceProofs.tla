------------------------- MODULE AgentServiceProofs -------------------------
(***************************************************************************)
(* Proofs about AgentService, for any number of defects, rounds, requests, *)
(* runs and events.  The items with their planners, the branches with the  *)
(* clone, and the runs of scheduled tasks share few variables, so each has *)
(* an invariant and a lemma of its own.                                    *)
(***************************************************************************)
EXTENDS AgentService, TLAPS

-----------------------------------------------------------------------------
(* Items and those who plan them *)

RoundPcs == {"off", "fetch", "mark", "take", "parsed", "plan", "refused"}
InPlan   == {"parsed", "plan", "refused"}

WorkType ==
    /\ up \in BOOLEAN
    /\ items \in [Defects -> [state : States, plan : Plans \cup {"none"}]]
    /\ round \in [Rounds -> [pc : RoundPcs, todo : SUBSET Defects, cur : Defects \cup {None}]]
    /\ trigger \in [pc : {"off", "start", "planning"}, item : Defects \cup {None},
                    plan : Plans \cup {"none"}]
    /\ trigger.pc = "off" => trigger = Untried
    /\ trigger.pc # "off" => trigger.item \in Defects
    /\ seen \subseteq Defects
    /\ file \subseteq Defects \/ file = Torn

\* A round that has not fetched has nothing to do, and a defect in hand exactly
\* while it plans one; no two rounds have the same, which has an item.
HandsApart ==
    /\ \A r \in Rounds :
         /\ round[r].pc \in {"off", "fetch"} => round[r].todo = {}
         /\ round[r].cur # None <=> round[r].pc \in InPlan
         /\ round[r].cur # None => items[round[r].cur].state # "none"
    /\ \A r, s \in Rounds : round[r].cur = round[s].cur /\ round[r].cur # None => r = s

\* The event loop is with one of them between two awaits.
LoopIsTaken ==
    trigger.pc # "off" => \A r \in Rounds : round[r].pc \in {"off", "fetch", "plan"}

\* An item that failed in the hands of a round was moved by a person, who is
\* then to blame for what the round drops.
FailedByHand ==
    \A r \in Rounds :
        round[r].cur # None /\ items[round[r].cur].state = "failed" => round[r].todo \subseteq cut

\* What the file says has been looked at had its item when the process ended.
FileKept ==
    /\ up => file \subseteq seen
    /\ ~up => /\ \A r \in Rounds : round[r] = Idle
              /\ \A d \in (file \cap Defects) \ cut : items[d].state # "none"

PlannersKept ==
    \A d \in Defects \ cut :
        /\ d \in seen /\ items[d].state = "none" => \E r \in Rounds : d \in round[r].todo
        /\ items[d].state = "planning" =>
              \/ trigger.pc = "planning" /\ trigger.item = d
              \/ \E r \in Rounds : round[r].cur = d

WorkInv ==
    /\ WorkType /\ HandsApart /\ LoopIsTaken /\ FailedByHand /\ FileKept /\ PlannersKept
    /\ ApprovalIsAsked

-----------------------------------------------------------------------------
(* Branches and the clone *)

BranchType ==
    /\ records \in [Requests -> {"none", "in_progress", "completed", "failed"}]
    /\ job \in [pc : {"off", "clone", "base", "branch", "done"}, request : Requests \cup {None}]
    /\ job.pc = "off" <=> job.request = None
    /\ clone \in [there : {"no", "partial", "yes"}, head : Bases \cup Requests \cup {None},
                  made : [Requests -> Bases \cup Requests \cup {None, "origin"}]]
    /\ load \in {"off", "begin", "cloning", "end"}

CloneKept ==
    /\ clone.there = "yes" => clone.head # None
    /\ load = "cloning" => clone.there = "partial"
    /\ \A q \in Requests : clone.made[q] # None =>
          /\ Reused(q)
          /\ clone.made[q] \in {BaseOf[q], "origin"} \/ q \in mixed

JobKept ==
    /\ job.pc # "off" => records[job.request] = "in_progress"
    /\ job.pc \in {"base", "branch", "done"} => clone.there = "yes"
    /\ job.pc \in {"clone", "base", "branch"} => clone.made[job.request] = None
    /\ job.pc = "branch" => clone.head = BaseOf[job.request] \/ job.request \in mixed
    /\ job.pc = "done" => clone.made[job.request] # None

RecordsKept ==
    \A q \in Requests :
        /\ records[q] = "completed" => clone.there = "yes" /\ clone.made[q] # None
        /\ records[q] = "in_progress" => job.request = q \/ q \in cut

BranchInv == BranchType /\ CloneKept /\ JobKept /\ RecordsKept

-----------------------------------------------------------------------------
(* Runs of scheduled tasks *)

RunsInv ==
    /\ runs \in [Runs -> [status : {"none", "running", "success", "partial", "failed"},
                          pc : {"off", "fetch", "load", "loading", "process", "notify"},
                          errors : BOOLEAN]]
    /\ \A n \in Runs :
         /\ runs[n].pc # "off" => runs[n].status = "running"
         /\ runs[n].pc \in {"fetch", "load", "loading", "process"} => ~runs[n].errors
         /\ runs[n].status = "success" => ~runs[n].errors

IInv == WorkInv /\ BranchInv /\ RunsInv

-----------------------------------------------------------------------------
LEMMA HandIsCut ==
    ASSUME NEW d \in Defects, NEW r \in Rounds, round[r].cur = d
    PROVE  round[r].todo \cup {d} \subseteq InHand(d)
BY DEF InHand

LEMMA StopCuts ==
    ASSUME Stop
    PROVE  /\ cut \cup {trigger.item} \subseteq cut'
           /\ cut \cup {job.request} \subseteq cut'
           /\ \A r \in Rounds : round[r].todo \cup {round[r].cur} \subseteq cut'
<1> DEFINE hands == UNION {round[s].todo \cup {round[s].cur} : s \in Rounds}
           item == trigger.item
           request == job.request
<1>1. cut' = cut \cup hands \cup {item, request}
  BY DEF Stop
<1>2. \A r \in Rounds : round[r].todo \cup {round[r].cur} \subseteq hands
  OBVIOUS
<1>3. /\ cut \cup {item} \subseteq cut' /\ cut \cup {request} \subseteq cut'
      /\ hands \subseteq cut'
  <2> HIDE DEF hands, item, request
  <2> QED
    BY <1>1
<1> QED
  BY <1>2, <1>3

LEMMA WorkInit == Init => WorkInv
BY ServiceAssumption
   DEF Init, ServiceAssumption, WorkInv, WorkType, HandsApart, LoopIsTaken, FailedByHand, FileKept,
       PlannersKept, ApprovalIsAsked, Idle, Untried, Torn, States, Plans, RoundPcs, InPlan

LEMMA WorkStep == WorkInv /\ [Next]_vars => WorkInv'
<1> SUFFICES ASSUME WorkInv, [Next]_vars PROVE WorkInv'
  OBVIOUS
<1> USE ServiceAssumption
    DEF ServiceAssumption, WorkInv, WorkType, HandsApart, LoopIsTaken, FailedByHand, FileKept,
        PlannersKept, ApprovalIsAsked, Idle, Untried, Torn, States, Plans, RoundPcs, InPlan,
        Free, FromOutside, Legal, Transitions, Moved, Started, Target, Step, history
<1>1. CASE UNCHANGED <<up, work, released, cut>>
  BY <1>1 DEF work
<1>2. ASSUME NEW r \in Rounds, BeginRound(r) PROVE WorkInv'
  BY <1>2 DEF BeginRound
<1>3. ASSUME NEW r \in Rounds, FetchFails(r) PROVE WorkInv'
  BY <1>3 DEF FetchFails
<1>4. ASSUME NEW r \in Rounds, Fetched(r) PROVE WorkInv'
  BY <1>4 DEF Fetched
<1>5. ASSUME NEW r \in Rounds, MarkSeen(r) PROVE WorkInv'
  BY <1>5 DEF MarkSeen
<1>6. ASSUME NEW r \in Rounds, Marked(r) PROVE WorkInv'
  BY <1>6 DEF Marked
<1>7. ASSUME NEW r \in Rounds, EndRound(r) PROVE WorkInv'
  BY <1>7 DEF EndRound
<1>8. ASSUME NEW r \in Rounds, Take(r) PROVE WorkInv'
  BY <1>8 DEF Take, SkipKnown
<1>9. ASSUME NEW r \in Rounds, AskPlan(r) PROVE WorkInv'
  BY <1>9 DEF AskPlan
<1>10. ASSUME NEW r \in Rounds, PlanStored(r) PROVE WorkInv'
  <2> DEFINE d == round[r].cur
  <2>1. /\ round[r].pc = "plan" /\ d \in Defects /\ trigger = Untried /\ up
        /\ round' = [round EXCEPT ![r].pc = "take", ![r].cur = None]
        /\ UNCHANGED <<up, seen, file, trigger, cut>>
    BY <1>10 DEF PlanStored
  <2>2. PICK plan \in Plans : StorePlan(d, plan)
    BY <1>10 DEF PlanStored
  <2>3. items' = [items EXCEPT ![d] = [state |-> Target(plan), plan |-> plan]]
    BY <2>2 DEF StorePlan
  <2>4. released' = released \ {d}
    BY <2>2 DEF StorePlan
  <2>5. WorkType'
    BY <2>1, <2>3
  <2>6. HandsApart' /\ LoopIsTaken' /\ FileKept'
    BY <2>1, <2>3
  <2>7. FailedByHand'
    BY <2>1, <2>3
  <2>8. PlannersKept'
    BY <2>1, <2>3
  <2>9. ApprovalIsAsked'
    BY <2>1, <2>3, <2>4
  <2> QED
    BY <2>5, <2>6, <2>7, <2>8, <2>9
<1>11. ASSUME NEW r \in Rounds, PlanRefused(r) PROVE WorkInv'
  <2>1. /\ round[r].pc = "plan" /\ trigger = Untried /\ up
        /\ round' = [round EXCEPT ![r].pc = "refused"]
        /\ UNCHANGED <<up, items, seen, file, trigger, released, cut>>
    BY <1>11 DEF PlanRefused
  <2>2. WorkType' /\ HandsApart' /\ LoopIsTaken' /\ FileKept'
    BY <2>1
  <2>3. FailedByHand' /\ PlannersKept' /\ ApprovalIsAsked'
    BY <2>1
  <2> QED
    BY <2>2, <2>3
<1>12. ASSUME NEW r \in Rounds, FailItem(r) PROVE WorkInv'
  BY <1>12 DEF FailItem
<1>13. ASSUME NEW r \in Rounds, RoundFails(r) PROVE WorkInv'
  BY <1>13 DEF RoundFails
<1>14. ASSUME NEW d \in Defects, Webhook(d) \/ TriggerAnalysis(d) PROVE WorkInv'
  <2>1. UNCHANGED <<up, seen, file, round, trigger, released, cut>>
    BY <1>14 DEF Webhook, TriggerAnalysis
  <2>2. PICK state \in {"pending", "parsing"} : items' = Started(d, state)
    BY <1>14 DEF Webhook, TriggerAnalysis
  <2>3. WorkType' /\ HandsApart' /\ LoopIsTaken' /\ FileKept'
    BY <2>1, <2>2
  <2>4. FailedByHand' /\ PlannersKept' /\ ApprovalIsAsked'
    BY <2>1, <2>2
  <2> QED
    BY <2>3, <2>4
<1>15. ASSUME NEW d \in Defects, NEW target \in {"coding", "failed", "pending", "waiting_approval"},
              TaskAction(d, target) PROVE WorkInv'
  BY <1>15, HandIsCut DEF TaskAction
<1>16. ASSUME NEW d \in Defects, TriggerPlan(d) PROVE WorkInv'
  BY <1>16 DEF TriggerPlan
<1>17. CASE TriggerPlanning
  BY <1>17 DEF TriggerPlanning
<1>18. CASE TriggerRefused
  BY <1>18 DEF TriggerRefused
<1>19. CASE TriggerStored
  BY <1>19 DEF TriggerStored, StorePlan
<1>20. CASE Stop
  <2>1. /\ up /\ up' = FALSE /\ seen' = {} /\ file' \in {file, Torn}
        /\ round' = [r \in Rounds |-> Idle] /\ trigger' = Untried
        /\ UNCHANGED <<items, released>>
    BY <1>20 DEF Stop
  <2>2. /\ cut \subseteq cut' /\ trigger.item \in cut'
        /\ \A r \in Rounds : round[r].todo \cup {round[r].cur} \subseteq cut'
    BY <1>20, StopCuts
  <2>3. \A r \in Rounds : round'[r].todo = {} /\ round'[r].cur = None /\ round'[r].pc = "off"
    BY <2>1
  <2>4. WorkType'
    BY <2>1
  <2>5. HandsApart' /\ LoopIsTaken' /\ FailedByHand' /\ ApprovalIsAsked'
    BY <2>1, <2>3
  <2>6. FileKept'
    BY <2>1, <2>2
  <2>7. PlannersKept'
    BY <2>1, <2>2
  <2> QED
    BY <2>4, <2>5, <2>6, <2>7
<1>21. CASE Restart
  BY <1>21 DEF Restart
<1>22. CASE RemoveFile
  BY <1>22 DEF RemoveFile
<1>23. CASE BranchStep \/ TaskStep
  BY <1>1, <1>23
  DEF BranchStep, RequestBranch, CloneRepo, CheckoutBase, CheckoutBranch, Complete,
      ExecutionFails, TaskStep, ExecuteTask, NoItems, GotItems, Load, LoadCached, Loaded,
      Process, Notified, TaskFails, LoadClones, LoadCloned, LoadChecksOut
<1> HIDE DEF WorkInv
<1> QED
  BY <1>1, <1>2, <1>3, <1>4, <1>5, <1>6, <1>7, <1>8, <1>9, <1>10, <1>11, <1>12, <1>13, <1>14,
     <1>15, <1>16, <1>17, <1>18, <1>19, <1>20, <1>21, <1>22, <1>23
  DEF Next, RoundStep, ItemStep, vars


-----------------------------------------------------------------------------
LEMMA BranchInit == Init => BranchInv
BY ServiceAssumption
   DEF Init, ServiceAssumption, BranchInv, BranchType, CloneKept, JobKept, RecordsKept, NoJob,
       NoClone, Reused

LEMMA BranchKept == BranchInv /\ [Next]_vars => BranchInv'
<1> SUFFICES ASSUME BranchInv, [Next]_vars PROVE BranchInv'
  OBVIOUS
<1> USE ServiceAssumption
    DEF ServiceAssumption, BranchInv, BranchType, CloneKept, JobKept, RecordsKept, NoJob, NoClone,
        Reused, Free, FromOutside, Executing, Recorded, CheckedOut, Meeting, history, branch, tasks
\* cut is added to by others, too.
<1>1. CASE UNCHANGED <<branch, load, mixed>> /\ cut \subseteq cut'
  BY <1>1
<1>2. ASSUME NEW q \in Requests, RequestBranch(q) PROVE BranchInv'
  BY <1>2 DEF RequestBranch
<1>3. CASE CloneRepo
  <2>1. /\ job.pc = "clone" /\ job.request \in Requests
        /\ clone' = [clone EXCEPT !.there = "yes", !.head = BaseOf[job.request]]
        /\ job' = [job EXCEPT !.pc = "base"]
        /\ UNCHANGED <<records, load, mixed, cut>> /\ load # "cloning"
    BY <1>3 DEF CloneRepo
  <2>2. BranchType'
    BY <2>1
  <2>3. CloneKept'
    BY <2>1
  <2>4. JobKept' /\ RecordsKept'
    BY <2>1
  <2> QED
    BY <2>2, <2>3, <2>4
<1>4. CASE CheckoutBase
  BY <1>4 DEF CheckoutBase
<1>5. CASE CheckoutBranch
  <2> DEFINE q == job.request
  <2>1. /\ job.pc = "branch" /\ q \in Requests /\ clone.there = "yes"
        /\ job' = [job EXCEPT !.pc = "done"]
        /\ UNCHANGED <<records, load, mixed, cut>> /\ load # "cloning"
    BY <1>5 DEF CheckoutBranch
  <2>2. PICK start \in {clone.head, "origin"} :
           clone' = [clone EXCEPT !.head = q, !.made[q] = IF @ = None THEN start ELSE @]
    BY <1>5 DEF CheckoutBranch
  <2>3. start \in Bases \cup Requests \cup {"origin"}
    BY <2>1, <2>2
  <2>4. clone' = [clone EXCEPT !.head = q, !.made = [clone.made EXCEPT ![q] = start]]
    BY <2>1, <2>2
  <2>5. start \in {BaseOf[q], "origin"} \/ q \in mixed
    BY <2>1, <2>2
  <2> QED
    BY <2>1, <2>3, <2>4, <2>5
<1>6. CASE Complete
  BY <1>6 DEF Complete
<1>7. CASE ExecutionFails
  BY <1>7 DEF ExecutionFails
<1>8. CASE LoadClones
  BY <1>8 DEF LoadClones
<1>9. CASE LoadCloned
  <2>1. /\ load = "cloning" /\ load' = "end" /\ mixed \subseteq mixed'
        /\ UNCHANGED <<records, job, cut>>
    BY <1>9 DEF LoadCloned
  <2>2. CASE clone' = NoClone
    BY <2>1, <2>2
  <2>3. CASE clone' = [clone EXCEPT !.there = "yes", !.head = CodeBase]
    BY <2>1, <2>3
  <2> QED
    BY <1>9, <2>2, <2>3 DEF LoadCloned
<1>10. CASE LoadChecksOut
  BY <1>10 DEF LoadChecksOut
<1>11. ASSUME NEW n \in Runs, Load(n) \/ Loaded(n) PROVE BranchInv'
  BY <1>11 DEF Load, Loaded
<1>12. CASE Stop
  <2>1. /\ job' = NoJob /\ load' = "off" /\ cut \cup {job.request} \subseteq cut'
        /\ UNCHANGED <<records, mixed>>
    BY <1>12, StopCuts DEF Stop
  <2>2. CASE clone' = clone
    BY <2>1, <2>2
  <2>3. CASE clone.there = "no" /\ clone' = [clone EXCEPT !.there = "partial"]
    BY <2>1, <2>3
  <2> QED
    BY <1>12, <2>2, <2>3 DEF Stop
<1>13. CASE \E r \in Rounds : RoundStep(r)
  BY <1>1, <1>13
  DEF RoundStep, BeginRound, FetchFails, Fetched, MarkSeen, Marked, EndRound, Take, AskPlan,
      PlanStored, PlanRefused, FailItem, RoundFails
<1>14. CASE ItemStep
  BY <1>1, <1>14
  DEF ItemStep, Webhook, TaskAction, TriggerAnalysis, TriggerPlan, TriggerPlanning,
      TriggerRefused, TriggerStored
<1>15. ASSUME NEW n \in Runs,
              ExecuteTask(n) \/ NoItems(n) \/ GotItems(n) \/ LoadCached(n) \/ Process(n)
                \/ Notified(n) \/ TaskFails(n)
       PROVE BranchInv'
  BY <1>1, <1>15 DEF ExecuteTask, NoItems, GotItems, LoadCached, Process, Notified, TaskFails
<1>16. CASE Restart \/ RemoveFile \/ UNCHANGED vars
  BY <1>1, <1>16 DEF Restart, RemoveFile, vars
<1> HIDE DEF BranchInv
<1> QED
  BY <1>2, <1>3, <1>4, <1>5, <1>6, <1>7, <1>8, <1>9, <1>10, <1>11, <1>12, <1>13, <1>14, <1>15,
     <1>16
  DEF Next, BranchStep, TaskStep

-----------------------------------------------------------------------------
LEMMA RunsInit == Init => RunsInv
BY DEF Init, RunsInv, NoRun

LEMMA RunsKept == RunsInv /\ [Next]_vars => RunsInv'
<1> SUFFICES ASSUME RunsInv, [Next]_vars PROVE RunsInv'
  OBVIOUS
<1> USE DEF RunsInv, RunStep, FinishRun, tasks
<1>1. CASE UNCHANGED runs
  BY <1>1
<1>2. ASSUME NEW n \in Runs, ExecuteTask(n) PROVE RunsInv'
  BY <1>2 DEF ExecuteTask
<1>3. ASSUME NEW n \in Runs, NoItems(n) \/ GotItems(n) PROVE RunsInv'
  BY <1>3 DEF NoItems, GotItems
<1>4. ASSUME NEW n \in Runs, Load(n) \/ LoadCached(n) \/ Loaded(n) PROVE RunsInv'
  BY <1>4 DEF Load, LoadCached, Loaded
<1>5. ASSUME NEW n \in Runs, Process(n) PROVE RunsInv'
  <2>1. PICK e \in BOOLEAN : runs' = [runs EXCEPT ![n].pc = "notify", ![n].errors = e]
    BY <1>5 DEF Process
  <2>2. runs[n].status = "running"
    BY <1>5 DEF Process
  <2>3. /\ runs'[n].status = "running" /\ runs'[n].pc = "notify"
        /\ \A k \in Runs \ {n} : runs'[k] = runs[k]
    BY <2>1, <2>2
  <2>4. runs' \in [Runs -> [status : {"none", "running", "success", "partial", "failed"},
                          pc : {"off", "fetch", "load", "loading", "process", "notify"},
                          errors : BOOLEAN]]
    BY <2>1
  <2> QED
    BY <2>2, <2>3, <2>4
<1>6. ASSUME NEW n \in Runs, Notified(n) \/ TaskFails(n) PROVE RunsInv'
  BY <1>6 DEF Notified, TaskFails, Status
<1>7. CASE Stop
  BY <1>7 DEF Stop
<1>8. CASE \E r \in Rounds : RoundStep(r)
  BY <1>1, <1>8
  DEF RoundStep, BeginRound, FetchFails, Fetched, MarkSeen, Marked, EndRound, Take, AskPlan,
      PlanStored, PlanRefused, FailItem, RoundFails
<1>9. CASE ItemStep
  BY <1>1, <1>9
  DEF ItemStep, Webhook, TaskAction, TriggerAnalysis, TriggerPlan, TriggerPlanning,
      TriggerRefused, TriggerStored
<1>10. CASE BranchStep
  BY <1>1, <1>10
  DEF BranchStep, RequestBranch, CloneRepo, CheckoutBase, CheckoutBranch, Complete, ExecutionFails
<1>11. CASE LoadClones \/ LoadCloned \/ LoadChecksOut
  BY <1>1, <1>11 DEF LoadClones, LoadCloned, LoadChecksOut
<1>12. CASE Restart \/ RemoveFile \/ UNCHANGED vars
  BY <1>1, <1>12 DEF Restart, RemoveFile, vars
<1> HIDE DEF RunsInv
<1> QED
  BY <1>2, <1>3, <1>4, <1>5, <1>6, <1>7, <1>8, <1>9, <1>10, <1>11, <1>12 DEF Next, TaskStep

-----------------------------------------------------------------------------
LEMMA Invariance == Spec => []IInv
<1>1. Init => IInv
  BY WorkInit, BranchInit, RunsInit DEF IInv
<1>2. IInv /\ [Next]_vars => IInv'
  BY WorkStep, BranchKept, RunsKept DEF IInv
<1> QED
  BY <1>1, <1>2, PTL DEF Spec

\* requires_human_approval, for any number of items and rounds: no late plan, retry
\* or request undoes that a person was asked after the plan was stored.
THEOREM ApprovalAlwaysAsked == Spec => []ApprovalIsAsked
<1>1. IInv => ApprovalIsAsked
  BY DEF IInv, WorkInv
<1> QED
  BY <1>1, Invariance, PTL

\* Whatever order rounds, people and webhooks come in, and wherever the process
\* ends: what the scheduler forgets was in hand at an end, or moved by a person.
THEOREM NothingEverForgotten == Spec => []NothingForgotten
<1>1. IInv => NothingForgotten
  BY DEF IInv, WorkInv, PlannersKept, NothingForgotten
<1> QED
  BY <1>1, Invariance, PTL

\* Execution records and runs of scheduled tasks tell what happened, although git,
\* the network and the thread that shares the clone may fail or meet anywhere.
THEOREM RecordsAlwaysTrue == Spec => []RecordsTellTruth
<1>1. IInv => RecordsTellTruth
  BY DEF IInv, BranchInv, CloneKept, RecordsKept, RunsInv, RecordsTellTruth
<1> QED
  BY <1>1, Invariance, PTL
=============================================================================
