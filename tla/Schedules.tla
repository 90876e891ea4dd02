----------------------------- MODULE Schedules -----------------------------
(***************************************************************************)
(* schedules.py: the workspace schedules, one SQLite store shared by every *)
(* terminal UI, and dispatch, which turns a due plan into one round: it    *)
(* leases a run, queries the candidate defects and starts a workflow for   *)
(* each that no workflow and no permanent claim covers yet.                *)
(*                                                                         *)
(* A process keeps the execution lock from the first line of dispatch to   *)
(* the last, so there is at most one dispatcher; which process it is does  *)
(* not matter, and a crash simply leaves the lock to the next one.  Editing *)
(* and deleting plans, deleting tasks and starting workflows from the      *)
(* command line do not take that lock.  One action is one transaction of   *)
(* the store, or one call of the workflow controller.                      *)
(*                                                                         *)
(* All plans are plans of one workspace: claims of two workspaces never    *)
(* meet.  Time is left to the environment: a plan becomes due, and a lease *)
(* lapses, at any moment.                                                  *)
(***************************************************************************)
EXTENDS Naturals, Sequences, FiniteSets

CONSTANTS Plans, Defects,
          NoDefect,       \* no candidate is being worked on
          Actions,        \* analyze, analyze_and_repair
          MaxCandidates,  \* plan.max_candidates, 1..3
          PauseAfter,     \* failed rounds in a row that pause a plan: 3
          Outside,        \* "start", "delete": what happens to tasks elsewhere
          MaxRounds,      \* bound: rounds ever opened
          MaxVersion      \* bound: saves of one plan

ASSUME SchedulesAssumption ==
    /\ IsFiniteSet(Defects) /\ NoDefect \notin Defects
    /\ MaxCandidates \in Nat \ {0} /\ PauseAfter \in Nat \ {0}
    /\ Outside \subseteq {"start", "delete"}
    /\ MaxRounds \in Nat /\ MaxVersion \in Nat \ {0}

VARIABLES
    plans,      \* the table schedules: the plans not deleted, by id
    rounds,     \* the tables schedule_runs and schedule_run_items
    claims,     \* the table claims: the round that owns it, 0 when there is none
    tasks,      \* defects with a workflow task in the run store
    \* The dispatcher.
    pc, todo, existing, active, reserved, discovered, skipped, started,
    \* History.
    starts,     \* <<round, defect>> for every workflow a dispatcher started
    late        \* starts of the current round after its plan was changed

store      == <<plans, rounds, claims>>
dispatcher == <<pc, todo, existing, active, reserved, discovered, skipped, started>>
history    == <<starts, late>>
vars       == <<store, tasks, dispatcher, history>>

Steps == {"idle", "claim", "scan", "loop", "check", "note", "reserve", "start",
          "record", "item", "confirm", "failed", "close"}
ItemStates  == {"none", "skipped", "reserved", "started", "failed", "needs_attention"}
RoundStates == {"running", "success", "failed", "interrupted"}

cur == Len(rounds)          \* the round the dispatcher works on
Working == pc \notin {"idle", "claim"}

Init ==
    /\ plans = [p \in {} |-> 0]
    /\ rounds = <<>>
    /\ claims = [a \in Actions |-> [d \in Defects |-> [round |-> 0, recorded |-> FALSE]]]
    /\ tasks = {}
    /\ pc = "idle" /\ todo = {} /\ existing = {} /\ active = NoDefect
    /\ reserved = FALSE /\ discovered = 0 /\ skipped = 0 /\ started = 0
    /\ starts = {} /\ late = 0

-----------------------------------------------------------------------------
(* Plans: ScheduleStore.save and delete.  A caller whose expected version   *)
(* is not the stored one is refused, so only current edits are actions.     *)

NewPlan(a, on) ==
    [version |-> 1, enabled |-> on, due |-> FALSE, failures |-> 0, action |-> a]

Create(p, a, on) ==
    /\ p \notin DOMAIN plans
    /\ \A i \in DOMAIN rounds : rounds[i].plan # p       \* ids are never reused
    /\ plans' = [q \in DOMAIN plans \cup {p} |->
                   IF q = p THEN NewPlan(a, on) ELSE plans[q]]
    /\ UNCHANGED <<rounds, claims, tasks, dispatcher, history>>

Edited(plan, a, on) ==
    [version |-> plan.version + 1, enabled |-> on, due |-> FALSE, failures |-> 0, action |-> a]

Edit(p, a, on) ==
    /\ p \in DOMAIN plans
    /\ plans[p].version < MaxVersion
    /\ plans' = [plans EXCEPT ![p] = Edited(@, a, on)]
    /\ UNCHANGED <<rounds, claims, tasks, dispatcher, history>>

Delete(p) ==
    /\ p \in DOMAIN plans
    /\ plans' = [q \in DOMAIN plans \ {p} |-> plans[q]]
    /\ UNCHANGED <<rounds, claims, tasks, dispatcher, history>>

\* Mistake: the version of the plan is not compared.
CurrentEnabled(i) == rounds[i].plan \in DOMAIN plans /\ plans[rounds[i].plan].enabled

\* store.current and the check in reserve_run_item: enabled, at the version
\* the round was opened for.
Current(i) ==
    LET p == rounds[i].plan IN
    p \in DOMAIN plans /\ plans[p].enabled /\ plans[p].version = rounds[i].version

-----------------------------------------------------------------------------
(* Time *)

BecomeDue(p) ==
    /\ p \in DOMAIN plans
    /\ plans[p].enabled /\ ~plans[p].due     \* a save of a paused plan starts over
    /\ plans' = [plans EXCEPT ![p].due = TRUE]
    /\ UNCHANGED <<rounds, claims, tasks, dispatcher, history>>

\* No heartbeat renews a lease once it has run out.
Lapse(i) ==
    /\ i \in DOMAIN rounds
    /\ rounds[i].status = "running" /\ ~rounds[i].lapsed
    /\ rounds' = [rounds EXCEPT ![i].lapsed = TRUE]
    /\ UNCHANGED <<plans, claims, tasks, dispatcher, history>>

-----------------------------------------------------------------------------
(* Opening a round *)

\* execution_gate and recover_expired_runs.
Abandoned(i) == rounds[i].status = "running" /\ rounds[i].lapsed

Recover ==
    /\ pc = "idle"
    /\ rounds' = [i \in DOMAIN rounds |->
                    IF Abandoned(i) THEN [rounds[i] EXCEPT !.status = "interrupted"] ELSE rounds[i]]
    /\ pc' = "claim"
    /\ UNCHANGED <<plans, claims, tasks, todo, existing, active, reserved,
                   discovered, skipped, started, history>>

\* create_timer_run picks a plan only when none of its rounds is running.
Due(p) ==
    /\ p \in DOMAIN plans /\ plans[p].enabled /\ plans[p].due
    /\ \A i \in DOMAIN rounds : rounds[i].plan = p => rounds[i].status # "running"

NewRound(p) ==
    [plan |-> p, version |-> plans[p].version, action |-> plans[p].action,
     status |-> "running", lapsed |-> FALSE, item |-> [d \in Defects |-> "none"]]

OpenRound(p) ==
    /\ pc = "claim"
    /\ Due(p)
    /\ Len(rounds) < MaxRounds
    /\ rounds' = Append(rounds, NewRound(p))
    /\ plans' = [plans EXCEPT ![p].due = FALSE]
    /\ pc' = "scan"
    /\ todo' = {} /\ existing' = {} /\ active' = NoDefect /\ reserved' = FALSE
    /\ discovered' = 0 /\ skipped' = 0 /\ started' = 0 /\ late' = 0
    /\ UNCHANGED <<claims, tasks, starts>>

NothingDue ==
    /\ pc = "claim"
    /\ Len(rounds) = MaxRounds \/ \A p \in Plans : ~Due(p)
    /\ pc' = "idle"
    /\ UNCHANGED <<store, tasks, todo, existing, active, reserved, discovered,
                   skipped, started, history>>

-----------------------------------------------------------------------------
(* The round *)

\* _owned_running_run: every write of the dispatcher needs a live lease.
Owned == rounds[cur].status = "running" /\ ~rounds[cur].lapsed

Go(step) == pc' = step
Locals   == <<todo, existing, active, reserved, discovered, skipped, started>>

\* The heartbeat, the tasks that exist already, then the candidates of ONES.
Scan(found) ==
    /\ pc = "scan"
    /\ Owned
    /\ existing' = tasks \cap found
    /\ todo' = found /\ discovered' = Cardinality(found)
    /\ Go("loop")
    /\ UNCHANGED <<store, tasks, active, reserved, skipped, started, history>>

Choose(d) ==
    /\ pc = "loop"
    /\ d \in todo
    /\ todo' = todo \ {d} /\ active' = d /\ reserved' = FALSE
    /\ Go("check")
    /\ UNCHANGED <<store, tasks, existing, discovered, skipped, started, history>>

\* A candidate is passed over because it has a task, the round is full, the
\* plan was changed or the interface closed, or ONES no longer lists it.
Skip ==
    /\ pc = "check"
    /\ skipped' = skipped + 1
    /\ Go("note")
    /\ UNCHANGED <<store, tasks, todo, existing, active, reserved, discovered,
                   started, history>>

NoteSkipped ==
    /\ pc = "note"
    /\ Owned
    /\ rounds' = [rounds EXCEPT ![cur].item[active] = "skipped"]
    /\ active' = NoDefect
    /\ Go("loop")
    /\ UNCHANGED <<plans, claims, tasks, todo, existing, reserved, discovered,
                   skipped, started, history>>

Full == started >= MaxCandidates

\* ... and otherwise goes on, after a heartbeat and a fresh query.
Consider ==
    /\ pc = "check"
    /\ active \notin existing /\ ~Full /\ Current(cur) /\ Owned
    /\ Go("reserve")
    /\ UNCHANGED <<store, tasks, Locals, history>>

\* reserve_run_item: the permanent claim and its ledger item, in one
\* transaction that looks at the plan once more.
Claimable(a, d) == claims[a][d].round = 0

\* Mistake: the insert that found a claim is not noticed.
ReserveUnnoticed ==
    /\ pc = "reserve"
    /\ Owned
    /\ LET a == rounds[cur].action IN
       IF Current(cur)
       THEN /\ claims' = IF Claimable(a, active)
                         THEN [claims EXCEPT ![a][active].round = cur] ELSE claims
            /\ rounds' = [rounds EXCEPT ![cur].item[active] = "reserved"]
            /\ reserved' = TRUE /\ skipped' = skipped
            /\ Go("start")
       ELSE /\ UNCHANGED <<claims, rounds, reserved>>
            /\ skipped' = skipped + 1
            /\ Go("note")
    /\ UNCHANGED <<plans, tasks, todo, existing, active, discovered, started, history>>

Reserve ==
    /\ pc = "reserve"
    /\ Owned
    /\ LET a == rounds[cur].action IN
       IF Current(cur) /\ Claimable(a, active)
       THEN /\ claims' = [claims EXCEPT ![a][active].round = cur]
            /\ rounds' = [rounds EXCEPT ![cur].item[active] = "reserved"]
            /\ reserved' = TRUE /\ skipped' = skipped
            /\ Go("start")
       ELSE /\ UNCHANGED <<claims, rounds, reserved>>
            /\ skipped' = skipped + 1
            /\ Go("note")
    /\ UNCHANGED <<plans, tasks, todo, existing, active, discovered, started, history>>

\* A plan is edited, paused or resumed with a new version, or deleted.
Touched(i) ==
    rounds[i].plan \notin DOMAIN plans \/ plans[rounds[i].plan].version # rounds[i].version

\* controller.analyze_defect or start_defect: the task is created before the
\* workflow executes, so a call that raises may have created it.
Start(replied) ==
    /\ pc = "start"
    /\ tasks' = tasks \cup {active}
    /\ starts' = starts \cup {<<cur, active>>}
    /\ late' = IF Touched(cur) THEN late + 1 ELSE late
    /\ Go(IF replied THEN "record" ELSE "failed")
    /\ UNCHANGED <<store, Locals>>

\* record_run: the claim of this round gets the id of the workflow.
Record ==
    /\ pc = "record"
    /\ claims' = [claims EXCEPT ![rounds[cur].action][active].recorded =
                    @ \/ claims[rounds[cur].action][active].round = cur]
    /\ Go("item")
    /\ UNCHANGED <<plans, rounds, tasks, Locals, history>>

NoteStarted ==
    /\ pc = "item"
    /\ Owned
    /\ rounds' = [rounds EXCEPT ![cur].item[active] = "started"]
    /\ Go("confirm")
    /\ UNCHANGED <<plans, claims, tasks, Locals, history>>

\* The workspace is among the candidate mappings: confirm_repository.
Confirm ==
    /\ pc = "confirm"
    /\ started' = started + 1
    /\ active' = NoDefect /\ reserved' = FALSE
    /\ Go("loop")
    /\ UNCHANGED <<store, tasks, todo, existing, discovered, skipped, history>>

-----------------------------------------------------------------------------
(* Closing the round *)

\* finish_run: the plan hears of the outcome unless it was changed meanwhile,
\* and is paused after PauseAfter failures in a row.
Settled(plan, failed) ==
    LET n == IF failed THEN plan.failures + 1 ELSE 0 IN
    [plan EXCEPT !.failures = n, !.enabled = @ /\ n < PauseAfter]

FinishRun(failed) ==
    LET p == rounds[cur].plan IN
    /\ Owned
    /\ rounds' = [rounds EXCEPT ![cur].lapsed = TRUE,
                                 ![cur].status = IF failed THEN "failed" ELSE "success"]
    /\ plans' = IF p \in DOMAIN plans /\ plans[p].version = rounds[cur].version
                THEN [plans EXCEPT ![p] = Settled(@, failed)] ELSE plans

\* The dispatcher returns or raises; either way the lock is released.
Leave ==
    /\ Go("idle")
    /\ todo' = {} /\ existing' = {} /\ active' = NoDefect /\ reserved' = FALSE
    /\ discovered' = 0 /\ skipped' = 0 /\ started' = 0 /\ late' = 0

Succeed ==
    /\ pc = "loop" /\ todo = {}
    /\ skipped + started <= discovered
    /\ FinishRun(FALSE)
    /\ Leave
    /\ UNCHANGED <<claims, tasks, starts>>

\* Any exception of the round leads to the handler, which never loops.
Fail ==
    /\ Working /\ pc \notin {"failed", "close"}
    /\ Go("failed")
    /\ UNCHANGED <<store, tasks, Locals, history>>

\* Mistake: an interrupted start looks like an ordinary failure.
VerdictFailed == "failed"

\* A candidate the round had reserved needs attention: it may have a workflow.
Verdict == IF reserved THEN "needs_attention" ELSE "failed"

NoteFailed ==
    /\ pc = "failed"
    /\ \/ active = NoDefect /\ rounds' = rounds
       \/ active # NoDefect /\ Owned
          /\ rounds' = [rounds EXCEPT ![cur].item[active] = Verdict]
    /\ Go("close")
    /\ UNCHANGED <<plans, claims, tasks, Locals, history>>

\* failed_count is 1 when a candidate was being worked on; finish_run refuses
\* counts that add up to more than was discovered.
FailedCount == IF active = NoDefect THEN 0 ELSE 1
CountsAgree == skipped + started + FailedCount
                 <= IF discovered < FailedCount THEN FailedCount ELSE discovered

CloseFailed ==
    /\ pc = "close"
    /\ CountsAgree
    /\ FinishRun(TRUE)
    /\ Leave
    /\ UNCHANGED <<claims, tasks, starts>>

\* A second exception, in the handler, leaves dispatch with the round running.
Abandon ==
    /\ \/ pc = "failed" /\ active # NoDefect /\ ~Owned
       \/ pc = "close" /\ ~(Owned /\ CountsAgree)
    /\ Leave
    /\ UNCHANGED <<store, tasks, starts>>

Crash ==
    /\ pc # "idle"
    /\ Leave
    /\ UNCHANGED <<store, tasks, starts>>

-----------------------------------------------------------------------------
(* Everyone else: the command line starts a workflow, a user deletes a task *)

StartElsewhere(d) ==
    /\ "start" \in Outside
    /\ tasks' = tasks \cup {d}
    /\ UNCHANGED <<store, dispatcher, history>>

DeleteTask(d) ==
    /\ "delete" \in Outside
    /\ d \in tasks
    /\ tasks' = tasks \ {d}
    /\ UNCHANGED <<store, dispatcher, history>>

-----------------------------------------------------------------------------
Dispatch ==
    \/ Recover \/ NothingDue
    \/ \E p \in Plans : OpenRound(p)
    \/ \E found \in SUBSET Defects : Scan(found)
    \/ \E d \in Defects : Choose(d)
    \/ Skip \/ NoteSkipped \/ Consider \/ Reserve
    \/ \E replied \in BOOLEAN : Start(replied)
    \/ Record \/ NoteStarted \/ Confirm
    \/ Succeed \/ Fail \/ NoteFailed \/ CloseFailed \/ Abandon

Users ==
    \/ \E p \in Plans, a \in Actions, on \in BOOLEAN : Create(p, a, on) \/ Edit(p, a, on)
    \/ \E p \in Plans : Delete(p)
    \/ \E d \in Defects : StartElsewhere(d) \/ DeleteTask(d)

Time == (\E p \in Plans : BecomeDue(p)) \/ (\E i \in 1..MaxRounds : Lapse(i))

Next == Dispatch \/ Crash \/ Users \/ Time

Spec == Init /\ [][Next]_vars

-----------------------------------------------------------------------------
(* Properties *)

\* Every variable holds a value of its type, and a round never counts a
\* candidate twice while it goes well.
TypeOK ==
    /\ DOMAIN plans \subseteq Plans
    /\ \A p \in DOMAIN plans :
          plans[p] \in [version : 1..MaxVersion, enabled : BOOLEAN, due : BOOLEAN,
                        failures : Nat, action : Actions]
    /\ Len(rounds) <= MaxRounds
    /\ \A i \in DOMAIN rounds :
          rounds[i] \in [plan : Plans, version : 1..MaxVersion, action : Actions,
                         status : RoundStates, lapsed : BOOLEAN,
                         item : [Defects -> ItemStates]]
    /\ claims \in [Actions -> [Defects -> [round : 0..MaxRounds, recorded : BOOLEAN]]]
    /\ tasks \subseteq Defects /\ pc \in Steps
    /\ todo \subseteq Defects /\ existing \subseteq Defects
    /\ active \in Defects \cup {NoDefect} /\ reserved \in BOOLEAN
    /\ discovered \in Nat /\ skipped \in Nat /\ started \in Nat
    /\ skipped + started <= discovered
    /\ starts \subseteq (1..MaxRounds) \X Defects
    /\ late \in Nat

\* Whatever rounds crash, lapse, overlap with edits or belong to other plans,
\* the scheduler starts a defect at most once for each action: claims are
\* permanent and are taken before the start (reserve_run_item).
StartedOnce ==
    \A s, t \in starts :
       s[2] = t[2] /\ rounds[s[1]].action = rounds[t[1]].action => s = t

\* Ledger and claims tell the same story after every crash: a claim always has
\* an item in its round that asks to be looked at or says it was started, and
\* every started workflow has its claim.
LedgerExplainsClaims ==
    /\ \A a \in Actions, d \in Defects :
          LET c == claims[a][d] IN
          c.round > 0 => /\ rounds[c.round].action = a
                         /\ rounds[c.round].item[d] \in {"reserved", "started", "needs_attention"}
                         /\ c.recorded => <<c.round, d>> \in starts
    /\ \A s \in starts : claims[rounds[s[1]].action][s[2]].round = s[1]
    /\ \A i \in DOMAIN rounds, d \in Defects :
          rounds[i].item[d] = "started" => claims[rounds[i].action][d].recorded

\* Once a plan is edited, paused or deleted, its running round starts at most
\* the one workflow it was about to start (the two calls of store.current and
\* the check in reserve_run_item).
StopsAfterChange == late <= 1

=============================================================================
