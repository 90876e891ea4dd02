---------------------------- MODULE Requirement ----------------------------
(***************************************************************************)
(* requirement_flow.py and the commands of orchestrator.py that drive it:  *)
(* the life of one requirement run from CREATED until its approved package *)
(* is handed to the publisher (Publisher, GroupPublisher).                 *)
(*                                                                         *)
(* The "orchestrate" operation lock lets one command run at a time (see    *)
(* GroupPublisher!OneWriter), so one program counter is enough: idle means *)
(* that nobody holds the lock.  An action is one durable write of the run  *)
(* together with the reads and agent calls that lead to it.  A crash frees *)
(* the lock and leaves what was written.  Meanwhile anybody may edit the   *)
(* worktree, and restarts may change the configured verification nodes.    *)
(*                                                                         *)
(* The content of a worktree, the digest of its diff, is a member of       *)
(* Contents.  Prompts, criteria, file claims and messages are data: where  *)
(* they decide, they make a step succeed or block.                         *)
(***************************************************************************)
EXTENDS Naturals, FiniteSets

CONSTANTS Diffs,         \* contents of the worktree with changed files
          Clean,         \* the content without any change
          None,          \* no content was recorded
          Needs,         \* external checks a review may ask for
          Defer,         \* values of defer_external_verification_to_pr
          MaxAttempts,   \* config.max_coding_agent_attempts
          MaxRecords,    \* bound: verification results that count, of one run
          NoCrashAt,     \* steps at which the process does not crash
          NoEditAt       \* steps at which nobody else edits the worktree

ASSUME RequirementAssumption ==
    /\ Clean \notin Diffs
    /\ None \notin Diffs \cup {Clean}
    /\ Defer \subseteq BOOLEAN
    /\ MaxAttempts \in Nat \ {0}
    /\ MaxRecords \in Nat

VARIABLES
    run,         \* the persisted WorkflowRun
    diff,        \* content of the worktree
    nodes,       \* checks for which an enabled node and recipe are configured
    defer,       \* the configured policy for unfinished checks
    pc,          \* step of the command that holds the lock
    seen,        \* content an earlier step of the command has read
    task,        \* the check a verification node is working on
    passedOn,    \* history: contents on which the configured tests passed
    attested,    \* history: checks whose last result on a content is a pass
    heard        \* history: the newest feedback was given to the agent

world   == <<diff, nodes, defer>>
local   == <<seen, task>>      \* of a running command: forgotten when it ends
history == <<passedOn, attested, heard>>
vars    == <<run, world, pc, local, history>>

Contents == Diffs \cup {Clean}
Stages   == {"READING_ONES", "VALIDATING", "PREPARING_REPO", "IMPLEMENTING",
             "TESTING", "AI_REVIEW"}
States   == Stages \cup {"CREATED", "WAITING_APPROVAL", "PUBLISHING", "BLOCKED",
                         "CANCELLED"}
Steps    == {"idle", "unblock", "reset", "run", "read", "preflighted", "prepared",
             "coded", "repaired", "testing", "groupTesting", "tested", "analyse",
             "reviewing", "reviewed", "planned", "packaged", "withdraw", "publish",
             "revising", "feedback", "verifying"}

NoReview  == [of |-> None, open |-> FALSE, needs |-> {}]
NoPackage == [diff |-> None, of |-> None, passed |-> {}, deferred |-> {}]

(* WorkflowRun.new, and the command that goes on to execute it.             *)
Init ==
    /\ run = [state |-> "CREATED", resume |-> "CREATED", cause |-> "none",
              mapping |-> "none", preflight |-> "none", prepared |-> FALSE,
              coded |-> FALSE, tried |-> 0, passing |-> FALSE, tested |-> None,
              review |-> NoReview, plan |-> {}, records |-> {},
              approval |-> NoPackage]
    /\ diff = Clean /\ nodes \in SUBSET Needs /\ defer \in Defer
    /\ pc = "run" /\ seen = None /\ task = {}
    /\ passedOn = {} /\ attested = {} /\ heard = TRUE

Go(step) == pc' = step

\* store.transition to a stage, and to BLOCKED with a resume state and a reason.
Move(target) == [run EXCEPT !.state = target, !.resume = "CREATED", !.cause = "none"]
Block(where, why) ==
    /\ run' = [run EXCEPT !.state = "BLOCKED", !.resume = where, !.cause = why]
    /\ Go("idle")

At(step, state) == pc = step /\ run.state = state
IsGroup == run.mapping = "group"
Write == diff' \in Contents     \* the coding agent changes the worktree, or not

-----------------------------------------------------------------------------
(* Continuing from the persisted checkpoint: execute *)

\* Mistake: the review of the earlier attempt is kept.
AfterResetReviewed(state) ==
    CASE state = "IMPLEMENTING" ->
           [run EXCEPT !.coded = FALSE, !.tried = 0, !.passing = IsGroup /\ @,
                       !.tested = IF IsGroup THEN @ ELSE None, !.approval = NoPackage]
      [] OTHER -> run

\* Mistake: the implementation of the earlier attempt is kept.
AfterResetCoded(state) ==
    CASE state = "IMPLEMENTING" ->
           [run EXCEPT !.tried = 0, !.passing = IsGroup /\ @,
                       !.tested = IF IsGroup THEN @ ELSE None,
                       !.review = NoReview, !.approval = NoPackage]
      [] OTHER -> run

(* _reset_resumed_stage.  The tested snapshot and the test results of a     *)
(* group are in repository_evidence, which it leaves alone.                 *)
AfterReset(state) ==
    CASE state = "IMPLEMENTING" ->
           [run EXCEPT !.coded = FALSE, !.tried = 0, !.passing = IsGroup /\ @,
                       !.tested = IF IsGroup THEN @ ELSE None,
                       !.review = NoReview, !.approval = NoPackage]
      [] state = "TESTING" ->
           [run EXCEPT !.tried = 0, !.tested = IF IsGroup THEN @ ELSE None,
                       !.review = NoReview, !.approval = NoPackage]
      [] state = "AI_REVIEW" ->
           [run EXCEPT !.review = NoReview, !.approval = NoPackage]
      [] OTHER -> run

(* A block for an external check keeps the review it belongs to.            *)
Unblock ==
    /\ At("unblock", "BLOCKED")
    /\ run' = Move(run.resume)
    /\ Go(IF run.cause = "verification" /\ run.resume = "AI_REVIEW" THEN "run" ELSE "reset")
    /\ UNCHANGED <<world, local, history>>

Reset ==
    /\ pc = "reset"
    /\ run' = AfterReset(run.state)
    /\ Go("run")
    /\ UNCHANGED <<world, local, history>>

StartReading ==
    /\ At("run", "CREATED")
    /\ run' = Move("READING_ONES")
    /\ UNCHANGED <<world, pc, local, history>>

(* The steps at which something the stage needs may fail, while the copy    *)
(* of the run that the handlers block is the persisted one.                 *)
MayFail ==
    \/ pc = "run" /\ run.state \in Stages
    \/ pc \in {"testing", "groupTesting", "tested", "analyse", "reviewing", "reviewed", "planned"}
    \/ pc \in {"coded", "repaired"} /\ ~IsGroup

(* A source cannot be read, an agent call fails, its claims or evidence are *)
(* incomplete, a command cannot run, a snapshot fails: blocked at the stage. *)
Fail ==
    /\ MayFail
    /\ run.state = "VALIDATING" => run.mapping # "none"
    /\ Block(run.state, "other")
    /\ seen' = None
    /\ UNCHANGED <<world, task, history>>

(* Outside _FlowBlocked the handler of execute blocks the copy with which   *)
(* the stage began.  A group stage that has saved since is newer: the       *)
(* version check refuses, and the exception leaves the run where it is.     *)
Escape ==
    /\ IsGroup
    /\ pc \in {"analyse", "reviewed"}
    /\ Go("idle")
    /\ UNCHANGED <<run, world, local, history>>

-----------------------------------------------------------------------------
(* Sources, confirmation and repository *)

ReadSources ==
    /\ At("run", "READING_ONES")
    /\ run' = [run EXCEPT !.preflight = "none", !.prepared = IsGroup /\ @,
                          !.coded = FALSE, !.tried = 0, !.passing = IsGroup /\ @,
                          !.tested = IF IsGroup THEN @ ELSE None,
                          !.review = NoReview, !.approval = NoPackage]
    /\ Go("read")
    /\ UNCHANGED <<world, local, history>>

SourcesRead ==
    /\ At("read", "READING_ONES")
    /\ run' = Move("VALIDATING")
    /\ Go("run")
    /\ UNCHANGED <<world, local, history>>

(* Without a confirmed repository the command ends and waits for a person.  *)
AwaitConfirmation ==
    /\ At("run", "VALIDATING")
    /\ run.mapping = "none"
    /\ Go("idle")
    /\ UNCHANGED <<run, world, local, history>>

(* confirm_repository: a group replaces a repository, but a repository      *)
(* confirmed later leaves repository_group in place.                        *)
Confirm(kind) ==
    /\ At("idle", "VALIDATING")
    /\ run' = [run EXCEPT !.mapping = IF @ = "group" THEN "group" ELSE kind]
    /\ Go("run")
    /\ UNCHANGED <<world, local, history>>

Preflight(result) ==
    /\ At("run", "VALIDATING")
    /\ run.mapping # "none"
    /\ run.preflight = "none"
    /\ run' = [run EXCEPT !.preflight = result]
    /\ Go("preflighted")
    /\ UNCHANGED <<world, local, history>>

Validated ==
    /\ At("run", "VALIDATING") \/ At("preflighted", "VALIDATING")
    /\ run.mapping # "none"
    /\ \/ run.preflight = "clean" /\ run' = Move("PREPARING_REPO") /\ Go("run")
       \/ run.preflight = "open" /\ Block("READING_ONES", "other")
    /\ UNCHANGED <<world, local, history>>

Prepare ==
    /\ At("run", "PREPARING_REPO")
    /\ ~run.prepared
    /\ run' = [run EXCEPT !.prepared = TRUE]
    /\ Go("prepared")
    /\ UNCHANGED <<world, local, history>>

Prepared ==
    /\ At("run", "PREPARING_REPO") \/ At("prepared", "PREPARING_REPO")
    /\ run.prepared
    /\ run' = Move("IMPLEMENTING")
    /\ Go("run")
    /\ UNCHANGED <<world, local, history>>

-----------------------------------------------------------------------------
(* Implementation and tests *)

Implement ==
    /\ At("run", "IMPLEMENTING")
    /\ ~run.coded
    /\ Write
    /\ run' = [run EXCEPT !.coded = TRUE, !.tested = None, !.passing = @ /\ ~IsGroup]
    /\ heard' = TRUE
    /\ Go("coded")
    /\ UNCHANGED <<nodes, defer, local, passedOn, attested>>

(* A persisted implementation is not repeated after an interruption.        *)
Implemented ==
    /\ At("run", "IMPLEMENTING") \/ At("coded", "IMPLEMENTING")
    /\ run.coded
    /\ run' = Move("TESTING")
    /\ Go("run")
    /\ UNCHANGED <<world, local, history>>

AttemptsLeft == run.tried < MaxAttempts

Exhausted ==
    /\ At("run", "TESTING")
    /\ ~IsGroup
    /\ ~AttemptsLeft
    /\ Block("TESTING", "other")
    /\ UNCHANGED <<world, local, history>>

(* After failed tests of a single repository the agent repairs, then the    *)
(* tests run again.                                                         *)
Repair ==
    /\ At("run", "TESTING")
    /\ ~IsGroup
    /\ run.tried > 0
    /\ AttemptsLeft
    /\ Write
    /\ run' = [run EXCEPT !.tested = None]
    /\ heard' = TRUE
    /\ Go("repaired")
    /\ UNCHANGED <<nodes, defer, local, passedOn, attested>>

(* The agent call fails after it may have changed files.                    *)
AgentFails ==
    /\ \/ At("run", "IMPLEMENTING") /\ ~run.coded
       \/ At("run", "TESTING") /\ ~IsGroup /\ run.tried > 0 /\ AttemptsLeft
    /\ Write
    /\ Block(run.state, "other")
    /\ UNCHANGED <<nodes, defer, local, history>>

BeginTests ==
    /\ \/ At("repaired", "TESTING")
       \/ At("run", "TESTING") /\ (IsGroup \/ run.tried = 0)
    /\ seen' = diff
    /\ Go(IF IsGroup THEN "groupTesting" ELSE "testing")
    /\ UNCHANGED <<run, world, task, history>>

PassedOn(content) == passedOn' = IF diff = content THEN passedOn \cup {content} ELSE passedOn

AfterTests(passed) == IF passed THEN "tested" ELSE "run"

EndTests(passed) ==
    /\ At("testing", "TESTING")
    /\ run' = [run EXCEPT !.passing = passed, !.tried = @ + 1]
    /\ IF passed THEN PassedOn(seen) ELSE UNCHANGED passedOn
    /\ Go(AfterTests(passed))
    /\ seen' = None
    /\ UNCHANGED <<world, task, attested, heard>>

SnapshotTested ==
    /\ At("tested", "TESTING")
    /\ run' = [run EXCEPT !.tested = diff]
    /\ Go("analyse")
    /\ UNCHANGED <<world, local, history>>

(* _test_group: failed commands block (Fail), as does a changed snapshot.   *)
EndGroupTests ==
    /\ At("groupTesting", "TESTING")
    /\ diff = seen
    /\ run' = [run EXCEPT !.passing = TRUE, !.tested = diff]
    /\ PassedOn(seen)
    /\ Go("analyse")
    /\ seen' = None
    /\ UNCHANGED <<world, task, attested, heard>>

(* The analysis is appended to the agent results, then the stage ends.      *)
Analysed ==
    /\ At("analyse", "TESTING")
    /\ run' = Move("AI_REVIEW")
    /\ Go("run")
    /\ UNCHANGED <<world, local, history>>

-----------------------------------------------------------------------------
(* External checks: verification.py *)

\* Mistake: a result counts for every content.
CountsAnywhere(r, n) == r.need = n /\ (r.node => n \in nodes)

(* A result counts for the tested content, and a node's result only while   *)
(* the node is configured.                                                  *)
Counts(r, n) == r.need = n /\ r.on = run.tested /\ (r.node => n \in nodes)

Results(n) == {r \in run.records : Counts(r, n)}

(* The newest result that counts decides.  Of one check on one content there *)
(* are at most two: a person's and a node's.                                *)
Newest(n) == {r \in Results(n) : r.last \/ Results(n) = {r}}

Status(n) ==
    IF \E r \in Newest(n) : r.status = "passed" THEN "passed"
    ELSE IF Newest(n) # {} THEN "failed"
    ELSE IF n \in nodes THEN "ready" ELSE "waiting"

(* What the review asks for, and what was planned before.                   *)
Obligations == IF run.review = NoReview THEN {}
               ELSE run.review.needs \cup {t.need : t \in run.plan}

Tasks == {[need |-> n, on |-> run.tested, status |-> Status(n), node |-> n \in nodes] :
             n \in Obligations}

(* pr_handoff.blocking_reason: nothing failed, and unfinished checks only   *)
(* if they may be deferred to the request.                                  *)
Blocking(tasks) ==
    \/ \E t \in tasks : t.status = "failed"
    \/ ~defer /\ \E t \in tasks : t.status # "passed"

-----------------------------------------------------------------------------
(* Review and approval package *)

\* Mistake: the worktree is not compared with what was tested.
EvidenceAssumed == TRUE

EvidenceUnchanged == diff = run.tested

(* The tested snapshot is missing, or the worktree has changed since.       *)
EvidenceChanged ==
    /\ At("run", "AI_REVIEW")
    /\ ~EvidenceUnchanged
    /\ Block(IF run.tested = None /\ ~IsGroup THEN "TESTING" ELSE "AI_REVIEW", "other")
    /\ UNCHANGED <<world, local, history>>

BeginReview ==
    /\ At("run", "AI_REVIEW")
    /\ EvidenceUnchanged
    /\ run.review = NoReview
    /\ Go("reviewing")
    /\ UNCHANGED <<run, world, local, history>>

EndReview(open, needs) ==
    /\ At("reviewing", "AI_REVIEW")
    /\ EvidenceUnchanged
    /\ run' = [run EXCEPT !.review = [of |-> diff, open |-> open, needs |-> needs]]
    /\ Go("reviewed")
    /\ UNCHANGED <<world, local, history>>

(* A persisted review is used again.  The snapshot for the approval is      *)
(* compared once more before the checks are planned.                        *)
PlanChecks ==
    /\ \/ At("reviewed", "AI_REVIEW")
       \/ At("run", "AI_REVIEW") /\ EvidenceUnchanged /\ run.review # NoReview
    /\ ~run.review.open
    /\ run.passing
    /\ diff # Clean
    /\ EvidenceUnchanged
    /\ seen' = diff
    /\ run' = [run EXCEPT !.plan = Tasks]
    /\ Go("planned")
    /\ UNCHANGED <<world, task, history>>

ChecksBlock ==
    /\ At("planned", "AI_REVIEW")
    /\ Blocking(run.plan)
    /\ Block("AI_REVIEW", "verification")
    /\ seen' = None
    /\ UNCHANGED <<world, task, history>>

PlannedAs(status) == {t.need : t \in {u \in run.plan : (u.status = "passed") = status}}

Package ==
    /\ At("planned", "AI_REVIEW")
    /\ ~Blocking(run.plan)
    /\ run' = [run EXCEPT !.approval = [diff |-> seen, of |-> run.review.of,
                                        passed |-> PlannedAs(TRUE),
                                        deferred |-> PlannedAs(FALSE)]]
    /\ Go("packaged")
    /\ seen' = None
    /\ UNCHANGED <<world, task, history>>

Packaged ==
    /\ At("packaged", "AI_REVIEW")
    /\ run' = Move("WAITING_APPROVAL")
    /\ Go("idle")
    /\ UNCHANGED <<world, local, history>>

-----------------------------------------------------------------------------
(* Commands of the orchestrator *)

Resume ==
    /\ pc = "idle"
    /\ run.state \in Stages \cup {"CREATED", "BLOCKED"}
    /\ Go(IF run.state = "BLOCKED" THEN "unblock" ELSE "run")
    /\ UNCHANGED <<run, world, local, history>>

(* A block later than IMPLEMENTING is first moved back to its stage, and a  *)
(* stage is then blocked at IMPLEMENTING.                                   *)
Revise ==
    /\ At("idle", "BLOCKED")
    /\ \/ run.resume \in {"TESTING", "AI_REVIEW"} /\ run' = Move(run.resume) /\ Go("revising")
       \/ run.resume = "IMPLEMENTING" /\ Go("feedback") /\ UNCHANGED run
    /\ UNCHANGED <<world, local, history>>

BlockForRevision ==
    /\ pc = "revising" \/ At("idle", "WAITING_APPROVAL")
    /\ run' = [run EXCEPT !.state = "BLOCKED", !.resume = "IMPLEMENTING", !.cause = "other"]
    /\ Go("feedback")
    /\ UNCHANGED <<world, local, history>>

SaveFeedback ==
    /\ At("feedback", "BLOCKED")
    /\ heard' = FALSE
    /\ Go("unblock")
    /\ UNCHANGED <<run, world, local, passedOn, attested>>

(* verify: a person attests a result, or a configured node is called.       *)
MayVerify(n) ==
    /\ At("idle", "BLOCKED")
    /\ run.resume = "AI_REVIEW"
    /\ run.review # NoReview /\ ~run.review.open
    /\ run.approval = NoPackage
    /\ EvidenceUnchanged
    /\ n \in Obligations
    /\ Status(n) # "passed"

(* A later result of the same kind on the same content supersedes a record:  *)
(* the older one is never selected again and is left out.  A result of the   *)
(* other kind is no longer the last.                                        *)
SameCheck(r, n) == r.need = n /\ r.on = run.tested

Remaining(n, byNode) ==
    {[r EXCEPT !.last = @ /\ ~SameCheck(r, n)] :
        r \in {s \in run.records : ~(SameCheck(s, n) /\ s.node = byNode)}}

\* Only a failed test is handed back to the review; an error is not.
AddResult(n, byNode, result) ==
    /\ Cardinality(Remaining(n, byNode)) < MaxRecords
    /\ run' = [run EXCEPT
          !.records = Remaining(n, byNode) \cup
                {[need |-> n, on |-> run.tested, node |-> byNode, last |-> TRUE,
                  status |-> IF result = "passed" THEN "passed" ELSE "failed"]},
          !.review = IF result = "failed" THEN NoReview ELSE @]
    /\ attested' = IF result = "passed" THEN attested \cup {<<n, diff>>}
                                        ELSE attested \ {<<n, run.tested>>}
    /\ Go("unblock")

Attest(n, passed) ==
    /\ MayVerify(n)
    /\ AddResult(n, FALSE, IF passed THEN "passed" ELSE "failed")
    /\ UNCHANGED <<world, local, passedOn, heard>>

BeginVerify(n) ==
    /\ MayVerify(n)
    /\ n \in nodes
    /\ Cardinality(Remaining(n, TRUE)) < MaxRecords
    /\ run' = [run EXCEPT !.plan = {IF t.need = n THEN [t EXCEPT !.status = "running"] ELSE t :
                                       t \in Tasks}]
    /\ task' = {n}
    /\ Go("verifying")
    /\ UNCHANGED <<world, seen, history>>

(* An answer for a worktree that has changed meanwhile is an error.         *)
EndVerify(n, result) ==
    /\ At("verifying", "BLOCKED")
    /\ n \in task
    /\ result \in {"passed", "failed"} => EvidenceUnchanged
    /\ AddResult(n, TRUE, result)
    /\ task' = {}
    /\ UNCHANGED <<world, seen, passedOn, heard>>

Replan ==
    /\ At("idle", "BLOCKED")
    /\ run.cause = "verification"
    /\ run.review # NoReview /\ ~run.review.open
    /\ run' = [run EXCEPT !.review = NoReview, !.plan = {}, !.approval = NoPackage]
    /\ Go("unblock")
    /\ UNCHANGED <<world, local, history>>

(* approve: checks that changed since the package withdraw it.              *)
ChecksMoved == Blocking(Tasks) \/ Tasks # run.plan

Approve ==
    /\ At("idle", "WAITING_APPROVAL")
    /\ run.approval # NoPackage
    /\ IF ChecksMoved
       THEN run' = [run EXCEPT !.approval = NoPackage, !.plan = Tasks] /\ Go("withdraw")
       ELSE Go("publish") /\ UNCHANGED run
    /\ UNCHANGED <<world, local, history>>

Withdraw ==
    /\ At("withdraw", "WAITING_APPROVAL")
    /\ Block("AI_REVIEW", "verification")
    /\ UNCHANGED <<world, local, history>>

(* The publisher rebuilds the package; any difference refuses it.           *)
Publish ==
    /\ At("publish", "WAITING_APPROVAL")
    /\ \/ diff = run.approval.diff /\ run' = Move("PUBLISHING")
       \/ UNCHANGED run
    /\ Go("idle")
    /\ UNCHANGED <<world, local, history>>

Cancel ==
    /\ pc = "idle"
    /\ run.state # "CANCELLED"
    /\ run' = Move("CANCELLED")
    /\ UNCHANGED <<world, pc, local, history>>

-----------------------------------------------------------------------------
(* The surroundings *)

Crash ==
    /\ pc \notin NoCrashAt \cup {"idle"}
    /\ Go("idle")
    /\ seen' = None /\ task' = {}
    /\ UNCHANGED <<run, world, history>>

Edit ==
    /\ run.prepared
    /\ pc \notin NoEditAt
    /\ diff' \in Diffs \ {diff}
    /\ UNCHANGED <<run, nodes, defer, pc, local, history>>

(* A process reads its configuration when it starts.                        *)
Configure ==
    /\ pc = "idle"
    /\ nodes' \in SUBSET Needs \ {nodes}
    /\ UNCHANGED <<run, diff, defer, pc, local, history>>

Execute ==
    \/ Unblock \/ Reset \/ StartReading \/ Fail \/ Escape
    \/ ReadSources \/ SourcesRead \/ AwaitConfirmation
    \/ \E result \in {"clean", "open"} : Preflight(result)
    \/ Validated \/ Prepare \/ Prepared
    \/ Implement \/ Implemented \/ Exhausted \/ Repair \/ AgentFails
    \/ BeginTests \/ (\E passed \in BOOLEAN : EndTests(passed)) \/ SnapshotTested
    \/ EndGroupTests \/ Analysed
    \/ EvidenceChanged \/ BeginReview
    \/ \E open \in BOOLEAN, needs \in SUBSET Needs : EndReview(open, needs)
    \/ PlanChecks \/ ChecksBlock \/ Package \/ Packaged

Command ==
    \/ \E kind \in {"single", "group"} : Confirm(kind)
    \/ Resume \/ Revise \/ BlockForRevision \/ SaveFeedback
    \/ \E n \in Needs :
          \/ \E passed \in BOOLEAN : Attest(n, passed)
          \/ BeginVerify(n)
          \/ \E result \in {"passed", "failed", "error"} : EndVerify(n, result)
    \/ Replan \/ Approve \/ Withdraw \/ Publish \/ Cancel

Next == Execute \/ Command \/ Crash \/ Edit \/ Configure

Spec == Init /\ [][Next]_vars

-----------------------------------------------------------------------------
(* Properties *)

Task == [need : Needs, on : Contents \cup {None},
         status : {"passed", "failed", "ready", "waiting", "running"}, node : BOOLEAN]
Record == [need : Needs, on : Contents \cup {None}, node : BOOLEAN, last : BOOLEAN,
           status : {"passed", "failed"}]

(* Types; a run is never tried more often than configured.                  *)
TypeOK ==
    /\ run \in [state : States, resume : Stages \cup {"CREATED"},
                 cause : {"none", "verification", "other"},
                 mapping : {"none", "single", "group"}, preflight : {"none", "clean", "open"},
                 prepared : BOOLEAN, coded : BOOLEAN, tried : 0..MaxAttempts,
                 passing : BOOLEAN, tested : Contents \cup {None},
                 review : [of : Contents \cup {None}, open : BOOLEAN, needs : SUBSET Needs],
                 plan : SUBSET Task, records : SUBSET Record,
                 approval : [diff : Contents \cup {None}, of : Contents \cup {None},
                             passed : SUBSET Needs, deferred : SUBSET Needs]]
    /\ Cardinality(run.records) <= MaxRecords
    /\ diff \in Contents /\ nodes \in SUBSET Needs /\ defer \in Defer
    /\ pc \in Steps /\ seen \in Contents \cup {None} /\ task \in SUBSET Needs
    /\ passedOn \in SUBSET Contents /\ attested \in SUBSET (Needs \X Contents)
    /\ heard \in BOOLEAN

Late == {"AI_REVIEW", "WAITING_APPROVAL", "PUBLISHING"}

(* Whichever blocks, resumptions, revisions and crashes lie between, a run   *)
(* comes to its review (or to a block that resumes there) only after passing *)
(* tests, with the snapshot they were taken on.                              *)
ReviewFollowsTests ==
    run.state \in Late \/ (run.state = "BLOCKED" /\ run.resume \in Late) =>
        run.tested # None /\ run.passing

\* A package lies before a person, or before the publisher.
Offered == run.state = "PUBLISHING" \/ (run.state = "WAITING_APPROVAL" /\ pc # "withdraw")

(* A run that waits for approval has a package, of changes on which the      *)
(* configured tests have passed in exactly this content.                     *)
PackageWasTested == Offered => run.approval.diff \in passedOn \ {Clean}

(* The review a package carries was made of the content it offers: an        *)
(* implementation or a repair never inherits the review of an earlier one.   *)
PackageWasReviewed == Offered => run.approval.of = run.approval.diff

(* A revision is never lost: what is offered after it was implemented or     *)
(* repaired by an agent that was given the feedback.                         *)
FeedbackHeard == Offered => heard

(* Every check the review asked for is either passed, and then its last      *)
(* result on exactly the offered content is a pass, or openly deferred,      *)
(* which the configuration must allow.                                       *)
ChecksAccounted ==
    Offered =>
        /\ run.approval.passed \cup run.approval.deferred = Obligations
        /\ run.approval.passed \cap run.approval.deferred = {}
        /\ \A n \in run.approval.passed : <<n, run.approval.diff>> \in attested
        /\ run.approval.deferred # {} => defer

(* Only replanning drops a planned check: blocks, later reviews, revisions   *)
(* and new tests keep it.                                                    *)
ChecksSurvive ==
    [][~Replan => \A t \in run.plan : \E u \in run'.plan : u.need = t.need]_vars
=============================================================================
