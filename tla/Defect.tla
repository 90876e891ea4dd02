------------------------------- MODULE Defect -------------------------------
(***************************************************************************)
(* defect_flow.py and the commands of orchestrator.py that drive it: one   *)
(* defect run from CREATED through analysis, a reproduction that must fail *)
(* first, repair, tests and review until its package is approved, or until *)
(* it ends as an analysis or as a verification without a repair.           *)
(*                                                                         *)
(* Commands hold the "orchestrate" operation lock, but the decision about  *)
(* a completed analysis holds "analysis-decision": two commands can be in  *)
(* one run, each with the copy it has loaded.  A save of one makes the     *)
(* copy of the other stale, and the version check then refuses its saves;  *)
(* what its agent writes into the worktree is not refused.                 *)
(*                                                                         *)
(* An action is one durable write of the run with the reads and agent      *)
(* calls that lead to it.  A worktree has the content of the file that     *)
(* reproduces the defect, of everything else, and the commit it is based   *)
(* on.  External checks, file claims and scopes are data: where they       *)
(* decide, a step succeeds or blocks (see Requirement for the checks).     *)
(***************************************************************************)
EXTENDS Naturals, FiniteSets

CONSTANTS Tests,         \* contents of the reproduction file
          NoTest,        \* the reproduction file has not been written
          Edits,         \* contents of the other files, with changes
          Base,          \* ... without any change
          Marked,        \* ... with the conflict markers of a migration
          None,          \* no content was recorded
          Kinds,         \* what may be confirmed: "single", "group"
          Actions,       \* what a run is started for: "analyze", "repair"
          Defer,         \* values of defer_external_verification_to_pr
          MaxAttempts,   \* config.max_coding_agent_attempts
          MaxRefreshes,  \* config.max_baseline_refreshes
          MaxAnalyses,   \* bound: analyses of one run that are told apart
          OverlapAt,     \* bound: steps of a command at which another starts
          NoCrashAt,     \* steps at which the process does not crash
          NoFailAt,      \* steps at which nothing the stage needs fails
          NoEditAt       \* steps at which nobody else edits the worktree

ASSUME DefectAssumption ==
    /\ Kinds \subseteq {"single", "group"} /\ Actions \subseteq {"analyze", "repair"}
    /\ Defer \subseteq BOOLEAN
    /\ MaxAttempts \in Nat /\ MaxRefreshes \in Nat /\ MaxAnalyses \in Nat
    /\ NoTest \notin Tests /\ Base \notin Edits /\ Marked \notin Edits \cup {Base}

VARIABLES
    run,         \* the persisted WorkflowRun
    diff,        \* content of the worktree
    moved,       \* the remote base branch is ahead of the run's base
    defer,       \* the configured policy for unfinished checks
    pc,          \* step of the command that holds each lock
    stale,       \* somebody else has saved the run since it was loaded
    seen,        \* content an earlier step of the command has read
    analyses,    \* history: root cause analyses so far
    failing,     \* history: reproductions that have been seen failing
    passedOn,    \* history: the last content on which all commands passed
    decided      \* history: the analysis a person accepted, 0 for none

world   == <<diff, moved, defer>>
history == <<analyses, failing, passedOn, decided>>
vars    == <<run, world, pc, stale, seen, history>>

Locks    == {"orchestrate", "decision"}
Contents == [base : 0..MaxRefreshes, test : Tests \cup {NoTest}, rest : Edits \cup {Base, Marked}]
Stages   == {"READING_ONES", "VALIDATING", "PREPARING_REPO", "IMPLEMENTING",
             "TESTING", "AI_REVIEW"}
States   == Stages \cup {"CREATED", "WAITING_APPROVAL", "PUBLISHING", "BLOCKED",
                         "COMPLETED", "CANCELLED", "FAILED"}
Steps    == {"idle", "unblock", "reset", "run", "analysed", "reproducing", "prefail",
             "checked", "repairing", "implemented", "testing", "passed", "failed",
             "changed", "final", "retry", "reviewing", "reviewed", "queued", "attempted",
             "refresh", "transferring", "failedTransfer", "migrated", "swap",
             "packaged", "withdraw", "publish", "revising", "feedback"}

Clean     == [base |-> 0, test |-> NoTest, rest |-> Base]
NoReview  == [of |-> None, result |-> "none"]
NoPackage == [diff |-> None, of |-> None]

Init ==
    /\ \E a \in Actions : run =
         [state |-> "CREATED", resume |-> "CREATED", cause |-> "none", interrupted |-> FALSE,
          mapping |-> "none", prepared |-> FALSE, action |-> a, accepted |-> FALSE,
          results |-> 0, root |-> 0, checkpoint |-> "none", frozen |-> NoTest,
          prefix |-> None, prefail |-> "none", tries |-> 0, tests |-> "none",
          tested |-> None, listed |-> FALSE, review |-> NoReview, approval |-> NoPackage,
          feedback |-> "none", since |-> 0, ever |-> FALSE, fingerprint |-> None,
          verifyOnly |-> FALSE, refreshes |-> 0, preparing |-> FALSE, conflicts |-> FALSE]
    /\ diff = Clean /\ moved = FALSE /\ defer \in Defer
    /\ pc = [l \in Locks |-> IF l = "orchestrate" THEN "run" ELSE "idle"]
    /\ stale = [l \in Locks |-> FALSE] /\ seen = [l \in Locks |-> None]
    /\ analyses = 0 /\ failing = {} /\ passedOn = None /\ decided = 0

-----------------------------------------------------------------------------
(* Saving a run *)

Fresh(l) == ~stale[l]

Goto(l, step) == pc' = [pc EXCEPT ![l] = step]
Forget(l)     == seen' = [seen EXCEPT ![l] = None]

\* _save: the copies that others have loaded become stale.
Save(l, new, step) ==
    /\ Fresh(l)
    /\ run' = new
    /\ stale' = [k \in Locks |-> k # l /\ pc[k] # "idle"]
    /\ Goto(l, step)

(* The version check refuses; the command ends.                             *)
Refused(l) ==
    /\ stale[l]
    /\ stale' = [stale EXCEPT ![l] = FALSE]
    /\ Goto(l, "idle") /\ Forget(l)
    /\ UNCHANGED <<run, world, history>>

\* _transition to a stage; _block with a resume state and a reason.
To(r, target) == [r EXCEPT !.state = target, !.resume = "CREATED", !.cause = "none",
                           !.interrupted = FALSE]
Stop(r, where, why) == [r EXCEPT !.state = "BLOCKED", !.resume = where, !.cause = why,
                                 !.interrupted = FALSE]

Block(l, where, why) == Save(l, Stop(run, where, why), "idle") /\ Forget(l)

At(l, step, state) == pc[l] = step /\ run.state = state
Group == run.mapping = "group"

(* The steps at which a tool, an agent or a check may fail.                 *)
MayFail(l) ==
    \/ pc[l] = "run" /\ run.state \in Stages
    \/ pc[l] \in {"prefail", "checked", "reproducing", "repairing", "testing",
                  "passed", "reviewing", "reviewed"}

(* The last handlers of execute load the LATEST run and block it where it   *)
(* is, also when this command's own copy is stale.  A few reasons keep the  *)
(* review for the resumption, a malformed answer lets a finished repair be  *)
(* recovered.  A run that has come to its end cannot be blocked.            *)
Fail(l, why) ==
    /\ MayFail(l)
    /\ pc[l] \notin NoFailAt
    /\ why = "kept" => run.state = "AI_REVIEW"
    /\ why = "interrupted" => pc[l] = "repairing"
    /\ run' = IF run.state \in {"BLOCKED", "COMPLETED", "CANCELLED", "FAILED"} THEN run
              ELSE Stop(run, IF run.state \in Stages THEN run.state ELSE "READING_ONES", why)
    /\ stale' = [k \in Locks |-> k # l /\ (stale[k] \/ (pc[k] # "idle" /\ run' # run))]
    /\ Goto(l, "idle") /\ Forget(l)
    /\ UNCHANGED <<world, history>>

-----------------------------------------------------------------------------
(* Continuing from the persisted checkpoint: execute *)

(* The review that met the limit is queued behind the person's direction.   *)
CarryReview(l) ==
    /\ At(l, "unblock", "BLOCKED")
    /\ run.resume = "IMPLEMENTING"
    /\ run.review.result = "open" /\ run.ever /\ run.since = 0 /\ run.feedback = "human"
    /\ Save(l, [run EXCEPT !.feedback = "review", !.approval = NoPackage], "unblock")
    /\ UNCHANGED <<world, seen, history>>

KeepsReview == run.resume = "AI_REVIEW" /\ run.review # NoReview
                  /\ run.cause \in {"kept", "verification"}

(* The last two events of the history tell _recover_interrupted_*_repair    *)
(* that this resumption follows an agent call with a malformed end.         *)
Unblock(l) ==
    /\ At(l, "unblock", "BLOCKED")
    /\ ~(run.resume = "IMPLEMENTING" /\ run.review.result = "open" /\ run.ever
            /\ run.since = 0 /\ run.feedback = "human")
    /\ Save(l, [To(run, run.resume) EXCEPT
                   !.interrupted = run.cause = "interrupted" /\ run.resume = "IMPLEMENTING"],
            IF KeepsReview THEN "run" ELSE "reset")
    /\ UNCHANGED <<world, seen, history>>

(* _valid_review_repair_checkpoint *)
ReviewedCheckpoint ==
    /\ run.results >= IF run.verifyOnly THEN 2 ELSE 3
    /\ run.root # 0 /\ run.frozen # NoTest /\ run.checkpoint = "final"
    /\ run.tests = "passed"
    /\ diff = run.tested /\ diff.test = run.frozen

(* _valid_revision_checkpoint *)
RevisionCheckpoint ==
    /\ run.results >= 2 /\ run.root # 0
    /\ run.prefix # None /\ run.prefail = "failed"
    /\ run.prefix.base = diff.base
    /\ run.frozen # NoTest /\ diff.test = run.frozen

RepairAgain(r) == [r EXCEPT !.results = 2, !.tries = 1, !.review = NoReview,
                            !.approval = NoPackage, !.checkpoint = "failed"]

(* Without a checkpoint the analysis starts again; the evidence of a group  *)
(* is in repository_evidence, which is left alone.                          *)
Anew(r) == [r EXCEPT !.results = 0, !.root = 0, !.checkpoint = "none", !.frozen = NoTest,
                     !.prefix = None, !.prefail = "none", !.tries = 0,
                     !.tests = IF Group THEN @ ELSE "none",
                     !.tested = IF Group THEN @ ELSE None,
                     !.review = NoReview, !.approval = NoPackage]

(* _reset_resumed_stage at IMPLEMENTING *)
ResetImplementing(l) ==
    LET revised == run.feedback # "none"
        queued  == run.feedback = "review" /\ run.review.result = "open"
                      /\ (run.results > 2 \/ run.verifyOnly)
    IN  /\ At(l, "reset", "IMPLEMENTING")
        /\ \/ queued /\ ReviewedCheckpoint /\ Save(l, RepairAgain(run), "run")
           \/ queued /\ ~ReviewedCheckpoint /\ Save(l, To(run, "FAILED"), "idle")
           \/ /\ ~queued /\ revised /\ run.checkpoint = "failed" /\ run.results > 2
              /\ Save(l, [run EXCEPT !.results = 2, !.review = NoReview,
                                     !.approval = NoPackage], "run")
           \/ /\ ~queued /\ revised /\ run.checkpoint \in {"applied", "final"}
              /\ IF RevisionCheckpoint THEN Save(l, RepairAgain(run), "run")
                 ELSE Save(l, Stop(run, "IMPLEMENTING", "other"), "idle")
           \/ /\ ~queued /\ run.checkpoint \in {"root", "prepared", "failed"}
              /\ ~(revised /\ run.checkpoint = "failed" /\ run.results > 2)
              /\ Goto(l, "run") /\ UNCHANGED <<run, stale>>
           \/ /\ ~queued
              /\ run.checkpoint = "none" \/ (~revised /\ run.checkpoint \in {"applied", "final"})
              /\ Save(l, Anew(run), "run")
        /\ UNCHANGED <<world, seen, history>>

(* ... and at the other stages *)
ResetLate(l) ==
    /\ pc[l] = "reset" /\ run.state \in Stages \ {"IMPLEMENTING"}
    /\ \/ /\ run.state = "TESTING"
          /\ Save(l, [run EXCEPT !.tests = IF Group THEN @ ELSE "none",
                                 !.tested = IF Group THEN @ ELSE None,
                                 !.review = NoReview, !.approval = NoPackage], "run")
       \/ /\ run.state = "AI_REVIEW"
          /\ Save(l, [run EXCEPT !.review = NoReview, !.approval = NoPackage], "run")
       \/ /\ run.state \notin {"TESTING", "AI_REVIEW"}
          /\ Goto(l, "run") /\ UNCHANGED <<run, stale>>
    /\ UNCHANGED <<world, seen, history>>

-----------------------------------------------------------------------------
(* Sources, confirmation and repository *)

StartReading(l) ==
    /\ At(l, "run", "CREATED")
    /\ Save(l, To(run, "READING_ONES"), "run")
    /\ UNCHANGED <<world, seen, history>>

(* _read_selected starts the evidence again; revisions stay, and so does    *)
(* repository_evidence, with the worktrees, of a group.                     *)
ReadSelected(l) ==
    /\ At(l, "run", "READING_ONES")
    /\ Save(l, [Anew(run) EXCEPT !.prepared = Group /\ @, !.verifyOnly = FALSE,
                                 !.since = 0, !.ever = FALSE, !.fingerprint = None], "checked")
    /\ UNCHANGED <<world, seen, history>>

Read(l) ==
    /\ At(l, "checked", "READING_ONES")
    /\ Save(l, To(run, "VALIDATING"), "run")
    /\ UNCHANGED <<world, seen, history>>

(* Without a confirmed repository the command ends and waits for a person.  *)
ValidateMapping(l) ==
    /\ At(l, "run", "VALIDATING")
    /\ IF run.mapping = "none" THEN Goto(l, "idle") /\ UNCHANGED <<run, stale>>
       ELSE Save(l, To(run, "PREPARING_REPO"), "run")
    /\ UNCHANGED <<world, seen, history>>

(* confirm_repository: a group is never replaced by a repository.           *)
Confirm(kind) ==
    /\ At("orchestrate", "idle", "VALIDATING")
    /\ Save("orchestrate", [run EXCEPT !.mapping = IF @ = "group" THEN @ ELSE kind], "run")
    /\ UNCHANGED <<world, seen, history>>

(* The worktree is created, or an interrupted creation is recovered.        *)
Prepare(l) ==
    /\ At(l, "run", "PREPARING_REPO")
    /\ IF run.prepared THEN Save(l, To(run, "IMPLEMENTING"), "run")
       ELSE Save(l, [run EXCEPT !.prepared = TRUE], "run")
    /\ UNCHANGED <<world, seen, history>>

-----------------------------------------------------------------------------
(* Root cause, reproduction and repair: _analyze_reproduce_and_fix(_group) *)

\* Mistake: the checkout is analysed as it is.
AnyCheckout == TRUE

CleanCheckout == diff.test = NoTest /\ diff.rest = Base

(* The agent reads only.  An analysis without evidence is kept and blocks.  *)
Analyse(l, grounded) ==
    /\ At(l, "run", "IMPLEMENTING")
    /\ run.results = 0
    /\ CleanCheckout
    /\ analyses' = IF analyses < MaxAnalyses THEN analyses + 1 ELSE analyses
    /\ IF grounded
       THEN Save(l, [run EXCEPT !.results = 1, !.root = analyses', !.checkpoint = "root"],
                 "analysed")
       ELSE Save(l, [run EXCEPT !.results = 1], "changed")
    /\ UNCHANGED <<world, seen, failing, passedOn, decided>>

(* An edited worktree cannot be analysed.                                   *)
NotClean(l) ==
    /\ At(l, "run", "IMPLEMENTING")
    /\ run.results = 0
    /\ ~CleanCheckout
    /\ Block(l, "IMPLEMENTING", "other")
    /\ UNCHANGED <<world, history>>

Analysed(l) ==
    /\ At(l, "analysed", "IMPLEMENTING")
    /\ IF run.action = "analyze" THEN Save(l, To(run, "COMPLETED"), "idle")
       ELSE Goto(l, "run") /\ UNCHANGED <<run, stale>>
    /\ UNCHANGED <<world, seen, history>>

AttemptsLeft == run.tries < MaxAttempts

BeginReproduction(l) ==
    /\ At(l, "run", "IMPLEMENTING")
    /\ run.results = 1 /\ run.root # 0
    /\ Group \/ AttemptsLeft
    /\ Goto(l, "reproducing")
    /\ UNCHANGED <<run, world, stale, seen, history>>

(* The agent may only write tests; anything else that changed blocks.       *)
EndReproduction(l, test) ==
    /\ At(l, "reproducing", "IMPLEMENTING")
    /\ diff' = [diff EXCEPT !.test = test]
    /\ IF diff.rest = Base
       THEN Save(l, [run EXCEPT !.results = 2, !.tries = @ + 1, !.checkpoint = "prepared",
                                !.listed = FALSE, !.tested = IF Group THEN None ELSE @,
                                !.tests = IF Group THEN "none" ELSE @], "prefail")
       ELSE Save(l, Stop(run, "IMPLEMENTING", "other"), "idle")
    /\ UNCHANGED <<moved, defer, seen, history>>

(* _persist(_group)_prefail: the reproduction runs before any repair, and   *)
(* its content is frozen.                                                   *)
Prefail(l, outcome, step) ==
    /\ Save(l, [run EXCEPT !.prefix = diff, !.prefail = outcome, !.frozen = diff.test,
                           !.checkpoint = IF outcome = "failed" THEN "failed" ELSE "prepared"],
            step)
    /\ failing' = IF outcome = "failed" THEN failing \cup {diff.test} ELSE failing
    /\ UNCHANGED <<world, seen, analyses, passedOn, decided>>

PersistPrefail(l, outcome) ==
    /\ At(l, "prefail", "IMPLEMENTING")
    /\ Prefail(l, outcome, "run")

(* _can_verify_without_repair *)
MayVerifyOnly ==
    /\ run.feedback = "none" /\ run.results = 2 /\ run.root # 0
    /\ run.prefail = "passed" /\ run.prefix = diff
    /\ diff.rest = Base
    /\ run.frozen # NoTest /\ diff.test = run.frozen

(* The interrupted check of a single repository is taken again.             *)
PersistPrefailAgain(l, outcome) ==
    /\ At(l, "run", "IMPLEMENTING")
    /\ run.results = 2 /\ ~Group /\ ~MayVerifyOnly
    /\ run.checkpoint = "prepared"
    /\ Prefail(l, outcome, "checked")

BeginVerifyOnly(l) ==
    /\ pc[l] \in {"run", "checked"} /\ run.state = "IMPLEMENTING"
    /\ MayVerifyOnly
    /\ Save(l, [run EXCEPT !.verifyOnly = TRUE, !.review = NoReview, !.approval = NoPackage],
            "implemented")
    /\ UNCHANGED <<world, seen, history>>

\* The results are two, and what may be done about it first is done.
AtRepair(l) ==
    /\ run.state = "IMPLEMENTING" /\ run.results = 2 /\ ~MayVerifyOnly
    /\ pc[l] = "checked" \/ (pc[l] = "run" /\ (Group \/ run.checkpoint # "prepared"))

ReproductionFrozen == run.frozen # NoTest /\ diff.test = run.frozen

RepairRefused(l) ==
    /\ AtRepair(l)
    /\ ~(run.checkpoint \in {"prepared", "failed"} /\ ReproductionFrozen /\ AttemptsLeft)
    /\ Block(l, "IMPLEMENTING",
             IF run.checkpoint \in {"prepared", "failed"} /\ ReproductionFrozen
             THEN "other" ELSE "interrupted")
    /\ UNCHANGED <<world, history>>

RepairAllowed(l) ==
    /\ AtRepair(l)
    /\ run.checkpoint \in {"prepared", "failed"} /\ ReproductionFrozen /\ AttemptsLeft

(* _recover_interrupted_(single|group)_repair: the edits of an agent whose  *)
(* last answer was malformed are taken as its repair.                       *)
Recoverable ==
    /\ run.interrupted /\ run.root # 0
    /\ diff.rest # Base
    /\ IF Group THEN ~run.listed \/ (run.tested # None /\ diff.rest # run.tested.rest)
       ELSE /\ run.prefix # None /\ diff # run.prefix
            /\ IF run.tested # None THEN diff.rest # run.tested.rest
               ELSE run.feedback = "none" /\ run.prefix.rest = Base

Repaired(r) == [r EXCEPT !.results = 3, !.tries = @ + 1, !.checkpoint = "applied",
                         !.listed = Group /\ diff'.rest # Base,
                         !.tested = IF Group THEN None ELSE @,
                         !.tests = IF Group THEN "none" ELSE @]

RecoverRepair(l) ==
    /\ RepairAllowed(l)
    /\ Recoverable
    /\ UNCHANGED <<world, seen, history>>
    /\ Save(l, Repaired(run), "implemented")

BeginRepair(l) ==
    /\ RepairAllowed(l)
    /\ Goto(l, "repairing")
    /\ seen' = [seen EXCEPT ![l] = diff]
    /\ UNCHANGED <<run, world, stale, history>>

\* The change that a repair must bring, in addition to what it began with.
NewChange(before, after) ==
    \/ after.rest # Base /\ (IF Group THEN ~run.listed ELSE before.rest = Base)
    \/ /\ run.feedback # "none"
       /\ \/ after.rest # before.rest
          \/ run.tested # None /\ after.rest # run.tested.rest

(* A repair that answers a review may leave what was tested as it is: it is *)
(* tested and reviewed again.                                               *)
EndRepair(l, test, rest) ==
    /\ At(l, "repairing", "IMPLEMENTING")
    /\ diff' = [diff EXCEPT !.test = test, !.rest = rest]
    /\ \/ /\ run.feedback = "review" /\ run.tested # None /\ diff' = run.tested
          /\ ~NewChange(seen[l], diff')
          /\ Save(l, [run EXCEPT !.results = 3, !.tries = @ + 1, !.checkpoint = "applied",
                                 !.review = NoReview, !.approval = NoPackage], "implemented")
       \/ /\ NewChange(seen[l], diff')
          /\ diff'.test = run.frozen
          /\ Save(l, Repaired(run), "implemented")
       \/ /\ ~NewChange(seen[l], diff') \/ diff'.test # run.frozen
          /\ Save(l, Stop(run, "IMPLEMENTING",
                          IF Group \/ NewChange(seen[l], diff') THEN "interrupted" ELSE "other"),
                  "idle")
    /\ Forget(l)
    /\ UNCHANGED <<moved, defer, history>>

(* The edits of an agent call whose answer cannot be used, or whose command *)
(* has become stale meanwhile, stay in the worktree.                        *)
AgentWrites(l, test, rest) ==
    /\ \/ pc[l] = "reproducing" /\ rest = diff.rest
       \/ pc[l] = "repairing"
    /\ diff' = [diff EXCEPT !.test = test, !.rest = rest]
    /\ diff' # diff
    /\ UNCHANGED <<run, moved, defer, pc, stale, seen, history>>

Implemented(l) ==
    /\ pc[l] = "implemented" \/ (pc[l] = "run" /\ run.results >= 3)
    /\ run.state = "IMPLEMENTING"
    /\ Save(l, To(run, "TESTING"), "run")
    /\ UNCHANGED <<world, seen, history>>

(* An analysis without evidence to go on with, or no attempt left.          *)
CannotReproduce(l) ==
    /\ At(l, "run", "IMPLEMENTING")
    /\ run.results = 1
    /\ run.root = 0 \/ (~Group /\ ~AttemptsLeft)
    /\ Block(l, "IMPLEMENTING", "other")
    /\ UNCHANGED <<world, history>>

-----------------------------------------------------------------------------
(* Tests: _verify, _verify_group *)

(* A conflict that is still marked goes back to the repair.                 *)
BeginTests(l) ==
    /\ At(l, "run", "TESTING")
    /\ IF run.conflicts /\ diff.rest = Marked
       THEN Block(l, "IMPLEMENTING", "other")
       ELSE IF ~ReproductionFrozen THEN Block(l, "TESTING", "other")
       ELSE /\ Goto(l, "testing") /\ seen' = [seen EXCEPT ![l] = diff]
            /\ UNCHANGED <<run, stale>>
    /\ UNCHANGED <<world, history>>

\* Mistake: what the commands changed is not looked for.
UnchangedAssumed(l) == TRUE

Unchanged(l) == diff = seen[l]

(* The results are saved before they are judged; the results that count for *)
(* a group are those in its repository_evidence, saved with the snapshot.   *)
EndTests(l, passed) ==
    /\ At(l, "testing", "TESTING")
    /\ IF ReproductionFrozen \/ Group
       THEN Save(l, [run EXCEPT !.tests = IF Group THEN @ ELSE IF passed THEN "passed" ELSE "failed"],
                 IF ~Unchanged(l) \/ ~ReproductionFrozen THEN "changed"
                 ELSE IF passed THEN "passed" ELSE "failed")
       ELSE Save(l, Stop(run, "TESTING", "other"), "idle")
    /\ passedOn' = IF passed /\ diff = seen[l] THEN diff ELSE passedOn
    /\ UNCHANGED <<world, seen, analyses, failing, decided>>

(* Evidence that changed under the commands, an analysis without evidence.  *)
BlockChanged(l) ==
    /\ pc[l] = "changed" /\ run.state \in {"TESTING", "IMPLEMENTING"}
    /\ Block(l, run.state, "other")
    /\ UNCHANGED <<world, history>>

SaveTested(l) ==
    /\ At(l, "passed", "TESTING")
    /\ Save(l, [run EXCEPT !.tested = seen[l], !.tests = "passed", !.checkpoint = "final",
                           !.listed = Group /\ seen[l].rest # Base], "final")
    /\ Forget(l)
    /\ UNCHANGED <<world, history>>

Tested(l) ==
    /\ At(l, "final", "TESTING")
    /\ Save(l, To(run, "AI_REVIEW"), "run")
    /\ UNCHANGED <<world, seen, history>>

(* Failed tests become the feedback of another attempt; a command that      *)
(* could not run, and a run without a repair, block.                        *)
SaveRetry(l) ==
    /\ At(l, "failed", "TESTING")
    /\ ~run.verifyOnly /\ AttemptsLeft
    /\ Save(l, [run EXCEPT !.feedback = "tests", !.results = 2, !.checkpoint = "failed",
                           !.review = NoReview, !.approval = NoPackage,
                           !.tests = IF Group THEN "none" ELSE @], "retry")
    /\ UNCHANGED <<world, seen, history>>

TestsFailed(l) ==
    /\ At(l, "failed", "TESTING")
    /\ Block(l, "TESTING", "other")
    /\ UNCHANGED <<world, history>>

\* A block that the same command resumes at once.
BlockAndGoOn(l, where) == Save(l, Stop(run, where, "other"), "unblock") /\ Forget(l)

Retry(l) ==
    /\ At(l, "retry", "TESTING")
    /\ BlockAndGoOn(l, "IMPLEMENTING")
    /\ UNCHANGED <<world, history>>

-----------------------------------------------------------------------------
(* Review and approval package: _review(_group)_and_package *)

EvidenceUnchanged ==
    run.tested # None /\ diff = run.tested /\ (Group => run.tests = "passed")

(* Also after the review: a group is reviewed again, and the snapshots are  *)
(* compared once more before a package is made.                             *)
EvidenceChanged(l) ==
    /\ pc[l] \in {"run", "reviewing", "reviewed"} /\ run.state = "AI_REVIEW"
    /\ ~EvidenceUnchanged
    /\ Block(l, IF run.tested = None /\ ~Group THEN "TESTING" ELSE "AI_REVIEW", "other")
    /\ UNCHANGED <<world, history>>

BeginReview(l) ==
    /\ At(l, "run", "AI_REVIEW")
    /\ EvidenceUnchanged
    /\ Goto(l, IF run.review = NoReview THEN "reviewing" ELSE "reviewed")
    /\ UNCHANGED <<run, world, stale, seen, history>>

EndReview(l, result) ==
    /\ At(l, "reviewing", "AI_REVIEW")
    /\ EvidenceUnchanged
    /\ Save(l, [run EXCEPT !.review = [of |-> diff, result |-> result]], "reviewed")
    /\ UNCHANGED <<world, seen, history>>

Incomplete(l) ==
    /\ At(l, "reviewed", "AI_REVIEW")
    /\ run.review.result = "incomplete"
    /\ Block(l, "AI_REVIEW", "kept")
    /\ UNCHANGED <<world, history>>

(* _dispatch_review_repair: the rounds since the last direction of a person *)
(* are bounded, and a round must have changed what was tested.              *)
MayRepairAgain ==
    /\ run.since > 0 => run.fingerprint # run.tested
    /\ run.since < MaxAttempts

NoMoreRepairs(l) ==
    /\ At(l, "reviewed", "AI_REVIEW")
    /\ run.review.result = "open"
    /\ ~MayRepairAgain
    /\ Block(l, "AI_REVIEW", "kept")
    /\ UNCHANGED <<world, history>>

QueueReview(l) ==
    /\ At(l, "reviewed", "AI_REVIEW")
    /\ run.review.result = "open"
    /\ MayRepairAgain
    /\ Save(l, [run EXCEPT !.feedback = "review", !.approval = NoPackage], "queued")
    /\ UNCHANGED <<world, seen, history>>

CountAttempt(l) ==
    /\ At(l, "queued", "AI_REVIEW")
    /\ Save(l, [run EXCEPT !.since = @ + 1, !.ever = TRUE, !.fingerprint = run.tested],
            "attempted")
    /\ UNCHANGED <<world, seen, history>>

RepairReview(l) ==
    /\ At(l, "attempted", "AI_REVIEW")
    /\ BlockAndGoOn(l, "IMPLEMENTING")
    /\ UNCHANGED <<world, history>>

\* At the point where a clean review is followed up.
Reviewed(l) == At(l, "reviewed", "AI_REVIEW") /\ run.review.result = "clean"

(* state_store._is_completed_verification: what ends without a package has  *)
(* a reproduction that passed before, and no other change than it unless a  *)
(* review has asked for one.                                                *)
VerificationIsComplete ==
    /\ run.verifyOnly /\ run.action = "repair"
    /\ run.checkpoint = "final" /\ run.frozen # NoTest
    /\ run.prefail = "passed" /\ run.prefix # None
    /\ run.tested # None /\ run.review.result = "clean" /\ run.approval = NoPackage
    /\ IF run.ever THEN run.results = 3
       ELSE run.results = 2 /\ run.tested = run.prefix /\ run.tested.rest = Base

(* _complete_verification_only.  The refusal of the store is an exception.  *)
CompleteVerifyOnly(l) ==
    /\ Reviewed(l) /\ run.verifyOnly
    /\ EvidenceUnchanged
    /\ Save(l, IF VerificationIsComplete THEN To(run, "COMPLETED")
               ELSE Stop(run, "AI_REVIEW", "kept"), "idle")
    /\ UNCHANGED <<world, seen, history>>

MayPackage(l) == Reviewed(l) /\ ~run.verifyOnly

(* An unfinished or failed check; a missing failure before the repair is    *)
(* such a check.                                                            *)
ChecksBlock(l) ==
    /\ MayPackage(l)
    /\ Block(l, "AI_REVIEW", "verification")
    /\ UNCHANGED <<world, history>>

ChecksAllow == run.prefail # "none" \/ defer

(* validate_for_approval: a reproduction that passed before proves nothing. *)
PackageInvalid(l) ==
    /\ MayPackage(l) /\ ChecksAllow
    /\ run.prefail = "passed"
    /\ Block(l, "AI_REVIEW", "other")
    /\ UNCHANGED <<world, history>>

\* Mistake: the outcome of the reproduction before the repair is not asked.
AnyPrefail == TRUE

PrefailValid == run.prefail # "passed"

SavePackage(l) ==
    /\ MayPackage(l) /\ ChecksAllow
    /\ EvidenceUnchanged
    /\ PrefailValid
    /\ ~(Group /\ moved)
    /\ Save(l, [run EXCEPT !.approval = [diff |-> diff, of |-> run.review.of]], "packaged")
    /\ UNCHANGED <<world, seen, history>>

Packaged(l) ==
    /\ At(l, "packaged", "AI_REVIEW")
    /\ Save(l, To(run, "WAITING_APPROVAL"), "idle")
    /\ UNCHANGED <<world, seen, history>>

-----------------------------------------------------------------------------
(* A moved remote base: _refresh_baseline, baseline_refresh.transfer *)

(* Building the trees of a group's package finds that the remote moved.     *)
RemoteBaseChanged(l) ==
    /\ MayPackage(l) /\ ChecksAllow
    /\ EvidenceUnchanged
    /\ Group /\ moved
    /\ Fresh(l)
    /\ Goto(l, "refresh")
    /\ UNCHANGED <<run, world, stale, seen, history>>

RefreshesAfter(n) == n + 1

BeginRefresh(l) ==
    /\ At(l, "refresh", "AI_REVIEW")
    /\ \/ run.preparing
          /\ Save(l, [run EXCEPT !.preparing = FALSE], "refresh")
       \/ ~run.preparing /\ run.refreshes >= MaxRefreshes
          /\ Save(l, Stop(run, "AI_REVIEW", "kept"), "idle")
       \/ ~run.preparing /\ run.refreshes < MaxRefreshes
          /\ Save(l, [run EXCEPT !.refreshes = RefreshesAfter(@), !.preparing = TRUE,
                                 !.approval = NoPackage], "transferring")
    /\ UNCHANGED <<world, seen, history>>

(* A new worktree on the new base, with the accepted changes merged in.     *)
TransferFails(l) ==
    /\ At(l, "transferring", "AI_REVIEW")
    /\ Save(l, [run EXCEPT !.preparing = FALSE], "failedTransfer")
    /\ UNCHANGED <<world, seen, history>>

BlockTransfer(l) ==
    /\ At(l, "failedTransfer", "AI_REVIEW")
    /\ Block(l, "AI_REVIEW", "kept")
    /\ UNCHANGED <<world, history>>

(* The run is blocked first and gets its new worktree then.                 *)
Migrate(l, rest) ==
    /\ At(l, "transferring", "AI_REVIEW")
    /\ run.root # 0 /\ diff.test = run.frozen /\ diff = run.tested
    /\ seen' = [seen EXCEPT ![l] = [base |-> diff.base + 1, test |-> diff.test, rest |-> rest]]
    /\ Save(l, Stop(run, IF rest = Marked THEN "IMPLEMENTING" ELSE "TESTING", "other"), "swap")
    /\ UNCHANGED <<world, history>>

Migrated(r, new) ==
    [r EXCEPT !.preparing = FALSE, !.conflicts = new.rest = Marked,
              !.tests = "none", !.prefail = "none", !.prefix = new, !.tested = None,
              !.review = NoReview, !.approval = NoPackage, !.tries = 0,
              !.listed = new.rest # Base, !.verifyOnly = new.rest = Base,
              !.feedback = "tests",
              !.checkpoint = IF new.rest = Marked THEN "failed" ELSE "applied",
              !.results = IF new.rest = Marked THEN 2 ELSE IF @ > 3 THEN 3 ELSE @]

SwapWorktree(l) ==
    /\ At(l, "swap", "BLOCKED")
    /\ Save(l, Migrated(run, seen[l]), "unblock")
    /\ diff' = seen[l] /\ moved' = FALSE
    /\ Forget(l)
    /\ UNCHANGED <<defer, history>>

-----------------------------------------------------------------------------
(* Commands of the orchestrator *)

Idle == pc["orchestrate"] = "idle" /\ pc["decision"] \in OverlapAt \cup {"idle"}
Do(new, step) == Save("orchestrate", new, step)

Resume ==
    /\ Idle
    /\ run.state \in Stages \cup {"CREATED", "BLOCKED"}
    /\ Goto("orchestrate", IF run.state = "BLOCKED" THEN "unblock" ELSE "run")
    /\ UNCHANGED <<run, world, stale, seen, history>>

(* revise: a later block is first moved back to its stage, and a stage is   *)
(* then blocked at IMPLEMENTING.                                            *)
Revise ==
    /\ Idle /\ run.state = "BLOCKED"
    /\ \/ run.resume \in {"TESTING", "AI_REVIEW"} /\ Do(To(run, run.resume), "revising")
       \/ run.resume = "IMPLEMENTING" /\ Goto("orchestrate", "feedback")
             /\ UNCHANGED <<run, stale>>
    /\ UNCHANGED <<world, seen, history>>

BlockForRevision ==
    /\ pc["orchestrate"] = "revising" \/ (Idle /\ run.state = "WAITING_APPROVAL")
    /\ Do(Stop(run, "IMPLEMENTING", "other"), "feedback")
    /\ UNCHANGED <<world, seen, history>>

(* The direction of a person opens a new window of automatic repairs.       *)
SaveFeedback ==
    /\ pc["orchestrate"] = "feedback"
    /\ Do([run EXCEPT !.feedback = "human", !.since = 0], "unblock")
    /\ UNCHANGED <<world, seen, history>>

(* verify: only a failed check is handed back to the review.                *)
Attest(passed) ==
    /\ Idle /\ run.state = "BLOCKED" /\ run.resume = "AI_REVIEW"
    /\ run.review.result = "clean" /\ run.approval = NoPackage
    /\ diff = run.tested
    /\ Do(IF passed THEN run ELSE [run EXCEPT !.review = NoReview], "unblock")
    /\ UNCHANGED <<world, seen, history>>

Replan ==
    /\ Idle /\ run.state = "BLOCKED" /\ run.cause = "verification"
    /\ run.review.result = "clean"
    /\ Do([run EXCEPT !.review = NoReview, !.approval = NoPackage], "unblock")
    /\ UNCHANGED <<world, seen, history>>

Undecided(r) == [r EXCEPT !.results = 0, !.root = 0, !.checkpoint = "none"]

(* A completed analysis is accepted, and repaired, or made again: under a   *)
(* lock of its own.                                                         *)
Decide(accept) ==
    /\ pc["decision"] = "idle" /\ pc["orchestrate"] \in OverlapAt \cup {"idle"}
    /\ run.state = "COMPLETED" /\ run.action = "analyze"
    /\ run.results = 1 /\ run.checkpoint = "root"
    /\ Save("decision",
            To(IF accept THEN [run EXCEPT !.action = "repair", !.accepted = TRUE]
               ELSE Undecided(run), "IMPLEMENTING"), "run")
    /\ decided' = IF accept THEN run.root ELSE decided
    /\ UNCHANGED <<world, seen, analyses, failing, passedOn>>

(* approve: checks that changed since the package withdraw it.              *)
Approve ==
    /\ Idle /\ run.state = "WAITING_APPROVAL" /\ run.approval # NoPackage
    /\ \/ Do([run EXCEPT !.approval = NoPackage], "withdraw")
       \/ Do(run, "publish")
    /\ UNCHANGED <<world, seen, history>>

Withdraw ==
    /\ pc["orchestrate"] = "withdraw"
    /\ Block("orchestrate", "AI_REVIEW", "verification")
    /\ UNCHANGED <<world, history>>

(* The publisher rebuilds the package; any difference refuses it.           *)
Publish ==
    /\ pc["orchestrate"] = "publish"
    /\ IF diff = run.approval.diff /\ ~moved THEN Do(To(run, "PUBLISHING"), "idle")
       ELSE Goto("orchestrate", "idle") /\ UNCHANGED <<run, stale>>
    /\ UNCHANGED <<world, seen, history>>

Cancel ==
    /\ Idle /\ run.state \notin {"COMPLETED", "CANCELLED", "FAILED", "PUBLISHING"}
    /\ Do(To(run, "CANCELLED"), "idle")
    /\ UNCHANGED <<world, seen, history>>

-----------------------------------------------------------------------------
(* The surroundings *)

Crash(l) ==
    /\ pc[l] \notin NoCrashAt \cup {"idle"}
    /\ Goto(l, "idle") /\ Forget(l)
    /\ stale' = [stale EXCEPT ![l] = FALSE]
    /\ UNCHANGED <<run, world, history>>

Edit(rest) ==
    /\ run.prepared
    /\ \A l \in Locks : pc[l] \notin NoEditAt
    /\ rest # diff.rest
    /\ diff' = [diff EXCEPT !.rest = rest]
    /\ UNCHANGED <<run, moved, defer, pc, stale, seen, history>>

RemoteMoves ==
    /\ run.prepared /\ ~moved /\ diff.base < MaxRefreshes
    /\ moved' = TRUE
    /\ UNCHANGED <<run, diff, defer, pc, stale, seen, history>>

Written == Edits \cup {Base}

Begin(l) ==
    \/ CarryReview(l) \/ Unblock(l) \/ ResetImplementing(l) \/ ResetLate(l)
    \/ StartReading(l) \/ ReadSelected(l) \/ Read(l) \/ ValidateMapping(l) \/ Prepare(l)

Implement(l) ==
    \/ (\E grounded \in BOOLEAN : Analyse(l, grounded)) \/ NotClean(l) \/ Analysed(l)
    \/ BeginReproduction(l) \/ (\E test \in Tests : EndReproduction(l, test))
    \/ \E outcome \in {"failed", "passed", "none"} :
          PersistPrefail(l, outcome) \/ PersistPrefailAgain(l, outcome)
    \/ BeginVerifyOnly(l) \/ RepairRefused(l) \/ RecoverRepair(l) \/ BeginRepair(l)
    \/ \E test \in Tests, rest \in Written : EndRepair(l, test, rest)
    \/ Implemented(l) \/ CannotReproduce(l)

Test(l) ==
    \/ BeginTests(l) \/ (\E passed \in BOOLEAN : EndTests(l, passed)) \/ BlockChanged(l)
    \/ SaveTested(l) \/ Tested(l) \/ SaveRetry(l) \/ TestsFailed(l) \/ Retry(l)

Review(l) ==
    \/ EvidenceChanged(l) \/ BeginReview(l)
    \/ (\E result \in {"clean", "open", "incomplete"} : EndReview(l, result))
    \/ Incomplete(l) \/ NoMoreRepairs(l) \/ QueueReview(l) \/ CountAttempt(l)
    \/ RepairReview(l) \/ CompleteVerifyOnly(l) \/ ChecksBlock(l) \/ PackageInvalid(l)
    \/ SavePackage(l) \/ Packaged(l)

Refresh(l) ==
    \/ RemoteBaseChanged(l) \/ BeginRefresh(l) \/ TransferFails(l) \/ BlockTransfer(l)
    \/ (\E rest \in {diff.rest, Base, Marked} : Migrate(l, rest)) \/ SwapWorktree(l)

(* One step of the command that holds lock l.                               *)
Step(l) == Begin(l) \/ Implement(l) \/ Test(l) \/ Review(l) \/ Refresh(l)

Command ==
    \/ \E kind \in Kinds : Confirm(kind)
    \/ Resume \/ Revise \/ BlockForRevision \/ SaveFeedback
    \/ \E passed \in BOOLEAN : Attest(passed)
    \/ Replan \/ (\E accept \in BOOLEAN : Decide(accept))
    \/ Approve \/ Withdraw \/ Publish \/ Cancel

Next ==
    \/ \E l \in Locks :
          \/ Step(l) \/ Refused(l) \/ Crash(l)
          \/ \E why \in {"kept", "interrupted", "other"} : Fail(l, why)
          \/ \E test \in Tests, rest \in Written : AgentWrites(l, test, rest)
    \/ Command \/ RemoteMoves \/ \E rest \in Edits : Edit(rest)

Spec == Init /\ [][Next]_vars

-----------------------------------------------------------------------------
(* Properties *)

Recorded == Contents \cup {None}
ReviewType == [of : Recorded, result : {"none", "clean", "open", "incomplete"}]

(* Types; neither the attempts of a run nor its migrations, and only those   *)
(* rounds of repair that no person has asked for, exceed what is configured. *)
TypeOK ==
    /\ run \in
         [state : States, resume : Stages \cup {"CREATED"},
          cause : {"none", "verification", "kept", "interrupted", "other"},
          interrupted : BOOLEAN, mapping : {"none", "single", "group"}, prepared : BOOLEAN,
          action : {"analyze", "repair"}, accepted : BOOLEAN, results : 0..3,
          root : 0..MaxAnalyses, checkpoint : {"none", "root", "prepared", "failed", "applied",
          "final"}, frozen : Tests \cup {NoTest}, prefix : Recorded,
          prefail : {"none", "failed", "passed"}, tries : 0..(MaxAttempts + 1),
          tests : {"none", "passed", "failed"}, tested : Recorded, listed : BOOLEAN,
          review : ReviewType, approval : [diff : Recorded, of : Recorded],
          feedback : {"none", "human", "review", "tests"}, since : 0..MaxAttempts,
          ever : BOOLEAN, fingerprint : Recorded, verifyOnly : BOOLEAN,
          refreshes : 0..MaxRefreshes, preparing : BOOLEAN, conflicts : BOOLEAN]
    /\ diff \in Contents /\ moved \in BOOLEAN /\ defer \in Defer
    /\ pc \in [Locks -> Steps] /\ stale \in [Locks -> BOOLEAN] /\ seen \in [Locks -> Recorded]
    /\ analyses \in 0..MaxAnalyses /\ failing \subseteq Tests /\ passedOn \in Recorded
    /\ decided \in 0..MaxAnalyses

\* A package lies before a person, or before the publisher.
Offered == run.state = "PUBLISHING" \/ (run.state = "WAITING_APPROVAL" /\ run.approval # NoPackage)

(* Whatever blocks, retries, revisions, migrations and other commands lie    *)
(* between: what is offered is what all commands passed on last, with the    *)
(* reproduction that was frozen, and what the review it carries was made of. *)
PackageWasTested ==
    Offered => /\ run.approval.diff = passedOn /\ passedOn.test = run.frozen
               /\ run.approval.of = run.approval.diff

\* An openly missing failure before the repair.
Disclosed == run.prefail = "none" /\ defer

(* The frozen reproduction of what is offered has been seen failing, or that *)
(* this is missing is disclosed and the configuration allows it.             *)
FrozenWasFailing == Offered => Disclosed \/ run.frozen \in failing

(* What is repaired is the analysis that was accepted: no other takes its    *)
(* place without a decision.                                                 *)
DecisionIsKept ==
    decided # 0 /\ run.root # 0 => run.root = decided

=============================================================================
