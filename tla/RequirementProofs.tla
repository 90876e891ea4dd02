------------------------- MODULE RequirementProofs -------------------------
(***************************************************************************)
(* Proofs about Requirement, for all contents, checks, configurations and  *)
(* bounds.  What holds whenever a command is interrupted needs no          *)
(* assumption.  ResetCompletes and QuietTests name the windows of the code *)
(* that break the rest: each theorem states which of them must not be hit. *)
(***************************************************************************)
EXTENDS Requirement, TLAPS

Fields == {"state", "resume", "cause", "mapping", "preflight", "prepared", "coded",
           "tried", "passing", "tested", "review", "plan", "records", "approval"}

\* The run has its fields, the worktree a content, and a step its stage.
Shape ==
    /\ run = [f \in Fields |-> run[f]]
    /\ run.resume \in Stages \cup {"CREATED"}
    /\ diff \in Contents
    /\ pc = "coded" => run.state = "IMPLEMENTING"
    /\ pc \in {"repaired", "testing", "groupTesting", "tested", "analyse"} => run.state = "TESTING"
    /\ pc \in {"reviewing", "reviewed", "planned", "packaged"} => run.state = "AI_REVIEW"

In(S) == run.state \in S \/ (run.state = "BLOCKED" /\ run.resume \in S)

\* The step between the tests and the review knows that they passed.
TestsKept ==
    /\ ReviewFollowsTests
    /\ pc = "tested" => run.passing
    /\ pc = "analyse" => run.passing /\ run.tested # None

\* There is a review when checks are planned or a package is offered.
PlanKept ==
    pc \in {"reviewed", "planned", "packaged"} \/ run.state = "WAITING_APPROVAL" =>
        run.review # NoReview

Always == Shape /\ TestsKept /\ PlanKept

Early == {"CREATED", "READING_ONES", "VALIDATING", "PREPARING_REPO"}

\* A review is of the tested content, and none outlives a new implementation.
ReviewKept ==
    /\ In(Early \cup {"TESTING"}) => run.review = NoReview
    /\ run.state = "IMPLEMENTING" /\ pc # "reset" => run.review = NoReview
    /\ In(Late) => run.review = NoReview \/ run.review.of = run.tested
    /\ pc = "planned" => seen = run.review.of
    /\ run.approval.of = run.approval.diff

\* What was recorded as tested, and what a package offers, passed the tests.
ContentKept ==
    /\ run.tested \in passedOn \cup {None}
    /\ pc = "testing" => seen = diff
    /\ pc = "tested" => diff \in passedOn
    /\ pc = "planned" => seen \in passedOn \ {Clean}
    /\ pc = "packaged" => run.approval.diff \in passedOn \ {Clean}
    /\ PackageWasTested

\* A feedback that was not given to the agent yet has its implementation ahead.
HeardKept ==
    /\ pc = "feedback" => run.resume = "IMPLEMENTING"
    /\ ~heard => \/ run.state = "CANCELLED"
                 \/ run.state = "BLOCKED" /\ run.resume = "IMPLEMENTING"
                 \/ run.state = "IMPLEMENTING" /\ (pc = "reset" \/ ~run.coded)

\* No crash between leaving BLOCKED and clearing the results of the attempt.
ResetCompletes == "reset" \in NoCrashAt

\* No crash between withdrawing a package and blocking the run, and nobody edits
\* a single repository between the start of its tests and their snapshot.
QuietTests == "withdraw" \in NoCrashAt /\ {"testing", "tested"} \subseteq NoEditAt

Kept ==
    /\ ResetCompletes => ReviewKept /\ HeardKept
    /\ QuietTests => ContentKept

-----------------------------------------------------------------------------
LEMMA AlwaysInit == Init => Always
<1> SUFFICES ASSUME Init PROVE Always
  OBVIOUS
<1>1. run = [f \in Fields |-> run[f]]
  BY DEF Init, Fields
<1>2. diff \in Contents
  BY DEF Init, Contents
<1>3. /\ run.state = "CREATED" /\ run.resume = "CREATED"
      /\ pc = "run"
  BY DEF Init
<1> QED
  BY <1>1, <1>2, <1>3 DEF Always, Shape, TestsKept, PlanKept, ReviewFollowsTests, Late

LEMMA AlwaysStep == Always /\ [Next]_vars => Always'
<1> SUFFICES ASSUME Always, [Next]_vars PROVE Always'
  OBVIOUS
<1> USE RequirementAssumption
    DEF RequirementAssumption, Always, Shape, TestsKept, PlanKept, ReviewFollowsTests,
        Fields, Late, Contents, Stages, At, Go, Move, Block, world, local, history
<1>1. CASE UNCHANGED vars
  BY <1>1 DEF vars
<1>2. CASE Unblock
  BY <1>2 DEF Unblock
<1>3. CASE Reset
  BY <1>3 DEF Reset, AfterReset
<1>4. CASE StartReading
  BY <1>4 DEF StartReading
<1>5. CASE Fail
  BY <1>5 DEF Fail, MayFail
<1>6. CASE Escape
  BY <1>6 DEF Escape
<1>7. CASE ReadSources \/ SourcesRead \/ AwaitConfirmation
  <2>1. CASE ReadSources
    BY <2>1 DEF ReadSources
  <2>2. CASE SourcesRead
    BY <2>2 DEF SourcesRead
  <2>3. CASE AwaitConfirmation
    BY <2>3 DEF AwaitConfirmation
  <2> QED
    BY <1>7, <2>1, <2>2, <2>3
<1>8. ASSUME NEW result \in {"clean", "open"}, Preflight(result) PROVE Always'
  BY <1>8 DEF Preflight
<1>9. CASE Validated \/ Prepare \/ Prepared
  <2>1. CASE Validated
    BY <2>1 DEF Validated
  <2>2. CASE Prepare
    BY <2>2 DEF Prepare
  <2>3. CASE Prepared
    BY <2>3 DEF Prepared
  <2> QED
    BY <1>9, <2>1, <2>2, <2>3
<1>10. CASE Implement \/ Repair
  <2>1. CASE Implement
    BY <2>1 DEF Implement, Write
  <2>2. CASE Repair
    BY <2>2 DEF Repair, Write
  <2> QED
    BY <1>10, <2>1, <2>2
<1>11. CASE AgentFails
  BY <1>11 DEF AgentFails, Write
<1>12. CASE Implemented \/ Exhausted \/ BeginTests
  <2>1. CASE Implemented
    BY <2>1 DEF Implemented
  <2>2. CASE Exhausted
    BY <2>2 DEF Exhausted
  <2>3. CASE BeginTests
    BY <2>3 DEF BeginTests
  <2> QED
    BY <1>12, <2>1, <2>2, <2>3
<1>13. ASSUME NEW passed \in BOOLEAN, EndTests(passed) PROVE Always'
  BY <1>13 DEF EndTests, AfterTests
<1>14. CASE SnapshotTested \/ EndGroupTests \/ Analysed
  <2>1. CASE SnapshotTested
    BY <2>1 DEF SnapshotTested
  <2>2. CASE EndGroupTests
    BY <2>2 DEF EndGroupTests
  <2>3. CASE Analysed
    BY <2>3 DEF Analysed
  <2> QED
    BY <1>14, <2>1, <2>2, <2>3
<1>15. CASE EvidenceChanged \/ BeginReview
  <2>1. CASE EvidenceChanged
    BY <2>1 DEF EvidenceChanged
  <2>2. CASE BeginReview
    BY <2>2 DEF BeginReview
  <2> QED
    BY <1>15, <2>1, <2>2
<1>16. ASSUME NEW open \in BOOLEAN, NEW needs \in SUBSET Needs, EndReview(open, needs)
       PROVE Always'
  BY <1>16 DEF EndReview, NoReview
<1>17. CASE PlanChecks \/ ChecksBlock \/ Package \/ Packaged
  <2>1. CASE PlanChecks
    BY <2>1 DEF PlanChecks
  <2>2. CASE ChecksBlock
    BY <2>2 DEF ChecksBlock
  <2>3. CASE Package
    BY <2>3 DEF Package
  <2>4. CASE Packaged
    BY <2>4 DEF Packaged
  <2> QED
    BY <1>17, <2>1, <2>2, <2>3, <2>4
<1>18. ASSUME NEW kind \in {"single", "group"}, Confirm(kind) PROVE Always'
  BY <1>18 DEF Confirm
<1>19. CASE Resume \/ Revise \/ BlockForRevision \/ SaveFeedback
  <2>1. CASE Resume
    BY <2>1 DEF Resume
  <2>2. CASE Revise
    BY <2>2 DEF Revise
  <2>3. CASE BlockForRevision
    BY <2>3 DEF BlockForRevision
  <2>4. CASE SaveFeedback
    BY <2>4 DEF SaveFeedback
  <2> QED
    BY <1>19, <2>1, <2>2, <2>3, <2>4
<1>20. ASSUME NEW n \in Needs, NEW byNode \in BOOLEAN, NEW result, AddResult(n, byNode, result),
              run.state = "BLOCKED", UNCHANGED diff
       PROVE Always'
  BY <1>20 DEF AddResult
<1>21. ASSUME NEW n \in Needs, NEW passed \in BOOLEAN, Attest(n, passed) PROVE Always'
  BY <1>20, <1>21 DEF Attest, MayVerify
<1>22. ASSUME NEW n \in Needs, BeginVerify(n) PROVE Always'
  BY <1>22 DEF BeginVerify, MayVerify
<1>23. ASSUME NEW n \in Needs, NEW result \in {"passed", "failed", "error"}, EndVerify(n, result)
       PROVE Always'
  BY <1>20, <1>23 DEF EndVerify
<1>24. CASE Replan \/ Approve \/ Withdraw
  <2>1. CASE Replan
    BY <2>1 DEF Replan
  <2>2. CASE Approve
    BY <2>2 DEF Approve
  <2>3. CASE Withdraw
    BY <2>3 DEF Withdraw
  <2> QED
    BY <1>24, <2>1, <2>2, <2>3
<1>25. CASE Publish \/ Cancel
  <2>1. CASE Publish
    BY <2>1 DEF Publish
  <2>2. CASE Cancel
    BY <2>2 DEF Cancel
  <2> QED
    BY <1>25, <2>1, <2>2
<1>26. CASE Crash \/ Edit \/ Configure
  <2>1. CASE Crash
    BY <2>1 DEF Crash
  <2>2. CASE Edit
    BY <2>2 DEF Edit
  <2>3. CASE Configure
    BY <2>3 DEF Configure
  <2> QED
    BY <1>26, <2>1, <2>2, <2>3
<1> QED
  BY <1>1, <1>2, <1>3, <1>4, <1>5, <1>6, <1>7, <1>8, <1>9, <1>10, <1>11, <1>12, <1>13, <1>14,
     <1>15, <1>16, <1>17, <1>18, <1>19, <1>21, <1>22, <1>23, <1>24, <1>25, <1>26
  DEF Next, Execute, Command

LEMMA AlwaysInvariant == Spec => []Always
BY AlwaysInit, AlwaysStep, PTL DEF Spec

(* Whichever blocks, resumptions, revisions and crashes lie between, a run   *)
(* in review, in approval or published has passing tests and the snapshot    *)
(* they were taken on.                                                       *)
THEOREM TestsFirst == Spec => []ReviewFollowsTests
<1>1. Always => ReviewFollowsTests
  BY DEF Always, TestsKept
<1> QED
  BY <1>1, AlwaysInvariant, PTL

-----------------------------------------------------------------------------
(* Only Replan drops a planned check.                                        *)
LEMMA TasksCoverPlan ==
    ASSUME run.review # NoReview
    PROVE  \A t \in run.plan : \E u \in Tasks : u.need = t.need
<1> TAKE t \in run.plan
<1>1. t.need \in Obligations
  BY DEF Obligations
<1>2. [need |-> t.need, on |-> run.tested, status |-> Status(t.need),
       node |-> t.need \in nodes] \in Tasks
  BY <1>1 DEF Tasks
<1> QED
  BY <1>2

LEMMA SurviveStep ==
    ASSUME Always, Next, ~Replan
    PROVE  \A t \in run.plan : \E u \in run'.plan : u.need = t.need
<1> DEFINE Survive == \A t \in run.plan : \E u \in run'.plan : u.need = t.need
<1> SUFFICES Survive
  OBVIOUS
<1>same. ASSUME run'.plan = run.plan PROVE Survive
  BY <1>same
<1>tasks. ASSUME run'.plan = Tasks, run.review # NoReview PROVE Survive
  BY <1>tasks, TasksCoverPlan
<1> USE DEF Always, Shape, Fields, At, Move, Block
<1>1. CASE PlanChecks
  BY <1>1, <1>tasks DEF PlanChecks, PlanKept
<1>2. ASSUME NEW n \in Needs, BeginVerify(n) PROVE Survive
  <2>1. \A t \in run.plan : \E u \in Tasks : u.need = t.need
    BY <1>2, TasksCoverPlan DEF BeginVerify, MayVerify
  <2>2. run'.plan = {IF u.need = n THEN [u EXCEPT !.status = "running"] ELSE u : u \in Tasks}
    BY <1>2 DEF BeginVerify
  <2>3. \A u \in Tasks : [u EXCEPT !.status = "running"].need = u.need
    BY DEF Tasks
  <2>4. ASSUME NEW t \in run.plan PROVE \E u \in run'.plan : u.need = t.need
    <3>1. PICK u \in Tasks : u.need = t.need
      BY <2>1
    <3>2. DEFINE v == IF u.need = n THEN [u EXCEPT !.status = "running"] ELSE u
    <3>3. v \in run'.plan
      BY <2>2
    <3>4. v.need = t.need
      BY <2>3, <3>1
    <3> QED
      BY <3>3, <3>4
  <2> QED
    BY <2>4
<1>3. CASE Approve
  BY <1>3, <1>tasks, <1>same DEF Approve, PlanKept
<1>4. CASE Unblock \/ Reset \/ StartReading \/ Fail \/ Escape
  <2>1. CASE Unblock
    BY <2>1, <1>same DEF Unblock, AfterReset
  <2>2. CASE Reset
    BY <2>2, <1>same DEF Reset, AfterReset
  <2>3. CASE StartReading
    BY <2>3, <1>same DEF StartReading, AfterReset
  <2>4. CASE Fail
    BY <2>4, <1>same DEF Fail, AfterReset
  <2>5. CASE Escape
    BY <2>5, <1>same DEF Escape, AfterReset
  <2> QED
    BY <1>4, <2>1, <2>2, <2>3, <2>4, <2>5
<1>5. CASE ReadSources \/ SourcesRead \/ AwaitConfirmation
           \/ \E result \in {"clean", "open"} : Preflight(result)
  BY <1>5, <1>same DEF ReadSources, SourcesRead, AwaitConfirmation, Preflight
<1>6. CASE Validated \/ Prepare \/ Prepared \/ Implement \/ Implemented \/ Exhausted
  <2>1. CASE Validated
    BY <2>1, <1>same DEF Validated
  <2>2. CASE Prepare
    BY <2>2, <1>same DEF Prepare
  <2>3. CASE Prepared
    BY <2>3, <1>same DEF Prepared
  <2>4. CASE Implement
    BY <2>4, <1>same DEF Implement
  <2>5. CASE Implemented
    BY <2>5, <1>same DEF Implemented
  <2>6. CASE Exhausted
    BY <2>6, <1>same DEF Exhausted
  <2> QED
    BY <1>6, <2>1, <2>2, <2>3, <2>4, <2>5, <2>6
<1>7. CASE Repair \/ AgentFails \/ BeginTests \/ (\E passed \in BOOLEAN : EndTests(passed))
  BY <1>7, <1>same DEF Repair, AgentFails, BeginTests, EndTests
<1>8. CASE SnapshotTested \/ EndGroupTests \/ Analysed \/ EvidenceChanged \/ BeginReview
  <2>1. CASE SnapshotTested
    BY <2>1, <1>same DEF SnapshotTested
  <2>2. CASE EndGroupTests
    BY <2>2, <1>same DEF EndGroupTests
  <2>3. CASE Analysed
    BY <2>3, <1>same DEF Analysed
  <2>4. CASE EvidenceChanged
    BY <2>4, <1>same DEF EvidenceChanged
  <2>5. CASE BeginReview
    BY <2>5, <1>same DEF BeginReview
  <2> QED
    BY <1>8, <2>1, <2>2, <2>3, <2>4, <2>5
<1>9. CASE \/ \E open \in BOOLEAN, needs \in SUBSET Needs : EndReview(open, needs)
           \/ ChecksBlock \/ Package \/ Packaged
  BY <1>9, <1>same DEF EndReview, ChecksBlock, Package, Packaged
<1>10. CASE (\E kind \in {"single", "group"} : Confirm(kind)) \/ Resume \/ Revise
            \/ BlockForRevision \/ SaveFeedback
  BY <1>10, <1>same DEF Confirm, Resume, Revise, BlockForRevision, SaveFeedback
<1>11. ASSUME NEW n \in Needs, NEW byNode, NEW result, AddResult(n, byNode, result) PROVE Survive
  BY <1>11, <1>same DEF AddResult
<1>12. ASSUME NEW n \in Needs, NEW passed \in BOOLEAN, Attest(n, passed) PROVE Survive
  BY <1>11, <1>12 DEF Attest
<1>13. ASSUME NEW n \in Needs, NEW result \in {"passed", "failed", "error"}, EndVerify(n, result)
       PROVE Survive
  BY <1>11, <1>13 DEF EndVerify
<1>14. CASE Withdraw \/ Publish \/ Cancel \/ Crash \/ Edit \/ Configure
  <2>1. CASE Withdraw
    BY <2>1, <1>same DEF Withdraw
  <2>2. CASE Publish
    BY <2>2, <1>same DEF Publish
  <2>3. CASE Cancel
    BY <2>3, <1>same DEF Cancel
  <2>4. CASE Crash
    BY <2>4, <1>same DEF Crash
  <2>5. CASE Edit
    BY <2>5, <1>same DEF Edit
  <2>6. CASE Configure
    BY <2>6, <1>same DEF Configure
  <2> QED
    BY <1>14, <2>1, <2>2, <2>3, <2>4, <2>5, <2>6
<1> QED
  BY <1>1, <1>2, <1>3, <1>4, <1>5, <1>6, <1>7, <1>8, <1>9, <1>10, <1>12, <1>13, <1>14
  DEF Next, Execute, Command

(* No block, later review, revision or new test makes a planned check        *)
(* disappear, wherever a command is interrupted.                             *)
THEOREM NoCheckIsDropped == Spec => ChecksSurvive
<1>1. Always /\ [Next]_vars =>
        [~Replan => \A t \in run.plan : \E u \in run'.plan : u.need = t.need]_vars
  BY SurviveStep
<1> QED
  BY <1>1, AlwaysInvariant, PTL DEF Spec, ChecksSurvive

-----------------------------------------------------------------------------
(* What a package rests on, without the two crash windows.                  *)
LEMMA KeptInit == Init => Kept
BY RequirementAssumption
   DEF RequirementAssumption, Init, Kept, ReviewKept, ContentKept, HeardKept, In, Early, Late,
       NoReview, NoPackage, PackageWasTested, Offered

LEMMA KeptStep ==
    ASSUME Always, Always', Kept, [Next]_vars
    PROVE  Kept'
<1> USE RequirementAssumption
    DEF RequirementAssumption, ResetCompletes, QuietTests, Always, Shape, TestsKept, PlanKept, ReviewFollowsTests,
        Kept, ReviewKept, ContentKept, HeardKept, PackageWasTested, Offered, In, Early,
        Fields, Late, Contents, Stages, At, Go, Move, Block, world, local, history
<1>0. NoPackage.of = None /\ NoPackage.diff = None
  BY DEF NoPackage
<1>1. CASE UNCHANGED vars
  BY <1>1 DEF vars
<1>2. CASE Unblock
  BY <1>2 DEF Unblock
<1>3. CASE Reset
  BY <1>0, <1>3 DEF Reset, AfterReset
<1>4. CASE StartReading
  BY <1>4 DEF StartReading
<1>5. CASE Fail
  BY <1>5 DEF Fail, MayFail
<1>6. CASE Escape
  BY <1>6 DEF Escape
<1>7. CASE ReadSources \/ SourcesRead \/ AwaitConfirmation
  <2>1. CASE ReadSources
    BY <2>1, <1>0 DEF ReadSources
  <2>2. CASE SourcesRead
    BY <2>2, <1>0 DEF SourcesRead
  <2>3. CASE AwaitConfirmation
    BY <2>3, <1>0 DEF AwaitConfirmation
  <2> QED
    BY <1>7, <2>1, <2>2, <2>3
<1>8. ASSUME NEW result \in {"clean", "open"}, Preflight(result) PROVE Kept'
  BY <1>8 DEF Preflight
<1>9. CASE Validated \/ Prepare \/ Prepared
  <2>1. CASE Validated
    BY <2>1, <1>0 DEF Validated
  <2>2. CASE Prepare
    BY <2>2, <1>0 DEF Prepare
  <2>3. CASE Prepared
    BY <2>3, <1>0 DEF Prepared
  <2> QED
    BY <1>9, <2>1, <2>2, <2>3
<1>10. CASE Implement \/ Repair
  <2>1. CASE Implement
    BY <2>1 DEF Implement, Write
  <2>2. CASE Repair
    BY <2>2 DEF Repair, Write
  <2> QED
    BY <1>10, <2>1, <2>2
<1>11. CASE AgentFails
  BY <1>11 DEF AgentFails, Write
<1>12. CASE Implemented \/ Exhausted \/ BeginTests
  <2>1. CASE Implemented
    BY <2>1, <1>0 DEF Implemented
  <2>2. CASE Exhausted
    BY <2>2, <1>0 DEF Exhausted
  <2>3. CASE BeginTests
    BY <2>3, <1>0 DEF BeginTests
  <2> QED
    BY <1>12, <2>1, <2>2, <2>3
<1>13. ASSUME NEW passed \in BOOLEAN, EndTests(passed) PROVE Kept'
  BY <1>13 DEF EndTests, AfterTests, PassedOn
<1>14. CASE SnapshotTested \/ EndGroupTests \/ Analysed
  <2>1. CASE SnapshotTested
    BY <2>1, <1>0 DEF SnapshotTested
  <2>2. CASE EndGroupTests
    BY <2>2, <1>0 DEF EndGroupTests, PassedOn
  <2>3. CASE Analysed
    BY <2>3, <1>0 DEF Analysed
  <2> QED
    BY <1>14, <2>1, <2>2, <2>3
<1>15. CASE EvidenceChanged \/ BeginReview
  <2>1. CASE EvidenceChanged
    BY <2>1, <1>0 DEF EvidenceChanged, EvidenceUnchanged
  <2>2. CASE BeginReview
    BY <2>2, <1>0 DEF BeginReview
  <2> QED
    BY <1>15, <2>1, <2>2
<1>16. ASSUME NEW open \in BOOLEAN, NEW needs \in SUBSET Needs, EndReview(open, needs)
       PROVE Kept'
  BY <1>16 DEF EndReview, EvidenceUnchanged
<1>17. CASE PlanChecks
  BY <1>17 DEF PlanChecks, EvidenceUnchanged
<1>18. CASE ChecksBlock \/ Package \/ Packaged
  <2>1. CASE ChecksBlock
    BY <2>1, <1>0 DEF ChecksBlock
  <2>2. CASE Package
    BY <2>2, <1>0 DEF Package
  <2>3. CASE Packaged
    BY <2>3, <1>0 DEF Packaged
  <2> QED
    BY <1>18, <2>1, <2>2, <2>3
<1>19. ASSUME NEW kind \in {"single", "group"}, Confirm(kind) PROVE Kept'
  BY <1>19 DEF Confirm
<1>20. CASE Resume \/ Revise \/ BlockForRevision \/ SaveFeedback
  <2>1. CASE Resume
    BY <2>1, <1>0 DEF Resume
  <2>2. CASE Revise
    <3>1. CASE run' = Move(run.resume)
      BY <2>2, <3>1 DEF Revise
    <3>2. CASE run' = run
      BY <2>2, <3>2 DEF Revise
    <3> QED
      BY <2>2, <3>1, <3>2 DEF Revise
  <2>3. CASE BlockForRevision
    BY <2>3, <1>0 DEF BlockForRevision
  <2>4. CASE SaveFeedback
    BY <2>4, <1>0 DEF SaveFeedback
  <2> QED
    BY <1>20, <2>1, <2>2, <2>3, <2>4
<1>21. ASSUME NEW n \in Needs, NEW byNode \in BOOLEAN, NEW result, AddResult(n, byNode, result),
              run.state = "BLOCKED", UNCHANGED <<diff, seen, passedOn, heard>>
       PROVE Kept'
  BY <1>21 DEF AddResult
<1>22. ASSUME NEW n \in Needs, NEW passed \in BOOLEAN, Attest(n, passed) PROVE Kept'
  BY <1>21, <1>22 DEF Attest, MayVerify
<1>23. ASSUME NEW n \in Needs, BeginVerify(n) PROVE Kept'
  BY <1>23 DEF BeginVerify, MayVerify
<1>24. ASSUME NEW n \in Needs, NEW result \in {"passed", "failed", "error"}, EndVerify(n, result)
       PROVE Kept'
  BY <1>21, <1>24 DEF EndVerify
<1>25. CASE Replan \/ Approve \/ Withdraw
  <2>1. CASE Replan
    BY <2>1, <1>0 DEF Replan
  <2>2. CASE Approve
    <3>1. CASE ChecksMoved
      <4>1. /\ pc' = "withdraw" /\ run'.approval = NoPackage
            /\ UNCHANGED <<diff, seen, passedOn, heard>>
        BY <2>2, <3>1 DEF Approve
      <4>2. /\ run'.state = run.state /\ run'.resume = run.resume /\ run'.coded = run.coded
            /\ run'.tested = run.tested /\ run'.review = run.review
        <5>1. run' = [run EXCEPT !.approval = NoPackage, !.plan = Tasks]
          BY <2>2, <3>1 DEF Approve
        <5>2. DOMAIN run = Fields
          OBVIOUS
        <5> HIDE DEF Always, Kept
        <5> QED
          BY <5>1, <5>2
      <4>3. run.state = "WAITING_APPROVAL"
        BY <2>2 DEF Approve
      <4> QED
        BY <4>1, <4>2, <4>3, <1>0
    <3>2. CASE ~ChecksMoved
      BY <2>2, <3>2 DEF Approve
    <3> QED
      BY <3>1, <3>2
  <2>3. CASE Withdraw
    BY <2>3, <1>0 DEF Withdraw
  <2> QED
    BY <1>25, <2>1, <2>2, <2>3
<1>26. CASE Publish \/ Cancel
  <2>1. CASE Publish
    <3>1. CASE run' = Move("PUBLISHING")
      BY <2>1, <3>1 DEF Publish
    <3>2. CASE run' = run
      BY <2>1, <3>2 DEF Publish
    <3> QED
      BY <2>1, <3>1, <3>2 DEF Publish
  <2>2. CASE Cancel
    BY <2>2, <1>0 DEF Cancel
  <2> QED
    BY <1>26, <2>1, <2>2
<1>27. CASE Crash \/ Edit \/ Configure
  <2>1. CASE Crash
    BY <2>1 DEF Crash
  <2>2. CASE Edit
    BY <2>2 DEF Edit
  <2>3. CASE Configure
    BY <2>3 DEF Configure
  <2> QED
    BY <1>27, <2>1, <2>2, <2>3
<1> QED
  BY <1>1, <1>2, <1>3, <1>4, <1>5, <1>6, <1>7, <1>8, <1>9, <1>10, <1>11, <1>12, <1>13, <1>14,
     <1>15, <1>16, <1>17, <1>18, <1>19, <1>20, <1>22, <1>23, <1>24, <1>25, <1>26, <1>27
  DEF Next, Execute, Command

LEMMA KeptInvariant == Spec => []Kept
<1>1. Always /\ Always' /\ Kept /\ [Next]_vars => Kept'
  BY KeptStep
<1> QED
  BY <1>1, KeptInit, AlwaysInvariant, PTL DEF Spec

(* A package offered to a person, or handed to the publisher, is of changes  *)
(* on which the configured tests passed in exactly this content.             *)
THEOREM OffersTested == ASSUME QuietTests PROVE Spec => []PackageWasTested
<1>1. Kept => PackageWasTested
  BY DEF Kept, ContentKept
<1> QED
  BY <1>1, KeptInvariant, PTL

(* The review in a package is of the content it offers: no implementation or *)
(* repair inherits the review of an earlier one.                             *)
THEOREM OffersReviewed == ASSUME ResetCompletes PROVE Spec => []PackageWasReviewed
<1>1. Kept => PackageWasReviewed
  BY DEF Kept, ReviewKept, PackageWasReviewed
<1> QED
  BY <1>1, KeptInvariant, PTL

(* What is offered after a revision was made by an agent that had its        *)
(* feedback.                                                                 *)
THEOREM OffersHeard == ASSUME ResetCompletes PROVE Spec => []FeedbackHeard
<1>1. Kept => FeedbackHeard
  BY DEF Kept, HeardKept, FeedbackHeard, Offered
<1> QED
  BY <1>1, KeptInvariant, PTL

-----------------------------------------------------------------------------
(* The external checks: what the records of verification say, and what a     *)
(* plan and a package make of them.                                         *)
RecordFields == {"need", "on", "node", "last", "status"}

\* A last result is what is attested; nothing follows a person's pass, and a
\* node's result that is no longer the last was followed by a person's.
RecordsKept ==
    /\ \A r \in run.records :
          /\ r = [f \in RecordFields |-> r[f]] /\ r.last \in BOOLEAN /\ r.node \in BOOLEAN
          /\ r.status = "passed" /\ r.last = TRUE => <<r.need, r.on>> \in attested
          /\ r.status = "passed" /\ r.node = FALSE => r.last = TRUE
          /\ r.last = FALSE /\ r.node = TRUE =>
                \E s \in run.records : s.need = r.need /\ s.on = r.on /\ s.node = FALSE
    /\ pc = "verifying" => \A n \in task : \A r \in run.records :
          SameCheck(r, n) /\ r.node = FALSE => r.status # "passed"

\* A plan covers the review once, and knows what passed on the content.
PlanSound(content) ==
    /\ run.review # NoReview
    /\ run.review.needs \subseteq {t.need : t \in run.plan}
    /\ \A t, u \in run.plan : t.need = u.need => t = u
    /\ \A t \in run.plan : t.status = "passed" => <<t.need, content>> \in attested

Accounted ==
    /\ run.review # NoReview
    /\ run.approval.passed \cup run.approval.deferred = Obligations
    /\ run.approval.passed \cap run.approval.deferred = {}
    /\ \A n \in run.approval.passed : <<n, run.approval.diff>> \in attested
    /\ run.approval.deferred # {} => defer

\* No crash between withdrawing a package and blocking the run.
WithdrawCompletes == "withdraw" \in NoCrashAt

ChecksKept ==
    /\ RecordsKept
    /\ pc = "planned" => PlanSound(seen)
    /\ pc = "packaged" => Accounted
    /\ WithdrawCompletes => (Offered => Accounted)

(* A check that a plan calls passed has a pass as its last result on the     *)
(* tested content.                                                          *)
LEMMA PassedIsAttested ==
    ASSUME RecordsKept, NEW n, Status(n) = "passed"
    PROVE  <<n, run.tested>> \in attested
<1>1. PICK r \in Newest(n) : r.status = "passed"
  BY DEF Status
<1>2. r \in run.records /\ r.need = n /\ r.on = run.tested /\ (r.node => n \in nodes)
  BY <1>1 DEF Newest, Results, Counts
<1>3. CASE r.last = TRUE
  BY <1>1, <1>2, <1>3 DEF RecordsKept
<1>4. CASE r.last # TRUE
  <2>1. r.last = FALSE /\ r.node = TRUE /\ Results(n) = {r}
    BY <1>1, <1>2, <1>4 DEF RecordsKept, Newest
  <2>2. PICK s \in run.records : s.need = r.need /\ s.on = r.on /\ s.node = FALSE
    BY <1>2, <2>1 DEF RecordsKept
  <2>3. s \in Results(n)
    BY <1>2, <2>2 DEF Results, Counts
  <2> QED
    BY <2>1, <2>2, <2>3
<1> QED
  BY <1>3, <1>4

(* What a person has attested on the tested content is not asked for again.  *)
LEMMA PassedIsNotAsked ==
    ASSUME RecordsKept, NEW n, Status(n) # "passed", NEW r \in run.records, SameCheck(r, n),
           r.node = FALSE
    PROVE  r.status # "passed"
<1> SUFFICES ASSUME r.status = "passed"
             PROVE  FALSE
  OBVIOUS
<1>1. r.last = TRUE
  BY DEF RecordsKept
<1>2. r \in Newest(n)
  BY <1>1 DEF Newest, Results, Counts, SameCheck
<1> QED
  BY <1>2 DEF Status

LEMMA RecordAdded ==
    ASSUME Always, RecordsKept, NEW n \in Needs, NEW byNode \in BOOLEAN, NEW result,
           AddResult(n, byNode, result), result = "passed" => EvidenceUnchanged,
           \A r \in run.records : SameCheck(r, n) /\ r.node = FALSE => r.status # "passed"
    PROVE  RecordsKept'
<1> DEFINE new == [need |-> n, on |-> run.tested, node |-> byNode, last |-> TRUE,
                   status |-> IF result = "passed" THEN "passed" ELSE "failed"]
           Again(r) == [r EXCEPT !.last = @ /\ ~SameCheck(r, n)]
<1>1. run'.records = Remaining(n, byNode) \cup {new} /\ pc' = "unblock"
  BY DEF AddResult, Always, Shape, Fields, Go
<1>2. ASSUME NEW r \in run.records
      PROVE  /\ Again(r) = [f \in RecordFields |-> Again(r)[f]]
             /\ Again(r).need = r.need /\ Again(r).on = r.on /\ Again(r).node = r.node
             /\ Again(r).status = r.status
             /\ Again(r).last = (IF SameCheck(r, n) THEN FALSE ELSE r.last)
  <2>1. r = [f \in RecordFields |-> r[f]] /\ r.last \in BOOLEAN
    BY DEF RecordsKept
  <2>2. PICK b \in BOOLEAN : b = (r.last /\ ~SameCheck(r, n))
    BY <2>1
  <2>3. Again(r) = [r EXCEPT !.last = b]
    BY <2>2
  <2>4. b = (IF SameCheck(r, n) THEN FALSE ELSE r.last)
    <3>1. CASE SameCheck(r, n)
      BY <2>2, <3>1
    <3>2. CASE ~SameCheck(r, n)
      BY <2>1, <2>2, <3>2
    <3> QED
      BY <3>1, <3>2
  <2> HIDE DEF Again
  <2>5. /\ Again(r) = [f \in RecordFields |-> Again(r)[f]]
        /\ Again(r).need = r.need /\ Again(r).on = r.on /\ Again(r).node = r.node
        /\ Again(r).status = r.status /\ Again(r).last = b
    BY <2>1, <2>3 DEF RecordFields
  <2> QED
    BY <2>4, <2>5
<1>3. \A q \in run'.records : q = new \/ \E r \in run.records :
          q = Again(r) /\ ~(SameCheck(r, n) /\ r.node = byNode)
  BY <1>1 DEF Remaining
<1>4. \A r \in run.records : ~(SameCheck(r, n) /\ r.node = byNode) => Again(r) \in run'.records
  BY <1>1 DEF Remaining
<1>5. /\ new \in run'.records /\ new = [f \in RecordFields |-> new[f]]
      /\ new.need = n /\ new.on = run.tested /\ new.node = byNode /\ new.last = TRUE
      /\ new.status = "passed" => result = "passed"
  BY <1>1 DEF RecordFields
<1>6. /\ result = "passed" => attested' = attested \cup {<<n, run.tested>>}
      /\ result # "passed" => attested' = attested \ {<<n, run.tested>>}
  BY DEF AddResult, EvidenceUnchanged
<1> HIDE DEF new, Again
<1>7. ASSUME NEW q \in run'.records
      PROVE  /\ q = [f \in RecordFields |-> q[f]] /\ q.last \in BOOLEAN /\ q.node \in BOOLEAN
             /\ q.status = "passed" /\ q.last = TRUE => <<q.need, q.on>> \in attested'
             /\ q.status = "passed" /\ q.node = FALSE => q.last = TRUE
             /\ q.last = FALSE /\ q.node = TRUE =>
                   \E s \in run'.records : s.need = q.need /\ s.on = q.on /\ s.node = FALSE
  <2>1. CASE q = new
    BY <1>5, <1>6, <2>1
  <2>2. CASE q # new
    <3>1. PICK r \in run.records : q = Again(r) /\ ~(SameCheck(r, n) /\ r.node = byNode)
      BY <1>3, <2>2
    <3>2. /\ q = [f \in RecordFields |-> q[f]] /\ q.need = r.need /\ q.on = r.on /\ q.node = r.node
          /\ q.status = r.status /\ q.last = (IF SameCheck(r, n) THEN FALSE ELSE r.last)
      BY <1>2, <3>1
    <3>3. q.last \in BOOLEAN /\ q.node \in BOOLEAN
      BY <3>2 DEF RecordsKept
    <3>4. q.status = "passed" /\ q.last = TRUE => <<q.need, q.on>> \in attested'
      <4>1. SUFFICES ASSUME q.status = "passed", q.last = TRUE
                     PROVE  <<q.need, q.on>> \in attested'
        OBVIOUS
      <4>2. ~SameCheck(r, n) /\ r.last = TRUE /\ <<r.need, r.on>> \in attested
        <5>1. CASE SameCheck(r, n)
          BY <3>2, <4>1, <5>1
        <5>2. CASE ~SameCheck(r, n)
          <6>1. r.last = TRUE /\ r.status = "passed"
            BY <3>2, <4>1, <5>2
          <6>2. <<r.need, r.on>> \in attested
            BY <6>1 DEF RecordsKept
          <6> QED
            BY <5>2, <6>1, <6>2
        <5> QED
          BY <5>1, <5>2
      <4>3. <<r.need, r.on>> # <<n, run.tested>>
        BY <4>2 DEF SameCheck
      <4> QED
        BY <1>6, <3>2, <4>2, <4>3
    <3>5. q.status = "passed" /\ q.node = FALSE => q.last = TRUE
      BY <3>2 DEF RecordsKept
    <3>6. ASSUME q.last = FALSE, q.node = TRUE
          PROVE  \E s \in run'.records : s.need = q.need /\ s.on = q.on /\ s.node = FALSE
      <4>1. CASE SameCheck(r, n)
        <5>1. byNode = FALSE
          BY <3>1, <3>2, <3>6, <4>1
        <5> QED
          BY <1>5, <3>2, <4>1, <5>1 DEF SameCheck
      <4>2. CASE ~SameCheck(r, n)
        <5>1. PICK s \in run.records : s.need = r.need /\ s.on = r.on /\ s.node = FALSE
          BY <3>2, <3>6, <4>2 DEF RecordsKept
        <5>2. ~SameCheck(s, n)
          BY <4>2, <5>1 DEF SameCheck
        <5> QED
          BY <1>2, <1>4, <3>2, <5>1, <5>2
      <4> QED
        BY <4>1, <4>2
    <3> QED
      BY <3>2, <3>3, <3>4, <3>5, <3>6
  <2> QED
    BY <2>1, <2>2
<1> QED
  BY <1>1, <1>7 DEF RecordsKept


LEMMA ChecksStep ==
    ASSUME Always, Always', ChecksKept, [Next]_vars
    PROVE  ChecksKept'
<1>1. ASSUME run'.records = run.records, attested' = attested,
             pc' = "verifying" => pc = "verifying" /\ run'.tested = run.tested /\ task' = task
      PROVE  RecordsKept'
  BY <1>1 DEF ChecksKept, RecordsKept, SameCheck
<1>2. ASSUME run'.review = run.review, run'.plan = run.plan, run'.approval = run.approval,
             attested' = attested, defer' = defer
      PROVE  Accounted => Accounted'
  BY <1>2 DEF Accounted, Obligations
\* Most steps record nothing, plan nothing and offer nothing.
<1>3. ASSUME run'.records = run.records, attested' = attested,
             pc' \notin {"verifying", "planned", "packaged"},
             run'.state \notin {"WAITING_APPROVAL", "PUBLISHING"}
      PROVE  ChecksKept'
  BY <1>1, <1>3 DEF ChecksKept, Offered
\* Others leave the package and what it rests on as it is.
<1>4. ASSUME run'.records = run.records, attested' = attested, defer' = defer,
             run'.review = run.review, run'.plan = run.plan, run'.approval = run.approval,
             pc' \notin {"verifying", "planned", "packaged"},
             WithdrawCompletes /\ Offered' => Accounted
      PROVE  ChecksKept'
  BY <1>1, <1>2, <1>4 DEF ChecksKept
<1>5. CASE UNCHANGED <<run, pc, defer, attested, seen, task>>
  BY <1>1, <1>2, <1>5 DEF ChecksKept, PlanSound, Offered
<1>11. CASE Unblock
  BY <1>3, <1>11 DEF Unblock, Go, Move, Block, At, Always, Shape, Fields, Stages, world, local, history
<1>12. CASE StartReading
  BY <1>3, <1>12 DEF StartReading, Go, Move, Block, At, Always, Shape, Fields, Stages, world, local, history
<1>13. CASE Fail
  BY <1>3, <1>13 DEF Fail, MayFail, Go, Move, Block, At, Always, Shape, Fields, Stages, world, local, history
<1>14. CASE Escape
  BY <1>3, <1>14 DEF Escape, Go, Move, Block, At, Always, Shape, Fields, Stages, world, local, history
<1>15. CASE ReadSources
  BY <1>3, <1>15 DEF ReadSources, Go, Move, Block, At, Always, Shape, Fields, Stages, world, local, history
<1>16. CASE SourcesRead
  BY <1>3, <1>16 DEF SourcesRead, Go, Move, Block, At, Always, Shape, Fields, Stages, world, local, history
<1>17. CASE AwaitConfirmation
  BY <1>3, <1>17 DEF AwaitConfirmation, Go, Move, Block, At, Always, Shape, Fields, Stages, world, local, history
<1>18. CASE Validated
  BY <1>3, <1>18 DEF Validated, Go, Move, Block, At, Always, Shape, Fields, Stages, world, local, history
<1>19. CASE Prepare
  BY <1>3, <1>19 DEF Prepare, Go, Move, Block, At, Always, Shape, Fields, Stages, world, local, history
<1>20. CASE Prepared
  BY <1>3, <1>20 DEF Prepared, Go, Move, Block, At, Always, Shape, Fields, Stages, world, local, history
<1>21. CASE Implement
  BY <1>3, <1>21 DEF Implement, Go, Move, Block, At, Always, Shape, Fields, Stages, world, local, history
<1>22. CASE Implemented
  BY <1>3, <1>22 DEF Implemented, Go, Move, Block, At, Always, Shape, Fields, Stages, world, local, history
<1>23. CASE Exhausted
  BY <1>3, <1>23 DEF Exhausted, Go, Move, Block, At, Always, Shape, Fields, Stages, world, local, history
<1>24. CASE Repair
  BY <1>3, <1>24 DEF Repair, Go, Move, Block, At, Always, Shape, Fields, Stages, world, local, history
<1>25. CASE AgentFails
  BY <1>3, <1>25 DEF AgentFails, Go, Move, Block, At, Always, Shape, Fields, Stages, world, local, history
<1>26. CASE BeginTests
  BY <1>3, <1>26 DEF BeginTests, Go, Move, Block, At, Always, Shape, Fields, Stages, world, local, history
<1>27. CASE SnapshotTested
  BY <1>3, <1>27 DEF SnapshotTested, Go, Move, Block, At, Always, Shape, Fields, Stages, world, local, history
<1>28. CASE EndGroupTests
  BY <1>3, <1>28 DEF EndGroupTests, Go, Move, Block, At, Always, Shape, Fields, Stages, world, local, history
<1>29. CASE Analysed
  BY <1>3, <1>29 DEF Analysed, Go, Move, Block, At, Always, Shape, Fields, Stages, world, local, history
<1>30. CASE EvidenceChanged
  BY <1>3, <1>30 DEF EvidenceChanged, Go, Move, Block, At, Always, Shape, Fields, Stages, world, local, history
<1>31. CASE BeginReview
  BY <1>3, <1>31 DEF BeginReview, Go, Move, Block, At, Always, Shape, Fields, Stages, world, local, history
<1>32. CASE ChecksBlock
  BY <1>3, <1>32 DEF ChecksBlock, Go, Move, Block, At, Always, Shape, Fields, Stages, world, local, history
<1>33. CASE Resume
  BY <1>3, <1>33 DEF Resume, Go, Move, Block, At, Always, Shape, Fields, Stages, world, local, history
<1>34. CASE Revise
  BY <1>3, <1>34 DEF Revise, Go, Move, Block, At, Always, Shape, Fields, Stages, world, local, history
<1>35. CASE BlockForRevision
  BY <1>3, <1>35 DEF BlockForRevision, Go, Move, Block, At, Always, Shape, Fields, Stages, world, local, history
<1>36. CASE SaveFeedback
  BY <1>3, <1>36 DEF SaveFeedback, Go, Move, Block, At, Always, Shape, Fields, Stages, world, local, history
<1>37. CASE Replan
  BY <1>3, <1>37 DEF Replan, Go, Move, Block, At, Always, Shape, Fields, Stages, world, local, history
<1>38. CASE Withdraw
  BY <1>3, <1>38 DEF Withdraw, Go, Move, Block, At, Always, Shape, Fields, Stages, world, local, history
<1>39. CASE Cancel
  BY <1>3, <1>39 DEF Cancel, Go, Move, Block, At, Always, Shape, Fields, Stages, world, local, history
<1>40. CASE \E result \in {"clean", "open"} : Preflight(result)
  BY <1>3, <1>40 DEF Preflight, AfterTests, Go, Move, Block, At, Always, Shape, Fields, Stages, world, local, history
<1>41. CASE \E passed \in BOOLEAN : EndTests(passed)
  BY <1>3, <1>41 DEF EndTests, AfterTests, Go, Move, Block, At, Always, Shape, Fields, Stages, world, local, history
<1>42. CASE \E open \in BOOLEAN, needs \in SUBSET Needs : EndReview(open, needs)
  BY <1>3, <1>42 DEF EndReview, AfterTests, Go, Move, Block, At, Always, Shape, Fields, Stages, world, local, history
<1>43. CASE \E kind \in {"single", "group"} : Confirm(kind)
  BY <1>3, <1>43 DEF Confirm, AfterTests, Go, Move, Block, At, Always, Shape, Fields, Stages, world, local, history
<1>44. CASE Reset
  <2>1. /\ run'.records = run.records /\ run'.state = run.state /\ pc' = "run" /\ pc = "reset"
        /\ attested' = attested /\ defer' = defer
    BY <1>44 DEF Reset, AfterReset, Go, Always, Shape, Fields, world, history
  <2>2. CASE run.state \in {"WAITING_APPROVAL", "PUBLISHING"}
    <3>1. run' = run
      BY <1>44, <2>2 DEF Reset, AfterReset
    <3> QED
      BY <1>4, <2>1, <3>1 DEF ChecksKept, Offered
  <2> QED
    BY <1>3, <2>1, <2>2
<1>45. CASE PlanChecks
  <2>1. /\ run' = [run EXCEPT !.plan = Tasks] /\ run.review # NoReview /\ run.tested = diff
        /\ seen' = diff /\ pc' = "planned" /\ run.state = "AI_REVIEW" /\ UNCHANGED attested
        /\ pc \notin {"verifying"} /\ pc' # "verifying"
    <3>1. run.review # NoReview
      BY <1>45 DEF PlanChecks, Always, PlanKept, At
    <3> QED
      BY <1>45, <3>1 DEF PlanChecks, At, EvidenceUnchanged, Go, world, history
  <2>2. /\ run'.plan = Tasks /\ run'.review = run.review /\ run'.records = run.records
        /\ run'.state = "AI_REVIEW"
    BY <2>1 DEF Always, Shape, Fields
  <2>3. RecordsKept'
    BY <1>1, <2>1, <2>2
  <2>4. \A t \in Tasks : /\ t.need \in Obligations
                         /\ t.status = Status(t.need)
                         /\ t = [need |-> t.need, on |-> run.tested, status |-> Status(t.need),
                                 node |-> t.need \in nodes]
    <3>1. SUFFICES ASSUME NEW t \in Tasks
                   PROVE  /\ t.need \in Obligations
                          /\ t.status = Status(t.need)
                          /\ t = [need |-> t.need, on |-> run.tested, status |-> Status(t.need),
                                  node |-> t.need \in nodes]
      OBVIOUS
    <3> DEFINE Told(n) == [need |-> n, on |-> run.tested, status |-> Status(n), node |-> n \in nodes]
    <3>2. PICK n \in Obligations : t = Told(n)
      <4>1. Tasks = {Told(n) : n \in Obligations}
        BY DEF Tasks
      <4> HIDE DEF Told
      <4> QED
        BY <4>1
    <3>3. t.need = n /\ t.status = Status(n)
      BY <3>2
    <3> QED
      BY <3>2, <3>3
  <2>5. \A n \in Obligations : \E t \in Tasks : t.need = n
    <3> DEFINE Told(n) == [need |-> n, on |-> run.tested, status |-> Status(n), node |-> n \in nodes]
    <3>1. Tasks = {Told(n) : n \in Obligations}
      BY DEF Tasks
    <3>2. \A n \in Obligations : Told(n).need = n
      OBVIOUS
    <3> HIDE DEF Told
    <3> QED
      BY <3>1, <3>2
  <2>6. run.review.needs \subseteq Obligations
    BY <2>1 DEF Obligations
  <2>7. ASSUME NEW t \in Tasks, t.status = "passed"
        PROVE  <<t.need, diff>> \in attested
    BY <2>1, <2>4, <2>7, PassedIsAttested DEF ChecksKept
  <2>8. run.review.needs \subseteq {t.need : t \in Tasks}
    BY <2>5, <2>6
  <2>9. \A t, u \in Tasks : t.need = u.need => t = u
    <3>1. SUFFICES ASSUME NEW t \in Tasks, NEW u \in Tasks, t.need = u.need
                   PROVE  t = u
      OBVIOUS
    <3> QED
      BY <2>4, <3>1
  <2> HIDE DEF Tasks
  <2>10. PlanSound(seen)'
    BY <2>1, <2>2, <2>7, <2>8, <2>9 DEF PlanSound
  <2> QED
    BY <2>1, <2>2, <2>3, <2>10 DEF ChecksKept, Offered
<1>46. CASE Package
  <2>1. /\ PlanSound(seen) /\ ~Blocking(run.plan) /\ pc' = "packaged" /\ run.state = "AI_REVIEW"
        /\ UNCHANGED <<attested, defer>>
    BY <1>46 DEF Package, ChecksKept, At, Go, world, history
  <2>2. /\ run'.approval.diff = seen /\ run'.approval.passed = PlannedAs(TRUE)
        /\ run'.approval.deferred = PlannedAs(FALSE)
        /\ run'.plan = run.plan /\ run'.review = run.review /\ run'.records = run.records
        /\ run'.state = run.state
    BY <1>46 DEF Package, Always, Shape, Fields
  <2>3. /\ \A m \in PlannedAs(TRUE) : \E t \in run.plan : t.need = m /\ t.status = "passed"
        /\ \A m \in PlannedAs(FALSE) : \E t \in run.plan : t.need = m /\ t.status # "passed"
        /\ \A t \in run.plan : t.need \in PlannedAs(TRUE) \cup PlannedAs(FALSE)
        /\ PlannedAs(TRUE) \cup PlannedAs(FALSE) \subseteq {t.need : t \in run.plan}
    BY DEF PlannedAs
  <2> HIDE DEF PlannedAs
  <2>4. PlannedAs(TRUE) \cap PlannedAs(FALSE) = {}
    <3>1. SUFFICES ASSUME NEW m \in PlannedAs(TRUE), m \in PlannedAs(FALSE)
                   PROVE  FALSE
      OBVIOUS
    <3>2. PICK t \in run.plan : t.need = m /\ t.status = "passed"
      BY <2>3
    <3>3. PICK u \in run.plan : u.need = m /\ u.status # "passed"
      BY <2>3, <3>1
    <3> QED
      BY <2>1, <3>2, <3>3 DEF PlanSound
  <2>5. \A m \in PlannedAs(TRUE) : <<m, seen>> \in attested
    BY <2>1, <2>3 DEF PlanSound
  <2>6. PlannedAs(FALSE) # {} => defer
    BY <2>1, <2>3 DEF Blocking
  <2>7. Obligations' = {t.need : t \in run.plan}
    BY <2>1, <2>2 DEF Obligations, PlanSound
  <2>8. PlannedAs(TRUE) \cup PlannedAs(FALSE) = {t.need : t \in run.plan}
    <3>1. \A m \in {t.need : t \in run.plan} : m \in PlannedAs(TRUE) \cup PlannedAs(FALSE)
      BY <2>3
    <3> QED
      BY <2>3, <3>1
  <2>9. Accounted'
    BY <2>1, <2>2, <2>4, <2>5, <2>6, <2>7, <2>8 DEF Accounted, PlanSound
  <2> QED
    BY <1>1, <2>1, <2>2, <2>9 DEF ChecksKept, Offered
<1>47. CASE Packaged \/ Publish
  BY <1>4, <1>47 DEF Packaged, Publish, Go, Move, At, Always, Shape, Fields, Stages, world, local, history,
     ChecksKept, Offered
<1>48. CASE Approve
  <2>1. CASE ChecksMoved
    <3>1. /\ pc' = "withdraw" /\ run'.records = run.records /\ run'.state = run.state
          /\ run.state = "WAITING_APPROVAL" /\ attested' = attested
      BY <1>48, <2>1 DEF Approve, At, Go, Always, Shape, Fields, history
    <3> QED
      BY <1>1, <3>1 DEF ChecksKept, Offered
  <2>2. CASE ~ChecksMoved
    BY <1>4, <1>48, <2>2 DEF Approve, At, Go, world, history, ChecksKept, Offered
  <2> QED
    BY <2>1, <2>2
<1>49. CASE Crash
  BY <1>4, <1>49 DEF Crash, Go, world, history, ChecksKept, Offered, WithdrawCompletes
<1>50. CASE Edit \/ Configure
  BY <1>5, <1>50 DEF Edit, Configure, local, history
<1>51. ASSUME NEW n \in Needs, NEW passed \in BOOLEAN, Attest(n, passed)
       PROVE  ChecksKept'
  <2>1. /\ run.state = "BLOCKED" /\ Status(n) # "passed" /\ EvidenceUnchanged
        /\ AddResult(n, FALSE, IF passed THEN "passed" ELSE "failed")
    BY <1>51 DEF Attest, MayVerify, At
  <2>2. RecordsKept'
    BY <2>1, PassedIsNotAsked, RecordAdded DEF ChecksKept
  <2>3. pc' = "unblock" /\ run'.state = "BLOCKED"
    BY <2>1 DEF AddResult, Go, Always, Shape, Fields
  <2> QED
    BY <2>2, <2>3 DEF ChecksKept, Offered
<1>52. ASSUME NEW n \in Needs, BeginVerify(n)
       PROVE  ChecksKept'
  <2>1. /\ run.state = "BLOCKED" /\ Status(n) # "passed" /\ task' = {n} /\ pc' = "verifying"
        /\ UNCHANGED attested
    BY <1>52 DEF BeginVerify, MayVerify, At, Go, history
  <2>2. run'.records = run.records /\ run'.tested = run.tested /\ run'.state = "BLOCKED"
    BY <1>52, <2>1 DEF BeginVerify, Always, Shape, Fields
  <2>3. \A r \in run.records : SameCheck(r, n) /\ r.node = FALSE => r.status # "passed"
    BY <2>1, PassedIsNotAsked DEF ChecksKept
  <2>4. RecordsKept'
    BY <2>1, <2>2, <2>3 DEF ChecksKept, RecordsKept, SameCheck
  <2> QED
    BY <2>1, <2>2, <2>4 DEF ChecksKept, Offered
<1>53. ASSUME NEW n \in Needs, NEW result \in {"passed", "failed", "error"}, EndVerify(n, result)
       PROVE  ChecksKept'
  <2>1. /\ run.state = "BLOCKED" /\ pc = "verifying" /\ n \in task
        /\ result = "passed" => EvidenceUnchanged
        /\ AddResult(n, TRUE, result)
    BY <1>53 DEF EndVerify, At
  <2>2. \A r \in run.records : SameCheck(r, n) /\ r.node = FALSE => r.status # "passed"
    BY <2>1 DEF ChecksKept, RecordsKept
  <2>3. RecordsKept'
    BY <2>1, <2>2, RecordAdded DEF ChecksKept
  <2>4. pc' = "unblock" /\ run'.state = "BLOCKED"
    BY <2>1 DEF AddResult, Go, Always, Shape, Fields
  <2> QED
    BY <2>3, <2>4 DEF ChecksKept, Offered
<1> QED
  BY <1>5, <1>11, <1>12, <1>13, <1>14, <1>15, <1>16, <1>17, <1>18, <1>19, <1>20, <1>21, <1>22, <1>23, <1>24, <1>25, <1>26, <1>27, <1>28, <1>29, <1>30, <1>31, <1>32, <1>33, <1>34, <1>35, <1>36, <1>37, <1>38, <1>39, <1>40, <1>41, <1>42, <1>43, <1>44, <1>45, <1>46, <1>47, <1>48, <1>49, <1>50, <1>51, <1>52, <1>53
  DEF Next, Execute, Command, vars, world, local, history

LEMMA ChecksInvariant == Spec => []ChecksKept
<1>1. Init => ChecksKept
  BY DEF Init, ChecksKept, RecordsKept, Offered
<1>2. Always /\ Always' /\ ChecksKept /\ [Next]_vars => ChecksKept'
  BY ChecksStep
<1> QED
  BY <1>1, <1>2, AlwaysInvariant, PTL DEF Spec

(* Every check that the review asked for is accounted for in what is         *)
(* offered: passed, by a last result on exactly this content, or openly      *)
(* deferred as the configuration allows.                                    *)
THEOREM OffersAccounted == ASSUME WithdrawCompletes PROVE Spec => []ChecksAccounted
<1>1. ChecksKept => ChecksAccounted
  BY DEF ChecksKept, Accounted, ChecksAccounted
<1> QED
  BY <1>1, ChecksInvariant, PTL
=============================================================================
