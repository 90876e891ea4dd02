---------------------------- MODULE DefectProofs ----------------------------
(***************************************************************************)
(* Proofs about Defect, for all contents, kinds, actions and limits.  What *)
(* a package offers was tested, its reproduction was seen failing, and the *)
(* decision of a person is kept, whatever is interrupted and however far   *)
(* commands overlap.  That the review it carries is a review of what was   *)
(* tested needs ResumptionCompletes, which names a window of the code.     *)
(*                                                                         *)
(* There are two locks, so mutual exclusion comes from the version check:  *)
(* what an invariant says of a command holds while its copy is not stale.  *)
(***************************************************************************)
EXTENDS Defect, TLAPS

\* The run is, or is to be resumed, in one of these states.
In(S) == run.state \in S \/ (run.state = "BLOCKED" /\ run.resume \in S)

Late == {"AI_REVIEW", "WAITING_APPROVAL", "PUBLISHING"}

Fields == {"state", "resume", "cause", "interrupted", "mapping", "prepared", "action", "accepted",
           "results", "root", "checkpoint", "frozen", "prefix", "prefail", "tries", "tests",
           "tested", "listed", "review", "approval", "feedback", "since", "ever", "fingerprint",
           "verifyOnly", "refreshes", "preparing", "conflicts"}

\* The run has its fields, and each lock its step.
Shape ==
    /\ DOMAIN run = Fields
    /\ run.resume \in Stages \cup {"CREATED"} /\ run.results \in 0..3
    /\ run.prefail \in {"none", "failed", "passed"}
    /\ DOMAIN pc = Locks /\ DOMAIN stale = Locks /\ DOMAIN seen = Locks

Judged == run.review # NoReview \/ run.approval # NoPackage

\* A judgement belongs to a final checkpoint; what is tested, results to; what
\* is reviewed, the content that passed last, with the frozen reproduction.
RunKept ==
    /\ Judged => run.checkpoint = "final"
    /\ run.results <= 1 => run.checkpoint \in {"none", "root"}
    /\ In(Late \cup {"TESTING"}) => run.results >= 2
    /\ In(Late) => /\ run.tested = passedOn /\ passedOn.test = run.frozen
                   /\ run.checkpoint = "final"
    /\ run.state = "PUBLISHING" => run.approval # NoPackage
    /\ Offered => run.approval.diff = run.tested
    /\ run.prefail = "failed" => run.frozen \in failing
    /\ run.approval # NoPackage => Disclosed \/ run.frozen \in failing

\* What a command relies on while nobody else has saved the run.
StepKept(l) ==
    Fresh(l) =>
        /\ pc[l] = "reproducing" => run.results = 1
        /\ pc[l] = "prefail" => run.results = 2 /\ run.checkpoint = "prepared"
        /\ pc[l] = "repairing" => run.results = 2 /\ run.checkpoint \in {"prepared", "failed"}
        /\ pc[l] = "implemented" => run.results >= 2
        /\ pc[l] = "passed" => seen[l] = passedOn /\ passedOn.test = run.frozen
        /\ pc[l] = "final" => /\ run.tested = passedOn /\ passedOn.test = run.frozen
                              /\ run.checkpoint = "final"
        /\ pc[l] = "packaged" => run.approval.diff = run.tested
        /\ pc[l] = "withdraw" => run.state = "WAITING_APPROVAL"
        /\ pc[l] = "publish" => run.state = "WAITING_APPROVAL" /\ run.approval # NoPackage
        /\ pc[l] = "swap" => /\ run.results >= 2 /\ run.checkpoint = "final"
                             /\ run.resume \in {"IMPLEMENTING", "TESTING"}

Always == Shape /\ RunKept /\ \A l \in Locks : StepKept(l)

-----------------------------------------------------------------------------
(* One step of one command *)

\* A step of l leaves the other command alone or makes its copy stale.
Untouched(l) ==
    \A k \in Locks \ {l} :
        /\ pc'[k] = pc[k] /\ seen'[k] = seen[k]
        /\ \/ stale'[k] \/ pc[k] = "idle"
           \/ (stale[k] => stale'[k]) /\ UNCHANGED <<run, passedOn, decided>>

AlwaysAfter(l) == Shape' /\ RunKept' /\ StepKept(l)' /\ Untouched(l)

\* What a person does under the lock of a run.
Orchestrate ==
    \/ \E kind \in Kinds : Confirm(kind)
    \/ Resume \/ Revise \/ BlockForRevision \/ SaveFeedback
    \/ \E passed \in BOOLEAN : Attest(passed)
    \/ Replan \/ Approve \/ Withdraw \/ Publish \/ Cancel

\* What ends the command that holds lock l.
Ends(l) == Refused(l) \/ Crash(l) \/ \E why \in {"kept", "interrupted", "other"} : Fail(l, why)

\* The version check keeps what the other command relies on.
LEMMA OthersKept ==
    ASSUME NEW l \in Locks, Untouched(l), \A k \in Locks : StepKept(k)
    PROVE  \A k \in Locks \ {l} : StepKept(k)'
BY DEF Untouched, StepKept, Fresh

\* Fields of a run whose evidence is started again.
LEMMA AnewFields ==
    ASSUME DOMAIN run = Fields
    PROVE  /\ DOMAIN Anew(run) = Fields
           /\ Anew(run).state = run.state /\ Anew(run).resume = run.resume
           /\ Anew(run).results = 0 /\ Anew(run).checkpoint = "none" /\ Anew(run).prefail = "none"
           /\ Anew(run).review = NoReview /\ Anew(run).approval = NoPackage
           /\ Anew(run).root = 0 /\ Anew(run).action = run.action
BY DEF Anew, Fields

\* Fields of a run that has its worktree on a new base.
LEMMA MigratedFields ==
    ASSUME DOMAIN run = Fields, NEW new
    PROVE  LET r == Migrated(run, new)
           IN  /\ DOMAIN r = Fields /\ r.state = run.state /\ r.resume = run.resume
               /\ r.results = (IF new.rest = Marked THEN 2
                               ELSE IF run.results > 3 THEN 3 ELSE run.results)
               /\ r.checkpoint = (IF new.rest = Marked THEN "failed" ELSE "applied")
               /\ r.prefail = "none" /\ r.review = NoReview /\ r.approval = NoPackage
               /\ r.root = run.root /\ r.action = run.action
BY DEF Migrated, Fields

\* Fields of a run that is resumed.
LEMMA ToFields ==
    ASSUME DOMAIN run = Fields, NEW target, NEW c
    PROVE  LET r == [To(run, target) EXCEPT !.interrupted = c]
           IN  /\ DOMAIN r = Fields /\ r.state = target /\ r.resume = "CREATED"
               /\ r.results = run.results /\ r.root = run.root /\ r.action = run.action
               /\ r.checkpoint = run.checkpoint /\ r.tested = run.tested
               /\ r.frozen = run.frozen /\ r.prefail = run.prefail
               /\ r.review = run.review /\ r.approval = run.approval
BY DEF To, Fields

\* Always: the resumption and the stages before the implementation.
LEMMA AlwaysBegin ==
    ASSUME NEW l \in Locks, Always, Begin(l)
    PROVE  AlwaysAfter(l)
<1> USE DEF Always, Shape, Fields, Save, Goto, Fresh, At
<1>1. CASE CarryReview(l)
  BY <1>1
     DEF CarryReview, AlwaysAfter, Untouched, RunKept, StepKept, In, Judged, Offered, history
<1>2. CASE Unblock(l)
  <2>0. /\ At(l, "unblock", "BLOCKED")
        /\ UNCHANGED <<passedOn, failing, decided, defer, seen>>
    BY <1>2 DEF Unblock, KeepsReview, world, history
  <2>1. ASSUME NEW c \in BOOLEAN, NEW s \in {"run", "reset"},
                Save(l, [To(run, run.resume) EXCEPT !.interrupted = c], s)
         PROVE  AlwaysAfter(l)
    <3>1. Untouched(l)
      BY <2>0, <2>1, ToFields DEF Untouched
    <3>2. Shape'
      BY <2>0, <2>1, ToFields
    <3>3. RunKept'
      BY <2>0, <2>1, ToFields DEF Stages, RunKept, In, Judged, Offered, Disclosed
    <3>4. StepKept(l)'
      BY <2>0, <2>1, ToFields DEF StepKept
    <3> QED
      BY <3>1, <3>2, <3>3, <3>4 DEF AlwaysAfter
  <2> QED
    BY <1>2, <2>0, <2>1 DEF Unblock, KeepsReview
<1>3. CASE ResetImplementing(l)
  <2>0. /\ At(l, "reset", "IMPLEMENTING")
        /\ UNCHANGED <<passedOn, failing, decided, defer, seen>>
        /\ (ReviewedCheckpoint \/ RevisionCheckpoint => run.results >= 2)
    BY <1>3 DEF ResetImplementing, ReviewedCheckpoint, RevisionCheckpoint, world, history
  <2>1. CASE run.results >= 2 /\ Save(l, RepairAgain(run), "run")
    <3>1. Untouched(l)
      BY <2>0, <2>1 DEF RepairAgain, Untouched
    <3>2. Shape'
      BY <2>0, <2>1 DEF RepairAgain
    <3>3. RunKept'
      BY <2>0, <2>1 DEF RepairAgain, RunKept, In, Late, Judged, Offered
    <3>4. StepKept(l)'
      BY <2>0, <2>1 DEF RepairAgain, StepKept
    <3> QED
      BY <3>1, <3>2, <3>3, <3>4 DEF AlwaysAfter
  <2>2. CASE Save(l, To(run, "FAILED"), "idle")
    <3>1. Untouched(l)
      BY <2>0, <2>2 DEF To, Untouched
    <3>2. Shape'
      BY <2>0, <2>2 DEF To
    <3>3. RunKept'
      BY <2>0, <2>2 DEF To, RunKept, In, Late, Judged, Offered, Disclosed
    <3>4. StepKept(l)'
      BY <2>0, <2>2 DEF To, StepKept
    <3> QED
      BY <3>1, <3>2, <3>3, <3>4 DEF AlwaysAfter
  <2>3. CASE /\ run.results > 2
             /\ Save(l, [run EXCEPT !.results = 2, !.review = NoReview,
                                    !.approval = NoPackage], "run")
    <3>1. Untouched(l)
      BY <2>0, <2>3 DEF Untouched
    <3>2. Shape'
      BY <2>0, <2>3
    <3>3. RunKept'
      BY <2>0, <2>3 DEF RunKept, In, Judged, Offered
    <3>4. StepKept(l)'
      BY <2>0, <2>3 DEF StepKept
    <3> QED
      BY <3>1, <3>2, <3>3, <3>4 DEF AlwaysAfter
  <2>4. CASE Save(l, Stop(run, "IMPLEMENTING", "other"), "idle")
    <3>1. Untouched(l)
      BY <2>0, <2>4 DEF Stop, Untouched
    <3>2. Shape'
      BY <2>0, <2>4 DEF Stop, Stages
    <3>3. RunKept'
      BY <2>0, <2>4 DEF Stop, RunKept, In, Late, Judged, Offered, Disclosed
    <3>4. StepKept(l)'
      BY <2>0, <2>4 DEF Stop, StepKept
    <3> QED
      BY <3>1, <3>2, <3>3, <3>4 DEF AlwaysAfter
  <2>5. CASE run.checkpoint # "final" /\ Goto(l, "run") /\ UNCHANGED <<run, stale>>
    BY <2>0, <2>5 DEF AlwaysAfter, Untouched, RunKept, StepKept, In, Judged, Offered
  <2>6. CASE /\ run.checkpoint \in {"none", "applied", "final"}
             /\ Save(l, Anew(run), "run")
    <3>1. Untouched(l)
      BY <2>0, <2>6, AnewFields DEF Untouched
    <3>2. Shape'
      BY <2>0, <2>6, AnewFields
    <3>3. RunKept'
      BY <2>0, <2>6, AnewFields DEF RunKept, In, Late, Judged, Offered
    <3>4. StepKept(l)'
      BY <2>0, <2>6, AnewFields DEF StepKept
    <3> QED
      BY <3>1, <3>2, <3>3, <3>4 DEF AlwaysAfter
  <2> QED
    BY <1>3, <2>0, <2>1, <2>2, <2>3, <2>4, <2>5, <2>6 DEF ResetImplementing
<1>4. CASE ResetLate(l)
  <2>0. /\ pc[l] = "reset" /\ run.state \in Stages \ {"IMPLEMENTING"}
        /\ UNCHANGED <<passedOn, failing, decided, defer, seen>>
    BY <1>4 DEF ResetLate, world, history
  <2>1. CASE /\ run.state = "TESTING"
             /\ Save(l, [run EXCEPT !.tests = IF Group THEN @ ELSE "none",
                                    !.tested = IF Group THEN @ ELSE None,
                                    !.review = NoReview, !.approval = NoPackage], "run")
    BY <2>0, <2>1 DEF AlwaysAfter, Untouched, RunKept, StepKept, In, Late, Judged, Offered
  <2>2. CASE /\ run.state = "AI_REVIEW"
             /\ Save(l, [run EXCEPT !.review = NoReview, !.approval = NoPackage], "run")
    BY <2>0, <2>2 DEF AlwaysAfter, Untouched, RunKept, StepKept, In, Late, Offered
  <2>3. CASE Goto(l, "run") /\ UNCHANGED <<run, stale>>
    BY <2>0, <2>3 DEF AlwaysAfter, Untouched, RunKept, StepKept, In, Judged, Offered, Disclosed
  <2> QED
    BY <1>4, <2>0, <2>1, <2>2, <2>3 DEF ResetLate
<1>5. CASE StartReading(l)
  <2>1. Untouched(l)
    BY <1>5 DEF StartReading, To, Untouched
  <2>2. Shape'
    BY <1>5 DEF StartReading, To
  <2>3. RunKept'
    BY <1>5 DEF StartReading, To, RunKept, In, Late, Judged, Offered, Disclosed, world, history
  <2>4. StepKept(l)'
    BY <1>5 DEF StartReading, To, StepKept
  <2> QED
    BY <2>1, <2>2, <2>3, <2>4 DEF AlwaysAfter
<1>6. CASE ReadSelected(l)
  <2>0. /\ At(l, "run", "READING_ONES")
        /\ UNCHANGED <<passedOn, failing, decided, defer, seen>>
    BY <1>6 DEF ReadSelected, world, history
  <2>1. CASE Save(l, [Anew(run) EXCEPT !.prepared = Group /\ @, !.verifyOnly = FALSE,
                                      !.since = 0, !.ever = FALSE, !.fingerprint = None],
                  "checked")
    <3>1. Untouched(l)
      BY <2>0, <2>1, AnewFields DEF Untouched
    <3>2. Shape'
      BY <2>0, <2>1, AnewFields
    <3>3. RunKept'
      BY <2>0, <2>1, AnewFields DEF RunKept, In, Late, Judged, Offered
    <3>4. StepKept(l)'
      BY <2>0, <2>1, AnewFields DEF StepKept
    <3> QED
      BY <3>1, <3>2, <3>3, <3>4 DEF AlwaysAfter
  <2> QED
    BY <1>6, <2>0, <2>1 DEF ReadSelected
<1>7. CASE Read(l)
  <2>1. Untouched(l)
    BY <1>7 DEF Read, To, Untouched
  <2>2. Shape'
    BY <1>7 DEF Read, To
  <2>3. RunKept'
    BY <1>7 DEF Read, To, RunKept, In, Late, Judged, Offered, Disclosed, world, history
  <2>4. StepKept(l)'
    BY <1>7 DEF Read, To, StepKept
  <2> QED
    BY <2>1, <2>2, <2>3, <2>4 DEF AlwaysAfter
<1>8. CASE ValidateMapping(l)
  <2>0. /\ At(l, "run", "VALIDATING")
        /\ UNCHANGED <<passedOn, failing, decided, defer, seen>>
    BY <1>8 DEF ValidateMapping, world, history
  <2>1. CASE Goto(l, "idle") /\ UNCHANGED <<run, stale>>
    BY <2>0, <2>1 DEF AlwaysAfter, Untouched, RunKept, StepKept, In, Judged, Offered, Disclosed
  <2>2. CASE Save(l, To(run, "PREPARING_REPO"), "run")
    <3>1. Untouched(l)
      BY <2>0, <2>2 DEF To, Untouched
    <3>2. Shape'
      BY <2>0, <2>2 DEF To
    <3>3. RunKept'
      BY <2>0, <2>2 DEF To, RunKept, In, Late, Judged, Offered, Disclosed
    <3>4. StepKept(l)'
      BY <2>0, <2>2 DEF To, StepKept
    <3> QED
      BY <3>1, <3>2, <3>3, <3>4 DEF AlwaysAfter
  <2> QED
    BY <1>8, <2>0, <2>1, <2>2 DEF ValidateMapping
<1>9. CASE Prepare(l)
  <2>0. /\ At(l, "run", "PREPARING_REPO")
        /\ UNCHANGED <<passedOn, failing, decided, defer, seen>>
    BY <1>9 DEF Prepare, world, history
  <2>1. CASE Save(l, To(run, "IMPLEMENTING"), "run")
    <3>1. Untouched(l)
      BY <2>0, <2>1 DEF To, Untouched
    <3>2. Shape'
      BY <2>0, <2>1 DEF To
    <3>3. RunKept'
      BY <2>0, <2>1 DEF To, RunKept, In, Late, Judged, Offered, Disclosed
    <3>4. StepKept(l)'
      BY <2>0, <2>1 DEF To, StepKept
    <3> QED
      BY <3>1, <3>2, <3>3, <3>4 DEF AlwaysAfter
  <2>2. CASE Save(l, [run EXCEPT !.prepared = TRUE], "run")
    BY <2>0, <2>2 DEF AlwaysAfter, Untouched, RunKept, StepKept, In, Judged, Offered, Disclosed
  <2> QED
    BY <1>9, <2>0, <2>1, <2>2 DEF Prepare
<1> QED
  BY <1>1, <1>2, <1>3, <1>4, <1>5, <1>6, <1>7, <1>8, <1>9 DEF Begin

\* Always: analysis, reproduction and repair.
LEMMA AlwaysImplement ==
    ASSUME NEW l \in Locks, Always, Implement(l)
    PROVE  AlwaysAfter(l)
<1> USE DEF Always, Shape, Fields, Save, Goto, Fresh, At
<1>1. ASSUME NEW grounded \in BOOLEAN, Analyse(l, grounded)
       PROVE  AlwaysAfter(l)
  <2>0. /\ At(l, "run", "IMPLEMENTING") /\ run.results = 0
        /\ UNCHANGED <<passedOn, failing, decided, defer, seen>>
    BY <1>1 DEF Analyse, world
  <2>1. CASE Save(l, [run EXCEPT !.results = 1, !.root = analyses', !.checkpoint = "root"],
                  "analysed")
    <3>1. Untouched(l)
      BY <2>0, <2>1 DEF Untouched
    <3>2. Shape'
      BY <2>0, <2>1
    <3>3. RunKept'
      BY <2>0, <2>1 DEF RunKept, In, Judged, Offered
    <3>4. StepKept(l)'
      BY <2>0, <2>1 DEF StepKept
    <3> QED
      BY <3>1, <3>2, <3>3, <3>4 DEF AlwaysAfter
  <2>2. CASE Save(l, [run EXCEPT !.results = 1], "changed")
    <3>1. Untouched(l)
      BY <2>0, <2>2 DEF Untouched
    <3>2. Shape'
      BY <2>0, <2>2
    <3>3. RunKept'
      BY <2>0, <2>2 DEF RunKept, In, Judged, Offered
    <3>4. StepKept(l)'
      BY <2>0, <2>2 DEF StepKept
    <3> QED
      BY <3>1, <3>2, <3>3, <3>4 DEF AlwaysAfter
  <2> QED
    BY <1>1, <2>0, <2>1, <2>2 DEF Analyse
<1>2. CASE NotClean(l)
  <2>1. Untouched(l)
    BY <1>2 DEF NotClean, Block, Stop, Untouched, Forget
  <2>2. Shape'
    BY <1>2 DEF NotClean, Block, Stop, Stages, Forget
  <2>3. RunKept'
    BY <1>2 DEF NotClean, Block, Stop, RunKept, In, Late, Judged, Offered, history
  <2>4. StepKept(l)'
    BY <1>2 DEF NotClean, Block, Stop, StepKept
  <2> QED
    BY <2>1, <2>2, <2>3, <2>4 DEF AlwaysAfter
<1>3. CASE Analysed(l)
  <2>0. /\ At(l, "analysed", "IMPLEMENTING")
        /\ UNCHANGED <<passedOn, failing, decided, defer, seen>>
    BY <1>3 DEF Analysed, world, history
  <2>1. CASE Save(l, To(run, "COMPLETED"), "idle")
    <3>1. Untouched(l)
      BY <2>0, <2>1 DEF To, Untouched
    <3>2. Shape'
      BY <2>0, <2>1 DEF To
    <3>3. RunKept'
      BY <2>0, <2>1 DEF To, RunKept, In, Late, Judged, Offered, Disclosed
    <3>4. StepKept(l)'
      BY <2>0, <2>1 DEF To, StepKept
    <3> QED
      BY <3>1, <3>2, <3>3, <3>4 DEF AlwaysAfter
  <2>2. CASE Goto(l, "run") /\ UNCHANGED <<run, stale>>
    BY <2>0, <2>2 DEF AlwaysAfter, Untouched, RunKept, StepKept, In, Judged, Offered, Disclosed
  <2> QED
    BY <1>3, <2>0, <2>1, <2>2 DEF Analysed
<1>4. CASE BeginReproduction(l)
  BY <1>4
     DEF BeginReproduction, AlwaysAfter, Untouched, RunKept, StepKept, In, Judged, Offered,
         history
<1>5. ASSUME NEW test \in Tests, EndReproduction(l, test)
       PROVE  AlwaysAfter(l)
  <2>0. /\ At(l, "reproducing", "IMPLEMENTING")
        /\ UNCHANGED <<passedOn, failing, decided, defer, seen>>
    BY <1>5 DEF EndReproduction, history
  <2>1. CASE Save(l, [run EXCEPT !.results = 2, !.tries = @ + 1, !.checkpoint = "prepared",
                                    !.listed = FALSE, !.tested = IF Group THEN None ELSE @,
                                    !.tests = IF Group THEN "none" ELSE @], "prefail")
    <3>1. Untouched(l)
      BY <2>0, <2>1 DEF Untouched
    <3>2. Shape'
      BY <2>0, <2>1
    <3>3. RunKept'
      BY <2>0, <2>1 DEF RunKept, StepKept, In, Judged, Offered
    <3>4. StepKept(l)'
      BY <2>0, <2>1 DEF StepKept
    <3> QED
      BY <3>1, <3>2, <3>3, <3>4 DEF AlwaysAfter
  <2>2. CASE Save(l, Stop(run, "IMPLEMENTING", "other"), "idle")
    <3>1. Untouched(l)
      BY <2>0, <2>2 DEF Stop, Untouched
    <3>2. Shape'
      BY <2>0, <2>2 DEF Stop, Stages
    <3>3. RunKept'
      BY <2>0, <2>2 DEF Stop, RunKept, StepKept, In, Late, Judged, Offered
    <3>4. StepKept(l)'
      BY <2>0, <2>2 DEF Stop, StepKept
    <3> QED
      BY <3>1, <3>2, <3>3, <3>4 DEF AlwaysAfter
  <2> QED
    BY <1>5, <2>0, <2>1, <2>2 DEF EndReproduction
<1>6. ASSUME NEW outcome \in {"failed", "passed", "none"}, PersistPrefail(l, outcome)
       PROVE  AlwaysAfter(l)
  <2>1. Untouched(l)
    BY <1>6 DEF PersistPrefail, Prefail, Untouched
  <2>2. Shape'
    BY <1>6 DEF PersistPrefail, Prefail
  <2>3. RunKept'
    BY <1>6 DEF PersistPrefail, Prefail, RunKept, StepKept, In, Judged, Offered
  <2>4. StepKept(l)'
    BY <1>6 DEF PersistPrefail, Prefail, StepKept
  <2> QED
    BY <2>1, <2>2, <2>3, <2>4 DEF AlwaysAfter
<1>7. ASSUME NEW outcome \in {"failed", "passed", "none"}, PersistPrefailAgain(l, outcome)
       PROVE  AlwaysAfter(l)
  BY <1>7
     DEF PersistPrefailAgain, Prefail, AlwaysAfter, Untouched, RunKept, StepKept, In, Judged,
         Offered
<1>8. CASE BeginVerifyOnly(l)
  <2>1. Untouched(l)
    BY <1>8 DEF BeginVerifyOnly, MayVerifyOnly, Untouched
  <2>2. Shape'
    BY <1>8 DEF BeginVerifyOnly, MayVerifyOnly
  <2>3. RunKept'
    BY <1>8 DEF BeginVerifyOnly, MayVerifyOnly, RunKept, In, Judged, Offered, history
  <2>4. StepKept(l)'
    BY <1>8 DEF BeginVerifyOnly, MayVerifyOnly, StepKept
  <2> QED
    BY <2>1, <2>2, <2>3, <2>4 DEF AlwaysAfter
<1>9. CASE RepairRefused(l)
  <2>1. Untouched(l)
    BY <1>9 DEF RepairRefused, Block, Stop, Untouched, Forget
  <2>2. Shape'
    BY <1>9 DEF RepairRefused, Block, Stop, Stages, Forget
  <2>3. RunKept'
    BY <1>9
       DEF RepairRefused, Block, Stop, RunKept, In, Late, Judged, Offered, Disclosed, world,
           history
  <2>4. StepKept(l)'
    BY <1>9 DEF RepairRefused, Block, Stop, StepKept
  <2> QED
    BY <2>1, <2>2, <2>3, <2>4 DEF AlwaysAfter
<1>10. CASE RecoverRepair(l)
  <2>0. /\ run.state = "IMPLEMENTING" /\ run.results = 2
        /\ run.checkpoint \in {"prepared", "failed"}
        /\ UNCHANGED <<passedOn, failing, decided, defer, seen>>
    BY <1>10 DEF RecoverRepair, RepairAllowed, AtRepair, world, history
  <2>1. CASE Save(l, Repaired(run), "implemented")
    <3>1. Untouched(l)
      BY <2>0, <2>1 DEF Repaired, Untouched
    <3>2. Shape'
      BY <2>0, <2>1 DEF Repaired
    <3>3. RunKept'
      BY <2>0, <2>1 DEF Repaired, RunKept, In, Judged, Offered
    <3>4. StepKept(l)'
      BY <2>0, <2>1 DEF Repaired, StepKept
    <3> QED
      BY <3>1, <3>2, <3>3, <3>4 DEF AlwaysAfter
  <2> QED
    BY <1>10, <2>0, <2>1 DEF RecoverRepair, RepairAllowed, AtRepair
<1>11. CASE BeginRepair(l)
  BY <1>11
     DEF BeginRepair, RepairAllowed, AtRepair, AlwaysAfter, Untouched, RunKept, StepKept, In,
         Judged, Offered, history
<1>12. ASSUME NEW test \in Tests, NEW rest \in Written, EndRepair(l, test, rest)
       PROVE  AlwaysAfter(l)
  <2>0. /\ At(l, "repairing", "IMPLEMENTING") /\ Forget(l)
        /\ UNCHANGED <<passedOn, failing, decided, defer>>
    BY <1>12 DEF EndRepair, history
  <2>1. CASE Save(l, [run EXCEPT !.results = 3, !.tries = @ + 1, !.checkpoint = "applied",
                                    !.review = NoReview, !.approval = NoPackage], "implemented")
    <3>1. Untouched(l)
      BY <2>0, <2>1 DEF Untouched, Forget
    <3>2. Shape'
      BY <2>0, <2>1 DEF Forget
    <3>3. RunKept'
      BY <2>0, <2>1 DEF RunKept, StepKept, In, Judged, Offered
    <3>4. StepKept(l)'
      BY <2>0, <2>1 DEF StepKept
    <3> QED
      BY <3>1, <3>2, <3>3, <3>4 DEF AlwaysAfter
  <2>2. CASE Save(l, Repaired(run), "implemented")
    <3>1. Untouched(l)
      BY <2>0, <2>2 DEF Repaired, Untouched, Forget
    <3>2. Shape'
      BY <2>0, <2>2 DEF Repaired, Forget
    <3>3. RunKept'
      BY <2>0, <2>2 DEF Repaired, RunKept, StepKept, In, Judged, Offered
    <3>4. StepKept(l)'
      BY <2>0, <2>2 DEF Repaired, StepKept
    <3> QED
      BY <3>1, <3>2, <3>3, <3>4 DEF AlwaysAfter
  <2>3. ASSUME NEW why \in {"interrupted", "other"},
                Save(l, Stop(run, "IMPLEMENTING", why), "idle")
         PROVE  AlwaysAfter(l)
    <3>1. Untouched(l)
      BY <2>0, <2>3 DEF Stop, Untouched, Forget
    <3>2. Shape'
      BY <2>0, <2>3 DEF Stop, Stages, Forget
    <3>3. RunKept'
      BY <2>0, <2>3 DEF Stop, RunKept, StepKept, In, Late, Judged, Offered
    <3>4. StepKept(l)'
      BY <2>0, <2>3 DEF Stop, StepKept
    <3> QED
      BY <3>1, <3>2, <3>3, <3>4 DEF AlwaysAfter
  <2> QED
    BY <1>12, <2>0, <2>1, <2>2, <2>3 DEF EndRepair
<1>13. CASE Implemented(l)
  <2>1. Untouched(l)
    BY <1>13 DEF Implemented, To, Untouched
  <2>2. Shape'
    BY <1>13 DEF Implemented, To
  <2>3. RunKept'
    BY <1>13
       DEF Implemented, To, RunKept, StepKept, In, Late, Judged, Offered, Disclosed, world,
           history
  <2>4. StepKept(l)'
    BY <1>13 DEF Implemented, To, StepKept
  <2> QED
    BY <2>1, <2>2, <2>3, <2>4 DEF AlwaysAfter
<1>14. CASE CannotReproduce(l)
  <2>1. Untouched(l)
    BY <1>14 DEF CannotReproduce, Block, Stop, Untouched, Forget
  <2>2. Shape'
    BY <1>14 DEF CannotReproduce, Block, Stop, Stages, Forget
  <2>3. RunKept'
    BY <1>14 DEF CannotReproduce, Block, Stop, RunKept, In, Late, Judged, Offered, history
  <2>4. StepKept(l)'
    BY <1>14 DEF CannotReproduce, Block, Stop, StepKept
  <2> QED
    BY <2>1, <2>2, <2>3, <2>4 DEF AlwaysAfter
<1> QED
  BY <1>1, <1>2, <1>3, <1>4, <1>5, <1>6, <1>7, <1>8, <1>9, <1>10, <1>11, <1>12, <1>13, <1>14 DEF
     Implement

\* Always: the tests and what follows failed ones.
LEMMA AlwaysTest ==
    ASSUME NEW l \in Locks, Always, Test(l)
    PROVE  AlwaysAfter(l)
<1> USE DEF Always, Shape, Fields, Save, Goto, Fresh, At
<1>1. CASE BeginTests(l)
  <2>0. At(l, "run", "TESTING") /\ UNCHANGED <<passedOn, failing, decided, defer>>
    BY <1>1 DEF BeginTests, world, history
  <2>1. CASE Block(l, "IMPLEMENTING", "other")
    <3>1. Untouched(l)
      BY <2>0, <2>1 DEF Block, Stop, Untouched, Forget
    <3>2. Shape'
      BY <2>0, <2>1 DEF Block, Stop, Stages, Forget
    <3>3. RunKept'
      BY <2>0, <2>1 DEF Block, Stop, RunKept, In, Late, Judged, Offered, Disclosed
    <3>4. StepKept(l)'
      BY <2>0, <2>1 DEF Block, Stop, StepKept
    <3> QED
      BY <3>1, <3>2, <3>3, <3>4 DEF AlwaysAfter
  <2>2. CASE Block(l, "TESTING", "other")
    <3>1. Untouched(l)
      BY <2>0, <2>2 DEF Block, Stop, Untouched, Forget
    <3>2. Shape'
      BY <2>0, <2>2 DEF Block, Stop, Stages, Forget
    <3>3. RunKept'
      BY <2>0, <2>2 DEF Block, Stop, RunKept, In, Late, Judged, Offered, Disclosed
    <3>4. StepKept(l)'
      BY <2>0, <2>2 DEF Block, Stop, StepKept
    <3> QED
      BY <3>1, <3>2, <3>3, <3>4 DEF AlwaysAfter
  <2>3. CASE Goto(l, "testing") /\ seen' = [seen EXCEPT ![l] = diff] /\ UNCHANGED <<run, stale>>
    BY <2>0, <2>3 DEF AlwaysAfter, Untouched, RunKept, StepKept, In, Judged, Offered, Disclosed
  <2> QED
    BY <1>1, <2>0, <2>1, <2>2, <2>3 DEF BeginTests
<1>2. ASSUME NEW passed \in BOOLEAN, EndTests(l, passed)
       PROVE  AlwaysAfter(l)
  <2>0. /\ At(l, "testing", "TESTING")
        /\ UNCHANGED <<failing, decided, defer, seen>>
        /\ passedOn' = IF passed /\ diff = seen[l] THEN diff ELSE passedOn
    BY <1>2 DEF EndTests, world
  <2>1. ASSUME NEW t \in {run.tests, "passed"},
                passed, Unchanged(l), ReproductionFrozen,
                Save(l, [run EXCEPT !.tests = t], "passed")
         PROVE  AlwaysAfter(l)
    <3>1. Untouched(l)
      BY <2>0, <2>1 DEF Unchanged, ReproductionFrozen, Untouched
    <3>2. Shape'
      BY <2>0, <2>1 DEF Unchanged, ReproductionFrozen
    <3>3. RunKept'
      BY <2>0, <2>1
         DEF Unchanged, ReproductionFrozen, RunKept, In, Late, Judged, Offered, Disclosed
    <3>4. StepKept(l)'
      BY <2>0, <2>1 DEF Unchanged, ReproductionFrozen, StepKept
    <3> QED
      BY <3>1, <3>2, <3>3, <3>4 DEF AlwaysAfter
  <2>2. ASSUME NEW t \in {run.tests, "passed", "failed"}, NEW s \in {"changed", "failed"},
                Save(l, [run EXCEPT !.tests = t], s)
         PROVE  AlwaysAfter(l)
    <3>1. Untouched(l)
      BY <2>0, <2>2 DEF Untouched
    <3>2. Shape'
      BY <2>0, <2>2
    <3>3. RunKept'
      BY <2>0, <2>2 DEF RunKept, In, Late, Judged, Offered, Disclosed
    <3>4. StepKept(l)'
      BY <2>0, <2>2 DEF StepKept
    <3> QED
      BY <3>1, <3>2, <3>3, <3>4 DEF AlwaysAfter
  <2>3. CASE Save(l, Stop(run, "TESTING", "other"), "idle")
    <3>1. Untouched(l)
      BY <2>0, <2>3 DEF Stop, Untouched
    <3>2. Shape'
      BY <2>0, <2>3 DEF Stop, Stages
    <3>3. RunKept'
      BY <2>0, <2>3 DEF Stop, RunKept, In, Late, Judged, Offered, Disclosed
    <3>4. StepKept(l)'
      BY <2>0, <2>3 DEF Stop, StepKept
    <3> QED
      BY <3>1, <3>2, <3>3, <3>4 DEF AlwaysAfter
  <2> QED
    BY <1>2, <2>0, <2>1, <2>2, <2>3 DEF EndTests
<1>3. CASE BlockChanged(l)
  <2>1. Untouched(l)
    BY <1>3 DEF BlockChanged, Block, Stop, Untouched, Forget
  <2>2. Shape'
    BY <1>3 DEF BlockChanged, Block, Stop, Stages, Forget
  <2>3. RunKept'
    BY <1>3
       DEF BlockChanged, Block, Stop, RunKept, In, Late, Judged, Offered, Disclosed, world,
           history
  <2>4. StepKept(l)'
    BY <1>3 DEF BlockChanged, Block, Stop, StepKept
  <2> QED
    BY <2>1, <2>2, <2>3, <2>4 DEF AlwaysAfter
<1>4. CASE SaveTested(l)
  <2>1. Untouched(l)
    BY <1>4 DEF SaveTested, Untouched, Forget
  <2>2. Shape'
    BY <1>4 DEF SaveTested, Forget
  <2>3. RunKept'
    BY <1>4 DEF SaveTested, RunKept, StepKept, In, Offered, Disclosed, world, history
  <2>4. StepKept(l)'
    BY <1>4 DEF SaveTested, StepKept, history
  <2> QED
    BY <2>1, <2>2, <2>3, <2>4 DEF AlwaysAfter
<1>5. CASE Tested(l)
  <2>1. Untouched(l)
    BY <1>5 DEF Tested, To, Untouched
  <2>2. Shape'
    BY <1>5 DEF Tested, To
  <2>3. RunKept'
    BY <1>5 DEF Tested, To, RunKept, StepKept, Offered, Disclosed, world, history
  <2>4. StepKept(l)'
    BY <1>5 DEF Tested, To, StepKept
  <2> QED
    BY <2>1, <2>2, <2>3, <2>4 DEF AlwaysAfter
<1>6. CASE SaveRetry(l)
  <2>1. Untouched(l)
    BY <1>6 DEF SaveRetry, Untouched
  <2>2. Shape'
    BY <1>6 DEF SaveRetry
  <2>3. RunKept'
    BY <1>6 DEF SaveRetry, RunKept, In, Late, Judged, Offered, history
  <2>4. StepKept(l)'
    BY <1>6 DEF SaveRetry, StepKept
  <2> QED
    BY <2>1, <2>2, <2>3, <2>4 DEF AlwaysAfter
<1>7. CASE TestsFailed(l)
  BY <1>7
     DEF TestsFailed, Block, Stop, AlwaysAfter, Untouched, Forget, Stages, RunKept, StepKept,
         In, Late, Judged, Offered, Disclosed, world, history
<1>8. CASE Retry(l)
  <2>1. Untouched(l)
    BY <1>8 DEF Retry, BlockAndGoOn, Stop, Untouched, Forget
  <2>2. Shape'
    BY <1>8 DEF Retry, BlockAndGoOn, Stop, Stages, Forget
  <2>3. RunKept'
    BY <1>8
       DEF Retry, BlockAndGoOn, Stop, RunKept, In, Late, Judged, Offered, Disclosed, world,
           history
  <2>4. StepKept(l)'
    BY <1>8 DEF Retry, BlockAndGoOn, Stop, StepKept
  <2> QED
    BY <2>1, <2>2, <2>3, <2>4 DEF AlwaysAfter
<1> QED
  BY <1>1, <1>2, <1>3, <1>4, <1>5, <1>6, <1>7, <1>8 DEF Test

\* Always: the review and the package.
LEMMA AlwaysReview ==
    ASSUME NEW l \in Locks, Always, Review(l)
    PROVE  AlwaysAfter(l)
<1> USE DEF Always, Shape, Fields, Save, Goto, Fresh, At
<1>1. CASE EvidenceChanged(l)
  <2>1. Untouched(l)
    BY <1>1 DEF EvidenceChanged, Block, Stop, EvidenceUnchanged, Untouched, Forget
  <2>2. Shape'
    BY <1>1 DEF EvidenceChanged, Block, Stop, EvidenceUnchanged, Stages, Forget
  <2>3. RunKept'
    BY <1>1
       DEF EvidenceChanged, Block, Stop, EvidenceUnchanged, RunKept, In, Late, Offered,
           Disclosed, world, history
  <2>4. StepKept(l)'
    BY <1>1 DEF EvidenceChanged, Block, Stop, EvidenceUnchanged, StepKept
  <2> QED
    BY <2>1, <2>2, <2>3, <2>4 DEF AlwaysAfter
<1>2. CASE BeginReview(l)
  BY <1>2
     DEF BeginReview, AlwaysAfter, Untouched, RunKept, StepKept, In, Late, Offered, Disclosed,
         world, history
<1>3. ASSUME NEW result \in {"clean", "open", "incomplete"}, EndReview(l, result)
       PROVE  AlwaysAfter(l)
  BY <1>3
     DEF EndReview, EvidenceUnchanged, AlwaysAfter, Untouched, RunKept, StepKept, In, Late,
         Offered, Disclosed, world, history
<1>4. CASE Incomplete(l)
  BY <1>4
     DEF Incomplete, Block, Stop, AlwaysAfter, Untouched, Forget, Stages, RunKept, StepKept, In,
         Late, Offered, Disclosed, world, history
<1>5. CASE NoMoreRepairs(l)
  BY <1>5
     DEF NoMoreRepairs, Block, Stop, AlwaysAfter, Untouched, Forget, Stages, RunKept, StepKept,
         In, Late, Offered, Disclosed, world, history
<1>6. CASE QueueReview(l)
  BY <1>6 DEF QueueReview, AlwaysAfter, Untouched, RunKept, StepKept, In, Late, Offered, history
<1>7. CASE CountAttempt(l)
  BY <1>7
     DEF CountAttempt, AlwaysAfter, Untouched, RunKept, StepKept, In, Late, Offered, Disclosed,
         world, history
<1>8. CASE RepairReview(l)
  BY <1>8
     DEF RepairReview, BlockAndGoOn, Stop, AlwaysAfter, Untouched, Forget, Stages, RunKept,
         StepKept, In, Late, Offered, Disclosed, world, history
<1>9. CASE CompleteVerifyOnly(l)
  BY <1>9
     DEF CompleteVerifyOnly, Reviewed, Stop, To, AlwaysAfter, Untouched, Stages, RunKept,
         StepKept, In, Late, Offered, Disclosed, world, history
<1>10. CASE ChecksBlock(l)
  BY <1>10
     DEF ChecksBlock, MayPackage, Reviewed, Block, Stop, AlwaysAfter, Untouched, Forget, Stages,
         RunKept, StepKept, In, Late, Offered, Disclosed, world, history
<1>11. CASE PackageInvalid(l)
  BY <1>11
     DEF PackageInvalid, MayPackage, Reviewed, Block, Stop, AlwaysAfter, Untouched, Forget,
         Stages, RunKept, StepKept, In, Late, Offered, Disclosed, history
<1>12. CASE SavePackage(l)
  <2>0. /\ At(l, "reviewed", "AI_REVIEW") /\ diff = run.tested
        /\ UNCHANGED <<passedOn, failing, decided, defer, seen>>
        /\ run.prefail # "passed" /\ (run.prefail = "none" => defer)
    BY <1>12
       DEF SavePackage, MayPackage, Reviewed, ChecksAllow, EvidenceUnchanged, PrefailValid,
           world, history
  <2>1. CASE Save(l, [run EXCEPT !.approval = [diff |-> diff, of |-> run.review.of]], "packaged")
    BY <2>0, <2>1 DEF AlwaysAfter, Untouched, RunKept, StepKept, In, Late, Disclosed
  <2> QED
    BY <1>12, <2>0, <2>1
       DEF SavePackage, MayPackage, Reviewed, ChecksAllow, EvidenceUnchanged, PrefailValid
<1>13. CASE Packaged(l)
  <2>1. Untouched(l)
    BY <1>13 DEF Packaged, To, Untouched
  <2>2. Shape'
    BY <1>13 DEF Packaged, To
  <2>3. RunKept'
    BY <1>13 DEF Packaged, To, RunKept, StepKept, In, Late, Disclosed, world, history
  <2>4. StepKept(l)'
    BY <1>13 DEF Packaged, To, StepKept
  <2> QED
    BY <2>1, <2>2, <2>3, <2>4 DEF AlwaysAfter
<1> QED
  BY <1>1, <1>2, <1>3, <1>4, <1>5, <1>6, <1>7, <1>8, <1>9, <1>10, <1>11, <1>12, <1>13 DEF Review

\* Always: the move to another base.
LEMMA AlwaysRefresh ==
    ASSUME NEW l \in Locks, Always, Refresh(l)
    PROVE  AlwaysAfter(l)
<1> USE DEF Always, Shape, Fields, Save, Goto, Fresh, At
<1>1. CASE RemoteBaseChanged(l)
  BY <1>1
     DEF RemoteBaseChanged, MayPackage, Reviewed, AlwaysAfter, Untouched, RunKept, StepKept, In,
         Late, Offered, Disclosed, world, history
<1>2. CASE BeginRefresh(l)
  <2>0. /\ At(l, "refresh", "AI_REVIEW")
        /\ UNCHANGED <<passedOn, failing, decided, defer, seen>>
    BY <1>2 DEF BeginRefresh, world, history
  <2>1. CASE Save(l, [run EXCEPT !.preparing = FALSE], "refresh")
    BY <2>0, <2>1 DEF AlwaysAfter, Untouched, RunKept, StepKept, In, Late, Offered, Disclosed
  <2>2. CASE Save(l, Stop(run, "AI_REVIEW", "kept"), "idle")
    BY <2>0, <2>2
       DEF Stop, AlwaysAfter, Untouched, Stages, RunKept, StepKept, In, Late, Offered, Disclosed
  <2>3. CASE Save(l, [run EXCEPT !.refreshes = RefreshesAfter(@), !.preparing = TRUE,
                                    !.approval = NoPackage], "transferring")
    BY <2>0, <2>3 DEF AlwaysAfter, Untouched, RunKept, StepKept, In, Late, Offered
  <2> QED
    BY <1>2, <2>0, <2>1, <2>2, <2>3 DEF BeginRefresh
<1>3. CASE TransferFails(l)
  BY <1>3
     DEF TransferFails, AlwaysAfter, Untouched, RunKept, StepKept, In, Late, Offered, Disclosed,
         world, history
<1>4. CASE BlockTransfer(l)
  BY <1>4
     DEF BlockTransfer, Block, Stop, AlwaysAfter, Untouched, Forget, Stages, RunKept, StepKept,
         In, Late, Offered, Disclosed, world, history
<1>5. ASSUME NEW rest \in {diff.rest, Base, Marked}, Migrate(l, rest)
       PROVE  AlwaysAfter(l)
  <2>1. Untouched(l)
    BY <1>5 DEF Migrate, Stop, Untouched
  <2>2. Shape'
    BY <1>5 DEF Migrate, Stop, Stages
  <2>3. RunKept'
    BY <1>5 DEF Migrate, Stop, RunKept, In, Late, Offered, Disclosed, world, history
  <2>4. StepKept(l)'
    BY <1>5 DEF Migrate, Stop, RunKept, StepKept, In, Late
  <2> QED
    BY <2>1, <2>2, <2>3, <2>4 DEF AlwaysAfter
<1>6. CASE SwapWorktree(l)
  <2>0. /\ At(l, "swap", "BLOCKED") /\ Forget(l)
        /\ UNCHANGED <<passedOn, failing, decided, defer>>
    BY <1>6 DEF SwapWorktree, history
  <2>1. CASE Save(l, Migrated(run, seen[l]), "unblock")
    <3>1. Untouched(l)
      BY <2>0, <2>1, MigratedFields DEF Untouched, Forget
    <3>2. Shape'
      BY <2>0, <2>1, MigratedFields DEF Forget
    <3>3. RunKept'
      BY <2>0, <2>1, MigratedFields DEF RunKept, StepKept, In, Late, Judged, Offered
    <3>4. StepKept(l)'
      BY <2>0, <2>1, MigratedFields DEF StepKept
    <3> QED
      BY <3>1, <3>2, <3>3, <3>4 DEF AlwaysAfter
  <2> QED
    BY <1>6, <2>0, <2>1 DEF SwapWorktree
<1> QED
  BY <1>1, <1>2, <1>3, <1>4, <1>5, <1>6 DEF Refresh

\* Always: what a person does.
LEMMA AlwaysOrchestrate ==
    ASSUME Always, Orchestrate
    PROVE  AlwaysAfter("orchestrate")
<1> USE DEF Always, Shape, Fields, Save, Goto, Fresh, At
<1>0. "orchestrate" \in Locks
  BY DEF Locks
<1> USE <1>0
<1>1. ASSUME NEW kind \in Kinds, Confirm(kind)
       PROVE  AlwaysAfter("orchestrate")
  BY <1>1
     DEF Confirm, AlwaysAfter, Untouched, RunKept, StepKept, In, Judged, Offered, Disclosed,
         world, history
<1>2. CASE Resume
  BY <1>2
     DEF Resume, AlwaysAfter, Untouched, RunKept, StepKept, In, Judged, Offered, Disclosed,
         world, history
<1>3. CASE Revise
  <2>0. run.state = "BLOCKED" /\ UNCHANGED <<passedOn, failing, decided, defer, seen>>
    BY <1>3 DEF Revise, Do, world, history
  <2>1. CASE run.resume \in {"TESTING", "AI_REVIEW"} /\ Do(To(run, run.resume), "revising")
    <3>1. Untouched("orchestrate")
      BY <2>0, <2>1 DEF Do, To, Untouched
    <3>2. Shape'
      BY <2>0, <2>1 DEF Do, To
    <3>3. RunKept'
      BY <2>0, <2>1 DEF Do, To, RunKept, In, Judged, Offered, Disclosed
    <3>4. StepKept("orchestrate")'
      BY <2>0, <2>1 DEF Do, To, StepKept
    <3> QED
      BY <3>1, <3>2, <3>3, <3>4 DEF AlwaysAfter
  <2>2. CASE Goto("orchestrate", "feedback") /\ UNCHANGED <<run, stale>>
    BY <2>0, <2>2 DEF AlwaysAfter, Untouched, RunKept, StepKept, In, Judged, Offered, Disclosed
  <2> QED
    BY <1>3, <2>0, <2>1, <2>2 DEF Revise, Do
<1>4. CASE BlockForRevision
  <2>1. Untouched("orchestrate")
    BY <1>4 DEF BlockForRevision, Do, Stop, Untouched
  <2>2. Shape'
    BY <1>4 DEF BlockForRevision, Do, Stop, Stages
  <2>3. RunKept'
    BY <1>4
       DEF BlockForRevision, Do, Stop, RunKept, In, Late, Judged, Offered, Disclosed, world,
           history
  <2>4. StepKept("orchestrate")'
    BY <1>4 DEF BlockForRevision, Do, Stop, StepKept
  <2> QED
    BY <2>1, <2>2, <2>3, <2>4 DEF AlwaysAfter
<1>5. CASE SaveFeedback
  <2>1. Untouched("orchestrate")
    BY <1>5 DEF SaveFeedback, Do, Untouched
  <2>2. Shape'
    BY <1>5 DEF SaveFeedback, Do
  <2>3. RunKept'
    BY <1>5 DEF SaveFeedback, Do, RunKept, In, Judged, Offered, Disclosed, world, history
  <2>4. StepKept("orchestrate")'
    BY <1>5 DEF SaveFeedback, Do, StepKept
  <2> QED
    BY <2>1, <2>2, <2>3, <2>4 DEF AlwaysAfter
<1>6. ASSUME NEW passed \in BOOLEAN, Attest(passed)
       PROVE  AlwaysAfter("orchestrate")
  BY <1>6 DEF Attest, Do, AlwaysAfter, Untouched, RunKept, StepKept, In, Late, Offered, history
<1>7. CASE Replan
  <2>1. Untouched("orchestrate")
    BY <1>7 DEF Replan, Do, Untouched
  <2>2. Shape'
    BY <1>7 DEF Replan, Do
  <2>3. RunKept'
    BY <1>7 DEF Replan, Do, RunKept, In, Judged, Offered, history
  <2>4. StepKept("orchestrate")'
    BY <1>7 DEF Replan, Do, StepKept
  <2> QED
    BY <2>1, <2>2, <2>3, <2>4 DEF AlwaysAfter
<1>8. CASE Approve
  <2>0. /\ run.state = "WAITING_APPROVAL" /\ run.approval # NoPackage /\ Idle
        /\ UNCHANGED <<passedOn, failing, decided, defer, seen>>
    BY <1>8 DEF Approve, Do, world, history
  <2>1. CASE Do([run EXCEPT !.approval = NoPackage], "withdraw")
    BY <2>0, <2>1 DEF Do, AlwaysAfter, Untouched, RunKept, StepKept, In, Late, Offered
  <2>2. CASE Do(run, "publish")
    <3>1. Untouched("orchestrate")
      BY <2>0, <2>2 DEF Do, Untouched
    <3>2. Shape'
      BY <2>0, <2>2 DEF Do
    <3>3. RunKept'
      BY <2>0, <2>2 DEF Do, RunKept, In, Late, Offered, Disclosed
    <3>4. StepKept("orchestrate")'
      BY <2>0, <2>2 DEF Do, StepKept
    <3> QED
      BY <3>1, <3>2, <3>3, <3>4 DEF AlwaysAfter
  <2> QED
    BY <1>8, <2>0, <2>1, <2>2 DEF Approve, Do
<1>9. CASE Withdraw
  BY <1>9
     DEF Withdraw, Block, Stop, AlwaysAfter, Untouched, Forget, Stages, RunKept, StepKept, In,
         Late, Judged, Offered, Disclosed, world, history
<1>10. CASE Publish
  <2>0. /\ pc["orchestrate"] = "publish"
        /\ UNCHANGED <<passedOn, failing, decided, defer, seen>>
    BY <1>10 DEF Publish, world, history
  <2>1. CASE Do(To(run, "PUBLISHING"), "idle")
    <3>1. Untouched("orchestrate")
      BY <2>0, <2>1 DEF Do, To, Untouched
    <3>2. Shape'
      BY <2>0, <2>1 DEF Do, To
    <3>3. RunKept'
      BY <2>0, <2>1 DEF Do, To, RunKept, StepKept, In, Late, Offered, Disclosed
    <3>4. StepKept("orchestrate")'
      BY <2>0, <2>1 DEF Do, To, StepKept
    <3> QED
      BY <3>1, <3>2, <3>3, <3>4 DEF AlwaysAfter
  <2>2. CASE Goto("orchestrate", "idle") /\ UNCHANGED <<run, stale>>
    BY <2>0, <2>2 DEF AlwaysAfter, Untouched, RunKept, StepKept, In, Judged, Offered, Disclosed
  <2> QED
    BY <1>10, <2>0, <2>1, <2>2 DEF Publish
<1>11. CASE Cancel
  <2>1. Untouched("orchestrate")
    BY <1>11 DEF Cancel, Do, To, Untouched
  <2>2. Shape'
    BY <1>11 DEF Cancel, Do, To
  <2>3. RunKept'
    BY <1>11 DEF Cancel, Do, To, RunKept, In, Late, Judged, Offered, Disclosed, world, history
  <2>4. StepKept("orchestrate")'
    BY <1>11 DEF Cancel, Do, To, StepKept
  <2> QED
    BY <2>1, <2>2, <2>3, <2>4 DEF AlwaysAfter
<1> QED
  BY <1>1, <1>2, <1>3, <1>4, <1>5, <1>6, <1>7, <1>8, <1>9, <1>10, <1>11 DEF Orchestrate

\* Always: the decision about an analysis.
LEMMA AlwaysDecide ==
    ASSUME Always, \E accept \in BOOLEAN : Decide(accept)
    PROVE  AlwaysAfter("decision")
<1> USE DEF Always, Shape, Fields, Save, Goto, Fresh, At
<1>0. "decision" \in Locks
  BY DEF Locks
<1> USE <1>0
<1>1. ASSUME NEW accept \in BOOLEAN, Decide(accept)
       PROVE  AlwaysAfter("decision")
  <2>0. /\ run.checkpoint = "root" /\ run.results = 1
        /\ UNCHANGED <<passedOn, failing, defer, seen>>
    BY <1>1 DEF Decide, world
  <2>1. CASE Save("decision",
                  To([run EXCEPT !.action = "repair", !.accepted = TRUE], "IMPLEMENTING"), "run")
    BY <2>0, <2>1 DEF To, AlwaysAfter, Untouched, RunKept, StepKept, In, Late, Judged, Offered
  <2>2. CASE Save("decision", To(Undecided(run), "IMPLEMENTING"), "run")
    <3>1. Untouched("decision")
      BY <2>0, <2>2 DEF To, Undecided, Untouched
    <3>2. Shape'
      BY <2>0, <2>2 DEF To, Undecided
    <3>3. RunKept'
      BY <2>0, <2>2 DEF To, Undecided, RunKept, In, Late, Judged, Offered
    <3>4. StepKept("decision")'
      BY <2>0, <2>2 DEF To, Undecided, StepKept
    <3> QED
      BY <3>1, <3>2, <3>3, <3>4 DEF AlwaysAfter
  <2> QED
    BY <1>1, <2>0, <2>1, <2>2 DEF Decide
<1> QED
  BY <1>1

\* Always: what ends a command.
LEMMA AlwaysEnds ==
    ASSUME NEW l \in Locks, Always, Ends(l)
    PROVE  AlwaysAfter(l)
<1> USE DEF Always, Shape, Fields, Save, Goto, Fresh, At
<1>1. CASE Refused(l)
  BY <1>1
     DEF Refused, AlwaysAfter, Untouched, Forget, RunKept, StepKept, In, Judged, Offered,
         Disclosed, world, history
<1>2. CASE Crash(l)
  BY <1>2
     DEF Crash, AlwaysAfter, Untouched, Forget, RunKept, StepKept, In, Judged, Offered,
         Disclosed, world, history
<1>3. ASSUME NEW why \in {"kept", "interrupted", "other"}, Fail(l, why)
       PROVE  AlwaysAfter(l)
  <2>1. Untouched(l)
    BY <1>3 DEF Fail, Stop, MayFail, Untouched, Forget, history
  <2>2. Shape'
    BY <1>3 DEF Fail, Stop, MayFail, Stages, Forget
  <2>3. RunKept'
    BY <1>3
       DEF Fail, Stop, MayFail, RunKept, In, Late, Judged, Offered, Disclosed, world, history
  <2>4. StepKept(l)'
    BY <1>3 DEF Fail, Stop, MayFail, StepKept
  <2> QED
    BY <2>1, <2>2, <2>3, <2>4 DEF AlwaysAfter
<1> QED
  BY <1>1, <1>2, <1>3 DEF Ends

-----------------------------------------------------------------------------
(* What holds wherever commands are interrupted and overlap *)

\* A run begins without results, and its first command relies on nothing.
LEMMA AlwaysInit == Init => Always
<1> SUFFICES ASSUME Init PROVE Always
  OBVIOUS
<1>1. /\ DOMAIN run = Fields /\ run.state = "CREATED" /\ run.resume = "CREATED"
      /\ run.results = 0 /\ run.checkpoint = "none" /\ run.prefail = "none"
      /\ run.review = NoReview /\ run.approval = NoPackage
  BY DEF Init, Fields
<1>2. \A l \in Locks : pc[l] \in {"run", "idle"}
  BY DEF Init
<1>3. DOMAIN pc = Locks /\ DOMAIN stale = Locks /\ DOMAIN seen = Locks
  BY DEF Init
<1> QED
  BY <1>1, <1>2, <1>3 DEF Always, Shape, RunKept, StepKept, In, Late, Judged, Offered, Stages

\* Every step is a step of one command, or leaves the run and the steps alone.
LEMMA AlwaysStep == Always /\ [Next]_vars => Always'
<1> SUFFICES ASSUME Always, [Next]_vars PROVE Always'
  OBVIOUS
<1>kept. ASSUME NEW l \in Locks, AlwaysAfter(l) PROVE Always'
  BY <1>kept, OthersKept DEF AlwaysAfter, Always
<1>same. ASSUME UNCHANGED <<run, defer, pc, stale, seen, history>> PROVE Always'
  BY <1>same
     DEF Always, Shape, RunKept, StepKept, In, Late, Judged, Offered, Disclosed, Fresh, history
<1>1. ASSUME NEW l \in Locks, Step(l) PROVE Always'
  BY <1>1, <1>kept, AlwaysBegin, AlwaysImplement, AlwaysTest, AlwaysReview, AlwaysRefresh
     DEF Step
<1>2. ASSUME NEW l \in Locks, Ends(l) PROVE Always'
  BY <1>2, <1>kept, AlwaysEnds
<1>3. CASE Orchestrate
  BY <1>3, <1>kept, AlwaysOrchestrate DEF Locks
<1>4. CASE \E accept \in BOOLEAN : Decide(accept)
  BY <1>4, <1>kept, AlwaysDecide DEF Locks
<1>5. ASSUME NEW l \in Locks, NEW test \in Tests, NEW rest \in Written, AgentWrites(l, test, rest)
      PROVE  Always'
  BY <1>5, <1>same DEF AgentWrites
<1>6. CASE RemoteMoves \/ \E rest \in Edits : Edit(rest)
  BY <1>6, <1>same DEF RemoteMoves, Edit
<1>7. CASE UNCHANGED vars
  BY <1>7, <1>same DEF vars, world
<1> QED
  BY <1>1, <1>2, <1>3, <1>4, <1>5, <1>6, <1>7 DEF Next, Command, Ends, Orchestrate

\* Always holds in every state of every run.
LEMMA AlwaysInvariant == Spec => []Always
BY AlwaysInit, AlwaysStep, PTL DEF Spec

PassedInFull == run.approval.diff = passedOn /\ passedOn.test = run.frozen

\* What is offered is what all commands passed on last, with the reproduction
\* that was frozen (the first part of PackageWasTested): whatever blocks, stale
\* commands, crashes, revisions and migrations lie between.
THEOREM OffersTested == Spec => [](Offered => PassedInFull)
<1>1. Always => (Offered => PassedInFull)
  BY DEF Always, RunKept, PassedInFull, Offered, In, Late
<1> HIDE DEF Always, Offered, PassedInFull
<1> QED
  BY <1>1, AlwaysInvariant, PTL

\* The frozen reproduction of what is offered has been seen failing, or that
\* this is missing is disclosed.
THEOREM OffersReproduced == Spec => []FrozenWasFailing
<1>1. Always => FrozenWasFailing
  BY DEF Always, RunKept, FrozenWasFailing, Offered
<1> HIDE DEF Always, FrozenWasFailing
<1> QED
  BY <1>1, AlwaysInvariant, PTL

-----------------------------------------------------------------------------
(* The decision about an analysis *)

\* Accepted, and not reproduced yet.
Undone ==
    /\ run.root = decided /\ run.results = 1 /\ run.checkpoint = "root"
    /\ In({"IMPLEMENTING"}) \/ run.state \in {"CANCELLED", "FAILED"}

\* Once a decision was made the reproduction is in the worktree, which is then
\* never clean enough for another analysis, or the analysis is still there.
DecidedRun ==
    /\ DOMAIN diff = {"base", "test", "rest"}
    /\ decided # 0 => /\ run.action = "repair" /\ run.root \in {0, decided}
                      /\ diff.test # NoTest \/ Undone

\* A new worktree takes the reproduction along.
DecidedSwap(l) ==
    Fresh(l) /\ pc[l] = "swap" =>
        /\ DOMAIN seen[l] = {"base", "test", "rest"}
        /\ decided # 0 => seen[l].test # NoTest

Decided == DecidedRun /\ \A l \in Locks : DecidedSwap(l)

DecisionKept(l)  == DecidedRun /\ DecidedSwap(l)
DecisionAfter(l) == DecidedRun' /\ DecidedSwap(l)'

\* The decision: the resumption and the stages before the implementation.
LEMMA DecisionBegin ==
    ASSUME NEW l \in Locks, Always, DecisionKept(l), Begin(l)
    PROVE  DecisionAfter(l)
<1> USE DEF Always, Shape, Fields, Save, Goto, Fresh, At
<1>1. CASE CarryReview(l)
  BY <1>1
     DEF CarryReview, DecisionAfter, DecisionKept, DecidedRun, DecidedSwap, Undone, In, world,
         history
<1>2. CASE Unblock(l)
  <2>0. /\ At(l, "unblock", "BLOCKED")
        /\ UNCHANGED <<passedOn, failing, decided, defer, seen>>
        /\ UNCHANGED diff
    BY <1>2 DEF Unblock, KeepsReview, world, history
  <2>1. ASSUME NEW c \in BOOLEAN, NEW s \in {"run", "reset"},
                Save(l, [To(run, run.resume) EXCEPT !.interrupted = c], s)
         PROVE  DecisionAfter(l)
    BY <2>0, <2>1, ToFields DEF DecisionAfter, DecisionKept, DecidedRun, DecidedSwap, Undone, In
  <2> QED
    BY <1>2, <2>0, <2>1 DEF Unblock, KeepsReview
<1>3. CASE ResetImplementing(l)
  <2>0. /\ At(l, "reset", "IMPLEMENTING")
        /\ UNCHANGED <<passedOn, failing, decided, defer, seen>>
        /\ (ReviewedCheckpoint \/ RevisionCheckpoint => run.results >= 2)
        /\ UNCHANGED diff
    BY <1>3 DEF ResetImplementing, ReviewedCheckpoint, RevisionCheckpoint, world, history
  <2>1. CASE run.results >= 2 /\ Save(l, RepairAgain(run), "run")
    BY <2>0, <2>1 DEF RepairAgain, DecisionAfter, DecisionKept, DecidedRun, DecidedSwap, Undone
  <2>2. CASE Save(l, To(run, "FAILED"), "idle")
    BY <2>0, <2>2 DEF To, DecisionAfter, DecisionKept, DecidedRun, DecidedSwap, Undone
  <2>3. CASE /\ run.results > 2
             /\ Save(l, [run EXCEPT !.results = 2, !.review = NoReview,
                                    !.approval = NoPackage], "run")
    BY <2>0, <2>3 DEF DecisionAfter, DecisionKept, DecidedRun, DecidedSwap, Undone
  <2>4. CASE Save(l, Stop(run, "IMPLEMENTING", "other"), "idle")
    BY <2>0, <2>4 DEF Stop, DecisionAfter, DecisionKept, DecidedRun, DecidedSwap, Undone, In
  <2>5. CASE run.checkpoint # "final" /\ Goto(l, "run") /\ UNCHANGED <<run, stale>>
    BY <2>0, <2>5 DEF DecisionAfter, DecisionKept, DecidedRun, DecidedSwap, Undone, In
  <2>6. CASE /\ run.checkpoint \in {"none", "applied", "final"}
             /\ Save(l, Anew(run), "run")
    BY <2>0, <2>6, AnewFields DEF DecisionAfter, DecisionKept, DecidedRun, DecidedSwap, Undone
  <2> QED
    BY <1>3, <2>0, <2>1, <2>2, <2>3, <2>4, <2>5, <2>6 DEF ResetImplementing
<1>4. CASE ResetLate(l)
  <2>0. /\ pc[l] = "reset" /\ run.state \in Stages \ {"IMPLEMENTING"}
        /\ UNCHANGED <<passedOn, failing, decided, defer, seen>>
        /\ UNCHANGED diff
    BY <1>4 DEF ResetLate, world, history
  <2>1. CASE /\ run.state = "TESTING"
             /\ Save(l, [run EXCEPT !.tests = IF Group THEN @ ELSE "none",
                                    !.tested = IF Group THEN @ ELSE None,
                                    !.review = NoReview, !.approval = NoPackage], "run")
    BY <2>0, <2>1 DEF DecisionAfter, DecisionKept, DecidedRun, DecidedSwap, Undone, In
  <2>2. CASE /\ run.state = "AI_REVIEW"
             /\ Save(l, [run EXCEPT !.review = NoReview, !.approval = NoPackage], "run")
    BY <2>0, <2>2 DEF DecisionAfter, DecisionKept, DecidedRun, DecidedSwap, Undone, In
  <2>3. CASE Goto(l, "run") /\ UNCHANGED <<run, stale>>
    BY <2>0, <2>3 DEF DecisionAfter, DecisionKept, DecidedRun, DecidedSwap, Undone, In
  <2> QED
    BY <1>4, <2>0, <2>1, <2>2, <2>3 DEF ResetLate
<1>5. CASE StartReading(l)
  BY <1>5
     DEF StartReading, To, DecisionAfter, DecisionKept, DecidedRun, DecidedSwap, Undone, In,
         world, history
<1>6. CASE ReadSelected(l)
  <2>0. /\ At(l, "run", "READING_ONES")
        /\ UNCHANGED <<passedOn, failing, decided, defer, seen>>
        /\ UNCHANGED diff
    BY <1>6 DEF ReadSelected, world, history
  <2>1. CASE Save(l, [Anew(run) EXCEPT !.prepared = Group /\ @, !.verifyOnly = FALSE,
                                      !.since = 0, !.ever = FALSE, !.fingerprint = None],
                  "checked")
    BY <2>0, <2>1, AnewFields
       DEF DecisionAfter, DecisionKept, DecidedRun, DecidedSwap, Undone, In
  <2> QED
    BY <1>6, <2>0, <2>1 DEF ReadSelected
<1>7. CASE Read(l)
  BY <1>7
     DEF Read, To, DecisionAfter, DecisionKept, DecidedRun, DecidedSwap, Undone, In, world,
         history
<1>8. CASE ValidateMapping(l)
  <2>0. /\ At(l, "run", "VALIDATING")
        /\ UNCHANGED <<passedOn, failing, decided, defer, seen>>
        /\ UNCHANGED diff
    BY <1>8 DEF ValidateMapping, world, history
  <2>1. CASE Goto(l, "idle") /\ UNCHANGED <<run, stale>>
    BY <2>0, <2>1 DEF DecisionAfter, DecisionKept, DecidedRun, DecidedSwap, Undone, In
  <2>2. CASE Save(l, To(run, "PREPARING_REPO"), "run")
    BY <2>0, <2>2 DEF To, DecisionAfter, DecisionKept, DecidedRun, DecidedSwap, Undone, In
  <2> QED
    BY <1>8, <2>0, <2>1, <2>2 DEF ValidateMapping
<1>9. CASE Prepare(l)
  <2>0. /\ At(l, "run", "PREPARING_REPO")
        /\ UNCHANGED <<passedOn, failing, decided, defer, seen>>
        /\ UNCHANGED diff
    BY <1>9 DEF Prepare, world, history
  <2>1. CASE Save(l, To(run, "IMPLEMENTING"), "run")
    BY <2>0, <2>1 DEF To, DecisionAfter, DecisionKept, DecidedRun, DecidedSwap, Undone, In
  <2>2. CASE Save(l, [run EXCEPT !.prepared = TRUE], "run")
    BY <2>0, <2>2 DEF DecisionAfter, DecisionKept, DecidedRun, DecidedSwap, Undone, In
  <2> QED
    BY <1>9, <2>0, <2>1, <2>2 DEF Prepare
<1> QED
  BY <1>1, <1>2, <1>3, <1>4, <1>5, <1>6, <1>7, <1>8, <1>9 DEF Begin

\* The decision: analysis, reproduction and repair.
LEMMA DecisionImplement ==
    ASSUME NEW l \in Locks, Always, DecisionKept(l), Implement(l)
    PROVE  DecisionAfter(l)
<1> USE DEF Always, Shape, Fields, Save, Goto, Fresh, At
<1>1. ASSUME NEW grounded \in BOOLEAN, Analyse(l, grounded)
       PROVE  DecisionAfter(l)
  <2>0. /\ At(l, "run", "IMPLEMENTING") /\ run.results = 0 /\ diff.test = NoTest
        /\ UNCHANGED <<diff, decided, seen>>
    BY <1>1 DEF Analyse, CleanCheckout, world
  <2>1. CASE Save(l, [run EXCEPT !.results = 1, !.root = analyses', !.checkpoint = "root"],
                  "analysed")
    BY <2>0, <2>1 DEF DecisionAfter, DecisionKept, DecidedRun, DecidedSwap, Undone
  <2>2. CASE Save(l, [run EXCEPT !.results = 1], "changed")
    BY <2>0, <2>2 DEF DecisionAfter, DecisionKept, DecidedRun, DecidedSwap, Undone
  <2> QED
    BY <1>1, <2>0, <2>1, <2>2 DEF Analyse, CleanCheckout
<1>2. CASE NotClean(l)
  BY <1>2
     DEF NotClean, Block, Stop, DecisionAfter, DecisionKept, DecidedRun, DecidedSwap, Undone,
         world, history
<1>3. CASE Analysed(l)
  <2>0. /\ At(l, "analysed", "IMPLEMENTING")
        /\ UNCHANGED <<passedOn, failing, decided, defer, seen>>
        /\ UNCHANGED diff
    BY <1>3 DEF Analysed, world, history
  <2>1. CASE run.action = "analyze" /\ Save(l, To(run, "COMPLETED"), "idle")
    BY <2>0, <2>1 DEF To, DecisionAfter, DecisionKept, DecidedRun, DecidedSwap
  <2>2. CASE Goto(l, "run") /\ UNCHANGED <<run, stale>>
    BY <2>0, <2>2 DEF DecisionAfter, DecisionKept, DecidedRun, DecidedSwap, Undone, In
  <2> QED
    BY <1>3, <2>0, <2>1, <2>2 DEF Analysed
<1>4. CASE BeginReproduction(l)
  BY <1>4
     DEF BeginReproduction, DecisionAfter, DecisionKept, DecidedRun, DecidedSwap, Undone, In,
         world, history
<1>5. ASSUME NEW test \in Tests, EndReproduction(l, test)
       PROVE  DecisionAfter(l)
  <2>0. /\ At(l, "reproducing", "IMPLEMENTING")
        /\ UNCHANGED <<decided, seen>>
        /\ DOMAIN diff' = DOMAIN diff /\ diff'.test # NoTest
    BY <1>5, DefectAssumption DEF EndReproduction, history, DefectAssumption
  <2>1. CASE Save(l, [run EXCEPT !.results = 2, !.tries = @ + 1, !.checkpoint = "prepared",
                                    !.listed = FALSE, !.tested = IF Group THEN None ELSE @,
                                    !.tests = IF Group THEN "none" ELSE @], "prefail")
    BY <2>0, <2>1 DEF DecisionAfter, DecisionKept, DecidedRun, DecidedSwap
  <2>2. CASE Save(l, Stop(run, "IMPLEMENTING", "other"), "idle")
    BY <2>0, <2>2 DEF Stop, DecisionAfter, DecisionKept, DecidedRun, DecidedSwap
  <2> QED
    BY <1>5, <2>0, <2>1, <2>2 DEF EndReproduction
<1>6. ASSUME NEW outcome \in {"failed", "passed", "none"}, PersistPrefail(l, outcome)
       PROVE  DecisionAfter(l)
  BY <1>6
     DEF PersistPrefail, Prefail, DecisionAfter, StepKept, DecisionKept, DecidedRun,
         DecidedSwap, Undone, world
<1>7. ASSUME NEW outcome \in {"failed", "passed", "none"}, PersistPrefailAgain(l, outcome)
       PROVE  DecisionAfter(l)
  BY <1>7
     DEF PersistPrefailAgain, Prefail, DecisionAfter, DecisionKept, DecidedRun, DecidedSwap,
         Undone, world
<1>8. CASE BeginVerifyOnly(l)
  BY <1>8
     DEF BeginVerifyOnly, MayVerifyOnly, DecisionAfter, DecisionKept, DecidedRun, DecidedSwap,
         world, history
<1>9. CASE RepairRefused(l)
  BY <1>9
     DEF RepairRefused, Block, Stop, DecisionAfter, DecisionKept, DecidedRun, DecidedSwap,
         Undone, In, world, history
<1>10. CASE RecoverRepair(l)
  <2>0. /\ run.state = "IMPLEMENTING" /\ run.results = 2
        /\ run.checkpoint \in {"prepared", "failed"}
        /\ UNCHANGED <<passedOn, failing, decided, defer, seen>>
        /\ UNCHANGED diff
    BY <1>10 DEF RecoverRepair, RepairAllowed, AtRepair, world, history
  <2>1. CASE Save(l, Repaired(run), "implemented")
    BY <2>0, <2>1 DEF Repaired, DecisionAfter, DecisionKept, DecidedRun, DecidedSwap, Undone
  <2> QED
    BY <1>10, <2>0, <2>1 DEF RecoverRepair, RepairAllowed, AtRepair
<1>11. CASE BeginRepair(l)
  BY <1>11
     DEF BeginRepair, RepairAllowed, AtRepair, DecisionAfter, DecisionKept, DecidedRun,
         DecidedSwap, Undone, world, history
<1>12. ASSUME NEW test \in Tests, NEW rest \in Written, EndRepair(l, test, rest)
       PROVE  DecisionAfter(l)
  <2>0. /\ At(l, "repairing", "IMPLEMENTING")
        /\ UNCHANGED decided /\ Forget(l)
        /\ DOMAIN diff' = DOMAIN diff /\ diff'.test # NoTest
    BY <1>12, DefectAssumption DEF EndRepair, history, DefectAssumption
  <2>1. CASE Save(l, [run EXCEPT !.results = 3, !.tries = @ + 1, !.checkpoint = "applied",
                                    !.review = NoReview, !.approval = NoPackage], "implemented")
    BY <2>0, <2>1 DEF DecisionAfter, DecisionKept, DecidedRun, DecidedSwap
  <2>2. CASE Save(l, Repaired(run), "implemented")
    BY <2>0, <2>2 DEF Repaired, DecisionAfter, DecisionKept, DecidedRun, DecidedSwap
  <2>3. ASSUME NEW why \in {"interrupted", "other"},
                Save(l, Stop(run, "IMPLEMENTING", why), "idle")
         PROVE  DecisionAfter(l)
    BY <2>0, <2>3 DEF Stop, DecisionAfter, DecisionKept, DecidedRun, DecidedSwap
  <2> QED
    BY <1>12, <2>0, <2>1, <2>2, <2>3 DEF EndRepair
<1>13. CASE Implemented(l)
  BY <1>13
     DEF Implemented, To, DecisionAfter, StepKept, DecisionKept, DecidedRun, DecidedSwap,
         Undone, world, history
<1>14. CASE CannotReproduce(l)
  BY <1>14
     DEF CannotReproduce, Block, Stop, DecisionAfter, DecisionKept, DecidedRun, DecidedSwap,
         Undone, In, world, history
<1> QED
  BY <1>1, <1>2, <1>3, <1>4, <1>5, <1>6, <1>7, <1>8, <1>9, <1>10, <1>11, <1>12, <1>13, <1>14 DEF
     Implement

\* The decision: the tests and what follows failed ones.
LEMMA DecisionTest ==
    ASSUME NEW l \in Locks, Always, DecisionKept(l), Test(l)
    PROVE  DecisionAfter(l)
<1> USE DEF Always, Shape, Fields, Save, Goto, Fresh, At
<1>1. CASE BeginTests(l)
  <2>0. /\ At(l, "run", "TESTING")
        /\ UNCHANGED <<passedOn, failing, decided, defer>>
        /\ UNCHANGED diff
    BY <1>1 DEF BeginTests, world, history
  <2>1. CASE Block(l, "IMPLEMENTING", "other")
    BY <2>0, <2>1
       DEF Block, Stop, DecisionAfter, DecisionKept, DecidedRun, DecidedSwap, Undone, In
  <2>2. CASE Block(l, "TESTING", "other")
    BY <2>0, <2>2
       DEF Block, Stop, DecisionAfter, DecisionKept, DecidedRun, DecidedSwap, Undone, In
  <2>3. CASE Goto(l, "testing") /\ seen' = [seen EXCEPT ![l] = diff] /\ UNCHANGED <<run, stale>>
    BY <2>0, <2>3 DEF DecisionAfter, DecisionKept, DecidedRun, DecidedSwap, Undone, In
  <2> QED
    BY <1>1, <2>0, <2>1, <2>2, <2>3 DEF BeginTests
<1>2. ASSUME NEW passed \in BOOLEAN, EndTests(l, passed)
       PROVE  DecisionAfter(l)
  <2>0. At(l, "testing", "TESTING") /\ UNCHANGED <<diff, decided, seen>>
    BY <1>2 DEF EndTests, world
  <2>1. ASSUME NEW t \in {run.tests, "passed"},
                passed, Unchanged(l), ReproductionFrozen,
                Save(l, [run EXCEPT !.tests = t], "passed")
         PROVE  DecisionAfter(l)
    BY <2>0, <2>1
       DEF Unchanged, ReproductionFrozen, DecisionAfter, DecisionKept, DecidedRun, DecidedSwap
  <2>2. ASSUME NEW t \in {run.tests, "passed", "failed"}, NEW s \in {"changed", "failed"},
                Save(l, [run EXCEPT !.tests = t], s)
         PROVE  DecisionAfter(l)
    BY <2>0, <2>2 DEF DecisionAfter, DecisionKept, DecidedRun, DecidedSwap, Undone, In
  <2>3. CASE Save(l, Stop(run, "TESTING", "other"), "idle")
    BY <2>0, <2>3 DEF Stop, DecisionAfter, DecisionKept, DecidedRun, DecidedSwap, Undone, In
  <2> QED
    BY <1>2, <2>0, <2>1, <2>2, <2>3 DEF EndTests
<1>3. CASE BlockChanged(l)
  BY <1>3
     DEF BlockChanged, Block, Stop, DecisionAfter, DecisionKept, DecidedRun, DecidedSwap,
         Undone, In, world, history
<1>4. CASE SaveTested(l)
  BY <1>4
     DEF SaveTested, DecisionAfter, DecisionKept, DecidedRun, DecidedSwap, Undone, In, world,
         history
<1>5. CASE Tested(l)
  BY <1>5
     DEF Tested, To, DecisionAfter, StepKept, DecisionKept, DecidedRun, DecidedSwap, Undone,
         world, history
<1>6. CASE SaveRetry(l)
  BY <1>6
     DEF SaveRetry, DecisionAfter, DecisionKept, DecidedRun, DecidedSwap, Undone, In, world,
         history
<1>7. CASE TestsFailed(l)
  BY <1>7
     DEF TestsFailed, Block, Stop, DecisionAfter, DecisionKept, DecidedRun, DecidedSwap, Undone,
         In, world, history
<1>8. CASE Retry(l)
  BY <1>8
     DEF Retry, BlockAndGoOn, Stop, DecisionAfter, DecisionKept, DecidedRun, DecidedSwap,
         Undone, In, world, history
<1> QED
  BY <1>1, <1>2, <1>3, <1>4, <1>5, <1>6, <1>7, <1>8 DEF Test

\* The decision: the review and the package.
LEMMA DecisionReview ==
    ASSUME NEW l \in Locks, Always, DecisionKept(l), Review(l)
    PROVE  DecisionAfter(l)
<1> USE DEF Always, Shape, Fields, Save, Goto, Fresh, At
<1>1. CASE EvidenceChanged(l)
  BY <1>1
     DEF EvidenceChanged, Block, Stop, EvidenceUnchanged, DecisionAfter, DecisionKept,
         DecidedRun, DecidedSwap, Undone, In, world, history
<1>2. CASE BeginReview(l)
  BY <1>2
     DEF BeginReview, DecisionAfter, DecisionKept, DecidedRun, DecidedSwap, Undone, In, world,
         history
<1>3. ASSUME NEW result \in {"clean", "open", "incomplete"}, EndReview(l, result)
       PROVE  DecisionAfter(l)
  BY <1>3
     DEF EndReview, EvidenceUnchanged, DecisionAfter, DecisionKept, DecidedRun, DecidedSwap,
         Undone, In, world, history
<1>4. CASE Incomplete(l)
  BY <1>4
     DEF Incomplete, Block, Stop, DecisionAfter, DecisionKept, DecidedRun, DecidedSwap, Undone,
         In, world, history
<1>5. CASE NoMoreRepairs(l)
  BY <1>5
     DEF NoMoreRepairs, Block, Stop, DecisionAfter, DecisionKept, DecidedRun, DecidedSwap,
         Undone, In, world, history
<1>6. CASE QueueReview(l)
  BY <1>6
     DEF QueueReview, DecisionAfter, DecisionKept, DecidedRun, DecidedSwap, Undone, In, world,
         history
<1>7. CASE CountAttempt(l)
  BY <1>7
     DEF CountAttempt, DecisionAfter, DecisionKept, DecidedRun, DecidedSwap, Undone, In, world,
         history
<1>8. CASE RepairReview(l)
  BY <1>8
     DEF RepairReview, BlockAndGoOn, Stop, DecisionAfter, DecisionKept, DecidedRun, DecidedSwap,
         Undone, In, world, history
<1>9. CASE CompleteVerifyOnly(l)
  BY <1>9
     DEF CompleteVerifyOnly, Reviewed, Stop, To, DecisionAfter, DecisionKept, DecidedRun,
         DecidedSwap, Undone, In, world, history
<1>10. CASE ChecksBlock(l)
  BY <1>10
     DEF ChecksBlock, MayPackage, Reviewed, Block, Stop, DecisionAfter, DecisionKept,
         DecidedRun, DecidedSwap, Undone, In, world, history
<1>11. CASE PackageInvalid(l)
  BY <1>11
     DEF PackageInvalid, MayPackage, Reviewed, Block, Stop, DecisionAfter, DecisionKept,
         DecidedRun, DecidedSwap, Undone, In, world, history
<1>12. CASE SavePackage(l)
  <2>0. /\ At(l, "reviewed", "AI_REVIEW") /\ diff = run.tested
        /\ UNCHANGED <<passedOn, failing, decided, defer, seen>>
        /\ run.prefail # "passed" /\ (run.prefail = "none" => defer)
        /\ UNCHANGED diff
    BY <1>12
       DEF SavePackage, MayPackage, Reviewed, ChecksAllow, EvidenceUnchanged, PrefailValid,
           world, history
  <2>1. CASE Save(l, [run EXCEPT !.approval = [diff |-> diff, of |-> run.review.of]], "packaged")
    BY <2>0, <2>1 DEF DecisionAfter, DecisionKept, DecidedRun, DecidedSwap, Undone, In
  <2> QED
    BY <1>12, <2>0, <2>1
       DEF SavePackage, MayPackage, Reviewed, ChecksAllow, EvidenceUnchanged, PrefailValid
<1>13. CASE Packaged(l)
  BY <1>13
     DEF Packaged, To, DecisionAfter, DecisionKept, DecidedRun, DecidedSwap, Undone, In, world,
         history
<1> QED
  BY <1>1, <1>2, <1>3, <1>4, <1>5, <1>6, <1>7, <1>8, <1>9, <1>10, <1>11, <1>12, <1>13 DEF Review

\* The decision: the move to another base.
LEMMA DecisionRefresh ==
    ASSUME NEW l \in Locks, Always, DecisionKept(l), Refresh(l)
    PROVE  DecisionAfter(l)
<1> USE DEF Always, Shape, Fields, Save, Goto, Fresh, At
<1>1. CASE RemoteBaseChanged(l)
  BY <1>1
     DEF RemoteBaseChanged, MayPackage, Reviewed, DecisionAfter, DecisionKept, DecidedRun,
         DecidedSwap, Undone, In, world, history
<1>2. CASE BeginRefresh(l)
  <2>0. /\ At(l, "refresh", "AI_REVIEW")
        /\ UNCHANGED <<passedOn, failing, decided, defer, seen>>
        /\ UNCHANGED diff
    BY <1>2 DEF BeginRefresh, world, history
  <2>1. CASE Save(l, [run EXCEPT !.preparing = FALSE], "refresh")
    BY <2>0, <2>1 DEF DecisionAfter, DecisionKept, DecidedRun, DecidedSwap, Undone, In
  <2>2. CASE Save(l, Stop(run, "AI_REVIEW", "kept"), "idle")
    BY <2>0, <2>2 DEF Stop, DecisionAfter, DecisionKept, DecidedRun, DecidedSwap, Undone, In
  <2>3. CASE Save(l, [run EXCEPT !.refreshes = RefreshesAfter(@), !.preparing = TRUE,
                                    !.approval = NoPackage], "transferring")
    BY <2>0, <2>3 DEF DecisionAfter, DecisionKept, DecidedRun, DecidedSwap, Undone, In
  <2> QED
    BY <1>2, <2>0, <2>1, <2>2, <2>3 DEF BeginRefresh
<1>3. CASE TransferFails(l)
  BY <1>3
     DEF TransferFails, DecisionAfter, DecisionKept, DecidedRun, DecidedSwap, Undone, In, world,
         history
<1>4. CASE BlockTransfer(l)
  BY <1>4
     DEF BlockTransfer, Block, Stop, DecisionAfter, DecisionKept, DecidedRun, DecidedSwap,
         Undone, In, world, history
<1>5. ASSUME NEW rest \in {diff.rest, Base, Marked}, Migrate(l, rest)
       PROVE  DecisionAfter(l)
  BY <1>5
     DEF Migrate, Stop, DecisionAfter, DecisionKept, DecidedRun, DecidedSwap, Undone, In, world,
         history
<1>6. CASE SwapWorktree(l)
  <2>0. At(l, "swap", "BLOCKED") /\ diff' = seen[l] /\ UNCHANGED decided /\ Forget(l)
    BY <1>6 DEF SwapWorktree, history
  <2>1. CASE Save(l, Migrated(run, seen[l]), "unblock")
    BY <2>0, <2>1, MigratedFields DEF DecidedSwap, DecisionAfter, DecisionKept, DecidedRun
  <2> QED
    BY <1>6, <2>0, <2>1 DEF SwapWorktree
<1> QED
  BY <1>1, <1>2, <1>3, <1>4, <1>5, <1>6 DEF Refresh

\* The decision: what a person does.
LEMMA DecisionOrchestrate ==
    ASSUME Always, DecisionKept("orchestrate"), Orchestrate
    PROVE  DecisionAfter("orchestrate")
<1> USE DEF Always, Shape, Fields, Save, Goto, Fresh, At
<1>0. "orchestrate" \in Locks
  BY DEF Locks
<1> USE <1>0
<1>1. ASSUME NEW kind \in Kinds, Confirm(kind)
       PROVE  DecisionAfter("orchestrate")
  BY <1>1
     DEF Confirm, DecisionAfter, DecisionKept, DecidedRun, DecidedSwap, Undone, In, world,
         history
<1>2. CASE Resume
  BY <1>2
     DEF Resume, DecisionAfter, DecisionKept, DecidedRun, DecidedSwap, Undone, In, world,
         history
<1>3. CASE Revise
  <2>0. /\ run.state = "BLOCKED"
        /\ UNCHANGED <<passedOn, failing, decided, defer, seen>>
        /\ UNCHANGED diff
    BY <1>3 DEF Revise, Do, world, history
  <2>1. CASE run.resume \in {"TESTING", "AI_REVIEW"} /\ Do(To(run, run.resume), "revising")
    BY <2>0, <2>1 DEF Do, To, DecisionAfter, DecisionKept, DecidedRun, DecidedSwap, Undone, In
  <2>2. CASE Goto("orchestrate", "feedback") /\ UNCHANGED <<run, stale>>
    BY <2>0, <2>2 DEF DecisionAfter, DecisionKept, DecidedRun, DecidedSwap, Undone, In
  <2> QED
    BY <1>3, <2>0, <2>1, <2>2 DEF Revise, Do
<1>4. CASE BlockForRevision
  BY <1>4
     DEF BlockForRevision, Do, Stop, DecisionAfter, DecisionKept, DecidedRun, DecidedSwap,
         Undone, In, world, history
<1>5. CASE SaveFeedback
  BY <1>5
     DEF SaveFeedback, Do, DecisionAfter, DecisionKept, DecidedRun, DecidedSwap, Undone, In,
         world, history
<1>6. ASSUME NEW passed \in BOOLEAN, Attest(passed)
       PROVE  DecisionAfter("orchestrate")
  BY <1>6
     DEF Attest, Do, DecisionAfter, DecisionKept, DecidedRun, DecidedSwap, Undone, In, world,
         history
<1>7. CASE Replan
  BY <1>7
     DEF Replan, Do, DecisionAfter, DecisionKept, DecidedRun, DecidedSwap, Undone, In, world,
         history
<1>8. CASE Approve
  <2>0. /\ run.state = "WAITING_APPROVAL" /\ run.approval # NoPackage /\ Idle
        /\ UNCHANGED <<passedOn, failing, decided, defer, seen>>
        /\ UNCHANGED diff
    BY <1>8 DEF Approve, Do, world, history
  <2>1. CASE Do([run EXCEPT !.approval = NoPackage], "withdraw")
    BY <2>0, <2>1 DEF Do, DecisionAfter, DecisionKept, DecidedRun, DecidedSwap, Undone, In
  <2>2. CASE Do(run, "publish")
    BY <2>0, <2>2 DEF Do, DecisionAfter, DecisionKept, DecidedRun, DecidedSwap, Undone, In
  <2> QED
    BY <1>8, <2>0, <2>1, <2>2 DEF Approve, Do
<1>9. CASE Withdraw
  BY <1>9
     DEF Withdraw, Block, Stop, DecisionAfter, StepKept, DecisionKept, DecidedRun, DecidedSwap,
         Undone, In, world, history
<1>10. CASE Publish
  <2>0. /\ pc["orchestrate"] = "publish"
        /\ UNCHANGED <<passedOn, failing, decided, defer, seen>>
        /\ UNCHANGED diff
    BY <1>10 DEF Publish, world, history
  <2>1. CASE Do(To(run, "PUBLISHING"), "idle")
    BY <2>0, <2>1
       DEF Do, To, DecisionAfter, StepKept, DecisionKept, DecidedRun, DecidedSwap, Undone, In
  <2>2. CASE Goto("orchestrate", "idle") /\ UNCHANGED <<run, stale>>
    BY <2>0, <2>2 DEF DecisionAfter, DecisionKept, DecidedRun, DecidedSwap, Undone, In
  <2> QED
    BY <1>10, <2>0, <2>1, <2>2 DEF Publish
<1>11. CASE Cancel
  BY <1>11
     DEF Cancel, Do, To, DecisionAfter, DecisionKept, DecidedRun, DecidedSwap, Undone, world,
         history
<1> QED
  BY <1>1, <1>2, <1>3, <1>4, <1>5, <1>6, <1>7, <1>8, <1>9, <1>10, <1>11 DEF Orchestrate

\* The decision: the decision about an analysis.
LEMMA DecisionDecide ==
    ASSUME Always, DecisionKept("decision"), \E accept \in BOOLEAN : Decide(accept)
    PROVE  DecisionAfter("decision")
<1> USE DEF Always, Shape, Fields, Save, Goto, Fresh, At
<1>0. "decision" \in Locks
  BY DEF Locks
<1> USE <1>0
<1>1. ASSUME NEW accept \in BOOLEAN, Decide(accept)
       PROVE  DecisionAfter("decision")
  <2>0. /\ run.action = "analyze" /\ run.checkpoint = "root" /\ run.results = 1 /\ decided = 0
        /\ UNCHANGED <<diff, seen>>
    BY <1>1 DEF Decide, DecisionKept, DecidedRun, world
  <2>1. CASE /\ decided' = run.root
             /\ Save("decision",
                     To([run EXCEPT !.action = "repair", !.accepted = TRUE],
                        "IMPLEMENTING"), "run")
    BY <2>0, <2>1 DEF To, DecisionAfter, DecisionKept, DecidedRun, DecidedSwap, Undone, In
  <2>2. CASE /\ decided' = decided
             /\ Save("decision", To(Undecided(run), "IMPLEMENTING"), "run")
    BY <2>0, <2>2 DEF To, Undecided, DecisionAfter, DecisionKept, DecidedRun, DecidedSwap
  <2> QED
    BY <1>1, <2>0, <2>1, <2>2 DEF Decide
<1> QED
  BY <1>1

\* The decision: what ends a command.
LEMMA DecisionEnds ==
    ASSUME NEW l \in Locks, Always, DecisionKept(l), Ends(l)
    PROVE  DecisionAfter(l)
<1> USE DEF Always, Shape, Fields, Save, Goto, Fresh, At
<1>1. CASE Refused(l)
  BY <1>1
     DEF Refused, DecisionAfter, DecisionKept, DecidedRun, DecidedSwap, Undone, In, world,
         history
<1>2. CASE Crash(l)
  BY <1>2
     DEF Crash, DecisionAfter, DecisionKept, DecidedRun, DecidedSwap, Undone, In, world, history
<1>3. ASSUME NEW why \in {"kept", "interrupted", "other"}, Fail(l, why)
       PROVE  DecisionAfter(l)
  BY <1>3
     DEF Fail, Stop, MayFail, Stages, DecisionAfter, DecisionKept, DecidedRun, DecidedSwap,
         Undone, In, world, history
<1> QED
  BY <1>1, <1>2, <1>3 DEF Ends

\* No step takes an accepted analysis away for another one.
LEMMA DecidedStep == Always /\ Decided /\ [Next]_vars => Decided'
<1> SUFFICES ASSUME Always, Decided, [Next]_vars PROVE Decided'
  OBVIOUS
<1>kept. ASSUME NEW l \in Locks, AlwaysAfter(l), DecisionAfter(l) PROVE Decided'
  BY <1>kept DEF Decided, DecidedSwap, DecisionAfter, AlwaysAfter, Untouched, Fresh
<1>before. \A l \in Locks : DecisionKept(l)
  BY DEF Decided, DecisionKept
<1>same. ASSUME UNCHANGED <<run, pc, stale, seen, history>>, DOMAIN diff' = DOMAIN diff,
                diff'.test \in {diff.test} \cup Tests
         PROVE  Decided'
  BY <1>same, DefectAssumption
     DEF Decided, DecidedRun, DecidedSwap, Undone, In, Fresh, history, DefectAssumption
<1>1. ASSUME NEW l \in Locks, Step(l) PROVE Decided'
  <2>1. AlwaysAfter(l)
    BY <1>1, AlwaysBegin, AlwaysImplement, AlwaysTest, AlwaysReview, AlwaysRefresh DEF Step
  <2>2. DecisionAfter(l)
    BY <1>1, <1>before, DecisionBegin, DecisionImplement, DecisionTest, DecisionReview,
       DecisionRefresh
       DEF Step
  <2> QED
    BY <2>1, <2>2, <1>kept
<1>2. ASSUME NEW l \in Locks, Ends(l) PROVE Decided'
  BY <1>2, <1>kept, <1>before, AlwaysEnds, DecisionEnds
<1>3. CASE Orchestrate
  BY <1>3, <1>kept, <1>before, AlwaysOrchestrate, DecisionOrchestrate DEF Locks
<1>4. CASE \E accept \in BOOLEAN : Decide(accept)
  BY <1>4, <1>kept, <1>before, AlwaysDecide, DecisionDecide DEF Locks
<1>5. ASSUME NEW l \in Locks, NEW test \in Tests, NEW rest \in Written, AgentWrites(l, test, rest)
      PROVE  Decided'
  BY <1>5, <1>same DEF AgentWrites, Decided, DecidedRun
<1>6. CASE RemoteMoves \/ \E rest \in Edits : Edit(rest)
  BY <1>6, <1>same DEF RemoteMoves, Edit, Decided, DecidedRun
<1>7. CASE UNCHANGED vars
  BY <1>7, <1>same DEF vars, world
<1> QED
  BY <1>1, <1>2, <1>3, <1>4, <1>5, <1>6, <1>7 DEF Next, Command, Ends, Orchestrate

\* What is repaired is the analysis that a person accepted: neither a crash nor
\* a resumption, a revision or another command puts another in its place.
THEOREM RepairsWhatWasDecided == Spec => []DecisionIsKept
<1>1. Init => Decided
  BY DEF Init, Clean, Decided, DecidedRun, DecidedSwap
<1>2. Decided => DecisionIsKept
  BY DEF Decided, DecidedRun, DecisionIsKept
<1> QED
  BY <1>1, <1>2, DecidedStep, AlwaysInvariant, PTL DEF Spec

-----------------------------------------------------------------------------
(* The review of what is offered *)

\* A resumption is two saves: the run leaves BLOCKED, and then what was judged
\* before is taken away; a revision first goes back to the stage and is then
\* blocked for the implementation.  Between the two no process ends, and no
\* other command starts.
Resuming == {"reset", "revising"}
ResumptionCompletes == Resuming \subseteq NoCrashAt \ OverlapAt

\* A review from before the resumption has not been taken away yet.
Pending == run.state \in {"IMPLEMENTING", "TESTING"} /\ run.review # NoReview

\* The command that is about to take it away.
Takes(l) == Fresh(l) /\ pc[l] \in Resuming

\* In late stages the review is one of the content that was tested.
ReviewRun ==
    /\ In({"VALIDATING", "PREPARING_REPO"}) => run.review = NoReview
    /\ In(Late) /\ run.review # NoReview => run.review.of = run.tested
    /\ Offered => run.approval.of = run.tested

ReviewStep(l) ==
    Fresh(l) =>
        /\ pc[l] = "packaged" => run.approval.of = run.tested
        /\ pc[l] = "checked" /\ run.state = "READING_ONES" => run.review = NoReview

Others(l) == Locks \ {l}

\* Whoever takes a review away is the only one who may save the run.
ReviewKept ==
    /\ ReviewRun /\ \A l \in Locks : ReviewStep(l)
    /\ Pending => \E l \in Locks : Takes(l)
    /\ \A l \in Locks : Takes(l) => \A k \in Others(l) : pc[k] = "idle" \/ stale[k]

\* A command that has begun saves while it is fresh; another begins next to the
\* steps at which commands overlap.
MaySave(l) == IF pc[l] = "idle" THEN \A k \in Others(l) : pc[k] \in OverlapAt \cup {"idle"}
              ELSE Fresh(l)

Own(l) == MaySave(l) => (Pending => Takes(l)) /\ \A k \in Others(l) : ~Takes(k)

\* A step of l is a save, after which l alone may be the one who takes a review
\* away, or it leaves the run, and who that is, as it was.
Handed(l) ==
    \/ /\ \A k \in Others(l) : pc'[k] = "idle" \/ stale'[k]
       /\ (Pending => Takes(l))'
    \/ /\ run' = run /\ \A k \in Others(l) : pc'[k] = pc[k] /\ (stale'[k] <=> stale[k])
       /\ pc'[l] \notin Resuming /\ (Takes(l) => ~Pending)
       /\ pc'[l] = "idle" \/ stale'[l] \/ \A k \in Others(l) : ~Takes(k)

ReviewAfter(l) == ReviewRun' /\ ReviewStep(l)' /\ Handed(l)

\* Who may save does not meet a review that somebody else takes away.
LEMMA ReviewOwned ==
    ASSUME NEW l \in Locks, ReviewKept, ResumptionCompletes
    PROVE  Own(l)
BY DEF ReviewKept, Own, MaySave, Takes, Others, Resuming, ResumptionCompletes, Fresh

\* One step of one command keeps the invariant of both.
LEMMA ReviewHandedOn ==
    ASSUME NEW l \in Locks, ReviewKept, Untouched(l), ReviewAfter(l)
    PROVE  ReviewKept'
<1>1. \A k \in Others(l) : ReviewStep(k)'
  BY DEF ReviewKept, ReviewStep, Untouched, Fresh, Others
<1>2. CASE /\ \A k \in Others(l) : pc'[k] = "idle" \/ stale'[k]
           /\ (Pending => Takes(l))'
  BY <1>1, <1>2 DEF ReviewKept, ReviewAfter, Others, Takes, Fresh, Resuming
<1>3. CASE /\ run' = run /\ \A k \in Others(l) : pc'[k] = pc[k] /\ (stale'[k] <=> stale[k])
           /\ pc'[l] \notin Resuming /\ (Takes(l) => ~Pending)
           /\ pc'[l] = "idle" \/ stale'[l] \/ \A k \in Others(l) : ~Takes(k)
  <2>1. Pending' => \E k \in Locks : Takes(k)'
    BY <1>3 DEF ReviewKept, Others, Takes, Fresh, Pending
  <2>2. \A k \in Locks : Takes(k)' => \A j \in Others(k) : pc'[j] = "idle" \/ stale'[j]
    BY <1>3 DEF ReviewKept, Others, Takes, Fresh
  <2> QED
    BY <1>1, <2>1, <2>2 DEF ReviewKept, ReviewAfter, Others
<1> QED
  BY <1>2, <1>3 DEF ReviewAfter, Handed

\* The review: the resumption and the stages before the implementation.
LEMMA ReviewBegin ==
    ASSUME NEW l \in Locks, Always, ReviewRun, ReviewStep(l), Own(l), ResumptionCompletes,
           Begin(l)
    PROVE  ReviewAfter(l)
<1> USE DEF Always, Shape, Fields, Save, Goto, Fresh, At
<1>1. CASE CarryReview(l)
  BY <1>1
     DEF CarryReview, ReviewAfter, ReviewRun, ReviewStep, Others, Pending, In, Offered, Handed
<1>2. CASE Unblock(l)
  <2>0. /\ At(l, "unblock", "BLOCKED")
        /\ UNCHANGED <<passedOn, failing, decided, defer, seen>>
    BY <1>2 DEF Unblock, KeepsReview, world, history
  <2>1. ASSUME NEW c \in BOOLEAN, run.resume = "AI_REVIEW",
                Save(l, [To(run, run.resume) EXCEPT !.interrupted = c], "run")
         PROVE  ReviewAfter(l)
    BY <2>0, <2>1
       DEF To, ReviewAfter, ReviewRun, ReviewStep, Others, Pending, In, Offered, Handed
  <2>2. ASSUME NEW c \in BOOLEAN, Save(l, [To(run, run.resume) EXCEPT !.interrupted = c], "reset")
         PROVE  ReviewAfter(l)
    <3>1. ReviewRun'
      BY <2>0, <2>2, ToFields DEF Stages, ReviewRun, In, Offered
    <3>2. ReviewStep(l)'
      BY <2>0, <2>2, ToFields DEF ReviewStep
    <3>3. Handed(l)
      BY <2>0, <2>2, ToFields DEF Others, Handed, Takes, Resuming
    <3> QED
      BY <3>1, <3>2, <3>3 DEF ReviewAfter
  <2> QED
    BY <1>2, <2>0, <2>1, <2>2 DEF Unblock, KeepsReview
<1>3. CASE ResetImplementing(l)
  <2>0. /\ At(l, "reset", "IMPLEMENTING")
        /\ UNCHANGED <<passedOn, failing, decided, defer, seen>>
        /\ (ReviewedCheckpoint \/ RevisionCheckpoint => run.results >= 2)
    BY <1>3 DEF ResetImplementing, ReviewedCheckpoint, RevisionCheckpoint, world, history
  <2>1. CASE run.results >= 2 /\ Save(l, RepairAgain(run), "run")
    BY <2>0, <2>1
       DEF RepairAgain, ReviewAfter, ReviewRun, ReviewStep, Others, Pending, Offered, Handed
  <2>2. CASE Save(l, To(run, "FAILED"), "idle")
    <3>1. ReviewRun'
      BY <2>0, <2>2 DEF To, ReviewRun, In, Late, Offered
    <3>2. ReviewStep(l)'
      BY <2>0, <2>2 DEF To, ReviewStep
    <3>3. Handed(l)
      BY <2>0, <2>2 DEF To, Others, Handed, Pending
    <3> QED
      BY <3>1, <3>2, <3>3 DEF ReviewAfter
  <2>3. CASE /\ run.results > 2
             /\ Save(l, [run EXCEPT !.results = 2, !.review = NoReview,
                                    !.approval = NoPackage], "run")
    BY <2>0, <2>3 DEF ReviewAfter, ReviewRun, ReviewStep, Others, Pending, Offered, Handed
  <2>4. CASE Save(l, Stop(run, "IMPLEMENTING", "other"), "idle")
    <3>1. ReviewRun'
      BY <2>0, <2>4 DEF Stop, ReviewRun, In, Late, Offered
    <3>2. ReviewStep(l)'
      BY <2>0, <2>4 DEF Stop, ReviewStep
    <3>3. Handed(l)
      BY <2>0, <2>4 DEF Stop, Others, Handed, Pending
    <3> QED
      BY <3>1, <3>2, <3>3 DEF ReviewAfter
  <2>5. CASE run.checkpoint # "final" /\ Goto(l, "run") /\ UNCHANGED <<run, stale>>
    BY <2>0, <2>5
       DEF ReviewAfter, RunKept, ReviewRun, ReviewStep, Own, MaySave, Others, Pending, Resuming,
           Judged, Offered, Handed
  <2>6. CASE /\ run.checkpoint \in {"none", "applied", "final"}
             /\ Save(l, Anew(run), "run")
    BY <2>0, <2>6, AnewFields
       DEF ReviewAfter, ReviewRun, ReviewStep, Others, Pending, Offered, Handed
  <2> QED
    BY <1>3, <2>0, <2>1, <2>2, <2>3, <2>4, <2>5, <2>6 DEF ResetImplementing
<1>4. CASE ResetLate(l)
  <2>0. /\ pc[l] = "reset" /\ run.state \in Stages \ {"IMPLEMENTING"}
        /\ UNCHANGED <<passedOn, failing, decided, defer, seen>>
    BY <1>4 DEF ResetLate, world, history
  <2>1. CASE /\ run.state = "TESTING"
             /\ Save(l, [run EXCEPT !.tests = IF Group THEN @ ELSE "none",
                                    !.tested = IF Group THEN @ ELSE None,
                                    !.review = NoReview, !.approval = NoPackage], "run")
    BY <2>0, <2>1 DEF ReviewAfter, ReviewRun, ReviewStep, Others, Pending, Offered, Handed
  <2>2. CASE /\ run.state = "AI_REVIEW"
             /\ Save(l, [run EXCEPT !.review = NoReview, !.approval = NoPackage], "run")
    BY <2>0, <2>2 DEF ReviewAfter, ReviewRun, ReviewStep, Others, Pending, Offered, Handed
  <2>3. CASE /\ run.state \notin {"TESTING", "AI_REVIEW"}
             /\ Goto(l, "run") /\ UNCHANGED <<run, stale>>
    BY <2>0, <2>3
       DEF ReviewAfter, ReviewRun, ReviewStep, Own, MaySave, Others, Pending, Resuming, In,
           Offered, Handed
  <2> QED
    BY <1>4, <2>0, <2>1, <2>2, <2>3 DEF ResetLate
<1>5. CASE StartReading(l)
  BY <1>5
     DEF StartReading, To, ReviewAfter, ReviewRun, ReviewStep, Others, Pending, In, Late,
         Offered, Handed
<1>6. CASE ReadSelected(l)
  <2>0. /\ At(l, "run", "READING_ONES")
        /\ UNCHANGED <<passedOn, failing, decided, defer, seen>>
    BY <1>6 DEF ReadSelected, world, history
  <2>1. CASE Save(l, [Anew(run) EXCEPT !.prepared = Group /\ @, !.verifyOnly = FALSE,
                                      !.since = 0, !.ever = FALSE, !.fingerprint = None],
                  "checked")
    BY <2>0, <2>1, AnewFields
       DEF ReviewAfter, ReviewRun, ReviewStep, Others, Pending, Offered, Handed
  <2> QED
    BY <1>6, <2>0, <2>1 DEF ReadSelected
<1>7. CASE Read(l)
  BY <1>7 DEF Read, To, ReviewAfter, ReviewRun, ReviewStep, Others, Pending, Offered, Handed
<1>8. CASE ValidateMapping(l)
  <2>0. /\ At(l, "run", "VALIDATING")
        /\ UNCHANGED <<passedOn, failing, decided, defer, seen>>
    BY <1>8 DEF ValidateMapping, world, history
  <2>1. CASE Goto(l, "idle") /\ UNCHANGED <<run, stale>>
    BY <2>0, <2>1
       DEF ReviewAfter, ReviewRun, ReviewStep, Others, Pending, Resuming, In, Offered, Handed
  <2>2. CASE Save(l, To(run, "PREPARING_REPO"), "run")
    BY <2>0, <2>2
       DEF To, ReviewAfter, ReviewRun, ReviewStep, Others, Pending, In, Offered, Handed
  <2> QED
    BY <1>8, <2>0, <2>1, <2>2 DEF ValidateMapping
<1>9. CASE Prepare(l)
  <2>0. /\ At(l, "run", "PREPARING_REPO")
        /\ UNCHANGED <<passedOn, failing, decided, defer, seen>>
    BY <1>9 DEF Prepare, world, history
  <2>1. CASE Save(l, To(run, "IMPLEMENTING"), "run")
    BY <2>0, <2>1
       DEF To, ReviewAfter, ReviewRun, ReviewStep, Others, Pending, In, Offered, Handed
  <2>2. CASE Save(l, [run EXCEPT !.prepared = TRUE], "run")
    BY <2>0, <2>2 DEF ReviewAfter, ReviewRun, ReviewStep, Others, Pending, In, Offered, Handed
  <2> QED
    BY <1>9, <2>0, <2>1, <2>2 DEF Prepare
<1> QED
  BY <1>1, <1>2, <1>3, <1>4, <1>5, <1>6, <1>7, <1>8, <1>9 DEF Begin

\* The review: analysis, reproduction and repair.
LEMMA ReviewImplement ==
    ASSUME NEW l \in Locks, Always, ReviewRun, ReviewStep(l), Own(l), ResumptionCompletes,
           Implement(l)
    PROVE  ReviewAfter(l)
<1> USE DEF Always, Shape, Fields, Save, Goto, Fresh, At
<1>1. ASSUME NEW grounded \in BOOLEAN, Analyse(l, grounded)
       PROVE  ReviewAfter(l)
  <2>0. /\ At(l, "run", "IMPLEMENTING") /\ run.results = 0
        /\ UNCHANGED <<passedOn, failing, decided, defer, seen>>
    BY <1>1 DEF Analyse, world
  <2>1. CASE Save(l, [run EXCEPT !.results = 1, !.root = analyses', !.checkpoint = "root"],
                  "analysed")
    BY <2>0, <2>1
       DEF ReviewAfter, ReviewRun, ReviewStep, Own, MaySave, Others, Pending, Takes, Resuming,
           Offered, Handed
  <2>2. CASE Save(l, [run EXCEPT !.results = 1], "changed")
    BY <2>0, <2>2
       DEF ReviewAfter, ReviewRun, ReviewStep, Own, MaySave, Others, Pending, Takes, Resuming,
           Offered, Handed
  <2> QED
    BY <1>1, <2>0, <2>1, <2>2 DEF Analyse
<1>2. CASE NotClean(l)
  BY <1>2
     DEF NotClean, Block, Stop, ReviewAfter, ReviewRun, ReviewStep, Own, MaySave, Others,
         Pending, Takes, Resuming, Offered, Handed
<1>3. CASE Analysed(l)
  <2>0. /\ At(l, "analysed", "IMPLEMENTING")
        /\ UNCHANGED <<passedOn, failing, decided, defer, seen>>
    BY <1>3 DEF Analysed, world, history
  <2>1. CASE Save(l, To(run, "COMPLETED"), "idle")
    BY <2>0, <2>1
       DEF To, ReviewAfter, ReviewRun, ReviewStep, Own, MaySave, Others, Pending, Takes,
           Resuming, Offered, Handed
  <2>2. CASE Goto(l, "run") /\ UNCHANGED <<run, stale>>
    BY <2>0, <2>2
       DEF ReviewAfter, ReviewRun, ReviewStep, Own, MaySave, Others, Takes, Resuming, In,
           Offered, Handed
  <2> QED
    BY <1>3, <2>0, <2>1, <2>2 DEF Analysed
<1>4. CASE BeginReproduction(l)
  BY <1>4
     DEF BeginReproduction, ReviewAfter, ReviewRun, ReviewStep, Own, MaySave, Others, Takes,
         Resuming, In, Offered, Handed
<1>5. ASSUME NEW test \in Tests, EndReproduction(l, test)
       PROVE  ReviewAfter(l)
  <2>0. /\ At(l, "reproducing", "IMPLEMENTING")
        /\ UNCHANGED <<passedOn, failing, decided, defer, seen>>
    BY <1>5 DEF EndReproduction, history
  <2>1. CASE Save(l, [run EXCEPT !.results = 2, !.tries = @ + 1, !.checkpoint = "prepared",
                                    !.listed = FALSE, !.tested = IF Group THEN None ELSE @,
                                    !.tests = IF Group THEN "none" ELSE @], "prefail")
    BY <2>0, <2>1
       DEF ReviewAfter, ReviewRun, ReviewStep, Own, MaySave, Others, Pending, Takes, Resuming,
           Offered, Handed
  <2>2. CASE Save(l, Stop(run, "IMPLEMENTING", "other"), "idle")
    BY <2>0, <2>2
       DEF Stop, ReviewAfter, ReviewRun, ReviewStep, Own, MaySave, Others, Pending, Takes,
           Resuming, Offered, Handed
  <2> QED
    BY <1>5, <2>0, <2>1, <2>2 DEF EndReproduction
<1>6. ASSUME NEW outcome \in {"failed", "passed", "none"}, PersistPrefail(l, outcome)
       PROVE  ReviewAfter(l)
  BY <1>6
     DEF PersistPrefail, Prefail, ReviewAfter, ReviewRun, ReviewStep, Own, MaySave, Others,
         Pending, Takes, Resuming, Offered, Handed
<1>7. ASSUME NEW outcome \in {"failed", "passed", "none"}, PersistPrefailAgain(l, outcome)
       PROVE  ReviewAfter(l)
  BY <1>7
     DEF PersistPrefailAgain, Prefail, ReviewAfter, ReviewRun, ReviewStep, Own, MaySave, Others,
         Pending, Takes, Resuming, Offered, Handed
<1>8. CASE BeginVerifyOnly(l)
  BY <1>8
     DEF BeginVerifyOnly, MayVerifyOnly, ReviewAfter, ReviewRun, ReviewStep, Others, Pending,
         Offered, Handed
<1>9. CASE RepairRefused(l)
  BY <1>9
     DEF RepairRefused, Block, Stop, ReviewAfter, ReviewRun, ReviewStep, Others, Pending, In,
         Late, Offered, Handed
<1>10. CASE RecoverRepair(l)
  <2>0. /\ run.state = "IMPLEMENTING" /\ run.results = 2
        /\ run.checkpoint \in {"prepared", "failed"}
        /\ UNCHANGED <<passedOn, failing, decided, defer, seen>>
    BY <1>10 DEF RecoverRepair, RepairAllowed, AtRepair, world, history
  <2>1. CASE Save(l, Repaired(run), "implemented")
    BY <2>0, <2>1
       DEF Repaired, ReviewAfter, RunKept, ReviewRun, ReviewStep, Others, Pending, Judged,
           Offered, Handed
  <2> QED
    BY <1>10, <2>0, <2>1 DEF RecoverRepair, RepairAllowed, AtRepair
<1>11. CASE BeginRepair(l)
  BY <1>11
     DEF BeginRepair, RepairAllowed, AtRepair, ReviewAfter, ReviewRun, ReviewStep, Own, MaySave,
         Others, Takes, Resuming, In, Offered, Handed
<1>12. ASSUME NEW test \in Tests, NEW rest \in Written, EndRepair(l, test, rest)
       PROVE  ReviewAfter(l)
  <2>0. /\ At(l, "repairing", "IMPLEMENTING") /\ Forget(l)
        /\ UNCHANGED <<passedOn, failing, decided, defer>>
    BY <1>12 DEF EndRepair, history
  <2>1. CASE Save(l, [run EXCEPT !.results = 3, !.tries = @ + 1, !.checkpoint = "applied",
                                    !.review = NoReview, !.approval = NoPackage], "implemented")
    BY <2>0, <2>1 DEF ReviewAfter, ReviewRun, ReviewStep, Others, Pending, Offered, Handed
  <2>2. CASE Save(l, Repaired(run), "implemented")
    BY <2>0, <2>2
       DEF Repaired, ReviewAfter, ReviewRun, ReviewStep, Own, MaySave, Others, Pending, Takes,
           Resuming, Offered, Handed
  <2>3. ASSUME NEW why \in {"interrupted", "other"},
                Save(l, Stop(run, "IMPLEMENTING", why), "idle")
         PROVE  ReviewAfter(l)
    BY <2>0, <2>3
       DEF Stop, ReviewAfter, ReviewRun, ReviewStep, Own, MaySave, Others, Pending, Takes,
           Resuming, Offered, Handed
  <2> QED
    BY <1>12, <2>0, <2>1, <2>2, <2>3 DEF EndRepair
<1>13. CASE Implemented(l)
  BY <1>13
     DEF Implemented, To, ReviewAfter, ReviewRun, ReviewStep, Own, MaySave, Others, Pending,
         Takes, Resuming, Offered, Handed
<1>14. CASE CannotReproduce(l)
  BY <1>14
     DEF CannotReproduce, Block, Stop, ReviewAfter, ReviewRun, ReviewStep, Own, MaySave, Others,
         Pending, Takes, Resuming, Offered, Handed
<1> QED
  BY <1>1, <1>2, <1>3, <1>4, <1>5, <1>6, <1>7, <1>8, <1>9, <1>10, <1>11, <1>12, <1>13, <1>14 DEF
     Implement

\* The review: the tests and what follows failed ones.
LEMMA ReviewTest ==
    ASSUME NEW l \in Locks, Always, ReviewRun, ReviewStep(l), Own(l), ResumptionCompletes,
           Test(l)
    PROVE  ReviewAfter(l)
<1> USE DEF Always, Shape, Fields, Save, Goto, Fresh, At
<1>1. CASE BeginTests(l)
  <2>0. At(l, "run", "TESTING") /\ UNCHANGED <<passedOn, failing, decided, defer>>
    BY <1>1 DEF BeginTests, world, history
  <2>1. CASE Block(l, "IMPLEMENTING", "other")
    BY <2>0, <2>1
       DEF Block, Stop, ReviewAfter, ReviewRun, ReviewStep, Own, MaySave, Others, Pending,
           Takes, Resuming, Offered, Handed
  <2>2. CASE Block(l, "TESTING", "other")
    BY <2>0, <2>2
       DEF Block, Stop, ReviewAfter, ReviewRun, ReviewStep, Own, MaySave, Others, Pending,
           Takes, Resuming, Offered, Handed
  <2>3. CASE Goto(l, "testing") /\ seen' = [seen EXCEPT ![l] = diff] /\ UNCHANGED <<run, stale>>
    BY <2>0, <2>3
       DEF ReviewAfter, ReviewRun, ReviewStep, Own, MaySave, Others, Takes, Resuming, In,
           Offered, Handed
  <2> QED
    BY <1>1, <2>0, <2>1, <2>2, <2>3 DEF BeginTests
<1>2. ASSUME NEW passed \in BOOLEAN, EndTests(l, passed)
       PROVE  ReviewAfter(l)
  <2>0. /\ At(l, "testing", "TESTING")
        /\ UNCHANGED <<failing, decided, defer, seen>>
        /\ passedOn' = IF passed /\ diff = seen[l] THEN diff ELSE passedOn
    BY <1>2 DEF EndTests, world
  <2>1. ASSUME NEW t \in {run.tests, "passed"},
                passed, Unchanged(l), ReproductionFrozen,
                Save(l, [run EXCEPT !.tests = t], "passed")
         PROVE  ReviewAfter(l)
    BY <2>0, <2>1
       DEF Unchanged, ReproductionFrozen, ReviewAfter, ReviewRun, ReviewStep, Own, MaySave,
           Others, Pending, Takes, Resuming, Offered, Handed
  <2>2. ASSUME NEW t \in {run.tests, "passed", "failed"}, NEW s \in {"changed", "failed"},
                Save(l, [run EXCEPT !.tests = t], s)
         PROVE  ReviewAfter(l)
    BY <2>0, <2>2
       DEF ReviewAfter, ReviewRun, ReviewStep, Own, MaySave, Others, Pending, Takes, Resuming,
           Offered, Handed
  <2>3. CASE Save(l, Stop(run, "TESTING", "other"), "idle")
    BY <2>0, <2>3
       DEF Stop, ReviewAfter, ReviewRun, ReviewStep, Own, MaySave, Others, Pending, Takes,
           Resuming, Offered, Handed
  <2> QED
    BY <1>2, <2>0, <2>1, <2>2, <2>3 DEF EndTests
<1>3. CASE BlockChanged(l)
  BY <1>3
     DEF BlockChanged, Block, Stop, ReviewAfter, ReviewRun, ReviewStep, Own, MaySave, Others,
         Pending, Takes, Resuming, Offered, Handed
<1>4. CASE SaveTested(l)
  BY <1>4
     DEF SaveTested, ReviewAfter, ReviewRun, ReviewStep, Own, MaySave, Others, Pending, Takes,
         Resuming, Offered, Handed
<1>5. CASE Tested(l)
  BY <1>5
     DEF Tested, To, ReviewAfter, ReviewRun, ReviewStep, Own, MaySave, Others, Pending, Takes,
         Resuming, Offered, Handed
<1>6. CASE SaveRetry(l)
  BY <1>6 DEF SaveRetry, ReviewAfter, ReviewRun, ReviewStep, Others, Pending, Offered, Handed
<1>7. CASE TestsFailed(l)
  BY <1>7
     DEF TestsFailed, Block, Stop, ReviewAfter, ReviewRun, ReviewStep, Own, MaySave, Others,
         Pending, Takes, Resuming, Offered, Handed
<1>8. CASE Retry(l)
  BY <1>8
     DEF Retry, BlockAndGoOn, Stop, ReviewAfter, ReviewRun, ReviewStep, Own, MaySave, Others,
         Pending, Takes, Resuming, Offered, Handed
<1> QED
  BY <1>1, <1>2, <1>3, <1>4, <1>5, <1>6, <1>7, <1>8 DEF Test

\* The review: the review and the package.
LEMMA ReviewReview ==
    ASSUME NEW l \in Locks, Always, ReviewRun, ReviewStep(l), Own(l), ResumptionCompletes,
           Review(l)
    PROVE  ReviewAfter(l)
<1> USE DEF Always, Shape, Fields, Save, Goto, Fresh, At
<1>1. CASE EvidenceChanged(l)
  <2>1. ReviewRun'
    BY <1>1 DEF EvidenceChanged, Block, Stop, EvidenceUnchanged, ReviewRun, In, Late, Offered
  <2>2. ReviewStep(l)'
    BY <1>1 DEF EvidenceChanged, Block, Stop, EvidenceUnchanged, ReviewStep
  <2>3. Handed(l)
    BY <1>1 DEF EvidenceChanged, Block, Stop, EvidenceUnchanged, Others, Handed, Pending
  <2> QED
    BY <2>1, <2>2, <2>3 DEF ReviewAfter
<1>2. CASE BeginReview(l)
  BY <1>2
     DEF BeginReview, ReviewAfter, ReviewRun, ReviewStep, Own, MaySave, Others, Pending,
         Resuming, In, Offered, Handed
<1>3. ASSUME NEW result \in {"clean", "open", "incomplete"}, EndReview(l, result)
       PROVE  ReviewAfter(l)
  BY <1>3
     DEF EndReview, EvidenceUnchanged, ReviewAfter, ReviewRun, ReviewStep, Others, Pending, In,
         Offered, Handed
<1>4. CASE Incomplete(l)
  BY <1>4
     DEF Incomplete, Block, Stop, ReviewAfter, ReviewRun, ReviewStep, Others, Pending, In, Late,
         Offered, Handed
<1>5. CASE NoMoreRepairs(l)
  BY <1>5
     DEF NoMoreRepairs, Block, Stop, ReviewAfter, ReviewRun, ReviewStep, Others, Pending, In,
         Late, Offered, Handed
<1>6. CASE QueueReview(l)
  BY <1>6
     DEF QueueReview, ReviewAfter, ReviewRun, ReviewStep, Others, Pending, In, Offered, Handed
<1>7. CASE CountAttempt(l)
  BY <1>7
     DEF CountAttempt, ReviewAfter, ReviewRun, ReviewStep, Others, Pending, In, Offered, Handed
<1>8. CASE RepairReview(l)
  BY <1>8
     DEF RepairReview, BlockAndGoOn, Stop, ReviewAfter, ReviewRun, ReviewStep, Others, Pending,
         In, Late, Offered, Handed
<1>9. CASE CompleteVerifyOnly(l)
  BY <1>9
     DEF CompleteVerifyOnly, Reviewed, Stop, To, ReviewAfter, ReviewRun, ReviewStep, Others,
         Pending, In, Late, Offered, Handed
<1>10. CASE ChecksBlock(l)
  BY <1>10
     DEF ChecksBlock, MayPackage, Reviewed, Block, Stop, ReviewAfter, ReviewRun, ReviewStep,
         Others, Pending, In, Late, Offered, Handed
<1>11. CASE PackageInvalid(l)
  BY <1>11
     DEF PackageInvalid, MayPackage, Reviewed, Block, Stop, ReviewAfter, ReviewRun, ReviewStep,
         Others, Pending, In, Late, Offered, Handed
<1>12. CASE SavePackage(l)
  <2>0. /\ At(l, "reviewed", "AI_REVIEW") /\ diff = run.tested
        /\ UNCHANGED <<passedOn, failing, decided, defer, seen>>
        /\ run.prefail # "passed" /\ (run.prefail = "none" => defer)
        /\ run.review # NoReview /\ pc[l] = "reviewed"
    BY <1>12
       DEF SavePackage, MayPackage, Reviewed, ChecksAllow, EvidenceUnchanged, PrefailValid,
           NoReview, world, history
  <2>1. CASE Save(l, [run EXCEPT !.approval = [diff |-> diff, of |-> run.review.of]], "packaged")
    BY <2>0, <2>1 DEF ReviewAfter, ReviewRun, ReviewStep, Others, Pending, In, Late, Handed
  <2> QED
    BY <1>12, <2>0, <2>1
       DEF SavePackage, MayPackage, Reviewed, ChecksAllow, EvidenceUnchanged, PrefailValid,
           NoReview
<1>13. CASE Packaged(l)
  BY <1>13
     DEF Packaged, To, ReviewAfter, ReviewRun, ReviewStep, Others, Pending, In, Late, Handed
<1> QED
  BY <1>1, <1>2, <1>3, <1>4, <1>5, <1>6, <1>7, <1>8, <1>9, <1>10, <1>11, <1>12, <1>13 DEF Review

\* The review: the move to another base.
LEMMA ReviewRefresh ==
    ASSUME NEW l \in Locks, Always, ReviewRun, ReviewStep(l), Own(l), ResumptionCompletes,
           Refresh(l)
    PROVE  ReviewAfter(l)
<1> USE DEF Always, Shape, Fields, Save, Goto, Fresh, At
<1>1. CASE RemoteBaseChanged(l)
  BY <1>1
     DEF RemoteBaseChanged, MayPackage, Reviewed, ReviewAfter, ReviewRun, ReviewStep, Own,
         MaySave, Others, Pending, Resuming, In, Offered, Handed
<1>2. CASE BeginRefresh(l)
  <2>0. /\ At(l, "refresh", "AI_REVIEW")
        /\ UNCHANGED <<passedOn, failing, decided, defer, seen>>
    BY <1>2 DEF BeginRefresh, world, history
  <2>1. CASE Save(l, [run EXCEPT !.preparing = FALSE], "refresh")
    BY <2>0, <2>1 DEF ReviewAfter, ReviewRun, ReviewStep, Others, Pending, In, Offered, Handed
  <2>2. CASE Save(l, Stop(run, "AI_REVIEW", "kept"), "idle")
    BY <2>0, <2>2
       DEF Stop, ReviewAfter, ReviewRun, ReviewStep, Others, Pending, In, Late, Offered, Handed
  <2>3. CASE Save(l, [run EXCEPT !.refreshes = RefreshesAfter(@), !.preparing = TRUE,
                                    !.approval = NoPackage], "transferring")
    BY <2>0, <2>3 DEF ReviewAfter, ReviewRun, ReviewStep, Others, Pending, In, Offered, Handed
  <2> QED
    BY <1>2, <2>0, <2>1, <2>2, <2>3 DEF BeginRefresh
<1>3. CASE TransferFails(l)
  BY <1>3
     DEF TransferFails, ReviewAfter, ReviewRun, ReviewStep, Others, Pending, In, Offered, Handed
<1>4. CASE BlockTransfer(l)
  BY <1>4
     DEF BlockTransfer, Block, Stop, ReviewAfter, ReviewRun, ReviewStep, Others, Pending, In,
         Late, Offered, Handed
<1>5. ASSUME NEW rest \in {diff.rest, Base, Marked}, Migrate(l, rest)
       PROVE  ReviewAfter(l)
  <2>1. ReviewRun'
    BY <1>5 DEF Migrate, Stop, ReviewRun, In, Late, Offered
  <2>2. ReviewStep(l)'
    BY <1>5 DEF Migrate, Stop, ReviewStep
  <2>3. Handed(l)
    BY <1>5 DEF Migrate, Stop, Others, Handed, Pending
  <2> QED
    BY <2>1, <2>2, <2>3 DEF ReviewAfter
<1>6. CASE SwapWorktree(l)
  <2>0. /\ At(l, "swap", "BLOCKED") /\ Forget(l)
        /\ UNCHANGED <<passedOn, failing, decided, defer>>
    BY <1>6 DEF SwapWorktree, history
  <2>1. CASE Save(l, Migrated(run, seen[l]), "unblock")
    <3>1. ReviewRun'
      BY <2>0, <2>1, MigratedFields DEF ReviewRun, Offered
    <3>2. ReviewStep(l)'
      BY <2>0, <2>1, MigratedFields DEF ReviewStep
    <3>3. Handed(l)
      BY <2>0, <2>1, MigratedFields DEF Others, Handed, Pending
    <3> QED
      BY <3>1, <3>2, <3>3 DEF ReviewAfter
  <2> QED
    BY <1>6, <2>0, <2>1 DEF SwapWorktree
<1> QED
  BY <1>1, <1>2, <1>3, <1>4, <1>5, <1>6 DEF Refresh

\* The review: what a person does.
LEMMA ReviewOrchestrate ==
    ASSUME Always, ReviewRun, ReviewStep("orchestrate"), Own("orchestrate"),
           ResumptionCompletes, Orchestrate
    PROVE  ReviewAfter("orchestrate")
<1> USE DEF Always, Shape, Fields, Save, Goto, Fresh, At
<1>0. "orchestrate" \in Locks
  BY DEF Locks
<1> USE <1>0
<1>1. ASSUME NEW kind \in Kinds, Confirm(kind)
       PROVE  ReviewAfter("orchestrate")
  BY <1>1 DEF Confirm, ReviewAfter, ReviewRun, ReviewStep, Others, Pending, In, Offered, Handed
<1>2. CASE Resume
  BY <1>2
     DEF Resume, Idle, Locks, ReviewAfter, ReviewRun, ReviewStep, Own, MaySave, Others, Takes,
         Resuming, In, Offered, Handed
<1>3. CASE Revise
  <2>0. run.state = "BLOCKED" /\ UNCHANGED <<passedOn, failing, decided, defer, seen>>
    BY <1>3 DEF Revise, Do, world, history
  <2>1. CASE run.resume \in {"TESTING", "AI_REVIEW"} /\ Do(To(run, run.resume), "revising")
    <3>1. ReviewRun'
      BY <2>0, <2>1 DEF Do, To, ReviewRun, In, Offered
    <3>2. ReviewStep("orchestrate")'
      BY <2>0, <2>1 DEF Do, To, ReviewStep
    <3>3. Handed("orchestrate")
      BY <2>0, <2>1 DEF Do, To, Others, Handed, Takes, Resuming
    <3> QED
      BY <3>1, <3>2, <3>3 DEF ReviewAfter
  <2>2. CASE Idle /\ Goto("orchestrate", "feedback") /\ UNCHANGED <<run, stale>>
    BY <2>0, <2>2
       DEF Idle, Locks, ReviewAfter, ReviewRun, ReviewStep, Own, MaySave, Others, Pending,
           Resuming, In, Offered, Handed
  <2> QED
    BY <1>3, <2>0, <2>1, <2>2 DEF Revise, Do
<1>4. CASE BlockForRevision
  <2>1. ReviewRun'
    BY <1>4 DEF BlockForRevision, Do, Stop, ReviewRun, In, Late, Offered
  <2>2. ReviewStep("orchestrate")'
    BY <1>4 DEF BlockForRevision, Do, Stop, ReviewStep
  <2>3. Handed("orchestrate")
    BY <1>4 DEF BlockForRevision, Do, Stop, Others, Handed, Pending
  <2> QED
    BY <2>1, <2>2, <2>3 DEF ReviewAfter
<1>5. CASE SaveFeedback
  BY <1>5
     DEF SaveFeedback, Do, ReviewAfter, ReviewRun, ReviewStep, Own, MaySave, Others, Pending,
         Takes, Resuming, In, Late, Offered, Handed
<1>6. ASSUME NEW passed \in BOOLEAN, Attest(passed)
       PROVE  ReviewAfter("orchestrate")
  BY <1>6
     DEF Attest, Do, ReviewAfter, ReviewRun, ReviewStep, Others, Pending, In, Offered, Handed
<1>7. CASE Replan
  BY <1>7 DEF Replan, Do, ReviewAfter, ReviewRun, ReviewStep, Others, Pending, Offered, Handed
<1>8. CASE Approve
  <2>0. /\ run.state = "WAITING_APPROVAL" /\ run.approval # NoPackage /\ Idle
        /\ UNCHANGED <<passedOn, failing, decided, defer, seen>>
    BY <1>8 DEF Approve, Do, world, history
  <2>1. CASE Do([run EXCEPT !.approval = NoPackage], "withdraw")
    BY <2>0, <2>1
       DEF Do, ReviewAfter, ReviewRun, ReviewStep, Others, Pending, In, Offered, Handed
  <2>2. CASE Do(run, "publish")
    BY <2>0, <2>2
       DEF Do, ReviewAfter, ReviewRun, ReviewStep, Others, Pending, In, Offered, Handed
  <2> QED
    BY <1>8, <2>0, <2>1, <2>2 DEF Approve, Do
<1>9. CASE Withdraw
  BY <1>9
     DEF Withdraw, Block, Stop, ReviewAfter, StepKept, ReviewRun, ReviewStep, Others, Pending,
         In, Late, Offered, Handed
<1>10. CASE Publish
  <2>0. /\ pc["orchestrate"] = "publish"
        /\ UNCHANGED <<passedOn, failing, decided, defer, seen>>
    BY <1>10 DEF Publish, world, history
  <2>1. CASE Do(To(run, "PUBLISHING"), "idle")
    BY <2>0, <2>1
       DEF Do, To, ReviewAfter, StepKept, ReviewRun, ReviewStep, Others, Pending, In, Late,
           Offered, Handed
  <2>2. CASE Goto("orchestrate", "idle") /\ UNCHANGED <<run, stale>>
    BY <2>0, <2>2
       DEF ReviewAfter, ReviewRun, ReviewStep, Others, Takes, Resuming, In, Offered, Handed
  <2> QED
    BY <1>10, <2>0, <2>1, <2>2 DEF Publish
<1>11. CASE Cancel
  BY <1>11
     DEF Cancel, Do, To, ReviewAfter, ReviewRun, ReviewStep, Others, Pending, In, Late, Offered,
         Handed
<1> QED
  BY <1>1, <1>2, <1>3, <1>4, <1>5, <1>6, <1>7, <1>8, <1>9, <1>10, <1>11 DEF Orchestrate

\* The review: the decision about an analysis.
LEMMA ReviewDecide ==
    ASSUME Always, ReviewRun, ReviewStep("decision"), Own("decision"), ResumptionCompletes, \E
           accept \in BOOLEAN : Decide(accept)
    PROVE  ReviewAfter("decision")
<1> USE DEF Always, Shape, Fields, Save, Goto, Fresh, At
<1>0. "decision" \in Locks
  BY DEF Locks
<1> USE <1>0
<1>1. ASSUME NEW accept \in BOOLEAN, Decide(accept)
       PROVE  ReviewAfter("decision")
  <2>0. /\ run.checkpoint = "root" /\ run.results = 1
        /\ UNCHANGED <<passedOn, failing, defer, seen>>
    BY <1>1 DEF Decide, world
  <2>1. CASE Save("decision",
                  To([run EXCEPT !.action = "repair", !.accepted = TRUE], "IMPLEMENTING"), "run")
    BY <2>0, <2>1
       DEF To, ReviewAfter, RunKept, ReviewRun, ReviewStep, Others, Pending, Judged, Offered,
           Handed
  <2>2. CASE Save("decision", To(Undecided(run), "IMPLEMENTING"), "run")
    BY <2>0, <2>2
       DEF To, Undecided, ReviewAfter, RunKept, ReviewRun, ReviewStep, Others, Pending, Judged,
           Offered, Handed
  <2> QED
    BY <1>1, <2>0, <2>1, <2>2 DEF Decide
<1> QED
  BY <1>1

\* The review: what ends a command.
LEMMA ReviewEnds ==
    ASSUME NEW l \in Locks, Always, ReviewRun, ReviewStep(l), Own(l), ResumptionCompletes,
           Ends(l)
    PROVE  ReviewAfter(l)
<1> USE DEF Always, Shape, Fields, Save, Goto, Fresh, At
<1>1. CASE Refused(l)
  BY <1>1
     DEF Refused, ReviewAfter, ReviewRun, ReviewStep, Others, Takes, Resuming, In, Offered,
         Handed
<1>2. CASE Crash(l)
  BY <1>2
     DEF Crash, ResumptionCompletes, ReviewAfter, ReviewRun, ReviewStep, Others, Takes,
         Resuming, In, Offered, Handed
<1>3. ASSUME NEW why \in {"kept", "interrupted", "other"}, Fail(l, why)
       PROVE  ReviewAfter(l)
  <2>1. ReviewRun'
    BY <1>3 DEF Fail, Stop, MayFail, ReviewRun, In, Late, Offered
  <2>2. ReviewStep(l)'
    BY <1>3 DEF Fail, Stop, MayFail, ReviewStep
  <2>3. Handed(l)
    BY <1>3 DEF Fail, Stop, MayFail, Others, Handed, Pending, Takes, Resuming
  <2> QED
    BY <2>1, <2>2, <2>3 DEF ReviewAfter
<1> QED
  BY <1>1, <1>2, <1>3 DEF Ends

\* A run begins without a review.
LEMMA ReviewInit == Init => ReviewKept
<1> SUFFICES ASSUME Init PROVE ReviewKept
  OBVIOUS
<1>1. run.state = "CREATED" /\ run.review = NoReview
  BY DEF Init
<1>2. \A l \in Locks : pc[l] \in {"run", "idle"}
  BY DEF Init
<1> QED
  BY <1>1, <1>2 DEF ReviewKept, ReviewRun, ReviewStep, Pending, Takes, Resuming, In, Late, Offered

\* A review is taken away before the run goes on, or stays one of what is tested.
LEMMA ReviewNext ==
    ASSUME ResumptionCompletes, Always, ReviewKept, [Next]_vars
    PROVE  ReviewKept'
<1>before. \A l \in Locks : Own(l) /\ ReviewStep(l)
  BY ReviewOwned DEF ReviewKept
<1>run. ReviewRun
  BY DEF ReviewKept
<1>kept. ASSUME NEW l \in Locks, AlwaysAfter(l), ReviewAfter(l) PROVE ReviewKept'
  BY <1>kept, ReviewHandedOn DEF AlwaysAfter
<1>same. ASSUME UNCHANGED <<run, pc, stale, seen>> PROVE ReviewKept'
  BY <1>same
     DEF ReviewKept, ReviewRun, ReviewStep, Pending, Takes, Others, In, Late, Offered, Fresh
<1>1. ASSUME NEW l \in Locks, Step(l) PROVE ReviewKept'
  <2>1. AlwaysAfter(l)
    BY <1>1, AlwaysBegin, AlwaysImplement, AlwaysTest, AlwaysReview, AlwaysRefresh DEF Step
  <2>2. ReviewAfter(l)
    BY <1>1, <1>before, <1>run, ReviewBegin, ReviewImplement, ReviewTest, ReviewReview,
       ReviewRefresh
       DEF Step
  <2> QED
    BY <2>1, <2>2, <1>kept
<1>2. ASSUME NEW l \in Locks, Ends(l) PROVE ReviewKept'
  BY <1>2, <1>kept, <1>before, <1>run, AlwaysEnds, ReviewEnds
<1>3. CASE Orchestrate
  BY <1>3, <1>kept, <1>before, <1>run, AlwaysOrchestrate, ReviewOrchestrate DEF Locks
<1>4. CASE \E accept \in BOOLEAN : Decide(accept)
  BY <1>4, <1>kept, <1>before, <1>run, AlwaysDecide, ReviewDecide DEF Locks
<1>5. ASSUME NEW l \in Locks, NEW test \in Tests, NEW rest \in Written, AgentWrites(l, test, rest)
      PROVE  ReviewKept'
  BY <1>5, <1>same DEF AgentWrites
<1>6. CASE RemoteMoves \/ \E rest \in Edits : Edit(rest)
  BY <1>6, <1>same DEF RemoteMoves, Edit
<1>7. CASE UNCHANGED vars
  BY <1>7, <1>same DEF vars
<1> QED
  BY <1>1, <1>2, <1>3, <1>4, <1>5, <1>6, <1>7 DEF Next, Command, Ends, Orchestrate

\* What is offered passed the tests last, with the frozen reproduction, and the
\* review it carries was made of exactly that: if resumptions complete.
THEOREM OffersReviewed == ASSUME ResumptionCompletes PROVE Spec => []PackageWasTested
<1>1. Always /\ ReviewKept => PackageWasTested
  BY DEF Always, RunKept, ReviewKept, ReviewRun, PackageWasTested, Offered, In, Late
<1>2. Always /\ ReviewKept /\ [Next]_vars => ReviewKept'
  BY ReviewNext
<1> QED
  BY <1>1, <1>2, ReviewInit, AlwaysInvariant, PTL DEF Spec

=============================================================================
