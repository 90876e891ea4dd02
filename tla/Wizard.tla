------------------------------- MODULE Wizard -------------------------------
(***************************************************************************)
(* tui/setup_screens.py in front of setup_controller.py: the wizard in     *)
(* which one person enters the configuration step by step, tests each step *)
(* and activates the whole.  The fields of a step are in the widgets until *)
(* a test commits them to the draft of the controller; a credential goes   *)
(* through a password widget and is kept by the controller only.           *)
(*                                                                         *)
(* A test runs beside the screen: a thread builds the transaction of the   *)
(* step, the event loop commits it, and the controller probes the step.    *)
(* Between these the person can move to another step, import, remove a     *)
(* folder, cancel and leave; the wizard looks at its CURRENT step in each. *)
(* What the store and the runtime do in an activation is module Setup.     *)
(***************************************************************************)
EXTENDS Naturals, FiniteSets, Sequences

CONSTANTS Wizards,      \* the wizards: the steps before the review, in their order,
                        \* what can be typed as the fields of a step, and, a bound,
                        \* how often fields and credentials are typed
          Invalid,      \* fields that no step accepts
          Template,     \* the fields that come from the imported template
          Builtin,      \* the profile that the program provides itself
          Nothing,      \* fields that are still empty
          Secrets,      \* credentials that can be typed
          Imported,     \* a credential that was imported
          Absent        \* no credential

ASSUME WizardAssumption ==
    \A w \in Wizards :
        /\ w.steps \in Seq(STRING) /\ w.steps # <<>>
        /\ \A i, j \in DOMAIN w.steps :
             w.steps[i] = "profile" /\ w.steps[j] \in {"repositories", "provider", "paths"}
             => i < j

VARIABLES
    wizard,    \* the one that is used
    step,      \* the step on the screen
    form,      \* the fields in the widgets of each step
    typed,     \* the credential in the password widget of each step
    modal,     \* what is asked in front of the wizard
    import,    \* the material that was found at the start, to be used once
    cleared,   \* the controller was told to forget, and no edit has begun since
    mounted,   \* the screen is shown
    test,      \* the test that runs beside the screen
    profile,   \* the verification of the built-in profile, likewise
    draft,     \* controller: the fields of each step
    secret,    \* controller: the credential of each step
    result,    \* controller: the result of each step
    reviewed,  \* controller: the review is confirmed
    inputs,    \* how often something can still be typed
    proof      \* history: what the last test of a step that passed looked at

screen     == <<step, form, typed, modal, import, cleared, mounted>>
drafts     == <<draft, secret, result, reviewed>>
wizardVars == <<wizard, screen, test, profile, drafts, inputs, proof>>

Order      == wizard.steps
Values     == wizard.values
Pages      == {Order[i] : i \in DOMAIN Order}
OfWorkflow == Pages \cap {"profile", "repositories", "provider", "paths"}
OwnsSecret == Pages \cap {"ones", "provider"}
OneStep    == Order = <<"ones">>
Position(s) == IF s = "review" THEN Len(Order) + 1
               ELSE CHOOSE i \in DOMAIN Order : Order[i] = s

NoTyped == [s \in Pages |-> Absent]
NoTest  == [pc |-> "none", of |-> "review", fields |-> Nothing, secret |-> Absent,
            built |-> "none", at |-> "review", moved |-> FALSE, changed |-> FALSE,
            save |-> FALSE]
NoProof == [fields |-> Nothing, built |-> "none"]

Folders == IF "repositories" \in Pages THEN Values \cup {Template} ELSE {}

\* A step has one value; the repositories are a set of folders.
Empty(s) == IF s = "repositories" THEN {} ELSE Nothing

\* Nothing is configured, or a configuration that was saved is edited again.
WizardInit ==
    /\ wizard \in Wizards
    /\ step = Order[1] /\ typed = NoTyped /\ modal = "none"
    /\ import \in {"available", "gone"} /\ cleared = FALSE /\ mounted = TRUE
    /\ test = NoTest /\ profile = "none"
    /\ \E v \in Values \ Invalid :
         draft \in {[s \in Pages |-> Empty(s)],
                    [s \in Pages |-> IF s = "repositories" THEN {v} ELSE v]}
    /\ form = [s \in Pages |-> IF draft[s] \in {{}, Nothing} THEN Nothing
                               ELSE IF s = "repositories" THEN CHOOSE v \in draft[s] : TRUE
                               ELSE draft[s]]
    /\ secret = NoTyped /\ result = [s \in Pages |-> "none"] /\ reviewed = FALSE
    /\ inputs = wizard.inputs /\ proof = [s \in Pages |-> NoProof]

-----------------------------------------------------------------------------
(* The controller *)

Passed(s)   == result[s] = "passed"
EveryPassed == \A s \in Pages : Passed(s)

\* SetupController.current_step
Unfinished == {s \in Pages : ~Passed(s)}
ControllerStep == IF EveryPassed THEN "review"
                  ELSE CHOOSE s \in Unfinished :
                           \A t \in Unfinished : Position(s) <= Position(t)

Invalidated(r, s, included) ==
    [t \in Pages |-> IF Position(t) > Position(s) \/ (included /\ t = s)
                     THEN "none" ELSE r[t]]

(* _changed: results from here on are forgotten, the review is withdrawn,   *)
(* and a test that began before has another revision.                       *)
Edited(s) ==
    /\ result' = Invalidated(result, s, TRUE)
    /\ reviewed' = FALSE

Noticed == test' = [test EXCEPT !.changed = TRUE]

(* cancel_edit: the credentials go, and the result of a probe that runs.    *)
Forget ==
    LET running == {s \in Pages : result[s] = "pending"}
    IN  /\ secret' = NoTyped
        /\ reviewed' = FALSE
        /\ result' = [s \in Pages |-> IF \E t \in running : Position(t) <= Position(s)
                                      THEN "none" ELSE result[s]]
        /\ UNCHANGED draft

\* _clear_controller_transients_once
ForgetOnce ==
    /\ IF cleared THEN UNCHANGED drafts ELSE Forget
    /\ cleared' = TRUE

-----------------------------------------------------------------------------
(* What the person does on the screen *)

Occupied == modal = "profile" \/ profile # "none"
User == mounted /\ modal = "none" /\ ~Occupied

MayType(s) == User /\ s = step /\ inputs > 0 /\ inputs' = inputs - 1

\* The list of profiles holds what an administrator has installed, and the
\* built-in one when it was verified.
Type(s, v) ==
    /\ MayType(s)
    /\ s = "profile" => v \notin Invalid
    /\ form' = [form EXCEPT ![s] = v]
    /\ UNCHANGED <<step, typed, modal, import, cleared, mounted, test, profile, drafts,
                   proof>>

TypeSecret(s, c) ==
    /\ s \in OwnsSecret /\ MayType(s)
    /\ typed' = [typed EXCEPT ![s] = c]
    /\ UNCHANGED <<step, form, modal, import, cleared, mounted, test, profile, drafts,
                   proof>>

CanTest(s) == result[s] # "pending"

(* The buttons of the steps, next, back and review.  A test goes on.        *)
TurnTo(s) ==
    /\ User /\ s # step
    /\ \/ s \in Pages /\ CanTest(s)
       \/ s = "review" /\ EveryPassed
       \/ step # "review" /\ Passed(step) /\ Position(s) = Position(step) + 1
       \/ Position(s) = Position(step) - 1
    /\ step' = s /\ typed' = NoTyped /\ cleared' = FALSE
    /\ test' = [test EXCEPT !.moved = test.pc # "none"]
    /\ UNCHANGED <<form, modal, import, mounted, profile, drafts, inputs, proof>>

(* action_cancel_edit.  A cancelled task ends where it waits, and commits   *)
(* nothing; the save of a single step then looks for a result all the same. *)
CutOff == IF test.save THEN [test EXCEPT !.pc = "tested"] ELSE NoTest

Escape ==
    /\ mounted /\ modal = "none" /\ profile = "none"
    /\ typed' = NoTyped
    /\ ForgetOnce
    /\ test' = CutOff
    /\ UNCHANGED <<step, form, modal, import, mounted, profile, inputs, proof>>

(* ... while the profile is verified: only that is cancelled, and when the  *)
(* controller has bound the profile already, it stays bound.                *)
CancelProfile ==
    /\ mounted /\ modal = "none" /\ profile \in {"running", "bound", "failed"}
    /\ profile' = "cancelled"
    /\ UNCHANGED <<screen, test, drafts, inputs, proof>>

\* on_unmount
Dismiss ==
    /\ mounted' = FALSE /\ modal' = "none" /\ import' = "gone"
    /\ typed' = NoTyped
    /\ ForgetOnce
    /\ profile' = "none"
    /\ UNCHANGED <<step, form>>

Unmount ==
    /\ mounted /\ Dismiss
    /\ test' = CutOff
    /\ UNCHANGED <<inputs, proof>>

\* _populate_public_draft: what the draft has is put into the widgets.
Populated(d) ==
    [s \in Pages |-> IF d[s] \in {{}, Nothing} THEN form[s]
                     ELSE IF s = "repositories" THEN CHOOSE v \in d[s] : TRUE ELSE d[s]]

\* on_mount, of this screen or of another one for the same controller.
Mount ==
    /\ ~mounted /\ test.pc = "none"
    /\ mounted' = TRUE /\ cleared' = FALSE
    /\ step' \in {step, ControllerStep}
    /\ form' = Populated(draft)
    /\ UNCHANGED <<typed, modal, import, test, profile, drafts, inputs, proof>>

-----------------------------------------------------------------------------
(* Import: one choice, then the material is gone *)

ReviewImports ==
    /\ User /\ import = "available"
    /\ modal' = "import"
    /\ UNCHANGED <<step, form, typed, import, cleared, mounted, test, profile, drafts,
                   inputs, proof>>

ImportEnds == modal = "import" /\ modal' = "none" /\ import' = "gone"

DiscardImport ==
    /\ ImportEnds
    /\ UNCHANGED <<step, form, typed, cleared, mounted, test, profile, drafts,
                   inputs, proof>>

(* The template replaces the whole workflow; a controller without the step  *)
(* of the profile refuses it.                                               *)
ImportTemplate ==
    /\ ImportEnds
    /\ "profile" \in Pages
    /\ draft' = [s \in Pages |-> IF s \notin OfWorkflow THEN draft[s]
                                 ELSE IF s = "repositories" THEN {Template} ELSE Template]
    /\ Edited("profile") /\ Noticed
    /\ form' = Populated(draft')
    /\ UNCHANGED <<step, typed, cleared, mounted, profile, secret, inputs, proof>>

(* import_secrets; it may fail after some of them.                          *)
ImportSecrets(S) ==
    /\ ImportEnds
    /\ S \subseteq OwnsSecret /\ S # {}
    /\ secret' = [s \in Pages |-> IF s \in S THEN Imported ELSE secret[s]]
    /\ Edited(CHOOSE s \in S : \A t \in S : Position(s) <= Position(t)) /\ Noticed
    /\ UNCHANGED <<step, form, typed, cleared, mounted, profile, draft, inputs, proof>>

-----------------------------------------------------------------------------
(* The test of a step: action_test_connection *)

\* Mistake: an edit that begins with a test is not noted.
StartTestUnnoted(save) ==
    /\ User /\ test.pc = "none"
    /\ step # "review" /\ CanTest(step)
    /\ step = "profile" => form[step] # Nothing
    /\ save => OneStep
    /\ test' = [NoTest EXCEPT !.pc = "building", !.of = step, !.fields = form[step],
                              !.secret = typed[step], !.save = save]
    /\ typed' = [typed EXCEPT ![step] = Absent]
    /\ UNCHANGED <<step, form, modal, import, cleared, mounted, profile, drafts, inputs,
                   proof>>

(* The fields and the credential are taken from the widgets, with the       *)
(* revision of the controller.                                              *)
StartTest(save) ==
    /\ User /\ test.pc = "none"
    /\ step # "review" /\ CanTest(step)
    /\ step = "profile" => form[step] # Nothing
    /\ save => OneStep
    /\ test' = [NoTest EXCEPT !.pc = "building", !.of = step, !.fields = form[step],
                              !.secret = typed[step], !.save = save]
    /\ typed' = [typed EXCEPT ![step] = Absent]
    /\ cleared' = FALSE
    /\ UNCHANGED <<step, form, modal, import, mounted, profile, drafts, inputs, proof>>

\* The credentials in all the widgets are erased in the end.
TestEnds ==
    /\ test' = IF test.save THEN [test EXCEPT !.pc = "tested"] ELSE NoTest
    /\ typed' = NoTyped

(* _build_step_transaction runs in a thread and asks for the current step   *)
(* again: when the person has moved, the transaction may be that of the     *)
(* step, nothing at all, or an error because the fields are not there.      *)
BuildTransaction ==
    /\ test.pc = "building"
    /\ \E what \in IF test.moved THEN {"own", "empty", "error"} ELSE {"own"} :
         IF what = "error" THEN TestEnds
         ELSE test' = [test EXCEPT !.pc = "built", !.built = what] /\ UNCHANGED typed
    /\ UNCHANGED <<step, form, modal, import, cleared, mounted, profile, drafts, inputs,
                   proof>>

(* A managed profile cannot be entered over the built-in one, nor the       *)
(* built-in one without its verification.                                   *)
Acceptable(s, v) ==
    /\ v \notin Invalid \cup {Nothing}
    /\ s = "profile" => (v = Builtin <=> draft[s] = Builtin)

Entered(s, v) == [draft EXCEPT ![s] = IF s = "repositories" THEN @ \cup {v} ELSE v]

\* What is committed is committed for the step on the screen: its members
\* must be those of this step, and so must the credential.
Fits ==
    /\ test.built = "own" => \/ step = test.of
                             \/ test.of \in {"profile", "paths"}
                                  /\ step \in {"profile", "paths", "provider"}
    /\ test.secret # Absent => step = test.of

Committable == ~test.changed /\ Fits /\ (test.built = "own" => Acceptable(test.of, test.fields))

TurnDown ==
    /\ test.pc = "built" /\ ~Committable
    /\ TestEnds
    /\ UNCHANGED <<step, form, modal, import, cleared, mounted, profile, drafts, inputs,
                   proof>>

\* test_step: not the review, and not before the steps that come before.
MayProbe(kept) ==
    step # "review" /\ \A s \in Pages : Position(s) < Position(step) => kept[s] = "passed"

(* apply_step_transaction, and test_step up to the probe: the step on the   *)
(* screen is probed if the steps before it have passed.                     *)
CommitStep ==
    /\ test.pc = "built" /\ Committable
    /\ draft' = IF test.built = "own" THEN Entered(test.of, test.fields) ELSE draft
    /\ secret' = IF test.secret = Absent THEN secret
                 ELSE [secret EXCEPT ![test.of] = test.secret]
    /\ reviewed' = FALSE
    /\ LET kept == Invalidated(result, IF draft' # draft THEN test.of ELSE step, TRUE)
       IN  IF MayProbe(kept)
           THEN /\ result' = [kept EXCEPT ![step] = "pending"]
                /\ test' = [test EXCEPT !.pc = "probing", !.at = step]
                /\ UNCHANGED typed
           ELSE result' = kept /\ TestEnds
    /\ UNCHANGED <<step, form, modal, import, cleared, mounted, profile, inputs, proof>>

(* The probe is given the fields that were taken at first; the probe of the *)
(* profile looks at the draft.                                              *)
LookedAt == IF test.at = "profile" THEN draft["profile"] ELSE test.fields

\* The names of the fields must be those of the step that is probed.
Understood == test.at \in {test.of, "profile"}

(* The result counts when the configuration is the same as at the start.    *)
ProbeChanged ==
    /\ test.pc = "probing" /\ test.changed
    /\ result' = [result EXCEPT ![test.at] = "none"]
    /\ TestEnds
    /\ UNCHANGED <<step, form, modal, import, cleared, mounted, profile, draft, secret,
                   reviewed, inputs, proof>>

\* Mistake: the revision is not compared when the probe answers.
ProbePassesAnyway ==
    /\ test.pc = "probing" /\ Understood
    /\ result' = [result EXCEPT ![test.at] = "passed"]
    /\ proof' = [proof EXCEPT ![test.at] = [fields |-> LookedAt, built |-> test.built]]
    /\ TestEnds
    /\ UNCHANGED <<step, form, modal, import, cleared, mounted, profile, draft, secret,
                   reviewed, inputs>>

ProbePasses ==
    /\ test.pc = "probing" /\ ~test.changed /\ Understood
    /\ result' = [result EXCEPT ![test.at] = "passed"]
    /\ proof' = [proof EXCEPT ![test.at] = [fields |-> LookedAt, built |-> test.built]]
    /\ TestEnds
    /\ UNCHANGED <<step, form, modal, import, cleared, mounted, profile, draft, secret,
                   reviewed, inputs>>

(* After a failure the screen goes to the first step that has not passed;   *)
(* fields that are not understood are an error, after which it stays.       *)
ProbeFails ==
    /\ test.pc = "probing" /\ ~test.changed
    /\ result' = Invalidated([result EXCEPT ![test.at] = "failed"], test.at, FALSE)
    /\ step' \in IF Understood THEN {step, ControllerStep'} ELSE {step}
    /\ TestEnds
    /\ UNCHANGED <<form, modal, import, cleared, mounted, profile, draft, secret,
                   reviewed, inputs, proof>>

-----------------------------------------------------------------------------
(* The folders of the step of the repositories *)

AtFolders == User /\ step = "repositories"

AddFolder ==
    /\ AtFolders /\ test.pc = "none"
    /\ Acceptable(step, form[step])
    /\ draft' = Entered(step, form[step])
    /\ Edited(step)
    /\ form' = [form EXCEPT ![step] = Nothing]
    /\ UNCHANGED <<step, typed, modal, import, cleared, mounted, test, profile, secret,
                   inputs, proof>>

LoadFolder(v) ==
    /\ AtFolders /\ v \in draft[step]
    /\ form' = [form EXCEPT ![step] = v]
    /\ UNCHANGED <<step, typed, modal, import, cleared, mounted, test, profile, drafts,
                   inputs, proof>>

RemoveFolder(v) ==
    /\ AtFolders /\ v \in draft[step]
    /\ draft' = [draft EXCEPT ![step] = @ \ {v}]
    /\ Edited(step) /\ Noticed
    /\ UNCHANGED <<step, form, typed, modal, import, cleared, mounted, profile, secret,
                   inputs, proof>>

-----------------------------------------------------------------------------
(* The built-in profile: asked, verified in a task, and bound *)

RequestProfile ==
    /\ mounted /\ modal = "none" /\ step = "profile" /\ profile = "none"
    /\ modal' = "profile"
    /\ UNCHANGED <<step, form, typed, import, cleared, mounted, test, profile, drafts,
                   inputs, proof>>

AnswerProfile(yes) ==
    /\ modal = "profile" /\ modal' = "none"
    /\ IF yes /\ step = "profile" /\ test.pc = "none"
       THEN profile' = "running" /\ cleared' = FALSE
       ELSE UNCHANGED <<profile, cleared>>
    /\ UNCHANGED <<step, form, typed, import, mounted, test, drafts, inputs,
                   proof>>

(* confirm_builtin_workspace_profile                                        *)
VerifyProfile(ok) ==
    /\ profile = "running"
    /\ IF ok THEN /\ draft' = [draft EXCEPT !["profile"] = Builtin]
                  /\ Edited("profile") /\ profile' = "bound"
             ELSE UNCHANGED <<draft, result, reviewed>> /\ profile' = "failed"
    /\ UNCHANGED <<screen, test, secret, inputs, proof>>

ProfileDone ==
    /\ profile \in {"bound", "failed", "cancelled"}
    /\ profile' = "none"
    /\ form' = IF profile = "bound" /\ draft["profile"] = Builtin
               THEN [form EXCEPT !["profile"] = Builtin] ELSE form
    /\ UNCHANGED <<step, typed, modal, import, cleared, mounted, test, drafts, inputs,
                   proof>>

-----------------------------------------------------------------------------
(* Review and activation *)

Confirm ==
    /\ User /\ step = "review" /\ EveryPassed
    /\ reviewed' = TRUE
    /\ UNCHANGED <<screen, test, profile, draft, secret, result, inputs, proof>>

\* _build_candidate: nothing is saved without a credential.
MaySave == EveryPassed /\ \E s \in Pages : secret[s] # Absent

(* save_and_activate has succeeded, and the screen is dismissed; when it    *)
(* fails everything stays.                                                  *)
ActivateDraft ==
    /\ User /\ step = "review" /\ reviewed /\ MaySave
    /\ Dismiss
    /\ test' = CutOff
    /\ UNCHANGED <<inputs, proof>>

\* confirm_review and save_and_activate ask again for what the screen has asked.
Ready == Passed("ones") /\ MaySave

(* action_save_mvp_runtime after the test: what is saved is the draft, if   *)
(* the step has passed - in this test or in an earlier one.                 *)
SavedOne(done) ==
    /\ Ready
    /\ IF done THEN Dismiss
       ELSE /\ reviewed' = TRUE
            /\ UNCHANGED <<screen, profile, draft, secret, result>>

SaveOneStep(done) ==
    /\ test.pc = "tested"
    /\ test' = NoTest
    /\ \/ SavedOne(done)
       \/ /\ ~Ready
          /\ UNCHANGED <<screen, profile, drafts>>
    /\ UNCHANGED <<inputs, proof>>

-----------------------------------------------------------------------------
Act ==
    \/ \E s \in Pages : \/ \E v \in Values : Type(s, v)
                        \/ \E c \in Secrets : TypeSecret(s, c)
    \/ \E s \in Pages \cup {"review"} : TurnTo(s)
    \/ \E save \in BOOLEAN : StartTest(save)
    \/ BuildTransaction \/ TurnDown \/ CommitStep
    \/ ProbeChanged \/ ProbePasses \/ ProbeFails
    \/ Escape \/ CancelProfile \/ Unmount \/ Mount
    \/ ReviewImports \/ DiscardImport \/ ImportTemplate
    \/ \E S \in SUBSET OwnsSecret : ImportSecrets(S)
    \/ AddFolder \/ \E v \in Folders : LoadFolder(v) \/ RemoveFolder(v)
    \/ RequestProfile \/ \E yes \in BOOLEAN : AnswerProfile(yes)
    \/ \E ok \in BOOLEAN : VerifyProfile(ok)
    \/ ProfileDone
    \/ Confirm \/ ActivateDraft \/ \E done \in BOOLEAN : SaveOneStep(done)

WizardNext == UNCHANGED wizard /\ Act

WizardSpec == WizardInit /\ [][WizardNext]_wizardVars

-----------------------------------------------------------------------------
Texts    == Values \cup {Template, Builtin, Nothing}
Material == Secrets \cup {Imported, Absent}

(* Every variable has its type.                                             *)
WizardTypeOK ==
    /\ step \in Pages \cup {"review"}
    /\ form \in [Pages -> Texts] /\ typed \in [Pages -> Material]
    /\ modal \in {"none", "profile", "import"} /\ import \in {"available", "gone"}
    /\ cleared \in BOOLEAN /\ mounted \in BOOLEAN
    /\ test.pc \in {"none", "building", "built", "probing", "tested"}
    /\ test.pc = "probing" => test.at \in Pages
    /\ profile \in {"none", "running", "bound", "failed", "cancelled"}
    /\ \A s \in Pages : IF s = "repositories" THEN draft[s] \subseteq Texts \ {Nothing}
                                              ELSE draft[s] \in Texts
    /\ secret \in [Pages -> Material]
    /\ result \in [Pages -> {"none", "pending", "passed", "failed"}]
    /\ reviewed \in BOOLEAN /\ wizard \in Wizards /\ inputs \in Nat

(* A step counts as passed for the fields that its probe looked at: they    *)
(* are those of the draft, which an activation would save, whatever was     *)
(* typed, imported, removed or cancelled since the test began.  Left out is *)
(* a test whose thread built nothing because the person had moved on.       *)
PassedAsTested ==
    \A s \in Pages : Passed(s) /\ proof[s].built = "own" =>
        IF s = "repositories" THEN proof[s].fields \in draft[s]
                              ELSE draft[s] = proof[s].fields

(* Escape, and leaving the screen in any way, leave no credential that was  *)
(* typed: neither in a widget nor in the controller (_transients_cleared    *)
(* may skip the second call only when there is nothing to forget).          *)
Away        == Escape \/ (mounted /\ ~mounted')
NothingKept == typed = NoTyped /\ \A s \in Pages : secret[s] \in {Absent, Imported}
TypedIsForgotten == [][~NothingKept' => ~Away]_wizardVars

(* A step that is "pending" is being probed: no cancelled, refused or       *)
(* outdated test leaves a step behind that can never be tested again.       *)
PendingIsRunning ==
    \A s \in Pages : result[s] = "pending" => test.pc = "probing" /\ test.at = s

(* A review that was confirmed is one of the draft as it is: all of its     *)
(* steps have passed, and none of them has changed since.                   *)
ReviewedIsPassed == reviewed => EveryPassed

(* What is reviewed and saved is what was tested: passed means that a probe *)
(* has looked at these fields, pending that one does, and the review and    *)
(* the save of a single step ask for no more than that.                     *)
ResultsHold == PassedAsTested /\ PendingIsRunning /\ ReviewedIsPassed
=============================================================================
