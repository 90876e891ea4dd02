# Formal models of the ONES developer workflow

TLA+ models of the developer workflow in `src/developer_workflow` and of the older
agent service in `src/core`: how a run is stored, analysed, repaired, tested,
reviewed, approved and published, how schedules start runs by themselves, how the
terminal shows and starts them, and what keeps configuration, executables,
worktrees and agent processes in order. TLC checks small instances; TLAPS proves
the theorems of section 4 for all values of the constants. `PROJECT.json` maps
every definition to the lines it stands for, lists the hazards of the code with
the properties that watch them, and names for every property a plausible wrong
version of the code that breaks it.

Paths are relative to the repository; `dw/` is `src/developer_workflow/`.

## 1. The system

A *run* is one ONES requirement or defect on its way to a pull request. Its whole
state is a `WorkflowRun` in `run.json`; every process (terminal, command line,
scheduler) works on a copy and saves it with the version it loaded. Remote effects
(commit, push, pull request, ONES comment) are only made by the publisher after a
person has approved a package.

| Component | State | Operations | Interacts through |
|---|---|---|---|
| Run store, `dw/state_store.py` | one directory per run: `run.json` with a version, `.lock`, operation locks, events | create, load, save, transition, delete, decide an analysis | files; advisory locks; version compare |
| Orchestrator, `dw/orchestrator.py` | none of its own | start, confirm, resume, revise, verify, replan, approve, cancel | takes the `orchestrate` lock, calls one flow or the publisher |
| Requirement workflow, `dw/requirement_flow.py` | stage, agent results, tests, tested snapshot, review, package, in the run | the stage loop `execute`, resetting a resumed stage, blocking | run store, coding agent, worktree, test commands |
| Defect workflow, `dw/defect_flow.py` | as above, with an analysis and its decision, the frozen reproduction, baselines | analyse, reproduce, repair, verify, review, queue review repairs, move to a new base | as above |
| External verification and hand-off, `dw/verification.py`, `dw/pr_handoff.py` | plan and records in the run | plan, verify on a node, attest, defer to the request | orchestrator, both workflows |
| Approval, `dw/approval*.py` | the package, its fingerprint | validate, issue, rebuild and compare | publisher reads everything again through it |
| Publisher, `dw/publisher.py` | publication facts in the run | publish, resume, retry the comment | `publish` lock, git, request provider, ONES comments |
| Repositories, `dw/repository*.py`, `dw/baseline_refresh.py` | one bare mirror per repository, one worktree and branch per run | prepare, recover, clean up, snapshot, commit, push, transfer | git commands on shared directories |
| Schedules, `dw/schedules.py` | SQLite: plans, rounds, ledger items, claims | save, delete, dispatch, recover, finish | a tick of the terminal every ten seconds; starts defect runs |
| Terminal, `dw/tui/` | runtime sessions, gates and calls per run, what the screens show, offers of work items | submit, refresh, press, reconfigure, leave, edit | one event loop, calls on worker threads |
| Setup, `dw/setup_*.py`, `dw/credential_store.py` | configuration file with generations, vault, built runtimes | edit, test, commit, activate, restore, clean up | files, vault, threads that build |
| Setup wizard, `dw/tui/setup_screens.py` | fields and credentials in the widgets, the test that runs beside the screen, folders, import, built-in profile | type, move, test, import, cancel, review, save | the setup controller; a thread that builds, a task that probes |
| Coding agents, `dw/codex_*.py`, `dw/claude_runner.py` | a cache of executables; processes and conversations | prepare an executable, run a stage, cancel, time out | cache directory, worktree, JSON answers |
| Sandboxed commands, `SandboxCommandExecutor` of `dw/requirement_flow.py` | per call two directories and the handles on them, the deadline, what the probes have shown; one command that calls may share | probe, run, put away | the sandbox of the Codex CLI; the checks of the setup use it, the installed workflows run their configured commands directly |
| Agent service, `src/core/`, `src/integrations/git_ops.py` | work items, seen defects, execution records, one clone, cron tasks | poll, plan, move items, make branches, report | ONES, a planner, one event loop and a thread |

What is hard about it:

- **crash windows**: almost every operation is several durable writes and external
  effects; a process may stop between any two of them and another resumes from what
  was written;
- **uncertain effects**: the reply to a push, a request or a comment may be lost;
  a build or a query may be answered after it was given up;
- **several actors**: two terminals, the scheduler, developers who push, reviewers
  who merge and close, somebody who edits a worktree, an agent that leaves processes
  behind, directories that nothing locks as a whole;
- **evidence that goes stale**: tests, reviews, checks and approvals are about one
  content and one set of bases; probes about one draft; a screen about one answer;
- **resumption**: which results of an earlier attempt count depends on the stage, on
  why the run is blocked and on whether it is a group;
- **limits**: leases, pauses after failures, attempts, sessions and batches.

What makes each part correct: the store loses no acknowledged save; the publisher
makes each effect once, in order, never for evidence it has seen to be stale, and
finishes when it is resumed often enough; the workflows offer only what was tested
and reviewed in exactly the offered content, a defect only with a reproduction that
was seen failing and the analysis a person accepted; worktrees a run names are whole
and what is pushed is what was tested; the scheduler starts a defect once and never
overrides a user; a person sees and starts what he selected; configuration and
executables are either the old ones or proven new ones; what is activated is what was
tested, and a typed credential is forgotten with the edit; a sandboxed command runs only
in a sandbox that was proved and leaves nothing; every agent call ends.

## 2. The modules

| Module | Models | Kind |
|---|---|---|
| `Delivery` | what publishing a run promises to the outside world | abstract specification |
| `GroupPublisher` | `Publisher._publish_group_locked` and what it calls | implements `Delivery` |
| `Publisher` | `Publisher._publish_locked`, one repository | implements `Delivery` |
| `RunCell` | a versioned cell that is changed one update at a time | abstract specification |
| `RunStore` | `FileRunStore`: locks, compare, write, rename, delete | implements `RunCell` |
| `Schedules` | `ScheduleStore` and `dispatch` | specification |
| `Requirement` | `RequirementFlow` and the orchestrator's commands for it | specification |
| `Defect` | `DefectFlow` and the orchestrator's commands for it | specification |
| `Worktrees` | mirrors, worktrees, commits, pushes, baseline refreshes | specification |
| `Setup` | setup store, credential store, setup controller | specification |
| `Wizard` | the setup screens in front of the controller | specification |
| `Configuration` | a configuration that is entered and one that is activated | composition of the two |
| `RuntimeCache` | `CodexRuntimePreparer` and its directory | specification |
| `Sandbox` | `SandboxCommandExecutor` and its directories | specification |
| `Codex` | the executable that is prepared and the commands that run through it | composition of the two |
| `AgentRun` | the guarded calls of one run to a coding agent | specification |
| `AgentService` | the service of `main.py` and `src/core` | specification |
| `Terminal`, `Offers`, `Editors` | the dashboard with its supervisor, the workspace screen with its wizards, the editors | specifications |
| `Desk` | a person who is at one of these three screens | composition of the three |
| `...Proofs` | theorems about the module they are named after | proofs |
| `MC...` | constants and symmetry for TLC | instances |

Operators under a comment `Mistake:` are not part of a specification. Each is a
plausible wrong version of the definition that follows it; `PROJECT.json` names the
property that TLC finds violated when it takes that definition's place.

**Publication: `GroupPublisher`, `Publisher`, `Delivery`.** State: the persisted
publication facts (`commit_hash`, `push_completed_at`, `pr_url`, `error` per
repository; `comment_id` and `error` of the run), the outside world (worktree head,
remote branch, requests, comments, bases), and per process the step it has reached
and the lock. An action is one external effect or one durable write; the read-only
checks in front of an effect belong to its action (`MayCommit`, `MayPush`, `MayFind`,
`MayCreate`). `Crash` stops a process anywhere and frees the locks; `Commit`, `Push`,
`CreatePR` and `Comment` take a `replied` flag, FALSE when the effect took place and
the reply was lost. `Impeded`/`Fail` are the exceptions that `_group_partial`
persists. `World` is everyone else, reviewers who merge or close a request among them.
`Delivery` counts for every repository the requests opened and those closed by others;
a second one may only be opened after the first was closed and while the run has no
comment. Both publishers map their own counts to these, so a request opened twice, which
`find` would not notice because it sees open ones only, is not a step of `Delivery`.

**Run store: `RunStore`, `RunCell`.** State: `run.json`, the directory's presence,
`.lock`, one temporary file and one loaded copy per process. `Take`, `Check`,
`WriteTemp`, `Replace`, `Return` are the steps of a save; `Condemn`, `Unlock`,
`Remove` those of `delete`, whose rename happens after the lock was released. `Stop`
is a refusal, an exception or a crash.

**Schedules.** State: plans with version, due flag and failure count; rounds with
lease, status and ledger; permanent claims; the tasks that exist; the local variables
of the dispatcher. The actions follow `dispatch`: recover, claim a due plan, list
tasks, query candidates, reserve, start, record, confirm, note, close. Users create,
edit, pause and delete plans at any moment; leases lapse; the dispatcher crashes at
any step.

**Requirement workflow.** State: the run, the worktree's content (`diff`), which
nodes are configured and whether unfinished checks may be deferred, the step of the
one command that holds the `orchestrate` lock, and histories: contents that passed
the tests, checks whose last result on a content is a pass, whether the newest
feedback was given to the agent. Correspondence with `WorkflowRun`: `resume`/`cause`
are `resume_state` and whether `blocked_reason` asks for verification; `mapping` is
`repository` or `repository_group`; `preflight` and `coded` are the first and second
agent result; `tried` is `retry_count`; `tested` the tested snapshot; `review` keeps
which content it was made of, whether it found something open and the checks it asks
for; `plan` and `records` are `verification_plan` and `verification_records`, where
of the results of one kind on one content only which is `last` matters; `approval` is
the package with the content it offers. One action is one durable write with the reads
and agent calls before it. `Fail` is every `_FlowBlocked` and every exception of a
stage; `Escape` the exception that meets a newer version; `Crash` ends a command at
any step; `Edit` is somebody else in the worktree; `Configure` a restart with other
nodes.

**Defect workflow.** As the requirement's, with two locks: a decision about a
completed analysis holds `analysis-decision`, so two commands can be in one run, each
with its own copy; `stale` says that somebody else has saved since, and the version
check then refuses. A content has the base it stands on, the reproduction file and
the rest, because the reproduction is frozen before the repair and must have failed
without it. Histories: reproductions seen failing, the last content on which all
commands passed, the analysis a person accepted.

**Worktrees.** State: tips of the remote bases, remote branches, the mirror of each
repository, directory, registration, branch and files of each workspace, the run
records and where each run's process stands. Every git command is a step that may
fail, be cut short or be followed by a crash. A write into a worktree makes a content
nobody had before.

**Setup.** State: the pointer file (active generation, previous one, owner of a
pending activation), configurations and credentials per generation, the controller of
each process with its draft and tested revisions, and the runtimes that were built. A
store call under the directory lock is one action; between two awaits of the
controller the user edits, cancels and closes, and another process acts.

**Wizard, Configuration.** State of `Wizard`: the widgets (step, fields, password), the
dialog in front of them, whether the controller was told to forget, the one test and the
one verification of a profile that may run beside the screen, and the controller's draft,
credentials, results and review. A test is taken apart where others can step in: the
fields are taken (`StartTest`), a thread builds the transaction (`BuildTransaction`), the
event loop commits it (`CommitStep`), the probe answers (`ProbePasses`, `ProbeFails`,
`ProbeChanged`). `Escape` and `Unmount` cut it off anywhere. How an activation goes is left
to `Setup`, which takes any order of calls of the controller; so `Configuration` puts the
two side by side, and one rests while the other acts.

**RuntimeCache.** State: per version the final directory and its quarantine marker;
per preparation its lease, stage and step. An action is one access to the directory.

**Sandbox, Codex.** State of `Sandbox`: per call the step it has reached, its two
directories (what the path names, what became of the one that was made, whether cleanup
knows of it, its handle), the ancestors it holds, the command, the socket of the network
probe, the deadline, what was proved, and the failures of work and cleanup. An action is
one operation that can fail; `mkdir` and the first look at what it made are one step with
both outcomes. `Move` is something else that renames or replaces a directory; a change of an
ancestor is a change of what both paths name. A failure is plain or of the kind that must
get through (`Select`). In `Codex` the executable that `RuntimeCache` has handed over is the
command of `Sandbox`: it is held open by its new owner, so the two share no state and one
rests while the other acts.

**AgentRun.** State: the process tree (leader and descendant), pipes, deadline,
conversation and worktree of the call under way, and the host, which may die.

**AgentService.** State: the tables and files of the service, the steps of its rounds,
requests, execution and clone thread. Split where something becomes durable or is
awaited; the process ends anywhere.

**Terminal, Offers, Editors, Desk.** `Terminal`: the app's transition lock, runtime
sessions, gates and calls of the supervisor, the refresh loop, list, pane and dialogs.
`Offers`: answers of ONES kept as sessions and batches, the cards drawn from them,
presses waiting in a widget's pump, wizards and what they start. A query of the workspace
or of a wizard lands in one step and is shown in another; the person may leave a
workspace in between. Supervisor and controller close in one step (`Shut`), after which
nothing is on offer: a discard that fails because of it leaves the offers as they are. `Editors`: rows with
versions and configuration sections, lists and editors of two terminals, and rounds
that write plans. They share nothing but that closing a session closes its controller
(`Shut` of `Offers`), so in `Desk` two rest while the third acts.

## 3. What the runs check

Every property is meant to need several steps of several actors to break.

| Run | Instance | What it shows |
|---|---|---|
| `GroupDraft` | two changed repositories, one dependent on the other; two processes; everyone else may act; fairness | `FactsAreTrue`: nothing is persisted ahead of its effect; `NoEffectWhenStale`: an attempt begun after a base moved has no effect; `Implements`: refinement of `Delivery`, one open request at most for each repository; `Publishes`: resumed often enough, a publication finishes |
| `Single` | one repository, two processes, everyone else may act, a reviewer may close requests; fairness | `Implements`: the same delivery; `CommentIsRetried`: once the request is recorded nothing outside keeps the comment from being delivered |
| `RunStore` | three processes, three updates | `Implements`: refinement of `RunCell`, so that no save that was acknowledged is lost |
| `Rounds` | one plan, two defects, two rounds, one edit | `StartedOnce`; `LedgerExplainsClaims`: claims, ledger and started workflows agree; `StopsAfterChange`: after an edit at most the start already under way |
| `Requirement` | two contents, one external check, single repository and group, both deferral policies | `PackageWasTested`, `PackageWasReviewed`, `FeedbackHeard`, `ChecksAccounted`: every check of the review passed on exactly this content, or is deferred as configured |
| `Defect` | an analysis that is decided and repaired, single repository and group, one moved base, overlapping commands | `PackageWasTested`; `FrozenWasFailing`: the frozen reproduction was seen failing, or that it was not is disclosed; `DecisionIsKept`: what is repaired is the analysis that was accepted |
| `Worktrees` | a run of one repository and a run of two that share a mirror | `NamedIsWhole`: a workspace a run names is whole and on its base; `PublishedIsTested`; `CarriesWhatWasTested`: a baseline refresh carries the tested patch |
| `Configuration` | two processes, one of which edits; first setup and change; a person in front of three kinds of wizard | `PointerIsSound`: the active generation and the one it would return to can be read; `ActivatedAsTested`: what is activated is what the probes saw; `RuntimesAccounted`: every built runtime is in use, closed or owned by somebody who closes it; `ResultsHold`: a step counts as passed for the fields its probe looked at, a pending one is being probed, a confirmed review is of what passed; `TypedIsForgotten`: Escape and leaving keep no credential that was typed |
| `Codex` | up to two of four overlapping preparations; two sandboxed calls side by side, or one in which two operations fail and two directories are moved | `CacheIsSound`: sweeping never takes the stage of one at work, and what is published without a marker was validated there, as long as nothing failed; `Recovers`: a preparation left alone succeeds the second time at the latest; `ProvenBeforeRun`: the configured command only runs in a sandbox that let through and stopped what it must; `EndsClean`: whatever fails, nothing stays held or lies about behind an outcome, a shared command serves once, and a cancellation is never lost behind another failure |
| `AgentRun` | calls with a leader, a descendant, pipes and a host that may die; fairness of the host | `LeavesNoTrace`: where the agent runs in a job nothing of it outlives its call, and an accepted read-only answer leaves the worktree as found; `EveryCallEnds` |
| `AgentService` | two rounds, two defects, two branch requests, two scheduled runs | `ApprovalIsAsked`: a held plan is coded only after a person let it pass; `NothingForgotten`; `RecordsTellTruth` |
| `Terminal` | a person at the dashboard, at a workspace, or at the editors of two terminals; fairness of the event loop | `OneAtATime`: one call on a run, in the only live runtime; `ShownIsSelected`; `ShownInTheEnd`: the dashboard comes to show the store; `WhatWasAsked`: what is started is what was pressed (of defects: unless the list was replaced in between), and no offer serves two runs; `HeldOrGone`: no requirement stays on offer that nobody holds; `NothingOverwritten`: nobody replaces or deletes a row he was not shown |

### Bounds, and why they are enough

- *Group publication*: with two changed repositories there is a first and a last in
  topological order, and a half-done group. `MaxPRs = 2` lets a reviewer close a
  request once, which is what makes a second one possible. Two processes are enough
  because one lock serialises them and the properties relate one that stopped to one
  that goes on. `GroupDraft` is a draft hand-off, `Single` a final one; `MaxPRs = 3` lets reviewers
  close two requests there before one is recorded.
- *Run store*: two competitors and one that deletes. Each update is saved once, so
  three updates bound the version.
- *Schedules*: `MaxRounds = 2` lets a round meet the claims, failures and lapsed lease
  of an earlier one; `MaxVersion = 2` is one edit; `PauseAfter = 2` (three in the code)
  is reached within two rounds. Two candidates in a round are one that is started and
  one that is left.
- *Requirement*: two contents are "what was tested, reviewed or approved" and
  "something else"; contents are only compared, so the symmetry is sound.
  `MaxAttempts = 2` is a first test run and one repair. `MaxRecords = 1` keeps one
  external result that still counts beside those of superseded contents; with two (a
  person's and a node's) the same properties held in 7.3 million states, and the
  theorems cover any number.
- *Defect*: one reproduction and one repair, each present or not; the agent calls last
  for minutes, so that is where the instance interrupts and fails commands, and
  between saves that belong together. `OverlapAt` lets a command start while the
  decision is being carried out. People edit between commands.
- *Worktrees*: the run of one repository is followed to its publication and is the one
  others touch; the run of two competes for the mirror. One move of the base and two
  writes are one before and one after what was compared.
- *Configuration*: three generations are the one before, the one being activated and one of the
  other process; one failing write or crash, two edits. `MCWizards` are the two steps the
  program installs with one entry of fields or a credential, the steps of a workflow with
  its folders, and the single step with two entries: one before and one after a test began.
- *Codex*: two overlapping preparations, and two more that meet what these left. A call with
  two failures has one of the work and one of the cleanup; two moves put a directory away and
  back.
- *AgentService*: four events from outside reach every pair of a person's move and a
  crash around a planner's answer.
- *Terminal*: scenarios (`Budget`, `Spare`, `Edited` of `MCTerminal`) name what
  may happen how often; eight sessions and thirty-two batches of the code are two of
  each. Three calls reach a gate that is dropped and made anew while one is queued.
- `NoCrashAt` and `NoEditAt` of `Requirement.cfg` exclude exactly the windows in which
  the code breaks the checked properties: a crash between leaving `BLOCKED` and
  clearing the earlier results (`reset`, observation 4), between withdrawing a package
  and blocking the run (`withdraw`, observation 8), and an edit of the worktree between
  the start of the tests and their snapshot (`testing`, `tested`, observation 9).
- Deadlock is checked in `Rounds` only: elsewhere delivered, cancelled and deleted
  runs, ended calls and spent bounds have nothing left to do.

### Fairness

- Publishers: `WF(Advance)` says that a person resumes an unfinished run again and a
  running call goes on; `<>[][Calm]` that from some point on nothing crashes and no
  reply is lost. Nothing is assumed about others. `Publishes` further assumes that no
  run is in the window of observation 1.
- AgentRun: the host alone is fair (its waits have limits); the agent and its
  descendant are not.
- Terminal: the two-second poll, the steps of a refresh and answers from threads go
  on; a person does nothing in particular.
- All others are safety only: what a person does next is not fair.

## 4. What is proved

All proofs are checked by TLAPS from the assumptions named in the modules
(`GroupAssumption`, `StoreAssumption`, `AgentAssumption`, `WizardAssumption`,
`CacheAssumption`, `RequirementAssumption`, `DefectAssumption`, `SchedulesAssumption`,
`ServiceAssumption`, `TerminalAssumption`, `OffersAssumption`,
`EditorsAssumption`, `DeskAssumption`, `WorktreesAssumption`): special values are distinct, limits are
natural numbers, a group has changed repositories, its order is total, and what an
instance names belongs to what it chooses from. A wizard has steps, and the profile comes
before the steps that depend on it (`WizardAssumption`; the order of `SetupStep`).

**`GroupPublisherProofs`** (any finite group, any processes, any interference):
`TypeCorrect`, `MutualExclusion`, `Truthful`, `Ordered`, `StaleHasNoEffect`, `Once`,
`Refinement` (of `Delivery`). After a crash only the persisted facts say where to go
on, so the invariant `IInv = TypeOK /\ OneWriter /\ FactsAreTrue /\ EffectsInOrder /\
Linked /\ StepInv` adds what the process at each step relies on (`StepInv`) and that a
request with a status was opened (`Linked`). Mutual exclusion makes `StepInv` of the
others vacuous. `Once` says that a repository gets one request beyond those a reviewer
closed, and the run one comment; it adds that all but the latest request were closed.
`Refinement` says that each effect is made while the run is pending and after those it
depends on; it needs that no second request is open beside a first (`OneEach`), because
`Delivery` counts requests.

**`ResourceProofs`** has what holds a file, a process, a directory or a credential: the
run store, an agent's call, a sandboxed command, the setup wizard and the cache of
executables.

- `RunStore` (any processes, any updates): `TypeCorrect`, `NoLostSave`, `Refinement` (of
  `RunCell`). `IInv` adds that whoever is inside the critical steps holds the lock
  (`Holder`), that a version names one content (`Copies`), that what the holder compared
  stays true until its rename (`Writing`), and that its update is new (`Fresh`).
- `AgentRun` (any contents and numbers of sessions): `AnswersLeaveNoTrace`. `AgentInv` adds
  that a guarded call keeps what it found as its baseline, and that it has left nothing
  before it is accepted.
- `Sandbox` (any callers): `CommandsRunProved`, `CallsEndClean`. The invariant of a call
  says which probes lie behind each step (`InOrder`), that nothing has failed before
  cleanup and a cancellation stays in sight (`Remembered`), that what it holds is known to
  the steps that are still to come (`Accounted`, `Leased`), and that where nothing has
  failed, what cleanup is past is gone (`CleanedUp`). Calls share only whether the command
  was given out (`GivenOut`).
- `Wizard` (any wizards, fields and credentials): `ResultsAreTrue`, `NothingTypedIsKept`.
  The probe under way is of a step that has not passed and of the fields in its draft,
  unless those were edited since (`ProbedInTime`); once the controller was told to forget, no
  test runs and every credential it knows was imported (`AllForgotten`); a profile is
  verified while no test runs (`AloneVerified`). That there is a first step which has not
  passed takes `WellFoundedInduction`.
- `RuntimeCache` (any preparers, executables, failures and overlap): `CacheStaysSound`,
  `PreparationsRecover`. Whoever has locked a lease owns it or looks at it in a sweep, and a
  sweep has listed no directory whose owner is at work (`LeasesKept`); what a preparation
  has noted of its publication goes with its step (`FlagsKept`). While nothing has failed,
  what is published is marked until its owner has validated it, also across crashes
  (`Unmarked`). For the recovery, a preparation that was alone so far finds at each step what
  it left there itself (`Undisturbed`), and after one that failed alone the marker of its
  version stays until the next has got past all that can fail (`Repaired`, `Succeeds`).

**`SchedulesProofs`** (any plans, rounds, defects and actions): `TypeCorrect`,
`AlwaysStartedOnce`, `LedgerAlwaysExplains`, `AlwaysStopsAfterChange`. The ledger
explains the claims only because of what `dispatch` has in hand at each step
(`HandInv`): a claim whose ledger entry is still missing is the dispatcher's own. The
invariant further says that a plan only moves on, so a round that saw an older version
stays touched (`VersionsInv`, which is what `StopsAfterChange` needs across steps),
what a late dispatcher may still hold (`LateInv`), that what is claimed is reserved and
nothing in `todo` is claimed (`ClaimsInv`, `OwnInv`), and that no candidate is counted
twice (`CountsInv`). `StartedOnce` then follows from the ledger.

**`RequirementProofs`** (any contents, checks, configurations and bounds): `TestsFirst`
and `NoCheckIsDropped` hold wherever commands are interrupted. `OffersReviewed` and
`OffersHeard` assume only that the reset of a resumed stage completes,
`OffersAccounted` only that a withdrawal completes, `OffersTested` that and that nobody
edits the worktree during the tests; observations 4, 8 and 9 show that the code needs
these assumptions. The invariant ties each step to its stage, says where a review can
exist at all, that a review in late stages is of the tested content, and that an unheard
feedback has its implementation still ahead. For the checks `RecordsKept` says what a
result is worth: a last result is what was attested, nothing follows a person's pass,
and while a node is being asked there is none; the plan is then sound when the package
is made (`PlanSound`) and stays accounted for until it is offered (`Accounted`).

**`DefectProofs`** (any contents, kinds, actions and limits, with commands of both locks
overlapping, failing and crashing): `OffersTested`, `OffersReproduced`,
`RepairsWhatWasDecided`, `OffersReviewed`. A defect run has two locks, so two commands can
be under way with a copy each, and nothing but the compare of versions keeps them apart. The
invariant `Always` therefore says of a command only what holds while its copy is not stale
(`StepKept`), beside what the run on disk says (`RunKept`: which evidence a stage and a
checkpoint go with). Each action of one command then either leaves the run alone or makes
the other's copy stale (`Untouched`), and what was promised about the other is promised no
more (`OthersKept`). `OffersTested` and `OffersReproduced` follow with no further
assumption. `RepairsWhatWasDecided` adds where an accepted analysis is: in the run, not yet
reproduced (`Undone`), or in the hands of the command that puts the next revision in its
place (`DecidedSwap`). `OffersReviewed` (`PackageWasTested` as the run checks it) adds that
the review is of the tested content; it must say which single command may still take away
an earlier review (`Pending`, `Takes`) and that nobody else steps in before it does
(`Handed`). That needs `ResumptionCompletes`: no crash, and no command under the other lock,
between leaving `BLOCKED` and the reset of what was judged before, or between the two saves
of a revision. Observation 4 shows what happens there.

**`AgentServiceProofs`** (any defects, rounds, requests, branches and runs):
`ApprovalAlwaysAsked`, `NothingEverForgotten`, `RecordsAlwaysTrue`. The invariants say,
for each step of a round, of ai_trigger and of a request, what it holds in hand and what
the tables say meanwhile; what was in hand when the process ended is in `cut`.

**`DeskProofs`** (any runs, calls, sessions, items, answers, terminals and saves, in the
composition `DeskSpec`): `AlwaysOneAtATime`, `AlwaysShownIsSelected`,
`AlwaysWhatWasAsked`, `AlwaysHeldOrGone`, `NothingIsOverwritten`. Each part has an
invariant of its own, because the parts share nothing. At the dashboard a call is
counted by the gate it waits for or holds, and a pane is either of the highlighted row
or has an answer under way. At a workspace (`OffersInv`) every list's cards come from an
offer that still has their items, every wizard holds the offer it was opened on, and the
requirements of a list are held by the list itself or by a query under way that will
close them, or the controller was closed and nothing is on offer (`Forgotten`). What
follows for the runs is that no offer serves two, that a requirement run is of the item
on the pressed card, and a defect run as well, unless the list was replaced between the
press and the start (observation 20). At the editors an open editor shows a version its row had, and a save
compares it.

**`WorktreesProofs`** (any runs and groups of repositories, any number of moves of the
base, writes and refreshes): `TypeCorrect`, `AlwaysNamedIsWhole`,
`AlwaysPublishedIsTested`, `AlwaysCarriesWhatWasTested`. The invariant is one of each
run: what its record says (`RecordFits`) and what its process relies on (`StepFits`).
What a record names was prepared and stands on a mirror that no clone will change any
more (`NamesFit`); the finished repositories of a group stay whole until the one save
that names them all (`DoneFits`); a refresh works beyond every workspace that was saved
(`Refreshing`), so it cannot spoil the one it carries from. Publication needs one more
fact: files may be written between the comparison and the staging, and then the intent
names a content nobody tested. `TooLate` says that the tested content does not come back
after that, so every later comparison refuses and the push is out of reach. Steps of
other runs keep all this because a workspace belongs to one run and a clone only touches
branches of repositories without worktrees (`RecordKept`, `StepKept`).

### Only model-checked

- Liveness is outside this prover's reach: `Publishes`, `CommentIsRetried`,
  `EveryCallEnds`, `ShownInTheEnd`.
- Not yet proved: `Implements` of `Publisher`; `PointerIsSound`, `ActivatedAsTested` and
  `RuntimesAccounted` of `Configuration`.
- The type invariants of `Defect`, `Setup`, `Wizard`, `RuntimeCache`, `Sandbox`
  and `AgentRun` are stated in their modules and hold on the instances of their runs.

## 5. Abstractions and limits

- *Publishers.* Fingerprints, titles, bodies and markers are data; a check in front of
  an effect is one step with it; an effect takes place within its call; requests closed
  by reviewers are bounded.
- *Run store.* A read without lock sees a complete file (rename is atomic); links,
  permissions and the removal of the renamed directory are left out.
- *Schedules.* Time is `BecomeDue` and `Lapse`; an edit is one that passed the compare
  of versions; manual rounds are not modelled; of the older `claim_due` and `finish`
  only that they write a plan (`Editors`).
- *Requirement and Defect.* Prompts, claims, coverage and evidence make a step succeed
  or block; content is a digest; two edits that cancel out during a group's tests are
  not noticed, as in the code; from `PUBLISHING` on the publisher modules take over.
  `Defect` leaves external checks to `Requirement`.
- *Worktrees.* What a snapshot hashes, path checks and the environment of git are left
  out. Every write is of new content: content that is changed and changed back between
  the comparison and the staging is not told apart.
- *Wizard.* Fields of a step are one value, accepted or not; what a probe asks ONES or a
  provider is left out; layout, help texts and the profile list are data.
- *Sandbox.* What the Codex CLI does with the profile is external; that a socket and a
  command can be closed is taken for granted, that closing them reports a failure is not.
  Contents of a directory are empty or not.
- *Setup, RuntimeCache, AgentRun.* Probes succeed or fail; the Windows variant of the
  cache, damaged markers and power loss are left out; an agent's tree is a leader and
  one descendant.
- *AgentService.* All requests name one repository; editing of tasks, mappings, logins
  and listings are left out.
- *Terminal.* Layout, texts and filters are left out.
- *Not modelled*: the components of `PROJECT.json` with that status; clients of remote
  services keep no state the properties could be about.

## 6. Observations

What the code does that its documents, comments or users would not expect, met while
modelling. The instances and properties leave these windows out where they say so.

Publication and schedules:

1. A crash after the comment was saved, then one failed recovery, leaves an error beside
   the comment. The store accepts neither the partial nor the delivered state; only
   cancelling is left (`dw/publisher.py:511`).
2. A resumed single-repository publication pushes and opens its request although the
   base moved since the approval (`dw/publisher.py:132`).
3. A failed ledger write for a skipped candidate is counted twice, so the round is
   refused its closing and stays running under a live lease (`dw/schedules.py:108`).
   A defect started from the command line during a round is started again (`:100`), and a
   round interrupted by a lapsed lease does not count towards pausing (`:920`). Recovery
   of a group demands unchanged bases and open requests before it retries its comment
   (`dw/publisher.py:165`).

Workflows:

4. A crash between the transition out of `BLOCKED` and the save that clears the earlier
   attempt makes the next resumption reuse its implementation and review, so that a
   package offers changes under the review of earlier ones (`dw/requirement_flow.py:1660`).
5. An exception after a group's test results were saved meets the version check in the
   handler, and the run stays in `TESTING` (`dw/requirement_flow.py:2070`).
6. A worktree changed after its tests blocks at `AI_REVIEW`, where only a revision leads
   out (`:2273`); the prompt carries only the newest feedback (`:2896`).
7. In a defect run, a group interrupted between the saves of its reproduction and of its
   outcome stays at "reproduction checkpoint is incomplete"; an interrupted analysis may
   be resumed as a repair (`dw/defect_flow.py:1646`); the lock of an analysis decision
   lets two agents write one worktree, and a concurrent failure may then leave an
   accepted repair at "base worktree is not clean".
8. `approve` saves the withdrawn package before it blocks the run; after a crash between
   the two the run waits for approval without a package (`dw/orchestrator.py:460`).
9. A single repository's snapshot is taken after its tests without a comparison with what
   they ran on (`dw/requirement_flow.py:2218`); a group compares.

Repositories, agents and setup:

10. Two runs at the first use of a repository: the mirror being cloned passes the checks
    for bare and origin, the second run adds its worktree, and the clone then aborts or
    removes the mirror (`dw/repository.py:843`); `NamedIsWhole` leaves such repositories
    out. A crash between `worktree add` and the save, or a base that moved in between,
    leaves a run that neither recovery nor preparation accepts (`:986`, `:1072`); one
    between `clone` and `set-url` a mirror of the wrong origin for ever (`:862`).
11. A rejected root-cause answer is kept and validated again before every later attempt,
    with the same bytes and the same result (`dw/requirement_flow.py:423`,
    `dw/codex_runner.py:2120`), against `docs/code_standards.md:36`.
12. On POSIX a descendant that outlives its leader is only killed if the leader needed
    the second signal (`dw/codex_runner.py:881`).
13. A failing publisher of the executable cache withdraws a final version another process
    has returned (`dw/codex_runtime.py:1183`), and with three preparers at once a marker can be
    cleared for a version that was not validated, so no run states that it cannot.
14. A finalizing activation that fails after the pointer was replaced leaves the new
    configuration active while the user is told that it failed; `cancel_edit` is not
    refused meanwhile.
15. In the wizard, Escape after Escape keeps credentials that were imported in between:
    `_clear_controller_transients_once` forgets only once until an edit begins, and
    `_import_finished` is none (`dw/tui/setup_screens.py:1485`, `:1003`), against
    `docs/ones_dev_cli.md:68`. `TypedIsForgotten` is about typed ones.
16. The save of the single step asks only whether the step has the status passed; when the
    fields on the screen were refused, it stores and activates the draft of an earlier test
    (`dw/tui/setup_screens.py:1553`; `:1542` says "Validate, persist, activate").
17. The thread that builds a transaction asks for the current step again; a person who goes
    on and comes back meanwhile may have built nothing, and the step passes without its
    fields (`PassedAsTested` leaves it out by `built`). A folder that is added is not probed,
    only the one in the form. With the steps that are installed an import of a template is
    always refused, and over a bound built-in profile no managed one can be entered.

Terminal and service:

18. After an inline save `_reconfiguring` stays set (`dw/tui/app.py:821`), and schedules
    are not dispatched again (`:489`).
19. `finish` and `claim_due` change a plan without raising its version
    (`dw/schedules.py:956`), so that an edit made on the old version undoes an automatic
    pause. The configuration of a terminal is saved from its own memory, compared by
    generation only: two terminals overwrite each other.
20. A board that is refreshed while a dialog is open starts the card that the new list has
    in that place (`dw/tui/task_board.py:584`); defect cards of the workspace screen carry
    no generation (`dw/tui/screens.py:3179`); candidate batches are never released, so
    that thirty-two queries within fifteen minutes make every later one fail.
21. The service loses the rest of a round to one `ValueError`, and the defects of a round
    to a crash after `mark_seen`; a torn `seen_defects.json` keeps it from starting;
    retried and webhook items stay pending; a branch request reuses a branch of the same
    name that was made off another base (`src/integrations/git_ops.py:112`).

## 7. Plan

Proofs next, in this order: `Configuration` (`PointerIsSound`, then `RuntimesAccounted`),
and the refinement of `Delivery` by `Publisher`.

Models next: the validation of evidence in `dw/defect_flow.py`, the transport to a
verification node (`dw/verification_worker.py`), manual rounds of schedules.
