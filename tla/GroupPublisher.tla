--------------------------- MODULE GroupPublisher ---------------------------
(***************************************************************************)
(* publisher.py, the repository-group path of Publisher.publish: one       *)
(* approved run whose changed repositories are committed, pushed and       *)
(* opened as pull requests one after the other, and then reported in one   *)
(* ONES comment.  Several processes (CLI, TUI, scheduler) may call it for  *)
(* the same run; the "orchestrate" and "publish" operation locks serialise *)
(* them.  A process may crash, or a call may fail with or without its      *)
(* effect, at every step; whoever publishes next continues from the facts  *)
(* the run store persisted.                                                *)
(*                                                                         *)
(* One action is one durable write of the run store or one external        *)
(* effect, together with the reads that lead to it.  What happens outside  *)
(* the program is limited to the kinds of event listed in Outside.         *)
(***************************************************************************)
EXTENDS Naturals, FiniteSets

CONSTANTS Repos,     \* repositories of the group
          Changed,   \* those whose approved snapshot has changed files
          Rank,      \* their topological order: dependencies come first
          Draft,     \* the approval defers verification to Draft PRs
          Procs,     \* processes that may call publish for the run
          NoProc,    \* the lock is free
          Outside,   \* "base", "branch", "merge", "close", "ready": who else acts
          MaxPRs     \* bound: a request is closed unmerged fewer times than this

ASSUME GroupAssumption ==
    /\ Changed \subseteq Repos
    /\ Changed # {}
    /\ IsFiniteSet(Changed)
    /\ Rank \in [Changed -> Nat]
    /\ \A r, s \in Changed : Rank[r] = Rank[s] => r = s
    /\ Draft \in BOOLEAN
    /\ NoProc \notin Procs
    /\ Outside \subseteq {"base", "branch", "merge", "close", "ready"}
    /\ MaxPRs \in Nat

VARIABLES
    \* The persisted WorkflowRun, as far as publication is concerned.
    state,       \* run.state
    intent,      \* group_publication is not None
    commit,      \* repositories with a persisted commit_hash
    push,        \* ... with a persisted push_completed_at
    pr,          \* ... with a persisted pr_url
    itemError,   \* ... with a persisted error
    comment,     \* group_publication.comment_id is set
    error,       \* group_publication.error is set
    \* The outside world.
    head,        \* repositories whose worktree HEAD is the approved commit
    branch,      \* what the remote work branch points to
    sent,        \* history: repositories whose approved commit was ever pushed
    prs,         \* pull requests ever opened with the run's marker
    prState,     \* the latest of them
    closed,      \* how many of them were closed unmerged
    comments,    \* ONES comments ever written with the run's marker
    moved,       \* repositories whose remote base left the approved commit
    \* The processes.
    pc, lock,
    culprit,     \* active_key of the failing attempt, as a set of at most one
    stale        \* history: a base had moved when the running attempt began

runVars   == <<state, intent, commit, push, pr, itemError, comment, error>>
worldVars == <<head, branch, sent, prs, prState, closed, comments, moved>>
procVars  == <<pc, lock, culprit, stale>>
vars      == <<runVars, worldVars, procVars>>

Delivered  == IF Draft THEN "WAITING_PR_VERIFICATION" ELSE "COMPLETED"
RunStates  == {"WAITING_APPROVAL", "PUBLISHING", "PARTIAL_SUCCESS",
               "WAITING_PR_VERIFICATION", "COMPLETED", "CANCELLED"}
Guarded    == {"recover", "commit", "commitSave", "push", "pushSave",
               "pr", "prSave", "comment"}
Steps      == Guarded \cup {"idle", "enter", "retry", "rebuild", "intent",
                            "commentSave", "deliver", "partial", "partialMove"}

Init ==
    /\ state = "WAITING_APPROVAL" /\ intent = FALSE
    /\ commit = {} /\ push = {} /\ pr = {} /\ itemError = {}
    /\ comment = FALSE /\ error = FALSE
    /\ head = {} /\ branch = [r \in Changed |-> "none"] /\ sent = {}
    /\ prs = [r \in Changed |-> 0] /\ prState = [r \in Changed |-> "none"]
    /\ closed = [r \in Changed |-> 0]
    /\ comments = 0 /\ moved = {}
    /\ pc = [p \in Procs |-> "idle"] /\ lock = NoProc
    /\ culprit = {} /\ stale = FALSE

Go(p, step) == pc' = [pc EXCEPT ![p] = step]

\* The item the publication loops are at: the first one still to be done.
IsFirst(r, S) == r \in S /\ \A s \in S : Rank[r] <= Rank[s]
Pending == Changed \ (push \cap pr)

\* After the commit loop the second loop starts; after that, the comment.
AfterCommits(c) == IF c = Changed THEN IF Pending = {} THEN "comment" ELSE "push" ELSE "commit"
AfterRemote(u, o) == IF u \cap o = Changed THEN "comment" ELSE "push"

-----------------------------------------------------------------------------
(* Taking and releasing the run *)

(* approve or resume, then publish: the lock, the reload and the dispatch.  *)
EntryStep ==
    CASE state = "WAITING_APPROVAL" -> "enter"
      [] state = "PARTIAL_SUCCESS" -> "retry"
      [] state = "PUBLISHING" /\ ~intent -> "rebuild"
      [] OTHER -> "recover"

\* Mistake: the state is not looked at again under the lock.
BeginAnyState(p) ==
    /\ lock = NoProc
    /\ pc[p] = "idle"
    /\ lock' = p
    /\ Go(p, EntryStep)
    /\ stale' = (moved # {})
    /\ UNCHANGED <<runVars, worldVars, culprit>>

Begin(p) ==
    /\ lock = NoProc
    /\ pc[p] = "idle"
    /\ state \in {"WAITING_APPROVAL", "PUBLISHING", "PARTIAL_SUCCESS"}
    /\ lock' = p
    /\ Go(p, EntryStep)
    /\ stale' = (moved # {})
    /\ UNCHANGED <<runVars, worldVars, culprit>>

\* An external effect is confirmed, or it took place and looks like a failure.
Continue(p, replied, step, item) ==
    \/ replied /\ Go(p, step) /\ UNCHANGED culprit
    \/ ~replied /\ Go(p, "partial") /\ culprit' = item

Release(p) == Go(p, "idle") /\ lock' = NoProc /\ culprit' = {} /\ stale' = FALSE

(* A crash, or a failure no handler in publish turns into a persisted       *)
(* outcome: the operating system releases the locks, nothing is written.    *)
Crash(p) ==
    /\ pc[p] # "idle"
    /\ Release(p)
    /\ UNCHANGED <<runVars, worldVars>>

(* orchestrator.cancel, under the same "orchestrate" lock.                  *)
Cancel ==
    /\ lock = NoProc
    /\ state \notin {"COMPLETED", "CANCELLED"}
    /\ state' = "CANCELLED"
    /\ UNCHANGED <<intent, commit, push, pr, itemError, comment, error,
                   worldVars, procVars>>

-----------------------------------------------------------------------------
(* Approval evidence and the publication intent *)

\* Mistake: the persisted approval is taken as it is.
EvidenceAssumed == TRUE

(* _rebuild_approved_package succeeds: every base of the group, changed or  *)
(* not, is still the approved one.  Nobody else writes to the worktrees.    *)
EvidenceCurrent == moved = {}

Enter(p) ==
    /\ pc[p] = "enter"
    /\ EvidenceCurrent
    /\ state' = "PUBLISHING"
    /\ Go(p, "intent")
    /\ UNCHANGED <<intent, commit, push, pr, itemError, comment, error,
                   worldVars, lock, culprit, stale>>

Rebuild(p) ==
    /\ pc[p] = "rebuild"
    /\ EvidenceCurrent
    /\ Go(p, "intent")
    /\ UNCHANGED <<runVars, worldVars, lock, culprit, stale>>

(* _save_group_intent: prepare_commit_intent re-reads the base of every     *)
(* changed repository before the intent is persisted.                       *)
SaveIntent(p) ==
    /\ pc[p] = "intent"
    /\ moved \cap Changed = {}
    /\ intent' = TRUE
    /\ Go(p, "commit")
    /\ UNCHANGED <<state, commit, push, pr, itemError, comment, error,
                   worldVars, lock, culprit, stale>>

Retry(p) ==
    /\ pc[p] = "retry"
    /\ state' = "PUBLISHING"
    /\ Go(p, "recover")
    /\ UNCHANGED <<intent, commit, push, pr, itemError, comment, error,
                   worldVars, lock, culprit, stale>>

(* pr_client.find: an open request of the run; a Draft must still be one.   *)
Found(r) == prState[r] = "open" \/ (prState[r] = "ready" /\ ~Draft)

(* _reconcile_group_facts: the persisted facts still hold outside.          *)
FactsHold ==
    /\ commit \subseteq head
    /\ \A r \in push : branch[r] = "approved"
    /\ \A r \in pr : Found(r)

Recover(p) ==
    /\ pc[p] = "recover"
    /\ EvidenceCurrent
    /\ FactsHold
    /\ Go(p, AfterCommits(commit))
    /\ UNCHANGED <<runVars, worldVars, lock, culprit, stale>>

-----------------------------------------------------------------------------
(* The commit loop *)

(* find_approved_commit, else commit_approved, which re-reads the base.     *)
MayCommit(r) == r \in head \/ r \notin moved

Commit(p, r, replied) ==
    /\ pc[p] = "commit"
    /\ IsFirst(r, Changed \ commit)
    /\ MayCommit(r)
    /\ head' = head \cup {r}
    /\ Continue(p, replied, "commitSave", {r})
    /\ UNCHANGED <<runVars, branch, sent, prs, prState, closed, comments, moved, lock, stale>>

(* _save_group_repository_fact clears the item's and the group's error.     *)
SaveCommit(p, r) ==
    /\ pc[p] = "commitSave"
    /\ IsFirst(r, Changed \ commit)
    /\ commit' = commit \cup {r}
    /\ itemError' = itemError \ {r}
    /\ error' = FALSE
    /\ Go(p, AfterCommits(commit'))
    /\ UNCHANGED <<state, intent, push, pr, comment, worldVars, lock, culprit, stale>>

-----------------------------------------------------------------------------
(* The push and pull-request loop: _ensure_group_remote *)

(* Every base of the group is read again immediately before each push.  The *)
(* reply may be lost after the push, or the confirming read may fail.       *)
MayPush(r) == moved = {} /\ branch[r] \in {"none", "approved"}

\* Mistake: a failed push is recorded like a confirmed one.
PushUnchecked(p, r, replied) ==
    /\ pc[p] = "push"
    /\ IsFirst(r, Pending)
    /\ r \notin push
    /\ MayPush(r)
    /\ branch' = IF replied THEN [branch EXCEPT ![r] = "approved"] ELSE branch
    /\ sent' = IF replied THEN sent \cup {r} ELSE sent
    /\ Go(p, "pushSave")
    /\ UNCHANGED <<runVars, head, prs, prState, closed, comments, moved, lock, culprit, stale>>

Push(p, r, replied) ==
    /\ pc[p] = "push"
    /\ IsFirst(r, Pending)
    /\ r \notin push
    /\ MayPush(r)
    /\ branch' = [branch EXCEPT ![r] = "approved"]
    /\ sent' = sent \cup {r}
    /\ Continue(p, replied, "pushSave", {r})
    /\ UNCHANGED <<runVars, head, prs, prState, closed, comments, moved, lock, stale>>

SavePush(p, r) ==
    /\ pc[p] = "pushSave"
    /\ IsFirst(r, Pending)
    /\ push' = push \cup {r}
    /\ itemError' = itemError \ {r}
    /\ error' = FALSE
    /\ Go(p, "pr")
    /\ UNCHANGED <<state, intent, commit, pr, comment, worldVars, lock, culprit, stale>>

(* A push persisted by an earlier attempt leads straight to the request.    *)
SkipPush(p, r) ==
    /\ pc[p] = "push"
    /\ IsFirst(r, Pending)
    /\ r \in push
    /\ Go(p, "pr")
    /\ UNCHANGED <<runVars, worldVars, lock, culprit, stale>>

(* A Draft is only requested at the approved commit, with its pending check; *)
(* otherwise any branch will do.  A merged branch has nothing to request.    *)
MayFind(r) == (Draft => branch[r] = "approved") /\ Found(r)

MayCreate(r) ==
    /\ prState[r] \in {"none", "closed"}
    /\ IF Draft THEN branch[r] = "approved" ELSE branch[r] # "none"

FindPR(p, r) ==
    /\ pc[p] = "pr"
    /\ IsFirst(r, Pending)
    /\ MayFind(r)
    /\ Go(p, "prSave")
    /\ UNCHANGED <<runVars, worldVars, lock, culprit, stale>>

(* find saw no open request; create opens one, and its reply may be lost    *)
(* and not recovered by the second find.                                    *)
CreatePR(p, r, replied) ==
    /\ pc[p] = "pr"
    /\ IsFirst(r, Pending)
    /\ MayCreate(r)
    /\ prs' = [prs EXCEPT ![r] = @ + 1]
    /\ prState' = [prState EXCEPT ![r] = "open"]
    /\ Continue(p, replied, "prSave", {r})
    /\ UNCHANGED <<runVars, head, branch, sent, closed, comments, moved, lock, stale>>

\* Mistake: the error of an earlier attempt stays with the repository.
SavePRKeepsError(p, r) ==
    /\ pc[p] = "prSave"
    /\ IsFirst(r, Pending)
    /\ pr' = pr \cup {r}
    /\ error' = FALSE
    /\ Go(p, AfterRemote(push, pr'))
    /\ UNCHANGED <<state, intent, commit, push, itemError, comment, worldVars, lock,
                   culprit, stale>>

SavePR(p, r) ==
    /\ pc[p] = "prSave"
    /\ IsFirst(r, Pending)
    /\ pr' = pr \cup {r}
    /\ itemError' = itemError \ {r}
    /\ error' = FALSE
    /\ Go(p, AfterRemote(push, pr'))
    /\ UNCHANGED <<state, intent, commit, push, comment, worldVars, lock, culprit, stale>>

-----------------------------------------------------------------------------
(* The comment and the outcome: _ensure_group_comment, _group_partial *)

(* A comment persisted by an earlier attempt only leaves the transition.    *)
SkipComment(p) ==
    /\ pc[p] = "comment"
    /\ comment
    /\ Go(p, "deliver")
    /\ UNCHANGED <<runVars, worldVars, lock, culprit, stale>>

(* ensure_comment_locked: the marker is looked up before and after adding.  *)
Comment(p, replied) ==
    /\ pc[p] = "comment"
    /\ ~comment
    /\ comments' = IF comments = 0 THEN 1 ELSE comments
    /\ Continue(p, replied, "commentSave", {})
    /\ UNCHANGED <<runVars, head, branch, sent, prs, prState, closed, moved, lock, stale>>

SaveComment(p) ==
    /\ pc[p] = "commentSave"
    /\ comment' = TRUE
    /\ error' = FALSE
    /\ Go(p, "deliver")
    /\ UNCHANGED <<state, intent, commit, push, pr, itemError, worldVars, lock,
                   culprit, stale>>

(* What the run store demands of a delivered and of a partial group.        *)
CompleteFacts ==
    /\ commit = Changed /\ push = Changed /\ pr = Changed
    /\ itemError = {} /\ comment /\ ~error
PartialFacts == ~comment /\ error

Deliver(p) ==
    /\ pc[p] = "deliver"
    /\ CompleteFacts
    /\ state' = Delivered
    /\ Release(p)
    /\ UNCHANGED <<intent, commit, push, pr, itemError, comment, error, worldVars>>

(* What makes a step fail each time it is tried.                             *)
Impeded(p) ==
    \/ pc[p] = "recover" /\ ~(EvidenceCurrent /\ FactsHold)
    \/ \E r \in Changed \ commit :
          pc[p] = "commit" /\ IsFirst(r, Changed \ commit) /\ ~MayCommit(r)
    \/ \E r \in Pending : IsFirst(r, Pending) /\
          \/ pc[p] = "push" /\ r \notin push /\ ~MayPush(r)
          \/ pc[p] = "pr" /\ ~MayFind(r) /\ ~MayCreate(r)

(* An exception before the intent, or a rejected transition, ends the call.  *)
Refuse(p) ==
    /\ \/ pc[p] \in {"enter", "rebuild"} /\ ~EvidenceCurrent
       \/ pc[p] = "intent" /\ moved \cap Changed # {}
       \/ pc[p] = "deliver" /\ ~CompleteFacts
       \/ pc[p] = "partialMove" /\ ~PartialFacts
    /\ Release(p)
    /\ UNCHANGED <<runVars, worldVars>>

(* Any exception inside the try block, and any failed comment: _group_partial *)
(* reloads the run, saves the error and then moves to PARTIAL_SUCCESS.        *)
Fail(p) ==
    /\ pc[p] \in Guarded
    /\ pc[p] = "comment" => ~comment
    /\ Go(p, "partial")
    /\ culprit' \in
         CASE pc[p] \in {"commit", "commitSave"} -> {{r} : r \in {x \in Changed : IsFirst(x, Changed \ commit)}}
           [] pc[p] \in {"push", "pushSave", "pr", "prSave"} -> {{r} : r \in {x \in Changed : IsFirst(x, Pending)}}
           [] OTHER -> {{}}
    /\ UNCHANGED <<runVars, worldVars, lock, stale>>

SavePartial(p) ==
    /\ pc[p] = "partial"
    /\ error' = TRUE
    /\ itemError' = itemError \cup culprit
    /\ Go(p, "partialMove")
    /\ UNCHANGED <<state, intent, commit, push, pr, comment, worldVars, lock,
                   culprit, stale>>

MovePartial(p) ==
    /\ pc[p] = "partialMove"
    /\ PartialFacts
    /\ state' = "PARTIAL_SUCCESS"
    /\ Release(p)
    /\ UNCHANGED <<intent, commit, push, pr, itemError, comment, error, worldVars>>

-----------------------------------------------------------------------------
(* Everyone else: reviewers, other developers, the hosting service *)

MoveBase(r) ==
    /\ "base" \in Outside
    /\ moved' = moved \cup {r}
    /\ UNCHANGED <<runVars, head, branch, sent, prs, prState, closed, comments, procVars>>

RepointBranch(r) ==
    /\ "branch" \in Outside
    /\ \E to \in {"none", "other"} : branch' = [branch EXCEPT ![r] = to]
    /\ UNCHANGED <<runVars, head, sent, prs, prState, closed, comments, moved, procVars>>

\* Merging a request, never one that is still a Draft, moves the base it targets.
MergePR(r) ==
    /\ "merge" \in Outside
    /\ prState[r] = "ready" \/ (prState[r] = "open" /\ ~Draft)
    /\ prState' = [prState EXCEPT ![r] = "merged"]
    /\ moved' = moved \cup {r}
    /\ UNCHANGED <<runVars, head, branch, sent, prs, closed, comments, procVars>>

ClosePR(r) ==
    /\ "close" \in Outside
    /\ prState[r] \in {"open", "ready"}
    /\ prs[r] < MaxPRs
    /\ prState' = [prState EXCEPT ![r] = "closed"]
    /\ closed' = [closed EXCEPT ![r] = @ + 1]
    /\ UNCHANGED <<runVars, head, branch, sent, prs, comments, moved, procVars>>

MarkReady(r) ==
    /\ "ready" \in Outside
    /\ prState[r] = "open"
    /\ prState' = [prState EXCEPT ![r] = "ready"]
    /\ UNCHANGED <<runVars, head, branch, sent, prs, closed, comments, moved, procVars>>

-----------------------------------------------------------------------------
(* One successful step of a publishing process, and the steps in which the  *)
(* effect happened but the process took it for a failure.                   *)
Progress(p, r) ==
    \/ Enter(p) \/ Rebuild(p) \/ SaveIntent(p) \/ Retry(p) \/ Recover(p)
    \/ Commit(p, r, TRUE) \/ SaveCommit(p, r)
    \/ Push(p, r, TRUE) \/ SavePush(p, r) \/ SkipPush(p, r)
    \/ FindPR(p, r) \/ CreatePR(p, r, TRUE) \/ SavePR(p, r)
    \/ SkipComment(p) \/ Comment(p, TRUE) \/ SaveComment(p) \/ Deliver(p)
    \/ SavePartial(p) \/ MovePartial(p)

LostReply(p, r) ==
    \/ Commit(p, r, FALSE) \/ Push(p, r, FALSE)
    \/ CreatePR(p, r, FALSE) \/ Comment(p, FALSE)

World ==
    \/ \E r \in Repos : MoveBase(r)
    \/ \E r \in Changed :
          RepointBranch(r) \/ MergePR(r) \/ ClosePR(r) \/ MarkReady(r)

Next ==
    \/ \E p \in Procs :
          \/ Begin(p) \/ Refuse(p) \/ Fail(p) \/ Crash(p)
          \/ \E r \in Changed : Progress(p, r) \/ LostReply(p, r)
    \/ Cancel
    \/ World

Spec == Init /\ [][Next]_vars

(* An unfinished run is resumed again and again, a running call goes on, and *)
(* in the end nothing crashes, no reply is lost and only impeded steps fail. *)
Advance ==
    \E p \in Procs :
       \/ Begin(p) \/ Refuse(p)
       \/ Impeded(p) /\ Fail(p)
       \/ \E r \in Changed : Progress(p, r)

Calm == Advance \/ Cancel \/ World

FairSpec == Spec /\ WF_vars(Advance) /\ <>[][Calm]_vars

-----------------------------------------------------------------------------
(* Properties *)

\* Every variable holds a value of its type.
TypeOK ==
    /\ state \in RunStates /\ intent \in BOOLEAN
    /\ commit \subseteq Changed /\ push \subseteq Changed /\ pr \subseteq Changed
    /\ itemError \subseteq Changed /\ comment \in BOOLEAN /\ error \in BOOLEAN
    /\ head \subseteq Changed /\ sent \subseteq Changed /\ moved \subseteq Repos
    /\ branch \in [Changed -> {"none", "approved", "other"}]
    /\ prs \in [Changed -> Nat] /\ comments \in {0, 1}
    /\ prState \in [Changed -> {"none", "open", "ready", "merged", "closed"}]
    /\ closed \in [Changed -> Nat]
    /\ pc \in [Procs -> Steps] /\ lock \in Procs \cup {NoProc}
    /\ culprit \subseteq Changed /\ stale \in BOOLEAN

\* Whatever crashes, failures and lost replies a run went through, the run gets
\* at most one comment and each of its repositories one pull request, or one
\* more for each that reviewers closed unmerged: _ensure_group_remote finds an
\* open request before it creates one, ensure_comment_locked a comment.
ExactlyOnce ==
    /\ \A r \in Changed : prs[r] <= closed[r] + 1
    /\ comments <= 1

\* What the run store says has been done has been done: nothing is persisted
\* ahead of the effect it stands for (_save_group_repository_fact and the save
\* in _ensure_group_comment come after the call they record).
FactsAreTrue ==
    /\ commit \subseteq head
    /\ push \subseteq sent
    /\ \A r \in pr : prs[r] > 0
    /\ comment => comments = 1
    /\ state = Delivered => /\ head = Changed /\ sent = Changed
                            /\ comments = 1 /\ \A r \in Changed : prs[r] > 0

\* The effects happen in the promised order across crashes: no push before
\* every repository is committed, no push or request of a repository before
\* those it depends on have theirs, no comment before the last request.
EffectsInOrder ==
    /\ sent # {} => commit = Changed
    /\ \A r \in sent, s \in Changed : Rank[s] < Rank[r] => s \in pr
    /\ \A r \in Changed : prs[r] > 0 => r \in push
    /\ comments > 0 => pr = Changed

\* At most one process is inside approve/resume/publish for the run, and it is
\* the one that holds the operation locks.
OneWriter == \A p \in Procs : pc[p] # "idle" => lock = p

\* An attempt that starts after a base of the group has moved away from the
\* approved commit has no external effect at all (_rebuild_approved_package in
\* every way into a group publication).
NoEffectWhenStale == [][stale => UNCHANGED <<head, sent, prs, comments>>]_vars

\* The group publication implements Delivery: failures, retries, crashes and
\* competing processes only add stuttering to one orderly delivery.
Target == INSTANCE Delivery
            WITH committed <- head, pushed <- sent,
                 opened <- prs, closed <- closed,
                 commented <- comments,
                 outcome <- IF state = Delivered THEN "delivered"
                            ELSE IF state = "CANCELLED" THEN "cancelled"
                            ELSE "pending"
Implements == Target!Spec

\* Nobody but the workflow touches the branches and requests of the group.
LeftAlone ==
    /\ moved = {} /\ \A r \in Changed : closed[r] = 0
    /\ \A r \in Changed : branch[r] = IF r \in sent THEN "approved" ELSE "none"
    /\ Draft => \A r \in Changed : prState[r] # "ready"

\* A publication that is left alone and resumed often enough finishes, unless
\* it is cancelled, as long as no attempt fails in the one window that leaves
\* a saved comment and an error side by side: the store refuses such a run in
\* every further state.
Finished == state \in {Delivered, "CANCELLED"}
Publishes == []LeftAlone /\ []~(comment /\ error) => <>Finished
=============================================================================
