------------------------------ MODULE Publisher ------------------------------
(***************************************************************************)
(* publisher.py, the single-repository path of Publisher.publish and       *)
(* Publisher.retry_comment: commit, push, pull request, ONES comment, each *)
(* effect followed by a durable fact in the run store.  A failure before   *)
(* the comment leaves the run in PUBLISHING and raises; a failed comment   *)
(* moves it to PARTIAL_SUCCESS, from where only the comment is retried.    *)
(*                                                                         *)
(* Unlike the group path, resuming from PUBLISHING goes straight to the    *)
(* first missing fact: approval evidence is rebuilt only on the way in,    *)
(* and the base branch is read again only before the commit is made.       *)
(***************************************************************************)
EXTENDS Naturals

CONSTANTS Draft,     \* the approval defers verification to a Draft PR
          Procs,     \* processes that may call publish for the run
          NoProc,    \* the lock is free
          Outside,   \* "base", "branch", "merge", "close", "ready": who else acts
          MaxPRs     \* bound: a request is closed unmerged fewer times than this

ASSUME PublisherAssumption ==
    /\ Draft \in BOOLEAN
    /\ NoProc \notin Procs
    /\ Outside \subseteq {"base", "branch", "merge", "close", "ready"}
    /\ MaxPRs \in Nat

VARIABLES
    \* The persisted WorkflowRun, as far as publication is concerned.
    state,       \* run.state
    facts,       \* publication fields that are set: intent, commit, push, pr, comment
    error,       \* publication.error is set
    \* The outside world.
    head,        \* the worktree HEAD is the approved commit
    branch,      \* what the remote work branch points to
    sent,        \* history: the approved commit was pushed
    prs,         \* pull requests ever opened with the run's marker
    prState,     \* the latest of them
    closed,      \* how many of them were closed unmerged
    comments,    \* ONES comments ever written with the run's marker
    moved,       \* the remote base left the approved commit
    \* The processes.
    pc, lock

runVars   == <<state, facts, error>>
worldVars == <<head, branch, sent, prs, prState, closed, comments, moved>>
vars      == <<runVars, worldVars, pc, lock>>

Facts     == {"intent", "commit", "push", "pr", "comment"}
Delivered == IF Draft THEN "WAITING_PR_VERIFICATION" ELSE "COMPLETED"
Resumable == {"WAITING_APPROVAL", "PUBLISHING", "PARTIAL_SUCCESS"}
RunStates == Resumable \cup {"WAITING_PR_VERIFICATION", "COMPLETED", "CANCELLED"}
Steps     == {"idle", "enter", "rebuild", "intent", "retry", "commit", "commitSave",
              "push", "pushSave", "pr", "prSave", "comment", "commentSave",
              "deliver", "partial", "partialMove"}

Init ==
    /\ state = "WAITING_APPROVAL" /\ facts = {} /\ error = FALSE
    /\ head = FALSE /\ branch = "none" /\ sent = FALSE
    /\ prs = 0 /\ prState = "none" /\ closed = 0 /\ comments = 0 /\ moved = FALSE
    /\ pc = [p \in Procs |-> "idle"] /\ lock = NoProc

Go(p, step) == pc' = [pc EXCEPT ![p] = step]

Release(p) == Go(p, "idle") /\ lock' = NoProc

\* The reply to an external call arrives, or the call raises after its effect.
Continue(p, replied, step) ==
    IF replied THEN Go(p, step) /\ UNCHANGED lock ELSE Release(p)

\* A durable write of one publication fact.
Save(p, fact, step) ==
    /\ facts' = facts \cup {fact}
    /\ Go(p, step)
    /\ UNCHANGED <<state, error, worldVars, lock>>

-----------------------------------------------------------------------------
(* Taking and releasing the run *)

EntryStep ==
    CASE state = "WAITING_APPROVAL" -> "enter"
      [] state = "PARTIAL_SUCCESS" -> "retry"
      [] state = "PUBLISHING" /\ "intent" \notin facts -> "rebuild"
      [] OTHER -> "commit"

Begin(p) ==
    /\ lock = NoProc
    /\ pc[p] = "idle"
    /\ state \in Resumable
    /\ lock' = p
    /\ Go(p, EntryStep)
    /\ UNCHANGED <<runVars, worldVars>>

(* A crash, or an exception: nothing is written and the locks are released. *)
Crash(p) ==
    /\ pc[p] # "idle"
    /\ Release(p)
    /\ UNCHANGED <<runVars, worldVars>>

(* orchestrator.cancel, under the same "orchestrate" lock.                  *)
Cancel ==
    /\ lock = NoProc
    /\ state \notin {"COMPLETED", "CANCELLED"}
    /\ state' = "CANCELLED"
    /\ UNCHANGED <<facts, error, worldVars, pc, lock>>

-----------------------------------------------------------------------------
(* Approval evidence and the publication intent *)

Enter(p) ==
    /\ pc[p] = "enter"
    /\ ~moved
    /\ state' = "PUBLISHING"
    /\ Go(p, "intent")
    /\ UNCHANGED <<facts, error, worldVars, lock>>

Rebuild(p) ==
    /\ pc[p] = "rebuild"
    /\ ~moved
    /\ Go(p, "intent")
    /\ UNCHANGED <<runVars, worldVars, lock>>

SaveIntent(p) == pc[p] = "intent" /\ ~moved /\ Save(p, "intent", "commit")

-----------------------------------------------------------------------------
(* Commit, push and pull request *)

\* A fact persisted by an earlier attempt is not established again.
Skip(p) ==
    /\ \/ pc[p] = "commit" /\ "commit" \in facts /\ Go(p, "push")
       \/ pc[p] = "push" /\ "push" \in facts /\ Go(p, "pr")
       \/ pc[p] = "pr" /\ "pr" \in facts /\ Go(p, "comment")
       \/ pc[p] = "comment" /\ "comment" \in facts /\ Go(p, "deliver")
    /\ UNCHANGED <<runVars, worldVars, lock>>

(* find_approved_commit, else commit_approved, which re-reads the base.     *)
Commit(p, replied) ==
    /\ pc[p] = "commit" /\ "commit" \notin facts
    /\ head \/ ~moved
    /\ head' = TRUE
    /\ Continue(p, replied, "commitSave")
    /\ UNCHANGED <<runVars, branch, sent, prs, prState, closed, comments, moved>>

SaveCommit(p) == pc[p] = "commitSave" /\ Save(p, "commit", "push")

(* remote_branch_oid, push_approved unless it is there, remote_branch_oid.  *)
Push(p, replied) ==
    /\ pc[p] = "push" /\ "push" \notin facts
    /\ branch \in {"none", "approved"}
    /\ branch' = "approved"
    /\ sent' = TRUE
    /\ Continue(p, replied, "pushSave")
    /\ UNCHANGED <<runVars, head, prs, prState, closed, comments, moved>>

SavePush(p) == pc[p] = "pushSave" /\ Save(p, "push", "pr")

(* find looks for an open request; a Draft must be one, at the approved head. *)
FindPR(p) ==
    /\ pc[p] = "pr" /\ "pr" \notin facts
    /\ prState = "open" \/ (prState = "ready" /\ ~Draft)
    /\ Draft => branch = "approved"
    /\ Go(p, "prSave")
    /\ UNCHANGED <<runVars, worldVars, lock>>

\* Mistake: a request is created without looking for an open one.
CreatePRBlindly(p, replied) ==
    /\ pc[p] = "pr" /\ "pr" \notin facts
    /\ IF Draft THEN branch = "approved" ELSE branch # "none"
    /\ prs' = prs + 1
    /\ prState' = "open"
    /\ Continue(p, replied, "prSave")
    /\ UNCHANGED <<runVars, head, branch, sent, closed, comments, moved>>

CreatePR(p, replied) ==
    /\ pc[p] = "pr" /\ "pr" \notin facts
    /\ prState \in {"none", "closed"}
    /\ IF Draft THEN branch = "approved" ELSE branch # "none"
    /\ prs' = prs + 1
    /\ prState' = "open"
    /\ Continue(p, replied, "prSave")
    /\ UNCHANGED <<runVars, head, branch, sent, closed, comments, moved>>

SavePR(p) == pc[p] = "prSave" /\ Save(p, "pr", "comment")

-----------------------------------------------------------------------------
(* The comment and the outcome *)

\* Mistake: the comment is retried only while the base has not moved.
RetryChecked(p) ==
    /\ pc[p] = "retry"
    /\ ~moved
    /\ state' = "PUBLISHING"
    /\ Go(p, "comment")
    /\ UNCHANGED <<facts, error, worldVars, lock>>

(* retry_comment goes from PARTIAL_SUCCESS straight to the comment.         *)
Retry(p) ==
    /\ pc[p] = "retry"
    /\ state' = "PUBLISHING"
    /\ Go(p, "comment")
    /\ UNCHANGED <<facts, error, worldVars, lock>>

(* ensure_comment_locked: the marker is looked up before and after adding.  *)
Comment(p, replied) ==
    /\ pc[p] = "comment" /\ "comment" \notin facts
    /\ comments' = IF comments = 0 THEN 1 ELSE comments
    /\ Go(p, IF replied THEN "commentSave" ELSE "partial")
    /\ UNCHANGED <<runVars, head, branch, sent, prs, prState, closed, moved, lock>>

CommentFails(p) ==
    /\ pc[p] = "comment" /\ "comment" \notin facts
    /\ Go(p, "partial")
    /\ UNCHANGED <<runVars, worldVars, lock>>

SaveComment(p) ==
    /\ pc[p] = "commentSave"
    /\ facts' = facts \cup {"comment"}
    /\ error' = FALSE
    /\ Go(p, "deliver")
    /\ UNCHANGED <<state, worldVars, lock>>

Deliver(p) ==
    /\ pc[p] = "deliver"
    /\ facts = Facts /\ ~error
    /\ state' = Delivered
    /\ Release(p)
    /\ UNCHANGED <<facts, error, worldVars>>

SavePartial(p) ==
    /\ pc[p] = "partial"
    /\ error' = TRUE
    /\ Go(p, "partialMove")
    /\ UNCHANGED <<state, facts, worldVars, lock>>

MovePartial(p) ==
    /\ pc[p] = "partialMove"
    /\ facts = Facts \ {"comment"} /\ error
    /\ state' = "PARTIAL_SUCCESS"
    /\ Release(p)
    /\ UNCHANGED <<facts, error, worldVars>>

-----------------------------------------------------------------------------
(* Everyone else *)

World ==
    /\ \/ /\ "base" \in Outside
          /\ moved' = TRUE
          /\ UNCHANGED <<branch, prState, closed>>
       \/ /\ "branch" \in Outside
          /\ branch' \in {"none", "other"}
          /\ UNCHANGED <<moved, prState, closed>>
       \/ /\ "merge" \in Outside
          /\ prState = "ready" \/ (prState = "open" /\ ~Draft)
          /\ prState' = "merged"
          /\ moved' = TRUE
          /\ UNCHANGED <<branch, closed>>
       \/ /\ "close" \in Outside
          /\ prState \in {"open", "ready"}
          /\ prs < MaxPRs
          /\ prState' = "closed"
          /\ closed' = closed + 1
          /\ UNCHANGED <<branch, moved>>
       \/ /\ "ready" \in Outside
          /\ prState = "open"
          /\ prState' = "ready"
          /\ UNCHANGED <<moved, branch, closed>>
    /\ UNCHANGED <<runVars, head, sent, prs, comments, pc, lock>>

-----------------------------------------------------------------------------
Progress(p) ==
    \/ Enter(p) \/ Rebuild(p) \/ SaveIntent(p) \/ Skip(p)
    \/ Commit(p, TRUE) \/ SaveCommit(p) \/ Push(p, TRUE) \/ SavePush(p)
    \/ FindPR(p) \/ CreatePR(p, TRUE) \/ SavePR(p)
    \/ Retry(p) \/ Comment(p, TRUE) \/ SaveComment(p) \/ Deliver(p)
    \/ SavePartial(p) \/ MovePartial(p)

Setback(p) ==
    \/ Crash(p) \/ CommentFails(p)
    \/ Commit(p, FALSE) \/ Push(p, FALSE) \/ CreatePR(p, FALSE) \/ Comment(p, FALSE)

Next ==
    \/ \E p \in Procs : Begin(p) \/ Progress(p) \/ Setback(p)
    \/ Cancel
    \/ World

Spec == Init /\ [][Next]_vars

(* An unfinished run is resumed again and again, a running call goes on, and *)
(* in the end nothing crashes and no call fails or loses its reply.          *)
Advance == \E p \in Procs : Begin(p) \/ Progress(p)
FairSpec == Spec /\ WF_vars(Advance) /\ <>[][Advance \/ Cancel \/ World]_vars

-----------------------------------------------------------------------------
(* Properties *)

\* The single-repository publication implements Delivery.
Target == INSTANCE Delivery
            WITH Changed <- {"repo"}, Rank <- [r \in {"repo"} |-> 0],
                 committed <- IF head THEN {"repo"} ELSE {},
                 pushed <- IF sent THEN {"repo"} ELSE {},
                 opened <- [r \in {"repo"} |-> prs],
                 closed <- [r \in {"repo"} |-> closed],
                 commented <- comments,
                 outcome <- IF state = Delivered THEN "delivered"
                            ELSE IF state = "CANCELLED" THEN "cancelled"
                            ELSE "pending"
Implements == Target!Spec

\* Once the request is persisted, nothing that happens to the base, the branch
\* or the request keeps the comment from being retried and the run from being
\* delivered, unless it is cancelled (retry_comment reads nothing but the run).
Finished == state \in {Delivered, "CANCELLED"}
CommentIsRetried == "pr" \in facts ~> Finished
=============================================================================
