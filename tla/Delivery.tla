------------------------------ MODULE Delivery ------------------------------
(***************************************************************************)
(* What publishing one approved run promises to the outside world, with    *)
(* no persistence, locks, retries or failures in it: every changed         *)
(* repository gets one commit, one push and one pull request, in           *)
(* topological order; every commit exists before the first push; one ONES  *)
(* comment is written after the last pull request; only then is the run    *)
(* reported delivered.  A run may be cancelled at any point before that,   *)
(* a delivered Draft hand-off even afterwards, and nothing is written for  *)
(* a run once it was delivered or cancelled.                               *)
(*                                                                         *)
(* Reviewers may close a request unmerged.  Another one is opened in its   *)
(* place only then, and never after the comment.                           *)
(*                                                                         *)
(* Publisher and GroupPublisher are shown to implement this module.        *)
(***************************************************************************)
EXTENDS Naturals

CONSTANTS Changed,   \* the repositories of the run that have changed files
          Rank,      \* their position in the topological order of the group
          Draft      \* delivery is a Draft hand-off that can still be cancelled

VARIABLES committed,   \* repositories whose approved commit exists locally
          pushed,      \* repositories whose approved commit reached the remote
          opened,      \* per repository, the pull requests ever opened for the run
          closed,      \* how many of them reviewers closed unmerged
          commented,   \* number of ONES comments ever written for the run
          outcome      \* "pending", "delivered" or "cancelled"

deliveryVars == <<committed, pushed, opened, closed, commented, outcome>>

Earlier(r) == {s \in Changed : Rank[s] < Rank[r]}

Init ==
    /\ committed = {}
    /\ pushed = {}
    /\ opened = [r \in Changed |-> 0]
    /\ closed = [r \in Changed |-> 0]
    /\ commented = 0
    /\ outcome = "pending"

CommitOne(r) ==
    /\ outcome = "pending"
    /\ r \notin committed
    /\ Earlier(r) \subseteq committed
    /\ pushed = {}
    /\ committed' = committed \cup {r}
    /\ UNCHANGED <<pushed, opened, closed, commented, outcome>>

PushOne(r) ==
    /\ outcome = "pending"
    /\ committed = Changed
    /\ r \notin pushed
    /\ \A s \in Earlier(r) : opened[s] > 0
    /\ pushed' = pushed \cup {r}
    /\ UNCHANGED <<committed, opened, closed, commented, outcome>>

OpenOne(r) ==
    /\ outcome = "pending"
    /\ r \in pushed
    /\ opened[r] = closed[r]
    /\ commented = 0
    /\ opened' = [opened EXCEPT ![r] = @ + 1]
    /\ UNCHANGED <<committed, pushed, closed, commented, outcome>>

\* The one step that is not the program's, and that it has to live with.
CloseOne(r) ==
    /\ closed[r] < opened[r]
    /\ closed' = [closed EXCEPT ![r] = @ + 1]
    /\ UNCHANGED <<committed, pushed, opened, commented, outcome>>

Comment ==
    /\ outcome = "pending"
    /\ \A r \in Changed : opened[r] > 0
    /\ commented = 0
    /\ commented' = 1
    /\ UNCHANGED <<committed, pushed, opened, closed, outcome>>

Report ==
    /\ outcome = "pending"
    /\ commented = 1
    /\ outcome' = "delivered"
    /\ UNCHANGED <<committed, pushed, opened, closed, commented>>

Abandon ==
    /\ outcome = "pending" \/ (Draft /\ outcome = "delivered")
    /\ outcome' = "cancelled"
    /\ UNCHANGED <<committed, pushed, opened, closed, commented>>

Next ==
    \/ \E r \in Changed : CommitOne(r) \/ PushOne(r) \/ OpenOne(r) \/ CloseOne(r)
    \/ Comment
    \/ Report
    \/ Abandon

Spec == Init /\ [][Next]_deliveryVars
=============================================================================
