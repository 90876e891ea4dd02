------------------------ MODULE GroupPublisherProofs ------------------------
(***************************************************************************)
(* Proofs about GroupPublisher, for every group of repositories, every set *)
(* of processes and every kind of interference.  The inductive invariant   *)
(* ties the position of the process that holds the locks to the persisted  *)
(* facts (StepInv); with mutual exclusion it makes the facts true and the  *)
(* effects ordered, whatever crashes, fails or loses its reply.            *)
(***************************************************************************)
EXTENDS GroupPublisher, TLAPS

Remote   == {"push", "pushSave", "pr", "prSave", "comment", "commentSave", "deliver"}
Closing  == {"comment", "commentSave", "deliver"}

\* What the process p relies on at the step it has reached.
At(p) ==
    /\ pc[p] \in Remote => commit = Changed
    /\ pc[p] \in Closing => pr = Changed
    /\ pc[p] = "commitSave" =>
          \A r \in Changed : IsFirst(r, Changed \ commit) => r \in head
    /\ pc[p] = "pushSave" => \A r \in Changed : IsFirst(r, Pending) => r \in sent
    /\ pc[p] \in {"pr", "prSave"} =>
          \A r \in Changed : IsFirst(r, Pending) => r \in push
    /\ pc[p] = "prSave" => \A r \in Changed : IsFirst(r, Pending) => prs[r] > 0
    /\ pc[p] = "commentSave" => comments = 1
    /\ pc[p] = "deliver" => comment

StepInv == \A p \in Procs : At(p)

\* A request that has a status was opened.
Linked == \A r \in Changed : prState[r] # "none" => prs[r] > 0

\* Of the requests of a repository all but the latest were closed unmerged.
OneEach ==
    \A r \in Changed :
       /\ prState[r] = "none" => prs[r] = 0
       /\ prState[r] \in {"none", "closed"} => prs[r] = closed[r]
       /\ prState[r] \notin {"none", "closed"} => prs[r] = closed[r] + 1

\* A process that started stale never gets past the approval evidence.
StaleInv ==
    stale => /\ moved # {}
             /\ \A p \in Procs : pc[p] \in {"idle", "enter", "retry", "rebuild",
                                            "recover", "partial", "partialMove"}

IInv == TypeOK /\ OneWriter /\ FactsAreTrue /\ EffectsInOrder /\ Linked /\ StepInv

-----------------------------------------------------------------------------
(* Every variable keeps its type.                                           *)
LEMMA TypeInit == Init => TypeOK
<1> SUFFICES ASSUME Init PROVE TypeOK
  OBVIOUS
<1> USE DEF Init
<1>1. /\ state \in RunStates /\ intent \in BOOLEAN /\ comment \in BOOLEAN
      /\ error \in BOOLEAN /\ stale \in BOOLEAN
  BY DEF RunStates
<1>2. /\ commit \subseteq Changed /\ push \subseteq Changed /\ pr \subseteq Changed
      /\ itemError \subseteq Changed /\ head \subseteq Changed /\ sent \subseteq Changed
      /\ moved \subseteq Repos /\ culprit \subseteq Changed
  OBVIOUS
<1>3. /\ branch \in [Changed -> {"none", "approved", "other"}]
      /\ prState \in [Changed -> {"none", "open", "ready", "merged", "closed"}]
      /\ prs \in [Changed -> Nat] /\ closed \in [Changed -> Nat] /\ comments \in {0, 1}
  OBVIOUS
<1>4. pc \in [Procs -> Steps] /\ lock \in Procs \cup {NoProc}
  BY DEF Steps
<1> QED
  BY <1>1, <1>2, <1>3, <1>4 DEF TypeOK

LEMMA TypeStep == TypeOK /\ [Next]_vars => TypeOK'
<1> SUFFICES ASSUME TypeOK, [Next]_vars PROVE TypeOK'
  OBVIOUS
<1> USE GroupAssumption DEF GroupAssumption, TypeOK, RunStates, Steps, Guarded, runVars, worldVars, procVars
<1>1. CASE UNCHANGED vars
  BY <1>1 DEF vars
<1>2. ASSUME NEW p \in Procs, Begin(p) PROVE TypeOK'
  BY <1>2 DEF Begin, Go, EntryStep
<1>3. ASSUME NEW p \in Procs, Refuse(p) \/ Crash(p) PROVE TypeOK'
  BY <1>3 DEF Refuse, Crash, Release, Go
<1>4. ASSUME NEW p \in Procs, Fail(p) PROVE TypeOK'
  <2>1. culprit' \subseteq Changed
    BY <1>4 DEF Fail, IsFirst, Pending
  <2>2. pc' \in [Procs -> Steps]
    BY <1>4 DEF Fail, Go
  <2> QED
    BY <1>4, <2>1, <2>2 DEF Fail
<1>5. ASSUME NEW p \in Procs, Enter(p) \/ Rebuild(p) \/ SaveIntent(p) \/ Retry(p) \/ SkipComment(p)
      PROVE TypeOK'
  BY <1>5 DEF Enter, Rebuild, SaveIntent, Retry, SkipComment, Go
<1>6. ASSUME NEW p \in Procs, Recover(p) PROVE TypeOK'
  BY <1>6 DEF Recover, Go, AfterCommits
<1>7. ASSUME NEW p \in Procs, NEW r \in Changed, NEW replied \in BOOLEAN, Commit(p, r, replied)
      PROVE TypeOK'
  BY <1>7 DEF Commit, Continue, Go
<1>8. ASSUME NEW p \in Procs, NEW r \in Changed, SaveCommit(p, r) PROVE TypeOK'
  BY <1>8 DEF SaveCommit, Go, AfterCommits
<1>9. ASSUME NEW p \in Procs, NEW r \in Changed, NEW replied \in BOOLEAN, Push(p, r, replied)
      PROVE TypeOK'
  BY <1>9 DEF Push, Continue, Go
<1>10. ASSUME NEW p \in Procs, NEW r \in Changed,
              SavePush(p, r) \/ SkipPush(p, r) \/ FindPR(p, r)
       PROVE TypeOK'
  BY <1>10 DEF SavePush, SkipPush, FindPR, Go
<1>11. ASSUME NEW p \in Procs, NEW r \in Changed, NEW replied \in BOOLEAN, CreatePR(p, r, replied)
       PROVE TypeOK'
  BY <1>11 DEF CreatePR, Continue, Go
<1>12. ASSUME NEW p \in Procs, NEW r \in Changed, SavePR(p, r) PROVE TypeOK'
  BY <1>12 DEF SavePR, Go, AfterRemote
<1>13. ASSUME NEW p \in Procs, NEW replied \in BOOLEAN, Comment(p, replied) PROVE TypeOK'
  BY <1>13 DEF Comment, Continue, Go
<1>14. ASSUME NEW p \in Procs, SaveComment(p) \/ SavePartial(p) PROVE TypeOK'
  BY <1>14 DEF SaveComment, SavePartial, Go
<1>15. ASSUME NEW p \in Procs, Deliver(p) \/ MovePartial(p) PROVE TypeOK'
  BY <1>15 DEF Deliver, MovePartial, Release, Go, Delivered
<1>16. CASE Cancel
  BY <1>16 DEF Cancel
<1>17. CASE World
  BY <1>17 DEF World, MoveBase, RepointBranch, MergePR, ClosePR, MarkReady
<1> QED
  BY <1>1, <1>2, <1>3, <1>4, <1>5, <1>6, <1>7, <1>8, <1>9, <1>10, <1>11, <1>12, <1>13,
     <1>14, <1>15, <1>16, <1>17 DEF Next, Progress, LostReply

\* TypeOK is an invariant of the group publication.
THEOREM TypeCorrect == Spec => []TypeOK
BY TypeInit, TypeStep, PTL DEF Spec

-----------------------------------------------------------------------------
(* Mutual exclusion.                                                        *)
LEMMA WriterStep == TypeOK /\ OneWriter /\ [Next]_vars => OneWriter'
<1> SUFFICES ASSUME TypeOK, OneWriter, [Next]_vars PROVE OneWriter'
  OBVIOUS
<1> USE DEF OneWriter, TypeOK, runVars, worldVars, procVars
<1>1. CASE UNCHANGED vars \/ Cancel \/ World
  BY <1>1 DEF vars, Cancel, World, MoveBase, RepointBranch, MergePR, ClosePR, MarkReady
<1>2. ASSUME NEW p \in Procs, Begin(p) PROVE OneWriter'
  BY <1>2, GroupAssumption DEF GroupAssumption, Begin, Go
<1>3. ASSUME NEW p \in Procs, pc[p] # "idle", NEW step, Go(p, step), UNCHANGED lock
      PROVE OneWriter'
  BY <1>3 DEF Go
<1>4. ASSUME NEW p \in Procs, pc[p] # "idle", Release(p) PROVE OneWriter'
  BY <1>4 DEF Release, Go
<1>5. ASSUME NEW p \in Procs, Refuse(p) \/ Crash(p) \/ Deliver(p) \/ MovePartial(p)
      PROVE OneWriter'
  BY <1>5, <1>4 DEF Refuse, Crash, Deliver, MovePartial
<1>6. ASSUME NEW p \in Procs,
             \/ Fail(p) \/ Enter(p) \/ Rebuild(p) \/ SaveIntent(p) \/ Retry(p) \/ Recover(p)
             \/ SkipComment(p) \/ SaveComment(p) \/ SavePartial(p)
      PROVE OneWriter'
  BY <1>6, <1>3 DEF Fail, Guarded, Enter, Rebuild, SaveIntent, Retry, Recover, SkipComment,
                    SaveComment, SavePartial
<1>7. ASSUME NEW p \in Procs, NEW r \in Changed,
             \/ SaveCommit(p, r) \/ SavePush(p, r) \/ SkipPush(p, r) \/ FindPR(p, r)
             \/ SavePR(p, r)
      PROVE OneWriter'
  BY <1>7, <1>3 DEF SaveCommit, SavePush, SkipPush, FindPR, SavePR
<1>8. ASSUME NEW p \in Procs, NEW r \in Changed, NEW replied \in BOOLEAN,
             \/ Commit(p, r, replied) \/ Push(p, r, replied) \/ CreatePR(p, r, replied)
             \/ Comment(p, replied)
      PROVE OneWriter'
  BY <1>8, <1>3 DEF Commit, Push, CreatePR, Comment, Continue
<1> QED
  BY <1>1, <1>2, <1>5, <1>6, <1>7, <1>8 DEF Next, Progress, LostReply

(* A process at work works alone.                                           *)
LEMMA OthersIdle ==
    ASSUME TypeOK, OneWriter, NEW p \in Procs, pc[p] # "idle" \/ lock = NoProc,
           NEW step, Go(p, step)
    PROVE  /\ pc'[p] = step
           /\ \A q \in Procs \ {p} : pc'[q] = "idle"
BY GroupAssumption DEF GroupAssumption, TypeOK, OneWriter, Go

-----------------------------------------------------------------------------
(* The facts are true and the effects are ordered.                          *)
Free == {"idle", "enter", "retry", "rebuild", "recover", "intent", "commit",
         "partial", "partialMove"}

LEMMA StepInvFrom ==
    ASSUME TypeOK, OneWriter, NEW p \in Procs, pc[p] # "idle" \/ lock = NoProc,
           NEW step, Go(p, step), step \in Free \/ At(p)'
    PROVE  StepInv'
<1>1. /\ pc'[p] = step
      /\ \A q \in Procs \ {p} : pc'[q] = "idle"
  BY OthersIdle
<1>2. ASSUME NEW q \in Procs, pc'[q] \in Free PROVE At(q)'
  BY <1>2 DEF Free, At, Remote, Closing
<1>3. ASSUME NEW q \in Procs PROVE At(q)'
  <2>1. CASE q = p
    BY <2>1, <1>1, <1>2
  <2>2. CASE q # p
    BY <2>2, <1>1, <1>2 DEF Free
  <2> QED
    BY <2>1, <2>2
<1> QED
  BY <1>3 DEF StepInv

(* A step that touches neither the facts nor the effects keeps their relation. *)
LEMMA QuietStep ==
    ASSUME FactsAreTrue, EffectsInOrder, Linked,
           UNCHANGED <<commit, push, pr, comment, head, sent, prs, comments>>,
           UNCHANGED state \/ state' # Delivered,
           \A r \in Changed : prState'[r] # "none" => prState[r] # "none"
    PROVE  FactsAreTrue' /\ EffectsInOrder' /\ Linked'
BY DEF FactsAreTrue, EffectsInOrder, Linked, Delivered

(* Ranks are distinct: there is only one first item.                        *)
LEMMA OneFirst ==
    ASSUME NEW S \in SUBSET Changed, NEW r, NEW s, IsFirst(r, S), IsFirst(s, S)
    PROVE  r = s
<1>1. r \in Changed /\ s \in Changed /\ Rank[r] <= Rank[s] /\ Rank[s] <= Rank[r]
  BY DEF IsFirst
<1>2. Rank[r] \in Nat /\ Rank[s] \in Nat
  BY <1>1, GroupAssumption DEF GroupAssumption
<1> QED
  BY <1>1, <1>2, GroupAssumption DEF GroupAssumption

(* Everything before the first unfinished item is finished.                 *)
LEMMA BeforeFirst ==
    ASSUME NEW r \in Changed, IsFirst(r, Pending), NEW s \in Changed, Rank[s] < Rank[r]
    PROVE  s \in push /\ s \in pr
<1>1. Rank[r] \in Nat /\ Rank[s] \in Nat
  BY GroupAssumption DEF GroupAssumption
<1>2. s \notin Pending
  BY <1>1 DEF IsFirst
<1> QED
  BY <1>2 DEF Pending

Safe == FactsAreTrue /\ EffectsInOrder /\ Linked /\ StepInv

LEMMA SafeStep == IInv /\ [Next]_vars => Safe'
<1> SUFFICES ASSUME IInv, [Next]_vars PROVE Safe'
  OBVIOUS
<1> USE DEF IInv, Safe, runVars, worldVars, procVars
<1>1. CASE UNCHANGED vars \/ Cancel \/ World
  <2>1. FactsAreTrue' /\ EffectsInOrder' /\ Linked'
    <3>1. UNCHANGED <<commit, push, pr, comment, head, sent, prs, comments>>
      BY <1>1 DEF vars, Cancel, World, MoveBase, RepointBranch, MergePR, ClosePR, MarkReady
    <3>2. UNCHANGED state \/ state' # Delivered
      BY <1>1 DEF vars, Cancel, World, MoveBase, RepointBranch, MergePR, ClosePR, MarkReady, Delivered
    <3>3. \A r \in Changed : prState'[r] # "none" => prState[r] # "none"
      BY <1>1 DEF vars, Cancel, World, MoveBase, RepointBranch, MergePR, ClosePR, MarkReady, TypeOK
    <3> QED
      BY <3>1, <3>2, <3>3, QuietStep
  <2>2. StepInv'
    BY <1>1 DEF StepInv, At, Pending, vars, Cancel, World, MoveBase, RepointBranch, MergePR,
                ClosePR, MarkReady
  <2> QED
    BY <2>1, <2>2
<1>2. ASSUME NEW p \in Procs,
             \/ Begin(p) \/ Refuse(p) \/ Crash(p) \/ Fail(p) \/ Enter(p) \/ Rebuild(p)
             \/ SaveIntent(p) \/ Retry(p) \/ SavePartial(p) \/ MovePartial(p)
      PROVE  Safe'
  <2>1. pc[p] # "idle" \/ lock = NoProc
    BY <1>2 DEF Begin, Refuse, Crash, Fail, Guarded, Enter, Rebuild, SaveIntent, Retry,
                SavePartial, MovePartial
  <2>2. PICK step \in Free : Go(p, step)
    BY <1>2 DEF Begin, EntryStep, Refuse, Crash, Release, Fail, Enter, Rebuild, SaveIntent,
                Retry, SavePartial, MovePartial, Free, Release, Go
  <2>3. StepInv'
    BY <2>1, <2>2, StepInvFrom
  <2>4. UNCHANGED <<commit, push, pr, comment, head, sent, prs, comments, prState>>
    BY <1>2 DEF Begin, Refuse, Crash, Fail, Enter, Rebuild, SaveIntent, Retry, SavePartial,
                MovePartial
  <2>5. UNCHANGED state \/ state' # Delivered
    BY <1>2 DEF Begin, Refuse, Crash, Fail, Enter, Rebuild, SaveIntent, Retry, SavePartial,
                MovePartial, Delivered
  <2> QED
    BY <2>3, <2>4, <2>5, QuietStep
<1>3. ASSUME NEW p \in Procs, Recover(p) \/ SkipComment(p) PROVE Safe'
  <2>1. FactsAreTrue' /\ EffectsInOrder' /\ Linked'
    BY <1>3, QuietStep DEF Recover, SkipComment
  <2>2. PICK step : Go(p, step) /\ pc[p] # "idle"
    BY <1>3 DEF Recover, SkipComment
  <2>3. At(p)'
    <3>1. CASE Recover(p)
      <4>1. pc'[p] = AfterCommits(commit)
        BY <3>1, OthersIdle DEF Recover
      <4>2. UNCHANGED <<commit, pr, push>>
        BY <3>1 DEF Recover
      <4> QED
        BY <4>1, <4>2 DEF AfterCommits, At, Remote, Closing, Pending, TypeOK
    <3>2. CASE SkipComment(p)
      <4>1. pc'[p] = "deliver" /\ pc[p] = "comment" /\ comment
        BY <3>2, OthersIdle DEF SkipComment
      <4>2. UNCHANGED <<commit, pr, push, comment>>
        BY <3>2 DEF SkipComment
      <4> QED
        BY <4>1, <4>2 DEF StepInv, At, Remote, Closing
    <3> QED
      BY <1>3, <3>1, <3>2
  <2> QED
    BY <2>1, <2>2, <2>3, StepInvFrom
<1>4. ASSUME NEW p \in Procs, NEW r \in Changed, NEW replied \in BOOLEAN, Commit(p, r, replied)
      PROVE  Safe'
  <2>1. FactsAreTrue' /\ EffectsInOrder' /\ Linked'
    BY <1>4 DEF Commit, FactsAreTrue, EffectsInOrder, Linked, TypeOK
  <2>2. PICK step \in {"commitSave", "partial"} : Go(p, step)
    BY <1>4 DEF Commit, Continue
  <2>3. pc[p] # "idle" /\ pc'[p] = step
    BY <1>4, <2>2, OthersIdle DEF Commit
  <2>4. \A x \in Changed : IsFirst(x, Changed \ commit) => x \in head'
    BY <1>4, OneFirst DEF Commit, TypeOK
  <2>5. At(p)'
    BY <1>4, <2>3, <2>4 DEF Commit, At, Remote, Closing, IsFirst
  <2> QED
    BY <2>1, <2>2, <2>3, <2>5, StepInvFrom
<1>5. ASSUME NEW p \in Procs, NEW r \in Changed, SaveCommit(p, r) PROVE Safe'
  <2>1. r \in head
    BY <1>5 DEF SaveCommit, StepInv, At
  <2>2. FactsAreTrue' /\ EffectsInOrder' /\ Linked'
    BY <1>5, <2>1 DEF SaveCommit, FactsAreTrue, EffectsInOrder, Linked, TypeOK
  <2>3. pc[p] # "idle" /\ pc'[p] = AfterCommits(commit') /\ Go(p, AfterCommits(commit'))
    BY <1>5, OthersIdle DEF SaveCommit
  <2>4. At(p)'
    BY <1>5, <2>3 DEF SaveCommit, AfterCommits, At, Remote, Closing, Pending, TypeOK
  <2> QED
    BY <2>2, <2>3, <2>4, StepInvFrom
<1>6. ASSUME NEW p \in Procs, NEW r \in Changed, NEW replied \in BOOLEAN, Push(p, r, replied)
      PROVE  Safe'
  <2>1. commit = Changed
    BY <1>6 DEF Push, StepInv, At, Remote
  <2>2. \A s \in Changed : Rank[s] < Rank[r] => s \in pr
    BY <1>6, BeforeFirst DEF Push
  <2>3. FactsAreTrue' /\ EffectsInOrder' /\ Linked'
    BY <1>6, <2>1, <2>2 DEF Push, FactsAreTrue, EffectsInOrder, Linked, TypeOK
  <2>4. PICK step \in {"pushSave", "partial"} : Go(p, step)
    BY <1>6 DEF Push, Continue
  <2>5. pc[p] # "idle" /\ pc'[p] = step
    BY <1>6, <2>4, OthersIdle DEF Push
  <2>6. Pending \subseteq Changed /\ Pending' = Pending
    BY <1>6 DEF Push, Pending
  <2>7. \A x \in Changed : IsFirst(x, Pending) => x \in sent'
    BY <1>6, <2>6, OneFirst DEF Push
  <2>8. At(p)'
    BY <1>6, <2>1, <2>5, <2>6, <2>7 DEF Push, At, Remote, Closing, IsFirst
  <2> QED
    BY <2>3, <2>4, <2>5, <2>8, StepInvFrom
<1>7. ASSUME NEW p \in Procs, NEW r \in Changed, SavePush(p, r) PROVE Safe'
  <2>1. r \in sent /\ commit = Changed
    BY <1>7 DEF SavePush, StepInv, At, Remote
  <2>2. FactsAreTrue' /\ EffectsInOrder' /\ Linked'
    BY <1>7, <2>1 DEF SavePush, FactsAreTrue, EffectsInOrder, Linked, TypeOK
  <2>3. pc[p] # "idle" /\ pc'[p] = "pr" /\ Go(p, "pr")
    BY <1>7, OthersIdle DEF SavePush
  <2>4. Pending' \subseteq Pending /\ Pending \subseteq Changed /\ r \in Pending
    BY <1>7 DEF SavePush, Pending, IsFirst
  <2>5. \A x \in Changed : IsFirst(x, Pending') => x \in push'
    <3> SUFFICES ASSUME NEW x \in Changed, IsFirst(x, Pending') PROVE x \in push'
      OBVIOUS
    <3>1. CASE r \in Pending'
      <4>1. IsFirst(r, Pending')
        BY <3>1, <2>4, <1>7 DEF SavePush, IsFirst
      <4>2. Pending' \in SUBSET Changed
        BY <2>4
      <4>3. x = r
        BY <4>1, <4>2, OneFirst
      <4> QED
        BY <4>3, <1>7 DEF SavePush
    <3>2. CASE r \notin Pending'
      <4>1. r \in pr
        BY <3>2, <2>4, <1>7 DEF SavePush, Pending
      <4>2. r \in push
        BY <4>1 DEF FactsAreTrue, EffectsInOrder
      <4> QED
        BY <4>1, <4>2, <2>4 DEF Pending
    <3> QED
      BY <3>1, <3>2
  <2>6. At(p)'
    BY <1>7, <2>1, <2>3, <2>5 DEF SavePush, At, Remote, Closing, IsFirst, Pending
  <2> QED
    BY <2>2, <2>3, <2>6, StepInvFrom
<1>8. ASSUME NEW p \in Procs, NEW r \in Changed, SkipPush(p, r) \/ FindPR(p, r) PROVE Safe'
  <2>1. FactsAreTrue' /\ EffectsInOrder' /\ Linked'
    BY <1>8, QuietStep DEF SkipPush, FindPR
  <2>2. commit = Changed /\ UNCHANGED <<commit, push, pr, prs>> /\ Pending' = Pending
    BY <1>8 DEF SkipPush, FindPR, StepInv, At, Remote, Pending
  <2>3. PICK step \in {"pr", "prSave"} : Go(p, step) /\ pc[p] # "idle" /\ pc'[p] = step
    BY <1>8, OthersIdle DEF SkipPush, FindPR
  <2>4. \A x \in Changed : IsFirst(x, Pending) => x = r
    BY <1>8, OneFirst DEF SkipPush, FindPR, Pending
  <2>5. r \in push
    BY <1>8 DEF SkipPush, FindPR, StepInv, At
  <2>6. pc'[p] = "prSave" => prs[r] > 0
    <3>1. CASE SkipPush(p, r)
      BY <3>1, OthersIdle DEF SkipPush
    <3>2. CASE FindPR(p, r)
      BY <3>2 DEF FindPR, MayFind, Found, Linked
    <3> QED
      BY <1>8, <3>1, <3>2
  <2>7. At(p)'
    BY <2>2, <2>3, <2>4, <2>5, <2>6 DEF At, Remote, Closing, IsFirst
  <2> QED
    BY <2>1, <2>3, <2>7, StepInvFrom
<1>9. ASSUME NEW p \in Procs, NEW r \in Changed, NEW replied \in BOOLEAN, CreatePR(p, r, replied)
      PROVE  Safe'
  <2>1. r \in push /\ commit = Changed
    BY <1>9 DEF CreatePR, StepInv, At, Remote
  <2>2. /\ prs' = [prs EXCEPT ![r] = prs[r] + 1]
        /\ \A x \in Changed : prs[x] \in Nat /\ prs'[x] \in Nat
        /\ prs'[r] > 0
        /\ \A x \in Changed : x # r => prs'[x] = prs[x]
    BY <1>9 DEF CreatePR, TypeOK
  <2>3. FactsAreTrue' /\ EffectsInOrder' /\ Linked'
    <3>1. Linked'
      BY <1>9, <2>2 DEF CreatePR, Linked, TypeOK
    <3>2. UNCHANGED <<state, commit, push, pr, comment, head, sent, comments>>
      BY <1>9 DEF CreatePR
    <3>3. FactsAreTrue'
      BY <2>2, <3>2 DEF FactsAreTrue, TypeOK, Delivered
    <3>4. EffectsInOrder'
      BY <2>1, <2>2, <3>2 DEF EffectsInOrder, TypeOK
    <3> QED
      BY <3>1, <3>3, <3>4
  <2>4. PICK step \in {"prSave", "partial"} : Go(p, step)
    BY <1>9 DEF CreatePR, Continue
  <2>5. pc[p] # "idle" /\ pc'[p] = step
    BY <1>9, <2>4, OthersIdle DEF CreatePR
  <2>6. UNCHANGED <<commit, push, pr>> /\ Pending' = Pending
    BY <1>9 DEF CreatePR, Pending
  <2>7. \A x \in Changed : IsFirst(x, Pending) => x = r
    BY <1>9, OneFirst DEF CreatePR, Pending
  <2>8. At(p)'
    BY <2>1, <2>2, <2>5, <2>6, <2>7 DEF At, Remote, Closing, IsFirst
  <2> QED
    BY <2>3, <2>4, <2>5, <2>8, StepInvFrom
<1>10. ASSUME NEW p \in Procs, NEW r \in Changed, SavePR(p, r) PROVE Safe'
  <2>1. r \in push /\ prs[r] > 0 /\ commit = Changed
    BY <1>10 DEF SavePR, StepInv, At, Remote
  <2>2. FactsAreTrue' /\ EffectsInOrder' /\ Linked'
    BY <1>10, <2>1 DEF SavePR, FactsAreTrue, EffectsInOrder, Linked, TypeOK
  <2>3. /\ pc[p] # "idle" /\ pc'[p] = AfterRemote(push, pr')
        /\ Go(p, AfterRemote(push, pr'))
    BY <1>10, OthersIdle DEF SavePR
  <2>4. At(p)'
    BY <1>10, <2>1, <2>3 DEF SavePR, AfterRemote, At, Remote, Closing, TypeOK
  <2> QED
    BY <2>2, <2>3, <2>4, StepInvFrom
<1>11. ASSUME NEW p \in Procs, NEW replied \in BOOLEAN, Comment(p, replied) PROVE Safe'
  <2>1. pr = Changed /\ commit = Changed /\ comments' = 1
    BY <1>11 DEF Comment, StepInv, At, Remote, Closing, TypeOK
  <2>2. FactsAreTrue' /\ EffectsInOrder' /\ Linked'
    BY <1>11, <2>1 DEF Comment, FactsAreTrue, EffectsInOrder, Linked, TypeOK
  <2>3. PICK step \in {"commentSave", "partial"} : Go(p, step)
    BY <1>11 DEF Comment, Continue
  <2>4. pc[p] # "idle" /\ pc'[p] = step
    BY <1>11, <2>3, OthersIdle DEF Comment
  <2>5. At(p)'
    BY <1>11, <2>1, <2>4 DEF Comment, At, Remote, Closing
  <2> QED
    BY <2>2, <2>3, <2>4, <2>5, StepInvFrom
<1>12. ASSUME NEW p \in Procs, SaveComment(p) PROVE Safe'
  <2>1. pr = Changed /\ commit = Changed /\ comments = 1
    BY <1>12 DEF SaveComment, StepInv, At, Remote, Closing
  <2>2. FactsAreTrue' /\ EffectsInOrder' /\ Linked'
    BY <1>12, <2>1 DEF SaveComment, FactsAreTrue, EffectsInOrder, Linked, TypeOK
  <2>3. pc[p] # "idle" /\ pc'[p] = "deliver" /\ Go(p, "deliver")
    BY <1>12, OthersIdle DEF SaveComment
  <2>4. At(p)'
    BY <1>12, <2>1, <2>3 DEF SaveComment, At, Remote, Closing
  <2> QED
    BY <2>2, <2>3, <2>4, StepInvFrom
<1>13. ASSUME NEW p \in Procs, Deliver(p) PROVE Safe'
  <2>1. /\ head = Changed /\ sent = Changed /\ comments = 1
        /\ \A r \in Changed : prs[r] > 0
    BY <1>13 DEF Deliver, CompleteFacts, FactsAreTrue, TypeOK
  <2>2. FactsAreTrue' /\ EffectsInOrder' /\ Linked'
    BY <1>13, <2>1 DEF Deliver, FactsAreTrue, EffectsInOrder, Linked
  <2>3. pc[p] # "idle" /\ Go(p, "idle")
    BY <1>13 DEF Deliver, Release
  <2> QED
    BY <2>2, <2>3, StepInvFrom DEF Free
<1> QED
  BY <1>1, <1>2, <1>3, <1>4, <1>5, <1>6, <1>7, <1>8, <1>9, <1>10, <1>11, <1>12, <1>13
     DEF Next, Progress, LostReply

LEMMA IInvInit == Init => IInv
<1> SUFFICES ASSUME Init PROVE IInv
  OBVIOUS
<1>1. TypeOK
  BY TypeInit
<1>2. OneWriter /\ StepInv
  BY DEF Init, OneWriter, StepInv, At, Remote, Closing
<1>3. FactsAreTrue /\ EffectsInOrder /\ Linked
  BY DEF Init, FactsAreTrue, EffectsInOrder, Linked, Delivered
<1> QED
  BY <1>1, <1>2, <1>3 DEF IInv

LEMMA IInvStep == IInv /\ [Next]_vars => IInv'
<1>1. IInv /\ [Next]_vars => TypeOK' /\ OneWriter'
  BY TypeStep, WriterStep DEF IInv
<1>2. IInv /\ [Next]_vars => Safe'
  BY SafeStep
<1> QED
  BY <1>1, <1>2 DEF IInv, Safe

LEMMA Invariant == Spec => []IInv
BY IInvInit, IInvStep, PTL DEF Spec

\* At most one process is inside approve, resume or publish for a run.
THEOREM MutualExclusion == Spec => []OneWriter
<1>1. IInv => OneWriter
  BY DEF IInv
<1> QED
  BY <1>1, Invariant, PTL

\* The run store never says more than what has really happened outside.
THEOREM Truthful == Spec => []FactsAreTrue
<1>1. IInv => FactsAreTrue
  BY DEF IInv
<1> QED
  BY <1>1, Invariant, PTL

\* Commits, pushes, requests and the comment happen in the promised order.
THEOREM Ordered == Spec => []EffectsInOrder
<1>1. IInv => EffectsInOrder
  BY DEF IInv
<1> QED
  BY <1>1, Invariant, PTL

-----------------------------------------------------------------------------
(* No effect once the bases have moved: whoever starts stale stays in front *)
(* of the approval evidence.                                                *)
LEMMA StaleStep ==
    TypeOK /\ OneWriter /\ StaleInv /\ [Next]_vars
        => StaleInv' /\ (stale => UNCHANGED <<head, sent, prs, comments>>)
<1> SUFFICES ASSUME TypeOK, OneWriter, StaleInv, [Next]_vars
             PROVE StaleInv' /\ (stale => UNCHANGED <<head, sent, prs, comments>>)
  OBVIOUS
<1> DEFINE Kept == StaleInv' /\ (stale => UNCHANGED <<head, sent, prs, comments>>)
<1> USE DEF runVars, worldVars, procVars
<1>1. CASE UNCHANGED vars \/ Cancel \/ World
  BY <1>1 DEF vars, Cancel, World, MoveBase, RepointBranch, MergePR, ClosePR, MarkReady, StaleInv
<1>2. ASSUME NEW p \in Procs, Begin(p) PROVE Kept
  <2>1. UNCHANGED <<head, sent, prs, comments, moved>> /\ (stale' => moved # {})
    BY <1>2 DEF Begin
  <2>2. lock = NoProc /\ Go(p, EntryStep)
    BY <1>2 DEF Begin
  <2>3. /\ pc'[p] = EntryStep
        /\ \A q \in Procs \ {p} : pc'[q] = "idle"
    BY <2>2, OthersIdle
  <2>4. EntryStep \in {"enter", "retry", "rebuild", "recover"}
    BY DEF EntryStep
  <2> QED
    BY <2>1, <2>3, <2>4 DEF StaleInv
<1>3. ASSUME NEW p \in Procs,
             \/ Refuse(p) \/ Crash(p) \/ Fail(p) \/ SavePartial(p) \/ MovePartial(p) \/ Retry(p)
      PROVE Kept
  BY <1>3 DEF Refuse, Crash, Fail, SavePartial, MovePartial, Retry, Release, Go, StaleInv, TypeOK
<1>4. ASSUME NEW p \in Procs, Enter(p) \/ Rebuild(p) \/ Recover(p) PROVE Kept
  BY <1>4 DEF Enter, Rebuild, Recover, EvidenceCurrent, StaleInv
<1>5. ASSUME NEW p \in Procs,
             SaveIntent(p) \/ SkipComment(p) \/ SaveComment(p) \/ Deliver(p)
      PROVE Kept
  BY <1>5 DEF SaveIntent, SkipComment, SaveComment, Deliver, StaleInv, Release
<1>6. ASSUME NEW p \in Procs, NEW r \in Changed,
             \/ SaveCommit(p, r) \/ SavePush(p, r) \/ SkipPush(p, r) \/ FindPR(p, r)
             \/ SavePR(p, r)
      PROVE Kept
  BY <1>6 DEF SaveCommit, SavePush, SkipPush, FindPR, SavePR, StaleInv
<1>7. ASSUME NEW p \in Procs, NEW r \in Changed, NEW replied \in BOOLEAN,
             \/ Commit(p, r, replied) \/ Push(p, r, replied) \/ CreatePR(p, r, replied)
             \/ Comment(p, replied)
      PROVE Kept
  BY <1>7 DEF Commit, Push, CreatePR, Comment, StaleInv
<1> QED
  BY <1>1, <1>2, <1>3, <1>4, <1>5, <1>6, <1>7 DEF Next, Progress, LostReply

\* An attempt that starts after a base has moved has no external effect.
THEOREM StaleHasNoEffect == Spec => NoEffectWhenStale
<1>1. Init => StaleInv
  BY DEF Init, StaleInv
<1>2. IInv /\ StaleInv /\ [Next]_vars
        => StaleInv' /\ [stale => UNCHANGED <<head, sent, prs, comments>>]_vars
  BY StaleStep DEF IInv
<1> QED
  BY <1>1, <1>2, Invariant, PTL DEF Spec, NoEffectWhenStale

-----------------------------------------------------------------------------
(* Exactly once: a request is only opened when the latest one is closed.     *)
LEMMA OneEachStep ==
    ASSUME TypeOK, OneEach, [Next]_vars
    PROVE  OneEach'
<1> USE DEF runVars, worldVars, procVars
<1>1. CASE UNCHANGED <<prs, prState, closed>>
  BY <1>1 DEF OneEach
<1>2. CASE World
  BY <1>2 DEF World, MoveBase, RepointBranch, MergePR, ClosePR, MarkReady, OneEach, TypeOK
<1>3. ASSUME NEW p \in Procs, NEW r \in Changed, NEW replied \in BOOLEAN, CreatePR(p, r, replied)
      PROVE  OneEach'
  BY <1>3 DEF CreatePR, MayCreate, OneEach, TypeOK
<1>4. ASSUME NEW p \in Procs, NEW r \in Changed, NEW replied \in BOOLEAN,
             \/ Commit(p, r, replied) \/ Push(p, r, replied) \/ Comment(p, replied)
             \/ SaveCommit(p, r) \/ SavePush(p, r) \/ SkipPush(p, r) \/ FindPR(p, r)
             \/ SavePR(p, r)
      PROVE  UNCHANGED <<prs, prState, closed>>
  BY <1>4 DEF Commit, Push, Comment, SaveCommit, SavePush, SkipPush, FindPR, SavePR
<1>5. ASSUME NEW p \in Procs,
             \/ Begin(p) \/ Refuse(p) \/ Crash(p) \/ Fail(p) \/ Enter(p) \/ Rebuild(p)
             \/ SaveIntent(p) \/ Retry(p) \/ Recover(p) \/ SkipComment(p) \/ SaveComment(p)
             \/ Deliver(p) \/ SavePartial(p) \/ MovePartial(p)
      PROVE  UNCHANGED <<prs, prState, closed>>
  BY <1>5 DEF Begin, Refuse, Crash, Fail, Enter, Rebuild, SaveIntent, Retry, Recover,
              SkipComment, SaveComment, Deliver, SavePartial, MovePartial
<1>6. CASE UNCHANGED vars \/ Cancel
  BY <1>6, <1>1 DEF vars, Cancel
<1> QED
  BY <1>1, <1>2, <1>3, <1>4, <1>5, <1>6 DEF Next, Progress, LostReply

LEMMA OneEachInvariant == Spec => []OneEach
<1>1. Init => OneEach
  BY DEF Init, OneEach
<1>2. TypeOK /\ OneEach /\ [Next]_vars => OneEach'
  BY OneEachStep
<1> QED
  BY <1>1, <1>2, TypeCorrect, PTL DEF Spec

\* One pull request per repository, beside those closed unmerged, and one
\* comment per run, whatever crashes, fails or is retried.
THEOREM Once == Spec => []ExactlyOnce
<1>1. TypeOK /\ OneEach => ExactlyOnce
  <2> SUFFICES ASSUME TypeOK, OneEach PROVE ExactlyOnce
    OBVIOUS
  <2>1. ASSUME NEW r \in Changed PROVE prs[r] <= closed[r] + 1
    <3>1. prs[r] \in Nat /\ closed[r] \in Nat
      BY DEF TypeOK
    <3> QED
      BY <3>1 DEF OneEach
  <2>2. comments <= 1
    BY DEF TypeOK
  <2> QED
    BY <2>1, <2>2 DEF ExactlyOnce
<1> QED
  BY <1>1, OneEachInvariant, TypeCorrect, PTL

\* While a process is at work the run is neither delivered nor cancelled.
Live == \A p \in Procs :
           pc[p] # "idle" => state \in {"WAITING_APPROVAL", "PUBLISHING", "PARTIAL_SUCCESS"}

LEMMA LiveStep ==
    ASSUME TypeOK, OneWriter, Live, [Next]_vars
    PROVE  Live'
<1> USE DEF runVars, worldVars, procVars
<1>1. CASE UNCHANGED vars \/ World
  BY <1>1 DEF vars, World, MoveBase, RepointBranch, MergePR, ClosePR, MarkReady, Live
<1>2. CASE Cancel
  BY <1>2, GroupAssumption DEF GroupAssumption, Cancel, OneWriter, Live
<1>3. ASSUME NEW p \in Procs, Begin(p) PROVE Live'
  BY <1>3 DEF Begin, Live
<1>4. ASSUME NEW p \in Procs, pc[p] # "idle", Release(p) PROVE Live'
  <2>1. Go(p, "idle")
    BY <1>4 DEF Release
  <2>2. \A q \in Procs : pc'[q] = "idle"
    BY <1>4, <2>1, OthersIdle
  <2> QED
    BY <2>2 DEF Live
<1>5. ASSUME NEW p \in Procs, Refuse(p) \/ Crash(p) \/ Deliver(p) \/ MovePartial(p) PROVE Live'
  BY <1>5, <1>4 DEF Refuse, Crash, Deliver, MovePartial
<1>6. ASSUME NEW p \in Procs, pc[p] # "idle", NEW step, Go(p, step),
             UNCHANGED state \/ state' = "PUBLISHING"
      PROVE  Live'
  BY <1>6 DEF Go, Live, TypeOK
<1>7. ASSUME NEW p \in Procs,
             \/ Fail(p) \/ Enter(p) \/ Rebuild(p) \/ SaveIntent(p) \/ Retry(p) \/ Recover(p)
             \/ SkipComment(p) \/ SaveComment(p) \/ SavePartial(p)
      PROVE  Live'
  BY <1>7, <1>6 DEF Fail, Guarded, Enter, Rebuild, SaveIntent, Retry, Recover, SkipComment,
                    SaveComment, SavePartial
<1>8. ASSUME NEW p \in Procs, NEW r \in Changed, NEW replied \in BOOLEAN,
             \/ SaveCommit(p, r) \/ SavePush(p, r) \/ SkipPush(p, r) \/ FindPR(p, r)
             \/ SavePR(p, r) \/ Commit(p, r, replied) \/ Push(p, r, replied)
             \/ CreatePR(p, r, replied) \/ Comment(p, replied)
      PROVE  Live'
  BY <1>8, <1>6 DEF SaveCommit, SavePush, SkipPush, FindPR, SavePR, Commit, Push, CreatePR,
                    Comment, Continue
<1> QED
  BY <1>1, <1>2, <1>3, <1>5, <1>7, <1>8 DEF Next, Progress, LostReply

LEMMA LiveInvariant == Spec => []Live
<1>1. Init => Live
  BY DEF Init, Live
<1>2. IInv /\ Live /\ [Next]_vars => Live'
  BY LiveStep DEF IInv
<1> QED
  BY <1>1, <1>2, Invariant, PTL DEF Spec

-----------------------------------------------------------------------------
(* Every step of the group publication is a step of Delivery or a stutter.  *)
targetVars == <<head, sent, prs, closed, comments>>
Pend == state \notin {Delivered, "CANCELLED"}

LEMMA Simulation ==
    ASSUME IInv, OneEach, Live, [Next]_vars
    PROVE  [Target!Next]_(Target!deliveryVars)
<1> DEFINE Simulated == [Target!Next]_(Target!deliveryVars)
<1> USE DEF IInv, runVars, worldVars, procVars
<1>1. ASSUME UNCHANGED targetVars,
             UNCHANGED state \/ (Pend /\ Pend')
      PROVE  Simulated
  BY <1>1 DEF targetVars, Pend, Target!deliveryVars
<1>2. ASSUME NEW p \in Procs, pc[p] # "idle" PROVE Pend
  BY <1>2 DEF Live, Pend, Delivered
<1>3. CASE UNCHANGED vars \/ World
  <2>1. CASE UNCHANGED vars
    BY <2>1, <1>1 DEF vars, targetVars
  <2>2. ASSUME NEW r \in Repos, MoveBase(r) PROVE Simulated
    BY <2>2, <1>1 DEF MoveBase, targetVars
  <2>3. ASSUME NEW r \in Changed, RepointBranch(r) \/ MergePR(r) \/ MarkReady(r)
        PROVE Simulated
    BY <2>3, <1>1 DEF RepointBranch, MergePR, MarkReady, targetVars
  <2>4. ASSUME NEW r \in Changed, ClosePR(r) PROVE Simulated
    <3>1. prs[r] = closed[r] + 1 /\ closed[r] \in Nat
      BY <2>4 DEF ClosePR, OneEach, TypeOK
    <3>2. /\ UNCHANGED <<state, head, sent, prs, comments>>
          /\ closed' = [closed EXCEPT ![r] = @ + 1]
      BY <2>4 DEF ClosePR
    <3>3. Target!CloseOne(r)
      BY <3>1, <3>2 DEF Target!CloseOne
    <3> QED
      BY <3>3 DEF Target!Next
  <2> QED
    BY <1>3, <2>1, <2>2, <2>3, <2>4 DEF World
<1>4. CASE Cancel
  <2>1. UNCHANGED targetVars /\ state' = "CANCELLED" /\ state \notin {"COMPLETED", "CANCELLED"}
    BY <1>4 DEF Cancel, targetVars
  <2>2. state = Delivered => Draft
    BY <2>1, GroupAssumption DEF GroupAssumption, Delivered
  <2>3. Target!Abandon
    BY <2>1, <2>2 DEF Target!Abandon, targetVars, Delivered
  <2> QED
    BY <2>3 DEF Target!Next
<1>5. ASSUME NEW p \in Procs,
             \/ Begin(p) \/ Refuse(p) \/ Crash(p) \/ Fail(p) \/ Rebuild(p) \/ SaveIntent(p)
             \/ Recover(p) \/ SkipComment(p) \/ SaveComment(p) \/ SavePartial(p)
      PROVE  Simulated
  BY <1>5, <1>1 DEF Begin, Refuse, Crash, Fail, Rebuild, SaveIntent, Recover, SkipComment,
                    SaveComment, SavePartial, targetVars
<1>6. ASSUME NEW p \in Procs, Enter(p) \/ Retry(p) \/ MovePartial(p) PROVE Simulated
  <2>1. pc[p] # "idle" /\ UNCHANGED targetVars /\ Pend'
    BY <1>6 DEF Enter, Retry, MovePartial, targetVars, Pend, Delivered
  <2> QED
    BY <2>1, <1>1, <1>2
<1>7. ASSUME NEW p \in Procs, NEW r \in Changed,
             \/ SaveCommit(p, r) \/ SavePush(p, r) \/ SkipPush(p, r) \/ FindPR(p, r)
             \/ SavePR(p, r)
      PROVE  Simulated
  BY <1>7, <1>1 DEF SaveCommit, SavePush, SkipPush, FindPR, SavePR, targetVars
<1>8. ASSUME NEW p \in Procs, NEW r \in Changed, NEW replied \in BOOLEAN, Commit(p, r, replied)
      PROVE  Simulated
  <2>1. UNCHANGED <<state, sent, prs, closed, comments>> /\ head' = head \cup {r} /\ Pend
    BY <1>8, <1>2 DEF Commit
  <2>2. sent = {}
    BY <1>8 DEF Commit, IsFirst, EffectsInOrder
  <2>3. Target!Earlier(r) \subseteq head
    <3> SUFFICES ASSUME NEW s \in Changed, Rank[s] < Rank[r] PROVE s \in head
      BY DEF Target!Earlier
    <3>1. Rank[s] \in Nat /\ Rank[r] \in Nat
      BY GroupAssumption DEF GroupAssumption
    <3>2. s \in commit
      BY <3>1, <1>8 DEF Commit, IsFirst
    <3> QED
      BY <3>2 DEF FactsAreTrue
  <2>4. CASE r \in head
    BY <2>4, <2>1, <1>1 DEF targetVars
  <2>5. CASE r \notin head
    <3>1. Target!CommitOne(r)
      BY <2>1, <2>2, <2>3, <2>5 DEF Target!CommitOne, Pend
    <3> QED
      BY <3>1 DEF Target!Next
  <2> QED
    BY <2>4, <2>5
<1>9. ASSUME NEW p \in Procs, NEW r \in Changed, NEW replied \in BOOLEAN, Push(p, r, replied)
      PROVE  Simulated
  <2>1. UNCHANGED <<state, head, prs, closed, comments>> /\ sent' = sent \cup {r} /\ Pend
    BY <1>9, <1>2 DEF Push
  <2>2. head = Changed
    BY <1>9 DEF Push, StepInv, At, Remote, FactsAreTrue, TypeOK
  <2>3. \A s \in Target!Earlier(r) : prs[s] > 0
    <3> SUFFICES ASSUME NEW s \in Changed, Rank[s] < Rank[r] PROVE prs[s] > 0
      BY DEF Target!Earlier
    <3>1. s \in pr
      BY <1>9, BeforeFirst DEF Push
    <3> QED
      BY <3>1 DEF FactsAreTrue
  <2>4. CASE r \in sent
    BY <2>4, <2>1, <1>1 DEF targetVars
  <2>5. CASE r \notin sent
    <3>1. Target!PushOne(r)
      BY <2>1, <2>2, <2>3, <2>5 DEF Target!PushOne, Pend
    <3> QED
      BY <3>1 DEF Target!Next
  <2> QED
    BY <2>4, <2>5
<1>10. ASSUME NEW p \in Procs, NEW r \in Changed, NEW replied \in BOOLEAN, CreatePR(p, r, replied)
       PROVE  Simulated
  <2>1. UNCHANGED <<state, head, sent, closed, comments>> /\ Pend
    BY <1>10, <1>2 DEF CreatePR
  <2>2. r \in sent
    BY <1>10 DEF CreatePR, StepInv, At, FactsAreTrue
  <2>3. prs[r] = closed[r] /\ prs' = [prs EXCEPT ![r] = @ + 1] /\ UNCHANGED closed
    BY <1>10 DEF CreatePR, MayCreate, OneEach
  <2>4. comments = 0
    BY <1>10 DEF CreatePR, IsFirst, Pending, EffectsInOrder, FactsAreTrue, TypeOK
  <2>5. Target!OpenOne(r)
    BY <2>1, <2>2, <2>3, <2>4 DEF Target!OpenOne, Pend
  <2> QED
    BY <2>5 DEF Target!Next
<1>11. ASSUME NEW p \in Procs, NEW replied \in BOOLEAN, Comment(p, replied) PROVE Simulated
  <2>1. UNCHANGED <<state, head, sent, prs, closed>> /\ comments' = 1 /\ Pend
    BY <1>11, <1>2 DEF Comment, TypeOK
  <2>2. \A r \in Changed : prs[r] > 0
    BY <1>11 DEF Comment, StepInv, At, Closing, FactsAreTrue
  <2>3. CASE comments = 1
    BY <2>3, <2>1, <1>1 DEF targetVars
  <2>4. CASE comments = 0
    <3>1. Target!Comment
      BY <2>1, <2>2, <2>4 DEF Target!Comment, Pend
    <3> QED
      BY <3>1 DEF Target!Next
  <2> QED
    BY <2>3, <2>4 DEF TypeOK
<1>12. ASSUME NEW p \in Procs, Deliver(p) PROVE Simulated
  <2>1. UNCHANGED targetVars /\ state' = Delivered /\ Pend /\ comments = 1
    BY <1>12, <1>2 DEF Deliver, CompleteFacts, FactsAreTrue, targetVars
  <2>2. Target!Report
    BY <2>1 DEF Target!Report, targetVars, Pend
  <2> QED
    BY <2>2 DEF Target!Next
<1> QED
  BY <1>3, <1>4, <1>5, <1>6, <1>7, <1>8, <1>9, <1>10, <1>11, <1>12 DEF Next, Progress, LostReply

\* The group publication implements Delivery.
THEOREM Refinement == Spec => Implements
<1>1. Init => Target!Init
  BY DEF Init, Target!Init, Delivered
<1>2. IInv /\ OneEach /\ Live /\ [Next]_vars => [Target!Next]_(Target!deliveryVars)
  BY Simulation
<1> QED
  BY <1>1, <1>2, Invariant, OneEachInvariant, LiveInvariant, PTL
     DEF Spec, Implements, Target!Spec
=============================================================================
