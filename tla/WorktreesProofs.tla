--------------------------- MODULE WorktreesProofs ---------------------------
(***************************************************************************)
(* Proofs about Worktrees, for any runs and groups of repositories, any    *)
(* number of moves of the base, writes and baseline refreshes.             *)
(*                                                                         *)
(* The invariant is one of each run: what its record says (RecordFits) and *)
(* what its process relies on (StepFits).  A step of one run leaves that   *)
(* of the others alone, because a workspace belongs to one run, a clone    *)
(* only touches repositories nobody has prepared a worktree from, and      *)
(* what is written grows.                                                  *)
(***************************************************************************)
EXTENDS Worktrees, SequenceTheorems, TLAPS

Preparing  == {"look", "mirror", "clone", "cloning", "origin", "fetch", "refs",
               "reserve", "branch", "add", "adding", "check", "ready", "save"}
Making     == {"reserve", "branch", "add", "adding", "check"}
Publishing == {"intent", "snapshot", "stage", "find", "compare", "commit", "reset",
               "push", "pushing"}
Carrying   == {"source", "patch", "apply", "swap"}
AnyStep    == {"idle", "stopped"} \cup Preparing \cup Publishing \cup Carrying

AnyCommit  == [on : 0..NoBase, with : Nat]
TreeType   == [dir : {"none", "empty", "partial", "tree"}, registered : BOOLEAN,
               branch : AnyCommit, files : Nat]
MirrorType == [is : {"none", "partial", "whole", "ruined"}, origin : {"remote", "source"},
               tracked : 0..MaxBase, branches : SUBSET Workspaces]
JobType    == [n : Nat, at : Nat, mode : {"prepare", "recover"}, source : 0..MaxBase,
               bases : Seq(0..MaxBase), patch : Nat]

WorldType ==
    /\ base \in [Repos -> 0..MaxBase] /\ source \in [Repos -> 0..MaxBase]
    /\ remote \in [Workspaces -> AnyCommit]
    /\ mirror \in [Repos -> MirrorType]

RecordsType ==
    /\ current \in [Runs -> 0..MaxRefresh + 1] /\ on \in [Workspaces -> 0..NoBase]
    /\ tested \in [Runs -> 0..Untested] /\ expected \in [Runs -> AnyCommit]
    /\ refreshes \in [Runs -> 0..MaxRefresh]
    /\ moved \in [Workspaces -> [patch : Nat, tested : Nat]]

TypeOK ==
    /\ WorldType /\ RecordsType
    /\ tree \in [Workspaces -> TreeType] /\ edits \in 0..MaxEdits
    /\ pc \in [Runs -> AnyStep] /\ job \in [Runs -> JobType]

-----------------------------------------------------------------------------
(* The invariant *)

\* The mirror has been cloned or fetched: no clone will change its branches.
There(k) == mirror[k].is \in {"whole", "ruined"}
Saved(w) == on[w] # NoBase
W(r, i, n) == <<r, KeysOf[r][i], n>>

WholeOnBase(w) ==
    /\ There(RepoOf(w)) /\ Whole(tree[w]) /\ tree[w].files <= edits
    /\ tree[w].branch \in {Base(on[w]), expected[RunOf(w)]} /\ tree[w].branch.on = on[w]

\* What the record of a run names has been prepared, by an earlier refresh too.
NamesFit(r) ==
    /\ current[r] <= refreshes[r] + 1
    /\ current[r] # 0 => /\ current[r] = 1 \/ r \in Published
                         /\ \A i \in DOMAIN KeysOf[r] : Saved(W(r, i, current[r]))
    /\ \A w \in Workspaces : RunOf(w) = r /\ Saved(w) =>
          current[r] # 0 /\ w[3] <= refreshes[r] + 1 /\ WholeOnBase(w)

TestedFits(r) ==
    tested[r] # Untested => r \in Published /\ current[r] # 0 /\ tested[r] \in 1..edits

AsExpected(r) == expected[r].with = tested[r]

\* The files were changed between the comparison and the staging; what was
\* tested never comes back.
TooLate(r) ==
    /\ tested[r] < expected[r].with /\ expected[r].with <= tree[Kept(r)].files
    /\ tree[Kept(r)].branch = Base(on[Kept(r)])

ExpectedFits(r) ==
    expected[r] # NoCommit =>
        /\ tested[r] # Untested /\ expected[r].on = on[Kept(r)]
        /\ AsExpected(r) \/ TooLate(r)

RemoteFits(r) ==
    \A w \in Workspaces : RunOf(w) = r /\ remote[w] \in Commits =>
        w = Kept(r) /\ remote[w] = expected[r] /\ AsExpected(r)

CarriedFits(r) == \A w \in Workspaces : RunOf(w) = r => moved[w].patch = moved[w].tested

RecordFits(r) ==
    NamesFit(r) /\ TestedFits(r) /\ ExpectedFits(r) /\ RemoteFits(r) /\ CarriedFits(r)

\* A refresh works on a workspace beyond all that were saved.
Refreshing(r) ==
    /\ job[r].n # 1 /\ job[r].n = refreshes[r] + 1 /\ current[r] \in 1..refreshes[r]
    /\ tested[r] # Untested /\ expected[r] = NoCommit

JobFits(r) ==
    /\ job[r].n \in 1..MaxRefresh + 1 /\ job[r].at \in DOMAIN KeysOf[r]
    /\ job[r].n = 1 \/ r \in Published
    /\ pc[r] = "idle" => job[r] = NoJob

PreparingFits(r) == pc[r] \in Preparing =>
    /\ \/ job[r].n = 1 /\ current[r] = 0
       \/ Refreshing(r) /\ ~Saved(Ws(r))
    /\ Len(job[r].bases) = IF pc[r] \in Making \cup {"ready", "save"} THEN job[r].at
                           ELSE job[r].at - 1
    /\ pc[r] \in Making \cup {"refs", "ready"} => There(Key(r))
    /\ pc[r] = "save" => job[r].at = Len(KeysOf[r])
    /\ pc[r] \in {"add", "adding"} => tree[Ws(r)].branch = Base(Seen(r))

\* The repositories of a group that are done wait for the others.
DoneFits(r) == pc[r] \in Preparing =>
    \A i \in 1..Len(job[r].bases) :
        i # job[r].at \/ pc[r] \notin Making =>
            LET t == tree[W(r, i, job[r].n)] IN
            /\ There(KeysOf[r][i])
            /\ Whole(t) /\ t.branch = Base(job[r].bases[i]) /\ t.files <= edits

CarryingFits(r) ==
    /\ pc[r] \in Carrying => Refreshing(r) /\ Saved(Ws(r))
    /\ pc[r] = "patch" => tested[r] <= tree[Kept(r)].files
    /\ pc[r] = "apply" => tested[r] <= job[r].patch /\ job[r].patch <= tree[Kept(r)].files

PublishingFits(r) ==
    /\ pc[r] \in Publishing => tested[r] # Untested
    /\ pc[r] \in Publishing \ {"intent", "snapshot", "stage"} => expected[r] # NoCommit
    /\ pc[r] = "stage" => tested[r] <= tree[Kept(r)].files
    /\ pc[r] \in {"reset", "push", "pushing"} => tree[Kept(r)].branch = expected[r]
    /\ expected[r] # NoCommit /\ ~AsExpected(r) =>
          pc[r] \in {"idle", "stopped", "find", "compare"}

StepFits(r) == JobFits(r) /\ PreparingFits(r) /\ DoneFits(r) /\ CarryingFits(r) /\ PublishingFits(r)

Fits(r) == RecordFits(r) /\ StepFits(r)

IInv == TypeOK /\ \A r \in Runs : Fits(r)


-----------------------------------------------------------------------------
(* Runs and their workspaces *)

LEMMA KeysAreSequences ==
    ASSUME NEW r \in Runs
    PROVE  /\ KeysOf[r] \in Seq(STRING) /\ Len(KeysOf[r]) \in Nat \ {0}
           /\ DOMAIN KeysOf[r] = 1..Len(KeysOf[r]) /\ 1 \in DOMAIN KeysOf[r]
           /\ \A i, j \in DOMAIN KeysOf[r] : KeysOf[r][i] = KeysOf[r][j] => i = j
           /\ r \in Published => DOMAIN KeysOf[r] = {1}
  BY WorktreesAssumption

LEMMA WorkspaceOf ==
    ASSUME NEW r \in Runs, NEW i \in DOMAIN KeysOf[r], NEW n \in 1..MaxRefresh + 1,
           n = 1 \/ r \in Published
    PROVE  /\ W(r, i, n) \in Workspaces
           /\ RunOf(W(r, i, n)) = r /\ RepoOf(W(r, i, n)) = KeysOf[r][i] /\ W(r, i, n)[3] = n
           /\ KeysOf[r][i] \in Repos
<1>1. KeysOf[r][i] \in Repos
  BY DEF Repos
<1>2. Has(r, KeysOf[r][i])
  BY DEF Has
<1> QED
  BY <1>1, <1>2 DEF W, Workspaces, RunOf, RepoOf

LEMMA WorkspaceIs ==
    ASSUME NEW w \in Workspaces
    PROVE  /\ RunOf(w) \in Runs /\ RepoOf(w) \in Repos /\ w[3] \in 1..MaxRefresh + 1
           /\ w[3] = 1 \/ RunOf(w) \in Published
           /\ \E i \in DOMAIN KeysOf[RunOf(w)] : RepoOf(w) = KeysOf[RunOf(w)][i]
                                                 /\ w = W(RunOf(w), i, w[3])
<1>1. w \in Runs \X Repos \X (1..MaxRefresh + 1) /\ Has(w[1], w[2])
      /\ (w[1] \in Published \/ w[3] = 1)
  BY DEF Workspaces
<1>2. w = <<w[1], w[2], w[3]>>
  BY <1>1
<1> QED
  BY <1>1, <1>2 DEF Has, W, RunOf, RepoOf

LEMMA WorkspacesDiffer ==
    ASSUME NEW r, NEW i, NEW n, NEW q, NEW j, NEW m, W(r, i, n) = W(q, j, m)
    PROVE  r = q /\ KeysOf[r][i] = KeysOf[q][j] /\ n = m
  BY DEF W

\* The workspaces of a process and of a record are those of its run.
LEMMA OwnWorkspace ==
    ASSUME TypeOK, NEW r \in Runs, JobFits(r)
    PROVE  /\ Ws(r) = W(r, job[r].at, job[r].n) /\ Ws(r) \in Workspaces
           /\ RunOf(Ws(r)) = r /\ RepoOf(Ws(r)) = Key(r) /\ Ws(r)[3] = job[r].n
           /\ Key(r) \in Repos
  BY WorkspaceOf DEF JobFits, Ws, W, Key

LEMMA KeptWorkspace ==
    ASSUME TypeOK, NEW r \in Runs, NamesFit(r), current[r] # 0
    PROVE  /\ Kept(r) = W(r, 1, current[r]) /\ Kept(r) \in Workspaces
           /\ RunOf(Kept(r)) = r /\ RepoOf(Kept(r)) = KeysOf[r][1] /\ Kept(r)[3] = current[r]
           /\ RepoOf(Kept(r)) \in Repos
           /\ Saved(Kept(r)) /\ WholeOnBase(Kept(r)) /\ on[Kept(r)] \in 0..MaxBase
<1>1. current[r] \in 1..MaxRefresh + 1 /\ (current[r] = 1 \/ r \in Published)
  BY WorktreesAssumption DEF TypeOK, RecordsType, NamesFit
<1>2. 1 \in DOMAIN KeysOf[r]
  BY KeysAreSequences
<1>3. Kept(r) = W(r, 1, current[r])
  BY DEF Kept, W
<1>4. Kept(r) \in Workspaces /\ RunOf(Kept(r)) = r /\ RepoOf(Kept(r)) = KeysOf[r][1]
      /\ Kept(r)[3] = current[r] /\ RepoOf(Kept(r)) \in Repos
  BY <1>1, <1>2, <1>3, WorkspaceOf
<1>5. Saved(Kept(r)) /\ WholeOnBase(Kept(r))
  BY <1>1, <1>2, <1>3, <1>4 DEF NamesFit
<1>6. on[Kept(r)] \in 0..MaxBase
  BY <1>4, <1>5, WorktreesAssumption DEF TypeOK, RecordsType, Saved, NoBase
<1> QED
  BY <1>3, <1>4, <1>5, <1>6

\* What is not of the approved run is not taken for a commit of it.
LEMMA NotCommits == NoCommit \notin Commits /\ Foreign \notin Commits /\ NoBase \notin 0..MaxBase
<1>1. NoBase \notin 0..MaxBase
  BY WorktreesAssumption DEF NoBase
<1>2. NoCommit.on = NoBase /\ Foreign.on = NoBase
  BY DEF NoCommit, Foreign
<1>3. \A c \in Commits : c.on \in 0..MaxBase
  BY DEF Commits
<1> QED
  BY <1>1, <1>2, <1>3

-----------------------------------------------------------------------------
(* What a step leaves alone *)

\* Files and mirrors only grow.
Growing ==
    /\ edits <= edits' /\ edits' \in Nat
    /\ \A k \in Repos : There(k) => There(k)'

SameRecord(r) ==
    /\ current'[r] = current[r] /\ tested'[r] = tested[r] /\ expected'[r] = expected[r]
    /\ refreshes'[r] = refreshes[r]
    /\ \A w \in Workspaces : RunOf(w) = r =>
          on'[w] = on[w] /\ moved'[w] = moved[w] /\ (remote'[w] = remote[w] \/ remote'[w] = Foreign)

SameTrees(r) ==
    \A w \in Workspaces : RunOf(w) = r /\ There(RepoOf(w)) => tree'[w] = tree[w]

SameStep(r) == (pc'[r] = pc[r] \/ pc'[r] = "stopped") /\ job'[r] = job[r]

Same(r) == SameRecord(r) /\ SameTrees(r) /\ SameStep(r)

LEMMA RecordKept ==
    ASSUME TypeOK, NEW r \in Runs, RecordFits(r), Growing, SameRecord(r), SameTrees(r)
    PROVE  RecordFits(r)'
<1>1. \A w \in Workspaces : RunOf(w) = r => Saved(w)' = Saved(w)
  BY DEF SameRecord, Saved
<1>2. ASSUME NEW w \in Workspaces, RunOf(w) = r, WholeOnBase(w)
      PROVE  WholeOnBase(w)' /\ tree'[w] = tree[w]
  <2>1. RepoOf(w) \in Repos
    BY WorkspaceIs
  <2>2. tree'[w] = tree[w] /\ There(RepoOf(w))'
    BY <1>2, <2>1 DEF Growing, SameTrees, WholeOnBase
  <2>3. tree[w].files \in Nat /\ edits \in Nat
    BY WorktreesAssumption DEF TypeOK, TreeType
  <2>4. tree'[w].files <= edits'
    BY <1>2, <2>2, <2>3 DEF Growing, WholeOnBase
  <2> QED
    BY <1>2, <2>2, <2>4 DEF SameRecord, WholeOnBase
<1>3. NamesFit(r)'
  <2>1. \A i \in DOMAIN KeysOf[r] : current[r] # 0 => Saved(W(r, i, current[r]))'
    <3> SUFFICES ASSUME NEW i \in DOMAIN KeysOf[r], current[r] # 0
                 PROVE  on'[W(r, i, current[r])] # NoBase
      BY DEF Saved, SameRecord, W
    <3>1. current[r] \in 1..MaxRefresh + 1 /\ (current[r] = 1 \/ r \in Published)
      BY WorktreesAssumption DEF TypeOK, RecordsType, RecordFits, NamesFit
    <3>2. W(r, i, current[r]) \in Workspaces /\ RunOf(W(r, i, current[r])) = r
      BY <3>1, WorkspaceOf
    <3> QED
      BY <1>1, <3>1, <3>2 DEF RecordFits, NamesFit, Saved, W, SameRecord
  <2>2. current'[r] = current[r] /\ refreshes'[r] = refreshes[r]
    BY DEF SameRecord
  <2> QED
    BY <1>1, <1>2, <2>1, <2>2 DEF RecordFits, NamesFit
<1>4. TestedFits(r)'
  BY WorktreesAssumption DEF RecordFits, TestedFits, SameRecord, Growing, TypeOK, RecordsType
<1>5. Kept(r)' = Kept(r)
  BY DEF Kept, SameRecord
<1>6. CASE expected[r] = NoCommit
  <2>1. RemoteFits(r)'
    <3> SUFFICES ASSUME NEW w \in Workspaces, RunOf(w) = r, remote'[w] \in Commits PROVE FALSE
      BY DEF RemoteFits
    <3> QED
      BY <1>6, NotCommits DEF RecordFits, RemoteFits, SameRecord
  <2> QED
    BY <1>3, <1>4, <1>6, <2>1 DEF RecordFits, ExpectedFits, CarriedFits, SameRecord
<1>7. CASE expected[r] # NoCommit
  <2>1. current[r] # 0
    BY <1>7 DEF RecordFits, ExpectedFits, TestedFits
  <2>2. Kept(r) \in Workspaces /\ RunOf(Kept(r)) = r /\ WholeOnBase(Kept(r))
    BY <2>1, KeptWorkspace DEF RecordFits
  <2>3. tree'[Kept(r)] = tree[Kept(r)] /\ on'[Kept(r)] = on[Kept(r)]
    BY <1>2, <2>2 DEF SameRecord
  <2>4. ExpectedFits(r)'
    BY <1>5, <2>3 DEF RecordFits, ExpectedFits, SameRecord, AsExpected, TooLate
  <2>5. RemoteFits(r)'
    <3> SUFFICES ASSUME NEW w \in Workspaces, RunOf(w) = r, remote'[w] \in Commits
                 PROVE  w = Kept(r)' /\ remote'[w] = expected'[r] /\ AsExpected(r)'
      BY DEF RemoteFits
    <3>1. remote'[w] = remote[w]
      BY NotCommits DEF SameRecord
    <3> QED
      BY <1>5, <3>1 DEF RecordFits, RemoteFits, SameRecord, AsExpected
  <2> QED
    BY <1>3, <1>4, <2>4, <2>5 DEF RecordFits, CarriedFits, SameRecord
<1> QED
  BY <1>6, <1>7

LEMMA StepKept ==
    ASSUME TypeOK, NEW r \in Runs, Fits(r), Growing, Same(r)
    PROVE  StepFits(r)'
<1> USE DEF Same
<1>1. job'[r] = job[r] /\ current'[r] = current[r] /\ refreshes'[r] = refreshes[r]
      /\ tested'[r] = tested[r] /\ expected'[r] = expected[r]
  BY DEF SameRecord, SameStep
<1>2. Key(r)' = Key(r) /\ Ws(r)' = Ws(r) /\ Kept(r)' = Kept(r) /\ Seen(r)' = Seen(r)
  BY <1>1 DEF Key, Ws, Kept, Seen
<1>3. JobFits(r)'
  BY <1>1 DEF Fits, StepFits, JobFits, SameStep
<1>4. CASE pc'[r] = "stopped"
  BY <1>3, <1>4 DEF StepFits, PreparingFits, DoneFits, CarryingFits, PublishingFits,
     Preparing, Publishing, Carrying
<1>5. CASE pc'[r] = pc[r]
  <2>1. Ws(r) \in Workspaces /\ RunOf(Ws(r)) = r /\ RepoOf(Ws(r)) = Key(r) /\ Key(r) \in Repos
    BY OwnWorkspace DEF Fits, StepFits
  <2>2. Saved(Ws(r))' = Saved(Ws(r))
    BY <1>2, <2>1 DEF Saved, SameRecord
  <2>3. PreparingFits(r)'
    <3>1. ASSUME There(Key(r)) PROVE There(Key(r))' /\ tree'[Ws(r)] = tree[Ws(r)]
      BY <1>2, <2>1, <3>1 DEF Growing, SameTrees, There
    <3> QED
      BY <1>1, <1>2, <1>5, <2>2, <3>1 DEF Fits, StepFits, PreparingFits, Refreshing, Making
  <2>4. DoneFits(r)'
    <3> SUFFICES ASSUME pc[r] \in Preparing, NEW i \in 1..Len(job[r].bases),
                        i # job[r].at \/ pc[r] \notin Making
                 PROVE  LET t == tree'[W(r, i, job[r].n)] IN
                        /\ There(KeysOf[r][i])'
                        /\ Whole(t) /\ t.branch = Base(job[r].bases[i]) /\ t.files <= edits'
      BY <1>1, <1>5 DEF DoneFits, Whole, W
    <3> DEFINE w == W(r, i, job[r].n)
    <3>1. /\ There(KeysOf[r][i]) /\ Whole(tree[w])
          /\ tree[w].branch = Base(job[r].bases[i]) /\ tree[w].files <= edits
      BY DEF Fits, StepFits, DoneFits
    <3>2. i \in DOMAIN KeysOf[r]
      BY KeysAreSequences DEF Fits, StepFits, PreparingFits, JobFits
    <3>3. w \in Workspaces /\ RunOf(w) = r /\ RepoOf(w) = KeysOf[r][i] /\ KeysOf[r][i] \in Repos
      BY <3>2, WorkspaceOf DEF Fits, StepFits, JobFits
    <3>4. There(KeysOf[r][i])' /\ tree'[w] = tree[w]
      BY <3>1, <3>3 DEF Growing, SameTrees
    <3>5. tree[w].files \in Nat /\ edits \in Nat
      BY <3>3, WorktreesAssumption DEF TypeOK, TreeType
    <3> QED
      BY <3>1, <3>4, <3>5 DEF Growing
  <2>5. CASE current[r] = 0
    <3>1. expected[r] = NoCommit /\ tested[r] = Untested
      BY <2>5 DEF Fits, RecordFits, ExpectedFits, TestedFits
    <3>2. pc[r] \notin Carrying \cup Publishing
      BY <2>5, <3>1 DEF Fits, StepFits, CarryingFits, PublishingFits, Refreshing
    <3> QED
      BY <1>1, <1>3, <1>5, <2>3, <2>4, <3>1, <3>2 DEF StepFits, CarryingFits, PublishingFits,
         Carrying, Publishing
  <2>6. CASE current[r] # 0
    <3>1. Kept(r) \in Workspaces /\ RunOf(Kept(r)) = r /\ There(RepoOf(Kept(r)))
      BY <2>6, KeptWorkspace DEF Fits, RecordFits, WholeOnBase
    <3>2. tree'[Kept(r)] = tree[Kept(r)]
      BY <3>1 DEF SameTrees
    <3>3. CarryingFits(r)'
      BY <1>1, <1>2, <1>5, <2>2, <3>2 DEF Fits, StepFits, CarryingFits, Refreshing
    <3>4. PublishingFits(r)'
      BY <1>1, <1>2, <1>5, <3>2 DEF Fits, StepFits, PublishingFits, AsExpected
    <3> QED
      BY <1>3, <2>3, <2>4, <3>3, <3>4 DEF StepFits
  <2> QED
    BY <2>5, <2>6
<1> QED
  BY <1>4, <1>5 DEF SameStep

\* A call that ends, however it ends, relies on nothing.
LEMMA EndedFits ==
    ASSUME NEW r \in Runs, pc'[r] = "idle", job'[r] = NoJob
    PROVE  StepFits(r)'
<1>1. job'[r].n = 1 /\ job'[r].at = 1
  BY DEF NoJob
<1>2. JobFits(r)'
  BY <1>1, KeysAreSequences, WorktreesAssumption DEF JobFits
<1> QED
  BY <1>2 DEF StepFits, PreparingFits, DoneFits, CarryingFits, PublishingFits,
     Preparing, Publishing, Carrying

\* A step of one run: what is left to show is about that run.
LEMMA OneRun ==
    ASSUME IInv, TypeOK', Growing, NEW r \in Runs, RecordFits(r)', StepFits(r)',
           \A q \in Runs \ {r} : Same(q)
    PROVE  IInv'
<1>1. ASSUME NEW q \in Runs PROVE Fits(q)'
  <2>1. CASE q = r
    BY <2>1 DEF Fits
  <2>2. CASE q # r
    <3>1. Same(q) /\ TypeOK /\ Fits(q)
      BY <2>2 DEF IInv
    <3>2. RecordFits(q)'
      BY <3>1, RecordKept DEF Same, Fits
    <3>3. StepFits(q)'
      BY <3>1, StepKept
    <3> QED
      BY <3>2, <3>3 DEF Fits
  <2> QED
    BY <2>1, <2>2
<1> QED
  BY <1>1 DEF IInv

-----------------------------------------------------------------------------
(* Steps of a process *)

LEMMA Goes ==
    ASSUME TypeOK, NEW r \in Runs, NEW step \in AnyStep, Go(r, step)
    PROVE  /\ pc' \in [Runs -> AnyStep] /\ job' \in [Runs -> JobType]
           /\ pc'[r] = step /\ job'[r] = job[r] /\ \A q \in Runs \ {r} : SameStep(q)
  BY DEF TypeOK, Go, SameStep

LEMMA NoJobType == NoJob \in JobType
  BY WorktreesAssumption DEF NoJob, JobType

LEMMA Ends ==
    ASSUME TypeOK, NEW r \in Runs, Refuse(r)
    PROVE  /\ pc' \in [Runs -> AnyStep] /\ job' \in [Runs -> JobType]
           /\ pc'[r] = "idle" /\ job'[r] = NoJob /\ \A q \in Runs \ {r} : SameStep(q)
           /\ StepFits(r)'
<1>1. pc' \in [Runs -> AnyStep] /\ pc'[r] = "idle"
  BY DEF TypeOK, Refuse, AnyStep
<1>2. job' \in [Runs -> JobType] /\ job'[r] = NoJob
  BY NoJobType DEF TypeOK, Refuse
<1> QED
  BY <1>1, <1>2, EndedFits DEF Refuse, SameStep, TypeOK

\* A step that changes nothing but where processes stand, and mirrors.
Quiet == UNCHANGED <<world, tree, edits, records, moved>>

LEMMA QuietStep ==
    ASSUME IInv, Quiet, mirror' \in [Repos -> MirrorType], \A k \in Repos : There(k) => There(k)',
           NEW r \in Runs, pc' \in [Runs -> AnyStep], job' \in [Runs -> JobType],
           \A q \in Runs \ {r} : SameStep(q), StepFits(r)'
    PROVE  IInv'
<1>1. TypeOK' /\ Growing
  BY WorktreesAssumption DEF IInv, Quiet, TypeOK, WorldType, RecordsType, world, records, Growing
<1>2. \A q \in Runs : SameRecord(q) /\ SameTrees(q)
  BY DEF Quiet, world, records, SameRecord, SameTrees
<1>3. RecordFits(r)'
  BY <1>1, <1>2, RecordKept DEF IInv, Fits
<1> QED
  BY <1>1, <1>2, <1>3, OneRun DEF Same

LEMMA QuietEnd ==
    ASSUME IInv, Quiet, UNCHANGED mirror, NEW r \in Runs, Refuse(r)
    PROVE  IInv'
<1>1. TypeOK
  BY DEF IInv
<1>2. mirror' \in [Repos -> MirrorType] /\ \A k \in Repos : There(k) => There(k)'
  BY <1>1 DEF TypeOK, WorldType, There
<1> QED
  BY <1>1, <1>2, Ends, QuietStep

\* ... when the mirror stays, too.
LEMMA QuietMove ==
    ASSUME IInv, Quiet, UNCHANGED mirror, NEW r \in Runs,
           pc' \in [Runs -> AnyStep], job' \in [Runs -> JobType],
           \A q \in Runs \ {r} : SameStep(q), StepFits(r)'
    PROVE  IInv'
<1>1. mirror' \in [Repos -> MirrorType] /\ \A k \in Repos : There(k) => There(k)'
  BY DEF IInv, TypeOK, WorldType, There
<1> QED
  BY <1>1, QuietStep

\* Between the steps that look at the mirror a call keeps what it has.
LEMMA Onwards ==
    ASSUME IInv, Quiet, NEW r \in Runs, \A k \in Repos : There(k) => There(k)',
           pc[r] \in {"look", "mirror", "clone", "cloning", "origin", "fetch"},
           pc'[r] \in {"mirror", "clone", "cloning", "origin", "fetch", "refs"},
           pc'[r] = "refs" => There(Key(r))',
           job'[r].n = job[r].n, job'[r].at = job[r].at, job'[r].bases = job[r].bases
    PROVE  StepFits(r)'
<1>1. StepFits(r) /\ RecordFits(r) /\ TypeOK
  BY DEF IInv, Fits
<1>2. pc[r] \in Preparing /\ pc[r] \notin Making \cup {"ready", "save", "refs"}
  BY DEF Preparing, Making
<1>3. pc'[r] \in Preparing /\ pc'[r] \notin Making \cup {"ready", "save"} \cup Carrying \cup Publishing
      /\ pc'[r] # "idle"
  BY DEF Preparing, Making, Carrying, Publishing
<1>4. Ws(r)' = Ws(r) /\ Key(r)' = Key(r) /\ Saved(Ws(r))' = Saved(Ws(r))
  BY DEF Ws, Key, Saved, Quiet, records
<1>5. JobFits(r)'
  BY <1>1, <1>3 DEF StepFits, JobFits
<1>6. PreparingFits(r)'
  BY <1>1, <1>2, <1>3, <1>4 DEF StepFits, PreparingFits, Refreshing, Quiet, records, Making
<1>7. DoneFits(r)'
  <2> SUFFICES ASSUME NEW i \in 1..Len(job[r].bases)
               PROVE  LET t == tree'[W(r, i, job[r].n)] IN
                      /\ There(KeysOf[r][i])'
                      /\ Whole(t) /\ t.branch = Base(job[r].bases[i]) /\ t.files <= edits'
    BY DEF DoneFits, Whole, W
  <2>1. i \in DOMAIN KeysOf[r]
    BY <1>1, <1>2, KeysAreSequences DEF StepFits, PreparingFits, JobFits
  <2>2. KeysOf[r][i] \in Repos
    BY <2>1 DEF Repos
  <2> QED
    BY <1>1, <1>2, <2>2 DEF StepFits, DoneFits, Quiet
<1>8. expected[r] = NoCommit
  BY <1>1, <1>2 DEF RecordFits, ExpectedFits, TestedFits, StepFits, PreparingFits, Refreshing
<1>9. CarryingFits(r)' /\ PublishingFits(r)'
  BY <1>3, <1>8 DEF CarryingFits, PublishingFits, Quiet, records, Carrying, Publishing
<1> QED
  BY <1>5, <1>6, <1>7, <1>9 DEF StepFits

-----------------------------------------------------------------------------
(* Mirrors *)

LEMMA MirrorChanges ==
    ASSUME IInv, NEW r \in Runs, NEW m \in MirrorType, SetMirror(r, m),
           There(Key(r)) => m.is \in {"whole", "ruined"}
    PROVE  /\ mirror' \in [Repos -> MirrorType] /\ \A k \in Repos : There(k) => There(k)'
           /\ mirror'[Key(r)] = m /\ Key(r) \in Repos
<1>1. TypeOK /\ JobFits(r)
  BY DEF IInv, Fits, StepFits
<1>2. Key(r) \in Repos
  BY <1>1, OwnWorkspace
<1> QED
  BY <1>1, <1>2 DEF SetMirror, TypeOK, WorldType, There

LEMMA FindMirrorFits == ASSUME IInv, NEW r \in Runs, FindMirror(r) PROVE IInv'
<1>1. TypeOK /\ Quiet /\ UNCHANGED mirror
  BY DEF IInv, FindMirror, Quiet
<1>2. Key(r) \in Repos
  BY OwnWorkspace DEF IInv, Fits, StepFits
<1>3. CASE mirror[Key(r)].origin = "remote"
  <2>1. pc' = [pc EXCEPT ![r] = "fetch"] /\ job' = [job EXCEPT ![r].source = source[Key(r)]]
        /\ pc[r] = "mirror"
    BY <1>3 DEF FindMirror
  <2>2. pc' \in [Runs -> AnyStep] /\ job' \in [Runs -> JobType]
    BY <1>1, <1>2, <2>1 DEF TypeOK, WorldType, AnyStep, Preparing, JobType
  <2>3. pc'[r] = "fetch" /\ \A q \in Runs \ {r} : SameStep(q)
    BY <1>1, <2>1 DEF TypeOK, SameStep
  <2>4. job'[r].n = job[r].n /\ job'[r].at = job[r].at /\ job'[r].bases = job[r].bases
    BY <1>1, <2>1 DEF TypeOK, JobType
  <2>5. StepFits(r)'
    BY <1>1, <2>1, <2>3, <2>4, Onwards DEF There
  <2> QED
    BY <1>1, <2>2, <2>3, <2>5, QuietMove
<1>4. CASE mirror[Key(r)].origin # "remote"
  BY <1>1, <1>4, QuietEnd DEF FindMirror
<1> QED
  BY <1>3, <1>4

LEMMA DamagedFits == ASSUME IInv, NEW r \in Runs, Damaged(r) PROVE IInv'
  BY QuietEnd DEF Damaged, Quiet

LEMMA MissMirrorFits == ASSUME IInv, NEW r \in Runs, MissMirror(r) PROVE IInv'
<1>1. TypeOK /\ Quiet /\ UNCHANGED mirror
  BY DEF IInv, MissMirror, Quiet
<1>2. Key(r) \in Repos
  BY OwnWorkspace DEF IInv, Fits, StepFits
<1>3. pc' = [pc EXCEPT ![r] = "clone"] /\ job' = [job EXCEPT ![r].source = source[Key(r)]]
      /\ pc[r] = "mirror"
  BY DEF MissMirror
<1>4. pc' \in [Runs -> AnyStep] /\ job' \in [Runs -> JobType]
  BY <1>1, <1>2, <1>3 DEF TypeOK, WorldType, AnyStep, Preparing, JobType
<1>5. pc'[r] = "clone" /\ \A q \in Runs \ {r} : SameStep(q)
  BY <1>1, <1>3 DEF TypeOK, SameStep
<1>6. job'[r].n = job[r].n /\ job'[r].at = job[r].at /\ job'[r].bases = job[r].bases
  BY <1>1, <1>3 DEF TypeOK, JobType
<1>7. StepFits(r)'
  BY <1>1, <1>3, <1>5, <1>6, Onwards DEF There
<1> QED
  BY <1>1, <1>4, <1>5, <1>7, QuietMove

LEMMA BeginCloneFits == ASSUME IInv, NEW r \in Runs, BeginClone(r) PROVE IInv'
<1>1. TypeOK /\ Quiet /\ pc[r] = "clone"
  BY DEF IInv, BeginClone, Quiet
<1>2. CASE mirror[Key(r)].is = "none"
  <2> DEFINE m == [NoMirror EXCEPT !.is = "partial",
                        !.origin = IF Key(r) \in uses THEN "source" ELSE "remote"]
  <2>1. SetMirror(r, m) /\ Go(r, "cloning")
    BY <1>2 DEF BeginClone
  <2>2. m \in MirrorType
    <3>1. NoMirror \in MirrorType
      BY WorktreesAssumption DEF NoMirror, MirrorType
    <3>2. (IF Key(r) \in uses THEN "source" ELSE "remote") \in {"remote", "source"}
      OBVIOUS
    <3> QED
      BY <3>1, <3>2 DEF MirrorType
  <2> HIDE DEF m
  <2>3. mirror' \in [Repos -> MirrorType] /\ \A k \in Repos : There(k) => There(k)'
    BY <1>2, <2>1, <2>2, MirrorChanges DEF There
  <2>4. /\ pc' \in [Runs -> AnyStep] /\ job' \in [Runs -> JobType]
        /\ pc'[r] = "cloning" /\ job'[r] = job[r] /\ \A q \in Runs \ {r} : SameStep(q)
    BY <1>1, <2>1, Goes DEF AnyStep, Preparing
  <2>5. StepFits(r)'
    BY <1>1, <2>3, <2>4, Onwards
  <2> QED
    BY <1>1, <2>3, <2>4, <2>5, QuietStep
<1>3. CASE mirror[Key(r)].is # "none"
  BY <1>1, <1>3, QuietEnd DEF BeginClone
<1> QED
  BY <1>2, <1>3

LEMMA SetOriginFits == ASSUME IInv, NEW r \in Runs, SetOrigin(r) PROVE IInv'
<1> DEFINE m == [mirror[Key(r)] EXCEPT !.origin = "remote"]
<1>1. TypeOK /\ Quiet /\ pc[r] = "origin" /\ SetMirror(r, m) /\ Go(r, "fetch")
  BY DEF IInv, SetOrigin, Quiet
<1>2. Key(r) \in Repos
  BY OwnWorkspace DEF IInv, Fits, StepFits
<1>3. m \in MirrorType /\ m.is = mirror[Key(r)].is
  BY <1>1, <1>2 DEF TypeOK, WorldType, MirrorType
<1> HIDE DEF m
<1>4. mirror' \in [Repos -> MirrorType] /\ \A k \in Repos : There(k) => There(k)'
  BY <1>1, <1>3, MirrorChanges DEF There
<1>5. /\ pc' \in [Runs -> AnyStep] /\ job' \in [Runs -> JobType]
      /\ pc'[r] = "fetch" /\ job'[r] = job[r] /\ \A q \in Runs \ {r} : SameStep(q)
  BY <1>1, Goes DEF AnyStep, Preparing
<1>6. StepFits(r)'
  BY <1>1, <1>4, <1>5, Onwards
<1> QED
  BY <1>1, <1>4, <1>5, <1>6, QuietStep

LEMMA FetchFits == ASSUME IInv, NEW r \in Runs, Fetch(r) PROVE IInv'
<1>1. TypeOK /\ Quiet /\ pc[r] = "fetch" /\ SetMirror(r, Fetched(Key(r)))
  BY DEF IInv, Fetch, Quiet
<1>2. Key(r) \in Repos
  BY OwnWorkspace DEF IInv, Fits, StepFits
<1>3. Fetched(Key(r)) \in MirrorType /\ Fetched(Key(r)).is = "whole"
  <2>1. {w \in InRepo(Key(r)) : remote[w] # NoCommit} \subseteq Workspaces
    BY DEF InRepo
  <2> QED
    BY <1>1, <1>2, <2>1 DEF TypeOK, WorldType, MirrorType, Fetched
<1>4. mirror' \in [Repos -> MirrorType] /\ (\A k \in Repos : There(k) => There(k)')
      /\ mirror'[Key(r)].is = "whole"
  BY <1>1, <1>3, MirrorChanges
<1>5. CASE Refuse(r)
  BY <1>1, <1>4, <1>5, Ends, QuietStep
<1>6. CASE Go(r, "refs")
  <2>1. /\ pc' \in [Runs -> AnyStep] /\ job' \in [Runs -> JobType]
        /\ pc'[r] = "refs" /\ job'[r] = job[r] /\ \A q \in Runs \ {r} : SameStep(q)
    BY <1>1, <1>6, Goes DEF AnyStep, Preparing
  <2>2. There(Key(r))'
    BY <1>4, <2>1 DEF There, Key
  <2>3. StepFits(r)'
    BY <1>1, <1>4, <2>1, <2>2, Onwards
  <2> QED
    BY <1>1, <1>4, <2>1, <2>3, QuietStep
<1> QED
  BY <1>5, <1>6 DEF Fetch

LEMMA CloneTooLateFits == ASSUME IInv, NEW r \in Runs, CloneTooLate(r) PROVE IInv'
<1>1. TypeOK /\ Quiet /\ mirror[Key(r)].is = "whole"
  BY DEF IInv, CloneTooLate, Quiet
<1>2. CASE Refuse(r) /\ UNCHANGED mirror
  BY <1>1, <1>2, QuietEnd
<1>3. CASE /\ SetMirror(r, [NoMirror EXCEPT !.is = "ruined"])
           /\ pc' = [q \in Runs |-> IF Has(q, Key(r)) THEN "stopped" ELSE pc[q]]
           /\ UNCHANGED job
  <2> DEFINE m == [NoMirror EXCEPT !.is = "ruined"]
  <2>1. m \in MirrorType /\ m.is = "ruined"
    BY WorktreesAssumption DEF NoMirror, MirrorType
  <2> HIDE DEF m
  <2>2. mirror' \in [Repos -> MirrorType] /\ \A k \in Repos : There(k) => There(k)'
    BY <1>3, <2>1, MirrorChanges DEF m
  <2>3. Has(r, Key(r))
    BY DEF Has, Key, IInv, Fits, StepFits, JobFits
  <2>4. pc' \in [Runs -> AnyStep] /\ job' \in [Runs -> JobType] /\ pc'[r] = "stopped"
        /\ \A q \in Runs \ {r} : SameStep(q)
    BY <1>1, <1>3, <2>3 DEF TypeOK, AnyStep, SameStep
  <2>5. StepFits(r)'
    <3>1. JobFits(r)'
      BY <1>3, <2>4 DEF IInv, Fits, StepFits, JobFits
    <3> QED
      BY <2>4, <3>1 DEF StepFits, PreparingFits, DoneFits, CarryingFits, PublishingFits,
         Preparing, Publishing, Carrying
  <2> QED
    BY <1>1, <2>2, <2>4, <2>5, QuietStep
<1> QED
  BY <1>2, <1>3 DEF CloneTooLate

\* A clone changes branches of a repository that nobody has a worktree of.
LEMMA ClonedChanges ==
    ASSUME IInv, NEW k \in Repos, mirror[k].is = "partial", Cloned(k),
           UNCHANGED <<world, edits, records, moved>>,
           pc' \in [Runs -> AnyStep], job' \in [Runs -> JobType]
    PROVE  TypeOK' /\ Growing /\ \A q \in Runs : SameRecord(q) /\ SameTrees(q)
<1>1. TypeOK
  BY DEF IInv
<1>2. mirror' \in [Repos -> MirrorType] /\ \A j \in Repos : There(j) => There(j)'
  BY <1>1 DEF Cloned, TypeOK, WorldType, MirrorType, There
<1>3. tree' \in [Workspaces -> TreeType]
  <2>1. \A w \in Workspaces : [tree[w] EXCEPT !.branch = remote[w]] \in TreeType /\ tree[w] \in TreeType
    BY <1>1 DEF TypeOK, WorldType, TreeType
  <2> QED
    BY <2>1 DEF Cloned
<1>4. TypeOK'
  BY <1>1, <1>2, <1>3 DEF TypeOK, WorldType, RecordsType, world, records
<1>5. Growing
  BY <1>1, <1>2, WorktreesAssumption DEF Growing, TypeOK
<1>6. \A q \in Runs : SameRecord(q)
  BY DEF SameRecord, world, records
<1>7. \A q \in Runs : SameTrees(q)
  <2> SUFFICES ASSUME NEW w \in Workspaces, There(RepoOf(w)) PROVE tree'[w] = tree[w]
    BY DEF SameTrees
  <2>1. RepoOf(w) # k
    BY DEF There
  <2> QED
    BY <2>1 DEF Cloned
<1> QED
  BY <1>4, <1>5, <1>6, <1>7

LEMMA EndCloneFits == ASSUME IInv, NEW r \in Runs, EndClone(r) PROVE IInv'
<1>1. TypeOK /\ StepFits(r) /\ RecordFits(r) /\ pc[r] = "cloning" /\ mirror[Key(r)].is = "partial"
      /\ UNCHANGED <<world, edits, records, moved>>
  BY DEF IInv, Fits, EndClone
<1>2. Key(r) \in Repos
  BY <1>1, OwnWorkspace DEF StepFits
<1>3. CASE Cloned(Key(r)) /\ Go(r, IF Key(r) \in uses THEN "origin" ELSE "fetch")
  <2> DEFINE step == IF Key(r) \in uses THEN "origin" ELSE "fetch"
  <2>1. step \in {"origin", "fetch"} /\ step \in AnyStep
    BY DEF AnyStep, Preparing
  <2> HIDE DEF step
  <2>2. /\ pc' \in [Runs -> AnyStep] /\ job' \in [Runs -> JobType]
        /\ pc'[r] = step /\ job'[r] = job[r] /\ \A q \in Runs \ {r} : SameStep(q)
    BY <1>1, <1>3, <2>1, Goes DEF step
  <2>3. TypeOK' /\ Growing /\ \A q \in Runs : SameRecord(q) /\ SameTrees(q)
    BY <1>1, <1>2, <1>3, <2>2, ClonedChanges
  <2>4. RecordFits(r)'
    BY <1>1, <2>3, RecordKept
  <2>5. StepFits(r)'
    <3>1. pc[r] \in Preparing /\ pc[r] \notin Making \cup {"ready", "save", "refs", "add", "adding"}
      BY <1>1 DEF Preparing, Making
    <3>2. pc'[r] \in Preparing
          /\ pc'[r] \notin Making \cup {"ready", "save", "refs", "add", "adding", "idle"}
          /\ pc'[r] \notin Carrying \cup Publishing
      BY <2>1, <2>2 DEF Preparing, Making, Carrying, Publishing
    <3>3. Ws(r)' = Ws(r) /\ Saved(Ws(r))' = Saved(Ws(r))
      BY <1>1, <2>2 DEF Ws, Key, Saved, records
    <3>4. JobFits(r)'
      BY <1>1, <2>2, <3>2 DEF StepFits, JobFits
    <3>5. PreparingFits(r)'
      BY <1>1, <2>2, <3>1, <3>2, <3>3 DEF StepFits, PreparingFits, Refreshing, records
    <3>6. DoneFits(r)'
      <4> SUFFICES ASSUME NEW i \in 1..Len(job[r].bases)
                   PROVE  LET t == tree'[W(r, i, job[r].n)] IN
                          /\ There(KeysOf[r][i])'
                          /\ Whole(t) /\ t.branch = Base(job[r].bases[i]) /\ t.files <= edits'
        BY <2>2 DEF DoneFits, Whole, W
      <4>1. i \in DOMAIN KeysOf[r]
        BY <1>1, <3>1, KeysAreSequences DEF StepFits, PreparingFits, JobFits
      <4>2. W(r, i, job[r].n) \in Workspaces /\ RunOf(W(r, i, job[r].n)) = r
            /\ RepoOf(W(r, i, job[r].n)) = KeysOf[r][i] /\ KeysOf[r][i] \in Repos
        BY <1>1, <4>1, WorkspaceOf DEF StepFits, JobFits
      <4>3. /\ There(KeysOf[r][i]) /\ Whole(tree[W(r, i, job[r].n)])
            /\ tree[W(r, i, job[r].n)].branch = Base(job[r].bases[i])
            /\ tree[W(r, i, job[r].n)].files <= edits
        BY <1>1, <3>1 DEF StepFits, DoneFits
      <4> QED
        BY <1>1, <2>3, <4>2, <4>3 DEF Growing, SameTrees
    <3>7. expected[r] = NoCommit
      BY <1>1, <3>1 DEF RecordFits, ExpectedFits, TestedFits, StepFits, PreparingFits, Refreshing
    <3>8. CarryingFits(r)' /\ PublishingFits(r)'
      BY <1>1, <3>2, <3>7 DEF CarryingFits, PublishingFits, records, Carrying, Publishing
    <3> QED
      BY <3>4, <3>5, <3>6, <3>8 DEF StepFits
  <2> QED
    BY <2>2, <2>3, <2>4, <2>5, OneRun DEF Same
<1>4. CASE SetMirror(r, NoMirror) /\ Refuse(r) /\ UNCHANGED tree
  <2>1. NoMirror \in MirrorType
    BY WorktreesAssumption DEF NoMirror, MirrorType
  <2>2. mirror' \in [Repos -> MirrorType] /\ \A k \in Repos : There(k) => There(k)'
    BY <1>1, <1>4, <2>1, MirrorChanges DEF There
  <2> QED
    BY <1>1, <1>4, <2>2, Ends, QuietStep DEF Quiet
<1> QED
  BY <1>3, <1>4 DEF EndClone

-----------------------------------------------------------------------------
(* Preparing a worktree *)

LEMMA NotYetSaved ==
    ASSUME IInv, NEW r \in Runs, pc[r] \in Preparing
    PROVE  ~Saved(Ws(r)) /\ expected[r] = NoCommit
<1>1. TypeOK /\ StepFits(r) /\ RecordFits(r)
  BY DEF IInv, Fits
<1>2. Ws(r) \in Workspaces /\ RunOf(Ws(r)) = r
  BY <1>1, OwnWorkspace DEF StepFits
<1> QED
  BY <1>1, <1>2 DEF StepFits, PreparingFits, RecordFits, NamesFit, ExpectedFits, TestedFits,
     Refreshing

LEMMA OwnTreeChanges ==
    ASSUME IInv, NEW r \in Runs, pc[r] \in Preparing, NEW t \in TreeType, SetTree(r, t),
           UNCHANGED <<world, mirror, edits, records, moved>>,
           pc' \in [Runs -> AnyStep], job' \in [Runs -> JobType]
    PROVE  /\ TypeOK' /\ Growing /\ RecordFits(r)'
           /\ \A q \in Runs \ {r} : SameRecord(q) /\ SameTrees(q)
           /\ tree'[Ws(r)] = t
           /\ \A w \in Workspaces : w # Ws(r) => tree'[w] = tree[w]
<1>1. TypeOK /\ StepFits(r) /\ RecordFits(r)
  BY DEF IInv, Fits
<1>2. Ws(r) \in Workspaces /\ RunOf(Ws(r)) = r
  BY <1>1, OwnWorkspace DEF StepFits
<1>3. /\ tree' \in [Workspaces -> TreeType] /\ tree'[Ws(r)] = t
      /\ \A w \in Workspaces : w # Ws(r) => tree'[w] = tree[w]
  BY <1>1, <1>2 DEF TypeOK, SetTree
<1>4. TypeOK' /\ Growing
  BY <1>1, <1>3, WorktreesAssumption DEF TypeOK, WorldType, RecordsType, world, records, Growing,
     There
<1>5. \A q \in Runs \ {r} : SameRecord(q) /\ SameTrees(q)
  BY <1>2, <1>3 DEF SameRecord, SameTrees, world, records
<1>6. RecordFits(r)'
  <2>1. ~Saved(Ws(r)) /\ expected[r] = NoCommit
    BY NotYetSaved
  <2>2. NamesFit(r)'
    <3>1. \A w \in Workspaces : Saved(w) => tree'[w] = tree[w]
      BY <1>3, <2>1
    <3>2. NamesFit(r)
      BY <1>1 DEF RecordFits
    <3> QED
      BY <3>1, <3>2 DEF NamesFit, Saved, W, WholeOnBase, There, records
  <2>3. TestedFits(r)' /\ CarriedFits(r)' /\ ExpectedFits(r)'
    BY <1>1, <2>1 DEF RecordFits, TestedFits, CarriedFits, ExpectedFits, records
  <2>4. RemoteFits(r)'
    BY <1>1 DEF RecordFits, RemoteFits, Kept, AsExpected, world, records
  <2> QED
    BY <2>2, <2>3, <2>4 DEF RecordFits
<1> QED
  BY <1>3, <1>4, <1>5, <1>6

\* A step at the repository that is being prepared.
LEMMA MakingStep ==
    ASSUME IInv, NEW r \in Runs, pc[r] \in Making \cup {"refs"},
           UNCHANGED <<mirror, edits, records>>,
           \A w \in Workspaces : w # Ws(r) => tree'[w] = tree[w],
           pc'[r] \in Making \cup {"ready"},
           job'[r].n = job[r].n, job'[r].at = job[r].at,
           \/ pc[r] \in Making /\ job'[r].bases = job[r].bases
           \/ pc[r] = "refs" /\ \E b \in 0..MaxBase : job'[r].bases = Append(job[r].bases, b),
           pc'[r] \in {"add", "adding", "ready"} =>
               tree'[Ws(r)].branch = Base(job'[r].bases[job[r].at]),
           pc'[r] = "ready" => Whole(tree'[Ws(r)]) /\ tree'[Ws(r)].files <= edits
    PROVE  StepFits(r)'
<1>1. TypeOK /\ StepFits(r) /\ RecordFits(r)
  BY DEF IInv, Fits
<1>2. pc[r] \in Preparing /\ pc[r] \notin {"ready", "save"}
  BY DEF Preparing, Making
<1>3. pc'[r] \in Preparing /\ pc'[r] \notin {"idle", "save", "refs"} \cup Carrying \cup Publishing
  BY DEF Preparing, Making, Carrying, Publishing
<1>4. Ws(r)' = Ws(r) /\ Key(r)' = Key(r) /\ Saved(Ws(r))' = Saved(Ws(r))
  BY DEF Ws, Key, Saved, records
<1>5. JobFits(r)'
  BY <1>1, <1>3 DEF StepFits, JobFits
<1>6. job[r].at \in Nat \ {0} /\ job[r].bases \in Seq(0..MaxBase)
  BY <1>1, KeysAreSequences DEF StepFits, JobFits, TypeOK, JobType
<1>7. /\ Len(job'[r].bases) = job[r].at
      /\ \A i \in 1..Len(job'[r].bases) : i # job[r].at =>
            i \in 1..Len(job[r].bases) /\ job'[r].bases[i] = job[r].bases[i]
  <2>1. CASE pc[r] \in Making
    BY <1>1, <1>2, <2>1 DEF StepFits, PreparingFits, Making
  <2>2. CASE pc[r] = "refs"
    <3>1. Len(job[r].bases) = job[r].at - 1
      BY <1>1, <1>2, <2>2 DEF StepFits, PreparingFits, Making
    <3>2. PICK b \in 0..MaxBase : job'[r].bases = Append(job[r].bases, b)
      BY <2>2 DEF Making
    <3> QED
      BY <1>6, <3>1, <3>2
  <2> QED
    BY <2>1, <2>2
<1>8. There(Key(r)) /\ There(Key(r))'
  BY <1>1, <1>2, <1>4 DEF StepFits, PreparingFits, There, Making
<1>9. PreparingFits(r)'
  <2>1. Seen(r)' = job'[r].bases[job[r].at]
    BY DEF Seen
  <2>2. \/ job[r].n = 1 /\ current[r] = 0
        \/ Refreshing(r) /\ ~Saved(Ws(r))
    BY <1>1, <1>2 DEF StepFits, PreparingFits
  <2> QED
    BY <1>3, <1>4, <1>7, <1>8, <2>1, <2>2 DEF PreparingFits, Refreshing, records
<1>10. DoneFits(r)'
  <2> SUFFICES ASSUME NEW i \in 1..Len(job'[r].bases), i # job[r].at \/ pc'[r] = "ready"
               PROVE  LET t == tree'[W(r, i, job[r].n)] IN
                      /\ There(KeysOf[r][i])'
                      /\ Whole(t) /\ t.branch = Base(job'[r].bases[i]) /\ t.files <= edits'
    BY DEF DoneFits, Whole, W
  <2>1. i \in DOMAIN KeysOf[r]
    BY <1>1, <1>6, <1>7, KeysAreSequences DEF StepFits, JobFits
  <2>2. CASE i = job[r].at
    <3>1. W(r, i, job[r].n) = Ws(r) /\ KeysOf[r][i] = Key(r)
      BY <2>2 DEF W, Ws, Key
    <3> QED
      BY <1>8, <2>2, <3>1 DEF There
  <2>3. CASE i # job[r].at
    <3>1. i \in 1..Len(job[r].bases) /\ job'[r].bases[i] = job[r].bases[i]
      BY <1>7, <2>3
    <3>2. W(r, i, job[r].n) # Ws(r)
      BY <1>1, <2>1, <2>3, KeysAreSequences DEF W, Ws, Key, StepFits, JobFits
    <3>3. W(r, i, job[r].n) \in Workspaces
      BY <1>1, <2>1, WorkspaceOf DEF StepFits, JobFits
    <3>4. tree'[W(r, i, job[r].n)] = tree[W(r, i, job[r].n)]
      BY <3>2, <3>3
    <3>5. /\ There(KeysOf[r][i]) /\ Whole(tree[W(r, i, job[r].n)])
          /\ tree[W(r, i, job[r].n)].branch = Base(job[r].bases[i])
          /\ tree[W(r, i, job[r].n)].files <= edits
      BY <1>1, <1>2, <2>3, <3>1 DEF StepFits, DoneFits
    <3> QED
      BY <3>1, <3>4, <3>5 DEF There
  <2> QED
    BY <2>2, <2>3
<1>11. CarryingFits(r)' /\ PublishingFits(r)'
  BY <1>2, <1>3, NotYetSaved DEF CarryingFits, PublishingFits, records, Carrying, Publishing
<1> QED
  BY <1>5, <1>9, <1>10, <1>11 DEF StepFits

LEMMA LookFits == ASSUME IInv, NEW r \in Runs, Look(r) PROVE IInv'
<1>1. TypeOK /\ StepFits(r) /\ RecordFits(r) /\ Quiet /\ UNCHANGED mirror
  BY DEF IInv, Fits, Look, Quiet
<1>2. CASE Refuse(r)
  BY <1>1, <1>2, QuietEnd
<1>3. CASE ~Refuse(r)
  <2>1. PICK mode \in {"prepare", "recover"} :
           pc' = [pc EXCEPT ![r] = "mirror"] /\ job' = [job EXCEPT ![r].mode = mode]
    BY <1>3, Zenon DEF Look
  <2>2. pc' \in [Runs -> AnyStep] /\ job' \in [Runs -> JobType]
    BY <1>1, <2>1 DEF TypeOK, AnyStep, Preparing, JobType
  <2>3. pc'[r] = "mirror" /\ \A q \in Runs \ {r} : SameStep(q)
    BY <1>1, <2>1 DEF TypeOK, SameStep
  <2>4. job'[r].n = job[r].n /\ job'[r].at = job[r].at /\ job'[r].bases = job[r].bases
    BY <1>1, <2>1 DEF TypeOK, JobType
  <2>5. StepFits(r)'
    <3>1. CASE pc[r] = "look"
      BY <1>1, <2>3, <2>4, <3>1, Onwards DEF There
    <3>2. CASE pc[r] = "idle" /\ current[r] = 0
      <4>1. job[r] = NoJob /\ expected[r] = NoCommit
        BY <1>1, <3>2 DEF StepFits, JobFits, RecordFits, ExpectedFits, TestedFits
      <4>2. job'[r].n = 1 /\ job'[r].at = 1 /\ job'[r].bases = <<>>
        BY <2>4, <4>1 DEF NoJob
      <4>3. JobFits(r)'
        BY <1>1, <2>3, <2>4 DEF StepFits, JobFits
      <4> QED
        BY <1>1, <2>3, <3>2, <4>1, <4>2, <4>3 DEF StepFits, PreparingFits, DoneFits, CarryingFits,
           PublishingFits, Quiet, records, Making, Carrying, Publishing
    <3> QED
      BY <3>1, <3>2 DEF Look
  <2> QED
    BY <1>1, <2>2, <2>3, <2>5, QuietMove
<1> QED
  BY <1>2, <1>3

LEMMA Resolves ==
    ASSUME IInv, NEW r \in Runs, pc[r] = "refs", NEW step \in {"reserve", "ready"}, Resolve(r, step)
    PROVE  LET b == mirror[Key(r)].tracked IN
           /\ b \in 0..MaxBase /\ job[r].at \in Nat
           /\ pc' \in [Runs -> AnyStep] /\ job' \in [Runs -> JobType]
           /\ pc'[r] = step /\ \A q \in Runs \ {r} : SameStep(q)
           /\ job'[r].n = job[r].n /\ job'[r].at = job[r].at
           /\ job'[r].bases = Append(job[r].bases, b) /\ job'[r].bases[job[r].at] = b
<1>1. TypeOK /\ StepFits(r)
  BY DEF IInv, Fits
<1>2. Key(r) \in Repos
  BY <1>1, OwnWorkspace DEF StepFits
<1> DEFINE b == mirror[Key(r)].tracked
<1>3. b \in 0..MaxBase
  BY <1>1, <1>2 DEF TypeOK, WorldType, MirrorType
<1>4. pc' = [pc EXCEPT ![r] = step] /\ job' = [job EXCEPT ![r].bases = Append(@, b)]
  BY DEF Resolve
<1>5. job[r].bases \in Seq(0..MaxBase) /\ Append(job[r].bases, b) \in Seq(0..MaxBase)
  BY <1>1, <1>3 DEF TypeOK, JobType
<1>6. job' \in [Runs -> JobType] /\ job'[r].n = job[r].n /\ job'[r].at = job[r].at
      /\ job'[r].bases = Append(job[r].bases, b)
  BY <1>1, <1>4, <1>5 DEF TypeOK, JobType
<1>7. Len(job[r].bases) = job[r].at - 1 /\ job[r].at \in Nat
  BY <1>1 DEF StepFits, PreparingFits, Preparing, Making, TypeOK, JobType
<1>8. job'[r].bases[job[r].at] = b
  BY <1>5, <1>6, <1>7
<1>9. pc' \in [Runs -> AnyStep] /\ pc'[r] = step /\ \A q \in Runs \ {r} : SameStep(q)
  BY <1>1, <1>4 DEF TypeOK, AnyStep, Preparing, SameStep
<1> QED
  BY <1>3, <1>6, <1>7, <1>8, <1>9

LEMMA ReadRefsFits == ASSUME IInv, NEW r \in Runs, ReadRefs(r) PROVE IInv'
<1>1. Quiet /\ UNCHANGED mirror /\ pc[r] = "refs"
  BY DEF ReadRefs, Quiet
<1>2. CASE Refuse(r)
  BY <1>1, <1>2, QuietEnd
<1>3. CASE Resolve(r, "reserve")
  <2>1. StepFits(r)'
    BY <1>1, <1>3, Resolves, MakingStep DEF Quiet, Making
  <2> QED
    BY <1>1, <1>3, <2>1, Resolves, QuietMove
<1> QED
  BY <1>2, <1>3 DEF ReadRefs

LEMMA RecoverFits == ASSUME IInv, NEW r \in Runs, Recover(r) PROVE IInv'
<1>1. Quiet /\ UNCHANGED mirror /\ pc[r] = "refs"
  BY DEF Recover, Quiet
<1>2. CASE Refuse(r)
  BY <1>1, <1>2, QuietEnd
<1>3. CASE Resolve(r, "ready") /\ Recoverable(tree[Ws(r)], mirror[Key(r)].tracked)
  <2>1. Whole(tree[Ws(r)]) /\ tree[Ws(r)].branch = Base(mirror[Key(r)].tracked)
        /\ tree[Ws(r)].files = 0
    BY <1>3 DEF Recoverable, Clean, Base
  <2>2. 0 <= edits
    BY WorktreesAssumption DEF IInv, TypeOK
  <2>3. StepFits(r)'
    BY <1>1, <1>3, <2>1, <2>2, Resolves, MakingStep DEF Quiet, Making
  <2> QED
    BY <1>1, <1>3, <2>3, Resolves, QuietMove
<1> QED
  BY <1>2, <1>3 DEF Recover

LEMMA MakesTree ==
    ASSUME IInv, NEW r \in Runs, pc[r] \in Making, NEW t \in TreeType, SetTree(r, t),
           UNCHANGED <<world, mirror, edits, records, moved>>,
           NEW step \in Making \cup {"ready"}, Go(r, step),
           step \in {"add", "adding", "ready"} => t.branch = Base(Seen(r)),
           step = "ready" => Whole(t) /\ t.files <= edits
    PROVE  IInv'
<1>1. TypeOK /\ pc[r] \in Preparing /\ step \in AnyStep
  BY DEF IInv, Preparing, Making, AnyStep
<1>2. /\ pc' \in [Runs -> AnyStep] /\ job' \in [Runs -> JobType]
      /\ pc'[r] = step /\ job'[r] = job[r] /\ \A q \in Runs \ {r} : SameStep(q)
  BY <1>1, Goes
<1>3. /\ TypeOK' /\ Growing /\ RecordFits(r)'
      /\ \A q \in Runs \ {r} : SameRecord(q) /\ SameTrees(q)
      /\ tree'[Ws(r)] = t
      /\ \A w \in Workspaces : w # Ws(r) => tree'[w] = tree[w]
  BY <1>1, <1>2, OwnTreeChanges
<1>4. StepFits(r)'
  BY <1>2, <1>3, MakingStep DEF Seen
<1> QED
  BY <1>2, <1>3, <1>4, OneRun DEF Same

\* A call that ends while it changes its own workspace.
LEMMA EndsWithTree ==
    ASSUME IInv, NEW r \in Runs, pc[r] \in Preparing, NEW t \in TreeType, SetTree(r, t),
           UNCHANGED <<world, mirror, edits, records, moved>>, Refuse(r)
    PROVE  IInv'
<1>1. TypeOK
  BY DEF IInv
<1>2. /\ pc' \in [Runs -> AnyStep] /\ job' \in [Runs -> JobType] /\ StepFits(r)'
      /\ \A q \in Runs \ {r} : SameStep(q)
  BY <1>1, Ends
<1>3. /\ TypeOK' /\ Growing /\ RecordFits(r)'
      /\ \A q \in Runs \ {r} : SameRecord(q) /\ SameTrees(q)
  BY <1>2, OwnTreeChanges
<1> QED
  BY <1>2, <1>3, OneRun DEF Same

LEMMA OwnTree == ASSUME IInv, NEW r \in Runs PROVE tree[Ws(r)] \in TreeType
  BY OwnWorkspace DEF IInv, Fits, StepFits, TypeOK

LEMMA ReserveFits == ASSUME IInv, NEW r \in Runs, Reserve(r) PROVE IInv'
<1>1. pc[r] = "reserve" /\ UNCHANGED <<world, mirror, edits, records, moved>>
  BY DEF Reserve
<1>2. CASE Refuse(r) /\ UNCHANGED tree
  BY <1>1, <1>2, QuietEnd DEF Quiet
<1>3. CASE SetTree(r, [tree[Ws(r)] EXCEPT !.dir = "empty"]) /\ Go(r, "branch")
  <2>1. [tree[Ws(r)] EXCEPT !.dir = "empty"] \in TreeType
    BY OwnTree DEF TreeType
  <2> QED
    BY <1>1, <1>3, <2>1, MakesTree DEF Making
<1> QED
  BY <1>2, <1>3 DEF Reserve

\* The base a call has found for its repository.
LEMMA SeenIsCommit ==
    ASSUME IInv, NEW r \in Runs, pc[r] \in Making
    PROVE  Base(Seen(r)) \in AnyCommit
<1>1. StepFits(r) /\ TypeOK /\ pc[r] \in Preparing
  BY DEF IInv, Fits, Preparing, Making
<1>2. job[r].at \in 1..Len(job[r].bases) /\ job[r].bases \in Seq(0..MaxBase)
  BY <1>1, KeysAreSequences DEF StepFits, PreparingFits, JobFits, TypeOK, JobType
<1>3. Seen(r) \in 0..NoBase
  BY <1>2, WorktreesAssumption DEF Seen, NoBase
<1> QED
  BY <1>3 DEF Base, AnyCommit

LEMMA MakeBranchFits == ASSUME IInv, NEW r \in Runs, MakeBranch(r) PROVE IInv'
<1> DEFINE t == [tree[Ws(r)] EXCEPT !.branch = Base(Seen(r))]
<1>1. pc[r] = "branch" /\ UNCHANGED <<world, mirror, edits, records, moved>>
      /\ SetTree(r, t) /\ Go(r, "add")
  BY DEF MakeBranch
<1>2. t \in TreeType /\ t.branch = Base(Seen(r))
  BY <1>1, OwnTree, SeenIsCommit DEF TreeType, Making
<1> HIDE DEF t
<1> QED
  BY <1>1, <1>2, MakesTree DEF Making

LEMMA BeginAddFits == ASSUME IInv, NEW r \in Runs, BeginAdd(r) PROVE IInv'
<1> DEFINE t == [tree[Ws(r)] EXCEPT !.dir = "partial", !.registered = TRUE]
<1>1. pc[r] = "add" /\ UNCHANGED <<world, mirror, edits, records, moved>>
      /\ SetTree(r, t) /\ Go(r, "adding")
  BY DEF BeginAdd
<1>2. t \in TreeType /\ t.branch = tree[Ws(r)].branch
  BY OwnTree DEF TreeType
<1>3. tree[Ws(r)].branch = Base(Seen(r))
  BY <1>1 DEF IInv, Fits, StepFits, PreparingFits, Preparing
<1> HIDE DEF t
<1> QED
  BY <1>1, <1>2, <1>3, MakesTree DEF Making

LEMMA AddedIsTree ==
    ASSUME NEW t \in TreeType
    PROVE  Added(t) \in TreeType
  BY DEF Added, TreeType, AnyCommit

LEMMA EndAddFits == ASSUME IInv, NEW r \in Runs, EndAdd(r) PROVE IInv'
<1>1. pc[r] = "adding" /\ UNCHANGED <<world, mirror, edits, records, moved>>
      /\ SetTree(r, Added(tree[Ws(r)])) /\ Go(r, "check")
  BY DEF EndAdd
<1> QED
  BY <1>1, OwnTree, AddedIsTree, MakesTree DEF Making

LEMMA RemovedIsTree ==
    ASSUME NEW t \in TreeType, NEW added \in BOOLEAN
    PROVE  Removed(t, added) \in TreeType
  BY DEF Removed, TreeType

LEMMA CheckNewFits == ASSUME IInv, NEW r \in Runs, CheckNew(r) PROVE IInv'
<1>1. pc[r] = "check" /\ UNCHANGED <<world, mirror, edits, records, moved>>
  BY DEF CheckNew
<1>2. CASE Go(r, "ready") /\ UNCHANGED tree /\ Clean(tree[Ws(r)])
           /\ tree[Ws(r)].branch = Base(Seen(r))
  <2>1. tree[Ws(r)].files <= edits
    BY <1>2, WorktreesAssumption DEF Clean, Base, IInv, TypeOK
  <2>2. SetTree(r, tree[Ws(r)])
    <3>1. tree \in [Workspaces -> TreeType]
      BY DEF IInv, TypeOK
    <3> QED
      BY <1>2, <3>1 DEF SetTree
  <2> QED
    BY <1>1, <1>2, <2>1, <2>2, OwnTree, MakesTree DEF Making, Clean
<1>3. CASE SetTree(r, Removed(tree[Ws(r)], TRUE)) /\ Refuse(r)
  BY <1>1, <1>3, OwnTree, RemovedIsTree, EndsWithTree DEF Preparing
<1> QED
  BY <1>2, <1>3 DEF CheckNew

LEMMA CommandFailsFits == ASSUME IInv, NEW r \in Runs, CommandFails(r) PROVE IInv'
<1>1. UNCHANGED <<world, mirror, edits, records, moved>> /\ Refuse(r)
  BY DEF CommandFails
<1>2. CASE UNCHANGED tree
  BY <1>1, <1>2, QuietEnd DEF Quiet
<1>3. CASE pc[r] \in {"branch", "add"} /\ SetTree(r, Removed(tree[Ws(r)], FALSE))
  BY <1>1, <1>3, OwnTree, RemovedIsTree, EndsWithTree DEF Preparing
<1>4. CASE pc[r] = "adding" /\ SetTree(r, [tree[Ws(r)] EXCEPT !.dir = "none", !.registered = FALSE])
  <2>1. [tree[Ws(r)] EXCEPT !.dir = "none", !.registered = FALSE] \in TreeType
    BY OwnTree DEF TreeType
  <2> QED
    BY <1>1, <1>4, <2>1, EndsWithTree DEF Preparing
<1>5. CASE pc[r] = "check" /\ SetTree(r, Removed(tree[Ws(r)], TRUE))
  BY <1>1, <1>5, OwnTree, RemovedIsTree, EndsWithTree DEF Preparing
<1> QED
  BY <1>2, <1>3, <1>4, <1>5 DEF CommandFails

LEMMA ReadyFits == ASSUME IInv, NEW r \in Runs, Ready(r) PROVE IInv'
<1>1. TypeOK /\ StepFits(r) /\ RecordFits(r) /\ Quiet /\ UNCHANGED mirror /\ pc[r] = "ready"
      /\ NextKey(r)
  BY DEF IInv, Fits, Ready, Quiet
<1>2. /\ job[r].at \in 1..Len(KeysOf[r]) /\ Len(KeysOf[r]) \in Nat
      /\ Len(job[r].bases) = job[r].at
  BY <1>1, KeysAreSequences DEF StepFits, JobFits, PreparingFits, Preparing, Making
<1>3. \A i \in 1..Len(job[r].bases) :
        LET t == tree[W(r, i, job[r].n)] IN
        There(KeysOf[r][i]) /\ Whole(t) /\ t.branch = Base(job[r].bases[i]) /\ t.files <= edits
  BY <1>1 DEF StepFits, DoneFits, Preparing, Making
<1>4. \/ job[r].n = 1 /\ current[r] = 0
      \/ Refreshing(r) /\ ~Saved(Ws(r)) /\ r \in Published
  BY <1>1 DEF StepFits, PreparingFits, Preparing, Refreshing, JobFits
<1>5. expected[r] = NoCommit
  BY <1>1, NotYetSaved DEF Preparing
<1>6. CASE job[r].at < Len(KeysOf[r])
  <2>1. pc' = [pc EXCEPT ![r] = "look"] /\ job' = [job EXCEPT ![r].at = @ + 1]
    BY <1>1, <1>6 DEF NextKey
  <2>2. pc' \in [Runs -> AnyStep] /\ job' \in [Runs -> JobType]
    <3> DEFINE j == job[r]
    <3>1. j \in JobType /\ j.at + 1 \in Nat
      BY <1>1, <1>2 DEF TypeOK
    <3>2. [j EXCEPT !.at = j.at + 1] \in JobType
      <4> HIDE DEF j
      <4> QED
        BY <3>1 DEF JobType
    <3> QED
      BY <1>1, <2>1, <3>2 DEF TypeOK, AnyStep, Preparing
  <2>3. pc'[r] = "look" /\ \A q \in Runs \ {r} : SameStep(q)
    BY <1>1, <2>1 DEF TypeOK, SameStep
  <2>4. job'[r].n = job[r].n /\ job'[r].at = job[r].at + 1 /\ job'[r].bases = job[r].bases
    BY <1>1, <2>1 DEF TypeOK, JobType
  <2>5. job[r].n = 1 /\ current[r] = 0
    BY <1>2, <1>4, <1>6, KeysAreSequences
  <2>6. JobFits(r)'
    BY <1>1, <1>2, <1>6, <2>3, <2>4, KeysAreSequences DEF StepFits, JobFits
  <2>7. PreparingFits(r)'
    BY <1>1, <1>2, <2>3, <2>4, <2>5 DEF PreparingFits, Making, Quiet, records
  <2>8. DoneFits(r)'
    BY <1>1, <1>3, <2>4 DEF DoneFits, Quiet, There, W
  <2>9. CarryingFits(r)' /\ PublishingFits(r)'
    BY <1>1, <1>5, <2>3 DEF CarryingFits, PublishingFits, Quiet, records, Carrying, Publishing
  <2> QED
    BY <1>1, <2>2, <2>3, <2>6, <2>7, <2>8, <2>9, QuietMove DEF StepFits
<1>7. CASE ~(job[r].at < Len(KeysOf[r]))
  <2>1. /\ pc' \in [Runs -> AnyStep] /\ job' \in [Runs -> JobType]
        /\ pc'[r] = "save" /\ job'[r] = job[r] /\ \A q \in Runs \ {r} : SameStep(q)
    BY <1>1, <1>7, Goes DEF NextKey, AnyStep, Preparing
  <2>2. Ws(r)' = Ws(r) /\ Saved(Ws(r))' = Saved(Ws(r))
    BY <1>1, <2>1 DEF Ws, Key, Saved, Quiet, records
  <2>3. JobFits(r)'
    BY <1>1, <2>1 DEF StepFits, JobFits
  <2>4. PreparingFits(r)'
    BY <1>1, <1>2, <1>4, <1>7, <2>1, <2>2 DEF PreparingFits, Making, Quiet, records, Refreshing
  <2>5. DoneFits(r)'
    BY <1>1, <1>3, <2>1 DEF DoneFits, Quiet, There, W
  <2>6. CarryingFits(r)' /\ PublishingFits(r)'
    BY <1>1, <1>5, <2>1 DEF CarryingFits, PublishingFits, Quiet, records, Carrying, Publishing
  <2> QED
    BY <1>1, <2>1, <2>3, <2>4, <2>5, <2>6, QuietMove DEF StepFits
<1> QED
  BY <1>6, <1>7

-----------------------------------------------------------------------------
(* Saving what was prepared *)

\* The base of a repository of the run, as it is written into the record.
LEMMA BasesAre ==
    ASSUME NEW r \in Runs, NEW n, NEW w \in Workspaces
    PROVE  /\ RunOf(w) = r /\ w[3] = n =>
                \E i \in DOMAIN KeysOf[r] : w = W(r, i, n) /\ RepoOf(w) = KeysOf[r][i]
                                            /\ Bases(r, n)[w] = job[r].bases[i]
           /\ ~(RunOf(w) = r /\ w[3] = n) => Bases(r, n)[w] = on[w]
<1>1. ASSUME RunOf(w) = r, w[3] = n
      PROVE  \E i \in DOMAIN KeysOf[r] : w = W(r, i, n) /\ RepoOf(w) = KeysOf[r][i]
                                         /\ Bases(r, n)[w] = job[r].bases[i]
  <2>1. PICK i \in DOMAIN KeysOf[r] : RepoOf(w) = KeysOf[r][i] /\ w = W(r, i, n)
    BY <1>1, WorkspaceIs
  <2>2. (CHOOSE j \in DOMAIN KeysOf[r] : KeysOf[r][j] = RepoOf(w)) = i
    BY <2>1, KeysAreSequences
  <2> QED
    BY <1>1, <2>1, <2>2 DEF Bases
<1> QED
  BY <1>1 DEF Bases

\* All that a call has prepared is whole when it saves the record.
LEMMA AllDone ==
    ASSUME IInv, NEW r \in Runs, pc[r] = "save", NEW i \in DOMAIN KeysOf[r]
    PROVE  LET w == W(r, i, job[r].n) IN
           /\ w \in Workspaces /\ There(RepoOf(w)) /\ Whole(tree[w])
           /\ tree[w].branch = Base(job[r].bases[i]) /\ tree[w].files <= edits
           /\ job[r].bases[i] \in 0..MaxBase /\ RepoOf(w) = KeysOf[r][i]
<1>1. StepFits(r) /\ TypeOK /\ pc[r] \in Preparing /\ pc[r] \notin Making
  BY DEF IInv, Fits, Preparing, Making
<1>2. i \in 1..Len(job[r].bases) /\ job[r].bases \in Seq(0..MaxBase)
  BY <1>1, KeysAreSequences DEF StepFits, PreparingFits, TypeOK, JobType
<1>3. /\ W(r, i, job[r].n) \in Workspaces /\ RepoOf(W(r, i, job[r].n)) = KeysOf[r][i]
  BY <1>1, WorkspaceOf DEF StepFits, JobFits
<1>4. LET t == tree[W(r, i, job[r].n)] IN
      There(KeysOf[r][i]) /\ Whole(t) /\ t.branch = Base(job[r].bases[i]) /\ t.files <= edits
  BY <1>1, <1>2 DEF StepFits, DoneFits
<1>5. job[r].bases[i] \in 0..MaxBase
  BY <1>2, ElementOfSeq
<1> QED
  BY <1>3, <1>4, <1>5

LEMMA BasesTyped ==
    ASSUME IInv, NEW r \in Runs, pc[r] = "save"
    PROVE  Bases(r, job[r].n) \in [Workspaces -> 0..NoBase]
<1>1. ASSUME NEW w \in Workspaces PROVE Bases(r, job[r].n)[w] \in 0..NoBase
  <2>1. CASE RunOf(w) = r /\ w[3] = job[r].n
    BY <2>1, BasesAre, AllDone, WorktreesAssumption DEF NoBase
  <2>2. CASE ~(RunOf(w) = r /\ w[3] = job[r].n)
    BY <2>2, BasesAre DEF IInv, TypeOK, RecordsType
  <2> QED
    BY <2>1, <2>2
<1> QED
  BY <1>1 DEF Bases

LEMMA SaveRunFits == ASSUME IInv, NEW r \in Runs, SaveRun(r) PROVE IInv'
<1>1. TypeOK /\ StepFits(r) /\ RecordFits(r) /\ pc[r] = "save" /\ job[r].n = 1
  BY DEF IInv, Fits, SaveRun
<1>2. /\ current' = [current EXCEPT ![r] = 1] /\ on' = Bases(r, 1) /\ Refuse(r)
      /\ UNCHANGED <<world, mirror, tree, edits, tested, expected, refreshes, moved>>
  BY DEF SaveRun
<1>3. current[r] = 0 /\ expected[r] = NoCommit /\ tested[r] = Untested
  BY <1>1 DEF StepFits, PreparingFits, Preparing, Refreshing, RecordFits, ExpectedFits, TestedFits
<1>4. current'[r] = 1 /\ current' \in [Runs -> 0..MaxRefresh + 1]
  BY <1>1, <1>2, WorktreesAssumption DEF TypeOK, RecordsType
<1>5. on' \in [Workspaces -> 0..NoBase]
  BY <1>1, <1>2, BasesTyped
<1>6. /\ pc' \in [Runs -> AnyStep] /\ job' \in [Runs -> JobType] /\ StepFits(r)'
      /\ \A q \in Runs \ {r} : SameStep(q)
  BY <1>1, <1>2, Ends
<1>7. TypeOK' /\ Growing
  BY <1>1, <1>2, <1>4, <1>5, <1>6, WorktreesAssumption
     DEF TypeOK, WorldType, RecordsType, world, Growing, There
<1>8. ASSUME NEW q \in Runs \ {r} PROVE SameRecord(q) /\ SameTrees(q)
  <2>1. \A w \in Workspaces : RunOf(w) = q => on'[w] = on[w]
    BY <1>2, BasesAre
  <2> QED
    BY <1>1, <1>2, <2>1 DEF SameRecord, SameTrees, world, TypeOK, RecordsType
<1>9. ASSUME NEW i \in DOMAIN KeysOf[r]
      PROVE  Saved(W(r, i, 1))' /\ WholeOnBase(W(r, i, 1))'
  <2> DEFINE w == W(r, i, 1)
  <2>1. /\ w \in Workspaces /\ There(RepoOf(w)) /\ Whole(tree[w])
        /\ tree[w].branch = Base(job[r].bases[i]) /\ tree[w].files <= edits
        /\ job[r].bases[i] \in 0..MaxBase /\ RepoOf(w) = KeysOf[r][i]
    BY <1>1, AllDone
  <2>2. RunOf(w) = r /\ w[3] = 1
    BY WorkspaceOf, WorktreesAssumption
  <2>3. PICK j \in DOMAIN KeysOf[r] : RepoOf(w) = KeysOf[r][j] /\ on'[w] = job[r].bases[j]
    BY <1>2, <2>1, <2>2, BasesAre
  <2>4. j = i
    BY <2>1, <2>3, KeysAreSequences
  <2>5. on'[w] = job[r].bases[i] /\ on'[w] # NoBase
    BY <2>1, <2>3, <2>4, NotCommits
  <2>6. w' = w
    BY DEF W
  <2> QED
    BY <1>2, <2>1, <2>5, <2>6 DEF Saved, WholeOnBase, There, Base, Whole
<1>10. NamesFit(r)'
  <2>1. \A w \in Workspaces : RunOf(w) = r /\ Saved(w)' => w[3] = 1 /\ WholeOnBase(w)'
    <3> SUFFICES ASSUME NEW w \in Workspaces, RunOf(w) = r, Saved(w)'
                 PROVE  w[3] = 1 /\ WholeOnBase(w)'
      OBVIOUS
    <3>1. w[3] = 1
      BY <1>1, <1>2, <1>3, BasesAre DEF RecordFits, NamesFit, Saved
    <3>2. \E i \in DOMAIN KeysOf[r] : w = W(r, i, 1)
      BY <3>1, WorkspaceIs
    <3> QED
      BY <1>9, <3>1, <3>2 DEF W
  <2>2. refreshes'[r] = refreshes[r] /\ refreshes[r] \in Nat
    BY <1>1, <1>2, WorktreesAssumption DEF TypeOK, RecordsType
  <2> QED
    BY <1>4, <1>9, <2>1, <2>2 DEF NamesFit, W
<1>11. RemoteFits(r)'
  BY <1>1, <1>2, <1>3, NotCommits DEF RecordFits, RemoteFits, world
<1>12. RecordFits(r)'
  BY <1>1, <1>2, <1>3, <1>10, <1>11
     DEF RecordFits, TestedFits, ExpectedFits, CarriedFits
<1> QED
  BY <1>6, <1>7, <1>8, <1>12, OneRun DEF Same

LEMMA SaveDestinationFits == ASSUME IInv, NEW r \in Runs, SaveDestination(r) PROVE IInv'
<1> DEFINE n == job[r].n
<1>1. TypeOK /\ StepFits(r) /\ RecordFits(r) /\ pc[r] = "save" /\ n # 1
  BY DEF IInv, Fits, SaveDestination
<1>2. /\ on' = Bases(r, n) /\ Go(r, "source")
      /\ UNCHANGED <<world, mirror, tree, edits, current, tested, expected, refreshes, moved>>
  BY DEF SaveDestination
<1>3. Refreshing(r) /\ ~Saved(Ws(r)) /\ r \in Published
  BY <1>1 DEF StepFits, PreparingFits, Preparing, JobFits
<1>4. on' \in [Workspaces -> 0..NoBase]
  BY <1>1, <1>2, BasesTyped
<1>5. /\ pc' \in [Runs -> AnyStep] /\ job' \in [Runs -> JobType]
      /\ pc'[r] = "source" /\ job'[r] = job[r] /\ \A q \in Runs \ {r} : SameStep(q)
  BY <1>1, <1>2, Goes DEF AnyStep, Carrying
<1>6. TypeOK' /\ Growing
  BY <1>1, <1>2, <1>4, <1>5, WorktreesAssumption
     DEF TypeOK, WorldType, RecordsType, world, Growing, There
<1>7. ASSUME NEW q \in Runs \ {r} PROVE SameRecord(q) /\ SameTrees(q)
  <2>1. \A w \in Workspaces : RunOf(w) = q => on'[w] = on[w]
    BY <1>2, BasesAre
  <2> QED
    BY <1>1, <1>2, <2>1 DEF SameRecord, SameTrees, world, TypeOK, RecordsType
<1>8. /\ Ws(r) \in Workspaces /\ RunOf(Ws(r)) = r /\ Ws(r)[3] = n
      /\ \A w \in Workspaces : RunOf(w) = r /\ w[3] = n => w = Ws(r)
      /\ \A w \in Workspaces : w # Ws(r) => on'[w] = on[w]
  <2>1. Ws(r) = W(r, job[r].at, n) /\ Ws(r) \in Workspaces /\ RunOf(Ws(r)) = r /\ Ws(r)[3] = n
    BY <1>1, OwnWorkspace DEF StepFits
  <2>2. DOMAIN KeysOf[r] = {1} /\ job[r].at = 1
    BY <1>1, <1>3, KeysAreSequences DEF StepFits, JobFits
  <2>3. \A w \in Workspaces : RunOf(w) = r /\ w[3] = n => w = Ws(r)
    BY <2>1, <2>2, WorkspaceIs
  <2> QED
    BY <1>2, <2>1, <2>3, BasesAre
<1>9. Saved(Ws(r))' /\ WholeOnBase(Ws(r))' /\ Ws(r)' = Ws(r)
  <2>1. PICK i \in DOMAIN KeysOf[r] : Ws(r) = W(r, i, n) /\ on'[Ws(r)] = job[r].bases[i]
    BY <1>2, <1>8, BasesAre
  <2>2. /\ There(RepoOf(Ws(r))) /\ Whole(tree[Ws(r)])
        /\ tree[Ws(r)].branch = Base(on'[Ws(r)]) /\ tree[Ws(r)].files <= edits
        /\ on'[Ws(r)] \in 0..MaxBase
    BY <1>1, <2>1, AllDone
  <2>3. Ws(r)' = Ws(r)
    BY <1>5 DEF Ws, Key
  <2> QED
    BY <1>2, <2>2, <2>3, NotCommits DEF Saved, WholeOnBase, There, Base, Whole
<1>10. current[r] # 0 /\ current[r] # n /\ n = refreshes[r] + 1 /\ refreshes[r] \in Nat
  BY <1>1, <1>3, WorktreesAssumption DEF Refreshing, TypeOK, RecordsType
<1>11. NamesFit(r)'
  <2>1. ASSUME NEW w \in Workspaces, RunOf(w) = r, Saved(w)'
        PROVE  w[3] <= refreshes[r] + 1 /\ WholeOnBase(w)'
    <3>1. CASE w = Ws(r)
      BY <1>8, <1>9, <1>10, <3>1
    <3>2. CASE w # Ws(r)
      <4>1. Saved(w) /\ on'[w] = on[w]
        BY <1>8, <2>1, <3>2 DEF Saved
      <4> QED
        BY <1>1, <1>2, <2>1, <4>1 DEF RecordFits, NamesFit, WholeOnBase, There, Whole
    <3> QED
      BY <3>1, <3>2
  <2>2. ASSUME NEW i \in DOMAIN KeysOf[r] PROVE on'[W(r, i, current[r])] # NoBase
    <3>1. current[r] \in 1..MaxRefresh + 1
      BY <1>1, <1>10, WorktreesAssumption DEF TypeOK, RecordsType
    <3>2. W(r, i, current[r]) \in Workspaces /\ W(r, i, current[r])[3] = current[r]
      BY <1>3, <3>1, WorkspaceOf
    <3>3. Saved(W(r, i, current[r]))
      BY <1>1, <1>10 DEF RecordFits, NamesFit
    <3> QED
      BY <1>8, <1>10, <3>2, <3>3 DEF Saved
  <2> QED
    BY <1>1, <1>2, <1>10, <2>1, <2>2 DEF RecordFits, NamesFit, Saved, W
<1>12. RecordFits(r)'
  <2>1. expected[r] = NoCommit
    BY <1>3 DEF Refreshing
  <2> QED
    BY <1>1, <1>2, <1>11, <2>1, NotCommits
       DEF RecordFits, TestedFits, ExpectedFits, RemoteFits, CarriedFits, world
<1>13. StepFits(r)'
  <2>1. JobFits(r)'
    BY <1>1, <1>5 DEF StepFits, JobFits
  <2>2. CarryingFits(r)'
    BY <1>2, <1>3, <1>5, <1>9 DEF CarryingFits, Refreshing
  <2>3. PublishingFits(r)'
    BY <1>2, <1>3, <1>5 DEF PublishingFits, Publishing, Refreshing
  <2> QED
    BY <1>5, <2>1, <2>2, <2>3 DEF StepFits, PreparingFits, DoneFits, Preparing
<1> QED
  BY <1>5, <1>6, <1>7, <1>12, <1>13, OneRun DEF Same

-----------------------------------------------------------------------------
(* Others *)

LEMMA Nobody ==
    ASSUME IInv, TypeOK', Growing, \A q \in Runs : Same(q)
    PROVE  IInv'
<1> SUFFICES ASSUME NEW q \in Runs PROVE Fits(q)'
  BY DEF IInv
<1>1. TypeOK /\ Fits(q)
  BY DEF IInv
<1>2. RecordFits(q)'
  BY <1>1, RecordKept DEF Same, Fits
<1>3. StepFits(q)'
  BY <1>1, StepKept
<1> QED
  BY <1>2, <1>3 DEF Fits

\* Nothing but the remotes and their sources.
LEMMA WorldMoves ==
    ASSUME IInv, UNCHANGED <<mirror, tree, edits, records, procs, moved>>,
           base' \in [Repos -> 0..MaxBase], source' \in [Repos -> 0..MaxBase],
           remote' \in [Workspaces -> AnyCommit],
           \A w \in Workspaces : remote'[w] = remote[w] \/ remote'[w] = Foreign
    PROVE  IInv'
<1>1. TypeOK' /\ Growing
  BY WorktreesAssumption
     DEF IInv, TypeOK, WorldType, RecordsType, records, procs, Growing, There
<1>2. ASSUME NEW q \in Runs PROVE Same(q)
  BY DEF Same, SameRecord, SameTrees, SameStep, records, procs
<1> QED
  BY <1>1, <1>2, Nobody

LEMMA MoveBaseFits == ASSUME IInv, NEW k \in Repos, MoveBase(k) PROVE IInv'
<1>1. base' \in [Repos -> 0..MaxBase]
  <2>1. base[k] \in 0..MaxBase /\ base[k] < MaxBase /\ MaxBase \in Nat
    BY WorktreesAssumption DEF IInv, TypeOK, WorldType, MoveBase
  <2>2. base[k] + 1 \in 0..MaxBase
    BY <2>1
  <2> QED
    BY <2>2 DEF IInv, TypeOK, WorldType, MoveBase
<1> QED
  BY <1>1, WorldMoves DEF IInv, TypeOK, WorldType, MoveBase

LEMMA PullFits == ASSUME IInv, NEW k \in Repos, Pull(k) PROVE IInv'
<1>1. source' \in [Repos -> 0..MaxBase]
  BY DEF IInv, TypeOK, WorldType, Pull
<1> QED
  BY <1>1, WorldMoves DEF IInv, TypeOK, WorldType, Pull

LEMMA PushForeignFits == ASSUME IInv, NEW w \in Workspaces, PushForeign(w) PROVE IInv'
<1>1. Foreign \in AnyCommit
  BY WorktreesAssumption DEF Foreign, AnyCommit, NoBase
<1>2. remote' \in [Workspaces -> AnyCommit]
      /\ \A x \in Workspaces : remote'[x] = remote[x] \/ remote'[x] = Foreign
  BY <1>1 DEF IInv, TypeOK, WorldType, PushForeign
<1> QED
  BY <1>2, WorldMoves DEF IInv, TypeOK, WorldType, PushForeign

\* The workspace in which the run was tested.
LEMMA TestedWorkspace ==
    ASSUME IInv, NEW r \in Runs, tested[r] # Untested
    PROVE  /\ r \in Published /\ current[r] # 0 /\ tested[r] \in 1..edits /\ edits \in Nat
           /\ Kept(r) \in Workspaces /\ RunOf(Kept(r)) = r /\ Kept(r)[3] = current[r]
           /\ RepoOf(Kept(r)) \in Repos
           /\ Saved(Kept(r)) /\ WholeOnBase(Kept(r)) /\ on[Kept(r)] \in 0..MaxBase
           /\ tree[Kept(r)] \in TreeType /\ tree[Kept(r)].files \in Nat
           /\ expected[r] \in AnyCommit
<1>1. TypeOK /\ RecordFits(r)
  BY DEF IInv, Fits
<1>2. r \in Published /\ current[r] # 0 /\ tested[r] \in 1..edits /\ edits \in Nat
  BY <1>1, WorktreesAssumption DEF RecordFits, TestedFits, TypeOK
<1>3. /\ Kept(r) \in Workspaces /\ RunOf(Kept(r)) = r /\ Kept(r)[3] = current[r]
      /\ RepoOf(Kept(r)) \in Repos
      /\ Saved(Kept(r)) /\ WholeOnBase(Kept(r)) /\ on[Kept(r)] \in 0..MaxBase
  BY <1>1, <1>2, KeptWorkspace DEF RecordFits
<1>4. tree[Kept(r)] \in TreeType /\ tree[Kept(r)].files \in Nat
  BY <1>1, <1>3 DEF TypeOK, TreeType
<1> QED
  BY <1>1, <1>2, <1>3, <1>4 DEF TypeOK, RecordsType

\* A write makes a content that is newer than everything a run relies on.
LEMMA WriteFits == ASSUME IInv, NEW w \in Workspaces, Write(w) PROVE IInv'
<1> DEFINE r == RunOf(w)
<1>1. r \in Runs /\ TypeOK
  BY WorkspaceIs DEF IInv
<1>2. RecordFits(r) /\ StepFits(r)
  BY <1>1 DEF IInv, Fits
<1>3. /\ edits' = edits + 1 /\ edits \in Nat /\ edits' \in 0..MaxEdits
      /\ UNCHANGED <<world, mirror, records, procs, moved>>
  BY <1>1, WorktreesAssumption DEF Write, TypeOK
<1>4. /\ tree' \in [Workspaces -> TreeType]
      /\ \A x \in Workspaces :
            /\ Whole(tree'[x]) = Whole(tree[x]) /\ tree'[x].branch = tree[x].branch
            /\ tree'[x].files \in {tree[x].files, edits'} /\ tree[x].files \in Nat
            /\ RunOf(x) # r => tree'[x] = tree[x]
  <2>1. tree' = [tree EXCEPT ![w].files = edits + 1] /\ tree \in [Workspaces -> TreeType]
    BY <1>1 DEF Write, TypeOK
  <2>2. ASSUME NEW x \in Workspaces, x # w PROVE tree'[x] = tree[x]
    BY <2>1, <2>2
  <2>3. /\ tree'[w] \in TreeType /\ tree'[w].dir = tree[w].dir /\ tree'[w].registered = tree[w].registered
        /\ tree'[w].branch = tree[w].branch /\ tree'[w].files = edits'
    BY <1>3, <2>1 DEF TreeType
  <2>4. \A x \in Workspaces : tree[x].files \in Nat
    BY <2>1 DEF TreeType
  <2>5. ASSUME NEW x \in Workspaces
        PROVE  /\ tree'[x] \in TreeType
               /\ Whole(tree'[x]) = Whole(tree[x]) /\ tree'[x].branch = tree[x].branch
               /\ tree'[x].files \in {tree[x].files, edits'}
               /\ RunOf(x) # r => tree'[x] = tree[x]
    <3>1. CASE x = w
      BY <2>3, <3>1 DEF Whole
    <3>2. CASE x # w
      BY <2>1, <2>2, <3>2
    <3> QED
      BY <3>1, <3>2
  <2>6. tree' \in [Workspaces -> TreeType]
    BY <2>1, <2>5
  <2> QED
    BY <2>4, <2>5, <2>6
<1>5. TypeOK' /\ Growing
  BY <1>1, <1>3, <1>4 DEF TypeOK, WorldType, RecordsType, world, records, procs, Growing, There
<1>6. \A q \in Runs \ {r} : Same(q)
  BY <1>3, <1>4 DEF Same, SameRecord, SameTrees, SameStep, world, records, procs
<1>7. \A x \in Workspaces : tree[x].files <= edits => tree'[x].files <= edits'
  BY <1>3, <1>4
<1>8. NamesFit(r)'
  <2>1. \A x \in Workspaces : WholeOnBase(x) => WholeOnBase(x)'
    BY <1>3, <1>4, <1>7 DEF WholeOnBase, There, Whole, records
  <2> QED
    BY <1>2, <1>3, <2>1 DEF RecordFits, NamesFit, Saved, W, records
<1>9. TestedFits(r)' /\ RemoteFits(r)' /\ CarriedFits(r)'
  BY <1>2, <1>3 DEF RecordFits, TestedFits, RemoteFits, CarriedFits, Kept, AsExpected, records, world
<1>10. ASSUME tested[r] # Untested
       PROVE  /\ tree'[Kept(r)].branch = tree[Kept(r)].branch
              /\ \A n \in Nat : n <= tree[Kept(r)].files => n <= tree'[Kept(r)].files
  <2>1. Kept(r) \in Workspaces /\ tree[Kept(r)].files <= edits
    BY <1>1, <1>10, TestedWorkspace DEF WholeOnBase
  <2>2. /\ tree'[Kept(r)].branch = tree[Kept(r)].branch /\ tree[Kept(r)].files \in Nat
        /\ tree'[Kept(r)].files = tree[Kept(r)].files \/ tree'[Kept(r)].files = edits + 1
    BY <1>3, <1>4, <2>1
  <2> QED
    BY <1>3, <2>1, <2>2
<1>11. ExpectedFits(r)'
  <2>1. CASE expected[r] = NoCommit
    BY <1>3, <2>1 DEF ExpectedFits, records
  <2>2. CASE expected[r] # NoCommit
    <3>1. /\ tested[r] # Untested /\ expected[r].on = on[Kept(r)]
          /\ AsExpected(r) \/ TooLate(r)
      BY <1>2, <2>2 DEF RecordFits, ExpectedFits
    <3>2. expected[r].with \in Nat
      BY <1>1, <3>1, TestedWorkspace DEF AnyCommit
    <3>3. AsExpected(r)' \/ TooLate(r)'
      BY <1>3, <1>10, <3>1, <3>2 DEF AsExpected, TooLate, Kept, records
    <3> QED
      BY <1>3, <3>1, <3>3 DEF ExpectedFits, Kept, records
  <2> QED
    BY <2>1, <2>2
<1>12. RecordFits(r)'
  BY <1>8, <1>9, <1>11 DEF RecordFits
<1>13. Ws(r) \in Workspaces /\ Ws(r)' = Ws(r) /\ Key(r)' = Key(r) /\ Kept(r)' = Kept(r)
       /\ Seen(r)' = Seen(r)
  BY <1>1, <1>2, <1>3, OwnWorkspace DEF StepFits, Ws, Key, Kept, Seen, procs, records
<1>14. JobFits(r)' /\ PreparingFits(r)'
  BY <1>2, <1>3, <1>4, <1>13
     DEF StepFits, JobFits, PreparingFits, Refreshing, Saved, There, procs, records
<1>15. DoneFits(r)'
  <2> SUFFICES ASSUME pc[r] \in Preparing, NEW i \in 1..Len(job[r].bases),
                      i # job[r].at \/ pc[r] \notin Making
               PROVE  LET t == tree'[W(r, i, job[r].n)] IN
                      /\ There(KeysOf[r][i])'
                      /\ Whole(t) /\ t.branch = Base(job[r].bases[i]) /\ t.files <= edits'
    BY <1>3 DEF DoneFits, Whole, W, procs
  <2>1. i \in DOMAIN KeysOf[r]
    BY <1>1, <1>2, KeysAreSequences DEF StepFits, PreparingFits, JobFits
  <2>2. W(r, i, job[r].n) \in Workspaces
    BY <1>1, <1>2, <2>1, WorkspaceOf DEF StepFits, JobFits
  <2>3. LET t == tree[W(r, i, job[r].n)] IN
        There(KeysOf[r][i]) /\ Whole(t) /\ t.branch = Base(job[r].bases[i]) /\ t.files <= edits
    BY <1>2 DEF StepFits, DoneFits
  <2> QED
    BY <1>3, <1>4, <1>7, <2>2, <2>3 DEF There
<1>16. CarryingFits(r)'
  <2>1. ASSUME pc[r] \in Carrying
        PROVE  Refreshing(r)' /\ Saved(Ws(r))' /\ tested[r] # Untested /\ tested[r] \in Nat
               /\ job[r].patch \in Nat
    BY <1>1, <1>2, <1>3, <1>13, <2>1, TestedWorkspace
       DEF StepFits, CarryingFits, Refreshing, Saved, procs, records, TypeOK, JobType
  <2> QED
    BY <1>2, <1>3, <1>10, <1>13, <2>1 DEF StepFits, CarryingFits, Carrying, procs, records
<1>17. PublishingFits(r)'
  <2>1. ASSUME pc[r] \in Publishing PROVE tested[r] # Untested /\ tested[r] \in Nat
    BY <1>1, <1>2, <2>1, TestedWorkspace DEF StepFits, PublishingFits
  <2> QED
    BY <1>2, <1>3, <1>10, <1>13, <2>1
       DEF StepFits, PublishingFits, Publishing, AsExpected, procs, records
<1>18. StepFits(r)'
  BY <1>14, <1>15, <1>16, <1>17 DEF StepFits
<1> QED
  BY <1>1, <1>5, <1>6, <1>12, <1>18, OneRun

-----------------------------------------------------------------------------
(* Tests and the publication *)

LEMMA PublishingStep ==
    ASSUME NEW r \in Runs, JobFits(r), job'[r] = job[r], pc'[r] \in Publishing, PublishingFits(r)'
    PROVE  StepFits(r)'
<1>1. pc'[r] \notin {"idle"} \cup Preparing \cup Carrying
  BY DEF Publishing, Preparing, Carrying
<1>2. JobFits(r)'
  BY <1>1 DEF JobFits
<1> QED
  BY <1>1, <1>2 DEF StepFits, PreparingFits, DoneFits, CarryingFits, Carrying

LEMMA TestFits == ASSUME IInv, NEW r \in Runs, Test(r) PROVE IInv'
<1>1. TypeOK /\ RecordFits(r) /\ StepFits(r)
  BY DEF IInv, Fits
<1>2. /\ r \in Published /\ pc[r] = "idle" /\ current[r] # 0 /\ expected[r] = NoCommit
      /\ ~Clean(tree[Kept(r)]) /\ tested' = [tested EXCEPT ![r] = tree[Kept(r)].files]
      /\ UNCHANGED <<world, mirror, tree, edits, current, on, expected, refreshes, procs, moved>>
  BY DEF Test
<1>3. Kept(r) \in Workspaces /\ WholeOnBase(Kept(r)) /\ on[Kept(r)] \in 0..MaxBase
      /\ RunOf(Kept(r)) = r
  BY <1>1, <1>2, KeptWorkspace DEF RecordFits
<1>4. tree[Kept(r)].files \in 1..edits
  <2>1. tree[Kept(r)].branch = Base(on[Kept(r)])
    <3>1. NoCommit.on = NoBase
      BY DEF NoCommit
    <3> QED
      BY <1>2, <1>3, <3>1, NotCommits DEF WholeOnBase
  <2>2. tree[Kept(r)].branch.with = 0
    BY <2>1 DEF Base
  <2>3. tree[Kept(r)].files # 0 /\ tree[Kept(r)].files <= edits
    BY <1>2, <1>3, <2>2 DEF Clean, WholeOnBase
  <2>4. tree[Kept(r)].files \in Nat /\ edits \in Nat
    BY <1>1, <1>3, WorktreesAssumption DEF TypeOK, TreeType
  <2> QED
    BY <2>3, <2>4
<1>5. tested' \in [Runs -> 0..Untested] /\ tested'[r] \in 1..edits
      /\ \A q \in Runs \ {r} : tested'[q] = tested[q]
  <2>1. tree[Kept(r)].files \in 0..Untested
    BY <1>1, <1>4, WorktreesAssumption DEF TypeOK, Untested
  <2> QED
    BY <1>1, <1>2, <1>4, <2>1 DEF TypeOK, RecordsType
<1>6. TypeOK' /\ Growing
  BY <1>1, <1>2, <1>5, WorktreesAssumption
     DEF TypeOK, WorldType, RecordsType, world, procs, Growing, There
<1>7. \A q \in Runs \ {r} : Same(q)
  BY <1>2, <1>5 DEF Same, SameRecord, SameTrees, SameStep, world, procs
<1>8. NamesFit(r)'
  BY <1>1, <1>2 DEF RecordFits, NamesFit, Saved, W, WholeOnBase, There, Whole
<1>9. RemoteFits(r)'
  <2>1. \A w \in Workspaces : RunOf(w) = r => remote[w] \notin Commits
    BY <1>1, <1>2, NotCommits DEF RecordFits, RemoteFits
  <2> QED
    BY <1>2, <2>1 DEF RemoteFits, world
<1>10. RecordFits(r)'
  BY <1>1, <1>2, <1>5, <1>8, <1>9 DEF RecordFits, TestedFits, ExpectedFits, CarriedFits
<1>11. StepFits(r)'
  <2>1. JobFits(r)'
    BY <1>1, <1>2 DEF StepFits, JobFits, procs
  <2> QED
    BY <1>2, <2>1 DEF StepFits, PreparingFits, DoneFits, CarryingFits, PublishingFits, Preparing,
       Carrying, Publishing, procs
<1> QED
  BY <1>6, <1>7, <1>10, <1>11, OneRun

\* A step that only goes on.
LEMMA PublishGoes ==
    ASSUME IInv, NEW r \in Runs, Quiet, UNCHANGED mirror, NEW step \in Publishing, Go(r, step),
           tested[r] # Untested,
           step \in Publishing \ {"intent", "snapshot", "stage"} => expected[r] # NoCommit,
           step = "stage" => tested[r] <= tree[Kept(r)].files,
           step \in {"reset", "push", "pushing"} => tree[Kept(r)].branch = expected[r],
           expected[r] # NoCommit /\ ~AsExpected(r) => step \in {"find", "compare"}
    PROVE  IInv'
<1>1. TypeOK /\ StepFits(r) /\ step \in AnyStep
  BY DEF IInv, Fits, AnyStep
<1>2. /\ pc' \in [Runs -> AnyStep] /\ job' \in [Runs -> JobType]
      /\ pc'[r] = step /\ job'[r] = job[r] /\ \A q \in Runs \ {r} : SameStep(q)
  BY <1>1, Goes
<1>3. Kept(r)' = Kept(r) /\ AsExpected(r)' = AsExpected(r) /\ tree' = tree
      /\ expected' = expected /\ tested' = tested
  BY DEF Kept, AsExpected, Quiet, records
<1>4. PublishingFits(r)'
  BY <1>2, <1>3 DEF PublishingFits
<1>5. StepFits(r)'
  BY <1>1, <1>2, <1>4, PublishingStep DEF StepFits
<1> QED
  BY <1>2, <1>5, QuietMove

LEMMA PublishFits == ASSUME IInv, NEW r \in Runs, Publish(r) PROVE IInv'
<1>1. Quiet /\ UNCHANGED mirror /\ tested[r] # Untested
  BY DEF Publish, Quiet
<1>2. CASE expected[r] = NoCommit
  BY <1>1, <1>2, PublishGoes DEF Publish, Publishing
<1>3. CASE expected[r] # NoCommit
  BY <1>1, <1>3, PublishGoes DEF Publish, Publishing
<1> QED
  BY <1>2, <1>3

\* What a call that publishes knows.
LEMMA WhilePublishing ==
    ASSUME IInv, NEW r \in Runs, pc[r] \in Publishing
    PROVE  /\ tested[r] # Untested /\ PublishingFits(r) /\ ExpectedFits(r) /\ JobFits(r)
           /\ expected[r] # NoCommit /\ pc[r] \notin {"find", "compare"} => AsExpected(r)
  BY DEF IInv, Fits, RecordFits, StepFits, PublishingFits, Publishing

LEMMA FindFits == ASSUME IInv, NEW r \in Runs, Find(r) PROVE IInv'
<1>1. Quiet /\ UNCHANGED mirror /\ pc[r] = "find"
  BY DEF Find, Quiet
<1>2. tested[r] # Untested /\ expected[r] # NoCommit /\ ExpectedFits(r)
  BY <1>1, WhilePublishing DEF PublishingFits, Publishing
<1>3. CASE tree[Kept(r)].branch = Base(on[Kept(r)]) /\ Go(r, "compare")
  BY <1>1, <1>2, <1>3, PublishGoes DEF Publishing
<1>4. CASE tree[Kept(r)].branch = expected[r] /\ Go(r, "push")
  <2>1. ~TooLate(r)
    <3> SUFFICES ASSUME TooLate(r) PROVE FALSE
      OBVIOUS
    <3>1. expected[r].with = 0
      BY <1>4 DEF TooLate, Base
    <3> QED
      BY <1>2, <3>1, TestedWorkspace DEF TooLate
  <2> QED
    BY <1>1, <1>2, <1>4, <2>1, PublishGoes DEF Publishing, ExpectedFits
<1>5. CASE Refuse(r)
  BY <1>1, <1>5, QuietEnd
<1> QED
  BY <1>3, <1>4, <1>5 DEF Find

LEMMA CompareFits == ASSUME IInv, NEW r \in Runs, Compare(r) PROVE IInv'
<1>1. Quiet /\ UNCHANGED mirror /\ pc[r] = "compare"
  BY DEF Compare, Quiet
<1>2. tested[r] # Untested /\ expected[r] # NoCommit /\ ExpectedFits(r)
  BY <1>1, WhilePublishing DEF PublishingFits, Publishing
<1>3. CASE AsTested(r) /\ Go(r, "intent")
  <2>1. ~TooLate(r)
    BY <1>2, <1>3, TestedWorkspace DEF TooLate, AsTested, AnyCommit
  <2> QED
    BY <1>1, <1>2, <1>3, <2>1, PublishGoes DEF Publishing, ExpectedFits
<1>4. CASE Refuse(r)
  BY <1>1, <1>4, QuietEnd
<1> QED
  BY <1>3, <1>4 DEF Compare

LEMMA ReadBaseFits == ASSUME IInv, NEW r \in Runs, ReadBase(r) PROVE IInv'
<1>1. Quiet /\ UNCHANGED mirror /\ pc[r] = "intent"
  BY DEF ReadBase, Quiet
<1>2. CASE Go(r, "snapshot")
  BY <1>1, <1>2, WhilePublishing, PublishGoes DEF Publishing
<1>3. CASE Refuse(r)
  BY <1>1, <1>3, QuietEnd
<1> QED
  BY <1>2, <1>3 DEF ReadBase

LEMMA SnapshotFits == ASSUME IInv, NEW r \in Runs, Snapshot(r) PROVE IInv'
<1>1. Quiet /\ UNCHANGED mirror /\ pc[r] = "snapshot"
  BY DEF Snapshot, Quiet
<1>2. CASE AsTested(r) /\ Go(r, "stage")
  <2>1. tested[r] # Untested /\ tested[r] <= tree[Kept(r)].files
    BY <1>1, <1>2, WhilePublishing, TestedWorkspace DEF Publishing, AsTested
  <2> QED
    BY <1>1, <1>2, <2>1, WhilePublishing, PublishGoes DEF Publishing
<1>3. CASE Refuse(r)
  BY <1>1, <1>3, QuietEnd
<1> QED
  BY <1>2, <1>3 DEF Snapshot

\* The files may be newer than the comparison: the intent is never tested then.
LEMMA StageIntentFits == ASSUME IInv, NEW r \in Runs, StageIntent(r) PROVE IInv'
<1>1. TypeOK /\ RecordFits(r) /\ StepFits(r)
  BY DEF IInv, Fits
<1>2. /\ pc[r] = "stage" /\ expected[r] = NoCommit
      /\ expected' = [expected EXCEPT ![r] = Staged(r)] /\ Go(r, "find")
      /\ UNCHANGED <<world, mirror, tree, edits, current, on, tested, refreshes, moved>>
  BY DEF StageIntent
<1>3. tested[r] # Untested /\ tested[r] <= tree[Kept(r)].files
  BY <1>1, <1>2 DEF StepFits, PublishingFits, Publishing
<1>4. Staged(r) \in AnyCommit /\ Staged(r) # NoCommit /\ Staged(r).on = on[Kept(r)]
      /\ Staged(r).with = tree[Kept(r)].files
  <2>1. on[Kept(r)] \in 0..MaxBase /\ tree[Kept(r)].files \in Nat
    BY <1>3, TestedWorkspace
  <2>2. on[Kept(r)] \in 0..NoBase /\ on[Kept(r)] # NoBase
    BY <2>1, WorktreesAssumption DEF NoBase
  <2> QED
    BY <2>1, <2>2 DEF Staged, AnyCommit, NoCommit
<1>5. expected' \in [Runs -> AnyCommit] /\ expected'[r] = Staged(r)
      /\ \A q \in Runs \ {r} : expected'[q] = expected[q]
  BY <1>1, <1>2, <1>4 DEF TypeOK, RecordsType
<1>6. /\ pc' \in [Runs -> AnyStep] /\ job' \in [Runs -> JobType]
      /\ pc'[r] = "find" /\ job'[r] = job[r] /\ \A q \in Runs \ {r} : SameStep(q)
  BY <1>1, <1>2, Goes DEF AnyStep, Publishing
<1>7. TypeOK' /\ Growing
  BY <1>1, <1>2, <1>5, <1>6, WorktreesAssumption
     DEF TypeOK, WorldType, RecordsType, world, Growing, There
<1>8. \A q \in Runs \ {r} : Same(q)
  BY <1>2, <1>5, <1>6 DEF Same, SameRecord, SameTrees, world
<1>9. ASSUME NEW w \in Workspaces, RunOf(w) = r, Saved(w)
      PROVE  tree[w].branch = Base(on[w]) /\ WholeOnBase(w)'
  <2>1. WholeOnBase(w) /\ NoCommit.on = NoBase
    BY <1>1, <1>9 DEF RecordFits, NamesFit, NoCommit
  <2>2. tree[w].branch = Base(on[w])
    BY <1>2, <1>9, <2>1 DEF WholeOnBase, Saved
  <2> QED
    BY <1>2, <1>9, <2>1, <2>2 DEF WholeOnBase, There, Whole, Base
<1>10. NamesFit(r)'
  BY <1>1, <1>2, <1>9 DEF RecordFits, NamesFit, Saved, W
<1>11. Kept(r)' = Kept(r)
  BY <1>2 DEF Kept
<1>12. ExpectedFits(r)'
  <2>1. tree[Kept(r)].branch = Base(on[Kept(r)])
    BY <1>3, <1>9, TestedWorkspace
  <2>2. \/ tree[Kept(r)].files = tested[r]
        \/ tested[r] < tree[Kept(r)].files
    BY <1>3, TestedWorkspace
  <2>3. tree[Kept(r)].files <= tree[Kept(r)].files
    BY <1>3, TestedWorkspace
  <2> QED
    BY <1>2, <1>3, <1>4, <1>5, <1>11, <2>1, <2>2, <2>3 DEF ExpectedFits, AsExpected, TooLate
<1>13. RemoteFits(r)'
  <2>1. \A w \in Workspaces : RunOf(w) = r => remote[w] \notin Commits
    BY <1>1, <1>2, NotCommits DEF RecordFits, RemoteFits
  <2> QED
    BY <1>2, <2>1 DEF RemoteFits, world
<1>14. RecordFits(r)'
  BY <1>1, <1>2, <1>10, <1>12, <1>13 DEF RecordFits, TestedFits, CarriedFits
<1>15. PublishingFits(r)'
  BY <1>2, <1>3, <1>4, <1>5, <1>6 DEF PublishingFits, Publishing
<1>16. StepFits(r)'
  BY <1>1, <1>6, <1>15, PublishingStep DEF StepFits, Publishing
<1> QED
  BY <1>7, <1>8, <1>14, <1>16, OneRun

LEMMA StageCommitFits == ASSUME IInv, NEW r \in Runs, StageCommit(r) PROVE IInv'
<1>1. Quiet /\ UNCHANGED mirror /\ pc[r] = "stage" /\ expected[r] # NoCommit
  BY DEF StageCommit, Quiet
<1>2. CASE Go(r, "commit")
  BY <1>1, <1>2, WhilePublishing, PublishGoes DEF Publishing
<1>3. CASE Refuse(r)
  BY <1>1, <1>3, QuietEnd
<1> QED
  BY <1>2, <1>3 DEF StageCommit

\* The worktree of the run is brought to the commit of the run.
LEMMA KeptTreeChanges ==
    ASSUME IInv, NEW r \in Runs, pc[r] \in {"commit", "reset"}, NEW t \in TreeType,
           tree' = [tree EXCEPT ![Kept(r)] = t], Whole(t), t.files <= edits,
           t.branch = expected[r],
           UNCHANGED <<world, mirror, edits, records, moved>>,
           NEW step \in {"reset", "find"}, Go(r, step)
    PROVE  IInv'
<1>1. TypeOK /\ RecordFits(r) /\ StepFits(r) /\ step \in Publishing /\ step \in AnyStep
  BY DEF IInv, Fits, Publishing, AnyStep
<1>2. tested[r] # Untested /\ expected[r] # NoCommit /\ AsExpected(r)
  BY WhilePublishing DEF PublishingFits, Publishing
<1>3. expected[r].on = on[Kept(r)]
  BY <1>1, <1>2 DEF RecordFits, ExpectedFits
<1>4. Kept(r) \in Workspaces /\ RunOf(Kept(r)) = r /\ WholeOnBase(Kept(r))
  BY <1>2, TestedWorkspace
<1>5. /\ tree' \in [Workspaces -> TreeType] /\ tree'[Kept(r)] = t
      /\ \A w \in Workspaces : w # Kept(r) => tree'[w] = tree[w]
  BY <1>1, <1>4 DEF TypeOK
<1>6. /\ pc' \in [Runs -> AnyStep] /\ job' \in [Runs -> JobType]
      /\ pc'[r] = step /\ job'[r] = job[r] /\ \A q \in Runs \ {r} : SameStep(q)
  BY <1>1, Goes
<1>7. TypeOK' /\ Growing
  <2>1. WorldType' /\ RecordsType' /\ edits' \in 0..MaxEdits
    BY <1>1 DEF TypeOK, WorldType, RecordsType, world, records
  <2>2. TypeOK'
    BY <1>5, <1>6, <2>1 DEF TypeOK
  <2>3. edits <= edits' /\ edits' \in Nat
    BY <1>1, WorktreesAssumption DEF TypeOK
  <2> QED
    BY <2>2, <2>3 DEF Growing, There
<1>8. \A q \in Runs \ {r} : Same(q)
  BY <1>4, <1>5, <1>6 DEF Same, SameRecord, SameTrees, world, records
<1>9. \A w \in Workspaces : WholeOnBase(w) => WholeOnBase(w)'
  <2> SUFFICES ASSUME NEW w \in Workspaces, WholeOnBase(w) PROVE WholeOnBase(w)'
    OBVIOUS
  <2>1. CASE w = Kept(r)
    BY <1>3, <1>4, <1>5, <2>1 DEF WholeOnBase, There, Whole, records
  <2>2. CASE w # Kept(r)
    BY <1>5, <2>2 DEF WholeOnBase, There, Whole, records
  <2> QED
    BY <2>1, <2>2
<1>10. NamesFit(r)'
  BY <1>1, <1>9 DEF RecordFits, NamesFit, Saved, W, records
<1>11. Kept(r)' = Kept(r) /\ AsExpected(r)' /\ tested' = tested /\ expected' = expected
  BY <1>2 DEF Kept, AsExpected, records
<1>12. RecordFits(r)'
  BY <1>1, <1>10, <1>11
     DEF RecordFits, TestedFits, ExpectedFits, RemoteFits, CarriedFits, world, records
<1>13. PublishingFits(r)'
  BY <1>2, <1>5, <1>6, <1>11 DEF PublishingFits
<1>14. StepFits(r)'
  BY <1>1, <1>6, <1>13, PublishingStep DEF StepFits
<1> QED
  BY <1>6, <1>7, <1>8, <1>12, <1>14, OneRun

LEMMA UpdateRefFits == ASSUME IInv, NEW r \in Runs, UpdateRef(r) PROVE IInv'
<1> DEFINE t == [tree[Kept(r)] EXCEPT !.branch = expected[r]]
<1>1. /\ pc[r] = "commit" /\ tree' = [tree EXCEPT ![Kept(r)] = t] /\ Go(r, "reset")
      /\ UNCHANGED <<world, mirror, edits, records, moved>>
  BY DEF UpdateRef
<1>2. tested[r] # Untested
  BY <1>1, WhilePublishing DEF Publishing
<1>3. t \in TreeType /\ Whole(t) /\ t.files <= edits /\ t.branch = expected[r]
  BY <1>2, TestedWorkspace DEF TreeType, WholeOnBase, Whole
<1> HIDE DEF t
<1> QED
  BY <1>1, <1>3, KeptTreeChanges

LEMMA ResetHardFits == ASSUME IInv, NEW r \in Runs, ResetHard(r) PROVE IInv'
<1> DEFINE t == [tree[Kept(r)] EXCEPT !.files = tree[Kept(r)].branch.with]
<1>1. /\ pc[r] = "reset" /\ tree' = [tree EXCEPT ![Kept(r)] = t] /\ Go(r, "find")
      /\ UNCHANGED <<world, mirror, edits, records, moved>>
  BY DEF ResetHard
<1>2. /\ tested[r] # Untested /\ AsExpected(r) /\ tree[Kept(r)].branch = expected[r]
  BY <1>1, WhilePublishing DEF PublishingFits, Publishing
<1>3. tree[Kept(r)].branch.with \in Nat /\ tree[Kept(r)].branch.with <= edits
  BY <1>2, TestedWorkspace DEF AsExpected
<1>4. t \in TreeType /\ Whole(t) /\ t.files <= edits /\ t.branch = expected[r]
  BY <1>2, <1>3, TestedWorkspace DEF TreeType, WholeOnBase, Whole
<1> HIDE DEF t
<1> QED
  BY <1>1, <1>4, KeptTreeChanges

LEMMA LookRemoteFits == ASSUME IInv, NEW r \in Runs, LookRemote(r) PROVE IInv'
<1>1. Quiet /\ UNCHANGED mirror /\ pc[r] = "push"
  BY DEF LookRemote, Quiet
<1>2. CASE Go(r, "pushing")
  BY <1>1, <1>2, WhilePublishing, PublishGoes DEF Publishing, PublishingFits
<1>3. CASE Refuse(r)
  BY <1>1, <1>3, QuietEnd
<1> QED
  BY <1>2, <1>3 DEF LookRemote

LEMMA PushFits == ASSUME IInv, NEW r \in Runs, Push(r) PROVE IInv'
<1>1. TypeOK /\ RecordFits(r)
  BY DEF IInv, Fits
<1>2. /\ pc[r] = "pushing" /\ Refuse(r)
      /\ remote' = IF remote[Kept(r)] = NoCommit
                   THEN [remote EXCEPT ![Kept(r)] = tree[Kept(r)].branch] ELSE remote
      /\ UNCHANGED <<base, uses, source, mirror, tree, edits, records, moved>>
  BY DEF Push
<1>3. tested[r] # Untested /\ expected[r] # NoCommit /\ AsExpected(r)
      /\ tree[Kept(r)].branch = expected[r]
  BY <1>2, WhilePublishing DEF PublishingFits, Publishing
<1>4. Kept(r) \in Workspaces /\ RunOf(Kept(r)) = r /\ expected[r] \in AnyCommit
  BY <1>3, TestedWorkspace
<1>5. /\ remote' \in [Workspaces -> AnyCommit]
      /\ \A w \in Workspaces : remote'[w] = remote[w] \/ (w = Kept(r) /\ remote'[w] = expected[r])
  <2>1. remote \in [Workspaces -> AnyCommit]
    BY <1>1 DEF TypeOK, WorldType
  <2>2. remote' = remote \/ remote' = [remote EXCEPT ![Kept(r)] = expected[r]]
    BY <1>2, <1>3
  <2> QED
    BY <1>4, <2>1, <2>2
<1>6. /\ pc' \in [Runs -> AnyStep] /\ job' \in [Runs -> JobType] /\ StepFits(r)'
      /\ \A q \in Runs \ {r} : SameStep(q)
  BY <1>1, <1>2, Ends
<1>7. TypeOK' /\ Growing
  BY <1>1, <1>2, <1>5, <1>6, WorktreesAssumption
     DEF TypeOK, WorldType, RecordsType, records, Growing, There
<1>8. \A q \in Runs \ {r} : SameRecord(q) /\ SameTrees(q)
  BY <1>2, <1>4, <1>5 DEF SameRecord, SameTrees, records
<1>9. NamesFit(r)'
  BY <1>1, <1>2 DEF RecordFits, NamesFit, Saved, W, WholeOnBase, There, Whole, records
<1>10. Kept(r)' = Kept(r) /\ AsExpected(r)' = AsExpected(r) /\ expected' = expected
  BY <1>2 DEF Kept, AsExpected, records
<1>11. RemoteFits(r)'
  <2> SUFFICES ASSUME NEW w \in Workspaces, RunOf(w) = r, remote'[w] \in Commits
               PROVE  w = Kept(r) /\ remote'[w] = expected[r]
    BY <1>3, <1>10 DEF RemoteFits
  <2> QED
    BY <1>1, <1>5 DEF RecordFits, RemoteFits
<1>12. ExpectedFits(r)' /\ TestedFits(r)' /\ CarriedFits(r)'
  BY <1>1, <1>2, <1>3, <1>10 DEF RecordFits, ExpectedFits, TestedFits, CarriedFits, records
<1>13. RecordFits(r)'
  BY <1>9, <1>11, <1>12 DEF RecordFits
<1> QED
  BY <1>6, <1>7, <1>8, <1>13, OneRun DEF Same

-----------------------------------------------------------------------------
(* Baseline refreshes *)

\* A refresh works on a workspace that no save of the run has named.
LEMMA BeginRefreshFits == ASSUME IInv, NEW r \in Runs, BeginRefresh(r) PROVE IInv'
<1> DEFINE n == refreshes[r] + 2
<1>1. TypeOK /\ RecordFits(r) /\ StepFits(r)
  BY DEF IInv, Fits
<1>2. /\ r \in Published /\ pc[r] = "idle" /\ current[r] # 0 /\ tested[r] # Untested
      /\ expected[r] = NoCommit /\ refreshes[r] < MaxRefresh
      /\ refreshes' = [refreshes EXCEPT ![r] = refreshes[r] + 1]
      /\ pc' = [pc EXCEPT ![r] = "mirror"]
      /\ job' = [job EXCEPT ![r] = [NoJob EXCEPT !.n = n]]
      /\ UNCHANGED <<world, mirror, tree, edits, current, on, tested, expected, moved>>
  BY DEF BeginRefresh
<1>3. refreshes[r] \in Nat /\ MaxRefresh \in Nat /\ current[r] \in Nat
  BY <1>1, WorktreesAssumption DEF TypeOK, RecordsType
<1>4. n \in 1..MaxRefresh + 1 /\ n # 1 /\ n \in Nat
  BY <1>2, <1>3
<1>5. /\ refreshes' \in [Runs -> 0..MaxRefresh] /\ refreshes'[r] = refreshes[r] + 1
      /\ \A q \in Runs \ {r} : refreshes'[q] = refreshes[q]
  BY <1>1, <1>2, <1>3 DEF TypeOK, RecordsType
<1>6. /\ job' \in [Runs -> JobType] /\ job'[r].n = n /\ job'[r].at = 1 /\ job'[r].bases = <<>>
      /\ pc' \in [Runs -> AnyStep] /\ pc'[r] = "mirror" /\ \A q \in Runs \ {r} : SameStep(q)
  <2> HIDE DEF n
  <2>1. [NoJob EXCEPT !.n = n] \in JobType
    BY <1>4, NoJobType DEF JobType
  <2>2. [NoJob EXCEPT !.n = n].n = n /\ [NoJob EXCEPT !.n = n].at = 1
        /\ [NoJob EXCEPT !.n = n].bases = <<>>
    BY DEF NoJob
  <2> QED
    BY <1>1, <1>2, <2>1, <2>2 DEF TypeOK, AnyStep, Preparing, SameStep
<1>7. TypeOK' /\ Growing
  <2>1. WorldType' /\ RecordsType' /\ edits' \in 0..MaxEdits
    BY <1>1, <1>2, <1>5 DEF TypeOK, WorldType, RecordsType, world
  <2>2. TypeOK'
    BY <1>1, <1>2, <1>6, <2>1 DEF TypeOK
  <2> QED
    BY <1>1, <1>2, <2>2, WorktreesAssumption DEF Growing, There, TypeOK
<1>8. \A q \in Runs \ {r} : Same(q)
  BY <1>2, <1>5, <1>6 DEF Same, SameRecord, SameTrees, world
<1>9. NamesFit(r)'
  <2>1. \A w \in Workspaces : w[3] <= refreshes[r] + 1 => w[3] <= refreshes'[r] + 1
    <3> SUFFICES ASSUME NEW w \in Workspaces PROVE w[3] \in Nat
      BY <1>3, <1>5
    <3> QED
      BY WorkspaceIs, WorktreesAssumption
  <2>2. current[r] <= refreshes'[r] + 1
    BY <1>1, <1>3, <1>5 DEF RecordFits, NamesFit
  <2> QED
    BY <1>1, <1>2, <2>1, <2>2 DEF RecordFits, NamesFit, Saved, W, WholeOnBase, There, Whole
<1>10. RecordFits(r)'
  <2>1. \A w \in Workspaces : RunOf(w) = r => remote[w] \notin Commits
    BY <1>1, <1>2, NotCommits DEF RecordFits, RemoteFits
  <2> QED
    BY <1>1, <1>2, <1>9, <2>1
       DEF RecordFits, TestedFits, ExpectedFits, RemoteFits, CarriedFits, world
<1>11. JobFits(r)'
  BY <1>2, <1>4, <1>6, KeysAreSequences DEF JobFits
<1>12. Ws(r)' = W(r, 1, n) /\ ~Saved(Ws(r))'
  <2>1. Ws(r)' = W(r, 1, n)
    BY <1>6 DEF Ws, Key, W
  <2>2. W(r, 1, n) \in Workspaces /\ RunOf(W(r, 1, n)) = r /\ W(r, 1, n)[3] = n
    BY <1>2, <1>4, KeysAreSequences, WorkspaceOf
  <2>3. ~(n <= refreshes[r] + 1)
    BY <1>3
  <2> HIDE DEF n
  <2>4. ~Saved(W(r, 1, n))
    BY <1>1, <2>2, <2>3 DEF RecordFits, NamesFit
  <2> QED
    BY <1>2, <2>1, <2>4 DEF Saved
<1>13. Refreshing(r)'
  <2>1. current[r] \in 1..refreshes'[r] /\ n = refreshes'[r] + 1
    BY <1>1, <1>2, <1>3, <1>5 DEF RecordFits, NamesFit
  <2> QED
    BY <1>2, <1>4, <1>6, <2>1 DEF Refreshing
<1>14. StepFits(r)'
  BY <1>2, <1>6, <1>11, <1>12, <1>13
     DEF StepFits, PreparingFits, DoneFits, CarryingFits, PublishingFits, Preparing, Making,
         Carrying, Publishing
<1> QED
  BY <1>7, <1>8, <1>10, <1>14, OneRun

\* What a refresh that has prepared its destination knows.
LEMMA WhileCarrying ==
    ASSUME IInv, NEW r \in Runs, pc[r] \in Carrying
    PROVE  /\ TypeOK /\ JobFits(r) /\ CarryingFits(r) /\ RecordFits(r)
           /\ Refreshing(r) /\ Saved(Ws(r)) /\ tested[r] # Untested /\ expected[r] = NoCommit
           /\ Ws(r) \in Workspaces /\ RunOf(Ws(r)) = r /\ Ws(r)[3] = job[r].n
           /\ Ws(r) # Kept(r) /\ WholeOnBase(Ws(r)) /\ tree[Ws(r)] \in TreeType
           /\ tested[r] \in 1..edits /\ edits \in Nat
<1>1. TypeOK /\ JobFits(r) /\ CarryingFits(r) /\ RecordFits(r)
  BY DEF IInv, Fits, StepFits
<1>2. Refreshing(r) /\ Saved(Ws(r)) /\ tested[r] # Untested /\ expected[r] = NoCommit
  BY <1>1 DEF CarryingFits, Refreshing
<1>3. Ws(r) \in Workspaces /\ RunOf(Ws(r)) = r /\ Ws(r)[3] = job[r].n
  BY <1>1, OwnWorkspace
<1>4. WholeOnBase(Ws(r)) /\ tree[Ws(r)] \in TreeType
  BY <1>1, <1>2, <1>3 DEF RecordFits, NamesFit, TypeOK
<1>5. current[r] # job[r].n
  BY <1>1, <1>2, WorktreesAssumption DEF Refreshing, TypeOK, RecordsType
<1> QED
  BY <1>1, <1>2, <1>3, <1>4, <1>5, TestedWorkspace

LEMMA CarryingStep ==
    ASSUME NEW r \in Runs, JobFits(r), job'[r].n = job[r].n, job'[r].at = job[r].at,
           pc'[r] \in Carrying, CarryingFits(r)', expected'[r] = NoCommit
    PROVE  StepFits(r)'
<1>1. pc'[r] \notin {"idle"} \cup Preparing \cup Publishing
  BY DEF Publishing, Preparing, Carrying
<1>2. JobFits(r)'
  BY <1>1 DEF JobFits
<1> QED
  BY <1>1, <1>2 DEF StepFits, PreparingFits, DoneFits, PublishingFits, Publishing

LEMMA CompareSourceFits == ASSUME IInv, NEW r \in Runs, CompareSource(r) PROVE IInv'
<1>1. Quiet /\ UNCHANGED mirror /\ pc[r] = "source" /\ pc[r] \in Carrying
  BY DEF CompareSource, Quiet, Carrying
<1>2. CASE SourceKept(r) /\ Go(r, "patch")
  <2>1. tested[r] <= tree[Kept(r)].files
    BY <1>1, <1>2, WhileCarrying DEF SourceKept, AsTested
  <2>2. /\ pc' \in [Runs -> AnyStep] /\ job' \in [Runs -> JobType]
        /\ pc'[r] = "patch" /\ job'[r] = job[r] /\ \A q \in Runs \ {r} : SameStep(q)
    BY <1>1, <1>2, WhileCarrying, Goes DEF AnyStep, Carrying
  <2>3. Ws(r)' = Ws(r) /\ Kept(r)' = Kept(r)
    BY <1>1, <2>2 DEF Ws, Key, Kept, Quiet, records
  <2>4. CarryingFits(r)'
    BY <1>1, <2>1, <2>2, <2>3, WhileCarrying DEF CarryingFits, Refreshing, Saved, Quiet, records
  <2>5. StepFits(r)'
    BY <1>1, <2>2, <2>4, WhileCarrying, CarryingStep DEF Carrying, Quiet, records
  <2> QED
    BY <1>1, <2>2, <2>5, QuietMove
<1>3. CASE Refuse(r)
  BY <1>1, <1>3, QuietEnd
<1> QED
  BY <1>2, <1>3 DEF CompareSource

LEMMA ReadPatchFits == ASSUME IInv, NEW r \in Runs, ReadPatch(r) PROVE IInv'
<1>1. Quiet /\ UNCHANGED mirror /\ pc[r] = "patch" /\ pc[r] \in Carrying
  BY DEF ReadPatch, Quiet, Carrying
<1>2. TypeOK /\ pc' = [pc EXCEPT ![r] = "apply"]
      /\ job' = [job EXCEPT ![r].patch = tree[Kept(r)].files]
  BY DEF ReadPatch, IInv
<1>3. tree[Kept(r)].files \in Nat /\ tested[r] <= tree[Kept(r)].files
  BY <1>1, WhileCarrying, TestedWorkspace DEF CarryingFits
<1>4. /\ job' \in [Runs -> JobType] /\ job'[r].n = job[r].n /\ job'[r].at = job[r].at
      /\ job'[r].patch = tree[Kept(r)].files
  BY <1>2, <1>3 DEF TypeOK, JobType
<1>5. pc' \in [Runs -> AnyStep] /\ pc'[r] = "apply" /\ \A q \in Runs \ {r} : SameStep(q)
  BY <1>2 DEF TypeOK, AnyStep, Carrying, SameStep
<1>6. Ws(r)' = Ws(r) /\ Kept(r)' = Kept(r)
  BY <1>1, <1>4 DEF Ws, Key, Kept, Quiet, records
<1>7. CarryingFits(r)'
  BY <1>1, <1>3, <1>4, <1>5, <1>6, WhileCarrying
     DEF CarryingFits, Refreshing, Saved, Quiet, records
<1>8. StepFits(r)'
  BY <1>1, <1>4, <1>5, <1>7, WhileCarrying, CarryingStep DEF Carrying, Quiet, records
<1> QED
  BY <1>1, <1>4, <1>5, <1>8, QuietMove

\* The source holds what was tested when the patch is applied, and contents
\* do not come back: so did it when the patch was read.
LEMMA ApplyPatchFits == ASSUME IInv, NEW r \in Runs, ApplyPatch(r) PROVE IInv'
<1>1. pc[r] = "apply" /\ pc[r] \in Carrying /\ UNCHANGED <<world, mirror, edits, records>>
  BY DEF ApplyPatch, Carrying
<1>2. CASE Refuse(r) /\ UNCHANGED <<tree, moved>>
  BY <1>1, <1>2, QuietEnd DEF Quiet
<1>3. CASE /\ SourceKept(r)
           /\ SetTree(r, [tree[Ws(r)] EXCEPT !.files = job[r].patch])
           /\ moved' = [moved EXCEPT ![Ws(r)] = [patch |-> job[r].patch, tested |-> tested[r]]]
           /\ Go(r, "swap")
  <2> DEFINE t == [tree[Ws(r)] EXCEPT !.files = job[r].patch]
  <2>1. /\ TypeOK /\ JobFits(r) /\ RecordFits(r) /\ Refreshing(r) /\ Saved(Ws(r))
        /\ Ws(r) \in Workspaces /\ RunOf(Ws(r)) = r /\ WholeOnBase(Ws(r))
        /\ tree[Ws(r)] \in TreeType /\ expected[r] = NoCommit
        /\ tested[r] \in 1..edits /\ edits \in Nat
    BY <1>1, WhileCarrying
  <2>2. job[r].patch = tested[r]
    <3>1. tested[r] <= job[r].patch /\ job[r].patch <= tree[Kept(r)].files
      BY <1>1, WhileCarrying DEF CarryingFits
    <3>2. tree[Kept(r)].files = tested[r] /\ job[r].patch \in Nat
      BY <1>3, <2>1 DEF SourceKept, AsTested, TypeOK, JobType
    <3> QED
      BY <2>1, <3>1, <3>2
  <2>3. t \in TreeType /\ Whole(t) /\ t.branch = tree[Ws(r)].branch /\ t.files <= edits
    BY <2>1, <2>2 DEF TreeType, WholeOnBase, Whole
  <2>4. /\ tree' \in [Workspaces -> TreeType] /\ tree'[Ws(r)] = t
        /\ \A w \in Workspaces : w # Ws(r) => tree'[w] = tree[w]
    <3> HIDE DEF t
    <3> QED
      BY <1>3, <2>1, <2>3 DEF SetTree, TypeOK, t
  <2>5. /\ moved' \in [Workspaces -> [patch : Nat, tested : Nat]]
        /\ moved'[Ws(r)].patch = moved'[Ws(r)].tested
        /\ \A w \in Workspaces : w # Ws(r) => moved'[w] = moved[w]
    BY <1>3, <2>1, <2>2 DEF TypeOK, RecordsType
  <2> HIDE DEF t
  <2>6. /\ pc' \in [Runs -> AnyStep] /\ job' \in [Runs -> JobType]
        /\ pc'[r] = "swap" /\ job'[r] = job[r] /\ \A q \in Runs \ {r} : SameStep(q)
    BY <1>3, <2>1, Goes DEF AnyStep, Carrying
  <2>7. TypeOK' /\ Growing
    <3>1. WorldType' /\ RecordsType' /\ edits' \in 0..MaxEdits
      BY <1>1, <2>1, <2>5 DEF TypeOK, WorldType, RecordsType, world, records
    <3>2. TypeOK'
      BY <2>4, <2>6, <3>1 DEF TypeOK
    <3> QED
      BY <1>1, <2>1, <3>2 DEF Growing, There
  <2>8. \A q \in Runs \ {r} : Same(q)
    BY <1>1, <2>1, <2>4, <2>5, <2>6 DEF Same, SameRecord, SameTrees, world, records
  <2>9. \A w \in Workspaces : WholeOnBase(w) => WholeOnBase(w)'
    <3> SUFFICES ASSUME NEW w \in Workspaces, WholeOnBase(w) PROVE WholeOnBase(w)'
      OBVIOUS
    <3>1. CASE w = Ws(r)
      BY <1>1, <2>3, <2>4, <3>1 DEF WholeOnBase, There, Whole, records
    <3>2. CASE w # Ws(r)
      BY <1>1, <2>4, <3>2 DEF WholeOnBase, There, Whole, records
    <3> QED
      BY <3>1, <3>2
  <2>10. NamesFit(r)'
    BY <1>1, <2>1, <2>9 DEF RecordFits, NamesFit, Saved, W, records
  <2>11. CarriedFits(r)'
    BY <2>1, <2>5 DEF RecordFits, CarriedFits
  <2>12. RecordFits(r)'
    BY <1>1, <2>1, <2>10, <2>11
       DEF RecordFits, TestedFits, ExpectedFits, RemoteFits, Kept, AsExpected, world, records
  <2>13. Ws(r)' = Ws(r) /\ expected'[r] = NoCommit
    BY <1>1, <2>1, <2>6 DEF Ws, Key, records
  <2>14. CarryingFits(r)'
    BY <1>1, <2>1, <2>6, <2>13 DEF CarryingFits, Refreshing, Saved, records
  <2>15. StepFits(r)'
    BY <2>1, <2>6, <2>13, <2>14, CarryingStep DEF Carrying
  <2> QED
    BY <2>7, <2>8, <2>12, <2>15, OneRun
<1> QED
  BY <1>2, <1>3 DEF ApplyPatch

LEMMA SwapFits == ASSUME IInv, NEW r \in Runs, Swap(r) PROVE IInv'
<1> DEFINE n == job[r].n
<1>1. /\ pc[r] \in Carrying /\ Refuse(r)
      /\ UNCHANGED <<world, mirror, tree, edits, on, expected, refreshes, moved>>
  BY DEF Swap, Carrying
<1>2. CASE UNCHANGED <<current, tested>>
  BY <1>1, <1>2, QuietEnd DEF Quiet, records
<1>3. CASE /\ current' = [current EXCEPT ![r] = n]
           /\ tested' = [tested EXCEPT ![r] = Untested]
  <2>1. /\ TypeOK /\ JobFits(r) /\ RecordFits(r) /\ Refreshing(r) /\ Saved(Ws(r))
        /\ expected[r] = NoCommit /\ r \in Published
    BY <1>1, WhileCarrying DEF Refreshing, JobFits
  <2>2. n \in 1..MaxRefresh + 1 /\ n = refreshes[r] + 1 /\ n # 0
    BY <2>1, WorktreesAssumption DEF JobFits, Refreshing
  <2>3. Untested \in 0..Untested
    BY WorktreesAssumption DEF Untested
  <2>4. /\ current' \in [Runs -> 0..MaxRefresh + 1] /\ current'[r] = n
        /\ tested' \in [Runs -> 0..Untested] /\ tested'[r] = Untested
        /\ \A q \in Runs \ {r} : current'[q] = current[q] /\ tested'[q] = tested[q]
    BY <1>3, <2>1, <2>2, <2>3, WorktreesAssumption DEF TypeOK, RecordsType
  <2>5. /\ pc' \in [Runs -> AnyStep] /\ job' \in [Runs -> JobType] /\ StepFits(r)'
        /\ \A q \in Runs \ {r} : SameStep(q)
    BY <1>1, <2>1, Ends
  <2> HIDE DEF n
  <2>6. TypeOK' /\ Growing
    BY <1>1, <2>1, <2>4, <2>5, WorktreesAssumption
       DEF TypeOK, WorldType, RecordsType, world, Growing, There
  <2>7. \A q \in Runs \ {r} : SameRecord(q) /\ SameTrees(q)
    BY <1>1, <2>4 DEF SameRecord, SameTrees, world
  <2>8. \A i \in DOMAIN KeysOf[r] : W(r, i, n) = Ws(r)
    <3>1. DOMAIN KeysOf[r] = {1} /\ job[r].at = 1
      BY <2>1, KeysAreSequences DEF JobFits
    <3> QED
      BY <3>1 DEF W, Ws, Key, n
  <2>9. NamesFit(r)'
    <3>1. refreshes[r] + 1 <= refreshes[r] + 1
      BY <2>1, WorktreesAssumption DEF TypeOK, RecordsType
    <3>2. \A i \in DOMAIN KeysOf[r] : on'[W(r, i, n)] # NoBase
      BY <1>1, <2>1, <2>8 DEF Saved
    <3>3. \A w \in Workspaces : RunOf(w) = r /\ on'[w] # NoBase =>
             w[3] <= refreshes[r] + 1 /\ WholeOnBase(w)'
      BY <1>1, <2>1 DEF RecordFits, NamesFit, Saved, WholeOnBase, There, Whole
    <3> QED
      BY <1>1, <2>1, <2>2, <2>4, <3>1, <3>2, <3>3 DEF NamesFit, Saved, W
  <2>10. RemoteFits(r)'
    <3>1. \A w \in Workspaces : RunOf(w) = r => remote[w] \notin Commits
      BY <2>1, NotCommits DEF RecordFits, RemoteFits
    <3> QED
      BY <1>1, <3>1 DEF RemoteFits, world
  <2>11. RecordFits(r)'
    BY <1>1, <2>1, <2>4, <2>9, <2>10 DEF RecordFits, TestedFits, ExpectedFits, CarriedFits
  <2> QED
    BY <2>5, <2>6, <2>7, <2>11, OneRun DEF Same
<1> QED
  BY <1>2, <1>3 DEF Swap

-----------------------------------------------------------------------------
(* Crashes *)

LEMMA CrashFits == ASSUME IInv, NEW r \in Runs, Crash(r) PROVE IInv'
<1>1. TypeOK /\ StepFits(r) /\ RecordFits(r) /\ Refuse(r)
      /\ UNCHANGED <<world, edits, records, moved>>
  BY DEF IInv, Fits, Crash
<1>2. /\ pc' \in [Runs -> AnyStep] /\ job' \in [Runs -> JobType] /\ StepFits(r)'
      /\ \A q \in Runs \ {r} : SameStep(q)
  BY <1>1, Ends
<1>3. CASE UNCHANGED <<mirror, tree>>
  BY <1>1, <1>3, QuietEnd DEF Quiet
<1>4. CASE pc[r] = "cloning" /\ mirror[Key(r)].is = "partial" /\ Cloned(Key(r))
  <2>1. Key(r) \in Repos
    BY <1>1, OwnWorkspace DEF StepFits
  <2>2. TypeOK' /\ Growing /\ \A q \in Runs : SameRecord(q) /\ SameTrees(q)
    BY <1>1, <1>2, <1>4, <2>1, ClonedChanges
  <2>3. RecordFits(r)'
    BY <1>1, <2>2, RecordKept
  <2> QED
    BY <1>2, <2>2, <2>3, OneRun DEF Same
<1>5. CASE pc[r] = "adding" /\ SetTree(r, Added(tree[Ws(r)])) /\ UNCHANGED mirror
  <2>1. pc[r] \in Preparing
    BY <1>5 DEF Preparing
  <2> QED
    BY <1>1, <1>5, <2>1, OwnTree, AddedIsTree, EndsWithTree
<1> QED
  BY <1>3, <1>4, <1>5 DEF Crash

-----------------------------------------------------------------------------
(* The specification *)

LEMMA InitFits == ASSUME Init PROVE IInv
<1>1. NoMirror \in MirrorType /\ NoJob \in JobType /\ NoTree \in TreeType /\ NoCommit \in AnyCommit
  BY WorktreesAssumption
     DEF NoMirror, MirrorType, NoJob, JobType, NoTree, TreeType, NoCommit, AnyCommit, NoBase
<1>2. 0 \in 0..MaxBase /\ NoBase \in 0..NoBase /\ Untested \in 0..Untested /\ 0 \in 0..MaxEdits
      /\ 0 \in 0..MaxRefresh + 1 /\ 0 \in 0..MaxRefresh /\ 0 \in Nat
  BY WorktreesAssumption DEF NoBase, Untested
<1>3. WorldType
  BY <1>1, <1>2 DEF Init, WorldType
<1>4. RecordsType
  BY <1>1, <1>2 DEF Init, RecordsType
<1>5. TypeOK
  BY <1>1, <1>2, <1>3, <1>4 DEF Init, TypeOK, AnyStep
<1>6. ASSUME NEW r \in Runs PROVE Fits(r)
  <2>1. \A w \in Workspaces : ~Saved(w) /\ remote[w] \notin Commits /\ moved[w].patch = moved[w].tested
    BY NotCommits DEF Init, Saved
  <2>2. current[r] = 0 /\ tested[r] = Untested /\ expected[r] = NoCommit /\ refreshes[r] = 0
        /\ pc[r] = "idle" /\ job[r] = NoJob
    BY DEF Init
  <2>3. RecordFits(r)
    BY <2>1, <2>2
       DEF RecordFits, NamesFit, TestedFits, ExpectedFits, RemoteFits, CarriedFits
  <2>4. job[r].n = 1 /\ job[r].at = 1
    BY <2>2 DEF NoJob
  <2>5. JobFits(r)
    BY <2>2, <2>4, KeysAreSequences, WorktreesAssumption DEF JobFits
  <2> QED
    BY <2>2, <2>3, <2>5 DEF Fits, StepFits, PreparingFits, DoneFits, CarryingFits,
       PublishingFits, Preparing, Carrying, Publishing
<1> QED
  BY <1>5, <1>6 DEF IInv

LEMMA StepsFit == ASSUME IInv, [Next]_vars PROVE IInv'
<1>1. CASE UNCHANGED vars
  <2>1. TypeOK' /\ Growing
    BY <1>1, WorktreesAssumption DEF IInv, TypeOK, WorldType, RecordsType, vars, world, records,
       procs, Growing, There
  <2>2. \A q \in Runs : Same(q)
    BY <1>1 DEF Same, SameRecord, SameTrees, SameStep, vars, world, records, procs
  <2> QED
    BY <2>1, <2>2, Nobody
<1>2. ASSUME NEW k \in Repos, MoveBase(k) \/ Pull(k) PROVE IInv'
  BY <1>2, MoveBaseFits, PullFits
<1>3. ASSUME NEW w \in Workspaces, PushForeign(w) \/ Write(w) PROVE IInv'
  BY <1>3, PushForeignFits, WriteFits
<1>4. ASSUME NEW r \in Runs,
             \/ FindMirror(r) \/ Damaged(r) \/ MissMirror(r) \/ BeginClone(r) \/ EndClone(r)
             \/ CloneTooLate(r) \/ SetOrigin(r) \/ Fetch(r)
      PROVE  IInv'
  BY <1>4, FindMirrorFits, DamagedFits, MissMirrorFits, BeginCloneFits, EndCloneFits,
     CloneTooLateFits, SetOriginFits, FetchFits
<1>5. ASSUME NEW r \in Runs,
             \/ Look(r) \/ ReadRefs(r) \/ Recover(r) \/ Reserve(r) \/ MakeBranch(r)
             \/ BeginAdd(r) \/ EndAdd(r) \/ CheckNew(r) \/ Ready(r) \/ CommandFails(r) \/ SaveRun(r)
      PROVE  IInv'
  BY <1>5, LookFits, ReadRefsFits, RecoverFits, ReserveFits, MakeBranchFits, BeginAddFits,
     EndAddFits, CheckNewFits, ReadyFits, CommandFailsFits, SaveRunFits
<1>6. ASSUME NEW r \in Runs,
             \/ Test(r) \/ Publish(r) \/ Find(r) \/ Compare(r) \/ ReadBase(r) \/ Snapshot(r)
             \/ StageIntent(r) \/ StageCommit(r) \/ UpdateRef(r) \/ ResetHard(r)
             \/ LookRemote(r) \/ Push(r)
      PROVE  IInv'
  BY <1>6, TestFits, PublishFits, FindFits, CompareFits, ReadBaseFits, SnapshotFits,
     StageIntentFits, StageCommitFits, UpdateRefFits, ResetHardFits, LookRemoteFits, PushFits
<1>7. ASSUME NEW r \in Runs,
             \/ BeginRefresh(r) \/ SaveDestination(r) \/ CompareSource(r) \/ ReadPatch(r)
             \/ ApplyPatch(r) \/ Swap(r) \/ Crash(r)
      PROVE  IInv'
  BY <1>7, BeginRefreshFits, SaveDestinationFits, CompareSourceFits, ReadPatchFits,
     ApplyPatchFits, SwapFits, CrashFits
<1> QED
  BY <1>1, <1>2, <1>3, <1>4, <1>5, <1>6, <1>7 DEF Next

LEMMA AlwaysFits == Spec => []IInv
<1>1. Init => IInv
  BY InitFits
<1>2. IInv /\ [Next]_vars => IInv'
  BY StepsFit
<1> HIDE DEF IInv
<1> QED
  BY <1>1, <1>2, PTL DEF Spec

\* Every variable keeps its type.
THEOREM TypeCorrect == Spec => []TypeOK
<1>1. IInv => TypeOK
  BY DEF IInv
<1> HIDE DEF IInv, TypeOK
<1> QED
  BY <1>1, AlwaysFits, PTL

\* A workspace that a run names is a whole worktree on the branch of the run,
\* which stands on the recorded base, whatever crashes, failed commands,
\* clean-ups and other runs of the mirror left behind (recover, prepare,
\* _cleanup_failed_worktree).
THEOREM AlwaysNamedIsWhole == Spec => []NamedIsWhole
<1>1. IInv => NamedIsWhole
  BY WorkspaceIs DEF IInv, Fits, RecordFits, NamesFit, Saved, WholeOnBase, NamedIsWhole
<1> HIDE DEF IInv, NamedIsWhole
<1> QED
  BY <1>1, AlwaysFits, PTL

\* What is on the remote under the name of a run is the content that was
\* tested, on the base it was tested on: no write between the comparisons and
\* the staging is published (prepare_commit_intent, commit_approved).
THEOREM AlwaysPublishedIsTested == Spec => []PublishedIsTested
<1>1. ASSUME IInv, NEW w \in Workspaces, remote[w] \in Commits
      PROVE  remote[w] = [on |-> on[w], with |-> tested[RunOf(w)]]
  <2> DEFINE r == RunOf(w)
  <2>1. r \in Runs
    BY WorkspaceIs
  <2>2. w = Kept(r) /\ remote[w] = expected[r] /\ AsExpected(r) /\ ExpectedFits(r)
    BY <1>1, <2>1 DEF IInv, Fits, RecordFits, RemoteFits
  <2>3. expected[r] # NoCommit
    BY <1>1, <2>2, NotCommits
  <2>4. remote[w].on = on[w] /\ remote[w].with = tested[r]
    BY <2>2, <2>3 DEF ExpectedFits, AsExpected
  <2> QED
    BY <1>1, <2>4 DEF Commits
<1>2. IInv => PublishedIsTested
  BY <1>1 DEF PublishedIsTested
<1> HIDE DEF IInv, PublishedIsTested
<1> QED
  BY <1>2, AlwaysFits, PTL

\* A refresh carries the patch that had been tested, whoever writes into the
\* old worktree while it is read (baseline_refresh.transfer).
THEOREM AlwaysCarriesWhatWasTested == Spec => []CarriesWhatWasTested
<1>1. IInv => CarriesWhatWasTested
  BY WorkspaceIs DEF IInv, Fits, RecordFits, CarriedFits, CarriesWhatWasTested
<1> HIDE DEF IInv, CarriesWhatWasTested
<1> QED
  BY <1>1, AlwaysFits, PTL
=============================================================================
