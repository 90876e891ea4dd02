------------------------------ MODULE Worktrees ------------------------------
(***************************************************************************)
(* repository.py, repository_group.py and baseline_refresh.py: the git     *)
(* repositories of the runs.  Every repository has one bare mirror, shared *)
(* by the runs; a run has a worktree of its own on a branch of its own in  *)
(* each repository of its group.  A worktree is prepared from the remote   *)
(* base, or found again after a crash; its tested content is committed and *)
(* pushed; when the remote base moved meanwhile, the tested patch is taken *)
(* to another worktree and the old one is left as it is.                   *)
(*                                                                         *)
(* Every git command is a step of its own, may fail, and the process of a  *)
(* run may stop before or after each.  Somebody moves the remote base,     *)
(* pushes a branch under the name of a run's, and writes into worktrees    *)
(* (the agent, a helper it left behind, or the user); a write makes a      *)
(* content nobody had before.  A commit is the base it stands on and the   *)
(* content it adds to that base, 0 being none.                             *)
(***************************************************************************)
EXTENDS Naturals, Sequences

CONSTANTS Runs,       \* the runs
          KeysOf,     \* repositories of a run, in topological order
          Published,  \* runs followed to their publication; they have one repository
          Touched,    \* bound: runs whose branches and worktrees others touch
          Moving,     \* bound: repositories whose remote base moves
          MaxBase,    \* bound: commits on the remote base
          MaxEdits,   \* bound: writes into worktrees
          MaxRefresh  \* max_baseline_refreshes

ASSUME WorktreesAssumption ==
    /\ \A r \in Runs : KeysOf[r] \in Seq(STRING) /\ KeysOf[r] # <<>>
    /\ \A r \in Runs : \A i, j \in DOMAIN KeysOf[r] : KeysOf[r][i] = KeysOf[r][j] => i = j
    /\ Published \subseteq Runs /\ \A r \in Published : Len(KeysOf[r]) = 1
    /\ MaxBase \in Nat /\ MaxEdits \in Nat /\ MaxRefresh \in Nat

Has(r, k)  == \E i \in DOMAIN KeysOf[r] : KeysOf[r][i] = k
Repos      == UNION {{KeysOf[r][i] : i \in DOMAIN KeysOf[r]} : r \in Runs}
Workspaces == {w \in Runs \X Repos \X (1..MaxRefresh + 1) :
                 /\ Has(w[1], w[2])
                 /\ w[1] \in Published \/ w[3] = 1}
RunOf(w)   == w[1]
RepoOf(w)  == w[2]
InRepo(k)  == {w \in Workspaces : RepoOf(w) = k}

Base(b)  == [on |-> b, with |-> 0]
Commits  == [on : 0..MaxBase, with : 0..MaxEdits]
NoBase   == MaxBase + 1
NoCommit == [on |-> NoBase, with |-> 0]
Foreign  == [on |-> NoBase, with |-> 1]
Untested == MaxEdits + 1

VARIABLES
    base,      \* tip of the remote base branch of each repository
    remote,    \* what the remote has under the name of each workspace's branch
    uses,      \* repositories that are fetched from a local source
    source,    \* tip of the base branch in that source
    mirror,    \* the bare mirror of each repository
    tree,      \* directory, registration, branch and files of each workspace
    edits,     \* writes so far
    current,   \* of the run record: the workspace it names, 0 for none
    on,        \* of the run record: base commit of a prepared workspace
    tested,    \* of the run record: content of the tested snapshot
    expected,  \* of the run record: the commit to publish
    refreshes, \* of the run record: baseline refreshes begun
    pc, job,   \* where the process of a run stands
    moved      \* history: what a refresh carried, and what had been tested

world   == <<base, remote, uses, source>>
records == <<current, on, tested, expected, refreshes>>
procs   == <<pc, job>>
vars    == <<world, mirror, tree, edits, records, procs, moved>>

NoMirror == [is |-> "none", origin |-> "remote", tracked |-> 0, branches |-> {}]
NoTree   == [dir |-> "none", registered |-> FALSE, branch |-> NoCommit, files |-> 0]
NoJob    == [n |-> 1, at |-> 1, mode |-> "prepare", source |-> 0, bases |-> <<>>, patch |-> 0]

Init ==
    /\ base = [k \in Repos |-> 0] /\ source = [k \in Repos |-> 0]
    /\ remote = [w \in Workspaces |-> NoCommit]
    /\ uses \in {{}, Repos}
    /\ mirror = [k \in Repos |-> NoMirror]
    /\ tree = [w \in Workspaces |-> NoTree]
    /\ edits = 0
    /\ current = [r \in Runs |-> 0] /\ on = [w \in Workspaces |-> NoBase]
    /\ tested = [r \in Runs |-> Untested] /\ expected = [r \in Runs |-> NoCommit]
    /\ refreshes = [r \in Runs |-> 0]
    /\ pc = [r \in Runs |-> "idle"] /\ job = [r \in Runs |-> NoJob]
    /\ moved = [w \in Workspaces |-> [patch |-> 0, tested |-> 0]]

Key(r)  == KeysOf[r][job[r].at]
Ws(r)   == <<r, Key(r), job[r].n>>            \* the workspace a run works on
Kept(r) == <<r, KeysOf[r][1], current[r]>>    \* the one its record names
Seen(r) == job[r].bases[job[r].at]

\* A workspace is a whole worktree whose files are those of its branch.
Whole(t) == t.dir = "tree" /\ t.registered
Clean(t) == Whole(t) /\ t.files = t.branch.with

Go(r, step) == pc' = [pc EXCEPT ![r] = step] /\ UNCHANGED job
\* The call raises; the record keeps what was saved.
Refuse(r)   == pc' = [pc EXCEPT ![r] = "idle"] /\ job' = [job EXCEPT ![r] = NoJob]

-----------------------------------------------------------------------------
(* Others: the team, the user and what an agent left behind *)

MoveBase(k) ==
    /\ k \in Moving /\ base[k] < MaxBase
    /\ base' = [base EXCEPT ![k] = @ + 1]
    /\ UNCHANGED <<remote, uses, source, mirror, tree, edits, records, procs, moved>>

Pull(k) ==
    /\ k \in uses /\ source[k] < base[k]
    /\ source' = [source EXCEPT ![k] = base[k]]
    /\ UNCHANGED <<base, remote, uses, mirror, tree, edits, records, procs, moved>>

PushForeign(w) ==
    /\ RunOf(w) \in Touched /\ remote[w] = NoCommit
    /\ remote' = [remote EXCEPT ![w] = Foreign]
    /\ UNCHANGED <<base, uses, source, mirror, tree, edits, records, procs, moved>>

Write(w) ==
    /\ RunOf(w) \in Touched /\ tree[w].dir = "tree" /\ edits < MaxEdits
    /\ edits' = edits + 1
    /\ tree' = [tree EXCEPT ![w].files = edits + 1]
    /\ UNCHANGED <<world, mirror, records, procs, moved>>

-----------------------------------------------------------------------------
(* _ensure_mirror *)

SetMirror(r, m) == mirror' = [mirror EXCEPT ![Key(r)] = m]

\* The mirror exists and says it is bare; its origin is compared before use.
\* While it is being cloned, or when that was cut short, it may say either.
FindMirror(r) ==
    /\ pc[r] = "mirror" /\ mirror[Key(r)].is # "none"
    /\ IF mirror[Key(r)].origin = "remote"
       THEN /\ pc' = [pc EXCEPT ![r] = "fetch"]
            /\ job' = [job EXCEPT ![r].source = source[Key(r)]]
       ELSE Refuse(r)
    /\ UNCHANGED <<world, mirror, tree, edits, records, moved>>

Damaged(r) ==
    /\ pc[r] = "mirror" /\ mirror[Key(r)].is = "partial"
    /\ Refuse(r)
    /\ UNCHANGED <<world, mirror, tree, edits, records, moved>>

MissMirror(r) ==
    /\ pc[r] = "mirror" /\ mirror[Key(r)].is = "none"
    /\ pc' = [pc EXCEPT ![r] = "clone"]
    /\ job' = [job EXCEPT ![r].source = source[Key(r)]]
    /\ UNCHANGED <<world, mirror, tree, edits, records, moved>>

\* git clone refuses a directory that is there by now.
BeginClone(r) ==
    /\ pc[r] = "clone"
    /\ IF mirror[Key(r)].is = "none"
       THEN /\ SetMirror(r, [NoMirror EXCEPT !.is = "partial",
                                !.origin = IF Key(r) \in uses THEN "source" ELSE "remote"])
            /\ Go(r, "cloning")
       ELSE Refuse(r) /\ UNCHANGED mirror
    /\ UNCHANGED <<world, tree, edits, records, moved>>

\* A bare clone makes every branch it finds a branch of the mirror.
Cloned(k) ==
    /\ mirror' = [mirror EXCEPT ![k].is = "whole"]
    /\ tree' = [w \in Workspaces |->
                  IF RepoOf(w) = k /\ k \notin uses /\ remote[w] # NoCommit
                  THEN [tree[w] EXCEPT !.branch = remote[w]] ELSE tree[w]]

EndClone(r) ==
    /\ pc[r] = "cloning" /\ mirror[Key(r)].is = "partial"
    /\ \/ Cloned(Key(r)) /\ Go(r, IF Key(r) \in uses THEN "origin" ELSE "fetch")
       \/ SetMirror(r, NoMirror) /\ Refuse(r) /\ UNCHANGED tree
    /\ UNCHANGED <<world, edits, records, moved>>

\* Another run found the mirror bare and fetched into it.  The clone aborts
\* on the refs it did not expect; or it fails earlier and removes the mirror
\* under the other run, and the runs of the repository are followed no further.
CloneTooLate(r) ==
    /\ pc[r] = "cloning" /\ mirror[Key(r)].is = "whole"
    /\ \/ Refuse(r) /\ UNCHANGED mirror
       \/ /\ SetMirror(r, [NoMirror EXCEPT !.is = "ruined"])
          /\ pc' = [q \in Runs |-> IF Has(q, Key(r)) THEN "stopped" ELSE pc[q]]
          /\ UNCHANGED job
    /\ UNCHANGED <<world, tree, edits, records, moved>>

SetOrigin(r) ==
    /\ pc[r] = "origin"
    /\ SetMirror(r, [mirror[Key(r)] EXCEPT !.origin = "remote"])
    /\ Go(r, "fetch")
    /\ UNCHANGED <<world, tree, edits, records, moved>>

Fetched(k) ==
    IF k \in uses
    THEN [mirror[k] EXCEPT !.is = "whole", !.tracked = source[k], !.branches = {}]
    ELSE [mirror[k] EXCEPT !.is = "whole", !.tracked = base[k],
                           !.branches = {w \in InRepo(k) : remote[w] # NoCommit}]

Fetch(r) ==
    /\ pc[r] = "fetch" /\ mirror[Key(r)].is # "none"
    /\ SetMirror(r, Fetched(Key(r)))
    /\ IF Key(r) \in uses /\ job[r].source # source[Key(r)] THEN Refuse(r) ELSE Go(r, "refs")
    /\ UNCHANGED <<world, tree, edits, records, moved>>

-----------------------------------------------------------------------------
(* recover and prepare *)

\* A later run of prepare_group, or of _prepare_repository, looks for what
\* an earlier one left; a refresh draws a new workspace and only prepares.
Look(r) ==
    LET w == <<r, KeysOf[r][job[r].at], 1>>
        mode == IF tree[w].dir = "none" THEN "prepare" ELSE "recover"
    IN
    /\ \/ pc[r] = "idle" /\ current[r] = 0
       \/ pc[r] = "look"
    /\ IF mode = "recover" /\ mirror[Key(r)].is = "none" THEN Refuse(r)
       ELSE /\ pc' = [pc EXCEPT ![r] = "mirror"]
            /\ job' = [job EXCEPT ![r].mode = mode]
    /\ UNCHANGED <<world, mirror, tree, edits, records, moved>>

Resolve(r, step) ==
    /\ pc' = [pc EXCEPT ![r] = step]
    /\ job' = [job EXCEPT ![r].bases = Append(@, mirror[Key(r)].tracked)]

\* The next repository of the group, or the save of the run record.
NextKey(r) ==
    IF job[r].at < Len(KeysOf[r])
    THEN /\ pc' = [pc EXCEPT ![r] = "look"] /\ job' = [job EXCEPT ![r].at = @ + 1]
    ELSE Go(r, "save")

\* A branch of an earlier attempt is used again when nothing was added to it.
Reusable(t, b) == t.branch = NoCommit \/ (t.branch = Base(b) /\ ~t.registered)

ReadRefs(r) ==
    /\ pc[r] = "refs" /\ job[r].mode = "prepare"
    /\ IF /\ Ws(r) \notin mirror[Key(r)].branches
          /\ Reusable(tree[Ws(r)], mirror[Key(r)].tracked)
       THEN Resolve(r, "reserve") ELSE Refuse(r)
    /\ UNCHANGED <<world, mirror, tree, edits, records, moved>>

\* Mistake: a registered worktree on the right branch is enough.
RecoverableByRefs(t, b) == t.registered /\ t.branch = Base(b)

\* What a crash left is taken over only if it is complete and untouched.
Recoverable(t, b) == Clean(t) /\ t.branch = Base(b)

Recover(r) ==
    /\ pc[r] = "refs" /\ job[r].mode = "recover"
    /\ IF /\ Ws(r) \notin mirror[Key(r)].branches
          /\ Recoverable(tree[Ws(r)], mirror[Key(r)].tracked)
       THEN Resolve(r, "ready") ELSE Refuse(r)
    /\ UNCHANGED <<world, mirror, tree, edits, records, moved>>

SetTree(r, t) == tree' = [tree EXCEPT ![Ws(r)] = t]

Reserve(r) ==
    /\ pc[r] = "reserve"
    /\ IF tree[Ws(r)].dir = "none"
       THEN SetTree(r, [tree[Ws(r)] EXCEPT !.dir = "empty"]) /\ Go(r, "branch")
       ELSE Refuse(r) /\ UNCHANGED tree
    /\ UNCHANGED <<world, mirror, edits, records, moved>>

MakeBranch(r) ==
    /\ pc[r] = "branch"
    /\ SetTree(r, [tree[Ws(r)] EXCEPT !.branch = Base(Seen(r))])
    /\ Go(r, "add")
    /\ UNCHANGED <<world, mirror, edits, records, moved>>

BeginAdd(r) ==
    /\ pc[r] = "add"
    /\ SetTree(r, [tree[Ws(r)] EXCEPT !.dir = "partial", !.registered = TRUE])
    /\ Go(r, "adding")
    /\ UNCHANGED <<world, mirror, edits, records, moved>>

Added(t) == [t EXCEPT !.dir = "tree", !.files = t.branch.with]

EndAdd(r) ==
    /\ pc[r] = "adding"
    /\ SetTree(r, Added(tree[Ws(r)]))
    /\ Go(r, "check")
    /\ UNCHANGED <<world, mirror, edits, records, moved>>

\* _cleanup_failed_worktree: the branch stays, and so does what is not known
\* to be the worktree this call added.
Removed(t, added) ==
    IF (added /\ t.registered) \/ (~t.registered /\ t.dir = "empty")
    THEN [t EXCEPT !.dir = "none", !.registered = FALSE, !.files = 0] ELSE t

CheckNew(r) ==
    /\ pc[r] = "check"
    /\ IF Clean(tree[Ws(r)]) /\ tree[Ws(r)].branch = Base(Seen(r))
       THEN Go(r, "ready") /\ UNCHANGED tree
       ELSE SetTree(r, Removed(tree[Ws(r)], TRUE)) /\ Refuse(r)
    /\ UNCHANGED <<world, mirror, edits, records, moved>>

Ready(r) ==
    /\ pc[r] = "ready"
    /\ NextKey(r)
    /\ UNCHANGED <<world, mirror, tree, edits, records, moved>>

\* git refuses a command; a worktree it was adding is taken away again, or
\* stays half made when git was killed.
CommandFails(r) ==
    /\ \/ pc[r] \in {"fetch", "refs"} /\ UNCHANGED tree
       \/ pc[r] \in {"branch", "add"} /\ SetTree(r, Removed(tree[Ws(r)], FALSE))
       \/ /\ pc[r] = "adding"
          /\ \/ SetTree(r, [tree[Ws(r)] EXCEPT !.dir = "none", !.registered = FALSE])
             \/ UNCHANGED tree
       \/ pc[r] = "check" /\ SetTree(r, Removed(tree[Ws(r)], TRUE))
    /\ Refuse(r)
    /\ UNCHANGED <<world, mirror, edits, records, moved>>

Bases(r, n) ==
    [w \in Workspaces |-> IF RunOf(w) = r /\ w[3] = n
                          THEN job[r].bases[CHOOSE i \in DOMAIN KeysOf[r] : KeysOf[r][i] = RepoOf(w)]
                          ELSE on[w]]

\* All repositories of the run are prepared: one save names them all.
SaveRun(r) ==
    /\ pc[r] = "save" /\ job[r].n = 1
    /\ current' = [current EXCEPT ![r] = 1]
    /\ on' = Bases(r, 1)
    /\ Refuse(r)
    /\ UNCHANGED <<world, mirror, tree, edits, tested, expected, refreshes, moved>>

-----------------------------------------------------------------------------
(* Tests, the publication intent, the commit and the push *)

Test(r) ==
    /\ r \in Published /\ pc[r] = "idle" /\ current[r] # 0 /\ expected[r] = NoCommit
    /\ ~Clean(tree[Kept(r)])
    /\ tested' = [tested EXCEPT ![r] = tree[Kept(r)].files]
    /\ UNCHANGED <<world, mirror, tree, edits, current, on, expected, refreshes, procs, moved>>

Publish(r) ==
    /\ pc[r] = "idle" /\ tested[r] # Untested
    /\ Go(r, IF expected[r] = NoCommit THEN "intent" ELSE "find")
    /\ UNCHANGED <<world, mirror, tree, edits, records, moved>>

\* find_approved_commit
Find(r) ==
    /\ pc[r] = "find"
    /\ LET t == tree[Kept(r)] IN
       CASE t.branch = Base(on[Kept(r)]) -> Go(r, "compare")
         [] t.branch = expected[r]       -> Go(r, "push")
         [] OTHER                        -> Refuse(r)
    /\ UNCHANGED <<world, mirror, tree, edits, records, moved>>

\* Mistake: the commit that is checked out is compared, not the files.
SameHead(r) == tree[Kept(r)].branch = Base(on[Kept(r)])

AsTested(r) == tree[Kept(r)].files = tested[r]

\* commit_approved compares the snapshot, then makes the intent once more.
Compare(r) ==
    /\ pc[r] = "compare"
    /\ IF AsTested(r) THEN Go(r, "intent") ELSE Refuse(r)
    /\ UNCHANGED <<world, mirror, tree, edits, records, moved>>

\* prepare_commit_intent: the remote base, the snapshot, then the index that
\* is filled from the files as they are by then.
ReadBase(r) ==
    /\ pc[r] = "intent"
    /\ IF base[RepoOf(Kept(r))] = on[Kept(r)] THEN Go(r, "snapshot") ELSE Refuse(r)
    /\ UNCHANGED <<world, mirror, tree, edits, records, moved>>

Snapshot(r) ==
    /\ pc[r] = "snapshot"
    /\ IF AsTested(r) THEN Go(r, "stage") ELSE Refuse(r)
    /\ UNCHANGED <<world, mirror, tree, edits, records, moved>>

Staged(r) == [on |-> on[Kept(r)], with |-> tree[Kept(r)].files]

StageIntent(r) ==
    /\ pc[r] = "stage" /\ expected[r] = NoCommit
    /\ expected' = [expected EXCEPT ![r] = Staged(r)]
    /\ Go(r, "find")
    /\ UNCHANGED <<world, mirror, tree, edits, current, on, tested, refreshes, moved>>

IsIntended(r) == Staged(r) = expected[r]

StageCommit(r) ==
    /\ pc[r] = "stage" /\ expected[r] # NoCommit
    /\ IF IsIntended(r) THEN Go(r, "commit") ELSE Refuse(r)
    /\ UNCHANGED <<world, mirror, tree, edits, records, moved>>

\* commit-tree and update-ref; the files are brought to the commit after it.
UpdateRef(r) ==
    /\ pc[r] = "commit"
    /\ tree' = [tree EXCEPT ![Kept(r)].branch = expected[r]]
    /\ Go(r, "reset")
    /\ UNCHANGED <<world, mirror, edits, records, moved>>

ResetHard(r) ==
    /\ pc[r] = "reset"
    /\ tree' = [tree EXCEPT ![Kept(r)].files = tree[Kept(r)].branch.with]
    /\ Go(r, "find")
    /\ UNCHANGED <<world, mirror, edits, records, moved>>

LookRemote(r) ==
    /\ pc[r] = "push"
    /\ IF remote[Kept(r)] = NoCommit THEN Go(r, "pushing") ELSE Refuse(r)
    /\ UNCHANGED <<world, mirror, tree, edits, records, moved>>

Push(r) ==
    /\ pc[r] = "pushing"
    /\ remote' = IF remote[Kept(r)] = NoCommit
                 THEN [remote EXCEPT ![Kept(r)] = tree[Kept(r)].branch] ELSE remote
    /\ Refuse(r)
    /\ UNCHANGED <<base, uses, source, mirror, tree, edits, records, moved>>

-----------------------------------------------------------------------------
(* _refresh_baseline and transfer *)

BeginRefresh(r) ==
    /\ r \in Published /\ pc[r] = "idle" /\ current[r] # 0
    /\ tested[r] # Untested /\ expected[r] = NoCommit
    /\ base[RepoOf(Kept(r))] # on[Kept(r)] /\ refreshes[r] < MaxRefresh
    /\ refreshes' = [refreshes EXCEPT ![r] = @ + 1]
    /\ pc' = [pc EXCEPT ![r] = "mirror"]
    /\ job' = [job EXCEPT ![r] = [NoJob EXCEPT !.n = refreshes[r] + 2]]
    /\ UNCHANGED <<world, mirror, tree, edits, current, on, tested, expected, moved>>

SaveDestination(r) ==
    /\ pc[r] = "save" /\ job[r].n # 1
    /\ on' = Bases(r, job[r].n)
    /\ Go(r, "source")
    /\ UNCHANGED <<world, mirror, tree, edits, current, tested, expected, refreshes, moved>>

\* Mistake: the source is expected not to change while it is read.
SourceNamed(r) == Whole(tree[Kept(r)])

\* The source must be what was tested, and the destination untouched.
SourceKept(r) == AsTested(r)

CompareSource(r) ==
    /\ pc[r] = "source"
    /\ IF SourceKept(r) /\ Clean(tree[Ws(r)]) THEN Go(r, "patch") ELSE Refuse(r)
    /\ UNCHANGED <<world, mirror, tree, edits, records, moved>>

ReadPatch(r) ==
    /\ pc[r] = "patch"
    /\ pc' = [pc EXCEPT ![r] = "apply"]
    /\ job' = [job EXCEPT ![r].patch = tree[Kept(r)].files]
    /\ UNCHANGED <<world, mirror, tree, edits, records, moved>>

\* git applies the patch, with conflicts left in the files, or not at all.
ApplyPatch(r) ==
    /\ pc[r] = "apply"
    /\ \/ /\ SourceKept(r) /\ Clean(tree[Ws(r)])
          /\ SetTree(r, [tree[Ws(r)] EXCEPT !.files = job[r].patch])
          /\ moved' = [moved EXCEPT ![Ws(r)] = [patch |-> job[r].patch, tested |-> tested[r]]]
          /\ Go(r, "swap")
       \/ Refuse(r) /\ UNCHANGED <<tree, moved>>
    /\ UNCHANGED <<world, mirror, edits, records>>

\* Everything that was bound to the old base is forgotten with the swap.
Swap(r) ==
    /\ pc[r] = "swap"
    /\ IF SourceKept(r)
       THEN /\ current' = [current EXCEPT ![r] = job[r].n]
            /\ tested' = [tested EXCEPT ![r] = Untested]
       ELSE UNCHANGED <<current, tested>>
    /\ Refuse(r)
    /\ UNCHANGED <<world, mirror, tree, edits, on, expected, refreshes, moved>>

-----------------------------------------------------------------------------
(* Crashes, and the specification *)

\* The process stops; a git command it had started stops with it or ends.
Crash(r) ==
    /\ pc[r] \notin {"idle", "stopped"}
    /\ \/ UNCHANGED <<mirror, tree>>
       \/ pc[r] = "cloning" /\ mirror[Key(r)].is = "partial" /\ Cloned(Key(r))
       \/ pc[r] = "adding" /\ SetTree(r, Added(tree[Ws(r)])) /\ UNCHANGED mirror
    /\ Refuse(r)
    /\ UNCHANGED <<world, edits, records, moved>>

Next ==
    \/ \E k \in Repos : MoveBase(k) \/ Pull(k)
    \/ \E w \in Workspaces : PushForeign(w) \/ Write(w)
    \/ \E r \in Runs :
         \/ FindMirror(r) \/ Damaged(r) \/ MissMirror(r) \/ BeginClone(r) \/ EndClone(r)
         \/ CloneTooLate(r) \/ SetOrigin(r) \/ Fetch(r)
         \/ Look(r) \/ ReadRefs(r) \/ Recover(r) \/ Reserve(r) \/ MakeBranch(r)
         \/ BeginAdd(r) \/ EndAdd(r) \/ CheckNew(r) \/ Ready(r) \/ CommandFails(r) \/ SaveRun(r)
         \/ Test(r) \/ Publish(r) \/ Find(r) \/ Compare(r) \/ ReadBase(r) \/ Snapshot(r)
         \/ StageIntent(r) \/ StageCommit(r) \/ UpdateRef(r) \/ ResetHard(r)
         \/ LookRemote(r) \/ Push(r)
         \/ BeginRefresh(r) \/ SaveDestination(r) \/ CompareSource(r) \/ ReadPatch(r)
         \/ ApplyPatch(r) \/ Swap(r)
         \/ Crash(r)

Spec == Init /\ [][Next]_vars

-----------------------------------------------------------------------------
(* A workspace that a run names, now or before a refresh, is a whole        *)
(* worktree on the branch of the run, which stands on the recorded base and *)
(* holds nothing but the commit the run publishes: whatever crashes, failed *)
(* git commands, clean-ups and other runs of the mirror left behind         *)
(* (recover, prepare, _cleanup_failed_worktree).                            *)
NamedIsWhole ==
    \A w \in Workspaces :
        LET r == RunOf(w) IN
        mirror[RepoOf(w)].is # "ruined" /\ current[r] # 0 /\ w[3] <= current[r] /\ on[w] # NoBase =>
            /\ Whole(tree[w])
            /\ tree[w].branch \in {Base(on[w]), expected[r]}
            /\ tree[w].branch.on = on[w]

(* What is on the remote under the name of a run is the content that was    *)
(* tested, on the base it was tested on, unless somebody else pushed it: no *)
(* write between the comparisons and the staging is published               *)
(* (prepare_commit_intent, commit_approved).                                *)
PublishedIsTested ==
    \A w \in Workspaces :
        remote[w] \in Commits =>
            remote[w] = [on |-> on[w], with |-> tested[RunOf(w)]]

(* A refresh carries the patch that had been tested, whoever writes into    *)
(* the old worktree while it is read (baseline_refresh.transfer).           *)
CarriesWhatWasTested ==
    \A w \in Workspaces :
        w[3] > 1 /\ current[RunOf(w)] >= w[3] => moved[w].patch = moved[w].tested
=============================================================================
