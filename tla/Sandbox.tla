------------------------------ MODULE Sandbox -------------------------------
(***************************************************************************)
(* SandboxCommandExecutor of requirement_flow.py: a configured command is  *)
(* run through the sandbox of the Codex CLI, after probes have shown that  *)
(* this sandbox keeps what it promises.  A call makes two directories of   *)
(* its own, one in the worktree and one beside it, holds both and every    *)
(* ancestor of the worktree open, runs the probes and the command against  *)
(* one deadline, and puts everything away, whatever has failed by then.    *)
(*                                                                         *)
(* A failure is plain, or one that must get through to the caller as it is *)
(* ("priority": no memory, a cancellation, an interrupt).  What a path     *)
(* names is looked at again and again; the model lets something else move  *)
(* a directory away, or back, between any two steps.  An ancestor of the   *)
(* worktree that changes is a change of what both paths name.              *)
(***************************************************************************)
EXTENDS Naturals

CONSTANTS Callers,       \* calls of the executor
          Loads          \* bound: the calls that are made, with how many operations
                         \* fail and directories are moved by something else

VARIABLES
    host,       \* posix or Windows, and whether the calls share one command
    call,       \* next step of a call
    dir,        \* its two directories
    anchors,    \* it holds ancestors of the worktree open
    command,    \* the verified Codex command it runs
    consumed,   \* the shared command has been given out
    listener,   \* the socket of the network probe is open
    late,       \* its deadline has passed
    proved,     \* probes that have answered as they must
    answer,     \* what the configured command came to
    failure,    \* the failure that ended its work
    errors,     \* failures of its cleanup
    returned,   \* what the caller gets
    mishaps, moves, \* how many are left
    shocked     \* history: calls that met a priority failure

held == <<dir, anchors, command, consumed, listener>>
work == <<late, proved, answer>>
sandboxVars ==
    <<host, call, held, work, failure, errors, returned, mishaps, moves, shocked>>

Dirs         == {"inside", "outside"}
FailureKinds == {"plain", "priority"}
Outcomes     == {"passed", "test_failed", "command_error"}
Probes       == {"write", "escape", "network"}

(* The local socket is only probed where it can be.                         *)
Required == IF host.posix THEN Probes ELSE Probes \ {"network"}

(* A directory: what its path names, what has become of the one this call   *)
(* made, whether cleanup knows of it, and the handle that is held on it.    *)
Unmade == [at |-> "nothing", own |-> "none", known |-> FALSE, lease |-> "none"]

SandboxInit ==
    /\ host \in [posix : BOOLEAN, shared : BOOLEAN]
    /\ \E l \in Loads :
         /\ call = [c \in Callers |-> IF c \in l.calls THEN <<"start">> ELSE <<"done">>]
         /\ mishaps = l.faults /\ moves = l.moves
    /\ dir = [c \in Callers |-> [d \in Dirs |-> Unmade]]
    /\ anchors = [c \in Callers |-> FALSE]
    /\ command = [c \in Callers |-> "none"] /\ consumed = FALSE
    /\ listener = [c \in Callers |-> FALSE] /\ late = [c \in Callers |-> FALSE]
    /\ proved = [c \in Callers |-> {}] /\ answer = [c \in Callers |-> "none"]
    /\ failure = [c \in Callers |-> "none"] /\ errors = [c \in Callers |-> {}]
    /\ returned = [c \in Callers |-> "none"]
    /\ shocked = {}

AtStep(c, step)  == call[c] = step
Advance(c, step) == call' = [call EXCEPT ![c] = step]
Shocks(c, k)     == shocked' = IF k = "priority" THEN shocked \cup {c} ELSE shocked
Mishap(c, k)     == mishaps > 0 /\ mishaps' = mishaps - 1 /\ Shocks(c, k)
Sound            == UNCHANGED <<mishaps, shocked>>

(* Work ends with this failure and cleanup begins.                          *)
Raise(c, k) == /\ failure' = [failure EXCEPT ![c] = k]
               /\ Advance(c, <<"clean", "inside">>)

Proceed(c, step) == Advance(c, step) /\ UNCHANGED failure

(* The failure a caller is shown: a priority one before any other, then     *)
(* that of the work, then that of the cleanup.                              *)
Select(primary, cleanup) ==
    IF primary = "priority" \/ "priority" \in cleanup THEN "priority"
    ELSE IF primary = "plain" \/ cleanup # {} THEN "plain" ELSE "none"

(* What a path names is compared by device, inode and mode with what was    *)
(* recorded, and so is the handle that is held.                             *)
Names(x)  == x.at = "own"
Intact(x) == Names(x) /\ x.lease = "open"
Same(c)   == \A d \in Dirs : Intact(dir[c][d])

(* What becomes of a directory: it is made, seen, held open, written to,    *)
(* emptied, deleted, let go, moved.                                         *)
Put(c, d, x) == dir' = [dir EXCEPT ![c][d] = x]
Made(x)      == [x EXCEPT !.at = "own", !.own = "empty"]
Known(x)     == [x EXCEPT !.known = TRUE]
Held(x)      == [x EXCEPT !.lease = "open"]
Filled(x)    == [x EXCEPT !.own = "filled"]
Emptied(x)   == [x EXCEPT !.own = "empty"]
Deleted(x)   == [x EXCEPT !.own = "deleted", !.at = "nothing"]
Moved(x, y)  == [x EXCEPT !.at = y]

\* Mistake: the handle of a directory stays open.
LetGoNot(x) == x

LetGo(x) == [x EXCEPT !.lease = IF @ = "open" THEN "closed" ELSE @]
-----------------------------------------------------------------------------
(* A configuration, a timeout, a worktree or a command that cannot be used  *)
(* is refused before anything is held.                                      *)
Start(c) ==
    /\ AtStep(c, <<"start">>)
    /\ \/ Advance(c, <<"anchors">>) /\ Sound /\ UNCHANGED returned
       \/ \E k \in FailureKinds : /\ Mishap(c, k) /\ Advance(c, <<"done">>)
                                  /\ returned' = [returned EXCEPT ![c] = k]
    /\ UNCHANGED <<host, held, work, failure, errors, moves>>

OpenAnchors(c) ==
    /\ AtStep(c, <<"anchors">>)
    /\ \/ /\ Sound /\ Proceed(c, <<"make", "inside">>)
          /\ anchors' = [anchors EXCEPT ![c] = TRUE]
       \/ \E k \in FailureKinds, some \in BOOLEAN :
             /\ Mishap(c, k) /\ Raise(c, k)
             /\ anchors' = [anchors EXCEPT ![c] = some]
    /\ UNCHANGED <<host, dir, command, consumed, listener, work, errors, returned, moves>>

(* mkdir and the first look at what it made; when only the second fails     *)
(* the directory is there and cleanup does not know of it.                  *)
MakeDirectory(c, d) ==
    /\ AtStep(c, <<"make", d>>)
    /\ \/ /\ Sound /\ Proceed(c, <<"open", d>>)
          /\ Put(c, d, Known(Made(dir[c][d])))
       \/ \E k \in FailureKinds :
             /\ Mishap(c, k) /\ Raise(c, k)
             /\ \/ UNCHANGED dir
                \/ Put(c, d, Made(dir[c][d]))
    /\ UNCHANGED <<host, anchors, command, consumed, listener, work>>
    /\ UNCHANGED <<errors, returned, moves>>

AfterOpen(d) == IF d = "inside" THEN <<"make", "outside">> ELSE <<"command">>

OpenDirectory(c, d) ==
    /\ AtStep(c, <<"open", d>>)
    /\ \/ /\ Names(dir[c][d]) /\ Sound /\ Proceed(c, AfterOpen(d))
          /\ Put(c, d, Held(dir[c][d]))
       \/ ~Names(dir[c][d]) /\ Sound /\ Raise(c, "plain") /\ UNCHANGED dir
       \/ \E k \in FailureKinds :
             /\ Mishap(c, k) /\ Raise(c, k)
             /\ \/ UNCHANGED dir
                \/ Names(dir[c][d]) /\ Put(c, d, Held(dir[c][d]))
    /\ UNCHANGED <<host, anchors, command, consumed, listener, work>>
    /\ UNCHANGED <<errors, returned, moves>>

(* A command that all calls share is given out once; otherwise each call    *)
(* has one prepared for itself.                                             *)
TakeCommand(c) ==
    /\ AtStep(c, <<"command">>)
    /\ \/ /\ ~(host.shared /\ consumed) /\ Sound /\ Proceed(c, <<"wrap">>)
          /\ command' = [command EXCEPT ![c] = "open"] /\ consumed' = host.shared
       \/ /\ host.shared /\ consumed /\ Sound /\ Raise(c, "plain")
          /\ UNCHANGED <<command, consumed>>
       \/ \E k \in FailureKinds : /\ ~host.shared /\ Mishap(c, k) /\ Raise(c, k)
                                  /\ UNCHANGED <<command, consumed>>
    /\ UNCHANGED <<host, dir, anchors, listener, work, errors, returned, moves>>

(* The arguments that wrap every child are made of a permission profile or  *)
(* of what a provider says of the sandbox's state.                          *)
WrapArguments(c) ==
    /\ AtStep(c, <<"wrap">>)
    /\ \/ Same(c) /\ Sound /\ Proceed(c, <<"ready", "write">>)
       \/ ~Same(c) /\ Sound /\ Raise(c, "plain")
       \/ \E k \in FailureKinds : Mishap(c, k) /\ Raise(c, k)
    /\ UNCHANGED <<host, held, work, errors, returned, moves>>

(* invoke, up to the call of the backend.                                   *)
BeginChild(c, n) ==
    /\ AtStep(c, <<"ready", n>>)
    /\ \/ /\ Same(c) /\ ~late[c] /\ Sound /\ Proceed(c, <<"running", n>>)
          /\ listener' = [listener EXCEPT ![c] = n = "network"]
       \/ /\ ~Same(c) \/ late[c]
          /\ Sound /\ Raise(c, "plain") /\ UNCHANGED listener
       \/ \E k \in FailureKinds : Mishap(c, k) /\ Raise(c, k) /\ UNCHANGED listener
    /\ UNCHANGED <<host, dir, anchors, command, consumed, work, errors, returned, moves>>

\* Mistake: the network is not probed.
AfterProbeOffline(n) == IF n = "write" THEN "escape" ELSE "command"

AfterProbe(n) ==
    IF n = "write" THEN "escape"
    ELSE IF n = "escape" /\ "network" \in Required THEN "network" ELSE "command"

(* What a child may leave: the command and the first probe write inside,    *)
(* the second only where the sandbox fails to stop it.                      *)
Written(c, n) ==
    LET d == IF n = "escape" THEN "outside" ELSE "inside"
    IN  IF Names(dir[c][d]) THEN [dir EXCEPT ![c][d] = Filled(dir[c][d])] ELSE dir

(* At the end of a child its own failure, a deadline that has passed        *)
(* meanwhile, and directories that are no longer what they were are weighed *)
(* against each other before the answer is read.                            *)
Found(c, child, identity) ==
    LET mine == IF child = "none" /\ late[c] THEN "plain" ELSE child
        seen == IF identity = "none" /\ ~Same(c) THEN "plain" ELSE identity
    IN  Select(mine, {seen} \ {"none"})

(* invoke, from the end of the child.                                       *)
EndChild(c, n) ==
    /\ AtStep(c, <<"running", n>>)
    /\ listener' = [listener EXCEPT ![c] = FALSE]
    /\ \E child, identity \in {"none"} \cup FailureKinds, good \in BOOLEAN :
        LET found == Found(c, child, identity)
        IN  /\ IF child = "none" /\ identity = "none" THEN Sound
               ELSE Mishap(c, Select(child, {identity} \ {"none"}))
            /\ dir' \in {dir, Written(c, n)}
            /\ n = "write" /\ good => dir' = Written(c, n)
            /\ n = "escape" /\ good => dir' = dir
            /\ \/ found # "none" /\ Raise(c, found) /\ UNCHANGED <<proved, answer>>
               \/ /\ found = "none" /\ n # "command" /\ good
                  /\ proved' = [proved EXCEPT ![c] = @ \cup {n}]
                  /\ Proceed(c, <<"ready", AfterProbe(n)>>) /\ UNCHANGED answer
               \/ /\ found = "none" /\ n # "command" /\ ~good
                  /\ Raise(c, "plain") /\ UNCHANGED <<proved, answer>>
               \/ /\ found = "none" /\ n = "command"
                  /\ \E x \in Outcomes : answer' = [answer EXCEPT ![c] = x]
                  /\ Proceed(c, <<"clean", "inside">>) /\ UNCHANGED proved
    /\ UNCHANGED <<host, anchors, command, consumed, late, errors, returned, moves>>
-----------------------------------------------------------------------------
AfterClean(d) == IF d = "inside" THEN <<"clean", "outside">> ELSE <<"release">>

Blame(c, k) == errors' = [errors EXCEPT ![c] = @ \cup {k}]

(* delete_owned_tree: Windows removes the directory, elsewhere it is only   *)
(* emptied, because its root cannot be removed through its descriptor.      *)
Removed(x) == IF host.posix THEN Emptied(x) ELSE Deleted(x)

(* cleanup, one directory: it is only emptied while its path names what was *)
(* recorded, and its handle is closed whatever became of that.              *)
CleanDirectory(c, d) ==
    LET x == dir[c][d]
    IN  /\ AtStep(c, <<"clean", d>>) /\ Advance(c, AfterClean(d))
        /\ \/ ~x.known /\ Sound /\ UNCHANGED <<dir, errors>>
           \/ x.known /\ Intact(x) /\ Sound /\ Put(c, d, LetGo(Removed(x))) /\ UNCHANGED errors
           \/ x.known /\ ~Intact(x) /\ Sound /\ Put(c, d, LetGo(x)) /\ Blame(c, "plain")
           \/ \E k \in FailureKinds : /\ x.known /\ Mishap(c, k) /\ Blame(c, k)
                                      /\ \/ Put(c, d, LetGo(x))
                                         \/ Intact(x) /\ Put(c, d, LetGo(Emptied(x)))
        /\ UNCHANGED <<host, anchors, command, consumed, listener, work>>
        /\ UNCHANGED <<failure, returned, moves>>

(* The ancestors, and then the command, are let go whatever has failed.     *)
ReleaseAnchors(c) ==
    /\ AtStep(c, <<"release">>) /\ Advance(c, <<"close">>)
    /\ anchors' = [anchors EXCEPT ![c] = FALSE]
    /\ \/ Sound /\ UNCHANGED errors
       \/ \E k \in FailureKinds : anchors[c] /\ Mishap(c, k) /\ Blame(c, k)
    /\ UNCHANGED <<host, dir, command, consumed, listener, work, failure, returned, moves>>

CloseCommand(c) ==
    /\ AtStep(c, <<"close">>) /\ Advance(c, <<"conclude">>)
    /\ command' = [command EXCEPT ![c] = IF @ = "open" THEN "closed" ELSE @]
    /\ \/ Sound /\ UNCHANGED errors
       \/ \E k \in FailureKinds : command[c] = "open" /\ Mishap(c, k) /\ Blame(c, k)
    /\ UNCHANGED <<host, dir, anchors, consumed, listener, work, failure, returned, moves>>

(* The outcome of the command is returned only when nothing has failed.     *)
Conclude(c) ==
    LET shown == Select(failure[c], errors[c])
    IN  /\ AtStep(c, <<"conclude">>) /\ Advance(c, <<"done">>) /\ Sound
        /\ returned' = [returned EXCEPT ![c] = IF shown = "none" THEN answer[c] ELSE shown]
        /\ UNCHANGED <<host, held, work, failure, errors, moves>>
-----------------------------------------------------------------------------
(* Time passes: the deadline of a call is over.                             *)
Elapse(c) ==
    /\ call[c][1] \in {"ready", "running"} /\ ~late[c]
    /\ late' = [late EXCEPT ![c] = TRUE]
    /\ UNCHANGED <<host, call, held, proved, answer, failure, errors, returned, mishaps,
                   moves, shocked>>

(* Something else moves a directory away, puts another in its place, or     *)
(* puts it back; Windows does not allow it while a handle is held.          *)
Move(c, d, x) ==
    /\ dir[c][d].own \in {"empty", "filled"} /\ call[c] # <<"done">>
    /\ host.posix \/ dir[c][d].lease # "open"
    /\ dir[c][d].at # x /\ moves > 0 /\ moves' = moves - 1
    /\ Put(c, d, Moved(dir[c][d], x))
    /\ UNCHANGED <<host, call, anchors, command, consumed, listener, work, failure, errors,
                   returned, mishaps, shocked>>

Work(c) ==
    \/ Start(c) \/ OpenAnchors(c) \/ TakeCommand(c) \/ WrapArguments(c)
    \/ \E d \in Dirs : MakeDirectory(c, d) \/ OpenDirectory(c, d) \/ CleanDirectory(c, d)
    \/ \E n \in Probes \cup {"command"} : BeginChild(c, n) \/ EndChild(c, n)
    \/ ReleaseAnchors(c) \/ CloseCommand(c) \/ Conclude(c)

SandboxNext ==
    \E c \in Callers :
        \/ Work(c) \/ Elapse(c)
        \/ \E d \in Dirs, x \in {"nothing", "own", "other"} : Move(c, d, x)

SandboxSpec == SandboxInit /\ [][SandboxNext]_sandboxVars
-----------------------------------------------------------------------------
SandboxSteps == {<<"start">>, <<"anchors">>, <<"command">>, <<"wrap">>,
                 <<"release">>, <<"close">>, <<"conclude">>, <<"done">>}
                \cup ({"make", "open", "clean"} \X Dirs)
                \cup ({"ready", "running"} \X (Probes \cup {"command"}))

SandboxTypeOK ==
    /\ host \in [posix : BOOLEAN, shared : BOOLEAN]
    /\ call \in [Callers -> SandboxSteps]
    /\ dir \in [Callers -> [Dirs -> [at : {"nothing", "own", "other"},
                                     own : {"none", "empty", "filled", "deleted"},
                                     known : BOOLEAN,
                                     lease : {"none", "open", "closed"}]]]
    /\ {anchors, listener, late} \subseteq [Callers -> BOOLEAN] /\ consumed \in BOOLEAN
    /\ command \in [Callers -> {"none", "open", "closed"}]
    /\ proved \in [Callers -> SUBSET Probes]
    /\ answer \in [Callers -> {"none"} \cup Outcomes]
    /\ failure \in [Callers -> {"none"} \cup FailureKinds]
    /\ errors \in [Callers -> SUBSET FailureKinds]
    /\ returned \in [Callers -> {"none"} \cup FailureKinds \cup Outcomes]
    /\ mishaps \in Nat /\ moves \in Nat /\ shocked \subseteq Callers

(* The configured command only runs in a sandbox that has let a write into  *)
(* the worktree through and has stopped one beside it and, where that can   *)
(* be tried, a connection.                                                  *)
ProvenBeforeRun ==
    \A c \in Callers :
        call[c] = <<"running", "command">> \/ answer[c] # "none" => proved[c] = Required

(* A caller who is given the outcome of his command has nothing left lying  *)
(* about: what both directories held is gone, and so are they on Windows.   *)
ResultLeavesNothing ==
    \A c \in Callers : returned[c] \in Outcomes =>
        \A d \in Dirs : dir[c][d].own = IF host.posix THEN "empty" ELSE "deleted"

(* Whatever failed, and wherever, a call that has ended holds no handle, no *)
(* socket and no Codex command.                                             *)
NothingHeld ==
    \A c \in Callers : call[c] = <<"done">> =>
        /\ ~anchors[c] /\ ~listener[c] /\ command[c] # "open"
        /\ \A d \in Dirs : dir[c][d].lease # "open"

(* A cancellation, an interrupt or a lack of memory is never lost behind    *)
(* another failure, of the child, the directories or the cleanup.           *)
PriorityGetsThrough ==
    \A c \in Callers : c \in shocked /\ call[c] = <<"done">> => returned[c] = "priority"

(* A verified command that calls share serves a single one of them.         *)
SharedServesOnce ==
    host.shared => \A c, e \in Callers :
        command[c] # "none" /\ command[e] # "none" => c = e

(* So whatever became of it, a call leaves the machine as it should be, and *)
(* its caller knows if it does not.                                         *)
EndsClean == NothingHeld /\ ResultLeavesNothing /\ SharedServesOnce /\ PriorityGetsThrough
=============================================================================
