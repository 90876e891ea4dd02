--------------------------- MODULE ResourceProofs ---------------------------
(***************************************************************************)
(* Proofs about what a run is kept in, what is called for it, and how the  *)
(* configuration it uses is entered.                                       *)
(*   RunStore: for any number of processes and updates no acknowledged     *)
(*   save is lost, and the files implement an atomic cell.                 *)
(*   AgentRun: whatever an agent does, a read-only answer that is accepted *)
(*   has left the worktree as it was found.                                *)
(*   Sandbox: for any number of calls, failures and directories that are   *)
(*   moved, a command runs in a sandbox that was proved and its call ends  *)
(*   with nothing held.                                                    *)
(*   Wizard: for any steps and fields a result that is shown is one of the *)
(*   fields in the draft, and leaving keeps nothing that was typed.        *)
(*   RuntimeCache: for any number of preparers, versions, crashes and      *)
(*   failures a sweep never takes the stage of one at work, what is        *)
(*   published unmarked is valid, and a lone preparation recovers.         *)
(* The five share no state, and each has an invariant of its own.          *)
(***************************************************************************)
EXTENDS RunStore, AgentRun, Sandbox, Wizard, RuntimeCache, WellFoundedInduction, TLAPS

-----------------------------------------------------------------------------
(* RunStore: the inductive invariant *)

\* Whoever is between taking and releasing .lock is the one that holds it.
Holder == \A p \in Procs : pc[p] \in Holding => lock = p

\* A version names one content: a copy is never newer than the file, and a copy
\* of the same version is the same run.
Copies ==
    /\ file.version = 1 => file = New
    /\ file.version >= 1
    /\ \A p \in Procs : /\ snap[p].version <= file.version
                        /\ snap[p].version = file.version => snap[p] = file

\* What the holder has compared stays true while it holds the lock.
Writing ==
    \A p \in Procs :
       /\ pc[p] \in {"checked", "written"} => snap[p].version = file.version
       /\ pc[p] = "written" => temp[p] = Stored(p)
       /\ pc[p] = "replaced" => temp[p] = file /\ mine[p] \in file.updates

\* The update about to be written is new to the file.
Fresh ==
    /\ file.updates \subseteq used
    /\ \A p \in Procs : pc[p] \in {"locked", "checked", "written"} =>
          mine[p] \in Updates \cap used /\ mine[p] \notin file.updates

IInv == TypeOK /\ Holder /\ Copies /\ Writing /\ Fresh /\ NothingLost

LEMMA NewIsRun == New \in Runs
BY DEF New, Runs

LEMMA IInvInit == Init => IInv
BY NewIsRun, StoreAssumption
   DEF Init, IInv, TypeOK, Holder, Copies, Writing, Fresh, NothingLost, Steps, Holding, New, Runs

LEMMA StoredIsRun ==
    ASSUME TypeOK, NEW p \in Procs, mine[p] \in Updates
    PROVE  Stored(p) \in Runs
BY DEF TypeOK, Stored, Runs

LEMMA IInvStep == IInv /\ [Next]_vars => IInv'
<1> SUFFICES ASSUME IInv, [Next]_vars PROVE IInv'
  OBVIOUS
<1> USE NewIsRun, StoreAssumption
<1>1. ASSUME NEW p \in Procs, Load(p) PROVE IInv'
  <2>1. file.version \in Nat
    BY DEF IInv, TypeOK, Runs
  <2>2. Copies'
    BY <1>1, <2>1 DEF Load, IInv, TypeOK, Copies
  <2>3. TypeOK' /\ Holder' /\ Fresh' /\ NothingLost'
    BY <1>1 DEF Load, Go, IInv, TypeOK, Holder, Fresh, NothingLost, Steps, Holding
  <2>4. \A q \in Procs : q # p => snap'[q] = snap[q] /\ pc'[q] = pc[q]
    BY <1>1 DEF Load, Go, IInv, TypeOK
  <2>5. pc'[p] = "ready"
    BY <1>1 DEF Load, Go, IInv, TypeOK
  <2>6. Writing'
    BY <1>1, <2>4, <2>5 DEF Load, IInv, Writing, Stored
  <2> QED
    BY <2>2, <2>3, <2>6 DEF IInv
<1>2. ASSUME NEW p \in Procs, NEW u \in Updates, Take(p, u) PROVE IInv'
  BY <1>2 DEF Take, Free, Go, IInv, TypeOK, Holder, Copies, Writing, Fresh, NothingLost,
              Steps, Holding, Stored
<1>3. ASSUME NEW p \in Procs, Check(p) PROVE IInv'
  BY <1>3 DEF Check, Expected, Go, IInv, TypeOK, Holder, Copies, Writing, Fresh, NothingLost,
              Steps, Holding, Stored
<1>4. ASSUME NEW p \in Procs, WriteTemp(p) PROVE IInv'
  <2>1. Stored(p) \in Runs
    BY <1>4, StoredIsRun DEF WriteTemp, IInv, Fresh
  <2> QED
    BY <1>4, <2>1 DEF WriteTemp, Go, IInv, TypeOK, Holder, Copies, Writing, Fresh, NothingLost,
              Steps, Holding, Stored
<1>5. ASSUME NEW p \in Procs, Replace(p) PROVE IInv'
  <2>1. /\ lock = p /\ snap[p] = file /\ mine[p] \in Updates /\ mine[p] \in used
        /\ file' = temp[p] /\ temp[p] = Stored(p)
    BY <1>5 DEF Replace, IInv, Holder, Copies, Writing, Fresh, Holding
  <2>2. file' = [version |-> file.version + 1, updates |-> file.updates \cup {mine[p]}]
    BY <2>1 DEF Stored
  <2>3. file \in Runs /\ file' \in Runs
    BY <2>1 DEF IInv, TypeOK
  <2>4. file.version \in Nat /\ file'.version = file.version + 1
    BY <2>2, <2>3 DEF Runs
  <2>5. \A q \in Procs : q # p => pc[q] \notin Holding
    BY <2>1 DEF IInv, Holder
  <2>6. TypeOK'
    BY <1>5, <2>3 DEF Replace, Go, IInv, TypeOK, Steps, Holding
  <2>7. Holder'
    BY <1>5, <2>1 DEF Replace, Go, IInv, TypeOK, Holder, Holding
  <2>8. Copies'
    BY <1>5, <2>4 DEF Replace, IInv, TypeOK, Copies, Runs
  <2>9. Writing'
    BY <1>5, <2>1, <2>2, <2>5 DEF Replace, Go, IInv, TypeOK, Writing, Holding, Stored
  <2>10. Fresh'
    BY <1>5, <2>1, <2>2, <2>5 DEF Replace, Go, IInv, TypeOK, Fresh, Holding
  <2>11. NothingLost'
    BY <1>5, <2>2 DEF Replace, IInv, NothingLost
  <2> QED
    BY <2>6, <2>7, <2>8, <2>9, <2>10, <2>11 DEF IInv
<1>6. ASSUME NEW p \in Procs, Return(p) PROVE IInv'
  <2>1. mine[p] \in file.updates /\ temp[p] = file /\ lock = p
    BY <1>6 DEF Return, IInv, Writing, Holder, Holding
  <2> QED
    BY <1>6, <2>1 DEF Return, Go, IInv, TypeOK, Holder, Copies, Writing, Fresh, NothingLost,
              Steps, Holding, Stored, Runs
<1>7. ASSUME NEW p \in Procs, Stop(p) PROVE IInv'
  <2>1. New.version = 1
    BY DEF New
  <2>2. file.version \in Nat
    BY DEF IInv, TypeOK, Runs
  <2>3. TypeOK' /\ Holder' /\ Writing' /\ Fresh' /\ NothingLost'
    BY <1>7 DEF Stop, Release, Go, IInv, TypeOK, Holder, Writing, Fresh, NothingLost,
              Steps, Holding, Stored
  <2>4. Copies'
    BY <1>7, <2>1, <2>2 DEF Stop, Release, IInv, TypeOK, Copies
  <2> QED
    BY <2>3, <2>4 DEF IInv
<1>8. ASSUME NEW p \in Procs, Condemn(p) PROVE IInv'
  BY <1>8 DEF Condemn, Free, Go, IInv, TypeOK, Holder, Copies, Writing, Fresh, NothingLost,
              Steps, Holding, Stored
<1>9. ASSUME NEW p \in Procs, Unlock(p) PROVE IInv'
  BY <1>9 DEF Unlock, Go, IInv, TypeOK, Holder, Copies, Writing, Fresh, NothingLost,
              Steps, Holding, Stored
<1>10. ASSUME NEW p \in Procs, Remove(p) PROVE IInv'
  BY <1>10 DEF Remove, Go, IInv, TypeOK, Holder, Copies, Writing, Fresh, NothingLost,
              Steps, Holding, Stored
<1>11. CASE UNCHANGED vars
  BY <1>11 DEF vars, IInv, TypeOK, Holder, Copies, Writing, Fresh, NothingLost, Stored
<1> QED
  BY <1>1, <1>2, <1>3, <1>4, <1>5, <1>6, <1>7, <1>8, <1>9, <1>10, <1>11 DEF Next

LEMMA Invariant == Spec => []IInv
BY IInvInit, IInvStep, PTL DEF Spec

-----------------------------------------------------------------------------
(* RunStore: the results *)

\* The run store keeps its types.
THEOREM TypeCorrect == Spec => []TypeOK
<1>1. IInv => TypeOK
  BY DEF IInv
<1> QED
  BY <1>1, Invariant, PTL

\* No save that returned is ever missing from run.json (FileRunStore._save_locked).
THEOREM NoLostSave == Spec => []NothingLost
<1>1. IInv => NothingLost
  BY DEF IInv
<1> QED
  BY <1>1, Invariant, PTL

\* Lock, version check, temporary file and rename amount to one atomic cell.
LEMMA Simulation == IInv /\ [Next]_vars => [Target!Next]_<<file, present>>
<1> SUFFICES ASSUME IInv, [Next]_vars PROVE [Target!Next]_<<file, present>>
  OBVIOUS
<1>1. ASSUME NEW p \in Procs, Replace(p) PROVE Target!Next
  <2>1. /\ snap[p] = file /\ temp[p] = Stored(p)
        /\ mine[p] \in Updates /\ mine[p] \notin file.updates
    BY <1>1 DEF Replace, IInv, Copies, Writing, Fresh
  <2>2. Target!Write(mine[p])
    BY <1>1, <2>1 DEF Replace, Stored, Target!Write
  <2> QED
    BY <2>1, <2>2 DEF Target!Next
<1>2. ASSUME NEW p \in Procs, Remove(p) PROVE Target!Next
  BY <1>2 DEF IInv, TypeOK, Remove, Target!Next, Target!Remove
<1>3. ASSUME NEW p \in Procs,
             \/ Load(p) \/ Check(p) \/ WriteTemp(p) \/ Return(p) \/ Stop(p)
             \/ Condemn(p) \/ Unlock(p) \/ \E u \in Updates : Take(p, u)
      PROVE  UNCHANGED <<file, present>>
  BY <1>3 DEF Load, Check, WriteTemp, Return, Stop, Condemn, Unlock, Take
<1>4. CASE UNCHANGED vars
  BY <1>4 DEF vars
<1> QED
  BY <1>1, <1>2, <1>3, <1>4 DEF Next

\* The run store implements RunCell, whose writes are atomic.
THEOREM Refinement == Spec => Implements
<1>1. Init => Target!Init
  BY DEF Init, New, Target!Init
<1> QED
  BY <1>1, Invariant, Simulation, PTL DEF Spec, Implements, Target!Spec

-----------------------------------------------------------------------------
(* AgentRun *)

\* The phases of a call that has its baseline.
Guarded == CallSteps \ {"idle", "guard"}

\* Nothing is left of a job; what a call found it keeps as its baseline, and
\* it has left nothing before it is accepted.
AgentInv ==
    /\ content \in Contents /\ NobodyLeft /\ ReadOnlyLeavesNoTrace
    /\ phase \in CallSteps
    /\ trace \in [found : Alternatives, left : Alternatives]
    /\ phase # "idle" => trace.left = None
    /\ phase \in Guarded /\ ReadOnly => baseline = trace.found /\ baseline # None

LEMMA DisownKeeps == ASSUME NobodyLeft, Disown, UNCHANGED posix PROVE NobodyLeft'
BY DEF NobodyLeft, Disown, Closed, Running

LEMMA LeaveKeeps ==
    ASSUME AgentInv, Leave, UNCHANGED <<machine, content, trace>>
    PROVE  AgentInv'
<1>1. NobodyLeft'
  BY DisownKeeps DEF AgentInv, Leave, machine
<1> QED
  BY <1>1 DEF AgentInv, Leave, GoOn, ReadOnlyLeavesNoTrace, CallSteps, Guarded

LEMMA AgentStep == AgentInv /\ [AgentNext]_agentVars => AgentInv'
<1> SUFFICES ASSUME AgentInv, [AgentNext]_agentVars PROVE AgentInv'
  OBVIOUS
<1> USE DEF AgentInv, CallSteps, Guarded, ReadOnly, NobodyLeft, ReadOnlyLeavesNoTrace,
            Alternatives, machine, history, kept, tree, seen, GoOn
<1>1. ASSUME NEW asked \in Kinds, Ask(asked) PROVE AgentInv'
  BY <1>1 DEF Ask, Untraced
<1>2. CASE Repair \/ ChangeRules
  BY <1>2 DEF Repair, ChangeRules
<1>3. CASE Guard
  BY <1>3, AgentAssumption DEF Guard, Baseline
<1>4. CASE Launch \/ Poll \/ Wait \/ Join \/ Rejoin
  <2>1. /\ UNCHANGED <<content, posix, left, trace, baseline, kind>>
        /\ phase \in Guarded /\ phase' \in Guarded
    BY <1>4 DEF Launch, Poll, Wait, Join, Rejoin, Terminate
  <2> QED
    BY <2>1
<1>5. CASE HeadMoved \/ Expire \/ DidNotClose \/ Refuse \/ Crash
  BY <1>5, LeaveKeeps DEF HeadMoved, Expire, DidNotClose, Refuse, Crash, GiveUp
<1>6. CASE Collect
  <2>1. CASE Usable /\ ~headMoved
    <3>1. NobodyLeft'
      BY <1>6, <2>1, DisownKeeps DEF Collect
    <3> QED
      BY <1>6, <2>1, <3>1 DEF Collect
  <2>2. CASE ~(Usable /\ ~headMoved)
    BY <1>6, <2>2, LeaveKeeps DEF Collect
  <2> QED
    BY <2>1, <2>2
<1>7. CASE Reject
  BY <1>7, LeaveKeeps DEF Reject
<1>8. CASE Validate
  BY <1>8, LeaveKeeps DEF Validate
<1>9. CASE Accept
  <2>1. NobodyLeft'
    BY <1>9, DisownKeeps DEF Accept, Leave
  <2>2. trace' = [trace EXCEPT !.left = IF ReadOnly THEN content ELSE None]
    BY <1>9 DEF Accept
  <2>3. ReadOnly => content = trace.found
    BY <1>9 DEF Accept, AsExpected
  <2>4. phase' = "idle" /\ content' = content
    BY <1>9 DEF Accept, Leave
  <2> QED
    BY <2>1, <2>2, <2>3, <2>4
<1>10. CASE Spawn \/ Finish \/ HelperEnds \/ Obey
  BY <1>10 DEF Spawn, Finish, HelperEnds, Obey
<1>11. CASE Write
  BY <1>11 DEF Write
<1>12. CASE UNCHANGED agentVars
  BY <1>12 DEF agentVars
<1> QED
  BY <1>1, <1>2, <1>3, <1>4, <1>5, <1>6, <1>7, <1>8, <1>9, <1>10, <1>11, <1>12
     DEF AgentNext, Host

\* A call leaves nothing that runs on Windows, and a read-only answer is only
\* accepted for a worktree that is as the call found it.
THEOREM AnswersLeaveNoTrace == AgentSpec => []LeavesNoTrace
<1>1. AgentInit => AgentInv
  BY DEF AgentInit, AgentInv, NobodyLeft, ReadOnlyLeavesNoTrace, CallSteps, Guarded, Alternatives,
         Untraced
<1>2. AgentInv => LeavesNoTrace
  BY DEF AgentInv, LeavesNoTrace
<1> QED
  BY <1>1, <1>2, AgentStep, PTL DEF AgentSpec
-----------------------------------------------------------------------------
(* Sandbox: the inductive invariant.  A call opens what it needs, works in  *)
(* the sandbox and closes what it holds.  Each part says of one call what   *)
(* its next step tells about what it has; only the command that calls share *)
(* relates two of them.                                                     *)

Opening   == {<<"start">>, <<"anchors">>, <<"command">>, <<"wrap">>}
             \cup ({"make", "open"} \X Dirs)
InSandbox == {"ready", "running"} \X (Probes \cup {"command"})
Closing   == {<<"clean", "inside">>, <<"clean", "outside">>, <<"release">>, <<"close">>,
              <<"conclude">>, <<"done">>}

Stages == Opening \cup InSandbox \cup Closing

Directories == [at : {"nothing", "own", "other"},
                own : {"none", "empty", "filled", "deleted"},
                known : BOOLEAN, lease : {"none", "open", "closed"}]

Shapes ==
    /\ host \in [posix : BOOLEAN, shared : BOOLEAN]
    /\ call \in [Callers -> Stages]
    /\ dir \in [Callers -> [Dirs -> Directories]]
    /\ anchors \in [Callers -> BOOLEAN] /\ listener \in [Callers -> BOOLEAN]
    /\ command \in [Callers -> {"none", "open", "closed"}] /\ consumed \in BOOLEAN
    /\ late \in [Callers -> BOOLEAN]
    /\ proved \in [Callers -> SUBSET Probes]
    /\ answer \in [Callers -> {"none"} \cup Outcomes]
    /\ failure \in [Callers -> {"none"} \cup FailureKinds]
    /\ errors \in [Callers -> SUBSET FailureKinds]
    /\ returned \in [Callers -> {"none"} \cup FailureKinds \cup Outcomes]

\* Probes answer one after the other, and the command waits for all of them.
InOrder(c) ==
    /\ call[c] \in Opening \cup {<<"ready", "write">>, <<"running", "write">>} => proved[c] = {}
    /\ call[c] \in {<<"ready", "escape">>, <<"running", "escape">>} => proved[c] = {"write"}
    /\ call[c] \in {<<"ready", "network">>, <<"running", "network">>} =>
         host.posix /\ proved[c] = {"write", "escape"}
    /\ call[c] \in {<<"ready", "command">>, <<"running", "command">>} => proved[c] = Required
    /\ call[c] \notin Closing => answer[c] = "none"
    /\ answer[c] # "none" => proved[c] = Required

\* Before cleanup nothing has failed; a priority failure stays in sight.
Remembered(c) ==
    /\ call[c] \notin Closing => failure[c] = "none" /\ errors[c] = {} /\ c \notin shocked
    /\ call[c] # <<"done">> => returned[c] = "none"
    /\ c \in shocked => IF call[c] = <<"done">> THEN returned[c] = "priority"
                        ELSE failure[c] = "priority" \/ "priority" \in errors[c]

\* What a call holds is known to the steps of cleanup that are still to come.
Accounted(c) ==
    /\ anchors[c] => call[c] \notin {<<"start">>, <<"anchors">>, <<"close">>, <<"conclude">>,
                                     <<"done">>}
    /\ listener[c] => call[c] = <<"running", "network">>
    /\ command[c] = "open" => call[c] \in {<<"wrap">>, <<"clean", "inside">>,
                  <<"clean", "outside">>, <<"release">>, <<"close">>} \cup InSandbox
    /\ call[c] \in Opening => command[c] = "none" \/ call[c] = <<"wrap">>

\* A handle is only open while its directory is known and cleanup is to come.
Leased(c) ==
    /\ \A d \in Dirs : dir[c][d].lease = "open" => dir[c][d].known
    /\ dir[c]["inside"].lease = "open" =>
         call[c] \in {<<"make", "outside">>, <<"open", "outside">>, <<"command">>, <<"wrap">>,
                      <<"clean", "inside">>} \cup InSandbox
    /\ dir[c]["outside"].lease = "open" =>
         call[c] \in {<<"command">>, <<"wrap">>, <<"clean", "inside">>,
                      <<"clean", "outside">>} \cup InSandbox
    /\ call[c] \in {<<"open", "inside">>, <<"make", "outside">>} => dir[c]["inside"].known
    /\ \/ call[c] \in {<<"open", "outside">>, <<"command">>, <<"wrap">>} \cup InSandbox
       \/ call[c] \in {<<"clean", "inside">>, <<"clean", "outside">>} /\ failure[c] = "none"
       => \A d \in Dirs : dir[c][d].known

Gone(c, d) == dir[c][d].own = IF host.posix THEN "empty" ELSE "deleted"

\* Where nothing has failed, what cleanup is past is gone.
CleanedUp(c) ==
    /\ failure[c] = "none" /\ errors[c] = {} =>
         /\ call[c] = <<"clean", "outside">> => Gone(c, "inside")
         /\ call[c] \in {<<"release">>, <<"close">>, <<"conclude">>} =>
              \A d \in Dirs : Gone(c, d)
    /\ returned[c] \in Outcomes => \A d \in Dirs : Gone(c, d)

Whole(c) == InOrder(c) /\ Remembered(c) /\ Accounted(c) /\ Leased(c) /\ CleanedUp(c)

\* A command that one call of several has got has been given out.
GivenOut == host.shared => \A c \in Callers : command[c] # "none" => consumed

SandboxInv == Shapes /\ (\A c \in Callers : Whole(c)) /\ GivenOut /\ SharedServesOnce

\* A step leaves of a call all but what its paths name and its deadline.
Keeps(e) ==
    /\ call'[e] = call[e] /\ anchors'[e] = anchors[e]
    /\ \A d \in Dirs : /\ dir'[e][d].own = dir[e][d].own
                      /\ dir'[e][d].known = dir[e][d].known
                      /\ dir'[e][d].lease = dir[e][d].lease
    /\ command'[e] = command[e] /\ listener'[e] = listener[e]
    /\ proved'[e] = proved[e] /\ answer'[e] = answer[e]
    /\ failure'[e] = failure[e] /\ errors'[e] = errors[e] /\ returned'[e] = returned[e]
    /\ e \in shocked' <=> e \in shocked

LEMMA KeepsWhole ==
  ASSUME NEW e, Whole(e), Keeps(e), host' = host
  PROVE  Whole(e)'
<1>1. InOrder(e)' /\ Remembered(e)' /\ Accounted(e)'
  BY DEF Whole, Keeps, InOrder, Remembered, Accounted, Required
<1>2. Leased(e)' /\ CleanedUp(e)'
  BY DEF Whole, Keeps, Leased, CleanedUp, Gone, Dirs
<1> QED
  BY <1>1, <1>2 DEF Whole

\* What a step makes of a directory is one.
LEMMA DirectoryChanges ==
  ASSUME NEW x \in Directories
  PROVE  /\ {Made(x), Known(Made(x)), Held(x), Filled(x), Emptied(x), Deleted(x), LetGo(x),
             LetGo(Emptied(x)), LetGo(Deleted(x))} \subseteq Directories
         /\ Made(x).lease = x.lease /\ Known(Made(x)).known /\ Known(Made(x)).lease = x.lease
         /\ Held(x).known = x.known /\ Filled(x).known = x.known /\ Filled(x).lease = x.lease
         /\ LetGo(x).lease # "open" /\ LetGo(x).known = x.known
         /\ LetGo(Emptied(x)).known = x.known /\ LetGo(Deleted(x)).known = x.known
         /\ LetGo(Emptied(x)).lease # "open" /\ LetGo(Deleted(x)).lease # "open"
         /\ LetGo(Emptied(x)).own = "empty" /\ LetGo(Deleted(x)).own = "deleted"
         /\ \A y \in {"nothing", "own", "other"} :
              /\ Moved(x, y) \in Directories
              /\ Moved(x, y).own = x.own /\ Moved(x, y).known = x.known
              /\ Moved(x, y).lease = x.lease
  BY DEF Directories, Made, Known, Held, Filled, Emptied, Deleted, LetGo, Moved

LEMMA PutDirectory ==
  ASSUME dir \in [Callers -> [Dirs -> Directories]], NEW c \in Callers, NEW d \in Dirs,
         NEW x \in Directories, Put(c, d, x)
  PROVE  /\ dir' \in [Callers -> [Dirs -> Directories]]
         /\ dir'[c][d] = x /\ \A e \in Dirs : e # d => dir'[c][e] = dir[c][e]
         /\ \A e \in Callers : e # c => dir'[e] = dir[e]
  BY DEF Put

LEMMA ToStage ==
  ASSUME call \in [Callers -> Stages], NEW c \in Callers, NEW s \in Stages, Advance(c, s)
  PROVE  /\ call' \in [Callers -> Stages] /\ call'[c] = s
         /\ \A e \in Callers : e # c => call'[e] = call[e]
  BY DEF Advance

-----------------------------------------------------------------------------
(* Sandbox: the steps that open and work *)

\* A call whose work has failed, and that has its cleanup before it.
LEMMA RaisedIsWhole ==
  ASSUME NEW c, NEW k \in FailureKinds,
         call'[c] = <<"clean", "inside">>, failure'[c] = k, returned'[c] = "none",
         c \in shocked' => k = "priority", ~listener'[c], answer'[c] = "none",
         \A d \in Dirs : dir'[c][d].lease = "open" => dir'[c][d].known
  PROVE  Whole(c)'
<1>1. InOrder(c)'
  BY DEF InOrder, Opening, Closing
<1>2. Remembered(c)'
  BY DEF Remembered, Closing, FailureKinds
<1>3. Accounted(c)'
  BY DEF Accounted, Opening
<1>4. Leased(c)'
  BY DEF Leased, Opening, InSandbox, FailureKinds, Dirs
<1>5. CleanedUp(c)'
  BY DEF CleanedUp, FailureKinds, Outcomes
<1> QED
  BY <1>1, <1>2, <1>3, <1>4, <1>5 DEF Whole

\* A step of one call, with the other calls as they were.
LEMMA Stepped ==
  ASSUME SandboxInv, NEW c \in Callers, Shapes', Whole(c)', host' = host,
         \A e \in Callers : e # c => Keeps(e),
         UNCHANGED <<command, consumed>> \/ (GivenOut /\ SharedServesOnce)'
  PROVE  SandboxInv'
<1>1. ASSUME NEW e \in Callers PROVE Whole(e)'
  BY <1>1, KeepsWhole DEF SandboxInv
<1>2. GivenOut' /\ SharedServesOnce'
  BY DEF SandboxInv, GivenOut, SharedServesOnce
<1> QED
  BY <1>1, <1>2 DEF SandboxInv

\* Only a priority failure is remembered, and only of the call it is of.
OnlyShocks(c, k) == /\ c \in shocked' => c \in shocked \/ k = "priority"
                 /\ \A e \in Callers : e # c => (e \in shocked' <=> e \in shocked)

LEMMA Notices ==
  ASSUME NEW c \in Callers, NEW k, Mishap(c, k) \/ Sound
  PROVE  OnlyShocks(c, k)
  BY DEF Mishap, Sound, Shocks, OnlyShocks

\* The failure of any step of the work.
LEMMA Raised ==
  ASSUME SandboxInv, NEW c \in Callers, call[c] \notin Closing, NEW k \in FailureKinds,
         Raise(c, k), OnlyShocks(c, k),
         dir' \in [Callers -> [Dirs -> Directories]],
         \A d \in Dirs : dir'[c][d].lease = "open" => dir'[c][d].known,
         \A e \in Callers : e # c => dir'[e] = dir[e],
         anchors' \in [Callers -> BOOLEAN], listener' \in [Callers -> BOOLEAN],
         \A e \in Callers : e # c => anchors'[e] = anchors[e] /\ listener'[e] = listener[e],
         ~listener'[c],
         UNCHANGED <<host, command, consumed, work, errors, returned>>
  PROVE  SandboxInv'
<1>1. Shapes /\ Whole(c)
  BY DEF SandboxInv
<1>2. answer[c] = "none" /\ returned[c] = "none" /\ c \notin shocked
  <2>1. call[c] # <<"done">>
    BY DEF Closing
  <2> QED
    BY <1>1, <2>1 DEF Whole, InOrder, Remembered
<1>3. /\ call' \in [Callers -> Stages] /\ call'[c] = <<"clean", "inside">>
      /\ \A e \in Callers : e # c => call'[e] = call[e]
  <2>1. <<"clean", "inside">> \in Stages /\ call \in [Callers -> Stages]
    BY <1>1 DEF Stages, Closing, Shapes
  <2> QED
    BY <2>1, ToStage DEF Raise
<1>4. /\ failure' \in [Callers -> {"none"} \cup FailureKinds] /\ failure'[c] = k
      /\ \A e \in Callers : e # c => failure'[e] = failure[e]
  BY <1>1 DEF Raise, Shapes
<1>5. Shapes'
  BY <1>1, <1>3, <1>4 DEF Shapes, work
<1>6. \A e \in Callers : e # c => Keeps(e)
  BY <1>3, <1>4 DEF Keeps, OnlyShocks, work
<1>7. Whole(c)'
  BY <1>2, <1>3, <1>4, RaisedIsWhole DEF OnlyShocks, work
<1> QED
  BY <1>5, <1>6, <1>7, Stepped

\* A step of the work that succeeds.
LEMMA Proceeded ==
  ASSUME SandboxInv, NEW c \in Callers, call[c] \notin Closing,
         NEW s \in Opening \cup InSandbox, Proceed(c, s), Sound,
         dir' \in [Callers -> [Dirs -> Directories]],
         \A e \in Callers : e # c => dir'[e] = dir[e],
         anchors' \in [Callers -> BOOLEAN], listener' \in [Callers -> BOOLEAN],
         \A e \in Callers : e # c => anchors'[e] = anchors[e] /\ listener'[e] = listener[e],
         proved' \in [Callers -> SUBSET Probes],
         \A e \in Callers : e # c => proved'[e] = proved[e],
         InOrder(c)', Accounted(c)', Leased(c)',
         UNCHANGED <<host, command, consumed, late, answer, errors, returned>>
  PROVE  SandboxInv'
<1>1. Shapes /\ Whole(c)
  BY DEF SandboxInv
<1>2. /\ call' \in [Callers -> Stages] /\ call'[c] = s
      /\ \A e \in Callers : e # c => call'[e] = call[e]
  <2>1. s \in Stages /\ call \in [Callers -> Stages]
    BY <1>1 DEF Stages, Shapes
  <2> QED
    BY <2>1, ToStage DEF Proceed
<1>3. Shapes'
  BY <1>1, <1>2 DEF Shapes, Proceed
<1>4. \A e \in Callers : e # c => Keeps(e)
  BY <1>2 DEF Keeps, Proceed, Sound
<1>5. s \notin Closing
  BY DEF Opening, InSandbox, Closing
<1>6. call[c] # <<"done">> /\ s # <<"done">>
  BY <1>5 DEF Closing
<1>7. Remembered(c)'
  BY <1>1, <1>2, <1>5, <1>6 DEF Whole, Remembered, Proceed, Sound
<1>8. CleanedUp(c)'
  BY <1>1, <1>2, <1>5, <1>6 DEF Whole, Remembered, CleanedUp, Closing, Outcomes
<1> QED
  BY <1>3, <1>4, <1>7, <1>8, Stepped DEF Whole

\* What holds of a call while its work goes on.
LEMMA Working ==
  ASSUME SandboxInv, NEW c \in Callers, call[c] \notin Closing
  PROVE  /\ Shapes /\ Whole(c) /\ answer[c] = "none"
         /\ \A d \in Dirs : dir[c][d] \in Directories
         /\ call[c] \in Opening => ~listener[c] /\ proved[c] = {}
         /\ call[c] \in Opening \ {<<"wrap">>} => command[c] = "none"
<1>1. Shapes /\ Whole(c)
  BY DEF SandboxInv
<1>2. call[c] \in Opening => call[c] # <<"running", "network">>
  BY DEF Opening
<1>3. \A d \in Dirs : dir[c][d] \in Directories
  BY <1>1 DEF Shapes
<1>4. answer[c] = "none" /\ (call[c] \in Opening => proved[c] = {})
  BY <1>1 DEF Whole, InOrder
<1>5. /\ call[c] \in Opening => ~listener[c]
      /\ call[c] \in Opening \ {<<"wrap">>} => command[c] = "none"
  BY <1>1, <1>2 DEF Whole, Accounted
<1> QED
  BY <1>1, <1>3, <1>4, <1>5

LEMMA Moves ==
  ASSUME SandboxInv, NEW c \in Callers, NEW s \in Opening \cup InSandbox, Proceed(c, s)
  PROVE  call'[c] = s
  BY ToStage DEF SandboxInv, Shapes, Proceed, Stages

LEMMA MakeStep ==
  ASSUME SandboxInv, NEW c \in Callers, NEW d \in Dirs, MakeDirectory(c, d)
  PROVE  SandboxInv'
<1>1. call[c] = <<"make", d>> /\ call[c] \notin Closing /\ call[c] \in Opening
  BY DEF MakeDirectory, AtStep, Closing, Opening
<1>2. /\ Shapes /\ Whole(c) /\ \A e \in Dirs : dir[c][e] \in Directories
      /\ ~listener[c] /\ proved[c] = {} /\ command[c] = "none" /\ answer[c] = "none"
  BY <1>1, Working DEF Opening
<1>3. UNCHANGED <<host, anchors, command, consumed, listener, work, errors, returned>>
  BY DEF MakeDirectory
<1>4. CASE Sound /\ Proceed(c, <<"open", d>>) /\ Put(c, d, Known(Made(dir[c][d])))
  <2>1. <<"open", d>> \in Opening
    BY DEF Opening
  <2>2. call'[c] = <<"open", d>>
    BY <1>4, <2>1, Moves
  <2>3. Known(Made(dir[c][d])) \in Directories
    BY <1>2, DirectoryChanges
  <2>4. /\ dir' \in [Callers -> [Dirs -> Directories]]
        /\ dir'[c][d] = Known(Made(dir[c][d]))
        /\ \A e \in Dirs : e # d => dir'[c][e] = dir[c][e]
        /\ \A e \in Callers : e # c => dir'[e] = dir[e]
    BY <1>2, <1>4, <2>3, PutDirectory DEF Shapes
  <2>5. dir'[c][d].known /\ dir'[c][d].lease = dir[c][d].lease
    BY <1>2, <2>4, DirectoryChanges
  <2>6. InOrder(c)'
    BY <1>2, <1>3, <2>1, <2>2 DEF InOrder, work, Closing
  <2>7. Accounted(c)'
    BY <1>2, <1>3, <2>2 DEF Accounted
  <2>8. Leased(c)'
    BY <1>1, <1>2, <2>2, <2>4, <2>5 DEF Whole, Leased, Dirs, InSandbox
  <2> QED
    BY <1>1, <1>2, <1>3, <1>4, <2>1, <2>4, <2>6, <2>7, <2>8, Proceeded DEF Shapes, work
<1>5. ASSUME NEW k \in FailureKinds, Mishap(c, k), Raise(c, k),
             UNCHANGED dir \/ Put(c, d, Made(dir[c][d]))
      PROVE  SandboxInv'
  <2>1. /\ dir' \in [Callers -> [Dirs -> Directories]]
        /\ \A e \in Dirs : dir'[c][e].lease = "open" => dir'[c][e].known
        /\ \A e \in Callers : e # c => dir'[e] = dir[e]
    <3>1. CASE UNCHANGED dir
      BY <1>2, <3>1 DEF Shapes, Whole, Leased
    <3>2. CASE Put(c, d, Made(dir[c][d]))
      <4>1. Made(dir[c][d]) \in Directories /\ Made(dir[c][d]).lease = dir[c][d].lease
        BY <1>2, DirectoryChanges
      <4>2. dir[c][d].lease # "open"
        BY <1>1, <1>2 DEF Whole, Leased, Dirs, InSandbox
      <4>3. /\ dir' \in [Callers -> [Dirs -> Directories]]
            /\ dir'[c][d] = Made(dir[c][d])
            /\ \A e \in Dirs : e # d => dir'[c][e] = dir[c][e]
            /\ \A e \in Callers : e # c => dir'[e] = dir[e]
        BY <1>2, <3>2, <4>1, PutDirectory DEF Shapes
      <4> QED
        BY <1>2, <4>1, <4>2, <4>3 DEF Whole, Leased
    <3> QED
      BY <1>5, <3>1, <3>2
  <2> QED
    BY <1>1, <1>2, <1>3, <1>5, <2>1, Notices, Raised DEF Shapes
<1> QED
  BY <1>4, <1>5 DEF MakeDirectory

LEMMA OpenStep ==
  ASSUME SandboxInv, NEW c \in Callers, NEW d \in Dirs, OpenDirectory(c, d)
  PROVE  SandboxInv'
<1>1. call[c] = <<"open", d>> /\ call[c] \notin Closing /\ call[c] \in Opening
  BY DEF OpenDirectory, AtStep, Closing, Opening
<1>2. /\ Shapes /\ Whole(c) /\ \A e \in Dirs : dir[c][e] \in Directories
      /\ ~listener[c] /\ proved[c] = {} /\ command[c] = "none" /\ answer[c] = "none"
  BY <1>1, Working DEF Opening
<1>3. UNCHANGED <<host, anchors, command, consumed, listener, work, errors, returned>>
  BY DEF OpenDirectory
<1>4. dir[c][d].known
  BY <1>1, <1>2 DEF Whole, Leased, Dirs
<1>5. ASSUME Put(c, d, Held(dir[c][d]))
      PROVE  /\ dir' \in [Callers -> [Dirs -> Directories]]
             /\ \A e \in Dirs : dir'[c][e].known = dir[c][e].known
             /\ \A e \in Dirs : e # d => dir'[c][e] = dir[c][e]
             /\ \A e \in Callers : e # c => dir'[e] = dir[e]
  <2>1. Held(dir[c][d]) \in Directories /\ Held(dir[c][d]).known = dir[c][d].known
    BY <1>2, DirectoryChanges
  <2>2. /\ dir' \in [Callers -> [Dirs -> Directories]]
        /\ dir'[c][d] = Held(dir[c][d])
        /\ \A e \in Dirs : e # d => dir'[c][e] = dir[c][e]
        /\ \A e \in Callers : e # c => dir'[e] = dir[e]
    BY <1>2, <1>5, <2>1, PutDirectory DEF Shapes
  <2> QED
    BY <2>1, <2>2
<1>6. CASE Sound /\ Proceed(c, AfterOpen(d)) /\ Put(c, d, Held(dir[c][d]))
  <2>1. AfterOpen(d) \in Opening /\ AfterOpen(d) # <<"wrap">>
    BY DEF Opening, AfterOpen, Dirs
  <2>2. call'[c] = AfterOpen(d)
    BY <1>6, <2>1, Moves
  <2>3. InOrder(c)'
    BY <1>2, <1>3, <2>1, <2>2 DEF InOrder, work, Closing, Opening
  <2>4. Accounted(c)'
    BY <1>2, <1>3, <2>2 DEF Accounted, AfterOpen
  <2>5. Leased(c)'
    <3>1. CASE d = "inside"
      BY <1>1, <1>2, <1>4, <1>5, <1>6, <2>2, <3>1 DEF Whole, Leased, Dirs, AfterOpen, InSandbox
    <3>2. CASE d = "outside"
      BY <1>1, <1>2, <1>4, <1>5, <1>6, <2>2, <3>2 DEF Whole, Leased, Dirs, AfterOpen, InSandbox
    <3> QED
      BY <3>1, <3>2 DEF Dirs
  <2> QED
    BY <1>1, <1>2, <1>3, <1>5, <1>6, <2>1, <2>3, <2>4, <2>5, Proceeded DEF Shapes, work
<1>7. ASSUME NEW k \in FailureKinds, Mishap(c, k) \/ Sound, Raise(c, k),
             UNCHANGED dir \/ Put(c, d, Held(dir[c][d]))
      PROVE  SandboxInv'
  <2>1. /\ dir' \in [Callers -> [Dirs -> Directories]]
        /\ \A e \in Dirs : dir'[c][e].lease = "open" => dir'[c][e].known
        /\ \A e \in Callers : e # c => dir'[e] = dir[e]
    <3>1. CASE UNCHANGED dir
      BY <1>2, <3>1 DEF Shapes, Whole, Leased
    <3>2. CASE Put(c, d, Held(dir[c][d]))
      BY <1>2, <1>4, <1>5, <3>2 DEF Whole, Leased
    <3> QED
      BY <1>7, <3>1, <3>2
  <2> QED
    BY <1>1, <1>2, <1>3, <1>7, <2>1, Notices, Raised DEF Shapes
<1>8. "plain" \in FailureKinds
  BY DEF FailureKinds
<1> QED
  BY <1>6, <1>7, <1>8 DEF OpenDirectory

LEMMA TakeStep ==
  ASSUME SandboxInv, NEW c \in Callers, TakeCommand(c)
  PROVE  SandboxInv'
<1>1. call[c] = <<"command">> /\ call[c] \notin Closing /\ call[c] \in Opening
  BY DEF TakeCommand, AtStep, Closing, Opening
<1>2. /\ Shapes /\ Whole(c) /\ \A e \in Dirs : dir[c][e] \in Directories
      /\ ~listener[c] /\ proved[c] = {} /\ command[c] = "none" /\ answer[c] = "none"
  BY <1>1, Working DEF Opening
<1>3. UNCHANGED <<host, dir, anchors, listener, work, errors, returned>>
  BY DEF TakeCommand
<1>4. /\ dir' \in [Callers -> [Dirs -> Directories]]
      /\ \A e \in Dirs : dir'[c][e].lease = "open" => dir'[c][e].known
      /\ \A e \in Callers : e # c => dir'[e] = dir[e]
  BY <1>2, <1>3 DEF Shapes, Whole, Leased
<1>5. CASE /\ ~(host.shared /\ consumed) /\ Sound /\ Proceed(c, <<"wrap">>)
           /\ command' = [command EXCEPT ![c] = "open"] /\ consumed' = host.shared
  <2>1. <<"wrap">> \in Opening /\ <<"wrap">> \in Stages
    BY DEF Opening, Stages
  <2>2. /\ call'[c] = <<"wrap">> /\ call' \in [Callers -> Stages]
        /\ \A e \in Callers : e # c => call'[e] = call[e]
    BY <1>2, <1>5, <2>1, ToStage DEF Shapes, Proceed
  <2>3. /\ command' \in [Callers -> {"none", "open", "closed"}]
        /\ \A e \in Callers : e # c => command'[e] = command[e]
    BY <1>2, <1>5 DEF Shapes
  <2>4. consumed' \in BOOLEAN
    BY <1>2, <1>5 DEF Shapes
  <2>5. Shapes'
    BY <1>2, <1>3, <1>4, <1>5, <2>2, <2>3, <2>4 DEF Shapes, Proceed, work
  <2>6. InOrder(c)'
    BY <1>2, <1>3, <2>1, <2>2 DEF InOrder, work
  <2>7. Remembered(c)' /\ CleanedUp(c)'
    BY <1>1, <1>2, <1>3, <1>5, <2>2
       DEF Whole, Remembered, CleanedUp, Proceed, Sound, Closing, Outcomes
  <2>8. Accounted(c)'
    BY <1>2, <1>3, <2>2 DEF Accounted
  <2>9. Leased(c)'
    BY <1>1, <1>2, <1>3, <2>2 DEF Whole, Leased, Dirs, InSandbox
  <2>10. \A e \in Callers : e # c => Keeps(e)
    BY <1>3, <1>5, <2>2, <2>3 DEF Keeps, Proceed, Sound, work
  <2>11. (GivenOut /\ SharedServesOnce)'
    BY <1>2, <1>3, <1>5, <2>3 DEF SandboxInv, GivenOut, SharedServesOnce
  <2> QED
    BY <1>3, <2>5, <2>6, <2>7, <2>8, <2>9, <2>10, <2>11, Stepped DEF Whole
<1>6. ASSUME NEW k \in FailureKinds, Mishap(c, k) \/ Sound, Raise(c, k),
             UNCHANGED <<command, consumed>>
      PROVE  SandboxInv'
  BY <1>1, <1>2, <1>3, <1>4, <1>6, Notices, Raised DEF Shapes
<1>7. "plain" \in FailureKinds
  BY DEF FailureKinds
<1> QED
  BY <1>5, <1>6, <1>7 DEF TakeCommand

LEMMA WrapStep ==
  ASSUME SandboxInv, NEW c \in Callers, WrapArguments(c)
  PROVE  SandboxInv'
<1>1. call[c] = <<"wrap">> /\ call[c] \notin Closing /\ call[c] \in Opening
  BY DEF WrapArguments, AtStep, Closing, Opening
<1>2. /\ Shapes /\ Whole(c) /\ ~listener[c] /\ proved[c] = {} /\ answer[c] = "none"
  BY <1>1, Working
<1>3. UNCHANGED <<host, dir, anchors, command, consumed, listener, work, errors, returned>>
  BY DEF WrapArguments, held
<1>4. \A e \in Dirs : dir[c][e].lease = "open" => dir[c][e].known
  BY <1>2 DEF Whole, Leased
<1>5. CASE Sound /\ Proceed(c, <<"ready", "write">>)
  <2>1. <<"ready", "write">> \in InSandbox
    BY DEF InSandbox, Probes
  <2>2. call'[c] = <<"ready", "write">>
    BY <1>5, <2>1, Moves
  <2>3. InOrder(c)' /\ Accounted(c)'
    BY <1>2, <1>3, <2>1, <2>2 DEF InOrder, Accounted, work, Opening, Closing
  <2>4. Leased(c)'
    BY <1>1, <1>2, <1>3, <2>1, <2>2 DEF Whole, Leased, Dirs
  <2> QED
    BY <1>1, <1>2, <1>3, <1>5, <2>1, <2>3, <2>4, Proceeded DEF Shapes, work
<1>6. ASSUME NEW k \in FailureKinds, Mishap(c, k) \/ Sound, Raise(c, k)
      PROVE  SandboxInv'
  BY <1>1, <1>2, <1>3, <1>4, <1>6, Notices, Raised DEF Shapes
<1>7. "plain" \in FailureKinds
  BY DEF FailureKinds
<1> QED
  BY <1>5, <1>6, <1>7 DEF WrapArguments

LEMMA AnchorsStep ==
  ASSUME SandboxInv, NEW c \in Callers, OpenAnchors(c)
  PROVE  SandboxInv'
<1>1. call[c] = <<"anchors">> /\ call[c] \notin Closing /\ call[c] \in Opening
  BY DEF OpenAnchors, AtStep, Closing, Opening
<1>2. /\ Shapes /\ Whole(c) /\ ~listener[c] /\ proved[c] = {} /\ answer[c] = "none"
      /\ command[c] = "none"
  BY <1>1, Working
<1>3. UNCHANGED <<host, dir, command, consumed, listener, work, errors, returned>>
  BY DEF OpenAnchors
<1>4. \A e \in Dirs : dir[c][e].lease = "open" => dir[c][e].known
  BY <1>2 DEF Whole, Leased
<1>5. ASSUME NEW b \in BOOLEAN, anchors' = [anchors EXCEPT ![c] = b]
      PROVE  /\ anchors' \in [Callers -> BOOLEAN]
             /\ \A e \in Callers : e # c => anchors'[e] = anchors[e]
  BY <1>2, <1>5 DEF Shapes
<1>6. CASE /\ Sound /\ Proceed(c, <<"make", "inside">>)
           /\ anchors' = [anchors EXCEPT ![c] = TRUE]
  <2>1. <<"make", "inside">> \in Opening
    BY DEF Opening, Dirs
  <2>2. call'[c] = <<"make", "inside">>
    BY <1>6, <2>1, Moves
  <2>3. InOrder(c)' /\ Accounted(c)'
    BY <1>2, <1>3, <2>1, <2>2 DEF InOrder, Accounted, work
  <2>4. Leased(c)'
    BY <1>1, <1>2, <1>3, <2>2 DEF Whole, Leased, Dirs, InSandbox
  <2> QED
    BY <1>1, <1>2, <1>3, <1>5, <1>6, <2>1, <2>3, <2>4, Proceeded DEF Shapes, work
<1>7. ASSUME NEW k \in FailureKinds, NEW b \in BOOLEAN, Mishap(c, k), Raise(c, k),
             anchors' = [anchors EXCEPT ![c] = b]
      PROVE  SandboxInv'
  BY <1>1, <1>2, <1>3, <1>4, <1>5, <1>7, Notices, Raised DEF Shapes
<1> QED
  BY <1>6, <1>7 DEF OpenAnchors

LEMMA Selected ==
  ASSUME NEW p \in {"none"} \cup FailureKinds, NEW S \in SUBSET FailureKinds
  PROVE  /\ Select(p, S) \in {"none"} \cup FailureKinds
         /\ Select(p, S) = "priority" <=> p = "priority" \/ "priority" \in S
         /\ Select(p, S) = "none" <=> p = "none" /\ S = {}
  BY DEF Select, FailureKinds

LEMMA StartStep ==
  ASSUME SandboxInv, NEW c \in Callers, Start(c)
  PROVE  SandboxInv'
<1>1. call[c] = <<"start">> /\ call[c] \notin Closing /\ call[c] \in Opening
  BY DEF Start, AtStep, Closing, Opening
<1>2. /\ Shapes /\ Whole(c) /\ ~listener[c] /\ proved[c] = {} /\ answer[c] = "none"
      /\ command[c] = "none"
  BY <1>1, Working
<1>3. UNCHANGED <<host, dir, anchors, command, consumed, listener, work, failure, errors>>
  BY DEF Start, held
<1>4. CASE Sound /\ Advance(c, <<"anchors">>) /\ UNCHANGED returned
  <2>1. <<"anchors">> \in Opening
    BY DEF Opening
  <2>2. Proceed(c, <<"anchors">>)
    BY <1>3, <1>4 DEF Proceed
  <2>3. call'[c] = <<"anchors">>
    BY <2>1, <2>2, Moves
  <2>4. InOrder(c)' /\ Accounted(c)'
    BY <1>1, <1>2, <1>3, <2>1, <2>3 DEF Whole, InOrder, Accounted, work
  <2>5. Leased(c)'
    BY <1>1, <1>2, <1>3, <2>3 DEF Whole, Leased, Dirs, InSandbox
  <2> QED
    BY <1>1, <1>2, <1>3, <1>4, <2>1, <2>2, <2>4, <2>5, Proceeded DEF Shapes, work
<1>5. ASSUME NEW k \in FailureKinds, Mishap(c, k), Advance(c, <<"done">>),
             returned' = [returned EXCEPT ![c] = k]
      PROVE  SandboxInv'
  <2>1. /\ call' \in [Callers -> Stages] /\ call'[c] = <<"done">>
        /\ \A e \in Callers : e # c => call'[e] = call[e]
    <3>1. <<"done">> \in Stages
      BY DEF Stages, Closing
    <3> QED
      BY <1>2, <1>5, <3>1, ToStage DEF Shapes
  <2>2. /\ returned' \in [Callers -> {"none"} \cup FailureKinds \cup Outcomes]
        /\ returned'[c] = k /\ \A e \in Callers : e # c => returned'[e] = returned[e]
    BY <1>2, <1>5 DEF Shapes
  <2>3. Shapes'
    BY <1>2, <1>3, <2>1, <2>2 DEF Shapes, work
  <2>4. OnlyShocks(c, k) /\ c \notin shocked
    BY <1>1, <1>2, <1>5, Notices DEF Whole, Remembered
  <2>5. \A e \in Callers : e # c => Keeps(e)
    BY <1>3, <2>1, <2>2, <2>4 DEF Keeps, OnlyShocks, work
  <2>6. InOrder(c)' /\ Accounted(c)'
    BY <1>1, <1>2, <1>3, <2>1 DEF Whole, InOrder, Accounted, work, Opening, Closing
  <2>7. Leased(c)'
    BY <1>1, <1>2, <1>3, <2>1 DEF Whole, Leased, Dirs, InSandbox
  <2>8. Remembered(c)' /\ CleanedUp(c)'
    BY <1>1, <1>2, <1>3, <2>1, <2>2, <2>4
       DEF Remembered, CleanedUp, OnlyShocks, Closing, Outcomes, FailureKinds
  <2> QED
    BY <1>3, <2>3, <2>5, <2>6, <2>7, <2>8, Stepped DEF Whole
<1> QED
  BY <1>4, <1>5 DEF Start

LEMMA BeginStep ==
  ASSUME SandboxInv, NEW c \in Callers, NEW n \in Probes \cup {"command"}, BeginChild(c, n)
  PROVE  SandboxInv'
<1>1. /\ call[c] = <<"ready", n>> /\ call[c] \notin Closing /\ call[c] \in InSandbox
      /\ call[c] \notin Opening
  BY DEF BeginChild, AtStep, Closing, Opening, InSandbox
<1>2. Shapes /\ Whole(c) /\ answer[c] = "none"
  BY <1>1, Working
<1>3. ~listener[c]
  BY <1>1, <1>2 DEF Whole, Accounted
<1>4. UNCHANGED <<host, dir, anchors, command, consumed, work, errors, returned>>
  BY DEF BeginChild
<1>5. \A e \in Dirs : dir[c][e].lease = "open" => dir[c][e].known
  BY <1>2 DEF Whole, Leased
<1>6. CASE /\ Sound /\ Proceed(c, <<"running", n>>)
           /\ listener' = [listener EXCEPT ![c] = n = "network"]
  <2>1. <<"running", n>> \in InSandbox /\ <<"running", n>> \notin Opening
    BY DEF InSandbox, Opening
  <2>2. call'[c] = <<"running", n>>
    BY <1>6, <2>1, Moves
  <2>3. /\ listener' \in [Callers -> BOOLEAN] /\ (listener'[c] => n = "network")
        /\ \A e \in Callers : e # c => listener'[e] = listener[e]
    BY <1>2, <1>6 DEF Shapes
  <2>4. InOrder(c)'
    BY <1>1, <1>2, <1>4, <2>1, <2>2 DEF Whole, InOrder, Required, work, Probes
  <2>5. Accounted(c)'
    BY <1>2, <1>4, <2>1, <2>2, <2>3 DEF Accounted
  <2>6. Leased(c)'
    BY <1>1, <1>2, <1>4, <2>1, <2>2 DEF Whole, Leased, Dirs
  <2> QED
    BY <1>1, <1>2, <1>4, <1>6, <2>1, <2>3, <2>4, <2>5, <2>6, Proceeded DEF Shapes, work
<1>7. ASSUME NEW k \in FailureKinds, Mishap(c, k) \/ Sound, Raise(c, k), UNCHANGED listener
      PROVE  SandboxInv'
  BY <1>1, <1>2, <1>3, <1>4, <1>5, <1>7, Notices, Raised DEF Shapes
<1>8. "plain" \in FailureKinds
  BY DEF FailureKinds
<1> QED
  BY <1>6, <1>7, <1>8 DEF BeginChild

\* Time passes, or something else moves a directory: nothing that is held changes.
LEMMA Elapses ==
  ASSUME SandboxInv, NEW c \in Callers, Elapse(c)
  PROVE  SandboxInv'
<1>1. Shapes'
  BY DEF SandboxInv, Shapes, Elapse, held
<1>2. \A e \in Callers : Keeps(e)
  BY DEF Elapse, Keeps, held
<1> QED
  BY <1>1, <1>2, Stepped, KeepsWhole DEF SandboxInv, Elapse, held

LEMMA DirectoryMoves ==
  ASSUME SandboxInv, NEW c \in Callers, NEW d \in Dirs, NEW x \in {"nothing", "own", "other"},
         Move(c, d, x)
  PROVE  SandboxInv'
<1>1. Shapes /\ dir[c][d] \in Directories
  BY DEF SandboxInv, Shapes
<1>2. Put(c, d, Moved(dir[c][d], x))
  BY DEF Move
<1>3. /\ Moved(dir[c][d], x) \in Directories
      /\ Moved(dir[c][d], x).own = dir[c][d].own /\ Moved(dir[c][d], x).known = dir[c][d].known
      /\ Moved(dir[c][d], x).lease = dir[c][d].lease
  BY <1>1, DirectoryChanges
<1>4. /\ dir' \in [Callers -> [Dirs -> Directories]]
      /\ dir'[c][d] = Moved(dir[c][d], x)
      /\ \A e \in Dirs : e # d => dir'[c][e] = dir[c][e]
      /\ \A e \in Callers : e # c => dir'[e] = dir[e]
  BY <1>1, <1>2, <1>3, PutDirectory DEF Shapes
<1>5. UNCHANGED <<host, call, anchors, command, consumed, listener, work, failure, errors,
                  returned, shocked>>
  BY DEF Move
<1>6. Shapes'
  BY <1>1, <1>4, <1>5 DEF Shapes, work
<1>7. \A e \in Callers : Keeps(e)
  BY <1>3, <1>4, <1>5 DEF Keeps, work
<1> QED
  BY <1>5, <1>6, <1>7, Stepped, KeepsWhole DEF SandboxInv

LEMMA EndStep ==
  ASSUME SandboxInv, NEW c \in Callers, NEW n \in Probes \cup {"command"}, EndChild(c, n)
  PROVE  SandboxInv'
<1>1. /\ call[c] = <<"running", n>> /\ call[c] \notin Closing /\ call[c] \in InSandbox
      /\ call[c] \notin Opening
  BY DEF EndChild, AtStep, Closing, Opening, InSandbox
<1>2. Shapes /\ Whole(c) /\ answer[c] = "none" /\ \A d \in Dirs : dir[c][d] \in Directories
  BY <1>1, Working
<1>3. UNCHANGED <<host, anchors, command, consumed, late, errors, returned>>
  BY DEF EndChild
<1>4. /\ listener' \in [Callers -> BOOLEAN] /\ ~listener'[c]
      /\ \A e \in Callers : e # c => listener'[e] = listener[e]
  BY <1>2 DEF EndChild, Shapes
<1>5. ASSUME dir' \in {dir, Written(c, n)}
      PROVE  /\ dir' \in [Callers -> [Dirs -> Directories]]
             /\ \A e \in Dirs : /\ dir'[c][e].lease = dir[c][e].lease
                               /\ dir'[c][e].known = dir[c][e].known
             /\ \A e \in Callers : e # c => dir'[e] = dir[e]
  <2>1. CASE UNCHANGED dir
    BY <1>2, <2>1 DEF Shapes
  <2>2. CASE ~UNCHANGED dir
    <3>1. PICK d \in Dirs : Put(c, d, Filled(dir[c][d]))
      BY <1>5, <2>2 DEF Written, Put, Dirs
    <3>2. /\ Filled(dir[c][d]) \in Directories
          /\ Filled(dir[c][d]).lease = dir[c][d].lease
          /\ Filled(dir[c][d]).known = dir[c][d].known
      BY <1>2, DirectoryChanges
    <3>3. /\ dir' \in [Callers -> [Dirs -> Directories]]
          /\ dir'[c][d] = Filled(dir[c][d])
          /\ \A e \in Dirs : e # d => dir'[c][e] = dir[c][e]
          /\ \A e \in Callers : e # c => dir'[e] = dir[e]
      BY <1>2, <3>1, <3>2, PutDirectory DEF Shapes
    <3> QED
      BY <3>2, <3>3
  <2> QED
    BY <2>1, <2>2
<1>6. ASSUME NEW k \in FailureKinds, OnlyShocks(c, k), Raise(c, k), dir' \in {dir, Written(c, n)},
             UNCHANGED <<proved, answer>>
      PROVE  SandboxInv'
  <2>1. \A e \in Dirs : dir'[c][e].lease = "open" => dir'[c][e].known
    BY <1>2, <1>5, <1>6 DEF Whole, Leased
  <2> QED
    BY <1>1, <1>2, <1>3, <1>4, <1>5, <1>6, <2>1, Raised DEF Shapes, work
<1>7. ASSUME n # "command", Sound, proved' = [proved EXCEPT ![c] = @ \cup {n}],
             Proceed(c, <<"ready", AfterProbe(n)>>), UNCHANGED answer,
             dir' \in {dir, Written(c, n)}
      PROVE  SandboxInv'
  <2>1. <<"ready", AfterProbe(n)>> \in InSandbox /\ <<"ready", AfterProbe(n)>> \notin Opening
    BY DEF InSandbox, Opening, AfterProbe, Probes
  <2>2. call'[c] = <<"ready", AfterProbe(n)>>
    BY <1>7, <2>1, Moves
  <2>3. /\ proved' \in [Callers -> SUBSET Probes] /\ proved'[c] = proved[c] \cup {n}
        /\ \A e \in Callers : e # c => proved'[e] = proved[e]
    BY <1>2, <1>7 DEF Shapes
  <2>4. InOrder(c)'
    <3>1. CASE n = "write"
      BY <1>1, <1>2, <1>7, <2>1, <2>2, <2>3, <3>1 DEF Whole, InOrder, AfterProbe
    <3>2. CASE n = "escape"
      <4>1. proved'[c] = {"write", "escape"}
        BY <1>1, <1>2, <2>3, <3>2 DEF Whole, InOrder
      <4> QED
        <5>1. CASE host.posix
          <6>1. call'[c] = <<"ready", "network">>
            BY <2>2, <3>2, <5>1 DEF AfterProbe, Required, Probes
          <6> QED
            BY <1>2, <1>3, <1>7, <2>1, <2>2, <4>1, <5>1, <6>1 DEF InOrder
        <5>2. CASE ~host.posix
          <6>1. call'[c] = <<"ready", "command">> /\ Required' = {"write", "escape"}
            BY <1>3, <2>2, <3>2, <5>2 DEF AfterProbe, Required, Probes
          <6> QED
            BY <1>2, <1>7, <2>1, <2>2, <4>1, <6>1 DEF InOrder
        <5> QED
          BY <5>1, <5>2
    <3>3. CASE n = "network"
      <4>1. proved'[c] = Required /\ host' = host
        BY <1>1, <1>2, <1>3, <2>3, <3>3 DEF Whole, InOrder, Required, Probes
      <4> QED
        BY <1>2, <1>7, <2>1, <2>2, <3>3, <4>1 DEF InOrder, AfterProbe, Required
    <3> QED
      BY <1>7, <3>1, <3>2, <3>3 DEF Probes
  <2>5. Accounted(c)'
    BY <1>2, <1>3, <1>4, <2>1, <2>2 DEF Accounted
  <2>6. Leased(c)'
    BY <1>1, <1>2, <1>5, <1>7, <2>1, <2>2 DEF Whole, Leased, Dirs
  <2> QED
    BY <1>1, <1>2, <1>3, <1>4, <1>5, <1>7, <2>1, <2>3, <2>4, <2>5, <2>6, Proceeded DEF Shapes
<1>8. ASSUME n = "command", Sound, NEW x \in Outcomes, answer' = [answer EXCEPT ![c] = x],
             Proceed(c, <<"clean", "inside">>), UNCHANGED proved, dir' \in {dir, Written(c, n)}
      PROVE  SandboxInv'
  <2>1. /\ call' \in [Callers -> Stages] /\ call'[c] = <<"clean", "inside">>
        /\ \A e \in Callers : e # c => call'[e] = call[e]
    <3>1. <<"clean", "inside">> \in Stages
      BY DEF Stages, Closing
    <3> QED
      BY <1>2, <1>8, <3>1, ToStage DEF Shapes, Proceed
  <2>2. /\ answer' \in [Callers -> {"none"} \cup Outcomes]
        /\ \A e \in Callers : e # c => answer'[e] = answer[e]
    BY <1>2, <1>8 DEF Shapes
  <2>3. Shapes'
    BY <1>2, <1>3, <1>4, <1>5, <1>8, <2>1, <2>2 DEF Shapes, Proceed
  <2>4. \A e \in Callers : e # c => Keeps(e)
    BY <1>3, <1>4, <1>5, <1>8, <2>1, <2>2 DEF Keeps, Proceed, Sound
  <2>5. proved'[c] = Required /\ host' = host
    BY <1>1, <1>2, <1>3, <1>8 DEF Whole, InOrder
  <2>6. InOrder(c)' /\ Accounted(c)'
    BY <1>4, <2>1, <2>5 DEF InOrder, Accounted, Required, Opening, Closing
  <2>7. Remembered(c)' /\ CleanedUp(c)'
    BY <1>1, <1>2, <1>3, <1>8, <2>1
       DEF Whole, Remembered, CleanedUp, Proceed, Sound, Closing, Outcomes
  <2>8. Leased(c)'
    BY <1>1, <1>2, <1>5, <1>8, <2>1 DEF Whole, Leased, Dirs
  <2> QED
    BY <1>3, <2>3, <2>4, <2>6, <2>7, <2>8, Stepped DEF Whole
<1>9. PICK child \in {"none"} \cup FailureKinds, identity \in {"none"} \cup FailureKinds,
           good \in BOOLEAN :
        /\ IF child = "none" /\ identity = "none" THEN Sound
           ELSE Mishap(c, Select(child, {identity} \ {"none"}))
        /\ dir' \in {dir, Written(c, n)}
        /\ \/ /\ Found(c, child, identity) # "none"
              /\ Raise(c, Found(c, child, identity)) /\ UNCHANGED <<proved, answer>>
           \/ /\ Found(c, child, identity) = "none" /\ n # "command" /\ good
              /\ proved' = [proved EXCEPT ![c] = @ \cup {n}]
              /\ Proceed(c, <<"ready", AfterProbe(n)>>) /\ UNCHANGED answer
           \/ /\ Found(c, child, identity) = "none" /\ n # "command" /\ ~good
              /\ Raise(c, "plain") /\ UNCHANGED <<proved, answer>>
           \/ /\ Found(c, child, identity) = "none" /\ n = "command"
              /\ \E x \in Outcomes : answer' = [answer EXCEPT ![c] = x]
              /\ Proceed(c, <<"clean", "inside">>) /\ UNCHANGED proved
  BY DEF EndChild
<1> DEFINE found == Found(c, child, identity)
           hit   == Select(child, {identity} \ {"none"})
<1>10. /\ found \in {"none"} \cup FailureKinds
       /\ found = "none" => child = "none" /\ identity = "none"
       /\ child = "priority" \/ identity = "priority" => found = "priority"
  <2>1. \A x \in {"none"} \cup FailureKinds : {x} \ {"none"} \in SUBSET FailureKinds
    OBVIOUS
  <2>2. "plain" \in FailureKinds /\ "none" \notin FailureKinds
    BY DEF FailureKinds
  <2> QED
    BY <2>1, <2>2, Selected DEF Found
<1>11. hit = "priority" => child = "priority" \/ identity = "priority"
  BY Selected
<1>12. OnlyShocks(c, found)
  BY <1>9, <1>10, <1>11, Notices DEF OnlyShocks
<1>13. found = "none" => Sound /\ OnlyShocks(c, "plain")
  BY <1>9, <1>10, Notices
<1>14. "plain" \in FailureKinds
  BY DEF FailureKinds
<1> HIDE DEF found, hit
<1>15. CASE found # "none"
  BY <1>6, <1>9, <1>10, <1>12, <1>15 DEF found
<1>16. CASE found = "none"
  BY <1>6, <1>7, <1>8, <1>9, <1>13, <1>14, <1>16 DEF found
<1> QED
  BY <1>15, <1>16

-----------------------------------------------------------------------------
(* Sandbox: the steps of cleanup *)

\* A step of the cleanup leaves alone what the work has come to.
LEMMA StaysInOrder ==
  ASSUME NEW c, Whole(c), call[c] \in Closing, call'[c] \in Closing, host' = host,
         proved'[c] = proved[c], answer'[c] = answer[c]
  PROVE  InOrder(c)'
<1>1. call'[c] \notin Opening /\ call'[c] \notin InSandbox
  BY DEF Opening, InSandbox, Closing
<1>2. answer[c] # "none" => proved[c] = Required
  BY DEF Whole, InOrder
<1> QED
  BY <1>1, <1>2 DEF InOrder, InSandbox, Probes, Required

LEMMA CleanStep ==
  ASSUME SandboxInv, NEW c \in Callers, NEW d \in Dirs, CleanDirectory(c, d)
  PROVE  SandboxInv'
<1> DEFINE x == dir[c][d]
<1>1. /\ call[c] = <<"clean", d>> /\ call[c] \in Closing /\ call[c] # <<"done">>
      /\ call[c] \notin Opening /\ call[c] \notin InSandbox
  BY DEF CleanDirectory, AtStep, Closing, Dirs, Opening, InSandbox
<1>2. Shapes /\ Whole(c) /\ x \in Directories
  BY DEF SandboxInv, Shapes
<1>3. UNCHANGED <<host, anchors, command, consumed, listener, work, failure, returned>>
  BY DEF CleanDirectory
<1>4. /\ AfterClean(d) \in Closing /\ AfterClean(d) # <<"done">> /\ AfterClean(d) \in Stages
      /\ AfterClean(d) \notin Opening /\ AfterClean(d) \notin InSandbox
  BY DEF AfterClean, Closing, Stages, Opening, InSandbox
<1>5. /\ call' \in [Callers -> Stages] /\ call'[c] = AfterClean(d)
      /\ \A e \in Callers : e # c => call'[e] = call[e]
  BY <1>2, <1>4, ToStage DEF Shapes, CleanDirectory
<1>6. InOrder(c)'
  BY <1>1, <1>2, <1>3, <1>4, <1>5, StaysInOrder DEF work
<1>7. Accounted(c)'
  BY <1>1, <1>2, <1>3, <1>4, <1>5 DEF Whole, Accounted, AfterClean, Dirs
<1>8. ASSUME NEW y \in {x, LetGo(x), LetGo(Emptied(x)), LetGo(Deleted(x))},
             (dir' = dir /\ y = x) \/ Put(c, d, y), y.lease # "open",
             NEW k \in FailureKinds,
             \/ UNCHANGED errors /\ Sound /\ (x.known => y = LetGo(Removed(x)))
             \/ Blame(c, k) /\ (Mishap(c, k) \/ Sound)
      PROVE  SandboxInv'
  <2>1. /\ y \in Directories /\ y.known = x.known
    <3>1. LetGo(x) \in Directories /\ LetGo(x).known = x.known
      BY <1>2, DirectoryChanges
    <3>2. LetGo(Emptied(x)) \in Directories /\ LetGo(Emptied(x)).known = x.known
      BY <1>2, DirectoryChanges
    <3>3. LetGo(Deleted(x)) \in Directories /\ LetGo(Deleted(x)).known = x.known
      BY <1>2, DirectoryChanges
    <3> QED
      BY <1>2, <3>1, <3>2, <3>3
  <2>2. /\ dir' \in [Callers -> [Dirs -> Directories]] /\ dir'[c][d] = y
        /\ \A e \in Dirs : e # d => dir'[c][e] = dir[c][e]
        /\ \A e \in Callers : e # c => dir'[e] = dir[e]
    <3>1. CASE dir' = dir /\ y = x
      BY <1>2, <3>1 DEF Shapes
    <3>2. CASE Put(c, d, y)
      BY <1>2, <2>1, <3>2, PutDirectory DEF Shapes
    <3> QED
      BY <1>8, <3>1, <3>2
  <2>3. /\ errors' \in [Callers -> SUBSET FailureKinds]
        /\ \A e \in Callers : e # c => errors'[e] = errors[e]
        /\ errors[c] \subseteq errors'[c]
        /\ Blame(c, k) => k \in errors'[c]
    <3>1. CASE UNCHANGED errors /\ ~Blame(c, k)
      BY <1>2, <3>1 DEF Shapes
    <3>2. CASE Blame(c, k)
      BY <1>2, <3>2 DEF Shapes, Blame
    <3> QED
      BY <1>8, <3>1, <3>2
  <2>4. OnlyShocks(c, k) /\ (Sound \/ k \in errors'[c])
    BY <1>8, <2>3, Notices
  <2>5. Shapes'
    BY <1>2, <1>3, <1>5, <2>2, <2>3 DEF Shapes, work
  <2>6. \A e \in Callers : e # c => Keeps(e)
    BY <1>3, <1>5, <2>2, <2>3, <2>4 DEF Keeps, OnlyShocks, work
  <2>7. Remembered(c)'
    <3>1. c \in shocked => failure[c] = "priority" \/ "priority" \in errors[c]
      BY <1>1, <1>2 DEF Whole, Remembered
    <3>2. c \in shocked' => failure'[c] = "priority" \/ "priority" \in errors'[c]
      BY <1>3, <2>3, <2>4, <3>1 DEF OnlyShocks, Sound
    <3>3. returned'[c] = "none"
      BY <1>1, <1>2, <1>3 DEF Whole, Remembered
    <3> QED
      BY <1>4, <1>5, <3>2, <3>3 DEF Remembered
  <2>8. \A e \in Dirs : dir'[c][e].known = dir[c][e].known
    BY <2>1, <2>2
  <2>9. Leased(c)'
    <3>1. CASE d = "inside"
      <4>1. call'[c] = <<"clean", "outside">>
        BY <1>5, <3>1 DEF AfterClean
      <4>2. \A e \in Dirs : dir'[c][e].lease = "open" => dir'[c][e].known
        BY <1>2, <1>8, <2>2, <2>8 DEF Whole, Leased
      <4>3. failure[c] = "none" => \A e \in Dirs : dir[c][e].known
        BY <1>1, <1>2, <3>1 DEF Whole, Leased
      <4>4. dir'[c]["inside"].lease # "open" /\ failure' = failure
        BY <1>3, <1>8, <2>2, <3>1
      <4>5. failure'[c] = "none" => \A e \in Dirs : dir'[c][e].known
        BY <2>8, <4>3, <4>4
      <4> QED
        BY <1>4, <1>5, <4>1, <4>2, <4>4, <4>5 DEF Leased
    <3>2. CASE d = "outside"
      <4>1. call'[c] = <<"release">>
        BY <1>5, <3>2 DEF AfterClean
      <4>2. dir'[c]["inside"].lease # "open" /\ dir'[c]["outside"].lease # "open"
        BY <1>1, <1>2, <1>8, <2>2, <3>2 DEF Whole, Leased, Dirs, InSandbox
      <4> QED
        BY <1>4, <1>5, <4>1, <4>2 DEF Leased, Dirs
    <3> QED
      BY <3>1, <3>2 DEF Dirs
  <2>10. CleanedUp(c)'
    <3>1. returned'[c] = "none"
      BY <1>1, <1>2, <1>3 DEF Whole, Remembered
    <3>2. ASSUME failure'[c] = "none", errors'[c] = {}
          PROVE  Gone(c, d)' /\ (d = "outside" => Gone(c, "inside")')
      <4>1. UNCHANGED errors /\ failure[c] = "none" /\ errors[c] = {}
        BY <1>3, <1>8, <2>3, <3>2
      <4>2. x.known /\ (d = "outside" => Gone(c, "inside"))
        BY <1>1, <1>2, <4>1 DEF Whole, Leased, CleanedUp, Dirs
      <4>3. y = LetGo(Removed(x))
        BY <1>8, <2>3, <3>2, <4>2
      <4>4. y.own = IF host.posix THEN "empty" ELSE "deleted"
        BY <1>2, <4>3, DirectoryChanges DEF Removed
      <4> QED
        BY <1>3, <2>2, <4>2, <4>4 DEF Gone, Dirs
    <3> QED
      BY <1>5, <3>1, <3>2 DEF CleanedUp, AfterClean, Dirs, Outcomes
  <2> QED
    BY <1>3, <1>6, <1>7, <2>5, <2>6, <2>7, <2>9, <2>10, Stepped DEF Whole
<1>9. "plain" \in FailureKinds
  BY DEF FailureKinds
<1>10. CASE ~x.known /\ Sound /\ UNCHANGED <<dir, errors>>
  <2>1. x.lease # "open"
    BY <1>2, <1>10 DEF Whole, Leased
  <2> QED
    BY <1>8, <1>9, <1>10, <2>1
<1>11. CASE x.known /\ Sound /\ Put(c, d, LetGo(Removed(x))) /\ UNCHANGED errors
  <2>1. /\ LetGo(Removed(x)) \in {LetGo(Emptied(x)), LetGo(Deleted(x))}
        /\ LetGo(Removed(x)).lease # "open"
    BY <1>2, DirectoryChanges DEF Removed
  <2> QED
    BY <1>8, <1>9, <1>11, <2>1
<1>12. ASSUME NEW k \in FailureKinds, Mishap(c, k) \/ Sound, Blame(c, k),
              Put(c, d, LetGo(x)) \/ Put(c, d, LetGo(Emptied(x)))
       PROVE  SandboxInv'
  <2>1. LetGo(x).lease # "open" /\ LetGo(Emptied(x)).lease # "open"
    BY <1>2, DirectoryChanges
  <2> QED
    BY <1>8, <1>12, <2>1
<1> QED
  BY <1>9, <1>10, <1>11, <1>12 DEF CleanDirectory

\* The steps that let go of what is not a directory, whatever fails of it.
LEMMA LettingGo ==
  ASSUME SandboxInv, NEW c \in Callers, NEW k \in FailureKinds,
         \/ UNCHANGED errors /\ Sound
         \/ Mishap(c, k) /\ Blame(c, k),
         \/ /\ call[c] = <<"release">> /\ Advance(c, <<"close">>) /\ UNCHANGED command
            /\ anchors' = [anchors EXCEPT ![c] = FALSE]
         \/ /\ call[c] = <<"close">> /\ Advance(c, <<"conclude">>) /\ UNCHANGED anchors
            /\ command' = [command EXCEPT ![c] = IF @ = "open" THEN "closed" ELSE @],
         UNCHANGED <<host, dir, consumed, listener, work, failure, returned>>
  PROVE  SandboxInv'
<1>1. Shapes /\ Whole(c)
  BY DEF SandboxInv
<1> DEFINE s == IF call[c] = <<"release">> THEN <<"close">> ELSE <<"conclude">>
<1>2. /\ s \in {<<"close">>, <<"conclude">>} /\ s \in Stages /\ Advance(c, s)
      /\ call[c] \in {<<"release">>, <<"close">>} /\ call[c] \in Closing
      /\ s \in Closing
  BY DEF Stages, Closing
<1>3. /\ call' \in [Callers -> Stages] /\ call'[c] = s
      /\ \A e \in Callers : e # c => call'[e] = call[e]
  BY <1>1, <1>2, ToStage DEF Shapes
<1> HIDE DEF s
<1>4. /\ errors' \in [Callers -> SUBSET FailureKinds]
      /\ \A e \in Callers : e # c => errors'[e] = errors[e]
      /\ errors[c] \subseteq errors'[c] /\ (Sound \/ k \in errors'[c])
  <2>1. CASE UNCHANGED errors /\ Sound
    BY <1>1, <2>1 DEF Shapes
  <2>2. CASE Mishap(c, k) /\ Blame(c, k)
    BY <1>1, <2>2 DEF Shapes, Blame
  <2> QED
    BY <2>1, <2>2
<1>5. OnlyShocks(c, k)
  BY Notices
<1>6. /\ anchors' \in [Callers -> BOOLEAN] /\ ~anchors'[c]
      /\ \A e \in Callers : e # c => anchors'[e] = anchors[e]
  <2>1. CASE UNCHANGED anchors /\ call[c] = <<"close">>
    BY <1>1, <2>1 DEF Shapes, Whole, Accounted
  <2>2. CASE anchors' = [anchors EXCEPT ![c] = FALSE]
    BY <1>1, <2>2 DEF Shapes
  <2> QED
    BY <2>1, <2>2
<1>7. /\ command' \in [Callers -> {"none", "open", "closed"}]
      /\ \A e \in Callers : e # c => command'[e] = command[e]
      /\ command'[c] = "open" => s = <<"close">>
      /\ command'[c] = "none" <=> command[c] = "none"
  <2>1. CASE UNCHANGED command /\ call[c] = <<"release">>
    BY <1>1, <2>1 DEF Shapes, s
  <2>2. CASE command' = [command EXCEPT ![c] = IF @ = "open" THEN "closed" ELSE @]
    BY <1>1, <2>2 DEF Shapes
  <2> QED
    BY <2>1, <2>2
<1>8. Shapes'
  BY <1>1, <1>3, <1>4, <1>6, <1>7 DEF Shapes, work
<1>9. \A e \in Callers : e # c => Keeps(e)
  BY <1>3, <1>4, <1>5, <1>6, <1>7 DEF Keeps, OnlyShocks, work
<1>10. InOrder(c)'
  BY <1>1, <1>2, <1>3, StaysInOrder DEF work
<1>11. Remembered(c)'
  <2>1. returned'[c] = "none" /\ s # <<"done">>
    BY <1>1, <1>2 DEF Whole, Remembered
  <2>2. c \in shocked => failure[c] = "priority" \/ "priority" \in errors[c]
    BY <1>1, <1>2 DEF Whole, Remembered
  <2>3. c \in shocked' => failure'[c] = "priority" \/ "priority" \in errors'[c]
    BY <1>4, <1>5, <2>2 DEF OnlyShocks, Sound
  <2> QED
    BY <1>2, <1>3, <2>1, <2>3 DEF Remembered
<1>12. Accounted(c)'
  <2>1. ~listener[c]
    BY <1>1, <1>2 DEF Whole, Accounted
  <2>2. s \notin Opening
    BY <1>2 DEF Opening
  <2> QED
    BY <1>3, <1>6, <1>7, <2>1, <2>2 DEF Accounted
<1>13. Leased(c)'
  <2>1. \A d \in Dirs : dir[c][d].lease # "open"
    BY <1>1, <1>2 DEF Whole, Leased, Dirs, InSandbox
  <2> QED
    BY <1>2, <1>3, <2>1 DEF Leased, InSandbox, Dirs
<1>14. CleanedUp(c)'
  <2>1. returned[c] = "none"
    BY <1>1, <1>2 DEF Whole, Remembered
  <2>2. failure[c] = "none" /\ errors[c] = {} => \A d \in Dirs : Gone(c, d)
    BY <1>1, <1>2 DEF Whole, CleanedUp
  <2> QED
    BY <1>2, <1>3, <1>4, <2>1, <2>2 DEF CleanedUp, Gone, Outcomes
<1>15. (GivenOut /\ SharedServesOnce)'
  BY <1>7 DEF SandboxInv, GivenOut, SharedServesOnce
<1> QED
  BY <1>8, <1>9, <1>10, <1>11, <1>12, <1>13, <1>14, <1>15, Stepped DEF Whole

LEMMA ConcludeStep ==
  ASSUME SandboxInv, NEW c \in Callers, Conclude(c)
  PROVE  SandboxInv'
<1> DEFINE shown == Select(failure[c], errors[c])
<1>1. Shapes /\ Whole(c) /\ call[c] = <<"conclude">> /\ call[c] \in Closing
  BY DEF SandboxInv, Conclude, AtStep, Closing
<1>2. /\ UNCHANGED <<host, dir, anchors, command, consumed, listener, work, failure, errors>>
      /\ Sound
  BY DEF Conclude, held
<1>3. <<"done">> \in Closing /\ <<"done">> \in Stages
  BY DEF Closing, Stages
<1>4. /\ call' \in [Callers -> Stages] /\ call'[c] = <<"done">>
      /\ \A e \in Callers : e # c => call'[e] = call[e]
  BY <1>1, <1>3, ToStage DEF Shapes, Conclude
<1>5. /\ shown \in {"none"} \cup FailureKinds
      /\ shown = "priority" <=> failure[c] = "priority" \/ "priority" \in errors[c]
      /\ shown = "none" <=> failure[c] = "none" /\ errors[c] = {}
  BY <1>1, Selected DEF Shapes
<1>6. returned' = [returned EXCEPT ![c] = IF shown = "none" THEN answer[c] ELSE shown]
  BY DEF Conclude
<1> HIDE DEF shown
<1>7. /\ returned' \in [Callers -> {"none"} \cup FailureKinds \cup Outcomes]
      /\ returned'[c] = IF shown = "none" THEN answer[c] ELSE shown
      /\ \A e \in Callers : e # c => returned'[e] = returned[e]
  BY <1>1, <1>5, <1>6 DEF Shapes
<1>8. Shapes'
  BY <1>1, <1>2, <1>4, <1>7 DEF Shapes, work
<1>9. \A e \in Callers : e # c => Keeps(e)
  BY <1>2, <1>4, <1>7 DEF Keeps, Sound, work
<1>10. InOrder(c)'
  BY <1>1, <1>2, <1>3, <1>4, StaysInOrder DEF work
<1>11. Remembered(c)'
  <2>1. c \in shocked => shown = "priority"
    BY <1>1, <1>5 DEF Whole, Remembered
  <2> QED
    BY <1>2, <1>3, <1>4, <1>7, <2>1 DEF Remembered, Sound
<1>12. Accounted(c)' /\ Leased(c)'
  BY <1>1, <1>2, <1>4 DEF Whole, Accounted, Leased, Opening, InSandbox, Dirs
<1>13. CleanedUp(c)'
  <2>1. shown \notin Outcomes
    BY <1>5 DEF FailureKinds, Outcomes
  <2>2. shown = "none" => \A d \in Dirs : Gone(c, d)
    BY <1>1, <1>5 DEF Whole, CleanedUp
  <2> QED
    BY <1>2, <1>4, <1>7, <2>1, <2>2 DEF CleanedUp, Gone
<1> QED
  BY <1>2, <1>8, <1>9, <1>10, <1>11, <1>12, <1>13, Stepped DEF Whole

-----------------------------------------------------------------------------
(* Sandbox: every step, and the theorems *)

LEMMA SandboxStep == SandboxInv /\ [SandboxNext]_sandboxVars => SandboxInv'
<1> SUFFICES ASSUME SandboxInv, [SandboxNext]_sandboxVars PROVE SandboxInv'
  OBVIOUS
<1>1. ASSUME NEW c \in Callers, Work(c) PROVE SandboxInv'
  <2>1. CASE Start(c) \/ OpenAnchors(c) \/ TakeCommand(c) \/ WrapArguments(c)
    BY <2>1, StartStep, AnchorsStep, TakeStep, WrapStep
  <2>2. ASSUME NEW d \in Dirs, MakeDirectory(c, d) \/ OpenDirectory(c, d) \/ CleanDirectory(c, d)
        PROVE  SandboxInv'
    BY <2>2, MakeStep, OpenStep, CleanStep
  <2>3. ASSUME NEW n \in Probes \cup {"command"}, BeginChild(c, n) \/ EndChild(c, n)
        PROVE  SandboxInv'
    BY <2>3, BeginStep, EndStep
  <2>7. "plain" \in FailureKinds
    BY DEF FailureKinds
  <2>4. CASE ReleaseAnchors(c)
    <3>1. CASE Sound /\ UNCHANGED errors
      BY <2>4, <2>7, <3>1, LettingGo DEF ReleaseAnchors, AtStep
    <3>2. ASSUME NEW k \in FailureKinds, Mishap(c, k), Blame(c, k)
          PROVE  SandboxInv'
      BY <2>4, <3>2, LettingGo DEF ReleaseAnchors, AtStep
    <3> QED
      BY <2>4, <3>1, <3>2 DEF ReleaseAnchors
  <2>5. CASE CloseCommand(c)
    <3>1. CASE Sound /\ UNCHANGED errors
      BY <2>5, <2>7, <3>1, LettingGo DEF CloseCommand, AtStep
    <3>2. ASSUME NEW k \in FailureKinds, Mishap(c, k), Blame(c, k)
          PROVE  SandboxInv'
      BY <2>5, <3>2, LettingGo DEF CloseCommand, AtStep
    <3> QED
      BY <2>5, <3>1, <3>2 DEF CloseCommand
  <2>6. CASE Conclude(c)
    BY <2>6, ConcludeStep
  <2> QED
    BY <1>1, <2>1, <2>2, <2>3, <2>4, <2>5, <2>6 DEF Work
<1>2. CASE UNCHANGED sandboxVars
  <2>1. Shapes' /\ host' = host /\ UNCHANGED <<command, consumed>>
    BY <1>2 DEF SandboxInv, Shapes, sandboxVars, held, work
  <2>2. \A e \in Callers : Keeps(e)
    BY <1>2 DEF Keeps, sandboxVars, held, work
  <2>3. \A e \in Callers : Whole(e)'
    BY <2>1, <2>2, KeepsWhole DEF SandboxInv
  <2>4. GivenOut' /\ SharedServesOnce'
    BY <2>1 DEF SandboxInv, GivenOut, SharedServesOnce
  <2> QED
    BY <2>1, <2>3, <2>4 DEF SandboxInv
<1> QED
  BY <1>1, <1>2, Elapses, DirectoryMoves DEF SandboxNext

LEMMA SandboxStart == SandboxInit => SandboxInv
<1> SUFFICES ASSUME SandboxInit PROVE SandboxInv
  OBVIOUS
<1>1. Unmade \in Directories /\ Unmade.lease = "none" /\ ~Unmade.known
  BY DEF Unmade, Directories
<1>2. /\ call \in [Callers -> Stages]
      /\ \A c \in Callers : call[c] \in {<<"start">>, <<"done">>}
  <2>1. <<"start">> \in Stages /\ <<"done">> \in Stages
    BY DEF Stages, Opening, Closing
  <2> QED
    BY <2>1 DEF SandboxInit
<1>3. Shapes
  BY <1>1, <1>2 DEF SandboxInit, Shapes
<1>4. ASSUME NEW c \in Callers PROVE Whole(c)
  <2>1. InOrder(c) /\ Remembered(c) /\ Accounted(c)
    BY <1>2 DEF SandboxInit, InOrder, Remembered, Accounted, Opening, Closing
  <2>2. Leased(c) /\ CleanedUp(c)
    BY <1>1, <1>2 DEF SandboxInit, Leased, CleanedUp, InSandbox, Outcomes, Dirs
  <2> QED
    BY <2>1, <2>2 DEF Whole
<1>5. GivenOut /\ SharedServesOnce
  BY DEF SandboxInit, GivenOut, SharedServesOnce
<1> QED
  BY <1>3, <1>4, <1>5 DEF SandboxInv

\* The configured command of SandboxCommandExecutor only runs once a write into
\* the worktree has got through and one beside it, and where that can be tried a
\* connection, has been stopped.
THEOREM CommandsRunProved == SandboxSpec => []ProvenBeforeRun
<1>1. SandboxInv => ProvenBeforeRun
  BY DEF SandboxInv, Whole, InOrder, ProvenBeforeRun
<1> QED
  BY <1>1, SandboxStart, SandboxStep, PTL DEF SandboxSpec

\* Whatever fails of a call, it ends with no handle, socket or command open, with
\* its directories gone if it returns an outcome, with a command that calls share
\* used by one of them, and with a cancellation or the like in its caller's hands.
THEOREM CallsEndClean == SandboxSpec => []EndsClean
<1>1. ASSUME SandboxInv PROVE EndsClean
  <2>1. NothingHeld
    <3>1. ASSUME NEW c \in Callers, call[c] = <<"done">>
          PROVE  /\ ~anchors[c] /\ ~listener[c] /\ command[c] # "open"
                 /\ dir[c]["inside"].lease # "open" /\ dir[c]["outside"].lease # "open"
      <4>1. call[c] \notin InSandbox
        BY <3>1 DEF InSandbox
      <4> QED
        BY <1>1, <3>1, <4>1 DEF SandboxInv, Whole, Accounted, Leased
    <3> QED
      BY <3>1 DEF NothingHeld, Dirs
  <2>2. ResultLeavesNothing
    BY <1>1 DEF SandboxInv, Whole, CleanedUp, Gone, ResultLeavesNothing
  <2>3. PriorityGetsThrough
    BY <1>1 DEF SandboxInv, Whole, Remembered, PriorityGetsThrough
  <2> QED
    BY <1>1, <2>1, <2>2, <2>3 DEF EndsClean, SandboxInv
<1> QED
  BY <1>1, SandboxStart, SandboxStep, PTL DEF SandboxSpec

-----------------------------------------------------------------------------
(* Wizard: the least step that has not passed *)

LEMMA LeastExists ==
  ASSUME NEW S \in SUBSET Nat, S # {}
  PROVE  \E n \in S : \A m \in S : n <= m
<1> DEFINE R == OpToRel(<, Nat)
<1>1. IsWellFoundedOn(R, Nat)
  BY NatLessThanWellFounded
<1>2. \A x, y \in Nat : x < y => <<x, y>> \in R
  BY DEF OpToRel
<1> HIDE DEF R
<1>3. \E x \in S : \A y \in S : ~ (<<y, x>> \in R)
  BY <1>1, WFMin
<1>4. \E x \in S : \A y \in S : ~ (y < x)
  BY <1>2, <1>3, Zenon
<1> QED
  BY <1>4

\* What is stored has the form it is given; a test is a record of this form.
PhasesOfTest == {"none", "building", "built", "probing", "tested"}

TestForm(t) ==
    /\ t = [pc |-> t.pc, of |-> t.of, fields |-> t.fields, secret |-> t.secret,
            built |-> t.built, at |-> t.at, moved |-> t.moved, changed |-> t.changed,
            save |-> t.save]
    /\ t.pc \in PhasesOfTest

Forms ==
    /\ wizard \in Wizards /\ step \in Pages \cup {"review"}
    /\ draft = [s \in Pages |-> draft[s]] /\ secret = [s \in Pages |-> secret[s]]
    /\ proof = [s \in Pages |-> proof[s]]
    /\ result \in [Pages -> {"none", "pending", "passed", "failed"}]
    /\ TestForm(test)

\* A probe runs at a step that has not passed, and unless something was edited
\* since, the draft of that step is what was typed.
Kept(s, v) == IF s = "repositories" THEN v \in draft[s] ELSE draft[s] = v

ProbedInTime ==
    test.pc = "probing" =>
        /\ test.at \in Pages /\ result[test.at] # "passed"
        /\ ~test.changed /\ test.built = "own" /\ test.at = test.of
             => Kept(test.of, test.fields)

\* After the controller was told to forget no test is under way, and what it
\* knows of credentials was imported.
AllForgotten ==
    cleared => /\ test.pc \in {"none", "tested"}
               /\ \A s \in Pages : secret[s] \in {Absent, Imported}

\* The built-in profile is verified while no test runs.
AloneVerified == profile # "none" => test.pc = "none"

\* The inductive invariant.
WizardInv == Forms /\ ResultsHold /\ ProbedInTime /\ AllForgotten /\ AloneVerified

\* The position of a step is where it stands in the order.
LEMMA Positions ==
  ASSUME wizard \in Wizards, NEW s \in Pages
  PROVE  /\ s # "review" => Position(s) \in DOMAIN Order /\ Order[Position(s)] = s
         /\ Position(s) \in Nat
<1>1. Order \in Seq(STRING)
  BY WizardAssumption DEF Order
<1>2. PICK i \in DOMAIN Order : Order[i] = s
  BY DEF Pages
<1>3. CASE s = "review"
  BY <1>1, <1>3 DEF Position
<1>4. CASE s # "review"
  BY <1>1, <1>2, <1>4 DEF Position
<1> QED
  BY <1>3, <1>4

\* The profile comes before what depends on it, so that an import forgets all of it.
LEMMA ProfileFirst ==
  ASSUME wizard \in Wizards, NEW s \in OfWorkflow \ {"profile"}, "profile" \in Pages
  PROVE  Position("profile") < Position(s)
<1>1. s \in Pages /\ s \in {"repositories", "provider", "paths"}
  BY DEF OfWorkflow
<1>2. /\ Position(s) \in DOMAIN Order /\ Order[Position(s)] = s
      /\ Position("profile") \in DOMAIN Order /\ Order[Position("profile")] = "profile"
  BY <1>1, Positions
<1> QED
  BY <1>1, <1>2, WizardAssumption DEF Order

\* The first step that has not passed exists when one has not passed.
FirstIsStep == wizard \in Wizards => ControllerStep \in Pages \cup {"review"}

LEMMA ControllerStepIsStep == FirstIsStep
<1> USE DEF FirstIsStep
<1> SUFFICES ASSUME wizard \in Wizards, ~EveryPassed
             PROVE  ControllerStep \in Pages
  BY DEF ControllerStep
<1> DEFINE Where == {Position(s) : s \in Unfinished}
<1>1. Unfinished # {} /\ Unfinished \subseteq Pages
  BY DEF Unfinished, EveryPassed
<1>2. Where \in SUBSET Nat /\ Where # {}
  BY <1>1, Positions
<1>3. PICK n \in Where : \A m \in Where : n <= m
  BY <1>2, LeastExists
<1>4. PICK s \in Unfinished : n = Position(s)
  BY <1>3
<1>5. \A t \in Unfinished : Position(s) <= Position(t)
  BY <1>3, <1>4
<1> HIDE DEF Where
<1> QED
  BY <1>1, <1>4, <1>5 DEF ControllerStep

LEMMA ControllerStepLater == FirstIsStep'
  BY ControllerStepIsStep, PTL

LEMMA SamePages ==
  ASSUME wizard' = wizard
  PROVE  /\ Pages' = Pages /\ NoTyped' = NoTyped /\ OfWorkflow' = OfWorkflow
         /\ OwnsSecret' = OwnsSecret
  BY DEF Pages, Order, NoTyped, OfWorkflow, OwnsSecret

\* The records a test goes through have its form.
LEMMA TestForms ==
  /\ TestForm(NoTest) /\ NoTest.pc = "none"
  /\ \A t : TestForm(t) =>
       /\ \A x : /\ TestForm([t EXCEPT !.moved = x]) /\ TestForm([t EXCEPT !.changed = x])
                 /\ [t EXCEPT !.changed = x].changed = x
                 /\ [t EXCEPT !.changed = x].pc = t.pc /\ [t EXCEPT !.changed = x].at = t.at
                 /\ [t EXCEPT !.moved = x].pc = t.pc /\ [t EXCEPT !.moved = x].at = t.at
                 /\ [t EXCEPT !.moved = x].of = t.of
                 /\ [t EXCEPT !.moved = x].fields = t.fields
                 /\ [t EXCEPT !.moved = x].built = t.built
                 /\ [t EXCEPT !.moved = x].changed = t.changed
       /\ TestForm([t EXCEPT !.pc = "tested"]) /\ [t EXCEPT !.pc = "tested"].pc = "tested"
  BY DEF TestForm, NoTest, PhasesOfTest

LEMMA TestIsOver ==
  ASSUME WizardInv, TestEnds \/ test' = CutOff \/ test' = NoTest
  PROVE  TestForm(test') /\ test'.pc \in {"none", "tested"}
<1>1. TestForm(test)
  BY DEF WizardInv, Forms
<1>2. /\ TestForm([test EXCEPT !.pc = "tested"]) /\ [test EXCEPT !.pc = "tested"].pc = "tested"
      /\ TestForm(NoTest) /\ NoTest.pc = "none"
  BY <1>1, TestForms
<1>3. test' \in {[test EXCEPT !.pc = "tested"], NoTest}
  BY DEF TestEnds, CutOff
<1> QED
  BY <1>2, <1>3

\* A step that changes neither the draft nor a result, and starts no probe.
LEMMA Quiet ==
  ASSUME WizardInv, wizard' = wizard, UNCHANGED <<drafts, proof>>,
         step' \in Pages \cup {"review"}, TestForm(test'),
         test.pc = "probing" => test'.pc = "probing",
         test'.pc = "probing" =>
             /\ test.pc = "probing" /\ test'.at = test.at /\ test'.of = test.of
             /\ test'.fields = test.fields /\ test'.built = test.built
             /\ test'.changed = test.changed,
         cleared' => cleared /\ test'.pc \in {"none", "tested"},
         profile' # "none" => test'.pc = "none"
  PROVE  WizardInv'
<1>1. Pages' = Pages
  BY SamePages
<1>2. UNCHANGED <<draft, secret, result, reviewed, proof>>
  BY DEF drafts
<1>3. Forms'
  BY <1>1, <1>2 DEF WizardInv, Forms
<1>4. ResultsHold'
  BY <1>1, <1>2 DEF WizardInv, ResultsHold, PassedAsTested, PendingIsRunning, ReviewedIsPassed,
                    EveryPassed, Passed
<1>5. ProbedInTime'
  BY <1>1, <1>2 DEF WizardInv, ProbedInTime, Kept
<1>6. AllForgotten' /\ AloneVerified'
  BY <1>1, <1>2 DEF WizardInv, AllForgotten, AloneVerified
<1> QED
  BY <1>3, <1>4, <1>5, <1>6 DEF WizardInv

LEMMA QuietSteps ==
  ASSUME WizardInv, wizard' = wizard,
         \/ \E s \in Pages, v \in Values : Type(s, v)
         \/ \E s \in Pages, c \in Secrets : TypeSecret(s, c)
         \/ \E s \in Pages \cup {"review"} : TurnTo(s)
         \/ \E save \in BOOLEAN : StartTest(save)
         \/ BuildTransaction \/ TurnDown \/ CancelProfile \/ Mount
         \/ ReviewImports \/ DiscardImport \/ \E v \in Folders : LoadFolder(v)
         \/ RequestProfile \/ \E yes \in BOOLEAN : AnswerProfile(yes)
         \/ ProfileDone
  PROVE  WizardInv'
<1>1. /\ TestForm(test) /\ step \in Pages \cup {"review"} /\ AloneVerified
      /\ cleared => test.pc \in {"none", "tested"}
  BY DEF WizardInv, Forms, AllForgotten
<1>2. CASE \/ \E s \in Pages, v \in Values : Type(s, v)
           \/ \E s \in Pages, c \in Secrets : TypeSecret(s, c)
           \/ ReviewImports \/ DiscardImport \/ \E v \in Folders : LoadFolder(v)
           \/ RequestProfile
  <2>1. UNCHANGED <<step, test, cleared, profile, drafts, proof>>
    BY <1>2 DEF Type, TypeSecret, ReviewImports, DiscardImport, LoadFolder, RequestProfile
  <2> QED
    BY <1>1, <2>1, Quiet DEF AloneVerified
<1>8. CASE \/ \E yes \in BOOLEAN : AnswerProfile(yes)
           \/ CancelProfile \/ ProfileDone
  <2>1. /\ UNCHANGED <<step, test, drafts, proof>> /\ (cleared' => cleared)
        /\ profile' # "none" => profile # "none" \/ test.pc = "none"
    BY <1>8 DEF AnswerProfile, CancelProfile, ProfileDone, screen
  <2> QED
    BY <1>1, <2>1, Quiet DEF AloneVerified
<1>3. CASE \E s \in Pages \cup {"review"} : TurnTo(s)
  <2>1. /\ step' \in Pages \cup {"review"} /\ test' = [test EXCEPT !.moved = test.pc # "none"]
        /\ UNCHANGED <<drafts, proof, profile>> /\ ~cleared' /\ profile = "none"
    BY <1>3 DEF TurnTo, User, Occupied
  <2>3. /\ TestForm(test') /\ test'.pc = test.pc /\ test'.at = test.at /\ test'.of = test.of
        /\ test'.fields = test.fields /\ test'.built = test.built
        /\ test'.changed = test.changed
    BY <1>1, <2>1 DEF TestForm
  <2> QED
    BY <1>1, <2>1, <2>3, Quiet
<1>4. ASSUME NEW save \in BOOLEAN, StartTest(save) PROVE WizardInv'
  <2>1. /\ UNCHANGED <<step, drafts, proof, profile>> /\ ~cleared' /\ profile = "none"
        /\ test.pc = "none" /\ TestForm(test') /\ test'.pc = "building"
    BY <1>4 DEF StartTest, User, Occupied, TestForm, NoTest, PhasesOfTest
  <2> QED
    BY <1>1, <2>1, Quiet
<1>5. CASE BuildTransaction
  <2>1. /\ UNCHANGED <<step, drafts, proof, profile, cleared>> /\ test.pc = "building"
        /\ TestForm(test') /\ test'.pc \in {"none", "tested", "built"}
    BY <1>1, <1>5, TestIsOver DEF BuildTransaction, TestForm, PhasesOfTest
  <2> QED
    BY <1>1, <2>1, Quiet DEF AloneVerified
<1>6. CASE TurnDown
  <2>1. /\ UNCHANGED <<step, drafts, proof, profile, cleared>> /\ test.pc = "built"
        /\ TestForm(test') /\ test'.pc \in {"none", "tested"}
    BY <1>6, TestIsOver DEF TurnDown
  <2> QED
    BY <1>1, <2>1, Quiet DEF AloneVerified
<1>7. CASE Mount
  <2>1. ControllerStep \in Pages \cup {"review"}
    BY ControllerStepIsStep DEF FirstIsStep, WizardInv, Forms
  <2>2. /\ UNCHANGED <<test, drafts, proof, profile>> /\ ~cleared'
        /\ step' \in {step, ControllerStep}
    BY <1>7 DEF Mount
  <2> QED
    BY <1>1, <2>1, <2>2, Quiet DEF AloneVerified
<1> QED
  BY <1>2, <1>3, <1>4, <1>5, <1>6, <1>7, <1>8

\* The controller is told to forget, and the test that ran is cut off.
LEMMA Forgets ==
  ASSUME WizardInv, wizard' = wizard, ForgetOnce, UNCHANGED <<step, proof>>,
         test' = CutOff \/ test' = NoTest, profile' = "none"
  PROVE  /\ WizardInv' /\ \A s \in Pages : secret'[s] \in {Absent, Imported}
         /\ Pages' = Pages
<1>1. Pages' = Pages
  BY SamePages
<1>2. TestForm(test') /\ test'.pc \in {"none", "tested"}
  BY TestIsOver
<1>3. /\ draft' = draft /\ secret' = [s \in Pages |-> secret'[s]]
      /\ \A s \in Pages : secret'[s] \in {Absent, Imported}
      /\ reviewed' => reviewed /\ result' = result
      /\ result' \in [Pages -> {"none", "pending", "passed", "failed"}]
      /\ \A s \in Pages : /\ result'[s] # "pending"
                          /\ result'[s] = "passed" => result[s] = "passed"
  <2>1. CASE cleared
    BY <2>1 DEF ForgetOnce, drafts, WizardInv, Forms, AllForgotten, ResultsHold, PendingIsRunning
  <2>2. CASE ~cleared
    <3>1. \A s \in Pages : Position(s) <= Position(s)
      BY Positions DEF WizardInv, Forms
    <3> QED
      BY <2>2, <3>1 DEF ForgetOnce, Forget, NoTyped, WizardInv, Forms
  <2> QED
    BY <2>1, <2>2
<1>4. Forms'
  BY <1>1, <1>2, <1>3 DEF WizardInv, Forms
<1>5. ResultsHold'
  <2>1. PassedAsTested'
    BY <1>1, <1>3 DEF WizardInv, ResultsHold, PassedAsTested, Passed
  <2>2. PendingIsRunning'
    BY <1>1, <1>3 DEF PendingIsRunning
  <2>3. ReviewedIsPassed'
    BY <1>1, <1>3 DEF WizardInv, ResultsHold, ReviewedIsPassed, EveryPassed, Passed
  <2> QED
    BY <2>1, <2>2, <2>3 DEF ResultsHold
<1>6. ProbedInTime' /\ AllForgotten' /\ AloneVerified'
  BY <1>1, <1>2, <1>3 DEF ProbedInTime, AllForgotten, AloneVerified
<1> QED
  BY <1>1, <1>3, <1>4, <1>5, <1>6 DEF WizardInv

\* Leaving forgets what was typed, in the widgets and in the controller.
LEMMA EscapeForgets ==
  ASSUME WizardInv, wizard' = wizard, Escape
  PROVE  WizardInv' /\ NothingKept'
<1>1. /\ ForgetOnce /\ UNCHANGED <<step, proof>> /\ test' = CutOff /\ profile' = "none"
      /\ typed' = NoTyped
  BY DEF Escape
<1> QED
  BY <1>1, Forgets, SamePages DEF NothingKept

LEMMA DismissForgets ==
  ASSUME WizardInv, wizard' = wizard, Dismiss, test' = CutOff \/ test' = NoTest,
         UNCHANGED proof
  PROVE  WizardInv' /\ NothingKept'
<1>1. ForgetOnce /\ UNCHANGED <<step, proof>> /\ profile' = "none" /\ typed' = NoTyped
  BY DEF Dismiss
<1> QED
  BY <1>1, Forgets, SamePages DEF NothingKept

\* An edit of the draft: what it changes is not passed any more.
LEMMA Edits ==
  ASSUME WizardInv, wizard' = wizard, NEW e, Edited(e),
         draft' = [s \in Pages |-> draft'[s]],
         \A s \in Pages : draft'[s] # draft[s] =>
             s = e \/ Position(s) > Position(e) \/ result[s] # "passed",
         secret' = [s \in Pages |-> secret'[s]],
         \A s \in Pages : secret'[s] \in {Imported, secret[s]},
         Noticed \/ (test' = test /\ test.pc = "none"),
         UNCHANGED <<step, proof, cleared>>,
         profile' # "none" => profile # "none"
  PROVE  WizardInv'
<1>1. Pages' = Pages
  BY SamePages
<1>2. /\ TestForm(test') /\ test'.pc = test.pc /\ test'.at = test.at
      /\ test.pc = "probing" => test'.changed = TRUE
  BY DEF WizardInv, Forms, TestForm, Noticed
<1>3. /\ result' \in [Pages -> {"none", "pending", "passed", "failed"}]
      /\ \A s \in Pages : result'[s] \in {result[s], "none"}
      /\ \A s \in Pages : result'[s] = "passed" => draft'[s] = draft[s]
      /\ ~reviewed'
  BY DEF WizardInv, Forms, Edited, Invalidated
<1>4. Forms'
  BY <1>1, <1>2, <1>3 DEF WizardInv, Forms
<1>5. ResultsHold'
  <2>1. PassedAsTested'
    BY <1>1, <1>3 DEF WizardInv, ResultsHold, PassedAsTested, Passed
  <2>2. PendingIsRunning'
    BY <1>1, <1>2, <1>3 DEF WizardInv, ResultsHold, PendingIsRunning
  <2> QED
    BY <1>3, <2>1, <2>2 DEF ResultsHold, ReviewedIsPassed
<1>6. ProbedInTime'
  BY <1>1, <1>2, <1>3 DEF WizardInv, ProbedInTime
<1>7. AllForgotten' /\ AloneVerified'
  BY <1>1, <1>2 DEF WizardInv, AllForgotten, AloneVerified
<1> QED
  BY <1>4, <1>5, <1>6, <1>7 DEF WizardInv

\* The edits: an import, a folder, the built-in profile.
LEMMA EditSteps ==
  ASSUME WizardInv, wizard' = wizard,
         \/ ImportTemplate \/ \E S \in SUBSET OwnsSecret : ImportSecrets(S)
         \/ AddFolder \/ \E v \in Folders : RemoveFolder(v)
         \/ \E ok \in BOOLEAN : VerifyProfile(ok)
  PROVE  WizardInv'
<1>1. /\ draft = [s \in Pages |-> draft[s]] /\ secret = [s \in Pages |-> secret[s]]
      /\ wizard \in Wizards /\ AloneVerified
  BY DEF WizardInv, Forms
<1>2. CASE ImportTemplate
  <2>1. \A s \in Pages : draft'[s] # draft[s] =>
          s = "profile" \/ Position(s) > Position("profile")
    <3> SUFFICES ASSUME NEW s \in Pages, draft'[s] # draft[s], s # "profile"
                 PROVE  Position(s) > Position("profile")
      OBVIOUS
    <3>1. s \in OfWorkflow \ {"profile"} /\ "profile" \in Pages
      BY <1>2 DEF ImportTemplate
    <3>2. Position("profile") < Position(s)
      BY <1>1, <3>1, ProfileFirst
    <3>3. Position("profile") \in Nat /\ Position(s) \in Nat
      BY <1>1, <3>1, Positions
    <3> QED
      BY <3>2, <3>3
  <2>2. /\ Edited("profile") /\ Noticed /\ UNCHANGED <<step, proof, cleared, profile, secret>>
        /\ draft' = [s \in Pages |-> draft'[s]]
    BY <1>2 DEF ImportTemplate
  <2> QED
    BY <1>1, <2>1, <2>2, Edits
<1>3. ASSUME NEW S \in SUBSET OwnsSecret, ImportSecrets(S) PROVE WizardInv'
  <2>1. PICK e : Edited(e)
    BY <1>3 DEF ImportSecrets
  <2>2. /\ Noticed /\ UNCHANGED <<step, proof, cleared, profile, draft>>
        /\ secret' = [s \in Pages |-> secret'[s]]
        /\ \A s \in Pages : secret'[s] \in {Imported, secret[s]}
    BY <1>3 DEF ImportSecrets
  <2> QED
    BY <1>1, <2>1, <2>2, Edits
<1>4. CASE AddFolder
  <2>1. /\ Edited(step) /\ test' = test /\ test.pc = "none"
        /\ UNCHANGED <<step, proof, cleared, profile, secret>>
    BY <1>4 DEF AddFolder
  <2>2. /\ draft' = [s \in Pages |-> draft'[s]]
        /\ \A s \in Pages : s # step => draft'[s] = draft[s]
    BY <1>1, <1>4 DEF AddFolder, Entered
  <2> QED
    BY <1>1, <2>1, <2>2, Edits
<1>5. ASSUME NEW v \in Folders, RemoveFolder(v) PROVE WizardInv'
  <2>1. /\ Edited(step) /\ Noticed /\ UNCHANGED <<step, proof, cleared, profile, secret>>
    BY <1>5 DEF RemoveFolder
  <2>2. /\ draft' = [s \in Pages |-> draft'[s]]
        /\ \A s \in Pages : s # step => draft'[s] = draft[s]
    BY <1>1, <1>5 DEF RemoveFolder
  <2> QED
    BY <1>1, <2>1, <2>2, Edits
<1>6. CASE VerifyProfile(TRUE)
  <2>1. /\ Edited("profile") /\ test' = test /\ test.pc = "none" /\ profile # "none"
        /\ UNCHANGED <<step, proof, cleared, secret>>
    BY <1>1, <1>6 DEF VerifyProfile, screen, AloneVerified
  <2>2. /\ draft' = [s \in Pages |-> draft'[s]]
        /\ \A s \in Pages : s # "profile" => draft'[s] = draft[s]
    BY <1>1, <1>6 DEF VerifyProfile
  <2> QED
    BY <1>1, <2>1, <2>2, Edits
<1>7. CASE VerifyProfile(FALSE)
  <2>1. /\ UNCHANGED <<step, test, cleared, drafts, proof>> /\ test.pc = "none"
    BY <1>1, <1>7 DEF VerifyProfile, screen, drafts, AloneVerified
  <2>2. /\ TestForm(test) /\ step \in Pages \cup {"review"}
        /\ cleared => test.pc \in {"none", "tested"}
    BY DEF WizardInv, Forms, AllForgotten
  <2> QED
    BY <2>1, <2>2, Quiet
<1> QED
  BY <1>2, <1>3, <1>4, <1>5, <1>6, <1>7

\* A commit edits the draft of the step and starts a probe at a step whose
\* result has just been forgotten.
LEMMA Commits ==
  ASSUME WizardInv, wizard' = wizard, CommitStep
  PROVE  WizardInv'
<1> DEFINE rest == Invalidated(result, IF draft' # draft THEN test.of ELSE step, TRUE)
<1>1. /\ draft = [s \in Pages |-> draft[s]] /\ secret = [s \in Pages |-> secret[s]]
      /\ wizard \in Wizards /\ step \in Pages \cup {"review"} /\ TestForm(test)
      /\ result \in [Pages -> {"none", "pending", "passed", "failed"}]
      /\ test.pc = "built" /\ ~test.changed
  BY DEF WizardInv, Forms, CommitStep, Committable
<1>2. Pages' = Pages
  BY SamePages
<1>3. /\ UNCHANGED <<step, cleared, profile, proof>> /\ ~reviewed' /\ ~cleared
      /\ profile = "none"
  BY <1>1 DEF CommitStep, WizardInv, AllForgotten, AloneVerified
<1>4. draft' = [s \in Pages |-> draft'[s]] /\ secret' = [s \in Pages |-> secret'[s]]
  BY <1>1 DEF CommitStep, Entered
<1>5. \A s \in Pages : rest[s] = "passed" => draft'[s] = draft[s] /\ result[s] = "passed"
  BY <1>1 DEF CommitStep, Entered, Invalidated
<1>6. /\ rest \in [Pages -> {"none", "passed", "failed"}]
  BY <1>1 DEF Invalidated, WizardInv, ResultsHold, PendingIsRunning
<1>7. \/ /\ step \in Pages /\ result' = [rest EXCEPT ![step] = "pending"]
         /\ test' = [test EXCEPT !.pc = "probing", !.at = step]
      \/ result' = rest /\ TestEnds
  BY <1>1 DEF CommitStep, MayProbe
<1> HIDE DEF rest
<1>8. CASE result' = rest /\ TestEnds
  <2>1. TestForm(test') /\ test'.pc \in {"none", "tested"}
    BY <1>8, TestIsOver
  <2>2. Forms'
    BY <1>1, <1>2, <1>3, <1>4, <1>6, <1>8, <2>1 DEF WizardInv, Forms
  <2>3. ResultsHold'
    BY <1>2, <1>3, <1>5, <1>6, <1>8
       DEF WizardInv, ResultsHold, PassedAsTested, Passed, PendingIsRunning, ReviewedIsPassed
  <2> QED
    BY <1>3, <2>1, <2>2, <2>3 DEF WizardInv, ProbedInTime, AllForgotten, AloneVerified
<1>9. CASE /\ step \in Pages /\ result' = [rest EXCEPT ![step] = "pending"]
           /\ test' = [test EXCEPT !.pc = "probing", !.at = step]
  <2>1. /\ TestForm(test') /\ test'.pc = "probing" /\ test'.at = step /\ test'.of = test.of
        /\ test'.fields = test.fields /\ test'.built = test.built
    BY <1>1, <1>9 DEF TestForm, PhasesOfTest
  <2>2. /\ result' \in [Pages -> {"none", "pending", "passed", "failed"}]
        /\ result'[step] = "pending" /\ \A s \in Pages : s # step => result'[s] = rest[s]
    BY <1>6, <1>9
  <2>3. Forms'
    BY <1>1, <1>2, <1>3, <1>4, <2>1, <2>2 DEF WizardInv, Forms
  <2>4. PassedAsTested'
    BY <1>2, <1>3, <1>5, <2>2 DEF WizardInv, ResultsHold, PassedAsTested, Passed
  <2>5. PendingIsRunning'
    BY <1>2, <1>6, <2>1, <2>2 DEF PendingIsRunning
  <2>6. test.built = "own" /\ step = test.of => Kept(test.of, test.fields)'
    BY <1>1, <1>9 DEF CommitStep, Entered, Kept
  <2>7. ProbedInTime'
    BY <1>2, <1>3, <1>9, <2>1, <2>2, <2>6 DEF ProbedInTime, Kept
  <2> QED
    BY <1>3, <2>3, <2>4, <2>5, <2>7
       DEF WizardInv, ResultsHold, ReviewedIsPassed, AllForgotten, AloneVerified
<1> QED
  BY <1>7, <1>8, <1>9

\* The answer to a probe: its step is not pending any more.
LEMMA Answers ==
  ASSUME WizardInv, wizard' = wizard, ProbeChanged \/ ProbePasses \/ ProbeFails
  PROVE  WizardInv'
<1>1. /\ wizard \in Wizards /\ step \in Pages \cup {"review"}
      /\ result \in [Pages -> {"none", "pending", "passed", "failed"}]
      /\ draft = [s \in Pages |-> draft[s]] /\ secret = [s \in Pages |-> secret[s]]
      /\ proof = [s \in Pages |-> proof[s]]
      /\ test.pc = "probing" /\ test.at \in Pages /\ result[test.at] # "passed"
      /\ ~cleared /\ profile = "none"
      /\ \A s \in Pages : s # test.at => result[s] # "pending"
  BY DEF WizardInv, Forms, ProbedInTime, AllForgotten, AloneVerified, ResultsHold,
         PendingIsRunning, ProbeChanged, ProbePasses, ProbeFails
<1>2. Pages' = Pages
  BY SamePages
<1>3. /\ UNCHANGED <<draft, secret, reviewed, cleared, profile>> /\ TestEnds
  BY DEF ProbeChanged, ProbePasses, ProbeFails
<1>4. TestForm(test') /\ test'.pc \in {"none", "tested"}
  BY <1>3, TestIsOver
<1>5. ~reviewed
  BY <1>1 DEF WizardInv, ResultsHold, ReviewedIsPassed, EveryPassed, Passed
<1>6. /\ result' \in [Pages -> {"none", "passed", "failed"}]
      /\ \A s \in Pages : result'[s] = "passed" => result[s] = "passed" \/ ProbePasses
  BY <1>1 DEF ProbeChanged, ProbePasses, ProbeFails, Invalidated
<1>7. step' \in Pages \cup {"review"}
  <2>1. ControllerStep' \in Pages \cup {"review"}
    BY <1>1, <1>2, ControllerStepLater DEF FirstIsStep
  <2> QED
    BY <1>1, <2>1 DEF ProbeChanged, ProbePasses, ProbeFails
<1>8. proof' = [s \in Pages |-> proof'[s]]
  BY <1>1 DEF ProbeChanged, ProbePasses, ProbeFails
<1>9. Forms'
  BY <1>1, <1>2, <1>3, <1>4, <1>6, <1>7, <1>8 DEF Forms
<1>10. PassedAsTested'
  <2>1. CASE ProbePasses
    <3>1. /\ result' = [result EXCEPT ![test.at] = "passed"]
          /\ proof' = [proof EXCEPT ![test.at] = [fields |-> LookedAt, built |-> test.built]]
          /\ ~test.changed /\ test.at \in {test.of, "profile"}
      BY <2>1 DEF ProbePasses, Understood
    <3>2. test.built = "own" => Kept(test.at, LookedAt)
      BY <1>1, <3>1 DEF WizardInv, ProbedInTime, Kept, LookedAt
    <3>3. /\ proof'[test.at].fields = LookedAt /\ proof'[test.at].built = test.built
          /\ \A s \in Pages : s # test.at => proof'[s] = proof[s] /\ result'[s] = result[s]
      BY <1>1, <3>1
    <3> QED
      BY <1>2, <1>3, <3>2, <3>3 DEF WizardInv, ResultsHold, PassedAsTested, Passed, Kept
  <2>2. CASE ~ProbePasses
    <3>1. proof' = proof
      BY <2>2 DEF ProbeChanged, ProbeFails
    <3> QED
      BY <1>2, <1>3, <1>6, <2>2, <3>1 DEF WizardInv, ResultsHold, PassedAsTested, Passed
  <2> QED
    BY <2>1, <2>2
<1>11. PendingIsRunning' /\ ReviewedIsPassed'
  BY <1>2, <1>3, <1>5, <1>6 DEF PendingIsRunning, ReviewedIsPassed
<1> QED
  BY <1>1, <1>3, <1>4, <1>9, <1>10, <1>11
     DEF WizardInv, ResultsHold, ProbedInTime, AllForgotten, AloneVerified

\* A review is confirmed when every step has passed.
LEMMA Confirms ==
  ASSUME WizardInv, wizard' = wizard, EveryPassed, reviewed' = TRUE,
         UNCHANGED <<screen, profile, draft, secret, result, proof>>,
         test' = test \/ (test' = NoTest /\ test.pc = "tested")
  PROVE  WizardInv'
<1>1. Pages' = Pages /\ UNCHANGED <<step, cleared>>
  BY SamePages DEF screen
<1>2. TestForm(test') /\ test'.pc \in {test.pc, "none"}
  BY TestForms DEF WizardInv, Forms
<1>3. Forms'
  BY <1>1, <1>2 DEF WizardInv, Forms
<1>4. PassedAsTested' /\ ReviewedIsPassed'
  BY <1>1 DEF WizardInv, ResultsHold, PassedAsTested, ReviewedIsPassed, EveryPassed, Passed
<1>5. PendingIsRunning' /\ ProbedInTime'
  BY <1>1, <1>2 DEF PendingIsRunning, EveryPassed, Passed, WizardInv, ProbedInTime, Kept
<1> QED
  BY <1>1, <1>2, <1>3, <1>4, <1>5 DEF WizardInv, ResultsHold, AllForgotten, AloneVerified

\* Saving a single step dismisses the wizard, or leaves the review confirmed.
LEMMA Saves ==
  ASSUME WizardInv, wizard' = wizard, NEW done \in BOOLEAN, SaveOneStep(done)
  PROVE  WizardInv' /\ (mounted /\ ~mounted' => NothingKept')
<1>1. /\ test.pc = "tested" /\ test' = NoTest /\ UNCHANGED proof
      /\ (SavedOne(done) \/ UNCHANGED <<screen, profile, drafts>>)
  BY DEF SaveOneStep
<1>2. CASE UNCHANGED <<screen, profile, drafts>>
  <2>1. UNCHANGED <<step, cleared, mounted>>
    BY <1>2 DEF screen
  <2>2. TestForm(NoTest) /\ NoTest.pc = "none" /\ step \in Pages \cup {"review"}
    BY TestForms DEF WizardInv, Forms
  <2> QED
    BY <1>1, <1>2, <2>1, <2>2, Quiet
<1>3. CASE SavedOne(TRUE)
  <2>1. Dismiss
    BY <1>3 DEF SavedOne
  <2> QED
    BY <1>1, <2>1, DismissForgets
<1>4. CASE SavedOne(FALSE)
  <2>1. /\ EveryPassed /\ reviewed' = TRUE /\ mounted' = mounted
        /\ UNCHANGED <<screen, profile, draft, secret, result>>
    BY <1>4 DEF SavedOne, Ready, MaySave, screen
  <2> QED
    BY <1>1, <2>1, Confirms
<1> QED
  BY <1>1, <1>2, <1>3, <1>4

\* A step preserves the invariant, and nothing is kept after a step away.
LEMMA WizardStep ==
  ASSUME WizardInv, [WizardNext]_wizardVars
  PROVE  WizardInv' /\ (Away => NothingKept')
<1>1. CASE UNCHANGED wizardVars
  <2>1. /\ UNCHANGED <<wizard, step, test, profile, cleared, mounted, typed, secret, drafts,
                       proof>>
    BY <1>1 DEF wizardVars, screen, drafts
  <2>2. WizardInv'
    BY <2>1, Quiet DEF WizardInv, Forms, AllForgotten, AloneVerified
  <2>3. Escape => NothingKept'
    BY <2>1, EscapeForgets
  <2> QED
    BY <2>1, <2>2, <2>3 DEF Away
<1>2. CASE UNCHANGED wizard /\ Act
  <2>1. Escape => NothingKept'
    BY <1>2, EscapeForgets
  <2>2. CASE Escape
    BY <1>2, <2>2, EscapeForgets DEF Away
  <2>3. CASE Unmount \/ ActivateDraft
    <3>1. Dismiss /\ test' = CutOff /\ UNCHANGED proof
      BY <2>3 DEF Unmount, ActivateDraft
    <3> QED
      BY <1>2, <3>1, DismissForgets
  <2>4. ASSUME NEW done \in BOOLEAN, SaveOneStep(done) PROVE WizardInv' /\ (Away => NothingKept')
    BY <1>2, <2>1, <2>4, Saves DEF Away
  <2>5. CASE Confirm
    <3>1. /\ EveryPassed /\ reviewed' = TRUE /\ test' = test
          /\ UNCHANGED <<screen, profile, draft, secret, result, proof, mounted>>
      BY <2>5 DEF Confirm, screen
    <3> QED
      BY <1>2, <2>1, <3>1, Confirms DEF Away
  <2>6. CASE ProbeChanged \/ ProbePasses \/ ProbeFails
    <3>1. mounted' = mounted
      BY <2>6 DEF ProbeChanged, ProbePasses, ProbeFails
    <3> QED
      BY <1>2, <2>1, <2>6, <3>1, Answers DEF Away
  <2>7. CASE CommitStep
    <3>1. mounted' = mounted
      BY <2>7 DEF CommitStep
    <3> QED
      BY <1>2, <2>1, <2>7, <3>1, Commits DEF Away
  <2>8. CASE \/ ImportTemplate \/ \E S \in SUBSET OwnsSecret : ImportSecrets(S)
             \/ AddFolder \/ \E v \in Folders : RemoveFolder(v)
             \/ \E ok \in BOOLEAN : VerifyProfile(ok)
    <3>1. mounted' = mounted
      BY <2>8 DEF ImportTemplate, ImportSecrets, AddFolder, RemoveFolder, VerifyProfile, screen
    <3> QED
      BY <1>2, <2>1, <2>8, <3>1, EditSteps DEF Away
  <2>9. CASE \/ \E s \in Pages, v \in Values : Type(s, v)
             \/ \E s \in Pages, c \in Secrets : TypeSecret(s, c)
             \/ \E s \in Pages \cup {"review"} : TurnTo(s)
             \/ \E save \in BOOLEAN : StartTest(save)
             \/ BuildTransaction \/ TurnDown \/ CancelProfile \/ Mount
             \/ ReviewImports \/ DiscardImport \/ \E v \in Folders : LoadFolder(v)
             \/ RequestProfile \/ \E yes \in BOOLEAN : AnswerProfile(yes)
             \/ ProfileDone
    <3>1. mounted => mounted'
      BY <2>9 DEF Type, TypeSecret, TurnTo, StartTest, BuildTransaction, TurnDown, CancelProfile,
                  Mount, ReviewImports, DiscardImport, LoadFolder, RequestProfile, AnswerProfile,
                  ProfileDone, screen
    <3> QED
      BY <1>2, <2>1, <2>9, <3>1, QuietSteps DEF Away
  <2> QED
    BY <1>2, <2>2, <2>3, <2>4, <2>5, <2>6, <2>7, <2>8, <2>9 DEF Act
<1> QED
  BY <1>1, <1>2 DEF WizardNext

LEMMA WizardStart == WizardInit => WizardInv
<1> SUFFICES ASSUME WizardInit PROVE WizardInv
  OBVIOUS
<1>1. step \in Pages
  <2>1. Order \in Seq(STRING) /\ Order # <<>>
    BY WizardAssumption DEF WizardInit, Order
  <2>2. 1 \in DOMAIN Order
    BY <2>1
  <2> QED
    BY <2>2 DEF WizardInit, Pages
<1>2. Forms
  BY <1>1, TestForms DEF WizardInit, Forms, NoTyped
<1>3. ResultsHold
  BY DEF WizardInit, ResultsHold, PassedAsTested, PendingIsRunning, ReviewedIsPassed, Passed
<1>4. ProbedInTime /\ AllForgotten /\ AloneVerified
  BY TestForms DEF WizardInit, ProbedInTime, AllForgotten, AloneVerified
<1> QED
  BY <1>2, <1>3, <1>4 DEF WizardInv

(* A step that has passed was tested with the fields that are in the draft,  *)
(* a result that is pending belongs to the probe that runs, and a review is  *)
(* confirmed only when every step has passed: whatever is edited, imported   *)
(* or cancelled while a probe runs (setup_controller.py, test_step).         *)
THEOREM ResultsAreTrue == WizardSpec => []ResultsHold
<1>1. WizardInv => ResultsHold
  BY DEF WizardInv
<1>2. WizardInv /\ [WizardNext]_wizardVars => WizardInv'
  BY WizardStep
<1> QED
  BY <1>1, <1>2, WizardStart, PTL DEF WizardSpec

(* When the person leaves the wizard or cancels, no widget and no step of    *)
(* the controller keeps a credential that was typed, whatever test is cut    *)
(* off then (_clear_controller_transients_once).                             *)
THEOREM NothingTypedIsKept == WizardSpec => TypedIsForgotten
<1>1. WizardInv /\ [WizardNext]_wizardVars => WizardInv' /\ [~NothingKept' => ~Away]_wizardVars
  BY WizardStep
<1> QED
  BY <1>1, WizardStart, PTL DEF WizardSpec, TypedIsForgotten
-----------------------------------------------------------------------------
(* RuntimeCache: what is known of leases, of a publication and of repair *)

\* Before its lease, with its lease locked by itself, and with its staging
\* directory done with.
Early   == {"start", "sweep", "young", "old", "swept", "purge", "probe", "lease"}
Locking == {"copy", "mark", "look", "place", "validate", "replacing", "close"}
Later   == {"dropStage", "withdraw", "withdrawing", "companion", "acquire", "prepared", "over"}
Staging == {"mark", "look", "place", "validate", "replacing"}
Placing == {"close", "unlink", "revalidate"}
Sweeping == {"young", "old", "swept"}

\* Whoever has locked a lease is its owner or looks at it in a sweep.
LeaseKept(p) ==
    /\ todo[p] \in Early => ~lease[p] /\ ~stage[p] /\ holder[p] = Nobody
    /\ todo[p] = "lock" => holder[p] # p
    /\ todo[p] \in Locking => lease[p] /\ holder[p] = p
    /\ todo[p] \in Staging => stage[p]
    /\ todo[p] \in Placing => ~stage[p]
    /\ stage[p] => todo[p] \in Later \/ (lease[p] /\ holder[p] = p)
    /\ todo[p] \in Sweeping => busy[p] \in Preparers \ {p} /\ holder[busy[p]] = p
    /\ holder[p] \notin {p, Nobody} => todo[holder[p]] \in Sweeping /\ busy[holder[p]] = p
    /\ aged[p] => lease[p]
    /\ \A q \in listed[p].stages : todo[q] \in Later

LeasesKept == \A p \in Preparers : LeaseKept(p)

\* What a preparation has noted of its publication goes with its step.
FlagsKept(p) ==
    /\ todo[p] \in Early \cup Ended \cup {"lock", "copy"} \cup Staging => flags[p] = Unstaged
    /\ todo[p] \in Placing \cup {"probeMarker", "clear"} => ~flags[p].failing
    /\ todo[p] \in Placing \cup {"probeMarker"} => ~flags[p].clearing
    /\ todo[p] = "clear" => flags[p].clearing

\* As long as nothing fails, what was placed stays, and the marker of a version
\* that is not proven is there.
Untouched(p) ==
    /\ todo[p] \notin {"purge", "replacing", "withdraw", "withdrawing"}
    /\ todo[p] \in {"old", "swept"} => aged[busy[p]]
    /\ aged[p] => todo[p] \in Ended
    /\ todo[p] = "validate" => Valid(want[p])
    /\ todo[p] \in Placing => Valid(want[p])
    /\ todo[p] = "unlink" => lease[p]
    /\ todo[p] \in {"probeMarker", "clear"} => proven[want[p]]
    /\ flags[p].placed /\ flags[p].failing => flags[p].clearing
    /\ todo[p] \in (Staging \ {"mark"}) \cup Placing => marker[want[p]] \/ proven[want[p]]

Offered ==
    \A v \in Versions : /\ final[v] \in {"none", "whole", "hosted"}
                        /\ proven[v] => Valid(v)
                        /\ Valid(v) /\ ~marker[v] => proven[v]

Orderly == Offered /\ \A p \in Preparers : Untouched(p)

Unmarked == failures = 0 => Orderly

\* A preparation that nothing disturbs, step by step.
Scanned == {"probe", "lease", "lock", "copy", "mark", "failing", "remark", "probeMarker", "clear"}
           \cup Staging \cup Placing
MarkedHere == (Staging \ {"mark"}) \cup Placing \cup {"probeMarker", "clear", "failing", "remark"}

Undisturbed(p) ==
    /\ todo[p] \notin Ended \cup {"withdraw", "withdrawing"}
    /\ todo[p] \in {"old", "swept"} => lease[busy[p]]
    /\ todo[p] = "lock" => lease[p] /\ holder[p] = Nobody
    /\ todo[p] \in Scanned => \A v \in Versions : solo[v] > 0 => v \in noted[p].marked
    /\ todo[p] \in (Scanned \ {"probe"}) \cup {"dropLease", "dropStage"} =>
          \A v \in noted[p].valid : v # want[p] /\ Valid(v)
    /\ todo[p] \in MarkedHere => marker[want[p]]
    /\ todo[p] = "place" => final[want[p]] = "none"
    /\ todo[p] = "replacing" => ~Valid(want[p])
    /\ todo[p] = "unlink" => lease[p]
    /\ todo[p] \in Placing \cup {"probeMarker", "clear", "companion", "acquire"} => Valid(want[p])
    /\ todo[p] \in {"failing", "remark", "dropLease", "dropStage"} =>
          \/ todo[p] \in {"dropLease", "dropStage"} /\ ~flags[p].failing /\ Valid(want[p])
          \/ /\ flags[p].failing /\ ~flags[p].placed
             /\ marker[want[p]] /\ solo[want[p]] = 0

\* Then it has cleared the marker of its version, and will succeed.
Succeeds(p) ==
    \/ todo[p] \in {"companion", "acquire"}
    \/ todo[p] \in {"dropLease", "dropStage"} /\ ~flags[p].failing

NobodyDisturbs == \A p \in Preparers : todo[p] \in Ended \/ alone[p]

Repaired ==
    /\ \A p \in Preparers : alone[p] => Active = {p} /\ Undisturbed(p)
    /\ \A v \in Versions : solo[v] <= 1
    /\ NobodyDisturbs => \A v \in Versions : solo[v] = 1 =>
          marker[v] \/ \E p \in Preparers : alone[p] /\ want[p] = v /\ Succeeds(p)

-----------------------------------------------------------------------------
(* RuntimeCache: types *)

FlagForm == [placed : BOOLEAN, clearing : BOOLEAN, failing : BOOLEAN]
ListForm == [leases : SUBSET Preparers, stages : SUBSET Preparers,
             finals : SUBSET Versions, partial : SUBSET Versions]
NoteForm == [marked : SUBSET Versions, valid : SUBSET Versions]

\* What a preparer itself keeps.
LocalForms ==
    /\ todo \in [Preparers -> PreparerSteps]
    /\ listed \in [Preparers -> ListForm] /\ noted \in [Preparers -> NoteForm]
    /\ flags \in [Preparers -> FlagForm]
    /\ busy \in [Preparers -> Preparers \cup {Nobody}]
    /\ want \in [Preparers -> Versions]
    /\ solo \in [Versions -> Nat] /\ alone \in [Preparers -> BOOLEAN]

CacheForms ==
    /\ final \in [Versions -> Finals] /\ marker \in [Versions -> BOOLEAN]
    /\ proven \in [Versions -> BOOLEAN] /\ failures \in Nat

LeaseForms ==
    /\ lease \in [Preparers -> BOOLEAN] /\ aged \in [Preparers -> BOOLEAN]
    /\ holder \in [Preparers -> Preparers \cup {Nobody}]
    /\ stage \in [Preparers -> BOOLEAN]

\* What may become of the records a preparer keeps.
LEMMA FlagForms ==
    ASSUME flags \in [Preparers -> FlagForm], NEW p \in Preparers, NEW b \in BOOLEAN
    PROVE  /\ [flags EXCEPT ![p].failing = b] \in [Preparers -> FlagForm]
           /\ [flags EXCEPT ![p].placed = b] \in [Preparers -> FlagForm]
           /\ [flags EXCEPT ![p].clearing = b] \in [Preparers -> FlagForm]
           /\ [flags EXCEPT ![p] = Unstaged] \in [Preparers -> FlagForm]
BY DEF FlagForm, Unstaged

LEMMA ListForms ==
    ASSUME listed \in [Preparers -> ListForm], NEW p \in Preparers, NEW q,
           NEW P \in SUBSET Versions
    PROVE  /\ [listed EXCEPT ![p].leases = @ \ {q}] \in [Preparers -> ListForm]
           /\ [listed EXCEPT ![p].stages = @ \ {q}] \in [Preparers -> ListForm]
           /\ [listed EXCEPT ![p].finals = @ \ {q}, ![p].partial = P] \in [Preparers -> ListForm]
<1>1. [listed EXCEPT ![p].leases = @ \ {q}] \in [Preparers -> ListForm]
  BY DEF ListForm
<1>2. [listed EXCEPT ![p].stages = @ \ {q}] \in [Preparers -> ListForm]
  BY DEF ListForm
<1>3. [listed EXCEPT ![p].finals = @ \ {q}, ![p].partial = P] \in [Preparers -> ListForm]
  <2> DEFINE rest == [listed EXCEPT ![p].finals = @ \ {q}]
  <2>1. rest \in [Preparers -> ListForm]
    BY DEF ListForm
  <2>2. [rest EXCEPT ![p].partial = P] \in [Preparers -> ListForm]
    <3> HIDE DEF rest
    <3> QED
      BY <2>1 DEF ListForm
  <2>3. [listed EXCEPT ![p].finals = @ \ {q}, ![p].partial = P] = [rest EXCEPT ![p].partial = P]
    OBVIOUS
  <2> QED
    BY <2>2, <2>3
<1> QED
  BY <1>1, <1>2, <1>3

\* The helpers of the actions keep the types.
LEMMA FailingForms ==
    ASSUME LocalForms, NEW p \in Preparers, Failing(p)
    PROVE  flags' \in [Preparers -> FlagForm] /\ todo' \in [Preparers -> PreparerSteps]
<1>1. flags' \in [Preparers -> FlagForm]
  BY FlagForms DEF Failing, LocalForms
<1> QED
  BY <1>1 DEF Failing, LocalForms, Continue, PreparerSteps, Ended

LEMMA FinishesForms ==
    ASSUME LocalForms, NEW p \in Preparers, NEW outcome \in PreparerSteps, NEW quiet \in BOOLEAN,
           Finishes(p, outcome, quiet), UNCHANGED want
    PROVE  LocalForms'
<1> USE DEF Finishes, LocalForms, Continue
<1>1. solo' \in [Versions -> Nat]
  BY DEF Unfailed
<1>2. listed' \in [Preparers -> ListForm]
  BY DEF Unlisted, ListForm
<1>3. noted' \in [Preparers -> NoteForm]
  BY DEF Unseen, NoteForm
<1>4. flags' \in [Preparers -> FlagForm]
  BY FlagForms
<1> QED
  BY <1>1, <1>2, <1>3, <1>4

LEMMA FallBackForms ==
    ASSUME LocalForms, NEW p \in Preparers, NEW quiet \in BOOLEAN, FallBack(p, quiet)
    PROVE  LocalForms'
<1>1. CASE noted[p].valid = {}
  BY <1>1, FinishesForms DEF FallBack, PreparerSteps, Ended
<1>2. CASE noted[p].valid # {}
  <2>1. noted[p].valid \subseteq Versions
    BY DEF LocalForms, NoteForm
  <2>2. want' \in [Preparers -> Versions]
    BY <1>2, <2>1 DEF FallBack, LocalForms
  <2>3. [flags EXCEPT ![p] = Unstaged] \in [Preparers -> FlagForm]
    BY FlagForms DEF LocalForms
  <2>4. flags' \in [Preparers -> FlagForm]
    BY <1>2, <2>3 DEF FallBack
  <2> QED
    BY <1>2, <2>2, <2>4 DEF FallBack, LocalForms, Continue, PreparerSteps, Ended
<1> QED
  BY <1>1, <1>2

\* Every action keeps the types, variable by variable.
LEMMA LocalTypes ==
    ASSUME LocalForms, CacheForms, LeaseForms, [CacheNext]_cacheVars PROVE LocalForms'
<1> USE DEF PreparerSteps, Ended, At, Continue, local, cacheHistory
<1>1. CASE UNCHANGED cacheVars
  BY <1>1 DEF cacheVars, LocalForms
<1>11. ASSUME NEW p \in Preparers, List(p) PROVE LocalForms'
  BY <1>11 DEF LocalForms, List, ListForm
<1>12. ASSUME NEW p \in Preparers, LeaveLease(p) PROVE LocalForms'
  BY <1>12 DEF LocalForms, LeaveLease
<1>13. ASSUME NEW p \in Preparers, SweepStage(p) PROVE LocalForms'
  BY <1>13 DEF LocalForms, SweepStage
<1>14. ASSUME NEW p \in Preparers, SweepLease(p) PROVE LocalForms'
  BY <1>14, FinishesForms DEF LocalForms, SweepLease
<1>15. ASSUME NEW p \in Preparers, Purge(p) PROVE LocalForms'
  BY <1>15 DEF LocalForms, Purge, ListForm
<1>16. ASSUME NEW p \in Preparers, NEW q \in Preparers, LockLease(p, q) PROVE LocalForms'
  <2>1. listed' \in [Preparers -> ListForm]
    BY <1>16, ListForms DEF LocalForms, LockLease
  <2> QED
    BY <1>16, <2>1 DEF LocalForms, LockLease
<1>17. ASSUME NEW p \in Preparers, NEW q \in Preparers, SweepOrphan(p, q) PROVE LocalForms'
  <2>1. listed' \in [Preparers -> ListForm]
    BY <1>17, ListForms DEF LocalForms, SweepOrphan
  <2> QED
    BY <1>17, <2>1 DEF LocalForms, SweepOrphan
<1>18. ASSUME NEW p \in Preparers, NEW v \in Versions, LookAtFinal(p, v) PROVE LocalForms'
  <2> DEFINE leftover == IF final[v] = "partial" THEN {v} ELSE {}
  <2>1. leftover \in SUBSET Versions
    OBVIOUS
  <2>2. listed' = [listed EXCEPT ![p].finals = @ \ {v}, ![p].partial = leftover]
    BY <1>18 DEF LookAtFinal
  <2> HIDE DEF leftover
  <2>3. listed' \in [Preparers -> ListForm]
    BY <2>1, <2>2, ListForms DEF LocalForms
  <2> QED
    BY <1>18, <2>3 DEF LocalForms, LookAtFinal
<1>19. ASSUME NEW p \in Preparers, ScanQuarantines(p) PROVE LocalForms'
  BY <1>19 DEF LocalForms, ScanQuarantines, NoteForm
<1>20. ASSUME NEW p \in Preparers, FindCached(p) PROVE LocalForms'
  BY <1>20 DEF LocalForms, FindCached, NoteForm
<1>21. ASSUME NEW p \in Preparers, Companion(p) PROVE LocalForms'
  BY <1>21, FallBackForms DEF LocalForms, Companion
<1>22. ASSUME NEW p \in Preparers, Acquire(p) PROVE LocalForms'
  BY <1>22, FinishesForms DEF LocalForms, Acquire
<1>23. ASSUME NEW p \in Preparers, CreateLease(p) PROVE LocalForms'
  BY <1>23 DEF LocalForms, CreateLease
<1>24. ASSUME NEW p \in Preparers, LockOwn(p) PROVE LocalForms'
  BY <1>24, FallBackForms DEF LocalForms, LockOwn
<1>25. ASSUME NEW p \in Preparers, Copy(p) PROVE LocalForms'
  BY <1>25 DEF LocalForms, Copy
<1>26. ASSUME NEW p \in Preparers, PublishQuarantine(p) PROVE LocalForms'
  BY <1>26 DEF LocalForms, PublishQuarantine
<1>27. ASSUME NEW p \in Preparers, Look(p) PROVE LocalForms'
  BY <1>27 DEF LocalForms, Look
<1>28. ASSUME NEW p \in Preparers, Place(p) PROVE LocalForms'
  <2>1. [flags EXCEPT ![p].placed = TRUE] \in [Preparers -> FlagForm]
    BY FlagForms DEF LocalForms
  <2> QED
    BY <1>28, <2>1, FailingForms DEF LocalForms, Place
<1>29. ASSUME NEW p \in Preparers, ValidateFound(p) PROVE LocalForms'
  <2>1. flags' \in [Preparers -> FlagForm]
    BY <1>29, FailingForms DEF LocalForms, ValidateFound
  <2> QED
    BY <1>29, <2>1, FailingForms DEF LocalForms, ValidateFound
<1>30. ASSUME NEW p \in Preparers, ReplaceInvalid(p) PROVE LocalForms'
  BY <1>30 DEF LocalForms, ReplaceInvalid, Continue
<1>31. ASSUME NEW p \in Preparers, CloseLease(p) PROVE LocalForms'
  BY <1>31 DEF LocalForms, CloseLease
<1>32. ASSUME NEW p \in Preparers, UnlinkLease(p) PROVE LocalForms'
  BY <1>32, FailingForms DEF LocalForms, UnlinkLease
<1>33. ASSUME NEW p \in Preparers, Revalidate(p) PROVE LocalForms'
  BY <1>33, FailingForms DEF LocalForms, Revalidate
<1>34. ASSUME NEW p \in Preparers, ProbeMarker(p) PROVE LocalForms'
  <2>1. marker[want[p]] \in BOOLEAN
    BY DEF LocalForms, CacheForms
  <2>2. [flags EXCEPT ![p].clearing = marker[want[p]]] \in [Preparers -> FlagForm]
    BY <2>1, FlagForms DEF LocalForms
  <2> QED
    BY <1>34, <2>2 DEF LocalForms, ProbeMarker
<1>35. ASSUME NEW p \in Preparers, ClearMarker(p) PROVE LocalForms'
  BY <1>35, FailingForms DEF LocalForms, ClearMarker
<1>36. ASSUME NEW p \in Preparers, ProbeFailed(p) PROVE LocalForms'
  <2>1. [flags EXCEPT ![p].placed = FALSE] \in [Preparers -> FlagForm]
    BY FlagForms DEF LocalForms
  <2> QED
    BY <1>36, <2>1 DEF LocalForms, ProbeFailed
<1>37. ASSUME NEW p \in Preparers, Remark(p) PROVE LocalForms'
  BY <1>37 DEF LocalForms, Remark
<1>38. ASSUME NEW p \in Preparers, DropLease(p) PROVE LocalForms'
  BY <1>38 DEF LocalForms, DropLease
<1>39. ASSUME NEW p \in Preparers, DropStage(p) PROVE LocalForms'
  BY <1>39, FallBackForms DEF LocalForms, DropStage
<1>40. ASSUME NEW p \in Preparers, Withdraw(p) PROVE LocalForms'
  BY <1>40 DEF LocalForms, Withdraw
<1>41. ASSUME NEW p \in Preparers, Withdrawn(p) PROVE LocalForms'
  BY <1>41, FallBackForms DEF LocalForms, Withdrawn
<1>42. ASSUME NEW p \in Preparers, AccessFails(p) PROVE LocalForms'
  <2>1. CASE FallBack(p, FALSE)
    BY <2>1, FallBackForms
  <2>2. CASE Failing(p) /\ UNCHANGED <<listed, busy, noted, want, solo>>
             /\ alone' = [alone EXCEPT ![p] = FALSE]
    BY <2>2, FailingForms DEF LocalForms
  <2>3. /\ [flags EXCEPT ![p].placed = FALSE] \in [Preparers -> FlagForm]
        /\ [flags EXCEPT ![p].failing = TRUE] \in [Preparers -> FlagForm]
    BY FlagForms DEF LocalForms
  <2>4. CASE /\ \/ flags' = [flags EXCEPT ![p].failing = TRUE]
                \/ flags' = [flags EXCEPT ![p].placed = FALSE]
             /\ Continue(p, "dropLease") /\ UNCHANGED <<listed, busy, noted, want, solo>>
             /\ alone' = [alone EXCEPT ![p] = FALSE]
    BY <2>3, <2>4 DEF LocalForms
  <2> QED
    BY <1>42, <2>1, <2>2, <2>4 DEF AccessFails
<1>43. ASSUME NEW p \in Preparers, PreparerCrashes(p) PROVE LocalForms'
  BY <1>43, FinishesForms DEF LocalForms, PreparerCrashes
<1>44. ASSUME NEW p \in Preparers, Age(p) PROVE LocalForms'
  BY <1>44 DEF LocalForms, Age
<1> QED
  BY <1>1, <1>11, <1>12, <1>13, <1>14, <1>15, <1>16, <1>17, <1>18, <1>19, <1>20, <1>21, <1>22,
     <1>23, <1>24, <1>25, <1>26, <1>27, <1>28, <1>29, <1>30, <1>31, <1>32, <1>33, <1>34, <1>35,
     <1>36, <1>37, <1>38, <1>39, <1>40, <1>41, <1>42, <1>43, <1>44 DEF CacheNext, Sweep, Prepare,
     Stage

LEMMA LeaseTypes ==
    ASSUME LocalForms, LeaseForms, [CacheNext]_cacheVars PROVE LeaseForms'
<1> USE DEF LeaseForms, leases
<1>1. CASE UNCHANGED cacheVars
  BY <1>1 DEF cacheVars
<1>11. ASSUME NEW p \in Preparers, List(p) PROVE LeaseForms'
  BY <1>11 DEF List, LocalForms
<1>12. ASSUME NEW p \in Preparers, LeaveLease(p) PROVE LeaseForms'
  BY <1>12 DEF LeaveLease, LocalForms
<1>13. ASSUME NEW p \in Preparers, SweepStage(p) PROVE LeaseForms'
  BY <1>13 DEF SweepStage, LocalForms
<1>14. ASSUME NEW p \in Preparers, SweepLease(p) PROVE LeaseForms'
  BY <1>14 DEF SweepLease, Unlink, LocalForms
<1>15. ASSUME NEW p \in Preparers, Purge(p) PROVE LeaseForms'
  BY <1>15 DEF Purge, LocalForms
<1>16. ASSUME NEW p \in Preparers, NEW q \in Preparers, LockLease(p, q) PROVE LeaseForms'
  BY <1>16 DEF LockLease, LocalForms
<1>17. ASSUME NEW p \in Preparers, NEW q \in Preparers, SweepOrphan(p, q) PROVE LeaseForms'
  BY <1>17 DEF SweepOrphan, LocalForms
<1>18. ASSUME NEW p \in Preparers, NEW v \in Versions, LookAtFinal(p, v) PROVE LeaseForms'
  BY <1>18 DEF LookAtFinal, LocalForms
<1>19. ASSUME NEW p \in Preparers, ScanQuarantines(p) PROVE LeaseForms'
  BY <1>19 DEF ScanQuarantines, LocalForms
<1>20. ASSUME NEW p \in Preparers, FindCached(p) PROVE LeaseForms'
  BY <1>20 DEF FindCached, LocalForms
<1>21. ASSUME NEW p \in Preparers, Companion(p) PROVE LeaseForms'
  BY <1>21 DEF Companion, LocalForms
<1>22. ASSUME NEW p \in Preparers, Acquire(p) PROVE LeaseForms'
  BY <1>22 DEF Acquire, LocalForms
<1>23. ASSUME NEW p \in Preparers, CreateLease(p) PROVE LeaseForms'
  BY <1>23 DEF CreateLease, LocalForms
<1>24. ASSUME NEW p \in Preparers, LockOwn(p) PROVE LeaseForms'
  BY <1>24 DEF LockOwn, LocalForms
<1>25. ASSUME NEW p \in Preparers, Copy(p) PROVE LeaseForms'
  BY <1>25 DEF Copy, LocalForms
<1>26. ASSUME NEW p \in Preparers, PublishQuarantine(p) PROVE LeaseForms'
  BY <1>26 DEF PublishQuarantine, LocalForms
<1>27. ASSUME NEW p \in Preparers, Look(p) PROVE LeaseForms'
  BY <1>27 DEF Look, LocalForms
<1>28. ASSUME NEW p \in Preparers, Place(p) PROVE LeaseForms'
  BY <1>28 DEF Place, LocalForms
<1>29. ASSUME NEW p \in Preparers, ValidateFound(p) PROVE LeaseForms'
  BY <1>29 DEF ValidateFound, LocalForms
<1>30. ASSUME NEW p \in Preparers, ReplaceInvalid(p) PROVE LeaseForms'
  BY <1>30 DEF ReplaceInvalid, LocalForms
<1>31. ASSUME NEW p \in Preparers, CloseLease(p) PROVE LeaseForms'
  BY <1>31 DEF CloseLease, LocalForms
<1>32. ASSUME NEW p \in Preparers, UnlinkLease(p) PROVE LeaseForms'
  BY <1>32 DEF UnlinkLease, Unlink, LocalForms
<1>33. ASSUME NEW p \in Preparers, Revalidate(p) PROVE LeaseForms'
  BY <1>33 DEF Revalidate, LocalForms
<1>34. ASSUME NEW p \in Preparers, ProbeMarker(p) PROVE LeaseForms'
  BY <1>34 DEF ProbeMarker, LocalForms
<1>35. ASSUME NEW p \in Preparers, ClearMarker(p) PROVE LeaseForms'
  BY <1>35 DEF ClearMarker, LocalForms
<1>36. ASSUME NEW p \in Preparers, ProbeFailed(p) PROVE LeaseForms'
  BY <1>36 DEF ProbeFailed, LocalForms
<1>37. ASSUME NEW p \in Preparers, Remark(p) PROVE LeaseForms'
  BY <1>37 DEF Remark, LocalForms
<1>38. ASSUME NEW p \in Preparers, DropLease(p) PROVE LeaseForms'
  BY <1>38 DEF DropLease, Unlink, LocalForms
<1>39. ASSUME NEW p \in Preparers, DropStage(p) PROVE LeaseForms'
  BY <1>39 DEF DropStage, LocalForms
<1>40. ASSUME NEW p \in Preparers, Withdraw(p) PROVE LeaseForms'
  BY <1>40 DEF Withdraw, LocalForms
<1>41. ASSUME NEW p \in Preparers, Withdrawn(p) PROVE LeaseForms'
  BY <1>41 DEF Withdrawn, LocalForms
<1>42. ASSUME NEW p \in Preparers, AccessFails(p) PROVE LeaseForms'
  BY <1>42 DEF AccessFails, LocalForms
<1>43. ASSUME NEW p \in Preparers, PreparerCrashes(p) PROVE LeaseForms'
  BY <1>43 DEF PreparerCrashes, LocalForms
<1>44. ASSUME NEW p \in Preparers, Age(p) PROVE LeaseForms'
  BY <1>44 DEF Age, LocalForms
<1> QED
  BY <1>1, <1>11, <1>12, <1>13, <1>14, <1>15, <1>16, <1>17, <1>18, <1>19, <1>20, <1>21, <1>22,
     <1>23, <1>24, <1>25, <1>26, <1>27, <1>28, <1>29, <1>30, <1>31, <1>32, <1>33, <1>34, <1>35,
     <1>36, <1>37, <1>38, <1>39, <1>40, <1>41, <1>42, <1>43, <1>44 DEF CacheNext, Sweep, Prepare,
     Stage

LEMMA CacheTypes ==
    ASSUME LocalForms, CacheForms, CacheAssumption, [CacheNext]_cacheVars PROVE CacheForms'
<1> USE DEF CacheForms, cache, Finals, cacheHistory
<1>1. CASE UNCHANGED cacheVars
  BY <1>1 DEF cacheVars
<1>11. ASSUME NEW p \in Preparers, List(p) PROVE CacheForms'
  BY <1>11 DEF List, LocalForms
<1>12. ASSUME NEW p \in Preparers, LeaveLease(p) PROVE CacheForms'
  BY <1>12 DEF LeaveLease, LocalForms, cacheHistory
<1>13. ASSUME NEW p \in Preparers, SweepStage(p) PROVE CacheForms'
  BY <1>13 DEF SweepStage, LocalForms, cacheHistory
<1>14. ASSUME NEW p \in Preparers, SweepLease(p) PROVE CacheForms'
  BY <1>14 DEF SweepLease, LocalForms
<1>15. ASSUME NEW p \in Preparers, Purge(p) PROVE CacheForms'
  BY <1>15 DEF Purge, LocalForms
<1>16. ASSUME NEW p \in Preparers, NEW q \in Preparers, LockLease(p, q) PROVE CacheForms'
  BY <1>16 DEF LockLease, LocalForms, cacheHistory
<1>17. ASSUME NEW p \in Preparers, NEW q \in Preparers, SweepOrphan(p, q) PROVE CacheForms'
  BY <1>17 DEF SweepOrphan, LocalForms, cacheHistory
<1>18. ASSUME NEW p \in Preparers, NEW v \in Versions, LookAtFinal(p, v) PROVE CacheForms'
  BY <1>18 DEF LookAtFinal, LocalForms, cacheHistory
<1>19. ASSUME NEW p \in Preparers, ScanQuarantines(p) PROVE CacheForms'
  BY <1>19 DEF ScanQuarantines, LocalForms, cacheHistory
<1>20. ASSUME NEW p \in Preparers, FindCached(p) PROVE CacheForms'
  BY <1>20 DEF FindCached, LocalForms, cacheHistory
<1>21. ASSUME NEW p \in Preparers, Companion(p) PROVE CacheForms'
  BY <1>21 DEF Companion, LocalForms
<1>22. ASSUME NEW p \in Preparers, Acquire(p) PROVE CacheForms'
  BY <1>22 DEF Acquire, LocalForms
<1>23. ASSUME NEW p \in Preparers, CreateLease(p) PROVE CacheForms'
  BY <1>23 DEF CreateLease, LocalForms, cacheHistory
<1>24. ASSUME NEW p \in Preparers, LockOwn(p) PROVE CacheForms'
  BY <1>24 DEF LockOwn, LocalForms
<1>25. ASSUME NEW p \in Preparers, Copy(p) PROVE CacheForms'
  BY <1>25 DEF Copy, LocalForms, cacheHistory
<1>26. ASSUME NEW p \in Preparers, PublishQuarantine(p) PROVE CacheForms'
  BY <1>26 DEF PublishQuarantine, Marked, LocalForms, cacheHistory
<1>27. ASSUME NEW p \in Preparers, Look(p) PROVE CacheForms'
  BY <1>27 DEF Look, LocalForms, cacheHistory
<1>28. ASSUME NEW p \in Preparers, Place(p) PROVE CacheForms'
  BY <1>28 DEF Place, LocalForms
<1>29. ASSUME NEW p \in Preparers, ValidateFound(p) PROVE CacheForms'
  BY <1>29 DEF ValidateFound, LocalForms
<1>30. ASSUME NEW p \in Preparers, ReplaceInvalid(p) PROVE CacheForms'
  BY <1>30 DEF ReplaceInvalid, LocalForms
<1>31. ASSUME NEW p \in Preparers, CloseLease(p) PROVE CacheForms'
  BY <1>31 DEF CloseLease, LocalForms, cacheHistory
<1>32. ASSUME NEW p \in Preparers, UnlinkLease(p) PROVE CacheForms'
  BY <1>32 DEF UnlinkLease, LocalForms, cacheHistory
<1>33. ASSUME NEW p \in Preparers, Revalidate(p) PROVE CacheForms'
  BY <1>33 DEF Revalidate, LocalForms
<1>34. ASSUME NEW p \in Preparers, ProbeMarker(p) PROVE CacheForms'
  BY <1>34 DEF ProbeMarker, LocalForms, cacheHistory
<1>35. ASSUME NEW p \in Preparers, ClearMarker(p) PROVE CacheForms'
  BY <1>35 DEF ClearMarker, LocalForms, cacheHistory
<1>36. ASSUME NEW p \in Preparers, ProbeFailed(p) PROVE CacheForms'
  BY <1>36 DEF ProbeFailed, LocalForms, cacheHistory
<1>37. ASSUME NEW p \in Preparers, Remark(p) PROVE CacheForms'
  BY <1>37 DEF Remark, Marked, LocalForms, cacheHistory
<1>38. ASSUME NEW p \in Preparers, DropLease(p) PROVE CacheForms'
  BY <1>38 DEF DropLease, LocalForms, cacheHistory
<1>39. ASSUME NEW p \in Preparers, DropStage(p) PROVE CacheForms'
  BY <1>39 DEF DropStage, LocalForms
<1>40. ASSUME NEW p \in Preparers, Withdraw(p) PROVE CacheForms'
  BY <1>40 DEF Withdraw, Remains, LocalForms
<1>41. ASSUME NEW p \in Preparers, Withdrawn(p) PROVE CacheForms'
  BY <1>41 DEF Withdrawn, LocalForms
<1>42. ASSUME NEW p \in Preparers, AccessFails(p) PROVE CacheForms'
  BY <1>42 DEF AccessFails, LocalForms
<1>43. ASSUME NEW p \in Preparers, PreparerCrashes(p) PROVE CacheForms'
  BY <1>43 DEF PreparerCrashes, LocalForms
<1>44. ASSUME NEW p \in Preparers, Age(p) PROVE CacheForms'
  BY <1>44 DEF Age, LocalForms, cacheHistory
<1> QED
  BY <1>1, <1>11, <1>12, <1>13, <1>14, <1>15, <1>16, <1>17, <1>18, <1>19, <1>20, <1>21, <1>22,
     <1>23, <1>24, <1>25, <1>26, <1>27, <1>28, <1>29, <1>30, <1>31, <1>32, <1>33, <1>34, <1>35,
     <1>36, <1>37, <1>38, <1>39, <1>40, <1>41, <1>42, <1>43, <1>44 DEF CacheNext, Sweep, Prepare,
     Stage

-----------------------------------------------------------------------------
(* RuntimeCache: leases and staging directories *)

FlagsFit == \A p \in Preparers : FlagsKept(p)

CacheKept == LocalForms /\ CacheForms /\ LeaseForms /\ LeasesKept /\ FlagsFit

\* One preparation moves on, and every lease stays as it is.
LEMMA MovesLeases ==
    ASSUME CacheKept, NEW p \in Preparers, NEW s, Continue(p, s),
           UNCHANGED <<leases, listed, busy>>,
           todo[p] \notin Sweeping, s \notin Early \cup {"lock"},
           s \in Locking => lease[p] /\ holder[p] = p,
           s \in Staging => stage[p], s \in Placing => ~stage[p],
           stage[p] => s \in Later \/ (lease[p] /\ holder[p] = p),
           todo[p] \in Later => s \in Later
    PROVE  LeasesKept'
BY DEF CacheKept, LocalForms, LeaseForms, LeasesKept, LeaseKept, Early, Locking, Later, Staging,
       Placing, Sweeping, Continue, leases

\* ... to the handler of its failure, to its end, or to another version.
LEMMA FailingLeases ==
    ASSUME CacheKept, NEW p \in Preparers, Failing(p), UNCHANGED <<leases, listed, busy>>,
           todo[p] \notin Early \cup Later
    PROVE  LeasesKept'
<1>1. PICK s \in {"remark", "failing"} : Continue(p, s)
  BY DEF Failing
<1> QED
  BY <1>1, MovesLeases DEF CacheKept, LeasesKept, LeaseKept, Early, Later, Locking, Staging,
                           Placing, Sweeping

LEMMA FinishesLeases ==
    ASSUME CacheKept, NEW p \in Preparers, NEW outcome \in Later, NEW quiet,
           Finishes(p, outcome, quiet),
           UNCHANGED <<lease, holder, aged>>,
           stage' = stage \/ stage' = [stage EXCEPT ![p] = FALSE],
           todo[p] \notin Sweeping
    PROVE  LeasesKept'
BY DEF CacheKept, LocalForms, LeaseForms, LeasesKept, LeaseKept, Early, Locking, Later, Staging,
       Placing, Sweeping, Finishes, Continue, Unlisted, ListForm

LEMMA FallBackLeases ==
    ASSUME CacheKept, NEW p \in Preparers, NEW quiet, FallBack(p, quiet),
           UNCHANGED <<lease, holder, aged>>,
           stage' = stage \/ stage' = [stage EXCEPT ![p] = FALSE],
           todo[p] \notin Sweeping
    PROVE  LeasesKept'
<1>1. CASE noted[p].valid = {}
  BY <1>1, FinishesLeases DEF FallBack, Later
<1>2. CASE noted[p].valid # {}
  <2>1. todo' = [todo EXCEPT ![p] = "acquire"] /\ UNCHANGED <<lease, holder, aged, listed, busy>>
    BY <1>2 DEF FallBack, Continue
  <2>2. \A r \in Preparers : r # p => stage'[r] = stage[r]
    BY DEF CacheKept, LeaseForms
  <2> QED
    BY <2>1, <2>2 DEF CacheKept, LocalForms, LeaseForms, LeasesKept, LeaseKept, Early, Locking,
                      Later, Staging, Placing, Sweeping
<1> QED
  BY <1>1, <1>2

\* Each action keeps leases with those who hold them.
LEMMA LeasesStay ==
    ASSUME CacheKept, CacheAssumption, [CacheNext]_cacheVars PROVE LeasesKept'
<1> USE DEF At, leases, local, CacheAssumption
<1>1. CASE UNCHANGED cacheVars
  BY <1>1 DEF cacheVars, CacheKept, LeasesKept, LeaseKept
<1>11. ASSUME NEW p \in Preparers, List(p) PROVE LeasesKept'
  BY <1>11 DEF List, CacheKept, LocalForms, LeaseForms, LeasesKept, LeaseKept, Early, Locking,
               Later, Staging, Placing, Sweeping, Continue, ListForm, Active, Ended
<1>12. ASSUME NEW p \in Preparers, LeaveLease(p) PROVE LeasesKept'
  BY <1>12 DEF LeaveLease, CacheKept, LocalForms, LeaseForms, LeasesKept, LeaseKept, Early,
               Locking, Later, Staging, Placing, Sweeping, Continue, ListForm
<1>13. ASSUME NEW p \in Preparers, SweepStage(p) PROVE LeasesKept'
  BY <1>13 DEF SweepStage, CacheKept, LocalForms, LeaseForms, LeasesKept, LeaseKept, Early,
               Locking, Later, Staging, Placing, Sweeping, Continue, ListForm
<1>14. ASSUME NEW p \in Preparers, SweepLease(p) PROVE LeasesKept'
  <2>1. LeaseKept(p) /\ busy[p] \in Preparers \ {p} /\ holder[busy[p]] = p
    BY <1>14 DEF SweepLease, CacheKept, LocalForms, LeaseForms, LeasesKept, LeaseKept, Early,
                 Locking, Later, Staging, Placing, Sweeping, Continue
  <2>2. UNCHANGED stage /\ lease' = [lease EXCEPT ![busy[p]] = FALSE]
        /\ aged' = [aged EXCEPT ![busy[p]] = FALSE]
        /\ holder' = [holder EXCEPT ![busy[p]] = Nobody]
    BY <1>14 DEF SweepLease, Unlink
  <2>3. /\ \E s \in {"sweep", "over"} : Continue(p, s)
        /\ UNCHANGED listed \/ listed' = [listed EXCEPT ![p] = Unlisted]
        /\ busy' = [busy EXCEPT ![p] = Nobody]
    BY <1>14 DEF SweepLease, Finishes
  <2> QED
    BY <1>14, <2>1, <2>2, <2>3 DEF SweepLease, CacheKept, LocalForms, LeaseForms, LeasesKept,
                                   LeaseKept, Early, Locking, Later, Staging, Placing, Sweeping,
                                   Continue, Unlisted, ListForm
<1>15. ASSUME NEW p \in Preparers, Purge(p) PROVE LeasesKept'
  BY <1>15 DEF Purge, CacheKept, LocalForms, LeaseForms, LeasesKept, LeaseKept, Early, Locking,
               Later, Staging, Placing, Sweeping, Continue, ListForm
<1>16. ASSUME NEW p \in Preparers, NEW q \in Preparers, LockLease(p, q) PROVE LeasesKept'
  <2>1. \A r \in Preparers : listed'[r].stages = listed[r].stages
    BY <1>16 DEF LockLease, CacheKept, LocalForms, ListForm
  <2>2. CASE Lockable(q)
    <3>1. \E s \in {"young", "old"} : Continue(p, s)
      BY <1>16, <2>2 DEF LockLease
    <3>2. /\ holder' = [holder EXCEPT ![q] = p] /\ busy' = [busy EXCEPT ![p] = q]
          /\ UNCHANGED <<lease, aged, stage>> /\ lease[q] /\ holder[q] = Nobody
          /\ todo[p] = "sweep"
      BY <1>16, <2>2 DEF LockLease, Lockable
    <3>3. q /= p
      BY <3>2 DEF CacheKept, LeasesKept, LeaseKept, Early
    <3> QED
      BY <2>1, <3>1, <3>2, <3>3 DEF CacheKept, LocalForms, LeaseForms, LeasesKept, LeaseKept,
                                    Early, Locking, Later, Staging, Placing, Sweeping, Continue
  <2>3. CASE ~Lockable(q)
    BY <1>16, <2>1, <2>3 DEF LockLease, CacheKept, LocalForms, LeaseForms, LeasesKept, LeaseKept,
                             Early, Locking, Later, Staging, Placing, Sweeping, Continue
  <2> QED
    BY <2>2, <2>3
<1>17. ASSUME NEW p \in Preparers, NEW q \in Preparers, SweepOrphan(p, q) PROVE LeasesKept'
  BY <1>17 DEF SweepOrphan, CacheKept, LocalForms, LeaseForms, LeasesKept, LeaseKept, Early,
               Locking, Later, Staging, Placing, Sweeping, ListForm
<1>18. ASSUME NEW p \in Preparers, NEW v \in Versions, LookAtFinal(p, v) PROVE LeasesKept'
  BY <1>18 DEF LookAtFinal, CacheKept, LocalForms, LeaseForms, LeasesKept, LeaseKept, Early,
               Locking, Later, Staging, Placing, Sweeping, Continue, ListForm
<1>19. ASSUME NEW p \in Preparers, ScanQuarantines(p) PROVE LeasesKept'
  BY <1>19 DEF ScanQuarantines, CacheKept, LocalForms, LeaseForms, LeasesKept, LeaseKept, Early,
               Locking, Later, Staging, Placing, Sweeping, Continue, Unlisted, ListForm
<1>20. ASSUME NEW p \in Preparers, FindCached(p) PROVE LeasesKept'
  BY <1>20 DEF FindCached, CacheKept, LocalForms, LeaseForms, LeasesKept, LeaseKept, Early,
               Locking, Later, Staging, Placing, Sweeping, Continue, ListForm
<1>21. ASSUME NEW p \in Preparers, Companion(p) PROVE LeasesKept'
  <2>1. CASE Valid(want[p])
    <3>1. Continue(p, "acquire") /\ UNCHANGED <<leases, listed, busy>>
      BY <1>21, <2>1 DEF Companion
    <3> QED
      BY <1>21, <2>1, <3>1, MovesLeases DEF Companion, CacheKept, LeasesKept, LeaseKept, Early,
         Locking, Later, Staging, Placing, Sweeping
  <2>2. CASE ~Valid(want[p])
    BY <1>21, <2>2, FallBackLeases DEF Companion, Sweeping
  <2> QED
    BY <2>1, <2>2
<1>22. ASSUME NEW p \in Preparers, Acquire(p) PROVE LeasesKept'
  BY <1>22 DEF Acquire, CacheKept, LocalForms, LeaseForms, LeasesKept, LeaseKept, Early, Locking,
               Later, Staging, Placing, Sweeping, Continue, Finishes, Unlisted, ListForm
<1>23. ASSUME NEW p \in Preparers, CreateLease(p) PROVE LeasesKept'
  BY <1>23 DEF CreateLease, CacheKept, LocalForms, LeaseForms, LeasesKept, LeaseKept, Early,
               Locking, Later, Staging, Placing, Sweeping, Continue, ListForm
<1>24. ASSUME NEW p \in Preparers, LockOwn(p) PROVE LeasesKept'
  <2>1. CASE Lockable(p)
    <3>1. /\ todo' = [todo EXCEPT ![p] = "copy"] /\ holder' = [holder EXCEPT ![p] = p]
          /\ UNCHANGED <<lease, stage, aged, listed, busy>> /\ todo[p] = "lock"
          /\ lease[p] /\ holder[p] = Nobody
      BY <1>24, <2>1 DEF LockOwn, Continue, Lockable
    <3> QED
      BY <3>1 DEF CacheKept, LocalForms, LeaseForms, LeasesKept, LeaseKept, Early, Locking, Later,
                  Staging, Placing, Sweeping
  <2>2. CASE ~Lockable(p)
    BY <1>24, <2>2, FallBackLeases DEF LockOwn, Sweeping
  <2> QED
    BY <2>1, <2>2
<1>25. ASSUME NEW p \in Preparers, Copy(p) PROVE LeasesKept'
  BY <1>25 DEF Copy, CacheKept, LocalForms, LeaseForms, LeasesKept, LeaseKept, Early, Locking,
               Later, Staging, Placing, Sweeping, Continue, ListForm
<1>26. ASSUME NEW p \in Preparers, PublishQuarantine(p) PROVE LeasesKept'
  BY <1>26 DEF PublishQuarantine, CacheKept, LocalForms, LeaseForms, LeasesKept, LeaseKept, Early,
               Locking, Later, Staging, Placing, Sweeping, Continue, ListForm
<1>27. ASSUME NEW p \in Preparers, Look(p) PROVE LeasesKept'
  BY <1>27 DEF Look, CacheKept, LocalForms, LeaseForms, LeasesKept, LeaseKept, Early, Locking,
               Later, Staging, Placing, Sweeping, Continue, ListForm
<1>28. ASSUME NEW p \in Preparers, Place(p) PROVE LeasesKept'
  <2>1. CASE final[want[p]] = "none" /\ stage[p]
    <3>1. /\ todo' = [todo EXCEPT ![p] = "close"] /\ stage' = [stage EXCEPT ![p] = FALSE]
          /\ UNCHANGED <<lease, holder, aged, listed, busy>> /\ todo[p] = "place"
      BY <1>28, <2>1 DEF Place, Continue
    <3> QED
      BY <3>1 DEF CacheKept, LocalForms, LeaseForms, LeasesKept, LeaseKept, Early, Locking, Later,
                  Staging, Placing, Sweeping
  <2>2. CASE ~(final[want[p]] = "none" /\ stage[p])
    <3>1. Failing(p) /\ UNCHANGED <<leases, listed, busy>> /\ todo[p] = "place"
      BY <1>28, <2>2 DEF Place
    <3> QED
      BY <3>1, FailingLeases DEF Early, Later
  <2> QED
    BY <2>1, <2>2
<1>29. ASSUME NEW p \in Preparers, ValidateFound(p) PROVE LeasesKept'
  <2>1. UNCHANGED <<leases, listed, busy>>
    BY <1>29 DEF ValidateFound
  <2>2. CASE Failing(p)
    BY <1>29, <2>1, <2>2, FailingLeases DEF ValidateFound, Early, Later
  <2>3. CASE Continue(p, "probeMarker")
    BY <1>29, <2>1, <2>3, MovesLeases DEF ValidateFound, CacheKept, LeasesKept, LeaseKept, Early,
                                          Locking, Later, Staging, Placing, Sweeping
  <2>4. CASE Continue(p, "replacing")
    BY <1>29, <2>1, <2>4, MovesLeases DEF ValidateFound, CacheKept, LeasesKept, LeaseKept, Early,
                                          Locking, Later, Staging, Placing, Sweeping
  <2> QED
    BY <1>29, <2>2, <2>3, <2>4 DEF ValidateFound
<1>30. ASSUME NEW p \in Preparers, ReplaceInvalid(p) PROVE LeasesKept'
  <2>1. Continue(p, "place") /\ UNCHANGED <<leases, listed, busy>>
    BY <1>30 DEF ReplaceInvalid
  <2> QED
    BY <1>30, <2>1, MovesLeases DEF ReplaceInvalid, CacheKept, LeasesKept, LeaseKept,
       Early, Locking, Later, Staging, Placing, Sweeping
<1>31. ASSUME NEW p \in Preparers, CloseLease(p) PROVE LeasesKept'
  BY <1>31 DEF CloseLease, CacheKept, LocalForms, LeaseForms, LeasesKept, LeaseKept, Early,
               Locking, Later, Staging, Placing, Sweeping, Continue, ListForm
<1>32. ASSUME NEW p \in Preparers, UnlinkLease(p) PROVE LeasesKept'
  <2>1. CASE lease[p]
    <3>1. /\ todo' = [todo EXCEPT ![p] = "revalidate"] /\ lease' = [lease EXCEPT ![p] = FALSE]
          /\ aged' = [aged EXCEPT ![p] = FALSE]
          /\ UNCHANGED <<holder, stage, listed, busy>> /\ todo[p] = "unlink"
      BY <1>32, <2>1 DEF UnlinkLease, Continue, Unlink
    <3> QED
      BY <3>1 DEF CacheKept, LocalForms, LeaseForms, LeasesKept, LeaseKept, Early, Locking, Later,
                  Staging, Placing, Sweeping
  <2>2. CASE ~lease[p]
    <3>1. UNCHANGED leases
      BY <1>32, <2>2 DEF UnlinkLease, Unlink, CacheKept, LeaseForms, LeasesKept, LeaseKept
    <3> QED
      BY <1>32, <2>2, <3>1, FailingLeases DEF UnlinkLease, Early, Later
  <2> QED
    BY <2>1, <2>2
<1>33. ASSUME NEW p \in Preparers, Revalidate(p) PROVE LeasesKept'
  <2>1. CASE Valid(want[p])
    <3>1. Continue(p, "probeMarker") /\ UNCHANGED <<leases, listed, busy>>
      BY <1>33, <2>1 DEF Revalidate
    <3> QED
      BY <1>33, <2>1, <3>1, MovesLeases DEF Revalidate, CacheKept, LeasesKept, LeaseKept, Early,
         Locking, Later, Staging, Placing, Sweeping
  <2>2. CASE ~(Valid(want[p]))
    BY <1>33, <2>2, FailingLeases DEF Revalidate, Early, Later
  <2> QED
    BY <2>1, <2>2
<1>34. ASSUME NEW p \in Preparers, ProbeMarker(p) PROVE LeasesKept'
  BY <1>34 DEF ProbeMarker, CacheKept, LocalForms, LeaseForms, LeasesKept, LeaseKept, Early,
               Locking, Later, Staging, Placing, Sweeping, Continue, ListForm
<1>35. ASSUME NEW p \in Preparers, ClearMarker(p) PROVE LeasesKept'
  <2>1. CASE marker[want[p]]
    <3>1. Continue(p, "dropLease") /\ UNCHANGED <<leases, listed, busy>>
      BY <1>35, <2>1 DEF ClearMarker
    <3> QED
      BY <1>35, <2>1, <3>1, MovesLeases DEF ClearMarker, CacheKept, LeasesKept, LeaseKept, Early,
         Locking, Later, Staging, Placing, Sweeping
  <2>2. CASE ~(marker[want[p]])
    BY <1>35, <2>2, FailingLeases DEF ClearMarker, Early, Later
  <2> QED
    BY <2>1, <2>2
<1>36. ASSUME NEW p \in Preparers, ProbeFailed(p) PROVE LeasesKept'
  <2>1. UNCHANGED <<leases, listed, busy>> /\ \E s \in {"dropLease", "remark"} : Continue(p, s)
    BY <1>36 DEF ProbeFailed
  <2> QED
    BY <1>36, <2>1 DEF ProbeFailed, CacheKept, LocalForms, LeaseForms, LeasesKept, LeaseKept,
                       Early, Locking, Later, Staging, Placing, Sweeping, Continue
<1>37. ASSUME NEW p \in Preparers, Remark(p) PROVE LeasesKept'
  BY <1>37 DEF Remark, CacheKept, LocalForms, LeaseForms, LeasesKept, LeaseKept, Early, Locking,
               Later, Staging, Placing, Sweeping, Continue, ListForm
<1>38. ASSUME NEW p \in Preparers, DropLease(p) PROVE LeasesKept'
  BY <1>38 DEF DropLease, CacheKept, LocalForms, LeaseForms, LeasesKept, LeaseKept, Early,
               Locking, Later, Staging, Placing, Sweeping, Continue, ListForm, Unlink
<1>39. ASSUME NEW p \in Preparers, DropStage(p) PROVE LeasesKept'
  <2>1. CASE FallBack(p, alone[p])
    BY <1>39, <2>1, FallBackLeases DEF DropStage, Sweeping
  <2>2. ASSUME NEW s \in {"withdraw", "companion"}, Continue(p, s), UNCHANGED local
        PROVE LeasesKept'
    <3>1. /\ todo' = [todo EXCEPT ![p] = s] /\ stage' = [stage EXCEPT ![p] = FALSE]
          /\ UNCHANGED <<lease, holder, aged, listed, busy>> /\ todo[p] = "dropStage"
      BY <1>39, <2>2 DEF DropStage, Continue
    <3> QED
      BY <3>1 DEF CacheKept, LocalForms, LeaseForms, LeasesKept, LeaseKept, Early, Locking, Later,
                  Staging, Placing, Sweeping, Continue
  <2> QED
    BY <1>39, <2>1, <2>2 DEF DropStage
<1>40. ASSUME NEW p \in Preparers, Withdraw(p) PROVE LeasesKept'
  BY <1>40 DEF Withdraw, CacheKept, LocalForms, LeaseForms, LeasesKept, LeaseKept, Early, Locking,
               Later, Staging, Placing, Sweeping, Continue, ListForm
<1>41. ASSUME NEW p \in Preparers, Withdrawn(p) PROVE LeasesKept'
  BY <1>41, FallBackLeases DEF Withdrawn, Sweeping
<1>42. ASSUME NEW p \in Preparers, AccessFails(p) PROVE LeasesKept'
  <2>1. CASE todo[p] \in {"companion", "lease"}
    BY <1>42, <2>1, FallBackLeases DEF AccessFails, Sweeping
  <2>2. CASE Failing(p) /\ todo[p] \in {"mark", "look", "place", "validate", "close", "unlink",
                                        "revalidate", "probeMarker", "clear"}
    BY <1>42, <2>2, FailingLeases DEF AccessFails, Early, Later
  <2>3. CASE Continue(p, "dropLease") /\ todo[p] \in {"copy", "remark"}
    <3>1. UNCHANGED <<leases, listed, busy>>
      BY <1>42, <2>3 DEF AccessFails
    <3> QED
      BY <2>3, <3>1, MovesLeases DEF CacheKept, LeasesKept, LeaseKept, Early, Locking, Later,
                                     Staging, Placing, Sweeping
  <2> QED
    BY <1>42, <2>1, <2>2, <2>3 DEF AccessFails
<1>43. ASSUME NEW p \in Preparers, PreparerCrashes(p) PROVE LeasesKept'
  BY <1>43 DEF PreparerCrashes, CacheKept, LocalForms, LeaseForms, LeasesKept, LeaseKept, Early,
               Locking, Later, Staging, Placing, Sweeping, Continue, Finishes, Unlisted, ListForm,
               Active, Ended
<1>44. ASSUME NEW p \in Preparers, Age(p) PROVE LeasesKept'
  BY <1>44 DEF Age, CacheKept, LocalForms, LeaseForms, LeasesKept, LeaseKept, Early, Locking,
               Later, Staging, Placing, Sweeping, ListForm, Active, Ended
<1> QED
  BY <1>1, <1>11, <1>12, <1>13, <1>14, <1>15, <1>16, <1>17, <1>18, <1>19, <1>20, <1>21, <1>22,
     <1>23, <1>24, <1>25, <1>26, <1>27, <1>28, <1>29, <1>30, <1>31, <1>32, <1>33, <1>34, <1>35,
     <1>36, <1>37, <1>38, <1>39, <1>40, <1>41, <1>42, <1>43, <1>44 DEF CacheNext, Sweep, Prepare,
     Stage

\* The same helpers, for what was noted of a publication.
LEMMA FailingFlags ==
    ASSUME CacheKept, NEW p \in Preparers, Failing(p) PROVE FlagsFit'
<1>1. PICK s \in {"remark", "failing"} : Continue(p, s)
  BY DEF Failing
<1> QED
  BY <1>1 DEF CacheKept, LocalForms, FlagForm, FlagsFit, FlagsKept, Early, Ended, Staging,
              Placing, Continue, Failing

LEMMA FinishesFlags ==
    ASSUME CacheKept, NEW p \in Preparers, NEW outcome, NEW quiet, Finishes(p, outcome, quiet),
           outcome \in Ended
    PROVE  FlagsFit'
BY DEF CacheKept, LocalForms, FlagForm, FlagsFit, FlagsKept, Early, Ended, Staging, Placing,
       Continue, Finishes, Unstaged

LEMMA FallBackFlags ==
    ASSUME CacheKept, NEW p \in Preparers, NEW quiet, FallBack(p, quiet) PROVE FlagsFit'
<1>1. CASE noted[p].valid = {}
  BY <1>1, FinishesFlags DEF FallBack, Ended
<1>2. CASE noted[p].valid # {}
  BY <1>2 DEF CacheKept, LocalForms, FlagForm, FlagsFit, FlagsKept, Early, Ended, Staging,
              Placing, Continue, FallBack, Unstaged
<1> QED
  BY <1>1, <1>2

\* Each action keeps what was noted with the step.
LEMMA FlagsStay ==
    ASSUME CacheKept, CacheAssumption, [CacheNext]_cacheVars PROVE FlagsFit'
<1> USE DEF At, local, CacheAssumption
<1>1. CASE UNCHANGED cacheVars
  BY <1>1 DEF cacheVars, CacheKept, FlagsFit, FlagsKept

<1>11. ASSUME NEW p \in Preparers, List(p) PROVE FlagsFit'
  BY <1>11 DEF List, CacheKept, LocalForms, FlagForm, FlagsFit, FlagsKept, Early, Ended, Staging,
               Placing, Unstaged, Continue, Sweeping, LeasesKept, LeaseKept
<1>12. ASSUME NEW p \in Preparers, LeaveLease(p) PROVE FlagsFit'
  BY <1>12 DEF LeaveLease, CacheKept, LocalForms, FlagForm, FlagsFit, FlagsKept, Early, Ended,
               Staging, Placing, Unstaged, Continue, Sweeping, LeasesKept, LeaseKept
<1>13. ASSUME NEW p \in Preparers, SweepStage(p) PROVE FlagsFit'
  BY <1>13 DEF SweepStage, CacheKept, LocalForms, FlagForm, FlagsFit, FlagsKept, Early, Ended,
               Staging, Placing, Unstaged, Continue, Sweeping, LeasesKept, LeaseKept
<1>14. ASSUME NEW p \in Preparers, SweepLease(p) PROVE FlagsFit'
  <2>1. CASE Finishes(p, "over", alone[p])
    BY <2>1, FinishesFlags DEF Ended
  <2>2. CASE Continue(p, "sweep") /\ UNCHANGED flags
    BY <1>14, <2>2 DEF SweepLease, CacheKept, LocalForms, FlagForm, FlagsFit, FlagsKept, Early,
                       Ended, Staging, Placing, Continue
  <2> QED
    BY <1>14, <2>1, <2>2 DEF SweepLease
<1>15. ASSUME NEW p \in Preparers, Purge(p) PROVE FlagsFit'
  BY <1>15 DEF Purge, CacheKept, LocalForms, FlagForm, FlagsFit, FlagsKept, Early, Ended, Staging,
               Placing, Unstaged, Continue, Sweeping, LeasesKept, LeaseKept
<1>16. ASSUME NEW p \in Preparers, NEW q \in Preparers, LockLease(p, q) PROVE FlagsFit'
  BY <1>16 DEF LockLease, CacheKept, LocalForms, FlagForm, FlagsFit, FlagsKept, Early, Ended,
               Staging, Placing, Unstaged, Continue, Sweeping, LeasesKept, LeaseKept
<1>17. ASSUME NEW p \in Preparers, NEW q \in Preparers, SweepOrphan(p, q) PROVE FlagsFit'
  BY <1>17 DEF SweepOrphan, CacheKept, LocalForms, FlagForm, FlagsFit, FlagsKept, Early, Ended,
               Staging, Placing, Unstaged, Sweeping, LeasesKept, LeaseKept
<1>18. ASSUME NEW p \in Preparers, NEW v \in Versions, LookAtFinal(p, v) PROVE FlagsFit'
  BY <1>18 DEF LookAtFinal, CacheKept, LocalForms, FlagForm, FlagsFit, FlagsKept, Early, Ended,
               Staging, Placing, Unstaged, Continue, Sweeping, LeasesKept, LeaseKept
<1>19. ASSUME NEW p \in Preparers, ScanQuarantines(p) PROVE FlagsFit'
  BY <1>19 DEF ScanQuarantines, CacheKept, LocalForms, FlagForm, FlagsFit, FlagsKept, Early,
               Ended, Staging, Placing, Unstaged, Continue, Sweeping, LeasesKept, LeaseKept
<1>20. ASSUME NEW p \in Preparers, FindCached(p) PROVE FlagsFit'
  BY <1>20 DEF FindCached, CacheKept, LocalForms, FlagForm, FlagsFit, FlagsKept, Early, Ended,
               Staging, Placing, Unstaged, Continue, Sweeping, LeasesKept, LeaseKept
<1>21. ASSUME NEW p \in Preparers, Companion(p) PROVE FlagsFit'
  <2>1. CASE FallBack(p, alone[p])
    BY <2>1, FallBackFlags
  <2>2. CASE Continue(p, "acquire") /\ UNCHANGED local
    BY <1>21, <2>2 DEF Companion, CacheKept, LocalForms, FlagForm, FlagsFit, FlagsKept, Early,
                       Ended, Staging, Placing, Continue
  <2> QED
    BY <1>21, <2>1, <2>2 DEF Companion
<1>22. ASSUME NEW p \in Preparers, Acquire(p) PROVE FlagsFit'
  BY <1>22 DEF Acquire, CacheKept, LocalForms, FlagForm, FlagsFit, FlagsKept, Early, Ended,
               Staging, Placing, Unstaged, Continue, Finishes, Sweeping, LeasesKept, LeaseKept
<1>23. ASSUME NEW p \in Preparers, CreateLease(p) PROVE FlagsFit'
  BY <1>23 DEF CreateLease, CacheKept, LocalForms, FlagForm, FlagsFit, FlagsKept, Early, Ended,
               Staging, Placing, Unstaged, Continue, Sweeping, LeasesKept, LeaseKept
<1>24. ASSUME NEW p \in Preparers, LockOwn(p) PROVE FlagsFit'
  <2>1. CASE FallBack(p, alone[p])
    BY <2>1, FallBackFlags
  <2>2. CASE Continue(p, "copy") /\ UNCHANGED local
    BY <1>24, <2>2 DEF LockOwn, CacheKept, LocalForms, FlagForm, FlagsFit, FlagsKept, Early,
                       Ended, Staging, Placing, Continue
  <2> QED
    BY <1>24, <2>1, <2>2 DEF LockOwn
<1>25. ASSUME NEW p \in Preparers, Copy(p) PROVE FlagsFit'
  BY <1>25 DEF Copy, CacheKept, LocalForms, FlagForm, FlagsFit, FlagsKept, Early, Ended, Staging,
               Placing, Unstaged, Continue, Sweeping, LeasesKept, LeaseKept
<1>26. ASSUME NEW p \in Preparers, PublishQuarantine(p) PROVE FlagsFit'
  BY <1>26 DEF PublishQuarantine, CacheKept, LocalForms, FlagForm, FlagsFit, FlagsKept, Early,
               Ended, Staging, Placing, Unstaged, Continue, Sweeping, LeasesKept, LeaseKept
<1>27. ASSUME NEW p \in Preparers, Look(p) PROVE FlagsFit'
  BY <1>27 DEF Look, CacheKept, LocalForms, FlagForm, FlagsFit, FlagsKept, Early, Ended, Staging,
               Placing, Unstaged, Continue, Sweeping, LeasesKept, LeaseKept
<1>28. ASSUME NEW p \in Preparers, Place(p) PROVE FlagsFit'
  <2>1. CASE Failing(p)
    BY <2>1, FailingFlags
  <2>2. CASE Continue(p, "close") /\ flags' = [flags EXCEPT ![p].placed = TRUE]
    BY <1>28, <2>2 DEF Place, Unstaged, CacheKept, LocalForms, FlagForm, FlagsFit, FlagsKept,
                       Early, Ended, Staging, Placing, Continue
  <2> QED
    BY <1>28, <2>1, <2>2 DEF Place
<1>29. ASSUME NEW p \in Preparers, ValidateFound(p) PROVE FlagsFit'
  <2>1. CASE Failing(p)
    BY <2>1, FailingFlags
  <2>2. CASE Continue(p, "probeMarker") /\ UNCHANGED flags
    BY <1>29, <2>2 DEF ValidateFound, Unstaged, CacheKept, LocalForms, FlagForm, FlagsFit,
                       FlagsKept, Early, Ended, Staging, Placing, Continue
  <2>3. CASE Continue(p, "replacing") /\ UNCHANGED flags
    BY <1>29, <2>3 DEF ValidateFound, Unstaged, CacheKept, LocalForms, FlagForm, FlagsFit,
                       FlagsKept, Early, Ended, Staging, Placing, Continue
  <2> QED
    BY <1>29, <2>1, <2>2, <2>3 DEF ValidateFound
<1>30. ASSUME NEW p \in Preparers, ReplaceInvalid(p) PROVE FlagsFit'
  BY <1>30 DEF ReplaceInvalid, Unstaged, CacheKept, LocalForms, FlagForm, FlagsFit, FlagsKept,
               Early, Ended, Staging, Placing, Continue
<1>31. ASSUME NEW p \in Preparers, CloseLease(p) PROVE FlagsFit'
  BY <1>31 DEF CloseLease, CacheKept, LocalForms, FlagForm, FlagsFit, FlagsKept, Early, Ended,
               Staging, Placing, Unstaged, Continue, Sweeping, LeasesKept, LeaseKept
<1>32. ASSUME NEW p \in Preparers, UnlinkLease(p) PROVE FlagsFit'
  <2>1. CASE Failing(p)
    BY <2>1, FailingFlags
  <2>2. CASE Continue(p, "revalidate") /\ UNCHANGED flags
    BY <1>32, <2>2 DEF UnlinkLease, Unstaged, CacheKept, LocalForms, FlagForm, FlagsFit,
                       FlagsKept, Early, Ended, Staging, Placing, Continue
  <2> QED
    BY <1>32, <2>1, <2>2 DEF UnlinkLease
<1>33. ASSUME NEW p \in Preparers, Revalidate(p) PROVE FlagsFit'
  <2>1. CASE Failing(p)
    BY <2>1, FailingFlags
  <2>2. CASE Continue(p, "probeMarker") /\ UNCHANGED flags
    BY <1>33, <2>2 DEF Revalidate, Unstaged, CacheKept, LocalForms, FlagForm, FlagsFit, FlagsKept,
                       Early, Ended, Staging, Placing, Continue
  <2> QED
    BY <1>33, <2>1, <2>2 DEF Revalidate
<1>34. ASSUME NEW p \in Preparers, ProbeMarker(p) PROVE FlagsFit'
  BY <1>34 DEF ProbeMarker, CacheKept, LocalForms, FlagForm, FlagsFit, FlagsKept, Early, Ended,
               Staging, Placing, Unstaged, Continue, Sweeping, LeasesKept, LeaseKept
<1>35. ASSUME NEW p \in Preparers, ClearMarker(p) PROVE FlagsFit'
  <2>1. CASE Failing(p)
    BY <2>1, FailingFlags
  <2>2. CASE Continue(p, "dropLease") /\ UNCHANGED flags
    BY <1>35, <2>2 DEF ClearMarker, Unstaged, CacheKept, LocalForms, FlagForm, FlagsFit,
                       FlagsKept, Early, Ended, Staging, Placing, Continue
  <2> QED
    BY <1>35, <2>1, <2>2 DEF ClearMarker
<1>36. ASSUME NEW p \in Preparers, ProbeFailed(p) PROVE FlagsFit'
  <2>1. CASE Continue(p, "remark") /\ UNCHANGED flags
    BY <1>36, <2>1 DEF ProbeFailed, CacheKept, LocalForms, FlagForm, FlagsFit, FlagsKept, Early,
                       Ended, Staging, Placing, Continue
  <2>2. CASE Continue(p, "dropLease") /\ flags' = [flags EXCEPT ![p].placed = FALSE]
    BY <1>36, <2>2 DEF ProbeFailed, CacheKept, LocalForms, FlagForm, FlagsFit, FlagsKept, Early,
                       Ended, Staging, Placing, Continue
  <2> QED
    BY <1>36, <2>1, <2>2 DEF ProbeFailed
<1>37. ASSUME NEW p \in Preparers, Remark(p) PROVE FlagsFit'
  BY <1>37 DEF Remark, CacheKept, LocalForms, FlagForm, FlagsFit, FlagsKept, Early, Ended,
               Staging, Placing, Unstaged, Continue, Sweeping, LeasesKept, LeaseKept
<1>38. ASSUME NEW p \in Preparers, DropLease(p) PROVE FlagsFit'
  BY <1>38 DEF DropLease, CacheKept, LocalForms, FlagForm, FlagsFit, FlagsKept, Early, Ended,
               Staging, Placing, Unstaged, Continue, Sweeping, LeasesKept, LeaseKept
<1>39. ASSUME NEW p \in Preparers, DropStage(p) PROVE FlagsFit'
  <2>1. CASE FallBack(p, alone[p])
    BY <2>1, FallBackFlags
  <2>2. ASSUME NEW s \in {"withdraw", "companion"}, Continue(p, s), UNCHANGED flags
        PROVE FlagsFit'
    BY <1>39, <2>2 DEF DropStage, CacheKept, LocalForms, FlagForm, FlagsFit, FlagsKept, Early,
                       Ended, Staging, Placing, Continue
  <2> QED
    BY <1>39, <2>1, <2>2 DEF DropStage
<1>40. ASSUME NEW p \in Preparers, Withdraw(p) PROVE FlagsFit'
  BY <1>40 DEF Withdraw, CacheKept, LocalForms, FlagForm, FlagsFit, FlagsKept, Early, Ended,
               Staging, Placing, Unstaged, Continue, Sweeping, LeasesKept, LeaseKept
<1>41. ASSUME NEW p \in Preparers, Withdrawn(p) PROVE FlagsFit'
  BY <1>41, FallBackFlags DEF Withdrawn
<1>42. ASSUME NEW p \in Preparers, AccessFails(p) PROVE FlagsFit'
  <2>1. CASE FallBack(p, FALSE)
    BY <2>1, FallBackFlags
  <2>2. CASE Failing(p)
    BY <2>2, FailingFlags
  <2>3. CASE /\ Continue(p, "dropLease")
             /\ \/ flags' = [flags EXCEPT ![p].failing = TRUE]
                \/ flags' = [flags EXCEPT ![p].placed = FALSE]
    BY <2>3 DEF CacheKept, LocalForms, FlagForm, FlagsFit, FlagsKept, Early, Ended, Staging,
                Placing, Continue
  <2> QED
    BY <1>42, <2>1, <2>2, <2>3 DEF AccessFails
<1>43. ASSUME NEW p \in Preparers, PreparerCrashes(p) PROVE FlagsFit'
  BY <1>43 DEF PreparerCrashes, CacheKept, LocalForms, FlagForm, FlagsFit, FlagsKept, Early,
               Ended, Staging, Placing, Unstaged, Continue, Finishes, Sweeping, LeasesKept,
               LeaseKept
<1>44. ASSUME NEW p \in Preparers, Age(p) PROVE FlagsFit'
  BY <1>44 DEF Age, CacheKept, LocalForms, FlagForm, FlagsFit, FlagsKept, Early, Ended, Staging,
               Placing, Unstaged, Sweeping, LeasesKept, LeaseKept
<1> QED
  BY <1>1, <1>11, <1>12, <1>13, <1>14, <1>15, <1>16, <1>17, <1>18, <1>19, <1>20, <1>21, <1>22,
     <1>23, <1>24, <1>25, <1>26, <1>27, <1>28, <1>29, <1>30, <1>31, <1>32, <1>33, <1>34, <1>35,
     <1>36, <1>37, <1>38, <1>39, <1>40, <1>41, <1>42, <1>43, <1>44 DEF CacheNext, Sweep, Prepare,
     Stage

-----------------------------------------------------------------------------
(* RuntimeCache: markers *)

\* As long as nothing fails, each action keeps what is published in order.
LEMMA UnmarkedStays ==
    ASSUME CacheKept, CacheAssumption, Unmarked, [CacheNext]_cacheVars PROVE Unmarked'
<1> USE DEF At, leases, local, cache, cacheHistory, CacheAssumption
<1>1. CASE UNCHANGED cacheVars
  BY <1>1 DEF cacheVars, Unmarked, Orderly, Offered, Untouched, Valid
<1>2. CacheNext /\ failures' = 0 => failures = 0
  <2> SUFFICES ASSUME NEW p \in Preparers, failures' = 0,
                      \/ Sweep(p) \/ Prepare(p) \/ Stage(p)
                      \/ AccessFails(p) \/ PreparerCrashes(p) \/ Age(p)
               PROVE  failures = 0
    BY DEF CacheNext
  <2>1. failures \in Nat
    BY DEF CacheKept, CacheForms
  <2>2. CASE Sweep(p)
    BY <2>2 DEF Sweep, List, LeaveLease, SweepStage, SweepLease, Purge, LockLease, SweepOrphan,
                LookAtFinal
  <2>3. CASE Prepare(p)
    BY <2>3 DEF Prepare, ScanQuarantines, FindCached, Companion, Acquire
  <2>4. CASE Stage(p)
    BY <2>4 DEF Stage, CreateLease, LockOwn, Copy, PublishQuarantine, Look, Place, ValidateFound,
                ReplaceInvalid, CloseLease, UnlinkLease, Revalidate, ProbeMarker, ClearMarker,
                ProbeFailed, Remark, DropLease, DropStage, Withdraw, Withdrawn
  <2>5. CASE AccessFails(p)
    BY <2>1, <2>5 DEF AccessFails
  <2>6. CASE PreparerCrashes(p)
    BY <2>6 DEF PreparerCrashes
  <2>7. CASE Age(p)
    BY <2>1, <2>7 DEF Age
  <2> QED
    BY <2>2, <2>3, <2>4, <2>5, <2>6, <2>7
<1> SUFFICES ASSUME failures' = 0, Orderly, CacheNext
               PROVE  Orderly'
  BY <1>1, <1>2 DEF Unmarked
<1>11. ASSUME NEW p \in Preparers, List(p) PROVE Orderly'
  <2>1. Offered'
    BY <1>11 DEF List, CacheKept, LocalForms, CacheForms, LeaseForms, Staging, Placing, Continue,
                 Orderly, Offered, Untouched, Valid, LeasesKept, LeaseKept
  <2>2. ASSUME NEW r \in Preparers PROVE Untouched(r)'
    BY <1>11, <2>2 DEF List, CacheKept, LocalForms, CacheForms, LeaseForms, Staging, Placing,
                       Continue, Unstaged, Orderly, Offered, Untouched, Valid, LeasesKept,
                       LeaseKept, FlagsFit, FlagsKept, Early, Locking, Sweeping, Active, Ended,
                       FlagForm
  <2> QED
    BY <2>1, <2>2 DEF Orderly
<1>12. ASSUME NEW p \in Preparers, LeaveLease(p) PROVE Orderly'
  <2>1. Offered'
    BY <1>12 DEF LeaveLease, CacheKept, LocalForms, CacheForms, LeaseForms, Staging, Placing,
                 Continue, Orderly, Offered, Untouched, Valid, LeasesKept, LeaseKept
  <2>2. ASSUME NEW r \in Preparers PROVE Untouched(r)'
    BY <1>12, <2>2 DEF LeaveLease, CacheKept, LocalForms, CacheForms, LeaseForms, Staging,
                       Placing, Continue, Unstaged, Orderly, Offered, Untouched, Valid,
                       LeasesKept, LeaseKept, FlagsFit, FlagsKept, Early, Locking, Sweeping,
                       Ended, FlagForm
  <2> QED
    BY <2>1, <2>2 DEF Orderly
<1>13. ASSUME NEW p \in Preparers, SweepStage(p) PROVE Orderly'
  <2>1. Offered'
    BY <1>13 DEF SweepStage, CacheKept, LocalForms, CacheForms, LeaseForms, Staging, Placing,
                 Continue, Orderly, Offered, Untouched, Valid, LeasesKept, LeaseKept
  <2>2. ASSUME NEW r \in Preparers PROVE Untouched(r)'
    BY <1>13, <2>2 DEF SweepStage, CacheKept, LocalForms, CacheForms, LeaseForms, Staging,
                       Placing, Continue, Unstaged, Orderly, Offered, Untouched, Valid,
                       LeasesKept, LeaseKept, FlagsFit, FlagsKept, Early, Locking, Sweeping,
                       Ended, FlagForm
  <2> QED
    BY <2>1, <2>2 DEF Orderly
<1>14. ASSUME NEW p \in Preparers, SweepLease(p) PROVE Orderly'
  <2>1. Offered'
    BY <1>14 DEF SweepLease, CacheKept, LocalForms, CacheForms, LeaseForms, Staging, Placing,
                 Continue, Finishes, Unlink, Unstaged, Unlisted, Orderly, Offered, Untouched,
                 Valid, LeasesKept, LeaseKept
  <2>2. ASSUME NEW r \in Preparers PROVE Untouched(r)'
    BY <1>14, <2>2 DEF SweepLease, CacheKept, LocalForms, CacheForms, LeaseForms, Staging,
                       Placing, Continue, Finishes, Unlink, Unstaged, Unlisted, Orderly, Offered,
                       Untouched, Valid, LeasesKept, LeaseKept, FlagsFit, FlagsKept, Early,
                       Locking, Sweeping, Ended, FlagForm
  <2> QED
    BY <2>1, <2>2 DEF Orderly
<1>15. ASSUME NEW p \in Preparers, Purge(p) PROVE Orderly'
  <2>1. Offered'
    BY <1>15 DEF Purge, CacheKept, LocalForms, CacheForms, LeaseForms, Staging, Placing, Continue,
                 Orderly, Offered, Untouched, Valid, LeasesKept, LeaseKept
  <2>2. ASSUME NEW r \in Preparers PROVE Untouched(r)'
    BY <1>15, <2>2 DEF Purge, CacheKept, LocalForms, CacheForms, LeaseForms, Staging, Placing,
                       Continue, Unstaged, Orderly, Offered, Untouched, Valid, LeasesKept,
                       LeaseKept, FlagsFit, FlagsKept, Early, Locking, Sweeping, Ended, FlagForm
  <2> QED
    BY <2>1, <2>2 DEF Orderly
<1>16. ASSUME NEW p \in Preparers, NEW q \in Preparers, LockLease(p, q) PROVE Orderly'
  <2>1. Offered'
    BY <1>16 DEF LockLease, CacheKept, LocalForms, CacheForms, LeaseForms, Staging, Placing,
                 Continue, Orderly, Offered, Untouched, Valid, LeasesKept, LeaseKept
  <2>2. ASSUME NEW r \in Preparers PROVE Untouched(r)'
    BY <1>16, <2>2 DEF LockLease, CacheKept, LocalForms, CacheForms, LeaseForms, Staging, Placing,
                       Continue, Unstaged, Orderly, Offered, Untouched, Valid, LeasesKept,
                       LeaseKept, FlagsFit, FlagsKept, Early, Locking, Sweeping, Ended, FlagForm,
                       Lockable
  <2> QED
    BY <2>1, <2>2 DEF Orderly
<1>17. ASSUME NEW p \in Preparers, NEW q \in Preparers, SweepOrphan(p, q) PROVE Orderly'
  <2>1. Offered'
    BY <1>17 DEF SweepOrphan, CacheKept, LocalForms, CacheForms, LeaseForms, Staging, Placing,
                 Orderly, Offered, Untouched, Valid, LeasesKept, LeaseKept
  <2>2. ASSUME NEW r \in Preparers PROVE Untouched(r)'
    BY <1>17, <2>2 DEF SweepOrphan, CacheKept, LocalForms, CacheForms, LeaseForms, Staging,
                       Placing, Unstaged, Orderly, Offered, Untouched, Valid, LeasesKept,
                       LeaseKept, FlagsFit, FlagsKept, Early, Locking, Sweeping, Ended, FlagForm
  <2> QED
    BY <2>1, <2>2 DEF Orderly
<1>18. ASSUME NEW p \in Preparers, NEW v \in Versions, LookAtFinal(p, v) PROVE Orderly'
  <2>1. /\ todo' = [todo EXCEPT ![p] = "sweep"] /\ todo[p] = "sweep"
        /\ UNCHANGED <<final, proven, marker, lease, aged, busy, want, flags>>
    BY <1>18 DEF LookAtFinal, Continue, Orderly, Offered
  <2> QED
    BY <2>1 DEF Orderly, Offered, Untouched, Valid, Staging, Placing, Ended, CacheKept, LocalForms
<1>19. ASSUME NEW p \in Preparers, ScanQuarantines(p) PROVE Orderly'
  <2>1. Offered'
    BY <1>19 DEF ScanQuarantines, CacheKept, LocalForms, CacheForms, LeaseForms, Staging, Placing,
                 Continue, Unlisted, Orderly, Offered, Untouched, Valid, LeasesKept, LeaseKept
  <2>2. ASSUME NEW r \in Preparers PROVE Untouched(r)'
    BY <1>19, <2>2 DEF ScanQuarantines, CacheKept, LocalForms, CacheForms, LeaseForms, Staging,
                       Placing, Continue, Unstaged, Unlisted, Orderly, Offered, Untouched, Valid,
                       LeasesKept, LeaseKept, FlagsFit, FlagsKept, Early, Locking, Sweeping,
                       Ended, FlagForm
  <2> QED
    BY <2>1, <2>2 DEF Orderly
<1>20. ASSUME NEW p \in Preparers, FindCached(p) PROVE Orderly'
  <2>1. Offered'
    BY <1>20 DEF FindCached, CacheKept, LocalForms, CacheForms, LeaseForms, Staging, Placing,
                 Continue, Orderly, Offered, Untouched, Valid, LeasesKept, LeaseKept
  <2>2. ASSUME NEW r \in Preparers PROVE Untouched(r)'
    BY <1>20, <2>2 DEF FindCached, CacheKept, LocalForms, CacheForms, LeaseForms, Staging,
                       Placing, Continue, Unstaged, Orderly, Offered, Untouched, Valid,
                       LeasesKept, LeaseKept, FlagsFit, FlagsKept, Early, Locking, Sweeping,
                       Ended, FlagForm
  <2> QED
    BY <2>1, <2>2 DEF Orderly
<1>21. ASSUME NEW p \in Preparers, Companion(p) PROVE Orderly'
  <2>1. Offered'
    BY <1>21 DEF Companion, CacheKept, LocalForms, CacheForms, LeaseForms, Staging, Placing,
                 Continue, FallBack, Finishes, Unstaged, Unlisted, Orderly, Offered, Untouched,
                 Valid, LeasesKept, LeaseKept
  <2>2. ASSUME NEW r \in Preparers PROVE Untouched(r)'
    BY <1>21, <2>2 DEF Companion, CacheKept, LocalForms, CacheForms, LeaseForms, Staging, Placing,
                       Continue, FallBack, Finishes, Unstaged, Unlisted, Orderly, Offered,
                       Untouched, Valid, LeasesKept, LeaseKept, FlagsFit, FlagsKept, Early,
                       Locking, Sweeping, Ended, FlagForm
  <2> QED
    BY <2>1, <2>2 DEF Orderly
<1>22. ASSUME NEW p \in Preparers, Acquire(p) PROVE Orderly'
  <2>1. Offered'
    BY <1>22 DEF Acquire, CacheKept, LocalForms, CacheForms, LeaseForms, Staging, Placing,
                 Continue, Finishes, Unstaged, Unlisted, Orderly, Offered, Untouched, Valid,
                 LeasesKept, LeaseKept
  <2>2. ASSUME NEW r \in Preparers PROVE Untouched(r)'
    BY <1>22, <2>2 DEF Acquire, CacheKept, LocalForms, CacheForms, LeaseForms, Staging, Placing,
                       Continue, Finishes, Unstaged, Unlisted, Orderly, Offered, Untouched, Valid,
                       LeasesKept, LeaseKept, FlagsFit, FlagsKept, Early, Locking, Sweeping,
                       Ended, FlagForm
  <2> QED
    BY <2>1, <2>2 DEF Orderly
<1>23. ASSUME NEW p \in Preparers, CreateLease(p) PROVE Orderly'
  <2>1. Offered'
    BY <1>23 DEF CreateLease, CacheKept, LocalForms, CacheForms, LeaseForms, Staging, Placing,
                 Continue, Orderly, Offered, Untouched, Valid, LeasesKept, LeaseKept
  <2>2. ASSUME NEW r \in Preparers PROVE Untouched(r)'
    BY <1>23, <2>2 DEF CreateLease, CacheKept, LocalForms, CacheForms, LeaseForms, Staging,
                       Placing, Continue, Unstaged, Orderly, Offered, Untouched, Valid,
                       LeasesKept, LeaseKept, FlagsFit, FlagsKept, Early, Locking, Sweeping,
                       Ended, FlagForm
  <2> QED
    BY <2>1, <2>2 DEF Orderly
<1>24. ASSUME NEW p \in Preparers, LockOwn(p) PROVE Orderly'
  <2>1. Offered'
    BY <1>24 DEF LockOwn, CacheKept, LocalForms, CacheForms, LeaseForms, Staging, Placing,
                 Continue, FallBack, Finishes, Unstaged, Unlisted, Orderly, Offered, Untouched,
                 Valid, LeasesKept, LeaseKept
  <2>2. ASSUME NEW r \in Preparers PROVE Untouched(r)'
    BY <1>24, <2>2 DEF LockOwn, CacheKept, LocalForms, CacheForms, LeaseForms, Staging, Placing,
                       Continue, FallBack, Finishes, Unstaged, Unlisted, Orderly, Offered,
                       Untouched, Valid, LeasesKept, LeaseKept, FlagsFit, FlagsKept, Early,
                       Locking, Sweeping, Ended, FlagForm, Lockable
  <2> QED
    BY <2>1, <2>2 DEF Orderly
<1>25. ASSUME NEW p \in Preparers, Copy(p) PROVE Orderly'
  <2>1. Offered'
    BY <1>25 DEF Copy, CacheKept, LocalForms, CacheForms, LeaseForms, Staging, Placing, Continue,
                 Orderly, Offered, Untouched, Valid, LeasesKept, LeaseKept
  <2>2. ASSUME NEW r \in Preparers PROVE Untouched(r)'
    BY <1>25, <2>2 DEF Copy, CacheKept, LocalForms, CacheForms, LeaseForms, Staging, Placing,
                       Continue, Unstaged, Orderly, Offered, Untouched, Valid, LeasesKept,
                       LeaseKept, FlagsFit, FlagsKept, Early, Locking, Sweeping, Ended, FlagForm
  <2> QED
    BY <2>1, <2>2 DEF Orderly
<1>26. ASSUME NEW p \in Preparers, PublishQuarantine(p) PROVE Orderly'
  <2>1. Offered'
    BY <1>26 DEF PublishQuarantine, CacheKept, LocalForms, CacheForms, LeaseForms, Staging,
                 Placing, Continue, Orderly, Offered, Untouched, Valid, Marked, LeasesKept,
                 LeaseKept
  <2>2. ASSUME NEW r \in Preparers PROVE Untouched(r)'
    BY <1>26, <2>2 DEF PublishQuarantine, CacheKept, LocalForms, CacheForms, LeaseForms, Staging,
                       Placing, Continue, Unstaged, Orderly, Offered, Untouched, Valid, Marked,
                       LeasesKept, LeaseKept, FlagsFit, FlagsKept, Early, Locking, Sweeping,
                       Ended, FlagForm
  <2> QED
    BY <2>1, <2>2 DEF Orderly
<1>27. ASSUME NEW p \in Preparers, Look(p) PROVE Orderly'
  <2>1. Offered'
    BY <1>27 DEF Look, CacheKept, LocalForms, CacheForms, LeaseForms, Staging, Placing, Continue,
                 Orderly, Offered, Untouched, Valid, LeasesKept, LeaseKept
  <2>2. ASSUME NEW r \in Preparers PROVE Untouched(r)'
    BY <1>27, <2>2 DEF Look, CacheKept, LocalForms, CacheForms, LeaseForms, Staging, Placing,
                       Continue, Unstaged, Orderly, Offered, Untouched, Valid, LeasesKept,
                       LeaseKept, FlagsFit, FlagsKept, Early, Locking, Sweeping, Ended, FlagForm,
                       Vacant
  <2> QED
    BY <2>1, <2>2 DEF Orderly
<1>28. ASSUME NEW p \in Preparers, Place(p) PROVE Orderly'
  <2>1. CASE final[want[p]] = "none" /\ stage[p]
    <3>1. /\ todo' = [todo EXCEPT ![p] = "close"] /\ todo[p] = "place"
          /\ final' = [final EXCEPT ![want[p]] = "whole"]
          /\ proven' = [proven EXCEPT ![want[p]] = FALSE]
          /\ flags' = [flags EXCEPT ![p].placed = TRUE]
          /\ UNCHANGED <<marker, lease, aged, busy, want>>
      BY <1>28, <2>1 DEF Place, Continue
    <3>2. flags[p].failing = FALSE /\ flags'[p].failing = FALSE
      BY <3>1 DEF CacheKept, LocalForms, FlagForm, FlagsFit, FlagsKept, Staging, Unstaged
    <3>3. marker[want[p]] /\ want[p] \in Versions /\ ~proven[want[p]]
      BY <2>1, <3>1 DEF Orderly, Offered, Untouched, Valid, Staging, CacheKept, LocalForms
    <3>4. Offered'
      BY <3>1, <3>3 DEF Orderly, Offered, Valid, CacheKept, CacheForms
    <3>5. Untouched(p)'
      BY <3>1, <3>2, <3>3 DEF Orderly, Untouched, Valid, Staging, Placing, Ended, CacheKept,
                              LocalForms, CacheForms
    <3>6. ASSUME NEW r \in Preparers \ {p} PROVE Untouched(r)'
      <4>1. flags'[r] = flags[r] /\ todo'[r] = todo[r]
        BY <3>1, <3>6 DEF CacheKept, LocalForms
      <4>2. \A v \in Versions : (Valid(v) => Valid(v)') /\ (proven[v] => proven'[v])
        BY <2>1, <3>1, <3>3 DEF Valid, CacheKept, CacheForms
      <4> QED
        BY <3>1, <3>6, <4>1, <4>2 DEF Orderly, Untouched, CacheKept, LocalForms
    <3> QED
      BY <3>4, <3>5, <3>6 DEF Orderly
  <2>2. CASE ~(final[want[p]] = "none" /\ stage[p])
    <3>1. Failing(p) /\ UNCHANGED <<final, proven, marker, lease, aged, busy, want>>
          /\ todo[p] = "place"
      BY <1>28, <2>2 DEF Place
    <3> QED
      BY <3>1 DEF Failing, Continue, Orderly, Offered, Untouched, Valid, Staging, Placing, Ended,
                  CacheKept, LocalForms, FlagForm, FlagsFit, FlagsKept, Unstaged
  <2> QED
    BY <2>1, <2>2
<1>29. ASSUME NEW p \in Preparers, ValidateFound(p) PROVE Orderly'
  <2>1. Offered'
    BY <1>29 DEF ValidateFound, CacheKept, LocalForms, CacheForms, LeaseForms, Staging, Placing,
                 Continue, Failing, Orderly, Offered, Untouched, Valid, LeasesKept, LeaseKept
  <2>2. ASSUME NEW r \in Preparers PROVE Untouched(r)'
    BY <1>29, <2>2 DEF ValidateFound, CacheKept, LocalForms, CacheForms, LeaseForms, Staging,
                       Placing, Continue, Failing, Unstaged, Orderly, Offered, Untouched, Valid,
                       LeasesKept, LeaseKept, FlagsFit, FlagsKept, Early, Locking, Sweeping,
                       Ended, FlagForm
  <2> QED
    BY <2>1, <2>2 DEF Orderly
<1>30. ASSUME NEW p \in Preparers, ReplaceInvalid(p) PROVE Orderly'
  <2>1. Offered'
    BY <1>30 DEF ReplaceInvalid, CacheKept, LocalForms, CacheForms, LeaseForms, Staging, Placing,
                 Continue, Orderly, Offered, Untouched, Valid, LeasesKept, LeaseKept
  <2>2. ASSUME NEW r \in Preparers PROVE Untouched(r)'
    BY <1>30, <2>2 DEF ReplaceInvalid, CacheKept, LocalForms, CacheForms, LeaseForms, Staging,
                       Placing, Continue, Unstaged, Orderly, Offered, Untouched, Valid,
                       LeasesKept, LeaseKept, FlagsFit, FlagsKept, Early, Locking, Sweeping,
                       Ended, FlagForm
  <2> QED
    BY <2>1, <2>2 DEF Orderly
<1>31. ASSUME NEW p \in Preparers, CloseLease(p) PROVE Orderly'
  <2>1. Offered'
    BY <1>31 DEF CloseLease, CacheKept, LocalForms, CacheForms, LeaseForms, Staging, Placing,
                 Continue, Orderly, Offered, Untouched, Valid, LeasesKept, LeaseKept
  <2>2. ASSUME NEW r \in Preparers PROVE Untouched(r)'
    BY <1>31, <2>2 DEF CloseLease, CacheKept, LocalForms, CacheForms, LeaseForms, Staging,
                       Placing, Continue, Unstaged, Orderly, Offered, Untouched, Valid,
                       LeasesKept, LeaseKept, FlagsFit, FlagsKept, Early, Locking, Sweeping,
                       Ended, FlagForm
  <2> QED
    BY <2>1, <2>2 DEF Orderly
<1>32. ASSUME NEW p \in Preparers, UnlinkLease(p) PROVE Orderly'
  <2>1. Offered'
    BY <1>32 DEF UnlinkLease, CacheKept, LocalForms, CacheForms, LeaseForms, Staging, Placing,
                 Continue, Failing, Unlink, Orderly, Offered, Untouched, Valid, LeasesKept,
                 LeaseKept
  <2>2. ASSUME NEW r \in Preparers PROVE Untouched(r)'
    BY <1>32, <2>2 DEF UnlinkLease, CacheKept, LocalForms, CacheForms, LeaseForms, Staging,
                       Placing, Continue, Failing, Unlink, Unstaged, Orderly, Offered, Untouched,
                       Valid, LeasesKept, LeaseKept, FlagsFit, FlagsKept, Early, Locking,
                       Sweeping, Ended, FlagForm
  <2> QED
    BY <2>1, <2>2 DEF Orderly
<1>33. ASSUME NEW p \in Preparers, Revalidate(p) PROVE Orderly'
  <2>1. Offered'
    BY <1>33 DEF Revalidate, CacheKept, LocalForms, CacheForms, LeaseForms, Staging, Placing,
                 Continue, Failing, Orderly, Offered, Untouched, Valid, LeasesKept, LeaseKept
  <2>2. ASSUME NEW r \in Preparers PROVE Untouched(r)'
    BY <1>33, <2>2 DEF Revalidate, CacheKept, LocalForms, CacheForms, LeaseForms, Staging,
                       Placing, Continue, Failing, Unstaged, Orderly, Offered, Untouched, Valid,
                       LeasesKept, LeaseKept, FlagsFit, FlagsKept, Early, Locking, Sweeping,
                       Ended, FlagForm
  <2> QED
    BY <2>1, <2>2 DEF Orderly
<1>34. ASSUME NEW p \in Preparers, ProbeMarker(p) PROVE Orderly'
  <2>1. Offered'
    BY <1>34 DEF ProbeMarker, CacheKept, LocalForms, CacheForms, LeaseForms, Staging, Placing,
                 Continue, Orderly, Offered, Untouched, Valid, LeasesKept, LeaseKept
  <2>2. ASSUME NEW r \in Preparers PROVE Untouched(r)'
    BY <1>34, <2>2 DEF ProbeMarker, CacheKept, LocalForms, CacheForms, LeaseForms, Staging,
                       Placing, Continue, Unstaged, Orderly, Offered, Untouched, Valid,
                       LeasesKept, LeaseKept, FlagsFit, FlagsKept, Early, Locking, Sweeping,
                       Ended, FlagForm
  <2> QED
    BY <2>1, <2>2 DEF Orderly
<1>35. ASSUME NEW p \in Preparers, ClearMarker(p) PROVE Orderly'
  <2>1. Offered'
    BY <1>35 DEF ClearMarker, CacheKept, LocalForms, CacheForms, LeaseForms, Staging, Placing,
                 Continue, Failing, Orderly, Offered, Untouched, Valid, LeasesKept, LeaseKept
  <2>2. ASSUME NEW r \in Preparers PROVE Untouched(r)'
    BY <1>35, <2>2 DEF ClearMarker, CacheKept, LocalForms, CacheForms, LeaseForms, Staging,
                       Placing, Continue, Failing, Unstaged, Orderly, Offered, Untouched, Valid,
                       LeasesKept, LeaseKept, FlagsFit, FlagsKept, Early, Locking, Sweeping,
                       Ended, FlagForm
  <2> QED
    BY <2>1, <2>2 DEF Orderly
<1>36. ASSUME NEW p \in Preparers, ProbeFailed(p) PROVE Orderly'
  <2>1. Offered'
    BY <1>36 DEF ProbeFailed, CacheKept, LocalForms, CacheForms, LeaseForms, Staging, Placing,
                 Continue, Orderly, Offered, Untouched, Valid, ConcurrentCommit, LeasesKept,
                 LeaseKept
  <2>2. ASSUME NEW r \in Preparers PROVE Untouched(r)'
    BY <1>36, <2>2 DEF ProbeFailed, CacheKept, LocalForms, CacheForms, LeaseForms, Staging,
                       Placing, Continue, Unstaged, Orderly, Offered, Untouched, Valid,
                       ConcurrentCommit, LeasesKept, LeaseKept, FlagsFit, FlagsKept, Early,
                       Locking, Sweeping, Ended, FlagForm
  <2> QED
    BY <2>1, <2>2 DEF Orderly
<1>37. ASSUME NEW p \in Preparers, Remark(p) PROVE Orderly'
  <2>1. Offered'
    BY <1>37 DEF Remark, CacheKept, LocalForms, CacheForms, LeaseForms, Staging, Placing,
                 Continue, Orderly, Offered, Untouched, Valid, Marked, LeasesKept, LeaseKept
  <2>2. ASSUME NEW r \in Preparers PROVE Untouched(r)'
    BY <1>37, <2>2 DEF Remark, CacheKept, LocalForms, CacheForms, LeaseForms, Staging, Placing,
                       Continue, Unstaged, Orderly, Offered, Untouched, Valid, Marked, LeasesKept,
                       LeaseKept, FlagsFit, FlagsKept, Early, Locking, Sweeping, Ended, FlagForm
  <2> QED
    BY <2>1, <2>2 DEF Orderly
<1>38. ASSUME NEW p \in Preparers, DropLease(p) PROVE Orderly'
  <2>1. Offered'
    BY <1>38 DEF DropLease, CacheKept, LocalForms, CacheForms, LeaseForms, Staging, Placing,
                 Continue, Unlink, Orderly, Offered, Untouched, Valid, LeasesKept, LeaseKept
  <2>2. ASSUME NEW r \in Preparers PROVE Untouched(r)'
    BY <1>38, <2>2 DEF DropLease, CacheKept, LocalForms, CacheForms, LeaseForms, Staging, Placing,
                       Continue, Unlink, Unstaged, Orderly, Offered, Untouched, Valid, LeasesKept,
                       LeaseKept, FlagsFit, FlagsKept, Early, Locking, Sweeping, Ended, FlagForm
  <2> QED
    BY <2>1, <2>2 DEF Orderly
<1>39. ASSUME NEW p \in Preparers, DropStage(p) PROVE Orderly'
  <2>1. Offered'
    BY <1>39 DEF DropStage, CacheKept, LocalForms, CacheForms, LeaseForms, Staging, Placing,
                 Continue, FallBack, Finishes, Unstaged, Unlisted, Orderly, Offered, Untouched,
                 Valid, Withdraws, LeasesKept, LeaseKept
  <2>2. ASSUME NEW r \in Preparers PROVE Untouched(r)'
    BY <1>39, <2>2 DEF DropStage, CacheKept, LocalForms, CacheForms, LeaseForms, Staging, Placing,
                       Continue, FallBack, Finishes, Unstaged, Unlisted, Orderly, Offered,
                       Untouched, Valid, Withdraws, LeasesKept, LeaseKept, FlagsFit, FlagsKept,
                       Early, Locking, Sweeping, Ended, FlagForm
  <2> QED
    BY <2>1, <2>2 DEF Orderly
<1>40. ASSUME NEW p \in Preparers, Withdraw(p) PROVE Orderly'
  <2>1. Offered'
    BY <1>40 DEF Withdraw, CacheKept, LocalForms, CacheForms, LeaseForms, Staging, Placing,
                 Continue, Orderly, Offered, Untouched, Valid, LeasesKept, LeaseKept
  <2>2. ASSUME NEW r \in Preparers PROVE Untouched(r)'
    BY <1>40, <2>2 DEF Withdraw, CacheKept, LocalForms, CacheForms, LeaseForms, Staging, Placing,
                       Continue, Unstaged, Orderly, Offered, Untouched, Valid, LeasesKept,
                       LeaseKept, FlagsFit, FlagsKept, Early, Locking, Sweeping, Ended, FlagForm
  <2> QED
    BY <2>1, <2>2 DEF Orderly
<1>41. ASSUME NEW p \in Preparers, Withdrawn(p) PROVE Orderly'
  <2>1. Offered'
    BY <1>41 DEF Withdrawn, CacheKept, LocalForms, CacheForms, LeaseForms, Staging, Placing,
                 Continue, FallBack, Finishes, Unstaged, Unlisted, Orderly, Offered, Untouched,
                 Valid, LeasesKept, LeaseKept
  <2>2. ASSUME NEW r \in Preparers PROVE Untouched(r)'
    BY <1>41, <2>2 DEF Withdrawn, CacheKept, LocalForms, CacheForms, LeaseForms, Staging, Placing,
                       Continue, FallBack, Finishes, Unstaged, Unlisted, Orderly, Offered,
                       Untouched, Valid, LeasesKept, LeaseKept, FlagsFit, FlagsKept, Early,
                       Locking, Sweeping, Ended, FlagForm
  <2> QED
    BY <2>1, <2>2 DEF Orderly
<1>42. ASSUME NEW p \in Preparers, AccessFails(p) PROVE FALSE
  BY <1>42 DEF AccessFails, CacheKept, CacheForms
<1>43. ASSUME NEW p \in Preparers, PreparerCrashes(p) PROVE Orderly'
  <2>1. Offered'
    BY <1>43 DEF PreparerCrashes, CacheKept, LocalForms, CacheForms, LeaseForms, Staging, Placing,
                 Continue, Finishes, Unstaged, Unlisted, Orderly, Offered, Untouched, Valid,
                 LeasesKept, LeaseKept
  <2>2. ASSUME NEW r \in Preparers PROVE Untouched(r)'
    BY <1>43, <2>2 DEF PreparerCrashes, CacheKept, LocalForms, CacheForms, LeaseForms, Staging,
                       Placing, Continue, Finishes, Unstaged, Unlisted, Orderly, Offered,
                       Untouched, Valid, LeasesKept, LeaseKept, FlagsFit, FlagsKept, Early,
                       Locking, Sweeping, Active, Ended, FlagForm
  <2> QED
    BY <2>1, <2>2 DEF Orderly
<1>44. ASSUME NEW p \in Preparers, Age(p) PROVE Orderly'
  <2>1. Offered'
    BY <1>44 DEF Age, CacheKept, LocalForms, CacheForms, LeaseForms, Staging, Placing, Orderly,
                 Offered, Untouched, Valid, LeasesKept, LeaseKept
  <2>2. ASSUME NEW r \in Preparers PROVE Untouched(r)'
    BY <1>44, <2>2 DEF Age, CacheKept, LocalForms, CacheForms, LeaseForms, Staging, Placing,
                       Unstaged, Orderly, Offered, Untouched, Valid, LeasesKept, LeaseKept,
                       FlagsFit, FlagsKept, Early, Locking, Sweeping, Active, Ended, FlagForm
  <2> QED
    BY <2>1, <2>2 DEF Orderly
<1> QED
  BY <1>11, <1>12, <1>13, <1>14, <1>15, <1>16, <1>17, <1>18, <1>19, <1>20, <1>21, <1>22, <1>23,
     <1>24, <1>25, <1>26, <1>27, <1>28, <1>29, <1>30, <1>31, <1>32, <1>33, <1>34, <1>35, <1>36,
     <1>37, <1>38, <1>39, <1>40, <1>41, <1>42, <1>43, <1>44 DEF CacheNext, Sweep, Prepare, Stage

-----------------------------------------------------------------------------
(* RuntimeCache: repair *)

\* When another than one that is alone acts, nobody is alone.
LEMMA CrowdStays ==
    ASSUME CacheKept, Repaired, NEW p \in Preparers, p \in Active, ~alone[p],
           alone' = alone \/ alone' = [alone EXCEPT ![p] = FALSE],
           NEW s, todo' = [todo EXCEPT ![p] = s],
           (s \notin Ended /\ solo' = solo) \/ solo' = Unfailed
    PROVE  Repaired'
<1>1. \A r \in Preparers : ~alone[r] /\ ~alone'[r]
  BY DEF Repaired, CacheKept, LocalForms
<1>2. CASE s \notin Ended /\ solo' = solo
  BY <1>1, <1>2 DEF Repaired, NobodyDisturbs, CacheKept, LocalForms
<1>3. CASE solo' = Unfailed
  BY <1>1, <1>3 DEF Repaired, Unfailed
<1> QED
  BY <1>2, <1>3

LEMMA CrowdEnds ==
    ASSUME CacheKept, Repaired, NEW p \in Preparers, p \in Active, ~alone[p],
           NEW outcome, NEW quiet \in {FALSE, alone[p]}, Finishes(p, outcome, quiet)
    PROVE  Repaired'
<1>1. todo' = [todo EXCEPT ![p] = outcome] /\ alone' = [alone EXCEPT ![p] = FALSE]
      /\ solo' = Unfailed
  BY DEF Finishes, Continue, CacheKept, LocalForms
<1> QED
  BY <1>1, CrowdStays

LEMMA CrowdFallsBack ==
    ASSUME CacheKept, Repaired, NEW p \in Preparers, p \in Active, ~alone[p],
           NEW quiet \in {FALSE, alone[p]}, FallBack(p, quiet)
    PROVE  Repaired'
<1>1. CASE noted[p].valid = {}
  BY <1>1, CrowdEnds DEF FallBack
<1>2. CASE noted[p].valid # {}
  BY <1>2, CrowdStays DEF FallBack, Continue, Ended
<1> QED
  BY <1>1, <1>2

\* A preparation that is alone goes on, or it ends.
LEMMA AloneMoves ==
    ASSUME CacheKept, Repaired, NEW p \in Preparers, alone[p], UNCHANGED <<alone, solo>>,
           NEW s, todo' = [todo EXCEPT ![p] = s], s \notin Ended, Undisturbed(p)',
           Succeeds(p) => Succeeds(p)' /\ want'[p] = want[p],
           \A v \in Versions : marker[v] => marker'[v] \/ (want'[p] = v /\ Succeeds(p)')
    PROVE  Repaired'
<1>1. Active = {p}
  BY DEF Repaired
<1>2. Active' = {p}
  BY <1>1 DEF Active, CacheKept, LocalForms
<1>3. \A r \in Preparers : alone[r] => r = p
  BY <1>1 DEF Repaired
<1>4. NobodyDisturbs
  BY <1>1 DEF NobodyDisturbs, Active
<1>5. \A v \in Versions : solo'[v] = 1 => marker'[v] \/ (want'[p] = v /\ Succeeds(p)')
  BY <1>3, <1>4 DEF Repaired
<1> QED
  BY <1>2, <1>3, <1>5 DEF Repaired

LEMMA AloneEnds ==
    ASSUME CacheKept, Repaired, NEW p \in Preparers, alone[p],
           alone' = [alone EXCEPT ![p] = FALSE],
           \A v \in Versions : solo'[v] <= 1 /\ (solo'[v] = 1 => marker'[v])
    PROVE  Repaired'
<1>1. \A r \in Preparers : ~alone'[r]
  BY DEF Repaired, CacheKept, LocalForms
<1> QED
  BY <1>1 DEF Repaired

\* What is known of a preparation that is alone.
AtWork(p) ==
    /\ Active = {p} /\ NobodyDisturbs
    /\ Undisturbed(p) /\ LeaseKept(p) /\ FlagsKept(p)
    /\ want[p] \in Versions /\ noted[p] \in NoteForm /\ flags[p] \in FlagForm

LEMMA AloneFacts == ASSUME CacheKept, Repaired, NEW p \in Preparers, alone[p] PROVE AtWork(p)
BY DEF AtWork, Active, NobodyDisturbs, Repaired, CacheKept, LeasesKept, FlagsFit, LocalForms

\* A failing access is a disturbance.
LEMMA AloneNoMore ==
    ASSUME CacheKept, Repaired, NEW p \in Preparers, alone[p],
           alone' = [alone EXCEPT ![p] = FALSE],
           NEW s, todo' = [todo EXCEPT ![p] = s], s \notin Ended, UNCHANGED solo
    PROVE  Repaired'
<1>1. \A r \in Preparers : ~alone'[r]
  BY DEF Repaired, CacheKept, LocalForms
<1> QED
  BY <1>1 DEF Repaired, NobodyDisturbs, CacheKept, LocalForms

LEMMA MarkedBefore ==
    ASSUME CacheKept, Repaired, NEW p \in Preparers, alone[p], ~Succeeds(p), NEW v \in Versions
    PROVE  solo[v] \in {0, 1} /\ (solo[v] # 0 => marker[v])
<1>1. NobodyDisturbs /\ \A r \in Preparers : alone[r] => r = p
  BY DEF Repaired, NobodyDisturbs, Active
<1>2. solo[v] \in {0, 1}
  BY DEF Repaired, CacheKept, LocalForms
<1> QED
  BY <1>1, <1>2 DEF Repaired

\* Each action leaves what a later preparation repairs.
LEMMA RepairedStays ==
    ASSUME CacheKept, CacheAssumption, Repaired, [CacheNext]_cacheVars PROVE Repaired'
<1> USE DEF At, local, leases, cache, cacheHistory, CacheAssumption
<1>1. CASE UNCHANGED cacheVars
  BY <1>1 DEF cacheVars, Repaired, NobodyDisturbs, Succeeds, Undisturbed, Active, Valid
<1>11. ASSUME NEW p \in Preparers, List(p) PROVE Repaired'
  <2>1. todo' = [todo EXCEPT ![p] = "sweep"] /\ todo[p] = "start" /\ UNCHANGED <<marker, solo>>
        /\ alone' = [r \in Preparers |-> IF r = p THEN Active = {} ELSE alone[r]
        /\ r \notin Active]
    BY <1>11 DEF List, Continue
  <2>2. Active' = Active \cup {p} /\ todo'[p] = "sweep"
    BY <2>1 DEF Active, Ended, CacheKept, LocalForms
  <2>3. \A r \in Preparers : alone'[r] => r = p /\ Active = {}
    BY <2>1 DEF Repaired
  <2>4. Undisturbed(p)'
    BY <2>2 DEF Undisturbed, Scanned, MarkedHere, Staging, Placing, Ended
  <2>5. NobodyDisturbs' => Active = {}
    BY <2>2, <2>3 DEF NobodyDisturbs, Active
  <2>6. Active = {} => NobodyDisturbs /\ \A r \in Preparers : ~alone[r]
    BY DEF NobodyDisturbs, Active, Repaired
  <2> QED
    BY <2>1, <2>2, <2>3, <2>4, <2>5, <2>6 DEF Repaired
<1>12. ASSUME NEW p \in Preparers, LeaveLease(p) PROVE Repaired'
  <2>1. p \in Active
    BY <1>12 DEF LeaveLease, Active, Ended
  <2>2. CASE ~alone[p]
    BY <1>12, <2>1, <2>2, CrowdStays DEF LeaveLease, Continue, Ended
  <2>3. alone[p] => AtWork(p)
    BY AloneFacts
  <2>4. CASE alone[p]
    <3> USE <2>4 DEF AtWork
    <3>1. todo' = [todo EXCEPT ![p] = "sweep"] /\ todo[p] = "young" /\ UNCHANGED <<alone, solo>>
      BY <1>12, <2>3 DEF LeaveLease, Continue
    <3>2. todo'[p] = "sweep"
      BY <3>1 DEF CacheKept, LocalForms
    <3>3. Undisturbed(p)'
      BY <1>12, <2>3, <3>1, <3>2 DEF LeaveLease, Undisturbed, Scanned, MarkedHere, Staging,
                                     Placing, Ended, Valid, CacheKept, LocalForms, CacheForms,
                                     LeaseForms, FlagForm, NoteForm, LeaseKept, FlagsKept,
                                     Unstaged, Early, Sweeping, Locking
    <3>4. /\ \A u \in Versions : marker[u] => marker'[u] \/ (want'[p] = u /\ Succeeds(p)')
          /\ Succeeds(p) => Succeeds(p)' /\ want'[p] = want[p]
      BY <1>12, <2>3, <3>1, <3>2 DEF LeaveLease, Succeeds, CacheKept, LocalForms, CacheForms
    <3> QED
      BY <3>1, <3>3, <3>4, AloneMoves DEF Ended
  <2> QED
    BY <2>2, <2>4
<1>13. ASSUME NEW p \in Preparers, SweepStage(p) PROVE Repaired'
  <2>1. p \in Active
    BY <1>13 DEF SweepStage, Active, Ended
  <2>2. CASE ~alone[p]
    BY <1>13, <2>1, <2>2, CrowdStays DEF SweepStage, Continue, Ended
  <2>3. alone[p] => AtWork(p)
    BY AloneFacts
  <2>4. CASE alone[p]
    <3> USE <2>4 DEF AtWork
    <3>1. todo' = [todo EXCEPT ![p] = "swept"] /\ todo[p] = "old" /\ UNCHANGED <<alone, solo>>
      BY <1>13, <2>3 DEF SweepStage, Continue
    <3>2. todo'[p] = "swept"
      BY <3>1 DEF CacheKept, LocalForms
    <3>3. Undisturbed(p)'
      BY <1>13, <2>3, <3>1, <3>2 DEF SweepStage, Undisturbed, Scanned, MarkedHere, Staging,
                                     Placing, Ended, Valid, CacheKept, LocalForms, CacheForms,
                                     LeaseForms, FlagForm, NoteForm, LeaseKept, FlagsKept,
                                     Unstaged, Early, Sweeping, Locking
    <3>4. /\ \A u \in Versions : marker[u] => marker'[u] \/ (want'[p] = u /\ Succeeds(p)')
          /\ Succeeds(p) => Succeeds(p)' /\ want'[p] = want[p]
      BY <1>13, <2>3, <3>1, <3>2 DEF SweepStage, Succeeds, CacheKept, LocalForms, CacheForms
    <3> QED
      BY <3>1, <3>3, <3>4, AloneMoves DEF Ended
  <2> QED
    BY <2>2, <2>4
<1>14. ASSUME NEW p \in Preparers, SweepLease(p) PROVE Repaired'
  <2>1. p \in Active
    BY <1>14 DEF SweepLease, Active, Ended
  <2>2. CASE ~alone[p]
    BY <1>14, <2>1, <2>2, CrowdStays, CrowdEnds DEF SweepLease, Continue, Ended
  <2>3. alone[p] => AtWork(p)
    BY AloneFacts
  <2>4. CASE alone[p]
    <3> USE <2>4 DEF AtWork
    <3>1. todo' = [todo EXCEPT ![p] = "sweep"] /\ todo[p] = "swept" /\ UNCHANGED <<alone, solo>>
      BY <1>14, <2>3 DEF SweepLease, Continue, Undisturbed, Valid, LeaseKept, Locking, Staging,
                         MarkedHere, Placing, FlagsKept, Unstaged, Finishes, CacheKept, LocalForms
    <3>2. todo'[p] = "sweep"
      BY <3>1 DEF CacheKept, LocalForms
    <3>3. Undisturbed(p)'
      BY <1>14, <2>3, <3>1, <3>2 DEF SweepLease, Undisturbed, Scanned, MarkedHere, Staging,
                                     Placing, Ended, Valid, CacheKept, LocalForms, CacheForms,
                                     LeaseForms, FlagForm, NoteForm, LeaseKept, FlagsKept,
                                     Unstaged, Early, Sweeping, Locking, Unlink
    <3>4. /\ \A u \in Versions : marker[u] => marker'[u] \/ (want'[p] = u /\ Succeeds(p)')
          /\ Succeeds(p) => Succeeds(p)' /\ want'[p] = want[p]
      BY <1>14, <2>3, <3>1, <3>2 DEF SweepLease, Succeeds, CacheKept, LocalForms, CacheForms,
                                     FlagsKept, Placing
    <3> QED
      BY <3>1, <3>3, <3>4, AloneMoves DEF Ended
  <2> QED
    BY <2>2, <2>4
<1>15. ASSUME NEW p \in Preparers, Purge(p) PROVE Repaired'
  <2>1. p \in Active
    BY <1>15 DEF Purge, Active, Ended
  <2>2. CASE ~alone[p]
    BY <1>15, <2>1, <2>2, CrowdStays DEF Purge, Continue, Ended
  <2>3. alone[p] => AtWork(p)
    BY AloneFacts
  <2>4. CASE alone[p]
    <3> USE <2>4 DEF AtWork
    <3>1. todo' = [todo EXCEPT ![p] = "sweep"] /\ todo[p] = "purge" /\ UNCHANGED <<alone, solo>>
      BY <1>15, <2>3 DEF Purge, Continue
    <3>2. todo'[p] = "sweep"
      BY <3>1 DEF CacheKept, LocalForms
    <3>3. Undisturbed(p)'
      BY <1>15, <2>3, <3>1, <3>2 DEF Purge, Undisturbed, Scanned, MarkedHere, Staging, Placing,
                                     Ended, Valid, CacheKept, LocalForms, CacheForms, LeaseForms,
                                     FlagForm, NoteForm, LeaseKept, FlagsKept, Unstaged, Early,
                                     Sweeping, Locking
    <3>4. /\ \A u \in Versions : marker[u] => marker'[u] \/ (want'[p] = u /\ Succeeds(p)')
          /\ Succeeds(p) => Succeeds(p)' /\ want'[p] = want[p]
      BY <1>15, <2>3, <3>1, <3>2 DEF Purge, Succeeds, CacheKept, LocalForms, CacheForms
    <3> QED
      BY <3>1, <3>3, <3>4, AloneMoves DEF Ended
  <2> QED
    BY <2>2, <2>4
<1>16. ASSUME NEW p \in Preparers, NEW q \in Preparers, LockLease(p, q) PROVE Repaired'
  <2>1. p \in Active
    BY <1>16 DEF LockLease, Active, Ended
  <2>2. CASE ~alone[p]
    <3>1. (todo' = todo \/ \E s \in {"old", "young"} : todo' = [todo EXCEPT ![p] = s])
          /\ todo[p] = "sweep"
          /\ UNCHANGED <<alone, solo>>
      BY <1>16 DEF LockLease, Continue
    <3>2. todo' = todo => todo' = [todo EXCEPT ![p] = "sweep"]
      BY <3>1 DEF CacheKept, LocalForms
    <3> QED
      BY <2>1, <2>2, <3>1, <3>2, CrowdStays DEF Ended
  <2>3. alone[p] => AtWork(p)
    BY AloneFacts
  <2>4. CASE alone[p]
    <3> USE <2>4 DEF AtWork
    <3>1. CASE Lockable(q) /\ aged[q]
      <4>1. todo' = [todo EXCEPT ![p] = "old"] /\ todo[p] = "sweep" /\ UNCHANGED <<alone, solo>>
        BY <1>16, <2>3, <3>1 DEF LockLease, Continue, Undisturbed, Valid, Lockable, LeaseKept,
                                 Locking, Staging, MarkedHere, Placing, FlagsKept, Unstaged,
                                 CacheKept, LocalForms
      <4>2. todo'[p] = "old"
        BY <4>1 DEF CacheKept, LocalForms
      <4>3. Undisturbed(p)'
        BY <1>16, <2>3, <3>1, <4>1, <4>2 DEF LockLease, Undisturbed, Scanned, MarkedHere, Staging,
           Placing, Ended, Valid, CacheKept, LocalForms, CacheForms, LeaseForms, FlagForm,
           NoteForm, LeaseKept, FlagsKept, Unstaged, Early, Sweeping, Locking, Lockable
      <4>4. /\ \A u \in Versions : marker[u] => marker'[u] \/ (want'[p] = u /\ Succeeds(p)')
            /\ Succeeds(p) => Succeeds(p)' /\ want'[p] = want[p]
        BY <1>16, <2>3, <3>1, <4>1, <4>2 DEF LockLease, Succeeds, CacheKept, LocalForms,
           CacheForms, FlagsKept, Placing
      <4> QED
        BY <3>1, <4>1, <4>3, <4>4, AloneMoves DEF Ended
    <3>2. CASE Lockable(q) /\ ~aged[q]
      <4>1. todo' = [todo EXCEPT ![p] = "young"] /\ todo[p] = "sweep" /\ UNCHANGED <<alone, solo>>
        BY <1>16, <2>3, <3>2 DEF LockLease, Continue, Undisturbed, Valid, Lockable, LeaseKept,
                                 Locking, Staging, MarkedHere, Placing, FlagsKept, Unstaged,
                                 CacheKept, LocalForms
      <4>2. todo'[p] = "young"
        BY <4>1 DEF CacheKept, LocalForms
      <4>3. Undisturbed(p)'
        BY <1>16, <2>3, <3>2, <4>1, <4>2 DEF LockLease, Undisturbed, Scanned, MarkedHere, Staging,
           Placing, Ended, Valid, CacheKept, LocalForms, CacheForms, LeaseForms, FlagForm,
           NoteForm, LeaseKept, FlagsKept, Unstaged, Early, Sweeping, Locking, Lockable
      <4>4. /\ \A u \in Versions : marker[u] => marker'[u] \/ (want'[p] = u /\ Succeeds(p)')
            /\ Succeeds(p) => Succeeds(p)' /\ want'[p] = want[p]
        BY <1>16, <2>3, <3>2, <4>1, <4>2 DEF LockLease, Succeeds, CacheKept, LocalForms,
           CacheForms, FlagsKept, Placing
      <4> QED
        BY <3>2, <4>1, <4>3, <4>4, AloneMoves DEF Ended
    <3>3. CASE ~Lockable(q)
      <4>1. todo[p] = "sweep" /\ UNCHANGED <<cache, want, alone, solo, todo>>
        BY <1>16, <3>3 DEF LockLease
      <4>2. todo' = [todo EXCEPT ![p] = "sweep"] /\ ~Succeeds(p)
        BY <4>1 DEF CacheKept, LocalForms, Succeeds
      <4>3. Undisturbed(p)'
        BY <4>1 DEF Undisturbed, Scanned, MarkedHere, Staging, Placing, Ended
      <4> QED
        BY <4>1, <4>2, <4>3, AloneMoves DEF Ended
    <3> QED
      BY <3>1, <3>2, <3>3
  <2> QED
    BY <2>2, <2>4
<1>17. ASSUME NEW p \in Preparers, NEW q \in Preparers, SweepOrphan(p, q) PROVE Repaired'
  <2>1. p \in Active
    BY <1>17 DEF SweepOrphan, Active, Ended
  <2>2. CASE ~alone[p]
    <3>1. (todo' = todo \/ \E s \in {"old", "young"} : todo' = [todo EXCEPT ![p] = s])
          /\ todo[p] = "sweep"
          /\ UNCHANGED <<alone, solo>>
      BY <1>17 DEF SweepOrphan
    <3>2. todo' = todo => todo' = [todo EXCEPT ![p] = "sweep"]
      BY <3>1 DEF CacheKept, LocalForms
    <3> QED
      BY <2>1, <2>2, <3>1, <3>2, CrowdStays DEF Ended
  <2>3. alone[p] => AtWork(p)
    BY AloneFacts
  <2>4. CASE alone[p]
    <3> USE <2>4 DEF AtWork
    <3>1. todo[p] = "sweep" /\ UNCHANGED <<cache, want, alone, solo, todo>>
      BY <1>17 DEF SweepOrphan
    <3>2. todo' = [todo EXCEPT ![p] = "sweep"] /\ ~Succeeds(p)
      BY <3>1 DEF CacheKept, LocalForms, Succeeds
    <3>3. Undisturbed(p)'
      BY <3>1 DEF Undisturbed, Scanned, MarkedHere, Staging, Placing, Ended
    <3> QED
      BY <3>1, <3>2, <3>3, AloneMoves DEF Ended
  <2> QED
    BY <2>2, <2>4
<1>18. ASSUME NEW p \in Preparers, NEW v \in Versions, LookAtFinal(p, v) PROVE Repaired'
  <2>1. p \in Active
    BY <1>18 DEF LookAtFinal, Active, Ended
  <2>2. CASE ~alone[p]
    BY <1>18, <2>1, <2>2, CrowdStays DEF LookAtFinal, Continue, Ended
  <2>3. alone[p] => AtWork(p)
    BY AloneFacts
  <2>4. CASE alone[p]
    <3> USE <2>4 DEF AtWork
    <3>1. CASE final[v] = "partial"
      <4>1. todo' = [todo EXCEPT ![p] = "purge"] /\ todo[p] = "sweep" /\ UNCHANGED <<alone, solo>>
        BY <1>18, <2>3, <3>1 DEF LookAtFinal, Continue, Undisturbed, Valid, LeaseKept, Locking,
                                 Staging, MarkedHere, Placing, FlagsKept, Unstaged, CacheKept,
                                 LocalForms
      <4>2. todo'[p] = "purge"
        BY <4>1 DEF CacheKept, LocalForms
      <4>3. Undisturbed(p)'
        BY <1>18, <2>3, <3>1, <4>1, <4>2 DEF LookAtFinal, Undisturbed, Scanned, MarkedHere,
           Staging, Placing, Ended, Valid, CacheKept, LocalForms, CacheForms, LeaseForms,
           FlagForm, NoteForm, LeaseKept, FlagsKept, Unstaged, Early, Sweeping, Locking
      <4>4. /\ \A u \in Versions : marker[u] => marker'[u] \/ (want'[p] = u /\ Succeeds(p)')
            /\ Succeeds(p) => Succeeds(p)' /\ want'[p] = want[p]
        BY <1>18, <2>3, <3>1, <4>1, <4>2 DEF LookAtFinal, Succeeds, CacheKept, LocalForms,
           CacheForms, FlagsKept, Placing
      <4> QED
        BY <3>1, <4>1, <4>3, <4>4, AloneMoves DEF Ended
    <3>2. CASE final[v] # "partial"
      <4>1. todo' = [todo EXCEPT ![p] = "sweep"] /\ todo[p] = "sweep" /\ UNCHANGED <<alone, solo>>
        BY <1>18, <2>3, <3>2 DEF LookAtFinal, Continue, Undisturbed, Valid, LeaseKept, Locking,
                                 Staging, MarkedHere, Placing, FlagsKept, Unstaged, CacheKept,
                                 LocalForms
      <4>2. todo'[p] = "sweep"
        BY <4>1 DEF CacheKept, LocalForms
      <4>3. Undisturbed(p)'
        BY <1>18, <2>3, <3>2, <4>1, <4>2 DEF LookAtFinal, Undisturbed, Scanned, MarkedHere,
           Staging, Placing, Ended, Valid, CacheKept, LocalForms, CacheForms, LeaseForms,
           FlagForm, NoteForm, LeaseKept, FlagsKept, Unstaged, Early, Sweeping, Locking
      <4>4. /\ \A u \in Versions : marker[u] => marker'[u] \/ (want'[p] = u /\ Succeeds(p)')
            /\ Succeeds(p) => Succeeds(p)' /\ want'[p] = want[p]
        BY <1>18, <2>3, <3>2, <4>1, <4>2 DEF LookAtFinal, Succeeds, CacheKept, LocalForms,
           CacheForms, FlagsKept, Placing
      <4> QED
        BY <3>2, <4>1, <4>3, <4>4, AloneMoves DEF Ended
    <3> QED
      BY <3>1, <3>2
  <2> QED
    BY <2>2, <2>4
<1>19. ASSUME NEW p \in Preparers, ScanQuarantines(p) PROVE Repaired'
  <2>1. p \in Active
    BY <1>19 DEF ScanQuarantines, Active, Ended
  <2>2. CASE ~alone[p]
    BY <1>19, <2>1, <2>2, CrowdStays DEF ScanQuarantines, Continue, Ended
  <2>3. alone[p] => AtWork(p)
    BY AloneFacts
  <2>4. CASE alone[p]
    <3> USE <2>4 DEF AtWork
    <3>1. /\ todo' = [todo EXCEPT ![p] = "probe"] /\ todo[p] = "sweep"
          /\ noted' = [noted EXCEPT ![p].marked = {v \in Versions : marker[v]}]
          /\ UNCHANGED <<cache, leases, want, flags, alone, solo>>
      BY <1>19 DEF ScanQuarantines, Continue
    <3>2. todo'[p] = "probe" /\ noted'[p].marked = {v \in Versions : marker[v]} /\ ~Succeeds(p)
      BY <2>3, <3>1 DEF CacheKept, LocalForms, NoteForm, Succeeds
    <3>3. \A v \in Versions : solo[v] > 0 => marker[v]
      BY <3>2, MarkedBefore
    <3>4. Undisturbed(p)'
      BY <3>1, <3>2, <3>3 DEF Undisturbed, Scanned, MarkedHere, Staging, Placing, Ended
    <3> QED
      BY <3>1, <3>2, <3>4, AloneMoves DEF Ended
  <2> QED
    BY <2>2, <2>4
<1>20. ASSUME NEW p \in Preparers, FindCached(p) PROVE Repaired'
  <2>1. p \in Active
    BY <1>20 DEF FindCached, Active, Ended
  <2>2. CASE ~alone[p]
    BY <1>20, <2>1, <2>2, CrowdStays DEF FindCached, Continue, Ended
  <2>3. alone[p] => AtWork(p)
    BY AloneFacts
  <2>4. CASE alone[p]
    <3> USE <2>4 DEF AtWork
    <3> DEFINE found == {v \in Versions \ noted[p].marked : Valid(v)}
    <3>1. /\ noted' = [noted EXCEPT ![p].valid = found] /\ todo[p] = "probe"
          /\ UNCHANGED <<cache, leases, want, flags, alone, solo>>
      BY <1>20 DEF FindCached
    <3>2. noted'[p].valid = found /\ noted'[p].marked = noted[p].marked
      BY <2>3, <3>1 DEF CacheKept, LocalForms, NoteForm
    <3>3. CASE want[p] \in found
      <4>1. todo' = [todo EXCEPT ![p] = "companion"]
        BY <1>20, <3>3 DEF FindCached, Continue
      <4>2. todo'[p] = "companion"
        BY <4>1 DEF CacheKept, LocalForms
      <4>3. Undisturbed(p)'
        BY <2>3, <3>1, <3>3, <4>2 DEF Undisturbed, Scanned, MarkedHere, Staging, Placing, Ended,
                                      Valid
      <4> QED
        BY <3>1, <4>1, <4>2, <4>3, AloneMoves DEF Ended, Succeeds
    <3>4. CASE want[p] \notin found
      <4>1. todo' = [todo EXCEPT ![p] = "lease"]
        BY <1>20, <3>4 DEF FindCached, Continue
      <4>2. todo'[p] = "lease"
        BY <4>1 DEF CacheKept, LocalForms
      <4>3. Undisturbed(p)'
        BY <2>3, <3>1, <3>2, <3>4, <4>2 DEF Undisturbed, Scanned, MarkedHere, Staging, Placing,
           Ended, Valid
      <4> QED
        BY <3>1, <4>1, <4>2, <4>3, AloneMoves DEF Ended, Succeeds
    <3> QED
      BY <3>3, <3>4
  <2> QED
    BY <2>2, <2>4
<1>21. ASSUME NEW p \in Preparers, Companion(p) PROVE Repaired'
  <2>1. p \in Active
    BY <1>21 DEF Companion, Active, Ended
  <2>2. CASE ~alone[p]
    BY <1>21, <2>1, <2>2, CrowdStays, CrowdFallsBack DEF Companion, Continue, Ended
  <2>3. alone[p] => AtWork(p)
    BY AloneFacts
  <2>4. CASE alone[p]
    <3> USE <2>4 DEF AtWork
    <3>1. todo[p] = "companion" /\ Valid(want[p])
      BY <1>21, <2>3 DEF Companion, Undisturbed
    <3>2. /\ todo' = [todo EXCEPT ![p] = "acquire"] /\ UNCHANGED <<marker, want, solo, alone>>
          /\ final' = [final EXCEPT ![want[p]] = "hosted"]
      BY <1>21, <3>1 DEF Companion, Continue
    <3>3. todo'[p] = "acquire" /\ Valid(want[p])'
      BY <2>3, <3>2 DEF Valid, CacheKept, LocalForms, CacheForms
    <3>4. Undisturbed(p)'
      BY <3>3 DEF Undisturbed, Scanned, MarkedHere, Staging, Placing, Ended
    <3> QED
      BY <3>2, <3>3, <3>4, AloneMoves DEF Ended, Succeeds
  <2> QED
    BY <2>2, <2>4
<1>22. ASSUME NEW p \in Preparers, Acquire(p) PROVE Repaired'
  <2>1. p \in Active
    BY <1>22 DEF Acquire, Active, Ended
  <2>2. CASE ~alone[p]
    BY <1>22, <2>1, <2>2, CrowdStays, CrowdEnds DEF Acquire, Ended
  <2>3. alone[p] => AtWork(p)
    BY AloneFacts
  <2>4. CASE alone[p]
    <3> USE <2>4 DEF AtWork
    <3>1. Valid(want[p])
      BY <1>22, <2>3 DEF Acquire, Undisturbed
    <3>2. solo' = [solo EXCEPT ![want[p]] = 0] /\ alone' = [alone EXCEPT ![p] = FALSE]
          /\ UNCHANGED marker
      BY <1>22, <3>1 DEF Acquire, Finishes
    <3>3. \A v \in Versions : v # want[p] /\ solo[v] = 1 => marker[v]
      BY <2>3 DEF Repaired
    <3>4. \A v \in Versions : solo'[v] <= 1 /\ (solo'[v] = 1 => marker'[v])
      BY <2>3, <3>2, <3>3 DEF Repaired, CacheKept, LocalForms
    <3> QED
      BY <3>2, <3>4, AloneEnds
  <2> QED
    BY <2>2, <2>4
<1>23. ASSUME NEW p \in Preparers, CreateLease(p) PROVE Repaired'
  <2>1. p \in Active
    BY <1>23 DEF CreateLease, Active, Ended
  <2>2. CASE ~alone[p]
    BY <1>23, <2>1, <2>2, CrowdStays DEF CreateLease, Continue, Ended
  <2>3. alone[p] => AtWork(p)
    BY AloneFacts
  <2>4. CASE alone[p]
    <3> USE <2>4 DEF AtWork
    <3>1. todo' = [todo EXCEPT ![p] = "lock"] /\ todo[p] = "lease" /\ UNCHANGED <<alone, solo>>
      BY <1>23, <2>3 DEF CreateLease, Continue
    <3>2. todo'[p] = "lock"
      BY <3>1 DEF CacheKept, LocalForms
    <3>3. Undisturbed(p)'
      BY <1>23, <2>3, <3>1, <3>2 DEF CreateLease, Undisturbed, Scanned, MarkedHere, Staging,
                                     Placing, Ended, Valid, CacheKept, LocalForms, CacheForms,
                                     LeaseForms, FlagForm, NoteForm, LeaseKept, FlagsKept,
                                     Unstaged, Early, Sweeping, Locking
    <3>4. /\ \A u \in Versions : marker[u] => marker'[u] \/ (want'[p] = u /\ Succeeds(p)')
          /\ Succeeds(p) => Succeeds(p)' /\ want'[p] = want[p]
      BY <1>23, <2>3, <3>1, <3>2 DEF CreateLease, Succeeds, CacheKept, LocalForms, CacheForms
    <3> QED
      BY <3>1, <3>3, <3>4, AloneMoves DEF Ended
  <2> QED
    BY <2>2, <2>4
<1>24. ASSUME NEW p \in Preparers, LockOwn(p) PROVE Repaired'
  <2>1. p \in Active
    BY <1>24 DEF LockOwn, Active, Ended
  <2>2. CASE ~alone[p]
    BY <1>24, <2>1, <2>2, CrowdStays, CrowdFallsBack DEF LockOwn, Continue, Ended
  <2>3. alone[p] => AtWork(p)
    BY AloneFacts
  <2>4. CASE alone[p]
    <3> USE <2>4 DEF AtWork
    <3>1. todo' = [todo EXCEPT ![p] = "copy"] /\ todo[p] = "lock" /\ UNCHANGED <<alone, solo>>
      BY <1>24, <2>3 DEF LockOwn, Continue, Undisturbed, Valid, Lockable, LeaseKept, Locking,
                         Staging, MarkedHere, Placing, FlagsKept, Unstaged, CacheKept, LocalForms
    <3>2. todo'[p] = "copy"
      BY <3>1 DEF CacheKept, LocalForms
    <3>3. Undisturbed(p)'
      BY <1>24, <2>3, <3>1, <3>2 DEF LockOwn, Undisturbed, Scanned, MarkedHere, Staging, Placing,
                                     Ended, Valid, CacheKept, LocalForms, CacheForms, LeaseForms,
                                     FlagForm, NoteForm, LeaseKept, FlagsKept, Unstaged, Early,
                                     Sweeping, Locking, Lockable
    <3>4. /\ \A u \in Versions : marker[u] => marker'[u] \/ (want'[p] = u /\ Succeeds(p)')
          /\ Succeeds(p) => Succeeds(p)' /\ want'[p] = want[p]
      BY <1>24, <2>3, <3>1, <3>2 DEF LockOwn, Succeeds, CacheKept, LocalForms, CacheForms,
                                     FlagsKept, Placing
    <3> QED
      BY <3>1, <3>3, <3>4, AloneMoves DEF Ended
  <2> QED
    BY <2>2, <2>4
<1>25. ASSUME NEW p \in Preparers, Copy(p) PROVE Repaired'
  <2>1. p \in Active
    BY <1>25 DEF Copy, Active, Ended
  <2>2. CASE ~alone[p]
    BY <1>25, <2>1, <2>2, CrowdStays DEF Copy, Continue, Ended
  <2>3. alone[p] => AtWork(p)
    BY AloneFacts
  <2>4. CASE alone[p]
    <3> USE <2>4 DEF AtWork
    <3>1. todo' = [todo EXCEPT ![p] = "mark"] /\ todo[p] = "copy" /\ UNCHANGED <<alone, solo>>
      BY <1>25, <2>3 DEF Copy, Continue
    <3>2. todo'[p] = "mark"
      BY <3>1 DEF CacheKept, LocalForms
    <3>3. Undisturbed(p)'
      BY <1>25, <2>3, <3>1, <3>2 DEF Copy, Undisturbed, Scanned, MarkedHere, Staging, Placing,
                                     Ended, Valid, CacheKept, LocalForms, CacheForms, LeaseForms,
                                     FlagForm, NoteForm, LeaseKept, FlagsKept, Unstaged, Early,
                                     Sweeping, Locking
    <3>4. /\ \A u \in Versions : marker[u] => marker'[u] \/ (want'[p] = u /\ Succeeds(p)')
          /\ Succeeds(p) => Succeeds(p)' /\ want'[p] = want[p]
      BY <1>25, <2>3, <3>1, <3>2 DEF Copy, Succeeds, CacheKept, LocalForms, CacheForms
    <3> QED
      BY <3>1, <3>3, <3>4, AloneMoves DEF Ended
  <2> QED
    BY <2>2, <2>4
<1>26. ASSUME NEW p \in Preparers, PublishQuarantine(p) PROVE Repaired'
  <2>1. p \in Active
    BY <1>26 DEF PublishQuarantine, Active, Ended
  <2>2. CASE ~alone[p]
    BY <1>26, <2>1, <2>2, CrowdStays DEF PublishQuarantine, Continue, Ended
  <2>3. alone[p] => AtWork(p)
    BY AloneFacts
  <2>4. CASE alone[p]
    <3> USE <2>4 DEF AtWork
    <3>1. todo' = [todo EXCEPT ![p] = "look"] /\ todo[p] = "mark" /\ UNCHANGED <<alone, solo>>
      BY <1>26, <2>3 DEF PublishQuarantine, Continue
    <3>2. todo'[p] = "look"
      BY <3>1 DEF CacheKept, LocalForms
    <3>3. Undisturbed(p)'
      BY <1>26, <2>3, <3>1, <3>2 DEF PublishQuarantine, Undisturbed, Scanned, MarkedHere, Staging,
                                     Placing, Ended, Valid, CacheKept, LocalForms, CacheForms,
                                     LeaseForms, FlagForm, NoteForm, LeaseKept, FlagsKept,
                                     Unstaged, Early, Sweeping, Locking, Marked
    <3>4. /\ \A u \in Versions : marker[u] => marker'[u] \/ (want'[p] = u /\ Succeeds(p)')
          /\ Succeeds(p) => Succeeds(p)' /\ want'[p] = want[p]
      BY <1>26, <2>3, <3>1, <3>2 DEF PublishQuarantine, Succeeds, CacheKept, LocalForms,
                                     CacheForms, Marked
    <3> QED
      BY <3>1, <3>3, <3>4, AloneMoves DEF Ended
  <2> QED
    BY <2>2, <2>4
<1>27. ASSUME NEW p \in Preparers, Look(p) PROVE Repaired'
  <2>1. p \in Active
    BY <1>27 DEF Look, Active, Ended
  <2>2. CASE ~alone[p]
    BY <1>27, <2>1, <2>2, CrowdStays DEF Look, Continue, Ended
  <2>3. alone[p] => AtWork(p)
    BY AloneFacts
  <2>4. CASE alone[p]
    <3> USE <2>4 DEF AtWork
    <3>1. CASE Vacant(p)
      <4>1. todo' = [todo EXCEPT ![p] = "place"] /\ todo[p] = "look" /\ UNCHANGED <<alone, solo>>
        BY <1>27, <2>3, <3>1 DEF Look, Continue, Undisturbed, Valid, Vacant, LeaseKept, Locking,
                                 Staging, MarkedHere, Placing, FlagsKept, Unstaged, CacheKept,
                                 LocalForms
      <4>2. todo'[p] = "place"
        BY <4>1 DEF CacheKept, LocalForms
      <4>3. Undisturbed(p)'
        BY <1>27, <2>3, <3>1, <4>1, <4>2 DEF Look, Undisturbed, Scanned, MarkedHere, Staging,
           Placing, Ended, Valid, CacheKept, LocalForms, CacheForms, LeaseForms, FlagForm,
           NoteForm, LeaseKept, FlagsKept, Unstaged, Early, Sweeping, Locking, Vacant
      <4>4. /\ \A u \in Versions : marker[u] => marker'[u] \/ (want'[p] = u /\ Succeeds(p)')
            /\ Succeeds(p) => Succeeds(p)' /\ want'[p] = want[p]
        BY <1>27, <2>3, <3>1, <4>1, <4>2 DEF Look, Succeeds, CacheKept, LocalForms, CacheForms,
           FlagsKept, Placing
      <4> QED
        BY <3>1, <4>1, <4>3, <4>4, AloneMoves DEF Ended
    <3>2. CASE ~Vacant(p)
      <4>1. todo' = [todo EXCEPT ![p] = "validate"] /\ todo[p] = "look"
            /\ UNCHANGED <<alone, solo>>
        BY <1>27, <2>3, <3>2 DEF Look, Continue, Undisturbed, Valid, Vacant, LeaseKept, Locking,
                                 Staging, MarkedHere, Placing, FlagsKept, Unstaged, CacheKept,
                                 LocalForms
      <4>2. todo'[p] = "validate"
        BY <4>1 DEF CacheKept, LocalForms
      <4>3. Undisturbed(p)'
        BY <1>27, <2>3, <3>2, <4>1, <4>2 DEF Look, Undisturbed, Scanned, MarkedHere, Staging,
           Placing, Ended, Valid, CacheKept, LocalForms, CacheForms, LeaseForms, FlagForm,
           NoteForm, LeaseKept, FlagsKept, Unstaged, Early, Sweeping, Locking, Vacant
      <4>4. /\ \A u \in Versions : marker[u] => marker'[u] \/ (want'[p] = u /\ Succeeds(p)')
            /\ Succeeds(p) => Succeeds(p)' /\ want'[p] = want[p]
        BY <1>27, <2>3, <3>2, <4>1, <4>2 DEF Look, Succeeds, CacheKept, LocalForms, CacheForms,
           FlagsKept, Placing
      <4> QED
        BY <3>2, <4>1, <4>3, <4>4, AloneMoves DEF Ended
    <3> QED
      BY <3>1, <3>2
  <2> QED
    BY <2>2, <2>4
<1>28. ASSUME NEW p \in Preparers, Place(p) PROVE Repaired'
  <2>1. p \in Active
    BY <1>28 DEF Place, Active, Ended
  <2>2. CASE ~alone[p]
    BY <1>28, <2>1, <2>2, CrowdStays DEF Place, Continue, Ended, Failing
  <2>3. alone[p] => AtWork(p)
    BY AloneFacts
  <2>4. CASE alone[p]
    <3> USE <2>4 DEF AtWork
    <3>1. todo' = [todo EXCEPT ![p] = "close"] /\ todo[p] = "place" /\ UNCHANGED <<alone, solo>>
      BY <1>28, <2>3 DEF Place, Continue, Undisturbed, Valid, Failing, LeaseKept, Locking,
                         Staging, MarkedHere, Placing, FlagsKept, Unstaged, CacheKept, LocalForms
    <3>2. todo'[p] = "close"
      BY <3>1 DEF CacheKept, LocalForms
    <3>3. Undisturbed(p)'
      BY <1>28, <2>3, <3>1, <3>2 DEF Place, Undisturbed, Scanned, MarkedHere, Staging, Placing,
                                     Ended, Valid, CacheKept, LocalForms, CacheForms, LeaseForms,
                                     FlagForm, NoteForm, LeaseKept, FlagsKept, Unstaged, Early,
                                     Sweeping, Locking, Failing
    <3>4. /\ \A u \in Versions : marker[u] => marker'[u] \/ (want'[p] = u /\ Succeeds(p)')
          /\ Succeeds(p) => Succeeds(p)' /\ want'[p] = want[p]
      BY <1>28, <2>3, <3>1, <3>2 DEF Place, Succeeds, CacheKept, LocalForms, CacheForms,
                                     FlagsKept, Placing
    <3> QED
      BY <3>1, <3>3, <3>4, AloneMoves DEF Ended
  <2> QED
    BY <2>2, <2>4
<1>29. ASSUME NEW p \in Preparers, ValidateFound(p) PROVE Repaired'
  <2>1. p \in Active
    BY <1>29 DEF ValidateFound, Active, Ended
  <2>2. CASE ~alone[p]
    BY <1>29, <2>1, <2>2, CrowdStays DEF ValidateFound, Continue, Ended, Failing
  <2>3. alone[p] => AtWork(p)
    BY AloneFacts
  <2>4. CASE alone[p]
    <3> USE <2>4 DEF AtWork
    <3>1. CASE Valid(want[p])
      <4>1. todo' = [todo EXCEPT ![p] = "probeMarker"] /\ todo[p] = "validate"
            /\ UNCHANGED <<alone, solo>>
        BY <1>29, <2>3, <3>1 DEF ValidateFound, Continue, Undisturbed, Valid, Failing, LeaseKept,
                                 Locking, Staging, MarkedHere, Placing, FlagsKept, Unstaged,
                                 CacheKept, LocalForms
      <4>2. todo'[p] = "probeMarker"
        BY <4>1 DEF CacheKept, LocalForms
      <4>3. Undisturbed(p)'
        BY <1>29, <2>3, <3>1, <4>1, <4>2 DEF ValidateFound, Undisturbed, Scanned, MarkedHere,
           Staging, Placing, Ended, Valid, CacheKept, LocalForms, CacheForms, LeaseForms,
           FlagForm, NoteForm, LeaseKept, FlagsKept, Unstaged, Early, Sweeping, Locking, Failing
      <4>4. /\ \A u \in Versions : marker[u] => marker'[u] \/ (want'[p] = u /\ Succeeds(p)')
            /\ Succeeds(p) => Succeeds(p)' /\ want'[p] = want[p]
        BY <1>29, <2>3, <3>1, <4>1, <4>2 DEF ValidateFound, Succeeds, CacheKept, LocalForms,
           CacheForms, FlagsKept, Placing
      <4> QED
        BY <3>1, <4>1, <4>3, <4>4, AloneMoves DEF Ended
    <3>2. CASE ~Valid(want[p]) /\ want[p] \in noted[p].marked
      <4>1. todo' = [todo EXCEPT ![p] = "replacing"] /\ todo[p] = "validate"
            /\ UNCHANGED <<alone, solo>>
        BY <1>29, <2>3, <3>2 DEF ValidateFound, Continue, Undisturbed, Valid, Failing, LeaseKept,
                                 Locking, Staging, MarkedHere, Placing, FlagsKept, Unstaged,
                                 CacheKept, LocalForms
      <4>2. todo'[p] = "replacing"
        BY <4>1 DEF CacheKept, LocalForms
      <4>3. Undisturbed(p)'
        BY <1>29, <2>3, <3>2, <4>1, <4>2 DEF ValidateFound, Undisturbed, Scanned, MarkedHere,
           Staging, Placing, Ended, Valid, CacheKept, LocalForms, CacheForms, LeaseForms,
           FlagForm, NoteForm, LeaseKept, FlagsKept, Unstaged, Early, Sweeping, Locking, Failing
      <4>4. /\ \A u \in Versions : marker[u] => marker'[u] \/ (want'[p] = u /\ Succeeds(p)')
            /\ Succeeds(p) => Succeeds(p)' /\ want'[p] = want[p]
        BY <1>29, <2>3, <3>2, <4>1, <4>2 DEF ValidateFound, Succeeds, CacheKept, LocalForms,
           CacheForms, FlagsKept, Placing
      <4> QED
        BY <3>2, <4>1, <4>3, <4>4, AloneMoves DEF Ended
    <3>3. CASE ~Valid(want[p]) /\ want[p] \notin noted[p].marked
      <4>1. Failing(p) /\ todo[p] = "validate"
            /\ UNCHANGED <<cache, want, noted, lease, alone, solo>>
        BY <1>29, <3>3 DEF ValidateFound
      <4>2. flags[p] = Unstaged /\ marker[want[p]] /\ solo[want[p]] = 0
        BY <2>3, <3>3, <4>1, MarkedBefore DEF Undisturbed, FlagsKept, Staging, Scanned,
           MarkedHere, Succeeds
      <4>3. todo' = [todo EXCEPT ![p] = "failing"]
        BY <4>1, <4>2 DEF Failing, Continue, Unstaged
      <4>4. todo'[p] = "failing" /\ flags'[p].failing /\ ~flags'[p].placed /\ ~Succeeds(p)
        BY <4>1, <4>2, <4>3 DEF Failing, CacheKept, LocalForms, Unstaged, Succeeds
      <4>5. Undisturbed(p)'
        BY <2>3, <4>1, <4>2, <4>4 DEF Undisturbed, Scanned, MarkedHere, Staging, Placing, Ended,
                                      Valid
      <4> QED
        BY <4>1, <4>3, <4>4, <4>5, AloneMoves DEF Ended
    <3> QED
      BY <1>29, <3>1, <3>2, <3>3
  <2> QED
    BY <2>2, <2>4
<1>30. ASSUME NEW p \in Preparers, ReplaceInvalid(p) PROVE Repaired'
  <2>1. p \in Active
    BY <1>30 DEF ReplaceInvalid, Active, Ended
  <2>2. CASE ~alone[p]
    BY <1>30, <2>1, <2>2, CrowdStays DEF ReplaceInvalid, Continue, Ended
  <2>3. alone[p] => AtWork(p)
    BY AloneFacts
  <2>4. CASE alone[p]
    <3> USE <2>4 DEF AtWork
    <3>1. todo' = [todo EXCEPT ![p] = "place"] /\ todo[p] = "replacing"
          /\ UNCHANGED <<alone, solo>>
      BY <1>30, <2>3 DEF ReplaceInvalid, Continue, Undisturbed, Valid, LeaseKept,
                         Locking, Staging, MarkedHere, Placing, FlagsKept, Unstaged, CacheKept,
                         LocalForms
    <3>2. todo'[p] = "place"
      BY <3>1 DEF CacheKept, LocalForms
    <3>3. Undisturbed(p)'
      BY <1>30, <2>3, <3>1, <3>2 DEF ReplaceInvalid, Undisturbed, Scanned, MarkedHere, Staging,
                                     Placing, Ended, Valid, CacheKept, LocalForms, CacheForms,
                                     LeaseForms, FlagForm, NoteForm, LeaseKept, FlagsKept,
                                     Unstaged, Early, Sweeping, Locking
    <3>4. /\ \A u \in Versions : marker[u] => marker'[u] \/ (want'[p] = u /\ Succeeds(p)')
          /\ Succeeds(p) => Succeeds(p)' /\ want'[p] = want[p]
      BY <1>30, <2>3, <3>1, <3>2 DEF ReplaceInvalid, Succeeds, CacheKept, LocalForms, CacheForms,
                                     FlagsKept, Placing
    <3> QED
      BY <3>1, <3>3, <3>4, AloneMoves DEF Ended
  <2> QED
    BY <2>2, <2>4
<1>31. ASSUME NEW p \in Preparers, CloseLease(p) PROVE Repaired'
  <2>1. p \in Active
    BY <1>31 DEF CloseLease, Active, Ended
  <2>2. CASE ~alone[p]
    BY <1>31, <2>1, <2>2, CrowdStays DEF CloseLease, Continue, Ended
  <2>3. alone[p] => AtWork(p)
    BY AloneFacts
  <2>4. CASE alone[p]
    <3> USE <2>4 DEF AtWork
    <3>1. todo' = [todo EXCEPT ![p] = "unlink"] /\ todo[p] = "close" /\ UNCHANGED <<alone, solo>>
      BY <1>31, <2>3 DEF CloseLease, Continue
    <3>2. todo'[p] = "unlink"
      BY <3>1 DEF CacheKept, LocalForms
    <3>3. Undisturbed(p)'
      BY <1>31, <2>3, <3>1, <3>2 DEF CloseLease, Undisturbed, Scanned, MarkedHere, Staging,
                                     Placing, Ended, Valid, CacheKept, LocalForms, CacheForms,
                                     LeaseForms, FlagForm, NoteForm, LeaseKept, FlagsKept,
                                     Unstaged, Early, Sweeping, Locking
    <3>4. /\ \A u \in Versions : marker[u] => marker'[u] \/ (want'[p] = u /\ Succeeds(p)')
          /\ Succeeds(p) => Succeeds(p)' /\ want'[p] = want[p]
      BY <1>31, <2>3, <3>1, <3>2 DEF CloseLease, Succeeds, CacheKept, LocalForms, CacheForms
    <3> QED
      BY <3>1, <3>3, <3>4, AloneMoves DEF Ended
  <2> QED
    BY <2>2, <2>4
<1>32. ASSUME NEW p \in Preparers, UnlinkLease(p) PROVE Repaired'
  <2>1. p \in Active
    BY <1>32 DEF UnlinkLease, Active, Ended
  <2>2. CASE ~alone[p]
    BY <1>32, <2>1, <2>2, CrowdStays DEF UnlinkLease, Continue, Ended, Failing
  <2>3. alone[p] => AtWork(p)
    BY AloneFacts
  <2>4. CASE alone[p]
    <3> USE <2>4 DEF AtWork
    <3>1. todo' = [todo EXCEPT ![p] = "revalidate"] /\ todo[p] = "unlink"
          /\ UNCHANGED <<alone, solo>>
      BY <1>32, <2>3 DEF UnlinkLease, Continue, Undisturbed, Valid, Failing, LeaseKept, Locking,
                         Staging, MarkedHere, Placing, FlagsKept, Unstaged, CacheKept, LocalForms
    <3>2. todo'[p] = "revalidate"
      BY <3>1 DEF CacheKept, LocalForms
    <3>3. Undisturbed(p)'
      BY <1>32, <2>3, <3>1, <3>2 DEF UnlinkLease, Undisturbed, Scanned, MarkedHere, Staging,
                                     Placing, Ended, Valid, CacheKept, LocalForms, CacheForms,
                                     LeaseForms, FlagForm, NoteForm, LeaseKept, FlagsKept,
                                     Unstaged, Early, Sweeping, Locking, Unlink, Failing
    <3>4. /\ \A u \in Versions : marker[u] => marker'[u] \/ (want'[p] = u /\ Succeeds(p)')
          /\ Succeeds(p) => Succeeds(p)' /\ want'[p] = want[p]
      BY <1>32, <2>3, <3>1, <3>2 DEF UnlinkLease, Succeeds, CacheKept, LocalForms, CacheForms,
                                     FlagsKept, Placing
    <3> QED
      BY <3>1, <3>3, <3>4, AloneMoves DEF Ended
  <2> QED
    BY <2>2, <2>4
<1>33. ASSUME NEW p \in Preparers, Revalidate(p) PROVE Repaired'
  <2>1. p \in Active
    BY <1>33 DEF Revalidate, Active, Ended
  <2>2. CASE ~alone[p]
    BY <1>33, <2>1, <2>2, CrowdStays DEF Revalidate, Continue, Ended, Failing
  <2>3. alone[p] => AtWork(p)
    BY AloneFacts
  <2>4. CASE alone[p]
    <3> USE <2>4 DEF AtWork
    <3>1. todo' = [todo EXCEPT ![p] = "probeMarker"] /\ todo[p] = "revalidate"
          /\ UNCHANGED <<alone, solo>>
      BY <1>33, <2>3 DEF Revalidate, Continue, Undisturbed, Valid, Failing, LeaseKept, Locking,
                         Staging, MarkedHere, Placing, FlagsKept, Unstaged, CacheKept, LocalForms
    <3>2. todo'[p] = "probeMarker"
      BY <3>1 DEF CacheKept, LocalForms
    <3>3. Undisturbed(p)'
      BY <1>33, <2>3, <3>1, <3>2 DEF Revalidate, Undisturbed, Scanned, MarkedHere, Staging,
                                     Placing, Ended, Valid, CacheKept, LocalForms, CacheForms,
                                     LeaseForms, FlagForm, NoteForm, LeaseKept, FlagsKept,
                                     Unstaged, Early, Sweeping, Locking, Failing
    <3>4. /\ \A u \in Versions : marker[u] => marker'[u] \/ (want'[p] = u /\ Succeeds(p)')
          /\ Succeeds(p) => Succeeds(p)' /\ want'[p] = want[p]
      BY <1>33, <2>3, <3>1, <3>2 DEF Revalidate, Succeeds, CacheKept, LocalForms, CacheForms,
                                     FlagsKept, Placing
    <3> QED
      BY <3>1, <3>3, <3>4, AloneMoves DEF Ended
  <2> QED
    BY <2>2, <2>4
<1>34. ASSUME NEW p \in Preparers, ProbeMarker(p) PROVE Repaired'
  <2>1. p \in Active
    BY <1>34 DEF ProbeMarker, Active, Ended
  <2>2. CASE ~alone[p]
    BY <1>34, <2>1, <2>2, CrowdStays DEF ProbeMarker, Continue, Ended
  <2>3. alone[p] => AtWork(p)
    BY AloneFacts
  <2>4. CASE alone[p]
    <3> USE <2>4 DEF AtWork
    <3>1. todo' = [todo EXCEPT ![p] = "clear"] /\ todo[p] = "probeMarker"
          /\ UNCHANGED <<alone, solo>>
      BY <1>34, <2>3 DEF ProbeMarker, Continue, Undisturbed, Valid, LeaseKept, Locking, Staging,
                         MarkedHere, Placing, FlagsKept, Unstaged, CacheKept, LocalForms
    <3>2. todo'[p] = "clear"
      BY <3>1 DEF CacheKept, LocalForms
    <3>3. Undisturbed(p)'
      BY <1>34, <2>3, <3>1, <3>2 DEF ProbeMarker, Undisturbed, Scanned, MarkedHere, Staging,
                                     Placing, Ended, Valid, CacheKept, LocalForms, CacheForms,
                                     LeaseForms, FlagForm, NoteForm, LeaseKept, FlagsKept,
                                     Unstaged, Early, Sweeping, Locking
    <3>4. /\ \A u \in Versions : marker[u] => marker'[u] \/ (want'[p] = u /\ Succeeds(p)')
          /\ Succeeds(p) => Succeeds(p)' /\ want'[p] = want[p]
      BY <1>34, <2>3, <3>1, <3>2 DEF ProbeMarker, Succeeds, CacheKept, LocalForms, CacheForms,
                                     FlagsKept, Placing
    <3> QED
      BY <3>1, <3>3, <3>4, AloneMoves DEF Ended
  <2> QED
    BY <2>2, <2>4
<1>35. ASSUME NEW p \in Preparers, ClearMarker(p) PROVE Repaired'
  <2>1. p \in Active
    BY <1>35 DEF ClearMarker, Active, Ended
  <2>2. CASE ~alone[p]
    BY <1>35, <2>1, <2>2, CrowdStays DEF ClearMarker, Continue, Ended, Failing
  <2>3. alone[p] => AtWork(p)
    BY AloneFacts
  <2>4. CASE alone[p]
    <3> USE <2>4 DEF AtWork
    <3>1. todo' = [todo EXCEPT ![p] = "dropLease"] /\ todo[p] = "clear"
          /\ UNCHANGED <<alone, solo>>
      BY <1>35, <2>3 DEF ClearMarker, Continue, Undisturbed, Valid, Failing, LeaseKept, Locking,
                         Staging, MarkedHere, Placing, FlagsKept, Unstaged, CacheKept, LocalForms
    <3>2. todo'[p] = "dropLease"
      BY <3>1 DEF CacheKept, LocalForms
    <3>3. Undisturbed(p)'
      BY <1>35, <2>3, <3>1, <3>2 DEF ClearMarker, Undisturbed, Scanned, MarkedHere, Staging,
                                     Placing, Ended, Valid, CacheKept, LocalForms, CacheForms,
                                     LeaseForms, FlagForm, NoteForm, LeaseKept, FlagsKept,
                                     Unstaged, Early, Sweeping, Locking, Failing
    <3>4. /\ \A u \in Versions : marker[u] => marker'[u] \/ (want'[p] = u /\ Succeeds(p)')
          /\ Succeeds(p) => Succeeds(p)' /\ want'[p] = want[p]
      BY <1>35, <2>3, <3>1, <3>2 DEF ClearMarker, Succeeds, CacheKept, LocalForms, CacheForms,
                                     FlagsKept, Placing
    <3> QED
      BY <3>1, <3>3, <3>4, AloneMoves DEF Ended
  <2> QED
    BY <2>2, <2>4
<1>36. ASSUME NEW p \in Preparers, ProbeFailed(p) PROVE Repaired'
  <2>1. p \in Active
    BY <1>36 DEF ProbeFailed, Active, Ended
  <2>2. CASE ~alone[p]
    BY <1>36, <2>1, <2>2, CrowdStays DEF ProbeFailed, Continue, Ended
  <2>3. alone[p] => AtWork(p)
    BY AloneFacts
  <2>4. CASE alone[p]
    <3> USE <2>4 DEF AtWork
    <3>1. todo' = [todo EXCEPT ![p] = "remark"] /\ todo[p] = "failing"
          /\ UNCHANGED <<alone, solo>>
      BY <1>36, <2>3 DEF ProbeFailed, Continue, Undisturbed, Valid, LeaseKept, Locking, Staging,
                         MarkedHere, ConcurrentCommit, Placing, FlagsKept, Unstaged, CacheKept,
                         LocalForms
    <3>2. todo'[p] = "remark"
      BY <3>1 DEF CacheKept, LocalForms
    <3>3. Undisturbed(p)'
      BY <1>36, <2>3, <3>1, <3>2 DEF ProbeFailed, Undisturbed, Scanned, MarkedHere, Staging,
                                     Placing, Ended, Valid, CacheKept, LocalForms, CacheForms,
                                     LeaseForms, FlagForm, NoteForm, LeaseKept, FlagsKept,
                                     Unstaged, Early, Sweeping, Locking, ConcurrentCommit
    <3>4. /\ \A u \in Versions : marker[u] => marker'[u] \/ (want'[p] = u /\ Succeeds(p)')
          /\ Succeeds(p) => Succeeds(p)' /\ want'[p] = want[p]
      BY <1>36, <2>3, <3>1, <3>2 DEF ProbeFailed, Succeeds, CacheKept, LocalForms, CacheForms,
                                     FlagsKept, Placing
    <3> QED
      BY <3>1, <3>3, <3>4, AloneMoves DEF Ended
  <2> QED
    BY <2>2, <2>4
<1>37. ASSUME NEW p \in Preparers, Remark(p) PROVE Repaired'
  <2>1. p \in Active
    BY <1>37 DEF Remark, Active, Ended
  <2>2. CASE ~alone[p]
    BY <1>37, <2>1, <2>2, CrowdStays DEF Remark, Continue, Ended
  <2>3. alone[p] => AtWork(p)
    BY AloneFacts
  <2>4. CASE alone[p]
    <3> USE <2>4 DEF AtWork
    <3>1. todo' = [todo EXCEPT ![p] = "dropLease"] /\ todo[p] = "remark"
          /\ UNCHANGED <<alone, solo>>
      BY <1>37, <2>3 DEF Remark, Continue
    <3>2. todo'[p] = "dropLease"
      BY <3>1 DEF CacheKept, LocalForms
    <3>3. Undisturbed(p)'
      BY <1>37, <2>3, <3>1, <3>2 DEF Remark, Undisturbed, Scanned, MarkedHere, Staging, Placing,
                                     Ended, Valid, CacheKept, LocalForms, CacheForms, LeaseForms,
                                     FlagForm, NoteForm, LeaseKept, FlagsKept, Unstaged, Early,
                                     Sweeping, Locking, Marked
    <3>4. /\ \A u \in Versions : marker[u] => marker'[u] \/ (want'[p] = u /\ Succeeds(p)')
          /\ Succeeds(p) => Succeeds(p)' /\ want'[p] = want[p]
      BY <1>37, <2>3, <3>1, <3>2 DEF Remark, Succeeds, CacheKept, LocalForms, CacheForms, Marked
    <3> QED
      BY <3>1, <3>3, <3>4, AloneMoves DEF Ended
  <2> QED
    BY <2>2, <2>4
<1>38. ASSUME NEW p \in Preparers, DropLease(p) PROVE Repaired'
  <2>1. p \in Active
    BY <1>38 DEF DropLease, Active, Ended
  <2>2. CASE ~alone[p]
    BY <1>38, <2>1, <2>2, CrowdStays DEF DropLease, Continue, Ended
  <2>3. alone[p] => AtWork(p)
    BY AloneFacts
  <2>4. CASE alone[p]
    <3> USE <2>4 DEF AtWork
    <3>1. todo' = [todo EXCEPT ![p] = "dropStage"] /\ todo[p] = "dropLease"
          /\ UNCHANGED <<alone, solo>>
      BY <1>38, <2>3 DEF DropLease, Continue
    <3>2. todo'[p] = "dropStage"
      BY <3>1 DEF CacheKept, LocalForms
    <3>3. Undisturbed(p)'
      BY <1>38, <2>3, <3>1, <3>2 DEF DropLease, Undisturbed, Scanned, MarkedHere, Staging,
                                     Placing, Ended, Valid, CacheKept, LocalForms, CacheForms,
                                     LeaseForms, FlagForm, NoteForm, LeaseKept, FlagsKept,
                                     Unstaged, Early, Sweeping, Locking, Unlink
    <3>4. /\ \A u \in Versions : marker[u] => marker'[u] \/ (want'[p] = u /\ Succeeds(p)')
          /\ Succeeds(p) => Succeeds(p)' /\ want'[p] = want[p]
      BY <1>38, <2>3, <3>1, <3>2 DEF DropLease, Succeeds, CacheKept, LocalForms, CacheForms
    <3> QED
      BY <3>1, <3>3, <3>4, AloneMoves DEF Ended
  <2> QED
    BY <2>2, <2>4
<1>39. ASSUME NEW p \in Preparers, DropStage(p) PROVE Repaired'
  <2>1. p \in Active
    BY <1>39 DEF DropStage, Active, Ended
  <2>2. CASE ~alone[p]
    BY <1>39, <2>1, <2>2, CrowdStays, CrowdFallsBack DEF DropStage, Continue, Ended
  <2>3. alone[p] => AtWork(p)
    BY AloneFacts
  <2>4. CASE alone[p]
    <3> USE <2>4 DEF AtWork
    <3> DEFINE after == IF flags[p].failing THEN "acquire" ELSE "companion"
    <3>1. ~Withdraws(p) /\ todo[p] = "dropStage" /\ UNCHANGED <<cache, lease, failures>>
      BY <1>39, <2>3 DEF DropStage, Withdraws, Undisturbed
    <3>2. CASE ~flags[p].failing
      <4>1. todo' = [todo EXCEPT ![p] = "companion"]
            /\ UNCHANGED <<alone, solo, want, flags, noted>>
        BY <1>39, <3>1, <3>2 DEF DropStage, Continue
      <4>2. todo'[p] = "companion" /\ Succeeds(p)'
        BY <4>1 DEF CacheKept, LocalForms, Succeeds
      <4>3. Undisturbed(p)'
        BY <2>3, <3>1, <3>2, <4>1, <4>2 DEF Undisturbed, Scanned, MarkedHere, Staging, Placing,
           Ended, Valid
      <4> QED
        BY <3>1, <4>1, <4>2, <4>3, AloneMoves DEF Ended
    <3>3. CASE flags[p].failing /\ noted[p].valid # {}
      <4>1. todo' = [todo EXCEPT ![p] = "acquire"] /\ UNCHANGED <<solo, noted>>
            /\ alone' = [alone EXCEPT ![p] = @ /\ alone[p]]
        BY <1>39, <3>1, <3>3 DEF DropStage, FallBack, Continue
      <4>2. \E v \in noted[p].valid : want' = [want EXCEPT ![p] = v]
        BY <1>39, <3>1, <3>3 DEF DropStage, FallBack
      <4>3. UNCHANGED alone
        BY <4>1 DEF CacheKept, LocalForms
      <4>4. todo'[p] = "acquire" /\ ~Succeeds(p)
        BY <3>1, <3>3, <4>1 DEF CacheKept, LocalForms, Succeeds
      <4>5. Valid(want[p])'
        BY <2>3, <3>1, <4>2 DEF Undisturbed, Valid, NoteForm, CacheKept, LocalForms
      <4>6. Undisturbed(p)'
        BY <4>4, <4>5 DEF Undisturbed, Scanned, MarkedHere, Staging, Placing, Ended
      <4> QED
        BY <3>1, <4>1, <4>3, <4>4, <4>6, AloneMoves DEF Ended
    <3>4. CASE flags[p].failing /\ noted[p].valid = {}
      <4>1. Finishes(p, "over", alone[p])
        BY <1>39, <3>1, <3>4 DEF DropStage, FallBack
      <4>2. solo' = [solo EXCEPT ![want[p]] = @ + 1] /\ alone' = [alone EXCEPT ![p] = FALSE]
        BY <4>1 DEF Finishes
      <4>3. marker[want[p]] /\ solo[want[p]] = 0
        BY <2>3, <3>1, <3>4 DEF Undisturbed
      <4>4. \A v \in Versions : solo[v] \in {0, 1} /\ (solo[v] # 0 => marker[v])
        BY <3>1, <3>4, MarkedBefore DEF Succeeds
      <4>5. \A v \in Versions : solo'[v] <= 1 /\ (solo'[v] = 1 => marker'[v])
        BY <2>3, <3>1, <4>2, <4>3, <4>4 DEF CacheKept, LocalForms
      <4> QED
        BY <4>2, <4>5, AloneEnds
    <3> QED
      BY <3>2, <3>3, <3>4
  <2> QED
    BY <2>2, <2>4
<1>40. ASSUME NEW p \in Preparers, Withdraw(p) PROVE Repaired'
  <2>1. p \in Active
    BY <1>40 DEF Withdraw, Active, Ended
  <2>2. CASE ~alone[p]
    BY <1>40, <2>1, <2>2, CrowdStays DEF Withdraw, Continue, Ended
  <2>3. CASE alone[p]
    BY <1>40, <2>3, AloneFacts DEF AtWork, Withdraw, Undisturbed
  <2> QED
    BY <2>2, <2>3
<1>41. ASSUME NEW p \in Preparers, Withdrawn(p) PROVE Repaired'
  <2>1. p \in Active
    BY <1>41 DEF Withdrawn, Active, Ended
  <2>2. CASE ~alone[p]
    BY <1>41, <2>1, <2>2, CrowdStays, CrowdFallsBack DEF Withdrawn, Ended
  <2>3. CASE alone[p]
    BY <1>41, <2>3, AloneFacts DEF AtWork, Withdrawn, Undisturbed
  <2> QED
    BY <2>2, <2>3
<1>42. ASSUME NEW p \in Preparers, AccessFails(p) PROVE Repaired'
  <2>1. p \in Active
    BY <1>42 DEF AccessFails, Active, Ended
  <2>2. CASE ~alone[p]
    BY <1>42, <2>1, <2>2, CrowdStays, CrowdFallsBack DEF AccessFails, Continue, Ended, Failing
  <2>3. alone[p] => AtWork(p)
    BY AloneFacts
  <2>4. CASE alone[p]
    <3> USE <2>4 DEF AtWork
    <3>1. CASE FallBack(p, FALSE) /\ noted[p].valid = {}
      <4>1. solo' = Unfailed /\ alone' = [alone EXCEPT ![p] = FALSE]
        BY <3>1 DEF FallBack, Finishes
      <4>2. \A v \in Versions : solo'[v] = 0
        BY <4>1 DEF Unfailed
      <4>3. \A v \in Versions : solo'[v] <= 1 /\ (solo'[v] = 1 => marker'[v])
        BY <4>2
      <4> QED
        BY <4>1, <4>3, AloneEnds
    <3>2. CASE FallBack(p, FALSE) /\ noted[p].valid # {}
      <4>1. UNCHANGED solo /\ alone' = [alone EXCEPT ![p] = FALSE]
            /\ todo' = [todo EXCEPT ![p] = "acquire"]
        BY <3>2 DEF FallBack, Continue
      <4> QED
        BY <4>1, AloneNoMore DEF Ended
    <3>3. CASE ~FallBack(p, FALSE)
      <4>1. UNCHANGED solo /\ alone' = [alone EXCEPT ![p] = FALSE]
            /\ \E s \in {"dropLease", "remark", "failing"} : todo' = [todo EXCEPT ![p] = s]
        BY <1>42, <3>3 DEF AccessFails, Failing, Continue
      <4> QED
        BY <4>1, AloneNoMore DEF Ended
    <3> QED
      BY <3>1, <3>2, <3>3
  <2> QED
    BY <2>2, <2>4
<1>43. ASSUME NEW p \in Preparers, PreparerCrashes(p) PROVE Repaired'
  <2>1. Finishes(p, "over", FALSE) /\ p \in Active
    BY <1>43 DEF PreparerCrashes
  <2>2. CASE ~alone[p]
    BY <2>1, <2>2, CrowdEnds
  <2>3. CASE alone[p]
    <3>1. solo' = Unfailed /\ alone' = [alone EXCEPT ![p] = FALSE]
      BY <2>1 DEF Finishes
    <3>2. \A v \in Versions : solo'[v] = 0
      BY <3>1 DEF Unfailed
    <3>3. \A v \in Versions : solo'[v] <= 1 /\ (solo'[v] = 1 => marker'[v])
      BY <3>2
    <3> QED
      BY <2>3, <3>1, <3>3, AloneEnds
  <2> QED
    BY <2>2, <2>3
<1>44. ASSUME NEW p \in Preparers, Age(p) PROVE Repaired'
  <2>1. UNCHANGED <<cache, lease, holder, stage, todo, local, cacheHistory>>
    BY <1>44 DEF Age
  <2> QED
    BY <2>1 DEF Repaired, NobodyDisturbs, Succeeds, Undisturbed, Active, Valid
<1> QED
  BY <1>1, <1>11, <1>12, <1>13, <1>14, <1>15, <1>16, <1>17, <1>18, <1>19, <1>20, <1>21, <1>22,
     <1>23, <1>24, <1>25, <1>26, <1>27, <1>28, <1>29, <1>30, <1>31, <1>32, <1>33, <1>34, <1>35,
     <1>36, <1>37, <1>38, <1>39, <1>40, <1>41, <1>42, <1>43, <1>44 DEF CacheNext, Sweep, Prepare,
     Stage

-----------------------------------------------------------------------------
(* RuntimeCache: the results *)

\* The inductive invariant of a directory of executables.
CacheInv == CacheKept /\ Unmarked /\ Repaired

LEMMA CacheStart == CacheInit => CacheInv
<1> SUFFICES ASSUME CacheInit PROVE CacheInv
  OBVIOUS
<1>1. LocalForms
  BY DEF CacheInit, LocalForms, PreparerSteps, Ended, Unlisted, Unseen, Unstaged, Unfailed,
         ListForm, NoteForm, FlagForm
<1>2. CacheForms /\ LeaseForms
  BY DEF CacheInit, CacheForms, LeaseForms, Finals
<1>3. LeasesKept
  BY CacheAssumption DEF CacheInit, LeasesKept, LeaseKept, Early, Locking, Later, Staging,
                         Placing, Sweeping, Unlisted
<1>4. FlagsFit
  BY DEF CacheInit, FlagsFit, FlagsKept, Placing
<1>5. Unmarked
  BY DEF CacheInit, Unmarked, Orderly, Offered, Untouched, Valid, Staging, Placing, Ended,
         Unstaged
<1>6. Repaired
  BY DEF CacheInit, Repaired, Unfailed
<1> QED
  BY <1>1, <1>2, <1>3, <1>4, <1>5, <1>6 DEF CacheInv, CacheKept

LEMMA CacheStep == CacheInv /\ [CacheNext]_cacheVars => CacheInv'
<1> SUFFICES ASSUME CacheInv, [CacheNext]_cacheVars PROVE CacheInv'
  OBVIOUS
<1>1. LocalForms' /\ CacheForms' /\ LeaseForms'
  BY CacheAssumption, LocalTypes, CacheTypes, LeaseTypes DEF CacheInv, CacheKept
<1>2. LeasesKept' /\ FlagsFit'
  BY CacheAssumption, LeasesStay, FlagsStay DEF CacheInv
<1>3. Unmarked' /\ Repaired'
  BY CacheAssumption, UnmarkedStays, RepairedStays DEF CacheInv
<1> QED
  BY <1>1, <1>2, <1>3 DEF CacheInv, CacheKept

\* Sweeping takes no staging directory of a preparation at work, and as long as
\* accesses only fail by interference or a crash, an executable without its marker
\* has been validated where it is (CodexRuntimePreparer).
THEOREM CacheStaysSound == CacheSpec => []CacheIsSound
<1>1. ASSUME CacheInv PROVE CacheIsSound
  <2>1. LiveStageKept
    BY <1>1 DEF CacheInv, CacheKept, LeasesKept, LeaseKept, LiveStageKept, Staging
  <2>2. UnmarkedIsProven
    BY <1>1 DEF CacheInv, Unmarked, Orderly, Offered, UnmarkedIsProven
  <2> QED
    BY <2>1, <2>2 DEF CacheIsSound
<1> QED
  BY <1>1, CacheStart, CacheStep, PTL DEF CacheSpec

\* Whatever was left behind of a version, of two preparations of it in a row that
\* nothing disturbs the second succeeds (prepare_verified).
THEOREM PreparationsRecover == CacheSpec => []Recovers
<1>1. CacheInv => Recovers
  BY DEF CacheInv, Repaired, Recovers
<1> QED
  BY <1>1, CacheStart, CacheStep, PTL DEF CacheSpec
=============================================================================
