------------------------------ MODULE AgentRun ------------------------------
(***************************************************************************)
(* GuardedCodingAgentRunner of codex_runner.py with its two transports,    *)
(* CodexRunner and ClaudeRunner: the calls of one workflow run, one after  *)
(* another.  A call checks the worktree, starts the agent as a process     *)
(* tree of its own, waits for it with a deadline, ends what is left of it, *)
(* keeps the conversation, and accepts the answer only if the worktree is  *)
(* what it was before (read-only stages) and stays still while it is       *)
(* looked at.                                                              *)
(*                                                                         *)
(* The tree is its leader and one descendant, which may hold the output    *)
(* pipes open and may ignore SIGTERM.  Contents of the worktree are only   *)
(* compared.  Waiting with a limit is a step that either ends with what    *)
(* is waited for or without it.                                            *)
(***************************************************************************)
EXTENDS Naturals

CONSTANTS Contents,      \* what the files of the worktree can be
          None,          \* ... and the absence of one
          MaxSessions    \* bound: conversations that are ever begun

ASSUME AgentAssumption ==
    None \notin Contents /\ MaxSessions \in Nat \ {0}

VARIABLES
    posix, provider,        \* a group is signalled, on Windows a job is closed; the agent
    content, headMoved,     \* the worktree, and its HEAD
    session,                \* the conversation that is kept, 0 for none
    pending,                \* a root-cause answer kept for repair
    reported,               \* the activity of a finished Codex turn is on file
    phase, kind,            \* next step of the kind, and what it was asked for
    leader, helper, holds,  \* its processes, and whether the helper holds a pipe
    signalled,              \* SIGTERM has been sent to them
    left,                   \* processes of earlier calls that can write
    reply,                  \* what the agent has answered
    baseline, first,        \* snapshots the call compares with
    begun,                  \* history: conversations begun
    trace                   \* history: what a call found, and left if only to read

tree      == <<leader, helper, holds, signalled, left>>
kept      == <<session, pending, reported>>
seen      == <<reply, baseline, first>>
history   == <<begun, trace>>
machine   == <<posix, provider>>
agentVars == <<machine, content, headMoved, kept, phase, kind, tree, seen, history>>

Providers == {"codex", "claude"}
Kinds     == {"analysis", "work", "review"}
CallSteps == {"idle", "guard", "invoke", "poll", "wait", "expired", "join", "rejoin",
              "collect", "validate", "compare"}
Running   == {"obeys", "deaf"}
Alive     == leader \in Running \/ helper \in Running

Unanswered == [exit |-> "none", session |-> 0, valid |-> FALSE]
Untraced   == [found |-> None, left |-> None]

AgentInit ==
    /\ posix \in BOOLEAN /\ provider \in Providers
    /\ content \in Contents /\ headMoved = FALSE
    /\ session = 0 /\ pending = "none" /\ reported = FALSE
    /\ phase = "idle" /\ kind = "work"
    /\ leader = "none" /\ helper = "none" /\ holds = FALSE /\ signalled = FALSE /\ left = FALSE
    /\ reply = Unanswered /\ baseline = None /\ first = None
    /\ begun = 0 /\ trace = Untraced

ReadOnly == kind # "work"

GoOn(step) == phase' = step

-----------------------------------------------------------------------------
(* A stage asks for a call *)

(* A root-cause stage looks for a kept answer first, and takes the activity  *)
(* of any finished Codex turn for one.                                       *)
Recoverable == pending # "none" \/ reported

Ask(asked) ==
    /\ phase = "idle" /\ (asked = "analysis" => ~Recoverable)
    /\ session = 0 => begun < MaxSessions
    /\ kind' = asked /\ trace' = Untraced
    /\ GoOn("guard")
    /\ UNCHANGED <<machine, content, headMoved, kept, tree, seen, begun>>

(* repair_pending_root_cause_result starts no agent.  An answer is rejected  *)
(* again unless the rules have changed; activity never is a valid answer.    *)
Repair ==
    /\ phase = "idle" /\ Recoverable
    /\ pending' = IF pending = "acceptable" THEN "none" ELSE pending
    /\ UNCHANGED <<machine, content, headMoved, session, reported, phase, kind, tree, seen,
                   history>>

(* A later release accepts what this one rejects.                            *)
ChangeRules ==
    /\ phase = "idle" /\ pending = "rejected"
    /\ pending' = "acceptable"
    /\ UNCHANGED <<machine, content, headMoved, session, reported, phase, kind, tree, seen,
                   history>>

\* Mistake: the baseline is left to the comparison after the agent has run.
BaselineLater == None

\* The read-only baseline of run and run_group.
Baseline == IF ReadOnly THEN content ELSE None

(* assert_head_unchanged and the baseline, ahead of the agent.               *)
Guard ==
    /\ phase = "guard" /\ ~headMoved
    /\ baseline' = Baseline
    /\ trace' = [trace EXCEPT !.found = content]
    /\ GoOn("invoke")
    /\ UNCHANGED <<machine, content, headMoved, kept, kind, tree, reply, first, begun>>

(* _invoke: a new conversation, or the one that is kept; the process is the  *)
(* first of a group or of a job.  Its activity displaces older activity.     *)
Launch ==
    /\ phase = "invoke"
    /\ \E manners \in Running : leader' = manners
    /\ begun' = IF session = 0 THEN begun + 1 ELSE begun
    /\ reported' \in {reported, FALSE}
    /\ GoOn("poll")
    /\ UNCHANGED <<machine, content, headMoved, session, pending, kind, helper, holds, signalled,
                   left, seen, trace>>

-----------------------------------------------------------------------------
(* The agent *)

Spawn ==
    /\ leader \in Running /\ helper = "none"
    /\ \E manners \in Running : helper' = manners
    /\ holds' \in BOOLEAN
    /\ UNCHANGED <<machine, content, headMoved, kept, phase, kind, leader, signalled, left,
                   seen, history>>

(* It ends with an exit code, the conversation it took part in and an        *)
(* answer; a Codex turn leaves its end and its summary in the activity.      *)
Finish ==
    /\ leader \in Running
    /\ leader' = "ended"
    /\ reply' \in
          {[exit |-> "other", session |-> 0, valid |-> FALSE]} \cup
          [exit : {"zero"}, valid : BOOLEAN,
           session : IF session = 0 THEN {begun} ELSE {session, MaxSessions + 1}]
    /\ reported' = (reported \/ (provider = "codex" /\ reply'.exit = "zero"))
    /\ UNCHANGED <<machine, content, headMoved, session, pending, phase, kind, helper, holds,
                   signalled, left, baseline, first, history>>

HelperEnds ==
    /\ helper \in Running
    /\ helper' = "ended"
    /\ UNCHANGED <<machine, content, headMoved, kept, phase, kind, leader, holds, signalled, left,
                   seen, history>>

(* SIGTERM ends who does not ignore it.                                      *)
Obey ==
    /\ signalled
    /\ \/ leader = "obeys" /\ leader' = "ended" /\ UNCHANGED helper
       \/ helper = "obeys" /\ helper' = "ended" /\ UNCHANGED leader
    /\ UNCHANGED <<machine, content, headMoved, kept, phase, kind, holds, signalled, left,
                   seen, history>>

(* The agent, or what an earlier call has left, works in the worktree, in    *)
(* read-only stages too: the runners are built without a sandbox.            *)
Write ==
    /\ Alive \/ left
    /\ \/ content' \in Contents /\ UNCHANGED headMoved
       \/ headMoved' = TRUE /\ UNCHANGED content
    /\ UNCHANGED <<machine, kept, phase, kind, tree, seen, history>>

-----------------------------------------------------------------------------
(* _bounded_subprocess *)

\* _ProcessTreeGuard: a job ends with its handle, a process group does not.
Closed(process) == IF posix THEN process ELSE "ended"

(* The handle is closed; what still runs is nobody's from now on.            *)
Disown ==
    /\ left' = (left \/ \E p \in {leader, helper} : p \in Running /\ Closed(p) = p)
    /\ leader' = "none" /\ helper' = "none" /\ holds' = FALSE /\ signalled' = FALSE

(* The call returns or raises.                                               *)
Leave ==
    /\ GoOn("idle") /\ kind' = "work" /\ Disown
    /\ reply' = Unanswered /\ baseline' = None /\ first' = None

GiveUp == Leave /\ UNCHANGED <<machine, content, headMoved, kept, history>>

(* _terminate: a job ends at once, a group is asked to.                      *)
Terminate ==
    IF posix THEN signalled' = TRUE /\ UNCHANGED <<leader, helper>>
    ELSE /\ leader' = (IF leader \in Running THEN "ended" ELSE leader)
         /\ helper' = (IF helper \in Running THEN "ended" ELSE helper)
         /\ UNCHANGED signalled

(* Nothing is waited for but the end of the leader, the deadline and, where  *)
(* the output is not only kept as a tail, its limit.                         *)
Poll ==
    /\ phase = "poll"
    /\ \/ leader = "ended" /\ GoOn("join") /\ UNCHANGED <<leader, helper, signalled>>
       \/ leader # "ended" /\ Terminate /\ GoOn("wait")
    /\ UNCHANGED <<machine, content, headMoved, kept, kind, holds, left, seen, history>>

\* Mistake: the leader is waited for without a limit.
PatienceEndless == leader = "ended"

Patience == TRUE

(* Two seconds for the leader; then the group is killed.                     *)
Wait ==
    /\ phase = "wait" /\ Patience
    /\ leader' = "ended"
    /\ helper' = IF leader # "ended" /\ helper \in Running THEN "ended" ELSE helper
    /\ GoOn("expired")
    /\ UNCHANGED <<machine, content, headMoved, kept, kind, holds, signalled, left, seen,
                   history>>

Expire == phase = "expired" /\ GiveUp

Drained == helper \in Running => ~holds

(* The pipes are read to their end, or the tree is ended, too.               *)
Join ==
    /\ phase = "join"
    /\ IF Drained THEN GoOn("collect") /\ UNCHANGED <<leader, helper, signalled>>
       ELSE Terminate /\ GoOn("rejoin")
    /\ UNCHANGED <<machine, content, headMoved, kept, kind, holds, left, seen, history>>

(* Two more seconds.                                                         *)
Rejoin ==
    /\ phase = "rejoin" /\ Drained
    /\ GoOn("collect")
    /\ UNCHANGED <<machine, content, headMoved, kept, kind, tree, seen, history>>

DidNotClose == phase = "rejoin" /\ ~Drained /\ GiveUp

-----------------------------------------------------------------------------
(* What the call makes of the answer *)

HeadMoved == phase = "guard" /\ headMoved /\ GiveUp

Continues == session \in {0, reply.session}

\* The exit code and the conversation; the first one is kept.
Usable == reply.exit = "zero" /\ Continues

Collect ==
    /\ phase = "collect"
    /\ session' = IF Usable THEN reply.session ELSE session
    /\ IF Usable /\ ~headMoved
       THEN GoOn("validate") /\ Disown /\ UNCHANGED <<kind, seen>>
       ELSE Leave
    /\ UNCHANGED <<machine, content, headMoved, pending, reported, history>>

(* An analysis whose answer is rejected keeps it for repair, and fails: the  *)
(* adapter validates it once more, with the activity appended.               *)
Reject ==
    /\ phase = "validate" /\ ~reply.valid
    /\ pending' = IF kind = "analysis" THEN "rejected" ELSE pending
    /\ Leave
    /\ UNCHANGED <<machine, content, headMoved, session, reported, history>>

(* The first of two snapshots around the search for secrets.                 *)
Validate ==
    /\ phase = "validate" /\ reply.valid
    /\ IF headMoved THEN Leave
       ELSE /\ first' = content /\ GoOn("compare")
            /\ UNCHANGED <<kind, tree, reply, baseline>>
    /\ UNCHANGED <<machine, content, headMoved, kept, history>>

\* Still while it was looked at and, if only to be read, as it was found.
AsExpected ==
    /\ ~headMoved /\ content = first
    /\ baseline # None => content = baseline

Refuse == phase = "compare" /\ ~AsExpected /\ GiveUp

Accept ==
    /\ phase = "compare" /\ AsExpected
    /\ trace' = [trace EXCEPT !.left = IF ReadOnly THEN content ELSE None]
    /\ Leave
    /\ UNCHANGED <<machine, content, headMoved, kept, begun>>

(* The host dies with the call in the middle; a job ends with its handles.   *)
Crash == phase # "idle" /\ GiveUp

-----------------------------------------------------------------------------
Host ==
    \/ Guard \/ HeadMoved \/ Launch \/ Poll \/ Wait \/ Expire \/ Join \/ Rejoin \/ DidNotClose
    \/ Collect \/ Reject \/ Validate \/ Refuse \/ Accept

AgentNext ==
    \/ \E asked \in Kinds : Ask(asked)
    \/ Repair \/ ChangeRules
    \/ Host
    \/ Spawn \/ Finish \/ HelperEnds \/ Obey \/ Write
    \/ Crash

(* A call in progress goes on; nothing is asked of the agent, which may work *)
(* for ever, ignore its signal or never let go of its pipes.                 *)
AgentSpec == AgentInit /\ [][AgentNext]_agentVars /\ WF_agentVars(Host)

-----------------------------------------------------------------------------
Alternatives == Contents \cup {None}

\* The state is well formed.
AgentTypeOK ==
    /\ posix \in BOOLEAN /\ provider \in Providers
    /\ content \in Contents /\ headMoved \in BOOLEAN
    /\ session \in 0..MaxSessions /\ reported \in BOOLEAN
    /\ pending \in {"none", "rejected", "acceptable"}
    /\ phase \in CallSteps /\ kind \in Kinds
    /\ leader \in Running \cup {"none", "ended"} /\ helper \in Running \cup {"none", "ended"}
    /\ holds \in BOOLEAN /\ signalled \in BOOLEAN /\ left \in BOOLEAN
    /\ reply \in [exit : {"none", "zero", "other"}, session : 0..MaxSessions + 1,
                   valid : BOOLEAN]
    /\ baseline \in Alternatives /\ first \in Alternatives
    /\ begun \in 0..MaxSessions
    /\ trace \in [found : Alternatives, left : Alternatives]

\* A call ends, whatever its agent does: one that never ends, ignores its
\* signal, or leaves a descendant behind that keeps the pipes open.
EveryCallEnds == phase # "idle" ~> phase = "idle"

\* Where the agent runs in a job, nothing of it outlives its call or its host
\* and writes into the worktree later.
NobodyLeft == left => posix

\* A read-only answer is accepted only for a worktree that is as the call
\* found it, whoever could have written: its agent, which has no sandbox, or
\* what an earlier call has left.
ReadOnlyLeavesNoTrace == trace.left # None => trace.left = trace.found

\* So a call changes the worktree only while it lasts, and only if it may.
LeavesNoTrace == NobodyLeft /\ ReadOnlyLeavesNoTrace
=============================================================================
