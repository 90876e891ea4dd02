------------------------------ MODULE Terminal ------------------------------
(***************************************************************************)
(* The terminal: the app, which binds one runtime session after another,   *)
(* the session's RunTaskSupervisor, and the dashboard with its list, its   *)
(* detail pane and its dialogs.  All of it runs in one event loop; calls   *)
(* run in threads.                                                         *)
(*                                                                         *)
(* The steps that hold _transition_lock are stages of one variable: who    *)
(* holds it, and how far it is.  Only the wish to quit is not bound to it. *)
(* A run is its version in the store.  Layout, texts, filters and the      *)
(* pages for workspaces and settings are left out.                         *)
(***************************************************************************)
EXTENDS Naturals, FiniteSets, Sequences

CONSTANTS Runs,          \* runs in the store
          Plan,          \* the key of scheduled scans in the supervisor
          Tasks,         \* bound: calls that may be submitted, 1..n
          Sessions,      \* bound: runtimes that may be built, 1..n
          Concurrency,   \* max_concurrency
          MaxVersion,    \* bound: saves of a run
          Budgets,       \* bounds: how often each thing of Kinds may happen
          None           \* no run, call or text

\* Submitted calls, selected rows, dialogs, changes of settings, quitting;
\* what other processes do, and what fails.
Kinds == {"call", "click", "dialog", "save", "quit", "other", "failure"}

ASSUME TerminalAssumption ==
    /\ Plan \notin Runs /\ None \notin Runs \cup Tasks
    /\ Tasks \subseteq Nat \ {0} /\ Sessions \subseteq Nat \ {0}
    /\ Concurrency \in 1..8 /\ MaxVersion \in Nat \ {0}
    /\ Budgets \subseteq [Kinds -> Nat]

VARIABLES
    store,               \* version of each run; 0 if it is deleted
    stage,               \* what the holder of the transition lock is about to do
    leaving,             \* _ui_closed
    reconfiguring,       \* _reconfiguring
    session, pending,    \* runtime_session and _pending_runtime_handle, 0 if none
    handle,              \* what became of the runtime of each session
    gates,               \* _run_gates of the session's supervisor, with their references
    task,                \* the calls submitted, of all supervisors
    told,                \* what the last TuiTaskMessage of each key says, read or not
    activities,          \* what the app believes of each key: "busy" is queued or running
    active,              \* the dashboard may read and update its tree
    refresh,             \* the refresh loop: where, whose mount, what it read, once more
    ask,                 \* the detail requested by the loop and by a person
    rows, cursor,        \* the list that is shown, and its highlighted run
    pane, chosen,        \* the detail that is shown, and _selected_detail
    dialog,              \* the request a dialog shows
    left                 \* what is left of the budget

app   == <<stage, leaving, reconfiguring, session, pending, handle>>
calls == <<gates, task>>
news  == <<told, activities>>
board == <<active, refresh, ask, rows, cursor, pane, chosen>>
vars  == <<store, app, calls, news, board, dialog, left>>

Keys    == Runs \cup {Plan}
Askers  == {"loop", "person"}
NoGate  == [of |-> 0, refs |-> 0]
NoTask  == [session |-> 0, key |-> None, gate |-> 0, at |-> "none", version |-> 0]
NoAsk   == [run |-> None, latest |-> FALSE]
Resting == [at |-> "off", mine |-> TRUE, got |-> None, again |-> FALSE]
Quiet   == [k \in Keys |-> "idle"]
Blank   == [r \in Runs |-> 0]
Detail(r, v) == [run |-> r, version |-> v]
Nothing == Detail(None, 0)
Failure == Detail(None, 1)      \* the text of an error

Init ==
    /\ store \in [Runs -> {1}]
    /\ stage = "setup" /\ leaving = FALSE /\ reconfiguring = FALSE
    /\ session = 0 /\ pending = 0 /\ handle = [n \in Sessions |-> "none"]
    /\ gates = [k \in Keys |-> NoGate] /\ task = [t \in Tasks |-> NoTask]
    /\ told = Quiet /\ activities = Quiet
    /\ active = FALSE /\ refresh = Resting /\ ask = [a \in Askers |-> NoAsk]
    /\ rows = Blank /\ cursor = None /\ pane = Nothing /\ chosen = Nothing
    /\ dialog = None /\ left \in Budgets

Spend(kind) == left[kind] > 0 /\ left' = [left EXCEPT ![kind] = @ - 1]

-----------------------------------------------------------------------------
(* The supervisor: one call at a time on each run, bounded across runs *)

Open == session # 0 /\ handle[session] = "open"

\* What the app's sink lets pass of a session's left.
Tell(key, activity) ==
    IF Open /\ ~leaving THEN [told EXCEPT ![key] = activity] ELSE told

Mine(t) == task[t].session = session /\ session # 0
Unfinished(t) == task[t].at \in {"queued", "running", "ended"}

IsRunActive(k) == gates[k].refs > 0

\* The gate is made anew after its last reference is gone.
Gate(k, t) == IF gates[k].of = 0 THEN t ELSE gates[k].of

Submitted(k, version) ==
    LET free == {t \in Tasks : task[t] = NoTask}
        t == CHOOSE i \in free : \A j \in free : i <= j IN
    /\ Open /\ free # {} /\ Spend("call")
    /\ gates' = [gates EXCEPT ![k] = [of |-> Gate(k, t), refs |-> @.refs + 1]]
    /\ task' = [task EXCEPT ![t] = [session |-> session, key |-> k, gate |-> Gate(k, t),
                                    at |-> "queued", version |-> version]]
    /\ told' = Tell(k, "busy")

Held(t) == \E u \in Tasks : task[u].session = task[t].session
                            /\ task[u].gate = task[t].gate /\ task[u].at = "running"

Running(n) == {t \in Tasks : task[t].session = n /\ task[t].at = "running"}

(* The lock of a gate is fair, and the calls come in the order they were     *)
(* submitted; the read-only calls that share the semaphore only delay.       *)
Start(t) ==
    /\ task[t].at = "queued" /\ Mine(t) /\ Open
    /\ ~Held(t)
    /\ \A u \in Tasks : u < t /\ task[u].gate = task[t].gate /\ Mine(u) => task[u].at # "queued"
    /\ Cardinality(Running(session)) < Concurrency
    /\ task' = [task EXCEPT ![t].at = "running"]
    /\ told' = Tell(task[t].key, "busy")
    /\ UNCHANGED <<store, app, gates, activities, board, dialog, left>>

(* The thread: a command compares the version of the run under the run's     *)
(* operation lock and saves, or finds it stale.  It may save more than once. *)
Act(t) ==
    /\ task[t].at = "running" /\ task[t].key \in Runs
    /\ LET r == task[t].key IN
         /\ store[r] # 0 /\ store[r] < MaxVersion
         /\ store[r] = task[t].version
         /\ store' = [store EXCEPT ![r] = @ + 1]
         /\ task' = [task EXCEPT ![t].version = store'[r]]
    /\ UNCHANGED <<app, gates, news, board, dialog, left>>

(* A scheduled scan starts runs of its own and leaves these alone.           *)
End(t) ==
    /\ task[t].at = "running"
    /\ task' = [task EXCEPT ![t].at = "ended"]
    /\ told' = IF Mine(t) THEN Tell(task[t].key, "idle") ELSE told
    /\ UNCHANGED <<store, app, gates, activities, board, dialog, left>>

\* Mistake: the gate goes with the first call that ends.
DropAlways(k) == NoGate

\* The gate goes with its last reference.
DropGate(k) == IF gates[k].refs = 1 THEN NoGate ELSE [gates[k] EXCEPT !.refs = @ - 1]

\* A task that is waiting when its supervisor closes is cancelled.
Cancelled(n) ==
    [t \in Tasks |-> IF task[t].session = n /\ task[t].at = "queued"
                     THEN [task[t] EXCEPT !.at = "done"] ELSE task[t]]

-----------------------------------------------------------------------------
(* The dashboard: list, detail, refresh *)

Owns == active /\ refresh.mine

(* refresh_runs: a request during a refresh is noted for the loop.           *)
Requested ==
    IF ~active THEN refresh
    ELSE IF refresh.at = "off" THEN [Resting EXCEPT !.at = "list"]
    ELSE [refresh EXCEPT !.again = TRUE]

\* Mistake: a loop that lost its mount returns with _refreshing still set.
StayBusy ==
    IF refresh.again THEN [refresh EXCEPT !.at = "list", !.got = None, !.again = FALSE]
    ELSE IF Owns THEN Resting ELSE refresh

EndLoop ==
    IF refresh.again THEN [refresh EXCEPT !.at = "list", !.got = None, !.again = FALSE]
    ELSE Resting

\* A newer request makes the others late.
Asked(who, r) ==
    [a \in Askers |->
       IF a = who THEN [run |-> r, latest |-> TRUE]
       ELSE [ask[a] EXCEPT !.latest = FALSE]]

Late == [a \in Askers |-> [ask[a] EXCEPT !.latest = FALSE]]

ReadList ==
    /\ refresh.at = "list" /\ Owns
    /\ refresh' = [refresh EXCEPT !.at = "apply", !.got = store]
    /\ UNCHANGED <<store, app, calls, news, active, ask, rows, cursor, pane, chosen,
                   dialog, left>>

LoseList ==
    /\ refresh.at \in {"list", "apply"} /\ ~Owns
    /\ refresh' = EndLoop
    /\ UNCHANGED <<store, app, calls, news, active, ask, rows, cursor, pane, chosen,
                   dialog, left>>

ListFails ==
    /\ refresh.at = "list" /\ Owns /\ Spend("failure")
    /\ rows' = Blank /\ cursor' = None /\ pane' = Failure /\ ask' = Late
    /\ refresh' = EndLoop
    /\ UNCHANGED <<store, app, calls, news, active, chosen, dialog>>

ListEmpty ==
    /\ refresh.at = "apply" /\ Owns /\ refresh.got = Blank
    /\ rows' = Blank /\ cursor' = None /\ pane' = Nothing /\ chosen' = Nothing /\ ask' = Late
    /\ refresh' = EndLoop
    /\ UNCHANGED <<store, app, calls, news, active, dialog, left>>

(* The highlighted run stays so if it still exists.                          *)
ApplyList ==
    /\ refresh.at = "apply" /\ Owns /\ refresh.got # Blank
    /\ rows' = refresh.got
    /\ \E r \in Runs :
         /\ refresh.got[r] # 0
         /\ cursor # None /\ refresh.got[cursor] # 0 => r = cursor
         /\ cursor' = r /\ ask' = Asked("loop", r)
    /\ refresh' = [refresh EXCEPT !.at = "detail", !.got = None]
    /\ UNCHANGED <<store, app, calls, news, active, pane, chosen, dialog, left>>

\* Mistake: an answer is shown whatever was requested since.
Anyway(a) == TRUE

\* A newer request makes an answer late.
Wanted(a) == ask[a].latest

Answered(a) ==
    /\ ask' = [ask EXCEPT ![a] = NoAsk]
    /\ refresh' = IF a = "loop" THEN EndLoop ELSE refresh

\* The thread reads, and the answer arrives.
ShowDetail(a) ==
    /\ ask[a].run # None
    /\ LET answer == Detail(ask[a].run, store[ask[a].run]) IN
       IF Wanted(a) /\ answer.version # 0
       THEN pane' = answer /\ chosen' = answer
       ELSE /\ pane' = IF Wanted(a) THEN Failure ELSE pane
            /\ UNCHANGED chosen
    /\ Answered(a)
    /\ UNCHANGED <<store, app, calls, news, active, rows, cursor, dialog, left>>

(* The buttons keep the detail they had.                                     *)
DetailFails(a) ==
    /\ ask[a].run # None /\ Spend("failure")
    /\ pane' = IF Wanted(a) THEN Failure ELSE pane
    /\ Answered(a)
    /\ UNCHANGED <<store, app, calls, news, active, rows, cursor, chosen, dialog>>

-----------------------------------------------------------------------------
(* A person before the dashboard *)

Before == stage = "live" /\ active /\ dialog = None /\ ~leaving

SelectRun(r) ==
    /\ Before /\ rows[r] # 0 /\ ask["person"].run = None /\ Spend("click")
    /\ cursor' = r /\ ask' = Asked("person", r)
    /\ UNCHANGED <<store, app, calls, news, active, refresh, rows, pane, chosen,
                   dialog>>

\* The buttons under the pane act on _selected_detail.
Decide ==
    /\ Before /\ chosen # Nothing
    /\ Submitted(chosen.run, chosen.version)
    /\ chosen' = Nothing
    /\ UNCHANGED <<store, app, activities, active, refresh, ask, rows, cursor, pane,
                   dialog>>

\* prepare_action reads the run that is highlighted.
Prepare ==
    /\ Before /\ cursor # None /\ rows[cursor] # 0 /\ store[cursor] # 0 /\ Spend("dialog")
    /\ dialog' = [kind |-> "action", run |-> cursor, version |-> store[cursor]]
    /\ UNCHANGED <<store, app, calls, news, board>>

Confirm ==
    /\ dialog # None /\ dialog.kind = "action" /\ stage = "live" /\ ~leaving
    /\ Submitted(dialog.run, dialog.version)
    /\ dialog' = None
    /\ UNCHANGED <<store, app, activities, board>>

Dismiss ==
    /\ dialog # None
    /\ dialog' = None
    /\ UNCHANGED <<store, app, calls, news, board, left>>

\* action_resume reads the run again and submits what it read.
Resume ==
    /\ Before /\ cursor # None /\ rows[cursor] # 0 /\ store[cursor] # 0
    /\ ~IsRunActive(cursor)
    /\ Submitted(cursor, store[cursor])
    /\ chosen' = Nothing
    /\ UNCHANGED <<store, app, activities, active, refresh, ask, rows, cursor, pane,
                   dialog>>

AskDelete ==
    /\ Before /\ cursor # None /\ rows[cursor] # 0 /\ ~IsRunActive(cursor) /\ Spend("dialog")
    /\ dialog' = [kind |-> "delete", run |-> cursor, version |-> 0]
    /\ UNCHANGED <<store, app, calls, news, board>>

(* Nothing of a run that is deleted is compared with what was shown.         *)
Delete ==
    /\ dialog # None /\ dialog.kind = "delete" /\ stage = "live" /\ ~leaving
    /\ rows[dialog.run] # 0 /\ ~IsRunActive(dialog.run)
    /\ Submitted(dialog.run, 0)
    /\ dialog' = None
    /\ UNCHANGED <<store, app, activities, board>>

DeleteRun(t) ==
    /\ task[t].at = "running" /\ task[t].key \in Runs /\ task[t].version = 0
    /\ store[task[t].key] # 0
    /\ store' = [store EXCEPT ![task[t].key] = 0]
    /\ UNCHANGED <<app, calls, news, board, dialog, left>>

(* Another process moves a run on, or deletes it.                            *)
Elsewhere(r) ==
    /\ store[r] # 0 /\ store[r] < MaxVersion /\ Spend("other")
    /\ \E v \in {0, store[r] + 1} : store' = [store EXCEPT ![r] = v]
    /\ UNCHANGED <<app, calls, news, board, dialog>>

-----------------------------------------------------------------------------
(* Timers, and the watchers of calls *)

Poll ==
    /\ Before
    /\ refresh' = Requested
    /\ UNCHANGED <<store, app, calls, news, active, ask, rows, cursor, pane, chosen,
                   dialog, left>>

(* Every 10 seconds, one scan at a time.                                     *)
DispatchSchedules ==
    /\ stage = "live" /\ ~leaving /\ ~reconfiguring
    /\ \A t \in Tasks : task[t].key = Plan => ~Unfinished(t)
    /\ Submitted(Plan, 0)
    /\ UNCHANGED <<store, app, activities, board, dialog>>

(* The messages come in order; those on their way are taken together.        *)
ReadMessages ==
    /\ told # activities
    /\ IF leaving THEN told' = activities /\ UNCHANGED <<activities, refresh>>
       ELSE /\ activities' = told /\ UNCHANGED told
            /\ refresh' = IF dialog = None THEN Requested ELSE refresh
    /\ UNCHANGED <<store, app, calls, active, ask, rows, cursor, pane, chosen,
                   dialog, left>>

\* The done callback of a call, and its watcher.
Done(t) ==
    /\ task[t].at = "ended"
    /\ task' = [task EXCEPT ![t].at = "done"]
    /\ gates' = IF Mine(t) THEN [gates EXCEPT ![task[t].key] = DropGate(task[t].key)] ELSE gates
    /\ refresh' = IF task[t].key = Plan THEN refresh ELSE Requested
    /\ UNCHANGED <<store, app, news, active, ask, rows, cursor, pane, chosen,
                   dialog, left>>

-----------------------------------------------------------------------------
(* The app: building, replacing and closing runtimes *)

Unbuilt == {n \in Sessions : handle[n] = "none"}
NewHandle == CHOOSE n \in Unbuilt : \A k \in Unbuilt : n <= k

\* save_and_activate or activate_existing ended with a runtime.
Built == Unbuilt # {} /\ handle' = [handle EXCEPT ![NewHandle] = "open"]
NewSession == CHOOSE n \in Sessions : handle[n] = "open"

NoBoard ==
    /\ active' = FALSE /\ refresh' = Resting /\ ask' = [a \in Askers |-> NoAsk]
    /\ rows' = Blank /\ cursor' = None /\ pane' = Nothing /\ chosen' = Nothing

BeginTeardown == active' = FALSE /\ refresh' = [refresh EXCEPT !.again = FALSE]

\* activities.clear(): a message on its way is read after it.
Forget ==
    /\ activities' = Quiet
    /\ told' = [k \in Keys |-> IF told[k] = activities[k] THEN "idle" ELSE told[k]]

SetupDone ==
    /\ stage = "setup" /\ ~leaving
    /\ Built /\ stage' = "bind"
    /\ UNCHANGED <<store, leaving, reconfiguring, session, pending, calls, news, board,
                   dialog, left>>

CancelSetup ==
    /\ stage = "setup" /\ ~leaving
    /\ IF reconfiguring
       THEN \/ Built /\ stage' = "bind" /\ reconfiguring' = FALSE /\ UNCHANGED leaving
            \/ leaving' = TRUE /\ UNCHANGED <<stage, reconfiguring, handle>>
       ELSE leaving' = TRUE /\ UNCHANGED <<stage, reconfiguring, handle>>
    /\ UNCHANGED <<store, session, pending, calls, news, board, dialog, left>>

BindFails ==
    /\ stage \in {"bind", "rebind"}
    /\ IF leaving THEN UNCHANGED left ELSE Spend("failure")
    /\ stage' = "discard"
    /\ UNCHANGED <<store, leaving, reconfiguring, session, pending, handle, calls, news, board,
                   dialog>>

BindRuntime ==
    /\ stage = "bind" /\ ~leaving
    /\ session' = NewSession /\ gates' = [k \in Keys |-> NoGate]
    /\ active' = TRUE /\ refresh' = [Resting EXCEPT !.at = "list"]
    /\ ask' = [a \in Askers |-> NoAsk]
    /\ rows' = Blank /\ cursor' = None /\ pane' = Nothing /\ chosen' = Nothing
    /\ stage' = "mount"
    /\ UNCHANGED <<store, leaving, reconfiguring, pending, handle, task, news, dialog, left>>

(* The dashboard stays; a loop that still runs is of an earlier mount, and   *)
(* takes the new request for one of its own.                                 *)
RebindRuntime ==
    /\ stage = "rebind" /\ ~leaving
    /\ session' = NewSession /\ gates' = [k \in Keys |-> NoGate]
    /\ active' = TRUE
    /\ refresh' = IF refresh.at = "off" THEN [Resting EXCEPT !.at = "list"]
                  ELSE [refresh EXCEPT !.mine = FALSE, !.again = TRUE]
    /\ stage' = "mount"
    /\ UNCHANGED <<store, leaving, reconfiguring, pending, handle, task, news, ask, rows,
                   cursor, pane, chosen, dialog, left>>

Mounted ==
    /\ stage = "mount" /\ refresh.at = "off"
    /\ stage' = IF leaving THEN "discard" ELSE "live"
    /\ UNCHANGED <<store, leaving, reconfiguring, session, pending, handle, calls, news, board,
                   dialog, left>>

MountFails ==
    /\ stage = "mount" /\ Spend("failure")
    /\ stage' = "discard"
    /\ UNCHANGED <<store, leaving, reconfiguring, session, pending, handle, calls, news, board,
                   dialog>>

Discard ==
    /\ stage = "discard"
    /\ NoBoard
    /\ handle' = [handle EXCEPT ![NewSession] = "draining"]
    /\ task' = Cancelled(NewSession)
    /\ pending' = IF session = 0 THEN NewSession ELSE 0
    /\ stage' = "discarding"
    /\ UNCHANGED <<store, leaving, reconfiguring, session, gates, news, dialog, left>>

InHand == IF session # 0 THEN session ELSE pending

CloseComplete(n) == handle[n] = "closed"

Discarded ==
    /\ stage = "discarding" /\ CloseComplete(InHand)
    /\ session' = 0 /\ pending' = 0 /\ stage' = "setup"
    /\ UNCHANGED <<store, leaving, reconfiguring, handle, calls, news, board, dialog, left>>

DiscardLate ==
    /\ stage = "discarding" /\ ~CloseComplete(InHand)
    /\ stage' = "stuck"
    /\ UNCHANGED <<store, leaving, reconfiguring, session, pending, handle, calls, news, board,
                   dialog, left>>

(* The runtime is closed in a thread of its own.                             *)
HandleCloses(n) ==
    /\ handle[n] = "draining"
    /\ handle' = [handle EXCEPT ![n] = "closed"]
    /\ UNCHANGED <<store, stage, leaving, reconfiguring, session, pending, calls, news, board,
                   dialog, left>>

CloseSession ==
    /\ handle' = [handle EXCEPT ![session] = "draining"]
    /\ task' = Cancelled(session)

SaveInline ==
    /\ Before /\ activities = Quiet /\ Spend("save")
    /\ BeginTeardown /\ CloseSession
    /\ stage' = "close inline"
    /\ UNCHANGED <<store, leaving, reconfiguring, session, pending, gates, news, ask, rows,
                   cursor, pane, chosen, dialog>>

BeginReconfigure ==
    /\ Before /\ Spend("save")
    /\ BeginTeardown /\ CloseSession
    /\ stage' = "close"
    /\ UNCHANGED <<store, leaving, reconfiguring, session, pending, gates, news, ask, rows,
                   cursor, pane, chosen, dialog>>

ClosedInline ==
    /\ stage = "close inline" /\ CloseComplete(session)
    /\ session' = 0 /\ Forget
    /\ reconfiguring' = TRUE /\ stage' = "saving"
    /\ UNCHANGED <<store, leaving, pending, handle, calls, board, dialog, left>>

Closed ==
    /\ stage = "close" /\ CloseComplete(session)
    /\ session' = 0 /\ Forget
    /\ reconfiguring' = TRUE /\ stage' = "setup"
    /\ NoBoard
    /\ UNCHANGED <<store, leaving, pending, handle, calls, dialog, left>>

(* The close had an error, or the settings cannot be read: the app ends.     *)
CloseFails ==
    /\ stage \in {"close", "close inline"} /\ CloseComplete(session) /\ Spend("failure")
    /\ session' = 0 /\ Forget /\ leaving' = TRUE
    /\ stage' = "setup" /\ NoBoard
    /\ UNCHANGED <<store, reconfiguring, pending, handle, calls, dialog>>

CloseLate ==
    /\ stage \in {"close", "close inline"} /\ ~CloseComplete(session)
    /\ Forget /\ stage' = "stuck" /\ NoBoard
    /\ UNCHANGED <<store, leaving, reconfiguring, session, pending, handle, calls,
                   dialog, left>>

(* With the new settings or, if they are refused, with those before.         *)
Saved ==
    /\ stage = "saving"
    /\ Built /\ stage' = "rebind"
    /\ UNCHANGED <<store, leaving, reconfiguring, session, pending, calls, news, board,
                   dialog, left>>

NothingActivated ==
    /\ stage = "saving"
    /\ NoBoard /\ stage' = "setup"
    /\ leaving' \in {leaving, TRUE}
    /\ UNCHANGED <<store, reconfiguring, session, pending, handle, calls, news,
                   dialog, left>>

Quit ==
    /\ ~leaving /\ leaving' = TRUE /\ Spend("quit")
    /\ UNCHANGED <<store, stage, reconfiguring, session, pending, handle, calls, news, board,
                   dialog>>

(* The drain waits for the transition lock.                                  *)
Drain ==
    /\ leaving /\ stage \in {"setup", "live", "stuck"}
    /\ BeginTeardown
    /\ IF session # 0 /\ handle[session] = "open" THEN CloseSession
       ELSE UNCHANGED <<handle, task>>
    /\ stage' = "draining"
    /\ UNCHANGED <<store, leaving, reconfiguring, session, pending, gates, news, ask, rows,
                   cursor, pane, chosen, dialog, left>>

Drained ==
    /\ stage = "draining" /\ (InHand # 0 => CloseComplete(InHand))
    /\ session' = 0 /\ pending' = 0 /\ Forget /\ stage' = "gone"
    /\ UNCHANGED <<store, leaving, reconfiguring, handle, calls, board, dialog, left>>

-----------------------------------------------------------------------------
RefreshStep == ReadList \/ LoseList \/ ListEmpty \/ ApplyList

Supervise ==
    \E t \in Tasks : Start(t) \/ Act(t) \/ DeleteRun(t) \/ End(t) \/ Done(t)

Press ==
    \/ \E r \in Runs : SelectRun(r)
    \/ Decide \/ Prepare \/ Confirm \/ Dismiss \/ Resume \/ AskDelete \/ Delete

Show ==
    \/ RefreshStep \/ ListFails \/ Poll \/ ReadMessages
    \/ \E a \in Askers : ShowDetail(a) \/ DetailFails(a)

Switch ==
    \/ SetupDone \/ CancelSetup \/ BindFails \/ BindRuntime \/ RebindRuntime
    \/ Mounted \/ MountFails \/ Discard \/ Discarded \/ DiscardLate
    \/ SaveInline \/ BeginReconfigure \/ ClosedInline \/ Closed \/ CloseFails \/ CloseLate
    \/ Saved \/ NothingActivated \/ Quit \/ Drain \/ Drained

Next ==
    \/ Supervise \/ Press \/ Show \/ Switch \/ DispatchSchedules
    \/ \E r \in Runs : Elsewhere(r)
    \/ \E n \in Sessions : HandleCloses(n)

(* The poll timer runs, what a thread read arrives, and who awaited a        *)
(* refresh goes on when it is done.                                          *)
Fairness ==
    /\ WF_vars(Poll) /\ WF_vars(RefreshStep) /\ WF_vars(Mounted \/ MountFails)
    /\ \A a \in Askers : WF_vars(ShowDetail(a))

Spec == Init /\ [][Next]_vars /\ Fairness

-----------------------------------------------------------------------------
(* Whatever gates are dropped and made anew: a supervisor never has two      *)
(* calls on one run in threads, nor more calls than its bound.               *)
CallsApart ==
    \A n \in Sessions :
        /\ Cardinality(Running(n)) <= Concurrency
        /\ \A t, u \in Running(n) : task[t].key = task[u].key => t = u

(* A runtime is built only after the one before is closed completely, and    *)
(* none outlives the app.                                                    *)
RuntimesClosed ==
    LET alive == {n \in Sessions : handle[n] \in {"open", "draining"}} IN
    /\ Cardinality(alive) <= 1
    /\ stage = "gone" => alive = {}

(* There is one call at a time on a run of one runtime, of which there is    *)
(* one at a time.                                                            *)
OneAtATime == CallsApart /\ RuntimesClosed

(* Once every answer is in, the pane shows the run that is highlighted, and  *)
(* its buttons act on what it shows, or showed before it had an error.       *)
ShownIsSelected ==
    (active /\ refresh.at = "off" /\ \A a \in Askers : ask[a] = NoAsk) =>
        /\ pane.run # None => pane.run = cursor /\ chosen \in {Nothing, pane}
        /\ pane = Nothing => chosen = Nothing

Watched == stage \in {"mount", "live"} /\ active /\ dialog = None /\ ~leaving

(* Refreshes are coalesced, lose their mount and are answered by loops of an *)
(* earlier one; still, a dashboard a person looks at comes to show the runs  *)
(* as they are.                                                              *)
ShownInTheEnd == Watched ~> (rows = store \/ ~Watched)
=============================================================================
