---------------------------- MODULE RuntimeCache ----------------------------
(***************************************************************************)
(* CodexRuntimePreparer of codex_runtime.py: several processes keep one    *)
(* content-addressed cache of executables in a directory that nothing      *)
(* locks as a whole.  Each preparation sweeps what others have left,       *)
(* looks for a valid executable, stages a copy of the installed one under  *)
(* a lease of its own, writes a quarantine marker ahead of the rename that *)
(* publishes it and clears the marker once the published copy is valid.    *)
(*                                                                         *)
(* A preparer is one call of prepare_verified, and the name of its lease   *)
(* and staging directory.  An action is one access to the directory.  The  *)
(* listing of the directory is one access, and what fsync has made durable *)
(* is not told apart: a crash is one of the process.  Removing a tree      *)
(* takes two steps, because its files go one by one.  This is the variant  *)
(* of macOS; Windows unlinks the lease before it closes it.                *)
(***************************************************************************)
EXTENDS Naturals, FiniteSets

CONSTANTS Preparers,     \* calls of prepare_verified, each with its token
          Nobody,        \* ... none of them
          Versions,      \* executables, named by their SHA-256
          MaxTogether,   \* bound: preparations that overlap
          MaxFailures    \* bound: accesses that fail, leases that are outlasted

ASSUME CacheAssumption ==
    Nobody \notin Preparers /\ MaxTogether \in Nat /\ MaxFailures \in Nat

VARIABLES
    final,      \* what the directory of a version holds
    marker,     \* the quarantine marker of a version exists
    lease,      \* the lease file of a preparer exists
    holder,     \* who has locked it
    aged,       \* its grace period is over
    stage,      \* the staging directory of a preparer exists
    todo,       \* next step of a preparer
    listed,     \* what its sweep has still to look at
    busy,       \* the preparer whose lease its sweep has locked
    noted,      \* versions it saw quarantined, and found valid
    want,       \* the version that is installed, or that it returns
    flags,      \* how far its publication has got
    failures,   \* accesses that have failed, leases that were outlasted
    proven,     \* history: a version has been validated in its place
    alone,      \* history: no other preparation or failure came across it
    solo        \* history: preparations of a version in a row that failed alone

cache        == <<final, marker>>
leases       == <<lease, holder, aged, stage>>
local        == <<listed, busy, noted, want, flags>>
cacheHistory == <<proven, alone, solo>>
cacheVars    == <<cache, leases, todo, local, failures, cacheHistory>>

(* A directory of a version holds nothing, only leftovers of a staging      *)
(* directory without a manifest, files that are not valid, the executable   *)
(* with its manifest, or these with the companion.                          *)
Finals   == {"none", "partial", "broken", "whole", "hosted"}
Valid(v) == final[v] \in {"whole", "hosted"}

Ended  == {"start", "prepared", "over"}
Active == {p \in Preparers : todo[p] \notin Ended}
PreparerSteps == Ended \cup
    {"sweep", "young", "old", "swept", "purge", "probe", "lease", "lock", "copy",
     "mark", "look", "place", "validate", "replacing", "close", "unlink",
     "revalidate", "probeMarker", "clear", "companion", "acquire", "failing",
     "remark", "dropLease", "dropStage", "withdraw", "withdrawing"}

Unlisted == [leases |-> {}, stages |-> {}, finals |-> {}, partial |-> {}]
Unseen   == [marked |-> {}, valid |-> {}]
Unfailed == [v \in Versions |-> 0]
Unstaged == [placed |-> FALSE, clearing |-> FALSE, failing |-> FALSE]

CacheInit ==
    /\ final = [v \in Versions |-> "none"] /\ marker = [v \in Versions |-> FALSE]
    /\ lease = [p \in Preparers |-> FALSE] /\ holder = [p \in Preparers |-> Nobody]
    /\ aged = [p \in Preparers |-> FALSE] /\ stage = [p \in Preparers |-> FALSE]
    /\ todo = [p \in Preparers |-> "start"]
    /\ listed = [p \in Preparers |-> Unlisted] /\ busy = [p \in Preparers |-> Nobody]
    /\ noted = [p \in Preparers |-> Unseen] /\ want \in [Preparers -> Versions]
    /\ flags = [p \in Preparers |-> Unstaged] /\ failures = 0
    /\ proven = [v \in Versions |-> FALSE]
    /\ alone = [p \in Preparers |-> FALSE] /\ solo = Unfailed

At(p, step) == todo[p] = step
Continue(p, step) == todo' = [todo EXCEPT ![p] = step]

(* A preparation ends: prepare_verified returns, or raises.                 *)
Finishes(p, outcome, quiet) ==
    /\ Continue(p, outcome)
    /\ listed' = [listed EXCEPT ![p] = Unlisted] /\ noted' = [noted EXCEPT ![p] = Unseen]
    /\ busy' = [busy EXCEPT ![p] = Nobody] /\ flags' = [flags EXCEPT ![p] = Unstaged]
    /\ solo' = IF ~quiet THEN Unfailed
               ELSE [solo EXCEPT ![want[p]] = IF outcome = "over" THEN @ + 1 ELSE 0]
    /\ alone' = [alone EXCEPT ![p] = FALSE]

-----------------------------------------------------------------------------
(* _cleanup_stale_owned_entries *)

List(p) ==
    /\ At(p, "start") /\ Cardinality(Active) < MaxTogether
    /\ listed' = [listed EXCEPT ![p] =
         [leases |-> {q \in Preparers : lease[q]},
          stages |-> {q \in Preparers : stage[q] /\ ~lease[q]},
          finals |-> {v \in Versions : final[v] # "none"}, partial |-> {}]]
    /\ alone' = [q \in Preparers |-> IF q = p THEN Active = {} ELSE alone[q] /\ q \notin Active]
    /\ Continue(p, "sweep")
    /\ UNCHANGED <<cache, leases, busy, noted, want, flags, failures, proven, solo>>

\* Mistake: a lease is swept whoever has locked it.
AnyLease(q) == lease[q]

Lockable(q) == lease[q] /\ holder[q] = Nobody

(* A young lease may belong to a preparer that is about to lock it.         *)
LockLease(p, q) ==
    /\ At(p, "sweep") /\ q \in listed[p].leases
    /\ listed' = [listed EXCEPT ![p].leases = @ \ {q}]
    /\ IF Lockable(q)
       THEN /\ holder' = [holder EXCEPT ![q] = p] /\ busy' = [busy EXCEPT ![p] = q]
            /\ Continue(p, IF aged[q] THEN "old" ELSE "young")
       ELSE UNCHANGED <<holder, busy, todo>>
    /\ UNCHANGED <<cache, lease, aged, stage, noted, want, flags, failures, cacheHistory>>

LeaveLease(p) ==
    /\ At(p, "young")
    /\ holder' = [holder EXCEPT ![busy[p]] = Nobody]
    /\ busy' = [busy EXCEPT ![p] = Nobody]
    /\ Continue(p, "sweep")
    /\ UNCHANGED <<cache, lease, aged, stage, listed, noted, want, flags, failures, cacheHistory>>

SweepStage(p) ==
    /\ At(p, "old")
    /\ stage' = [stage EXCEPT ![busy[p]] = FALSE]
    /\ Continue(p, "swept")
    /\ UNCHANGED <<cache, lease, holder, aged, local, failures, cacheHistory>>

Unlink(q) == lease' = [lease EXCEPT ![q] = FALSE] /\ aged' = [aged EXCEPT ![q] = FALSE]

(* A lease that has gone meanwhile is an error nothing falls back from.     *)
SweepLease(p) ==
    /\ At(p, "swept")
    /\ Unlink(busy[p])
    /\ holder' = [holder EXCEPT ![busy[p]] = Nobody]
    /\ IF lease[busy[p]]
       THEN busy' = [busy EXCEPT ![p] = Nobody] /\ Continue(p, "sweep")
            /\ UNCHANGED <<listed, noted, flags, solo, alone>>
       ELSE Finishes(p, "over", alone[p])
    /\ UNCHANGED <<cache, stage, want, failures, proven>>

SweepOrphan(p, q) ==
    /\ At(p, "sweep") /\ listed[p].leases = {} /\ q \in listed[p].stages
    /\ stage' = [stage EXCEPT ![q] = FALSE]
    /\ listed' = [listed EXCEPT ![p].stages = @ \ {q}]
    /\ UNCHANGED <<cache, lease, holder, aged, todo, busy, noted, want, flags>>
    /\ UNCHANGED <<failures, cacheHistory>>

(* A version is looked at, and removed when it has no manifest.             *)
LookAtFinal(p, v) ==
    /\ At(p, "sweep") /\ listed[p].leases = {} /\ listed[p].stages = {}
    /\ v \in listed[p].finals
    /\ listed' = [listed EXCEPT ![p].finals = @ \ {v},
                                ![p].partial = IF final[v] = "partial" THEN {v} ELSE {}]
    /\ Continue(p, IF final[v] = "partial" THEN "purge" ELSE "sweep")
    /\ UNCHANGED <<cache, leases, busy, noted, want, flags, failures, cacheHistory>>

(* Every child must be one of a staging directory; the companion is not.    *)
Purge(p) ==
    /\ At(p, "purge")
    /\ LET removed == {v \in listed[p].partial : final[v] # "hosted"}
       IN  /\ final' = [v \in Versions |-> IF v \in removed THEN "none" ELSE final[v]]
           /\ proven' = [v \in Versions |-> proven[v] /\ v \notin removed]
    /\ listed' = [listed EXCEPT ![p].partial = {}]
    /\ Continue(p, "sweep")
    /\ UNCHANGED <<marker, leases, busy, noted, want, flags, failures, alone, solo>>

-----------------------------------------------------------------------------
(* prepare *)

ScanQuarantines(p) ==
    /\ At(p, "sweep") /\ listed[p] = Unlisted
    /\ noted' = [noted EXCEPT ![p].marked = {v \in Versions : marker[v]}]
    /\ Continue(p, "probe")
    /\ UNCHANGED <<cache, leases, listed, busy, want, flags, failures, cacheHistory>>

(* The installed executable is discovered next; its copy is used if cached. *)
FindCached(p) ==
    /\ At(p, "probe")
    /\ LET valid == {v \in Versions \ noted[p].marked : Valid(v)}
       IN  /\ noted' = [noted EXCEPT ![p].valid = valid]
           /\ Continue(p, IF want[p] \in valid THEN "companion" ELSE "lease")
    /\ UNCHANGED <<cache, leases, listed, busy, want, flags, failures, cacheHistory>>

(* A failure returns another cached version, if there is one.               *)
FallBack(p, quiet) ==
    IF noted[p].valid = {} THEN Finishes(p, "over", quiet) /\ UNCHANGED want
    ELSE /\ \E v \in noted[p].valid : want' = [want EXCEPT ![p] = v]
         /\ flags' = [flags EXCEPT ![p] = Unstaged]
         /\ alone' = [alone EXCEPT ![p] = @ /\ quiet]
         /\ Continue(p, "acquire") /\ UNCHANGED <<listed, busy, noted, solo>>

(* _ensure_code_mode_host copies the companion next to the executable.      *)
Companion(p) ==
    /\ At(p, "companion")
    /\ IF Valid(want[p])
       THEN final' = [final EXCEPT ![want[p]] = "hosted"] /\ Continue(p, "acquire")
            /\ UNCHANGED <<local, solo, alone>>
       ELSE FallBack(p, alone[p]) /\ UNCHANGED final
    /\ UNCHANGED <<marker, leases, failures, proven>>

(* LockedPrivateCodex._acquire *)
Acquire(p) ==
    /\ At(p, "acquire")
    /\ Finishes(p, IF Valid(want[p]) THEN "prepared" ELSE "over", alone[p])
    /\ UNCHANGED <<cache, leases, want, failures, proven>>

-----------------------------------------------------------------------------
(* _stage_locked_source *)

CreateLease(p) ==
    /\ At(p, "lease")
    /\ lease' = [lease EXCEPT ![p] = TRUE]
    /\ Continue(p, "lock")
    /\ UNCHANGED <<cache, holder, aged, stage, local, failures, cacheHistory>>

(* The lock is not waited for; the file stays when it is not obtained.      *)
LockOwn(p) ==
    /\ At(p, "lock")
    /\ IF Lockable(p)
       THEN /\ holder' = [holder EXCEPT ![p] = p] /\ Continue(p, "copy")
            /\ UNCHANGED <<local, solo, alone>>
       ELSE FallBack(p, alone[p]) /\ UNCHANGED holder
    /\ UNCHANGED <<cache, lease, aged, stage, failures, proven>>

(* The copy is hashed, validated and run once.                              *)
Copy(p) ==
    /\ At(p, "copy")
    /\ stage' = [stage EXCEPT ![p] = TRUE]
    /\ Continue(p, "mark")
    /\ UNCHANGED <<cache, lease, holder, aged, local, failures, cacheHistory>>

Marked(p) == [marker EXCEPT ![want[p]] = TRUE]

(* _publish_quarantine, ahead of the rename.                                *)
PublishQuarantine(p) ==
    /\ At(p, "mark")
    /\ marker' = Marked(p)
    /\ Continue(p, "look")
    /\ UNCHANGED <<final, leases, local, failures, cacheHistory>>

\* Mistake: what a crash has left there is not looked for.
AlwaysFree(p) == TRUE

Vacant(p) == final[want[p]] = "none"

Look(p) ==
    /\ At(p, "look")
    /\ Continue(p, IF Vacant(p) THEN "place" ELSE "validate")
    /\ UNCHANGED <<cache, leases, local, failures, cacheHistory>>

(* The handler of any failure after the marker was written.                 *)
Failing(p) ==
    /\ flags' = [flags EXCEPT ![p].failing = TRUE]
    /\ Continue(p, IF flags[p].clearing THEN "remark" ELSE "failing")

(* The rename fails when somebody else has published meanwhile.             *)
Place(p) ==
    /\ At(p, "place")
    /\ IF final[want[p]] = "none" /\ stage[p]
       THEN /\ final' = [final EXCEPT ![want[p]] = "whole"]
            /\ proven' = [proven EXCEPT ![want[p]] = FALSE]
            /\ stage' = [stage EXCEPT ![p] = FALSE]
            /\ flags' = [flags EXCEPT ![p].placed = TRUE]
            /\ Continue(p, "close")
       ELSE Failing(p) /\ UNCHANGED <<final, proven, stage>>
    /\ UNCHANGED <<marker, lease, holder, aged, listed, busy, noted, want, failures, alone, solo>>

(* What is there already is used when it is valid, and replaced when it was *)
(* quarantined before this preparation.                                     *)
ValidateFound(p) ==
    /\ At(p, "validate")
    /\ IF Valid(want[p])
       THEN proven' = [proven EXCEPT ![want[p]] = TRUE] /\ Continue(p, "probeMarker")
            /\ UNCHANGED <<flags, final>>
       ELSE /\ IF want[p] \in noted[p].marked
               THEN Continue(p, "replacing") /\ UNCHANGED flags
               ELSE Failing(p)
            /\ UNCHANGED <<final, proven>>
    /\ UNCHANGED <<marker, leases, listed, busy, noted, want, failures, alone, solo>>

(* The files of a tree go one by one, the companion unlike the others.      *)
Remains(v) ==
    CASE final[v] = "whole"  -> {"partial", "broken"}
      [] final[v] = "hosted" -> {"broken"}
      [] OTHER -> {final[v]}

(* _remove_owned_tree of what was found invalid, without looking again.     *)
ReplaceInvalid(p) ==
    /\ At(p, "replacing")
    /\ final' = [final EXCEPT ![want[p]] = "none"]
    /\ proven' = [proven EXCEPT ![want[p]] = FALSE]
    /\ Continue(p, "place")
    /\ UNCHANGED <<flags, marker, leases, listed, busy, noted, want, failures, alone, solo>>

CloseLease(p) ==
    /\ At(p, "close")
    /\ holder' = [holder EXCEPT ![p] = Nobody]
    /\ Continue(p, "unlink")
    /\ UNCHANGED <<cache, lease, aged, stage, local, failures, cacheHistory>>

UnlinkLease(p) ==
    /\ At(p, "unlink")
    /\ Unlink(p)
    /\ IF lease[p] THEN Continue(p, "revalidate") /\ UNCHANGED flags ELSE Failing(p)
    /\ UNCHANGED <<cache, holder, stage, listed, busy, noted, want, failures, cacheHistory>>

Revalidate(p) ==
    /\ At(p, "revalidate")
    /\ IF Valid(want[p])
       THEN proven' = [proven EXCEPT ![want[p]] = TRUE] /\ Continue(p, "probeMarker")
            /\ UNCHANGED flags
       ELSE Failing(p) /\ UNCHANGED proven
    /\ UNCHANGED <<cache, leases, listed, busy, noted, want, failures, alone, solo>>

(* Another preparer may have cleared the marker of what is valid.           *)
ProbeMarker(p) ==
    /\ At(p, "probeMarker")
    /\ Continue(p, IF marker[want[p]] THEN "clear" ELSE "dropLease")
    /\ flags' = [flags EXCEPT ![p].clearing = marker[want[p]]]
    /\ UNCHANGED <<cache, leases, listed, busy, noted, want, failures, cacheHistory>>

ClearMarker(p) ==
    /\ At(p, "clear")
    /\ marker' = [marker EXCEPT ![want[p]] = FALSE]
    /\ IF marker[want[p]] THEN Continue(p, "dropLease") /\ UNCHANGED flags ELSE Failing(p)
    /\ UNCHANGED <<final, leases, listed, busy, noted, want, failures, cacheHistory>>

-----------------------------------------------------------------------------
(* ... and what follows a failure, or a success *)

(* Somebody else has validated what this preparer failed to publish.        *)
ConcurrentCommit(p) == ~marker[want[p]] /\ Valid(want[p])

ProbeFailed(p) ==
    /\ At(p, "failing")
    /\ IF ConcurrentCommit(p)
       THEN flags' = [flags EXCEPT ![p].placed = FALSE] /\ Continue(p, "dropLease")
       ELSE Continue(p, "remark") /\ UNCHANGED flags
    /\ UNCHANGED <<cache, leases, listed, busy, noted, want, failures, cacheHistory>>

Remark(p) ==
    /\ At(p, "remark")
    /\ marker' = Marked(p)
    /\ Continue(p, "dropLease")
    /\ UNCHANGED <<final, leases, local, failures, cacheHistory>>

DropLease(p) ==
    /\ At(p, "dropLease")
    /\ Unlink(p)
    /\ holder' = [holder EXCEPT ![p] = IF @ = p THEN Nobody ELSE @]
    /\ Continue(p, "dropStage")
    /\ UNCHANGED <<cache, stage, local, failures, cacheHistory>>

Withdraws(p) == flags[p].failing /\ flags[p].placed /\ ~flags[p].clearing

DropStage(p) ==
    /\ At(p, "dropStage")
    /\ stage' = [stage EXCEPT ![p] = FALSE]
    /\ IF Withdraws(p) THEN Continue(p, "withdraw") /\ UNCHANGED <<local, solo, alone>>
       ELSE IF flags[p].failing THEN FallBack(p, alone[p])
       ELSE Continue(p, "companion") /\ UNCHANGED <<local, solo, alone>>
    /\ UNCHANGED <<cache, lease, holder, aged, failures, proven>>

Withdraw(p) ==
    /\ At(p, "withdraw")
    /\ \E rest \in Remains(want[p]) : final' = [final EXCEPT ![want[p]] = rest]
    /\ proven' = [proven EXCEPT ![want[p]] = FALSE]
    /\ Continue(p, "withdrawing")
    /\ UNCHANGED <<marker, leases, local, failures, alone, solo>>

Withdrawn(p) ==
    /\ At(p, "withdrawing")
    /\ final' = [final EXCEPT ![want[p]] = "none"]
    /\ proven' = [proven EXCEPT ![want[p]] = FALSE]
    /\ FallBack(p, alone[p])
    /\ UNCHANGED <<marker, leases, failures>>

-----------------------------------------------------------------------------
(* The surroundings *)

(* An access fails: no source is installed, the copy is not valid, a write  *)
(* or an fsync fails, or the removal of a lease.                            *)
AccessFails(p) ==
    /\ failures < MaxFailures /\ failures' = failures + 1
    /\ \/ /\ todo[p] \in {"companion", "lease"}
          /\ FallBack(p, FALSE)
       \/ /\ At(p, "copy")
          /\ flags' = [flags EXCEPT ![p].failing = TRUE] /\ Continue(p, "dropLease")
          /\ UNCHANGED <<listed, busy, noted, want, solo>>
          /\ alone' = [alone EXCEPT ![p] = FALSE]
       \/ /\ todo[p] \in {"mark", "look", "place", "validate", "close", "unlink", "revalidate",
                        "probeMarker", "clear"}
          /\ Failing(p) /\ UNCHANGED <<listed, busy, noted, want, solo>>
          /\ alone' = [alone EXCEPT ![p] = FALSE]
       \/ /\ At(p, "remark")
          /\ flags' = [flags EXCEPT ![p].placed = FALSE] /\ Continue(p, "dropLease")
          /\ UNCHANGED <<listed, busy, noted, want, solo>>
          /\ alone' = [alone EXCEPT ![p] = FALSE]
    /\ UNCHANGED <<cache, leases, proven>>

(* The locks of a process go with it.                                       *)
PreparerCrashes(p) ==
    /\ p \in Active
    /\ holder' = [q \in Preparers |-> IF holder[q] = p THEN Nobody ELSE holder[q]]
    /\ Finishes(p, "over", FALSE)
    /\ UNCHANGED <<cache, lease, aged, stage, want, failures, proven>>

(* The grace period of a lease that was left ends, or that of one at work.  *)
Age(q) ==
    /\ lease[q] /\ ~aged[q]
    /\ failures' = IF q \in Active THEN failures + 1 ELSE failures
    /\ failures' <= MaxFailures
    /\ aged' = [aged EXCEPT ![q] = TRUE]
    /\ UNCHANGED <<cache, lease, holder, stage, todo, local, cacheHistory>>

Sweep(p) ==
    \/ List(p) \/ LeaveLease(p) \/ SweepStage(p) \/ SweepLease(p) \/ Purge(p)
    \/ \E q \in Preparers : LockLease(p, q) \/ SweepOrphan(p, q)
    \/ \E v \in Versions : LookAtFinal(p, v)

Prepare(p) ==
    \/ ScanQuarantines(p) \/ FindCached(p) \/ Companion(p) \/ Acquire(p)

Stage(p) ==
    \/ CreateLease(p) \/ LockOwn(p) \/ Copy(p) \/ PublishQuarantine(p)
    \/ Look(p) \/ Place(p) \/ ValidateFound(p) \/ ReplaceInvalid(p)
    \/ CloseLease(p) \/ UnlinkLease(p) \/ Revalidate(p) \/ ProbeMarker(p)
    \/ ClearMarker(p) \/ ProbeFailed(p) \/ Remark(p)
    \/ DropLease(p) \/ DropStage(p) \/ Withdraw(p) \/ Withdrawn(p)

CacheNext == \E p \in Preparers :
    Sweep(p) \/ Prepare(p) \/ Stage(p) \/ AccessFails(p) \/ PreparerCrashes(p) \/ Age(p)

CacheSpec == CacheInit /\ [][CacheNext]_cacheVars

-----------------------------------------------------------------------------
(* Properties *)

CacheTypeOK ==
    /\ final \in [Versions -> Finals] /\ marker \in [Versions -> BOOLEAN]
    /\ lease \in [Preparers -> BOOLEAN] /\ aged \in [Preparers -> BOOLEAN]
    /\ holder \in [Preparers -> Preparers \cup {Nobody}]
    /\ stage \in [Preparers -> BOOLEAN] /\ todo \in [Preparers -> PreparerSteps]
    /\ listed \in [Preparers -> [leases : SUBSET Preparers, stages : SUBSET Preparers,
                                 finals : SUBSET Versions, partial : SUBSET Versions]]
    /\ busy \in [Preparers -> Preparers \cup {Nobody}]
    /\ noted \in [Preparers -> [marked : SUBSET Versions, valid : SUBSET Versions]]
    /\ want \in [Preparers -> Versions]
    /\ flags \in [Preparers -> [placed : BOOLEAN, clearing : BOOLEAN, failing : BOOLEAN]]
    /\ failures \in 0..MaxFailures /\ proven \in [Versions -> BOOLEAN]
    /\ alone \in [Preparers -> BOOLEAN] /\ solo \in [Versions -> Nat]

(* The staging directory of a preparer at work is not swept by another.      *)
LiveStageKept ==
    \A p \in Preparers :
        todo[p] \in {"mark", "look", "place", "validate", "replacing"} => stage[p]

(* An executable whose marker is gone has been validated where it is, as     *)
(* long as nothing fails but by interference or a crash.                     *)
UnmarkedIsProven ==
    failures = 0 => \A v \in Versions : Valid(v) /\ ~marker[v] => proven[v]

(* What is in use is kept, and what is offered is what was looked at.        *)
CacheIsSound == LiveStageKept /\ UnmarkedIsProven

(* Whatever crashes and failures have left of a version, the second of two   *)
(* preparations of it that nothing disturbs succeeds.                        *)
Recovers == \A v \in Versions : solo[v] <= 1

=============================================================================
