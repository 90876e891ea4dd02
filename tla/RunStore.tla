----------------------------- MODULE RunStore ------------------------------
(***************************************************************************)
(* state_store.py, FileRunStore: how processes that share a run directory  *)
(* change run.json.  A caller loads the run, works on its copy and saves it *)
(* (save, transition, decide_completed_analysis) with the version it loaded.*)
(* The save takes the advisory lock .lock, reads the file again, compares   *)
(* versions, writes a temporary file and renames it over run.json.  delete  *)
(* takes the same lock to check the directory, releases it, and then        *)
(* renames the directory away.  A process may crash anywhere; the operating *)
(* system then drops its lock and leaves its temporary file behind.         *)
(***************************************************************************)
EXTENDS Naturals, FiniteSets

CONSTANTS Procs, NoProc,
          Updates,   \* the changes callers make, each once
          NoUpdate

ASSUME StoreAssumption == NoProc \notin Procs /\ NoUpdate \notin Updates

VARIABLES
    file,      \* run.json: [version, updates], the updates it reflects
    present,   \* the run directory carries its name
    temp,      \* the temporary file of each writer
    lock,      \* who holds .lock
    pc, snap,  \* the copy each caller loaded
    mine,      \* the update it is about to save
    used, acked  \* history: updates ever attempted, updates whose save returned

vars == <<file, present, temp, lock, pc, snap, mine, used, acked>>

Runs == [version : Nat, updates : SUBSET Updates]
New  == [version |-> 1, updates |-> {}]
Holding == {"locked", "checked", "written", "replaced", "condemned"}
Steps   == {"idle", "ready", "deleting"} \cup Holding

Init ==
    /\ file = New /\ present = TRUE
    /\ temp = [p \in Procs |-> New] /\ lock = NoProc
    /\ pc = [p \in Procs |-> "idle"] /\ snap = [p \in Procs |-> New]
    /\ mine = [p \in Procs |-> NoUpdate]
    /\ used = {} /\ acked = {}

Go(p, step) == pc' = [pc EXCEPT ![p] = step]

\* load: under the lock, or read-only without it; the rename that replaces
\* run.json makes both see one complete version.
Load(p) ==
    /\ pc[p] = "idle" /\ present
    /\ snap' = [snap EXCEPT ![p] = file]
    /\ Go(p, "ready")
    /\ UNCHANGED <<file, present, temp, lock, mine, used, acked>>

(* _advisory_lock: the directory must still be the one it was opened in.    *)
Free == lock = NoProc

Take(p, u) ==
    /\ pc[p] = "ready" /\ present /\ Free
    /\ u \notin used
    /\ lock' = p /\ mine' = [mine EXCEPT ![p] = u] /\ used' = used \cup {u}
    /\ Go(p, "locked")
    /\ UNCHANGED <<file, present, temp, snap, acked>>

(* _check_version against the file read under the lock.                     *)
Expected(p) == file.version = snap[p].version

Check(p) ==
    /\ pc[p] = "locked" /\ present
    /\ Expected(p)
    /\ Go(p, "checked")
    /\ UNCHANGED <<file, present, temp, lock, snap, mine, used, acked>>

(* _atomic_write: what is stored is the caller's copy, with its update.     *)
Stored(p) == [version |-> snap[p].version + 1, updates |-> snap[p].updates \cup {mine[p]}]

WriteTemp(p) ==
    /\ pc[p] = "checked" /\ present
    /\ temp' = [temp EXCEPT ![p] = Stored(p)]
    /\ Go(p, "written")
    /\ UNCHANGED <<file, present, lock, snap, mine, used, acked>>

\* Mistake: the file is created again when its directory was deleted.
ReplaceAnywhere(p) ==
    /\ pc[p] = "written"
    /\ file' = temp[p]
    /\ Go(p, "replaced")
    /\ UNCHANGED <<present, temp, lock, snap, mine, used, acked>>

Replace(p) ==
    /\ pc[p] = "written" /\ present
    /\ file' = temp[p]
    /\ Go(p, "replaced")
    /\ UNCHANGED <<present, temp, lock, snap, mine, used, acked>>

\* The caller gives up its copy and, if it has it, the lock.
Release(p) ==
    /\ lock' = IF lock = p THEN NoProc ELSE lock
    /\ Go(p, "idle")
    /\ snap' = [snap EXCEPT ![p] = New]
    /\ temp' = [temp EXCEPT ![p] = New]
    /\ mine' = [mine EXCEPT ![p] = NoUpdate]

\* The directory is looked at once more before the save returns; the caller
\* goes on with the version it stored.
Return(p) ==
    /\ pc[p] = "replaced" /\ present
    /\ acked' = acked \cup {mine[p]}
    /\ lock' = NoProc
    /\ snap' = [snap EXCEPT ![p] = temp[p]]
    /\ temp' = [temp EXCEPT ![p] = New] /\ mine' = [mine EXCEPT ![p] = NoUpdate]
    /\ Go(p, "ready")
    /\ UNCHANGED <<file, present, used>>

(* A version conflict, a vanished directory, a full disk, a crash: the      *)
(* caller cannot tell whether an update that was renamed counts.            *)
Stop(p) ==
    /\ pc[p] # "idle"
    /\ Release(p)
    /\ UNCHANGED <<file, present, used, acked>>

(* delete: the lock covers the identity check, not the rename.              *)
Condemn(p) ==
    /\ pc[p] = "idle" /\ present /\ Free
    /\ lock' = p
    /\ Go(p, "condemned")
    /\ UNCHANGED <<file, present, temp, snap, mine, used, acked>>

Unlock(p) ==
    /\ pc[p] = "condemned"
    /\ lock' = NoProc
    /\ Go(p, "deleting")
    /\ UNCHANGED <<file, present, temp, snap, mine, used, acked>>

Remove(p) ==
    /\ pc[p] = "deleting" /\ present
    /\ present' = FALSE
    /\ Go(p, "idle")
    /\ UNCHANGED <<file, temp, lock, snap, mine, used, acked>>

Next ==
    \E p \in Procs :
       \/ Load(p) \/ Check(p) \/ WriteTemp(p) \/ Replace(p) \/ Return(p) \/ Stop(p)
       \/ Condemn(p) \/ Unlock(p) \/ Remove(p)
       \/ \E u \in Updates : Take(p, u)

Spec == Init /\ [][Next]_vars

-----------------------------------------------------------------------------
(* Properties *)

\* Every variable holds a value of its type, and a lock that is held belongs to
\* a caller that is using it (the finally of _advisory_lock).
TypeOK ==
    /\ file \in Runs /\ present \in BOOLEAN
    /\ temp \in [Procs -> Runs] /\ lock \in Procs \cup {NoProc}
    /\ pc \in [Procs -> Steps] /\ snap \in [Procs -> Runs]
    /\ mine \in [Procs -> Updates \cup {NoUpdate}]
    /\ used \subseteq Updates /\ acked \subseteq Updates
    /\ lock # NoProc => pc[lock] \in Holding

\* No acknowledged save is lost: whatever is saved, deleted or crashes later,
\* run.json reflects every update whose save returned (_save_locked compares
\* versions and writes under one lock).
NothingLost == acked \subseteq file.updates

\* The files, the lock and the compare-and-write implement one atomic cell:
\* every rename adds one update to the newest version, and nothing changes a
\* run that was deleted.
Target == INSTANCE RunCell WITH cell <- file
Implements == Target!Spec
=============================================================================
