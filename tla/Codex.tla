------------------------------- MODULE Codex --------------------------------
(***************************************************************************)
(* The executable of the Codex CLI, which RuntimeCache prepares, and the   *)
(* commands that Sandbox runs through it.  What the cache has handed over  *)
(* is held open by its new owner, which is the command of Sandbox; nothing *)
(* that happens in the cache afterwards reaches it.  So the two share no   *)
(* state, and each is looked at while the other is at rest.                *)
(***************************************************************************)
EXTENDS RuntimeCache, Sandbox

VARIABLE at               \* what goes on: preparations or commands

codexVars == <<cacheVars, sandboxVars, at>>

NobodyCalls ==
    /\ \A c \in Callers : call[c] = <<"done">>
    /\ host = [posix |-> TRUE, shared |-> FALSE]

CodexInit ==
    /\ CacheInit /\ SandboxInit
    /\ \/ at = "cache" /\ NobodyCalls
       \/ at = "commands" /\ want \in {[p \in Preparers |-> v] : v \in Versions}

Preparing == at = "cache" /\ CacheNext /\ UNCHANGED <<sandboxVars, at>>

Running == at = "commands" /\ SandboxNext /\ UNCHANGED <<cacheVars, at>>

CodexNext == Preparing \/ Running

CodexSpec == CodexInit /\ [][CodexNext]_codexVars
=============================================================================
