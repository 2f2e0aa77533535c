----------------------------- MODULE PauseGuard -----------------------------
(* The emergency pause as the backend keeps it (middleware/pauseGuard.ts): a  *)
(* row in the database, a mirror in Redis, and in every process the state the *)
(* guard enforces.  A process hears of a pause from the events it indexes, or *)
(* when it reads the row again.  Every await is a step.                       *)
EXTENDS Integers, FiniteSets

CONSTANTS Nodes,          \* backend processes
          Indexers,       \* the ones that index events
          MAX_TURNS,      \* bound: pauses and unpauses the chain reports
          MAX_RESTARTS    \* bound: processes that die and start again

VARIABLES pause_row,      \* pause_state.is_paused
          mirror,         \* Redis: "paused", "open", or "none"
          guard,          \* guard[n]: [paused, real], globalPauseState; real: some source
                          \* (database, cache, memory) has answered, now or before
          pendingPause,   \* pendingPause[n]: a pause the database has not received
          loader,         \* loader[n]: updatePauseStateFromDatabase under way
          setter,         \* setter[n]: setPauseState under way
          told,           \* the last event a process was told: "none", "pause", "unpause",
                          \* or "lost", a pause that no process holds for pending any more
          turns, restarts

pause_vars == <<pause_row, mirror, guard, pendingPause, loader, setter, told, turns, restarts>>

Unloaded == [paused |-> FALSE, real |-> FALSE]
FailClosed == [paused |-> TRUE, real |-> FALSE]
Idle == [at |-> "idle", paused |-> FALSE, known |-> Unloaded]
Mirror(paused) == IF paused THEN "paused" ELSE "open"

PauseInit ==
    /\ pause_row = FALSE /\ mirror = "none"
    /\ guard = [n \in Nodes |-> Unloaded]
    /\ pendingPause = [n \in Nodes |-> FALSE]
    /\ loader = [n \in Nodes |-> Idle] /\ setter = [n \in Nodes |-> Idle]
    /\ told = "none" /\ turns = 0 /\ restarts = 0

applyState(n, state) == guard' = [guard EXCEPT ![n] = state]
Real(paused) == [paused |-> paused, real |-> TRUE]

\* mirrorToCache, which may fail or time out.
mirrorToCache(paused) == mirror' \in {mirror, Mirror(paused)}

-----------------------------------------------------------------------------
(* setPauseState, for an event or for a pause still pending (the model runs    *)
(* the calls of one process one after the other).                              *)

pool_paused_event(n, paused) ==
    /\ setter[n].at = "idle" /\ guard[n] # Unloaded /\ turns < MAX_TURNS
    /\ turns' = turns + 1
    /\ told' = IF paused THEN "pause" ELSE "unpause"
    /\ setter' = [setter EXCEPT ![n] = [@ EXCEPT !.at = "writing", !.paused = paused]]
    /\ UNCHANGED <<pause_row, mirror, guard, pendingPause, loader, restarts>>

set_written(n) ==
    /\ setter[n].at = "writing"
    /\ pause_row' = setter[n].paused
    /\ setter' = [setter EXCEPT ![n].at = "written"]
    /\ UNCHANGED <<mirror, guard, pendingPause, loader, told, turns, restarts>>

setPauseState(n) ==
    /\ setter[n].at = "written"
    /\ pendingPause' = [pendingPause EXCEPT ![n] = FALSE]
    /\ applyState(n, Real(setter[n].paused))
    /\ mirrorToCache(setter[n].paused)
    /\ setter' = [setter EXCEPT ![n] = Idle]
    /\ UNCHANGED <<pause_row, loader, told, turns, restarts>>

\* The statement fails, or its answer is lost: a pause is kept in memory, and the
\* lifting of one is not applied.
set_failed(n) ==
    /\ setter[n].at \in {"writing", "written"}
    /\ IF setter[n].paused
       THEN /\ pendingPause' = [pendingPause EXCEPT ![n] = TRUE]
            /\ applyState(n, Real(TRUE)) /\ mirrorToCache(TRUE)
       ELSE UNCHANGED <<pendingPause, guard, mirror>>
    /\ setter' = [setter EXCEPT ![n] = Idle]
    /\ UNCHANGED <<pause_row, loader, told, turns, restarts>>

-----------------------------------------------------------------------------
(* updatePauseStateFromDatabase: at the start, on the interval and for every  *)
(* GET of the pause state.                                                    *)

\* initializePauseState also makes sure that the row exists; if it cannot, the
\* process does not start.
load_reads(n) ==
    /\ loader[n].at = "idle"
    /\ loader' = [loader EXCEPT ![n] = [Idle EXCEPT !.at = "read", !.paused = pause_row]]
    /\ UNCHANGED <<pause_row, mirror, guard, pendingPause, setter, told, turns, restarts>>

keeps_pending_never(n) == FALSE

keeps_pending(n) == pendingPause[n] /\ ~loader[n].paused

updatePauseStateFromDatabase(n) ==
    /\ loader[n].at = "read"
    /\ \/ /\ keeps_pending(n) /\ setter[n].at = "idle"
          /\ setter' = [setter EXCEPT ![n] = [@ EXCEPT !.at = "writing", !.paused = TRUE]]
          /\ UNCHANGED <<guard, mirror, pendingPause>>
       \/ /\ ~keeps_pending(n)
          /\ pendingPause' = [pendingPause EXCEPT ![n] = FALSE]
          /\ applyState(n, Real(loader[n].paused))
          /\ mirrorToCache(loader[n].paused)
          /\ UNCHANGED setter
    /\ loader' = [loader EXCEPT ![n] = Idle]
    /\ told' = IF pendingPause[n] /\ loader[n].paused /\ ~pause_row THEN "lost" ELSE told
    /\ UNCHANGED <<pause_row, turns, restarts>>

\* fallBackFromDatabase remembers the state it found, asks Redis, and decides.
load_fails(n) ==
    /\ loader[n].at = "idle"
    /\ loader' = [loader EXCEPT ![n] = [Idle EXCEPT !.at = "fallback", !.known = guard[n]]]
    /\ UNCHANGED <<pause_row, mirror, guard, pendingPause, setter, told, turns, restarts>>

fallBackFromDatabase(n) ==
    LET known == loader[n].known
    IN  /\ loader[n].at = "fallback"
        /\ \E cached \in {mirror, "none"} :
             \/ /\ cached # "none"
                /\ applyState(n, Real(cached = "paused" \/ (known.paused /\ known.real)))
             \/ /\ cached = "none"
                /\ applyState(n, IF known.real THEN known ELSE FailClosed)
        /\ loader' = [loader EXCEPT ![n] = Idle]
        /\ UNCHANGED <<pause_row, mirror, pendingPause, setter, told, turns, restarts>>

\* The process dies, with the pause that only it knew of.
node_restarts(n) ==
    /\ restarts < MAX_RESTARTS /\ restarts' = restarts + 1
    /\ guard[n] # Unloaded
    /\ guard' = [guard EXCEPT ![n] = Unloaded]
    /\ told' = IF told = "pause" /\ ~pause_row THEN "lost" ELSE told
    /\ pendingPause' = [pendingPause EXCEPT ![n] = FALSE]
    /\ loader' = [loader EXCEPT ![n] = Idle] /\ setter' = [setter EXCEPT ![n] = Idle]
    /\ UNCHANGED <<pause_row, mirror, turns>>

PauseNext ==
    \E n \in Nodes :
        \/ n \in Indexers /\ \E paused \in BOOLEAN : pool_paused_event(n, paused)
        \/ set_written(n) \/ setPauseState(n) \/ set_failed(n)
        \/ load_reads(n) \/ updatePauseStateFromDatabase(n)
        \/ load_fails(n) \/ fallBackFromDatabase(n) \/ node_restarts(n)

\* The interval fires for ever, a statement ends, and a database that is asked
\* again and again answers.
PauseFairness ==
    \A n \in Nodes :
        /\ WF_pause_vars(setPauseState(n) \/ set_failed(n))
        /\ WF_pause_vars(updatePauseStateFromDatabase(n) \/ fallBackFromDatabase(n))
        /\ SF_pause_vars(load_reads(n)) /\ SF_pause_vars(set_written(n))

-----------------------------------------------------------------------------
\* A pause that could not be written when it happened is in the database in the
\* end, through failed statements, stale reads and other processes' refreshes;
\* unless it was lifted, or the one process that knew of it died, or a read of an
\* earlier pause, lifted since, came back late and was taken for it.  (With two
\* indexers a slow unpause of the one can overwrite a later pause of the other.)
PauseReachesRow == told = "pause" ~> pause_row \/ told # "pause"
=============================================================================
