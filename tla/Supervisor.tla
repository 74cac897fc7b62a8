------------------------------ MODULE Supervisor ------------------------------
(***************************************************************************)
(* gps's supervisor and SourceMgr.Release (gps/source_manager.go).  Calls  *)
(* that touch the network or the cache directory run inside do(), which    *)
(* counts them by name and type; Release cancels their context, waits      *)
(* until the last of them has ended and only then gives up the lock file   *)
(* that keeps other processes out of the cache directory.                  *)
(***************************************************************************)
EXTENDS Naturals, FiniteSets, GoMap

CONSTANTS
    Callers,     \* the goroutines that call methods of the SourceMgr
    CallInfos,   \* names and types of supervised calls
    Outside      \* no supervised call

ASSUME CallsAssumption == IsFiniteSet(Callers) /\ Outside \notin CallInfos

VARIABLES
    cancelled,   \* whether the context of the supervisor is
    running,     \* supervisor.running
    inside,      \* the supervised call that each caller is in
    release,     \* where Release stands; "none" while releasing is 0
    locked       \* whether the lock file is held

supVars == <<cancelled, running, inside, release, locked>>

SupInit ==
    /\ cancelled = FALSE
    /\ running = EmptyMap
    /\ inside = [c \in Callers |-> Outside]
    /\ release = "none"
    /\ locked = TRUE

----------------------------------------------------------------------------
(* do(): start, the closure, done.                                         *)

Start(c, ci) ==
    /\ ~cancelled
    /\ running' = Put(running, ci, IF ci \in DOMAIN running THEN running[ci] + 1 ELSE 1)
    /\ inside' = [inside EXCEPT ![c] = ci]
    /\ UNCHANGED <<cancelled, release, locked>>

\* Mutant: the entry goes with the first of several calls that share it.
DoneWithEntry(c) ==
    /\ running' = Delete(running, inside[c])
    /\ inside' = [inside EXCEPT ![c] = Outside]
    /\ release' = IF running' = EmptyMap /\ release = "asleep" THEN "waiting" ELSE release
    /\ UNCHANGED <<cancelled, locked>>

\* The last call of all wakes wait().
Done(c) ==
    /\ running' = IF running[inside[c]] > 1 THEN [running EXCEPT ![inside[c]] = @ - 1]
                  ELSE Delete(running, inside[c])
    /\ inside' = [inside EXCEPT ![c] = Outside]
    /\ release' = IF DOMAIN running' = {} /\ release = "asleep" THEN "waiting" ELSE release
    /\ UNCHANGED <<cancelled, locked>>

----------------------------------------------------------------------------
(* Release, which relonce lets happen once.                                *)

BeginRelease ==
    /\ release = "none"
    /\ release' = "flagged"
    /\ UNCHANGED <<cancelled, running, inside, locked>>

CancelAll ==
    /\ release = "flagged"
    /\ cancelled' = TRUE
    /\ release' = "waiting"
    /\ UNCHANGED <<running, inside, locked>>

\* wait() looks at the map with the mutex held, and sleeps until it is signalled.
Wait ==
    /\ release = "waiting"
    /\ release' = IF DOMAIN running = {} THEN "waited" ELSE "asleep"
    /\ UNCHANGED <<cancelled, running, inside, locked>>

Unlock ==
    /\ release = "waited"
    /\ locked' = FALSE
    /\ release' = "released"
    /\ UNCHANGED <<cancelled, running, inside>>

Release == CancelAll \/ Wait \/ Unlock

----------------------------------------------------------------------------
(***************************************************************************)
(* Properties                                                              *)
(***************************************************************************)
SupTypeOK ==
    /\ cancelled \in BOOLEAN /\ locked \in BOOLEAN
    /\ inside \in [Callers -> CallInfos \cup {Outside}]
    /\ release \in {"none", "flagged", "waiting", "asleep", "waited", "released"}
    /\ cancelled <=> release \notin {"none", "flagged"}

\* The map counts the calls that are running, although several of them share a
\* name and a type: done() never meets a call that is not in it (the panic of
\* source_manager.go:713).
CountsAreRight ==
    /\ DOMAIN running = {inside[c] : c \in Callers} \ {Outside}
    /\ \A ci \in DOMAIN running : running[ci] = Cardinality({c \in Callers : inside[c] = ci})

\* "the sourceMgr can't finish Release()ing until after all calls have returned"
\* (source_manager.go:660): the lock file is not given up under a call.
LockCoversCalls ==
    release \in {"waited", "released"} \/ ~locked => \A c \in Callers : inside[c] = Outside

\* A release that sleeps has something to wait for.
SleepsForACall == release = "asleep" => DOMAIN running # {}

\* Once Release has begun it ends.
ReleaseEnds == release = "flagged" ~> release = "released"

----------------------------------------------------------------------------
(* The inductive invariant behind them.                                    *)

SupInv ==
    /\ SupTypeOK /\ CountsAreRight /\ LockCoversCalls /\ SleepsForACall
    /\ ~locked => release = "released"
=============================================================================
