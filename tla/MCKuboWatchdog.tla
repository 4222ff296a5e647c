--------------------------- MODULE MCKuboWatchdog ---------------------------
(***************************************************************************)
(* Model-checking instances of KuboWatchdog.                               *)
(***************************************************************************)
EXTENDS KuboWatchdog

CONSTANTS MaxStops    \* times kubo stops by itself

VARIABLE stops

MCvars == <<vars, stops>>

MCInit == Init /\ stops = 0

MCNext ==
    \/ StartStep /\ UNCHANGED stops
    \/ Tick /\ UNCHANGED stops
    \/ WatchStep /\ UNCHANGED stops
    \/ HostRestarts /\ UNCHANGED stops
    \/ KuboStarts /\ UNCHANGED stops
    \/ NetworkChanges /\ UNCHANGED stops
    \/ KuboStops /\ stops < MaxStops /\ stops' = stops + 1

MCSpec == MCInit /\ [][MCNext]_MCvars

\* The goroutines run and time passes.  A call may fail, but not always.
MCFairSpec ==
    /\ MCSpec
    /\ WF_MCvars(StartStep /\ UNCHANGED stops)
    /\ WF_MCvars(WatchStep /\ UNCHANGED stops)
    /\ WF_MCvars(Tick /\ UNCHANGED stops)
    /\ WF_MCvars(KuboStarts /\ UNCHANGED stops)
    /\ SF_MCvars(CheckKuboAlive /\ watch' = "listeners" /\ UNCHANGED stops)
    /\ SF_MCvars(CheckKuboP2PListeners /\ watch' = "forward" /\ UNCHANGED stops)
    /\ SF_MCvars(StartListens /\ registerAll /\ UNCHANGED stops)
    /\ SF_MCvars(WatchListens /\ registerAll /\ UNCHANGED stops)
    /\ SF_MCvars(CheckClusterForward /\ forward' /\ UNCHANGED stops)
=============================================================================
