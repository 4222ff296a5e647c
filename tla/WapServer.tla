------------------------------ MODULE WapServer ------------------------------
(***************************************************************************)
(* One life of the setup server of the WAP process: Serve opens the        *)
(* listeners, waits a bounded time for the hotspot's address, and leaves   *)
(* behind watchers that open more; Close ends them all.                    *)
(*                                                                         *)
(* The listeners are guarded by multiCloser.mu in add, trackWatcher and    *)
(* Close, but Serve itself appends the hotspot's listener without it, so   *)
(* that append and an add of the LAN watcher are each a read and a write   *)
(* of the slice that may overlap.  Close is called by the goroutine that   *)
(* called Serve, after Serve has returned.                                 *)
(***************************************************************************)
EXTENDS Naturals, FiniteSets

CONSTANTS
    LanAddrs,      \* LAN addresses the box may get
    MaxAttempts    \* rounds of Serve's wait for the hotspot (60)

ASSUME WapServerAssumption == MaxAttempts \in Nat /\ LanAddrs \cap {"ap", "lo"} = {}

VARIABLES
    apUp,       \* the hotspot's address is assigned
    ifaces,     \* the LAN addresses that exist
    owner,      \* config.yaml names an authorizer
    srv,        \* Serve and then Close
    attempts,   \* rounds of the wait
    socks,      \* the sockets that are bound
    listeners,  \* multiCloser.listeners
    seen,       \* the slice as Serve's append has read it
    lost,       \* listeners that an overlapping append wrote over
    mu,         \* the LAN watcher holds multiCloser.mu
    lan,        \* the LAN watcher
    lanTodo,    \* addresses it has still to look at in this tick
    lanBound,   \* its map "bound"
    lanSeen,    \* the slice as its add has read it
    hot         \* the hotspot watcher

envVars == <<apUp, ifaces, owner>>
lanVars == <<lan, lanTodo, lanBound, lanSeen, mu>>
wapVars == <<envVars, srv, attempts, socks, listeners, seen, lost, lanVars, hot>>

\* Close has closed stopWatch and set closed.
closedFlag == srv \in {"waiting", "closed"}

WapInit ==
    /\ apUp = FALSE /\ ifaces = {} /\ owner \in BOOLEAN
    /\ srv = "listen" /\ attempts = 0
    /\ socks = {} /\ listeners = {} /\ seen = {} /\ lost = {}
    /\ mu = FALSE /\ lan = "none" /\ lanTodo = {} /\ lanBound = {} /\ lanSeen = {}
    /\ hot = "none"

-----------------------------------------------------------------------------
(* Serve                                                                   *)

\* The first attempt on the hotspot's address.
ListenMain ==
    /\ srv = "listen"
    /\ socks' = IF apUp THEN socks \cup {"ap"} ELSE socks
    /\ srv' = "aux"
    /\ UNCHANGED <<envVars, attempts, listeners, seen, lost, lanVars, hot>>

\* The private addresses of the interfaces that are up, without the hotspot's.
lanListenAddrs == ifaces

\* The listeners opened on the LAN while the box has no owner.
startLANSetupListeners == IF owner THEN {} ELSE lanListenAddrs

\* Loopback and the LAN.
startAuxListeners ==
    /\ srv = "aux" /\ srv' = "auxWatch"
    /\ socks' = socks \cup {"lo"} \cup startLANSetupListeners
    /\ listeners' = listeners \cup {"lo"} \cup startLANSetupListeners
    /\ lanBound' = startLANSetupListeners
    /\ UNCHANGED <<envVars, attempts, seen, lost, lan, lanTodo, lanSeen, mu, hot>>

startLANSetupWatch ==
    /\ srv = "auxWatch"
    /\ lan' = IF owner THEN "none" ELSE "tick"
    /\ srv' = IF "ap" \in socks THEN "append" ELSE "wait"
    /\ UNCHANGED <<envVars, attempts, socks, listeners, seen, lost, lanTodo,
                   lanBound, lanSeen, mu, hot>>

\* Mutant: the bind that succeeds in the wait leaves the first error in place.
WaitForgets ==
    /\ srv = "wait"
    /\ \/ apUp /\ attempts < MaxAttempts /\ srv' = "up" /\ UNCHANGED <<attempts, socks>>
       \/ ~apUp /\ attempts < MaxAttempts /\ attempts' = attempts + 1 /\ UNCHANGED <<srv, socks>>
       \/ attempts = MaxAttempts /\ srv' = "watch" /\ UNCHANGED <<attempts, socks>>
    /\ UNCHANGED <<envVars, listeners, seen, lost, lanVars, hot>>

\* A round of the wait for the hotspot's interface; the last one gives up.
WaitForInterface ==
    /\ srv = "wait"
    /\ \/ /\ apUp /\ attempts < MaxAttempts
          /\ socks' = socks \cup {"ap"} /\ srv' = "append" /\ UNCHANGED attempts
       \/ /\ ~apUp /\ attempts < MaxAttempts
          /\ attempts' = attempts + 1 /\ UNCHANGED <<srv, socks>>
       \/ attempts = MaxAttempts /\ srv' = "watch" /\ UNCHANGED <<attempts, socks>>
    /\ UNCHANGED <<envVars, listeners, seen, lost, lanVars, hot>>

\* mc.listeners = append(mc.listeners, ln), without mc.mu.
AppendMain ==
    /\ \/ /\ srv = "append" /\ srv' = "appending"
          /\ seen' = listeners /\ UNCHANGED <<listeners, lost>>
       \/ /\ srv = "appending" /\ srv' = "up"
          /\ listeners' = seen \cup {"ap"} /\ lost' = lost \cup (listeners \ seen)
          /\ UNCHANGED seen
    /\ UNCHANGED <<envVars, attempts, socks, lanVars, hot>>

startHotspotWatch ==
    /\ srv = "watch" /\ srv' = "up" /\ hot' = "tick"
    /\ UNCHANGED <<envVars, attempts, socks, listeners, seen, lost, lanVars>>

-----------------------------------------------------------------------------
(* multiCloser.Close                                                       *)

Close ==
    /\ srv = "up" /\ ~mu /\ srv' = "waiting"
    /\ socks' = socks \ listeners /\ listeners' = {}
    /\ UNCHANGED <<envVars, attempts, seen, lost, lanVars, hot>>

\* watchers.Wait has returned.
CloseDone ==
    /\ srv = "waiting" /\ lan \in {"none", "done"} /\ hot \in {"none", "done"}
    /\ srv' = "closed"
    /\ UNCHANGED <<envVars, attempts, socks, listeners, seen, lost, lanVars, hot>>

-----------------------------------------------------------------------------
(* The LAN watcher.  Its select may take a tick although stop is closed.   *)

\* Mutant: the watcher waits on a channel that Close does not close.
LanStopsNever == FALSE /\ UNCHANGED wapVars

\* case <-stop
LanStops ==
    /\ lan = "tick" /\ closedFlag /\ lan' = "done"
    /\ UNCHANGED <<envVars, srv, attempts, socks, listeners, seen, lost, lanTodo,
                   lanBound, lanSeen, mu, hot>>

\* case <-ticker.C
LanTick ==
    /\ lan = "tick"
    /\ \/ owner /\ lan' = "done" /\ UNCHANGED lanTodo
       \/ ~owner /\ lan' = "scan" /\ lanTodo' = lanListenAddrs
    /\ UNCHANGED <<envVars, srv, attempts, socks, listeners, seen, lost, lanBound,
                   lanSeen, mu, hot>>

\* The address goes on with a socket, or without when it has gone again.
LanListen(a) ==
    /\ lan = "scan" /\ a \in lanTodo /\ lanTodo' = lanTodo \ {a}
    /\ IF a \in ifaces \ (lanBound \cup socks)
       THEN socks' = socks \cup {a} /\ lan' = "add"
       ELSE UNCHANGED <<socks, lan>>
    /\ lanSeen' = {a}
    /\ UNCHANGED <<envVars, srv, attempts, listeners, seen, lost, lanBound, mu, hot>>

LanScanned ==
    /\ lan = "scan" /\ lanTodo = {} /\ lan' = "tick"
    /\ UNCHANGED <<envVars, srv, attempts, socks, listeners, seen, lost, lanTodo,
                   lanBound, lanSeen, mu, hot>>

\* Mutant: add does not look at closed.
LanAddAlways ==
    /\ lan = "add" /\ ~mu
    /\ lan' = "adding" /\ mu' = TRUE
    /\ lanBound' = lanBound \cup lanSeen /\ lanSeen' = listeners \cup lanSeen
    /\ UNCHANGED <<socks, envVars, srv, attempts, listeners, seen, lost, lanTodo, hot>>

\* add of the LAN watcher, up to its read of the slice.
LanAdd ==
    /\ lan = "add" /\ ~mu
    /\ IF closedFlag
       THEN /\ socks' = socks \ lanSeen /\ lan' = "done"
            /\ UNCHANGED <<mu, lanBound, lanSeen>>
       ELSE /\ lan' = "adding" /\ mu' = TRUE
            /\ lanBound' = lanBound \cup lanSeen /\ lanSeen' = listeners \cup lanSeen
            /\ UNCHANGED socks
    /\ UNCHANGED <<envVars, srv, attempts, listeners, seen, lost, lanTodo, hot>>

\* add writes the longer slice and gives mu back.
LanAdded ==
    /\ lan = "adding" /\ lan' = "scan" /\ mu' = FALSE
    /\ listeners' = lanSeen /\ lost' = lost \cup (listeners \ lanSeen)
    /\ UNCHANGED <<envVars, srv, attempts, socks, seen, lanTodo, lanBound, lanSeen, hot>>

-----------------------------------------------------------------------------
(* The hotspot watcher                                                     *)

HotTick ==
    /\ hot = "tick"
    /\ \/ closedFlag /\ hot' = "done" /\ UNCHANGED socks
       \/ apUp /\ hot' = "add" /\ socks' = socks \cup {"ap"}
    /\ UNCHANGED <<envVars, srv, attempts, listeners, seen, lost, lanVars>>

HotAdd ==
    /\ hot = "add" /\ ~mu /\ hot' = "done"
    /\ IF closedFlag
       THEN socks' = socks \ {"ap"} /\ UNCHANGED listeners
       ELSE listeners' = listeners \cup {"ap"} /\ UNCHANGED socks
    /\ UNCHANGED <<envVars, srv, attempts, seen, lost, lanVars>>

-----------------------------------------------------------------------------
(* The box: its hotspot, its cables and its owner                          *)

HotspotChanges ==
    /\ apUp' = ~apUp
    /\ UNCHANGED <<ifaces, owner, srv, attempts, socks, listeners, seen, lost, lanVars, hot>>

InterfaceChanges(a) ==
    /\ ifaces' = IF a \in ifaces THEN ifaces \ {a} ELSE ifaces \cup {a}
    /\ UNCHANGED <<apUp, owner, srv, attempts, socks, listeners, seen, lost, lanVars, hot>>

OwnerIsSet ==
    /\ ~owner /\ owner' = TRUE
    /\ UNCHANGED <<apUp, ifaces, srv, attempts, socks, listeners, seen, lost, lanVars, hot>>

ServeStep ==
    \/ ListenMain \/ startAuxListeners \/ startLANSetupWatch
    \/ WaitForInterface \/ AppendMain \/ startHotspotWatch
LanStep == LanStops \/ LanTick \/ LanScanned \/ LanAdd \/ LanAdded \/ \E a \in LanAddrs : LanListen(a)
HotStep == HotTick \/ HotAdd
BoxStep == HotspotChanges \/ OwnerIsSet \/ \E a \in LanAddrs : InterfaceChanges(a)

WapNext == ServeStep \/ Close \/ CloseDone \/ LanStep \/ HotStep \/ BoxStep

WapSpec == WapInit /\ [][WapNext]_wapVars

-----------------------------------------------------------------------------
\* When Close has returned, no port is kept bound: what the comments on
\* multiCloser and on add promise.
NothingBoundAfterClose == srv = "closed" => socks = {}

\* The listeners that outlive Close are those that Serve's unguarded append
\* and an add that overlapped it have taken from each other, and no others.
OnlyRaceLeaks == srv = "closed" => socks \subseteq lost

\* Close does not wait for ever for its watchers.
CloseReturns == (srv = "waiting") ~> (srv = "closed")

\* A hotspot that comes up, early or after the startup wait, and stays up is
\* served, as long as the server is not closed.
HotspotIsServed == apUp ~> (~apUp \/ "ap" \in socks \/ closedFlag)
=============================================================================
