------------------------------ MODULE WapProofs ------------------------------
(***************************************************************************)
(* Proofs about the WAP process: its goroutines never have two HTTP        *)
(* servers open (WapProcess), and one life of the server leaves no socket  *)
(* bound but those that the unguarded append has lost (WapServer).         *)
(***************************************************************************)
EXTENDS WapProcess, WapServer, TLAPS

-----------------------------------------------------------------------------
(* WapProcess: one server.                                                 *)

HttpSteps == {"none", "serve", "serving", "events", "called", "more", "exited"}

\* The server is open from the call of Serve to the Close of the stop or the
\* restart, and the goroutine knows it as currentServer once Serve has
\* returned; the goroutine is started once.
ServerInv ==
    /\ httpPc \in HttpSteps
    /\ opened = IF httpPc \in {"serving", "events", "called", "more"} THEN 1 ELSE 0
    /\ current <=> httpPc \in {"events", "called", "more"}
    /\ mainPc \in {"start", "started", "startedUp"} => httpPc = "none"

(* The steps of main: the goroutine is forked once.                        *)
LEMMA MainKeepsServer == ASSUME ServerInv, MainStep \/ MainChecks PROVE ServerInv'
  <1>1. CASE MainForks
    BY <1>1 DEF ServerInv, HttpSteps, MainForks, serverVars
  <1>2. CASE MainStarts
    BY <1>2 DEF ServerInv, HttpSteps, MainStarts, serverVars
  <1>3. CASE MainWaits
    BY <1>3 DEF ServerInv, HttpSteps, MainWaits, serverVars
  <1>4. CASE MainTriesSaved
    BY <1>4, Zenon DEF ServerInv, HttpSteps, MainTriesSaved, serverVars
  <1>5. CASE MainReturns
    BY <1>5 DEF ServerInv, HttpSteps, MainReturns, serverVars
  <1>6. CASE MainChecks
    BY <1>6, Zenon DEF ServerInv, HttpSteps, MainChecks, serverVars
  <1> QED
    BY <1>1, <1>2, <1>3, <1>4, <1>5, <1>6 DEF MainStep

(* The steps of the goroutine: whatever it closes is what is open.         *)
LEMMA HttpKeepsServer == ASSUME ServerInv, HttpStep PROVE ServerInv'
  <1>1. CASE HttpServes
    BY <1>1 DEF ServerInv, HttpSteps, HttpServes, Closed
  <1>2. CASE HttpStops
    BY <1>2 DEF ServerInv, HttpSteps, HttpStops, Closed
  <1>3. CASE HttpRestarts
    BY <1>3 DEF ServerInv, HttpSteps, HttpRestarts, Closed
  <1>4. CASE HttpConnected
    BY <1>4, Zenon DEF ServerInv, HttpSteps, HttpConnected, serverVars
  <1> QED
    BY <1>1, <1>2, <1>3, <1>4 DEF HttpStep

(* No other step touches the server.                                       *)
LEMMA OthersKeepServer ==
  ASSUME ServerInv,
         \/ MdnsBounces \/ connectWifiHandler \/ LinkChanges \/ ConfigWritten
         \/ \E t \in Threads : HandleAppState(t)
         \/ UNCHANGED wapProcVars
  PROVE  ServerInv'
  <1>1. UNCHANGED <<httpPc, mainPc, opened, current>>
    <2>1. CASE MdnsBounces
      BY <2>1 DEF MdnsBounces, serverVars
    <2>2. CASE connectWifiHandler
      BY <2>2 DEF connectWifiHandler, serverVars
    <2>3. CASE LinkChanges \/ ConfigWritten
      BY <2>3 DEF LinkChanges, ConfigWritten, serverVars
    <2>4. CASE \E t \in Threads : HandleAppState(t)
      BY <2>4 DEF HandleAppState, LoadConfig, ActOnState, SendStop, StoreState, serverVars
    <2>5. CASE UNCHANGED wapProcVars
      BY <2>5 DEF wapProcVars, serverVars
    <2> QED
      BY <2>1, <2>2, <2>3, <2>4, <2>5
  <1> QED
    BY <1>1 DEF ServerInv

(* However the stops, restarts and connections of the WAP process          *)
(* interleave, at most one HTTP server is open, and none is when the       *)
(* goroutine that serves has gone.                                         *)
THEOREM OneServerHolds == ProcSpec => []OneServer
  <1>1. ProcInit => ServerInv
    BY DEF ProcInit, ServerInv, HttpSteps
  <1>2. ServerInv /\ [ProcNext]_wapProcVars => ServerInv'
    BY MainKeepsServer, HttpKeepsServer, OthersKeepServer DEF ProcNext
  <1>3. ServerInv => OneServer
    BY DEF ServerInv, OneServer
  <1> QED
    BY <1>1, <1>2, <1>3, PTL DEF ProcSpec

-----------------------------------------------------------------------------
(* WapServer: what outlives Close.                                         *)

\* A socket that is bound and not yet in the slice is in the hands of the one
\* that bound it: the LAN watcher, the hotspot watcher or Serve.
LanHand == IF lan \in {"add", "adding"} THEN lanSeen ELSE {}
HotHand == IF hot = "add" THEN {"ap"} ELSE {}
SrvHand == IF srv \in {"aux", "auxWatch", "append", "appending"} THEN {"ap"} ELSE {}

Held == socks \subseteq listeners \cup lost \cup LanHand \cup HotHand \cup SrvHand

\* The watchers start in Serve and end before Close returns; the LAN watcher
\* holds mu while it adds, which Close waits for.
Watchers ==
    /\ mu <=> lan = "adding"
    /\ srv \in {"listen", "aux", "auxWatch"} => lan = "none"
    /\ srv \notin {"up", "waiting", "closed"} => hot = "none"
    /\ srv = "closed" => lan \in {"none", "done"} /\ hot \in {"none", "done"}
    /\ closedFlag => listeners = {} /\ lan # "adding"

SocketInv == Held /\ Watchers

(* The steps of Serve: what it binds is in its hand until it appends it.   *)
LEMMA ServeKeepsSockets == ASSUME SocketInv, ServeStep PROVE SocketInv'
  <1> USE DEF SocketInv, Held, Watchers, LanHand, HotHand, SrvHand, closedFlag, lanVars
  <1>1. CASE ListenMain
    BY <1>1 DEF ListenMain
  <1>2. CASE startAuxListeners
    BY <1>2 DEF startAuxListeners
  <1>3. CASE startLANSetupWatch
    BY <1>3 DEF startLANSetupWatch
  <1>4. CASE WaitForInterface
    BY <1>4 DEF WaitForInterface
  <1>5. CASE AppendMain
    BY <1>5 DEF AppendMain
  <1>6. CASE startHotspotWatch
    BY <1>6 DEF startHotspotWatch
  <1> QED
    BY <1>1, <1>2, <1>3, <1>4, <1>5, <1>6 DEF ServeStep

(* Close: it takes mu, so that no add is under way, and closes the slice.  *)
LEMMA CloseKeepsSockets == ASSUME SocketInv, Close \/ CloseDone PROVE SocketInv'
  BY DEF SocketInv, Held, Watchers, LanHand, HotHand, SrvHand, closedFlag, lanVars,
         Close, CloseDone

(* The LAN watcher.                                                        *)
LEMMA LanKeepsSockets == ASSUME SocketInv, LanStep PROVE SocketInv'
  <1> USE DEF SocketInv, Held, Watchers, LanHand, HotHand, SrvHand, closedFlag
  <1>1. CASE LanStops \/ LanTick \/ LanScanned
    BY <1>1 DEF LanStops, LanTick, LanScanned
  <1>2. CASE LanAdd
    BY <1>2 DEF LanAdd
  <1>3. CASE LanAdded
    BY <1>3 DEF LanAdded
  <1>4. ASSUME NEW a \in LanAddrs, LanListen(a) PROVE SocketInv'
    BY <1>4 DEF LanListen
  <1> QED
    BY <1>1, <1>2, <1>3, <1>4 DEF LanStep

(* The hotspot watcher, and the box.                                       *)
LEMMA HotKeepsSockets ==
  ASSUME SocketInv, HotStep \/ BoxStep \/ UNCHANGED wapVars PROVE SocketInv'
  <1> USE DEF SocketInv, Held, Watchers, LanHand, HotHand, SrvHand, closedFlag, lanVars
  <1>1. CASE HotTick
    BY <1>1 DEF HotTick
  <1>2. CASE HotAdd
    BY <1>2 DEF HotAdd
  <1>3. CASE BoxStep
    BY <1>3 DEF BoxStep, HotspotChanges, OwnerIsSet, InterfaceChanges
  <1>4. CASE UNCHANGED wapVars
    BY <1>4 DEF wapVars
  <1> QED
    BY <1>1, <1>2, <1>3, <1>4 DEF HotStep

(* When Close has returned, the only sockets still bound are those whose   *)
(* listener was lost when Serve's unguarded append overlapped an add: for  *)
(* any LAN addresses and any number of rounds of the wait.                 *)
THEOREM OnlyRaceLeaksHolds == WapSpec => []OnlyRaceLeaks
  <1>1. WapInit => SocketInv
    BY DEF WapInit, SocketInv, Held, Watchers, LanHand, HotHand, SrvHand, closedFlag
  <1>2. SocketInv /\ [WapNext]_wapVars => SocketInv'
    BY ServeKeepsSockets, CloseKeepsSockets, LanKeepsSockets, HotKeepsSockets DEF WapNext
  <1>3. SocketInv => OnlyRaceLeaks
    BY DEF SocketInv, Held, Watchers, LanHand, HotHand, SrvHand, closedFlag, OnlyRaceLeaks
  <1> QED
    BY <1>1, <1>2, <1>3, PTL DEF WapSpec
=============================================================================
