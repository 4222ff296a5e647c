----------------------------- MODULE WapProcess -----------------------------
(***************************************************************************)
(* The WAP process: the main goroutine, the goroutine that runs the HTTP   *)
(* server (its Serve and Close are WapServer), the goroutine that bounces  *)
(* the mDNS server, and the handlers of /wifi/connect.  Main and the HTTP  *)
(* goroutine both run handleAppState, and with the mDNS goroutine they all *)
(* call LoadConfig, which replaces the global config by its default before *)
(* it fills it in; nothing is locked.                                      *)
(***************************************************************************)
EXTENDS Naturals

CONSTANTS
    MaxConfig,    \* bound on the writes of config.yaml by the blox process
    MaxChecks,    \* bound on the ten-minute checks of main
    MaxConnects   \* bound on the requests to /wifi/connect

VARIABLES
    link,         \* how the box is connected: "none", "wifi" or "wired"
    ap,           \* the FxBlox hotspot is up
    cfg,          \* content of config.yaml, 0 when there is none
    mainPc, httpPc,
    has,          \* where each goroutine is in handleAppState
    want,         \* the state it was called with
    cur,          \* currentIsConnected
    hotspot,      \* isHotspotStarted
    opened,       \* HTTP servers that are open
    current,      \* currentServer is not nil
    stopCh, restartCh, connCh,   \* messages in the channels, each of capacity 1
    serverReady,
    connects,     \* requests to /wifi/connect so far
    sending,      \* those that have to send on connectedCh
    checks,       \* ten-minute checks so far
    mdnsPc,
    loaded,       \* mdns.globalConfig
    advertised    \* what the mDNS server broadcasts, 0 for "NA" or no server

Threads == {"main", "http"}
chanVars == <<stopCh, restartCh, connCh, sending>>
serverVars == <<opened, current, serverReady>>
mdnsVars == <<mdnsPc, advertised>>
wapProcVars == <<link, ap, cfg, mainPc, httpPc, has, want, cur, hotspot, serverVars,
                 chanVars, connects, checks, mdnsVars, loaded>>

\* External: what nmcli and ping report.
CheckIfIsConnected == link = "wired" \/ (link = "wifi" /\ ~ap)

ProcInit ==
    /\ link \in {"none", "wifi", "wired"} /\ ap = FALSE /\ cfg \in 0..1
    /\ mainPc = "start" /\ httpPc = "none"
    /\ has = [t \in Threads |-> "none"] /\ want = [t \in Threads |-> 0]
    /\ cur = 2 /\ hotspot = FALSE
    /\ opened = 0 /\ current = FALSE /\ serverReady = FALSE
    /\ stopCh = 0 /\ restartCh = 0 /\ connCh = 0
    /\ connects = 0 /\ checks = 0 /\ sending = 0
    /\ mdnsPc = "none" /\ loaded = 0 /\ advertised = 0

-----------------------------------------------------------------------------
(* handleAppState                                                          *)

Call(t, isConnected) ==
    /\ has' = [has EXCEPT ![t] = "load"]
    /\ want' = [want EXCEPT ![t] = IF isConnected THEN 1 ELSE 0]

\* mdns.LoadConfig: the default, then what config.yaml has if it can be read and parsed.
FillConfig == loaded' \in {0, cfg}

LoadConfig(t) ==
    /\ \/ /\ has[t] = "load" /\ loaded' = 0
          /\ has' = [has EXCEPT ![t] = "fill"]
       \/ /\ has[t] = "fill" /\ FillConfig
          /\ has' = [has EXCEPT ![t] = IF cur = want[t] THEN "return" ELSE "act"]
    /\ UNCHANGED <<link, ap, cfg, mainPc, httpPc, want, cur, hotspot, serverVars,
                   chanVars, connects, checks, mdnsVars>>

\* wifi.StartHotspot, unless it was started before; it may fail.
StartHotspot ==
    \/ ~hotspot /\ ap' = TRUE /\ hotspot' = TRUE
    \/ UNCHANGED <<ap, hotspot>>

\* The hotspot is taken down, or nmcli fails to.
DisconnectNamedWifi == ap' \in {FALSE, ap}

\* The box leaves the Wi-Fi it is on, before the hotspot is started, or nmcli fails.
DisconnectFromExternalWifi ==
    link' \in (IF hotspot \/ link # "wifi" THEN {link} ELSE {"none", link})

\* The rest of handleAppState, when the state has changed.
ActOnState(t) ==
    /\ has[t] = "act"
    /\ \/ /\ want[t] = 1 /\ cfg # 0
          /\ DisconnectNamedWifi /\ UNCHANGED <<link, hotspot>>
          /\ has' = [has EXCEPT ![t] = IF link = "wifi" THEN "send" ELSE "store"]
       \/ /\ want[t] = 1 /\ cfg = 0 /\ DisconnectFromExternalWifi /\ StartHotspot
          /\ has' = [has EXCEPT ![t] = "store"]
       \/ /\ want[t] = 0 /\ StartHotspot /\ UNCHANGED link
          /\ has' = [has EXCEPT ![t] = "store"]
    /\ UNCHANGED <<cfg, mainPc, httpPc, want, cur, serverVars, chanVars, connects,
                   checks, mdnsVars, loaded>>

\* stopServer <- struct{}{}, which blocks while the channel is full.
SendStop(t) ==
    /\ has[t] = "send" /\ stopCh = 0 /\ stopCh' = 1
    /\ has' = [has EXCEPT ![t] = "store"]
    /\ UNCHANGED <<link, ap, cfg, mainPc, httpPc, want, cur, hotspot, serverVars,
                   restartCh, connCh, sending, connects, checks, mdnsVars, loaded>>

StoreState(t) ==
    /\ has[t] = "store" /\ cur' = want[t]
    /\ has' = [has EXCEPT ![t] = "return"]
    /\ UNCHANGED <<link, ap, cfg, mainPc, httpPc, want, hotspot, serverVars, chanVars,
                   connects, checks, mdnsVars, loaded>>

HandleAppState(t) == LoadConfig(t) \/ ActOnState(t) \/ SendStop(t) \/ StoreState(t)

Return(t) == has[t] = "return" /\ has' = [has EXCEPT ![t] = "none"]

-----------------------------------------------------------------------------
(* main                                                                    *)

MainStarts ==
    /\ mainPc = "start" /\ mainPc' = IF cfg # 0 /\ ~CheckIfIsConnected THEN "started" ELSE "startedUp"
    /\ Call("main", CheckIfIsConnected)
    /\ UNCHANGED <<link, ap, cfg, httpPc, cur, hotspot, serverVars, chanVars, connects,
                   checks, mdnsVars, loaded>>

\* The goroutines are started.
MainForks ==
    /\ mainPc \in {"started", "startedUp"} /\ Return("main")
    /\ mainPc' = IF mainPc = "started" THEN "ready" ELSE "readyUp"
    /\ httpPc' = "serve" /\ mdnsPc' = "stop"
    /\ UNCHANGED <<link, ap, cfg, want, cur, hotspot, serverVars, chanVars, connects,
                   checks, advertised, loaded>>

\* The first saved Wi-Fi that nmcli can connect to, if any.
ConnectToSavedWifi == link' \in (IF link = "none" THEN {"none", "wifi"} ELSE {link})

\* <-serverReady; without a connection the saved Wi-Fi is tried.  isConnected is read
\* without a lock: the HTTP goroutine may have set it meanwhile.
MainWaits ==
    /\ mainPc \in {"ready", "readyUp"} /\ serverReady
    /\ \/ /\ mainPc = "ready" /\ mainPc' = "saved" /\ ConnectToSavedWifi
       \/ /\ mainPc = "readyUp" \/ want["http"] = 1
          /\ mainPc' = "loop" /\ UNCHANGED link
    /\ UNCHANGED <<ap, cfg, httpPc, has, want, cur, hotspot, serverVars, chanVars,
                   connects, checks, mdnsVars, loaded>>

EnsureHotspotActive == ap' = TRUE /\ hotspot' = TRUE

\* The ticks of the wait for the saved Wi-Fi, and its time-out.
MainTriesSaved ==
    /\ mainPc = "saved"
    /\ \/ /\ CheckIfIsConnected /\ mainPc' = "called" /\ Call("main", TRUE)
          /\ UNCHANGED <<ap, hotspot, restartCh>>
       \/ /\ mainPc' = "loop" /\ EnsureHotspotActive
          /\ restartCh' = 1 /\ UNCHANGED <<has, want>>
       \/ mainPc' = "loop" /\ UNCHANGED <<ap, hotspot, restartCh, has, want>>
    /\ UNCHANGED <<link, cfg, httpPc, cur, serverVars, stopCh, connCh, sending, connects, checks,
                   mdnsVars, loaded>>

\* The ten-minute check; after the first that finds a connection the ticker is
\* stopped and the loop waits on it for ever.
MainChecks ==
    /\ mainPc = "loop" /\ checks < MaxChecks /\ checks' = checks + 1
    /\ IF CheckIfIsConnected
       THEN mainPc' = "silent" /\ UNCHANGED <<has, want>>
       ELSE mainPc' = "called" /\ Call("main", FALSE)
    /\ UNCHANGED <<link, ap, cfg, httpPc, cur, hotspot, serverVars, chanVars, connects,
                   mdnsVars, loaded>>

MainReturns ==
    /\ mainPc = "called" /\ Return("main") /\ mainPc' = "loop"
    /\ UNCHANGED <<link, ap, cfg, httpPc, want, cur, hotspot, serverVars, chanVars,
                   connects, checks, mdnsVars, loaded>>

MainStep == MainStarts \/ MainForks \/ MainWaits \/ MainTriesSaved \/ MainReturns

-----------------------------------------------------------------------------
(* The HTTP goroutine                                                      *)

\* currentServer.Close(), if there is one.
Closed == opened - (IF current THEN 1 ELSE 0)

\* A new connectedCh, the old server closed and Serve called, which answers requests
\* while it still waits for the hotspot; once it has returned, the signal to main.
HttpServes ==
    /\ \/ /\ httpPc = "serve" /\ httpPc' = "serving"
          /\ opened' = Closed + 1 /\ current' = FALSE
          /\ connCh' = 0 /\ sending' = 0 /\ UNCHANGED serverReady
       \/ /\ httpPc = "serving" /\ httpPc' = "events"
          /\ current' = TRUE /\ serverReady' = TRUE
          /\ UNCHANGED <<opened, connCh, sending>>
    /\ UNCHANGED <<link, ap, cfg, mainPc, has, want, cur, hotspot, stopCh, restartCh,
                   connects, checks, mdnsVars, loaded>>

\* <-stopServer: the goroutine exits.
HttpStops ==
    /\ httpPc \in {"events", "more"} /\ stopCh = 1
    /\ stopCh' = 0 /\ httpPc' = "exited"
    /\ opened' = Closed /\ current' = FALSE /\ hotspot' = FALSE
    /\ UNCHANGED <<link, ap, cfg, mainPc, has, want, cur, serverReady, restartCh, connCh,
                   sending, connects, checks, mdnsVars, loaded>>

\* Mutant: the restart forgets the server without closing it.
HttpRestartsOpen ==
    /\ httpPc \in {"events", "more"} /\ restartCh = 1
    /\ restartCh' = 0 /\ httpPc' = "serve" /\ current' = FALSE /\ opened' = opened
    /\ UNCHANGED <<link, ap, cfg, mainPc, has, want, cur, hotspot, serverReady, stopCh,
                   connCh, sending, connects, checks, mdnsVars, loaded>>

\* <-restartServer
HttpRestarts ==
    /\ httpPc \in {"events", "more"} /\ restartCh = 1
    /\ restartCh' = 0 /\ httpPc' = "serve"
    /\ opened' = Closed /\ current' = FALSE
    /\ UNCHANGED <<link, ap, cfg, mainPc, has, want, cur, hotspot, serverReady, stopCh,
                   connCh, sending, connects, checks, mdnsVars, loaded>>

\* <-connectedCh, once for each server.
HttpConnected ==
    /\ \/ /\ httpPc = "events" /\ connCh = 1 /\ connCh' = 0
          /\ httpPc' = "called" /\ Call("http", TRUE)
       \/ /\ httpPc = "called" /\ Return("http") /\ httpPc' = "more"
          /\ UNCHANGED <<want, connCh>>
    /\ UNCHANGED <<link, ap, cfg, mainPc, cur, hotspot, serverVars, stopCh, restartCh,
                   sending, connects, checks, mdnsVars, loaded>>

HttpStep == HttpServes \/ HttpStops \/ HttpRestarts \/ HttpConnected

ConnectWifi == link' = "wifi"

\* connectWifiHandler: nmcli connects the box, then connectedCh <- true, which
\* blocks while the channel is full.  A restart makes another channel.
connectWifiHandler ==
    /\ \/ /\ opened > 0 /\ connects < MaxConnects /\ connects' = connects + 1
          /\ ConnectWifi /\ sending' = sending + 1 /\ UNCHANGED connCh
       \/ /\ sending > 0 /\ connCh = 0 /\ sending' = sending - 1 /\ connCh' = 1
          /\ UNCHANGED <<link, connects>>
    /\ UNCHANGED <<ap, cfg, mainPc, httpPc, has, want, cur, hotspot, serverVars, stopCh,
                   restartCh, checks, mdnsVars, loaded>>

-----------------------------------------------------------------------------
(* handleServerLifecycle, and the ticker that drives it                    *)

\* The server is started with the TXT records of the config, which may fail, or shut
\* down.
StartServer == advertised' \in {0, loaded}
Shutdown == advertised' = 0

\* Mutant: the config is not read again when the server is started.
MdnsKeeps ==
    /\ \/ mdnsPc = "stop" /\ Shutdown /\ mdnsPc' = "start"
       \/ mdnsPc = "start" /\ StartServer /\ mdnsPc' = "stop"
    /\ UNCHANGED <<loaded, link, ap, cfg, mainPc, httpPc, has, want, cur, hotspot,
                   serverVars, chanVars, connects, checks>>

\* The server is stopped, the config loaded in two steps, the server started.
MdnsBounces ==
    /\ \/ mdnsPc = "stop" /\ Shutdown /\ mdnsPc' = "load" /\ UNCHANGED loaded
       \/ mdnsPc = "load" /\ loaded' = 0 /\ mdnsPc' = "fill" /\ UNCHANGED advertised
       \/ mdnsPc = "fill" /\ FillConfig /\ mdnsPc' = "start" /\ UNCHANGED advertised
       \/ mdnsPc = "start" /\ StartServer /\ mdnsPc' = "stop" /\ UNCHANGED loaded
    /\ UNCHANGED <<link, ap, cfg, mainPc, httpPc, has, want, cur, hotspot, serverVars,
                   chanVars, connects, checks>>

-----------------------------------------------------------------------------
(* The world: the network, and the blox process writing config.yaml        *)

LinkChanges ==
    /\ link' \in {"none", "wired"} \ {link} 
    /\ UNCHANGED <<ap, cfg, mainPc, httpPc, has, want, cur, hotspot, serverVars, chanVars,
                   connects, checks, mdnsVars, loaded>>

ConfigWritten ==
    /\ cfg < MaxConfig /\ cfg' = cfg + 1
    /\ UNCHANGED <<link, ap, mainPc, httpPc, has, want, cur, hotspot, serverVars, chanVars,
                   connects, checks, mdnsVars, loaded>>

ProcNext ==
    \/ MainStep \/ MainChecks \/ HttpStep \/ MdnsBounces
    \/ \E t \in Threads : HandleAppState(t)
    \/ connectWifiHandler \/ LinkChanges \/ ConfigWritten

ProcSpec == ProcInit /\ [][ProcNext]_wapProcVars

-----------------------------------------------------------------------------
\* However stops, restarts and connections interleave, at most one HTTP server
\* is open, and none is when its goroutine has gone.
OneServer == opened <= 1 /\ (httpPc = "exited" => opened = 0)

\* What the blox process writes to config.yaml, the pool and the owner it found
\* after boot, is broadcast after some bounce of the mDNS server, although reads and
\* registrations fail now and then and handleAppState resets the same global config at
\* any time.
ConfigIsAdvertised ==
    \A c \in 1..MaxConfig : (cfg = c /\ mdnsPc # "none") ~> (advertised = c \/ cfg # c)
=============================================================================
