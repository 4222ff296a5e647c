------------------------------- MODULE MCBox -------------------------------
(***************************************************************************)
(* The blox for model checking: the wireless access point's listeners and  *)
(* its process, the files of the plugins, the properties file and the blox *)
(* process.  They share no state, so an initial state picks the one that   *)
(* moves, and for some of them what happens to it, and the others stay as  *)
(* they are: the run is the union of their state spaces and not a product. *)
(***************************************************************************)
EXTENDS WapServer, WapProcess, PluginFiles, BoxProps, BloxLifecycle, TLC

CONSTANTS p1, p2, p3, n1, n2

MCParams == p1 :> {n1} @@ p2 :> {} @@ p3 :> {n1, n2}

VARIABLE focus    \* the component that moves

BoxInit ==
    /\ WapInit /\ ProcInit /\ PluginInit /\ PropsInit /\ BloxInit
    /\ focus \in {"listeners", "wap", "mdns", "plugins", "updates", "params",
                  "properties", "blox", "blocks"}
    /\ focus # "listeners" => ~owner
    /\ focus \notin {"wap", "mdns"} => link = "none" /\ cfg = 0

ListenersMove ==
    /\ focus = "listeners" /\ WapNext
    /\ UNCHANGED <<wapProcVars, pluginVars, propsVars, bloxVars, focus>>

\* Either a device connects and config.yaml has one content, or it has two.
WapMoves ==
    /\ ProcNext
    /\ \/ focus = "wap" /\ cfg' <= 1
       \/ focus = "mdns" /\ connects' = 0
    /\ UNCHANGED <<wapVars, pluginVars, propsVars, bloxVars, focus>>

Asked(plugins, ops) ==
    \A h \in Busy : request[h].plugin \in plugins /\ request[h].op \in ops

\* Requests about two plugins, updates and other requests about one, or requests about
\* one with two parameters.
PluginsMove ==
    /\ PluginNext
    /\ \/ focus = "plugins" /\ Asked({p1, p2}, {"install", "uninstall"})'
       \/ focus = "updates" /\ Asked({p2}, Ops)'
       \/ focus = "params" /\ Asked({p3}, {"install", "uninstall"})'
    /\ UNCHANGED <<wapVars, wapProcVars, propsVars, bloxVars, focus>>

PropertiesMove ==
    /\ focus = "properties" /\ PropsNext
    /\ UNCHANGED <<wapVars, wapProcVars, pluginVars, bloxVars, focus>>

\* Either clients connect, or kubo stores blocks.
BloxMoves ==
    /\ BloxNext
    /\ \/ focus = "blox" /\ New' = {}
       \/ focus = "blocks" /\ Active({"action", "chat", "ping"})' = {}
    /\ UNCHANGED <<wapVars, wapProcVars, pluginVars, propsVars, focus>>

BoxNext == ListenersMove \/ WapMoves \/ PluginsMove \/ PropertiesMove \/ BloxMoves

boxAllVars == <<wapVars, wapProcVars, pluginVars, propsVars, bloxVars, focus>>

\* Goroutines run; a select whose stop channel is closed takes it in the end,
\* even if a tick is ready again and again.
ListenersFairness ==
    /\ WF_wapVars(focus = "listeners" /\ ServeStep)
    /\ WF_wapVars(focus = "listeners" /\ LanStep)
    /\ SF_wapVars(focus = "listeners" /\ LanStops)
    /\ WF_wapVars(focus = "listeners" /\ HotStep)
    /\ WF_wapVars(focus = "listeners" /\ CloseDone)

MdnsMoves == focus \in {"wap", "mdns"} /\ MdnsBounces

\* The mDNS toggler bounces the service on its ticker.  Reading config.yaml, and
\* registering the service with what was read, may fail, but not every time.
WapFairness ==
    /\ WF_wapProcVars(MdnsMoves)
    /\ SF_wapProcVars(mdnsPc = "fill" /\ MdnsMoves /\ loaded' = cfg)
    /\ SF_wapProcVars(mdnsPc = "start" /\ loaded = cfg /\ MdnsMoves /\ advertised' = loaded)

GoroutineEnds ==
    FetchCheckEnds \/ WatchEnds \/ ReconcileEnds \/ \E s \in {"proxy", "ping"} : ServeEnds(s)

BloxRuns == focus \in {"blox", "blocks"}

\* Goroutines run, and the calls of a reconcile pass, of the fetch check and to kubo
\* have time limits; the six-hour loop's select takes a cancelled context.  Nothing
\* is assumed of the requests: a body or a chat may last for ever.
BloxFairness ==
    /\ WF_bloxVars(BloxRuns /\ ShutdownStep)
    /\ WF_bloxVars(BloxRuns /\ GoroutineEnds)
    /\ SF_bloxVars(BloxRuns /\ LoopEnds)
    /\ WF_bloxVars(BloxRuns /\ TickStep)

BoxSpec ==
    /\ BoxInit /\ [][BoxNext]_boxAllVars
    /\ ListenersFairness /\ WapFairness /\ BloxFairness
=============================================================================
