---------------------------- MODULE KuboWatchdog ----------------------------
(***************************************************************************)
(* How a blox keeps its kubo (IPFS) container reachable: the p2p listeners *)
(* and the cluster forward that go-fula registers on kubo, and the         *)
(* watchdog that asks the host to restart the fula services when kubo has  *)
(* lost its relay circuit.                                                 *)
(*                                                                         *)
(* Two goroutines of one process, Blox.Start and watchKuboP2P, talk to     *)
(* kubo's HTTP API one call at a time; kubo may restart between any two    *)
(* calls and forgets every registration, and a call may fail.              *)
(*                                                                         *)
(* Time is counted in ticks of healthCheckInterval.  A time stamp is kept  *)
(* as its age, which stops growing at MaxAge: no limit is longer.  A cycle *)
(* of the watchdog takes less than a tick.  Counters that the code only    *)
(* compares with a limit stop at the limit.                                *)
(***************************************************************************)
EXTENDS Naturals, FiniteSets

CONSTANTS
    Protocols,        \* the listeners go-fula registers
    Threshold,        \* relayCircuitMissingThreshold
    MinGap,           \* minTimeBetweenFulaRestarts
    Window,           \* restartRateWindow
    MaxRestarts,      \* maxRestartsPerWindow
    Grace,            \* bounceVerifyGracePeriod
    MaxFailed,        \* maxConsecutiveFailedRestarts
    LongCooldown,     \* longCooldownAfterFailures
    Bootstrap,        \* bootstrapGracePeriod
    HostActs,         \* the host watches for the restart marker
    CallsFail         \* calls of kubo's API and disk writes may fail

ASSUME WatchdogAssumption ==
    /\ {Threshold, MinGap, Window, MaxRestarts, Grace, MaxFailed, LongCooldown,
        Bootstrap} \subseteq Nat \ {0}
    /\ Grace <= MinGap /\ MinGap <= Window /\ Bootstrap <= Window
    /\ HostActs \in BOOLEAN /\ CallsFail \in BOOLEAN

MaxAge == Window
Older(a) == IF a < MaxAge THEN a + 1 ELSE a
Capped(n, max) == IF n < max THEN n + 1 ELSE n
AllOlder(S) == {Older(a) : a \in S}
Recent(S) == {a \in S : a < Window}

VARIABLES
    \* The kubo container
    alive,        \* its API answers
    circuit,      \* it advertises a /p2p-circuit address
    relay,        \* it is connected to the static relay
    listeners,    \* registered protocol listeners
    forward,      \* the cluster forward is registered
    \* Blox.Start
    start,        \* where it is
    topic,        \* topicName is a pool
    server,       \* serverKuboPeerID is set
    \* watchKuboP2P
    watch,        \* where it is
    startupAge,   \* since startupAt
    missing,      \* consecutiveCircuitMissing
    seenCircuit,  \* hasSeenCircuit
    restarted,    \* lastRestartAt is not zero
    restartAge,   \* since lastRestartAt
    failed,       \* consecutiveFailedRestarts
    cooldown,     \* ticks until longCooldownUntil
    history,      \* restartHistory, as ages
    marker,       \* the file that asks the host for a restart
    \* History, read by the properties only:
    bounces,      \* ages of all restarts asked for in the last Window
    mine,         \* those this process asked for
    unhelped      \* restarts this process asked for since one helped

kuboVars == <<alive, circuit, relay, listeners, forward>>
startVars == <<start, topic, server>>
policyVars == <<missing, seenCircuit, restarted, restartAge, failed, cooldown,
                history, marker, bounces, mine, unhelped>>
vars == <<kuboVars, startVars, watch, startupAge, policyVars>>

StartSteps == {"wait", "close", "listen", "forward", "discover", "again", "done"}
WatchSteps == {"off", "idle", "alive", "listeners", "close", "listen",
               "reforward", "forward", "circuit", "relay"}

TypeOK ==
    /\ alive \in BOOLEAN /\ circuit \in BOOLEAN /\ relay \in BOOLEAN
    /\ listeners \subseteq Protocols
    /\ forward \in BOOLEAN
    /\ start \in StartSteps /\ topic \in BOOLEAN /\ server \in BOOLEAN
    /\ watch \in WatchSteps
    /\ startupAge \in 0..MaxAge
    /\ missing \in 0..Threshold
    /\ seenCircuit \in BOOLEAN /\ restarted \in BOOLEAN
    /\ restartAge \in 0..MaxAge
    /\ failed \in 0..MaxFailed
    /\ cooldown \in 0..LongCooldown
    /\ history \subseteq 0..MaxAge
    /\ marker \in BOOLEAN
    /\ bounces \subseteq 0..MaxAge /\ mine \subseteq 0..MaxAge
    /\ unhelped \in Nat

\* The state of a process that has just started.
NewProcess ==
    /\ start' = "wait" /\ server' = FALSE
    /\ watch' = "off" /\ startupAge' = 0
    /\ missing' = 0 /\ seenCircuit' = FALSE
    /\ restarted' = FALSE /\ restartAge' = MaxAge
    /\ failed' = 0 /\ cooldown' = 0 /\ history' = {}
    /\ marker' = FALSE
    /\ mine' = {} /\ unhelped' = 0

Init ==
    /\ alive = FALSE /\ circuit = FALSE /\ relay = FALSE
    /\ listeners = {} /\ forward = FALSE
    /\ start = "wait" /\ topic \in BOOLEAN /\ server = FALSE
    /\ watch = "off" /\ startupAge = 0
    /\ missing = 0 /\ seenCircuit = FALSE
    /\ restarted = FALSE /\ restartAge = MaxAge
    /\ failed = 0 /\ cooldown = 0 /\ history = {}
    /\ marker = FALSE
    /\ bounces = {} /\ mine = {} /\ unhelped = 0

-----------------------------------------------------------------------------
(* Calls of kubo's API.                                                     *)

MayFail == CallsFail \/ ~alive

\* registerKuboProtocols: close every listener and forward, ignoring errors,
\* then register the protocols until one fails.
closeAll ==
    \/ alive /\ listeners' = {} /\ forward' = FALSE
    \/ MayFail /\ UNCHANGED <<listeners, forward>>
registerAll == alive /\ listeners' = Protocols
registerSome == /\ MayFail
                /\ \E S \in SUBSET Protocols :
                     /\ alive \/ S = {}
                     /\ S # Protocols
                     /\ listeners' = listeners \cup S

registerClusterForward ==
    \/ alive /\ forward' = TRUE
    \/ MayFail /\ UNCHANGED forward

-----------------------------------------------------------------------------
(* Blox.Start.                                                              *)

\* waitForKuboAndRegister, and its retry.
StartWaits ==
    /\ start = "wait" /\ alive
    /\ start' = "close"
    /\ UNCHANGED <<kuboVars, topic, server, watch, startupAge, policyVars>>

StartCloses ==
    /\ start = "close"
    /\ closeAll
    /\ start' = "listen"
    /\ UNCHANGED <<alive, circuit, relay, topic, server, watch, startupAge,
                   policyVars>>

\* When all are registered the watchdog starts.
StartListens ==
    /\ start = "listen"
    /\ \/ registerAll /\ start' = "forward" /\ watch' = "idle" /\ startupAge' = 0
       \/ registerSome /\ start' = "wait" /\ UNCHANGED <<watch, startupAge>>
    /\ UNCHANGED <<alive, circuit, relay, forward, topic, server, policyVars>>

\* fetchServerKuboPeerID, setServerKuboPeerID and the forward.
setServer ==
    \/ server' = TRUE /\ registerClusterForward
    \/ CallsFail /\ UNCHANGED <<server, forward>>

StartForwards ==
    /\ start \in {"forward", "again"}
    /\ start' = IF start = "forward" THEN "discover" ELSE "done"
    /\ IF topic /\ ~server THEN setServer ELSE UNCHANGED <<server, forward>>
    /\ UNCHANGED <<alive, circuit, relay, listeners, topic, watch, startupAge,
                   policyVars>>

\* Discovery may find a pool.
StartDiscovers ==
    /\ start = "discover"
    /\ start' = "again"
    /\ topic' \in {topic, TRUE}
    /\ UNCHANGED <<kuboVars, server, watch, startupAge, policyVars>>

StartStep == StartWaits \/ StartCloses \/ StartListens \/ StartForwards
             \/ StartDiscovers

-----------------------------------------------------------------------------
(* watchKuboP2P.                                                            *)

\* One healthCheckInterval; the watchdog, if it runs, starts a cycle.
Tick ==
    /\ watch \in {"off", "idle"}
    /\ watch' = IF watch = "idle" THEN "alive" ELSE watch
    /\ startupAge' = Older(startupAge)
    /\ restartAge' = Older(restartAge)
    /\ cooldown' = IF cooldown = 0 THEN 0 ELSE cooldown - 1
    /\ history' = AllOlder(history)
    /\ bounces' = Recent(AllOlder(bounces))
    /\ mine' = Recent(AllOlder(mine))
    /\ UNCHANGED <<kuboVars, startVars, missing, seenCircuit, restarted, failed,
                   marker, unhelped>>

otherPolicy == <<seenCircuit, restarted, restartAge, failed, cooldown, history,
                 marker, bounces, mine, unhelped>>

CheckKuboAlive ==
    /\ watch = "alive"
    /\ \/ alive /\ watch' = "listeners" /\ UNCHANGED missing
       \/ MayFail /\ watch' = "idle" /\ missing' = 0
    /\ UNCHANGED <<kuboVars, startVars, startupAge, otherPolicy>>

\* A failed call reads as "listeners missing".
CheckKuboP2PListeners ==
    /\ watch = "listeners"
    /\ \/ alive /\ listeners = Protocols /\ watch' = "forward"
       \/ (MayFail \/ listeners # Protocols) /\ watch' = "close"
    /\ UNCHANGED <<kuboVars, startVars, startupAge, policyVars>>

WatchCloses ==
    /\ watch = "close"
    /\ closeAll
    /\ watch' = "listen"
    /\ UNCHANGED <<alive, circuit, relay, startVars, startupAge, policyVars>>

WatchListens ==
    /\ watch = "listen"
    /\ registerAll \/ registerSome
    /\ watch' = "reforward"
    /\ UNCHANGED <<alive, circuit, relay, forward, startVars, startupAge,
                   policyVars>>

\* The forward went with the listeners: register it again if there is one.
WatchReforwards ==
    /\ watch = "reforward"
    /\ IF server THEN registerClusterForward ELSE UNCHANGED forward
    /\ watch' = "circuit"
    /\ UNCHANGED <<alive, circuit, relay, listeners, startVars, startupAge,
                   policyVars>>

\* Mutant: with the listeners in place the forward is not looked at.
CheckClusterForwardSkipped ==
    /\ watch = "forward"
    /\ UNCHANGED forward
    /\ watch' = "circuit"
    /\ UNCHANGED <<alive, circuit, relay, listeners, startVars, startupAge,
                   policyVars>>

CheckClusterForward ==
    /\ watch = "forward"
    /\ IF server /\ (~forward \/ MayFail)
       THEN registerClusterForward
       ELSE UNCHANGED forward
    /\ watch' = "circuit"
    /\ UNCHANGED <<alive, circuit, relay, listeners, startVars, startupAge,
                   policyVars>>

\* Mutant: a circuit seen at any time counts as the restart's success.
circuitPresentForgives ==
    /\ seenCircuit' = TRUE
    /\ failed' = 0
    /\ unhelped' = IF restarted /\ restartAge < Grace THEN 0 ELSE unhelped
    /\ missing' = 0
    /\ watch' = "idle"

\* The circuit is there.  A restart asked for a short time ago has helped.
circuitPresent ==
    /\ seenCircuit' = TRUE
    /\ LET helped == restarted /\ restartAge < Grace
       IN  /\ failed' = IF helped THEN 0 ELSE failed
           /\ unhelped' = IF helped THEN 0 ELSE unhelped
    /\ missing' = 0
    /\ watch' = "idle"

\* Mutant: no bootstrap guard.
circuitMissingUnguarded ==
    /\ missing' = Capped(missing, Threshold)
    /\ watch' = IF missing' < Threshold THEN "idle" ELSE "relay"
    /\ UNCHANGED <<seenCircuit, failed, unhelped>>

\* The circuit is missing, or the call failed.
circuitMissing ==
    /\ IF ~seenCircuit /\ startupAge < Bootstrap
       THEN missing' = 0 /\ watch' = "idle"
       ELSE /\ missing' = Capped(missing, Threshold)
            /\ watch' = IF missing' < Threshold THEN "idle" ELSE "relay"
    /\ UNCHANGED <<seenCircuit, failed, unhelped>>

CheckCircuit ==
    /\ watch = "circuit"
    /\ \/ alive /\ circuit /\ circuitPresent
       \/ (MayFail \/ ~circuit) /\ circuitMissing
    /\ UNCHANGED <<kuboVars, startVars, startupAge, restarted, restartAge,
                   cooldown, history, marker, bounces, mine>>

-----------------------------------------------------------------------------
(* The circuit has been missing for Threshold cycles: the gates.            *)

\* Gate 2: the extended cooldown.  Gate 3: too soon after the last restart.
inLongCooldown == cooldown > 0
\* Mutant: the wrong limit.
tooSoonGrace == restartAge < Grace
tooSoon == restartAge < MinGap
\* Gate 4: the sliding window.  Mutant: one restart too many.
rateLimitedLate == Cardinality(Recent(history)) > MaxRestarts
rateLimited == Cardinality(Recent(history)) >= MaxRestarts

\* The failures counted once all gates have passed: the last restart is past
\* its grace period, and the circuit is still missing.
failedRestarts ==
    IF restarted /\ restartAge >= Grace THEN Capped(failed, MaxFailed) ELSE failed
gaveUp == restarted /\ restartAge >= Grace /\ failedRestarts >= MaxFailed

\* Gate 1: no restart while the relay cannot be reached.
RelayNotConnected ==
    /\ MayFail \/ ~relay
    /\ missing' = 0
    /\ UNCHANGED otherPolicy

GateDefers ==
    /\ alive /\ relay
    /\ \/ (inLongCooldown \/ tooSoon) /\ UNCHANGED history
       \/ ~inLongCooldown /\ ~tooSoon /\ rateLimited /\ history' = Recent(history)
    /\ UNCHANGED <<missing, seenCircuit, restarted, restartAge, failed, cooldown,
                   marker, bounces, mine, unhelped>>

gatesPass == alive /\ relay /\ ~inLongCooldown /\ ~tooSoon /\ ~rateLimited

\* Mutant: one tick too long.
EntersLongCooldownLonger ==
    /\ gatesPass /\ gaveUp
    /\ failed' = failedRestarts
    /\ cooldown' = LongCooldown + 1
    /\ history' = Recent(history)
    /\ missing' = 0
    /\ UNCHANGED <<seenCircuit, restarted, restartAge, marker, bounces, mine,
                   unhelped>>

EntersLongCooldown ==
    /\ gatesPass /\ gaveUp
    /\ failed' = failedRestarts
    /\ cooldown' = LongCooldown
    /\ history' = Recent(history)
    /\ missing' = 0
    /\ UNCHANGED <<seenCircuit, restarted, restartAge, marker, bounces, mine,
                   unhelped>>

\* signalFulaRestart writes the marker.
SignalsRestart ==
    /\ gatesPass /\ ~gaveUp
    /\ failed' = failedRestarts
    /\ marker' = TRUE
    /\ restarted' = TRUE /\ restartAge' = 0
    /\ history' = Recent(history) \cup {0}
    /\ missing' = 0
    /\ bounces' = bounces \cup {0} /\ mine' = mine \cup {0}
    /\ unhelped' = unhelped + 1
    /\ UNCHANGED <<seenCircuit, cooldown>>

SignalFails ==
    /\ CallsFail
    /\ gatesPass /\ ~gaveUp
    /\ failed' = failedRestarts
    /\ history' = Recent(history)
    /\ UNCHANGED <<missing, seenCircuit, restarted, restartAge, cooldown, marker,
                   bounces, mine, unhelped>>

CheckRelay ==
    /\ watch = "relay"
    /\ watch' = "idle"
    /\ RelayNotConnected \/ GateDefers \/ EntersLongCooldown \/ SignalsRestart
       \/ SignalFails
    /\ UNCHANGED <<kuboVars, startVars, startupAge>>

WatchStep == CheckKuboAlive \/ CheckKuboP2PListeners \/ WatchCloses
             \/ WatchListens \/ WatchReforwards \/ CheckClusterForward
             \/ CheckCircuit \/ CheckRelay

-----------------------------------------------------------------------------
(* The environment.                                                         *)

KuboStops ==
    /\ alive
    /\ alive' = FALSE /\ circuit' = FALSE /\ relay' = FALSE
    /\ listeners' = {} /\ forward' = FALSE
    /\ UNCHANGED <<startVars, watch, startupAge, policyVars>>

KuboStarts ==
    /\ ~alive
    /\ alive' = TRUE
    /\ UNCHANGED <<circuit, relay, listeners, forward, startVars, watch,
                   startupAge, policyVars>>

NetworkChanges ==
    /\ alive
    /\ circuit' \in BOOLEAN /\ relay' \in BOOLEAN
    /\ UNCHANGED <<alive, listeners, forward, startVars, watch, startupAge,
                   policyVars>>

\* The host restarts all fula services, go-fula and kubo.
HostRestarts ==
    /\ HostActs /\ marker
    /\ NewProcess
    /\ alive' = FALSE /\ circuit' = FALSE /\ relay' = FALSE
    /\ listeners' = {} /\ forward' = FALSE
    /\ UNCHANGED <<topic, bounces>>

Environment == KuboStops \/ KuboStarts \/ NetworkChanges

Next == StartStep \/ Tick \/ WatchStep \/ HostRestarts \/ Environment

Spec == Init /\ [][Next]_vars

-----------------------------------------------------------------------------
(* Properties.                                                              *)

\* The sliding window of watchKuboP2P: one process asks for at most
\* MaxRestarts restarts in any Window, although it prunes its list of restarts
\* only when it is about to ask again.
ProcessRateLimit == Cardinality(mine) <= MaxRestarts

\* "Hard rate limit: at most this many bounces in any rolling
\* restartRateWindow": the same for the device, whose process each restart
\* replaces.
DeviceRateLimit == Cardinality(bounces) <= MaxRestarts

\* Two restarts that one process asks for are at least MinGap apart.
RestartsSpaced == \A a, b \in mine : a < b => b - a >= MinGap

\* "Multiple consecutive unhelpful bounces escalate to a long cooldown": a
\* process asks for at most MaxFailed restarts in a row without the circuit
\* coming back within Grace of one of them.
UnhelpfulBounded == unhelped <= MaxFailed

\* The bootstrap guard: a process that has never seen a circuit asks for a
\* restart only after Bootstrap.
NoRestartInBootstrap ==
    [][marker' /\ ~marker => seenCircuit \/ startupAge >= Bootstrap]_vars

\* Everything go-fula needs on kubo is registered.
Registered == listeners = Protocols /\ (server => forward)

\* While kubo stays up, whatever was lost in its restarts or in calls that
\* failed half way is registered again, the forward included.
RegistrationRecovers == []<>~alive \/ []<>Registered
=============================================================================
