------------------------- MODULE KuboWatchdogProofs -------------------------
(***************************************************************************)
(* Proofs about KuboWatchdog, for any limits that respect                  *)
(* WatchdogAssumption: the rate limits of one watchdog process, and the    *)
(* types of all variables.                                                 *)
(***************************************************************************)
EXTENDS KuboWatchdog, FiniteSetTheorems, TLAPS

(* A time stamp's age stays within MaxAge and grows by one until then.     *)
LEMMA OlderFacts ==
  ASSUME NEW a \in 0..MaxAge
  PROVE  /\ Older(a) \in 0..MaxAge
         /\ a < MaxAge => Older(a) = a + 1
         /\ a <= Older(a)
  BY WatchdogAssumption DEF Older, MaxAge

LEMMA AgesOlder ==
  ASSUME NEW S \in SUBSET (0..MaxAge)
  PROVE  AllOlder(S) \subseteq 0..MaxAge
  BY OlderFacts DEF AllOlder

(* A set of ages is finite.                                                *)
LEMMA AgesFinite ==
  ASSUME NEW S \in SUBSET (0..MaxAge)
  PROVE  IsFiniteSet(S)
  <1>1. IsFiniteSet(0..MaxAge)
    BY FS_Interval, WatchdogAssumption DEF MaxAge
  <1> QED
    BY <1>1, FS_Subset, Zenon

(* As time passes, no more of them are in the window.                      *)
LEMMA OlderCardinality ==
  ASSUME NEW S \in SUBSET (0..MaxAge)
  PROVE  /\ Cardinality(Recent(AllOlder(S))) <= Cardinality(S)
         /\ Cardinality(Recent(AllOlder(S))) \in Nat /\ Cardinality(S) \in Nat
  <1>1. IsFiniteSet(S)
    BY AgesFinite
  <1>2. /\ IsFiniteSet(AllOlder(S))
        /\ Cardinality(AllOlder(S)) <= Cardinality(S)
    <2>1. [a \in S |-> Older(a)] \in Surjection(S, AllOlder(S))
      BY DEF AllOlder, Surjection
    <2> QED
      BY <1>1, <2>1, FS_Surjection
  <1>3. Recent(AllOlder(S)) \subseteq AllOlder(S)
    BY DEF Recent
  <1>4. Cardinality(Recent(AllOlder(S))) <= Cardinality(AllOlder(S))
    BY <1>2, <1>3, FS_Subset
  <1>5. IsFiniteSet(Recent(AllOlder(S)))
    BY <1>2, <1>3, FS_Subset
  <1> QED
    BY <1>1, <1>2, <1>4, <1>5, FS_CardinalityType

-----------------------------------------------------------------------------
\* The variables of the watchdog's policy have their types.
PolicyOK ==
    /\ startupAge \in 0..MaxAge
    /\ missing \in 0..Threshold
    /\ restartAge \in 0..MaxAge
    /\ failed \in 0..MaxFailed
    /\ cooldown \in 0..LongCooldown
    /\ history \subseteq 0..MaxAge
    /\ bounces \subseteq 0..MaxAge
    /\ mine \subseteq 0..MaxAge
    /\ unhelped \in Nat

\* The lists: this process's restarts of the last Window are all in its
\* history, which it prunes late, and none is younger than the last one.
Lists ==
    /\ mine \subseteq Recent(history)
    /\ \A a \in mine : restarted /\ restartAge <= a
    /\ RestartsSpaced
    /\ ProcessRateLimit

\* Every restart but the first one was counted as a failure of the last one
\* before it was asked for.
Failures ==
    /\ unhelped <= failed + 1
    /\ UnhelpfulBounded
    /\ ~restarted => unhelped = 0

\* The gates are reached only after the bootstrap guard.
Guarded == watch = "relay" => seenCircuit \/ startupAge >= Bootstrap

WatchInv == PolicyOK /\ Lists /\ Failures /\ Guarded

(* A new process.                                                          *)
LEMMA WatchInit == Init => WatchInv
  <1> SUFFICES ASSUME Init PROVE WatchInv
    OBVIOUS
  <1>1. PolicyOK
    BY WatchdogAssumption DEF Init, PolicyOK, MaxAge
  <1>2. Cardinality({}) = 0
    BY FS_EmptySet
  <1>3. Lists
    BY <1>2, WatchdogAssumption
    DEF Init, Lists, RestartsSpaced, ProcessRateLimit
  <1>4. Failures /\ Guarded
    BY WatchdogAssumption DEF Init, Failures, UnhelpfulBounded, Guarded
  <1> QED
    BY <1>1, <1>3, <1>4 DEF WatchInv

(* Time passes.                                                            *)
LEMMA TickKeeps == ASSUME WatchInv, Tick PROVE WatchInv'
  <1>1. PolicyOK'
    <2>1. Recent(AllOlder(bounces)) \subseteq 0..MaxAge
      BY AgesOlder DEF WatchInv, PolicyOK, Recent
    <2>2. Recent(AllOlder(mine)) \subseteq 0..MaxAge
      BY AgesOlder DEF WatchInv, PolicyOK, Recent
    <2>3. AllOlder(history) \subseteq 0..MaxAge
      BY AgesOlder DEF WatchInv, PolicyOK
    <2>4. Older(startupAge) \in 0..MaxAge /\ Older(restartAge) \in 0..MaxAge
      BY OlderFacts DEF WatchInv, PolicyOK
    <2>5. cooldown' \in 0..LongCooldown
      BY WatchdogAssumption DEF Tick, WatchInv, PolicyOK
    <2> QED
      BY <2>1, <2>2, <2>3, <2>4, <2>5 DEF Tick, WatchInv, PolicyOK
  <1>2. \A a \in mine' : \E b \in mine : b < MaxAge /\ a = b + 1
    BY OlderFacts DEF Tick, Recent, AllOlder, WatchInv, PolicyOK, Lists, MaxAge
  <1>3. Lists'
    <2>1. mine' \subseteq Recent(history)'
      BY DEF Tick, Recent, AllOlder, WatchInv, Lists
    <2>2. \A a \in mine' : restarted' /\ restartAge' <= a
      <3>1. restartAge' <= restartAge + 1
        BY WatchdogAssumption DEF Tick, Older, WatchInv, PolicyOK, MaxAge
      <3>2. \A b \in mine : restarted /\ restartAge <= b /\ b \in Nat
        BY DEF WatchInv, Lists, PolicyOK
      <3>3. restartAge \in Nat /\ restartAge' \in Nat
        BY <1>1 DEF WatchInv, PolicyOK
      <3> QED
        BY <1>2, <3>1, <3>2, <3>3 DEF Tick
    <2>3. RestartsSpaced'
      BY <1>2, WatchdogAssumption DEF WatchInv, Lists, RestartsSpaced, PolicyOK
    <2>4. ProcessRateLimit'
      BY OlderCardinality, WatchdogAssumption
      DEF Tick, WatchInv, PolicyOK, Lists, ProcessRateLimit
    <2> QED
      BY <2>1, <2>2, <2>3, <2>4 DEF Lists
  <1>4. Failures'
    BY DEF Tick, WatchInv, Failures, UnhelpfulBounded
  <1>5. Guarded'
    BY DEF Tick, Guarded
  <1> QED
    BY <1>1, <1>3, <1>4, <1>5 DEF WatchInv

(* A step that leaves the policy and the guard alone.                      *)
LEMMA SamePolicy ==
  ASSUME WatchInv, UNCHANGED <<policyVars, startupAge>>,
         watch' = "relay" => watch = "relay"
  PROVE  WatchInv'
  BY DEF WatchInv, PolicyOK, Lists, RestartsSpaced, ProcessRateLimit, Failures,
         UnhelpfulBounded, Guarded, Recent, policyVars

(* A process starts, or its watchdog does.                                 *)
LEMMA NewKeeps ==
  ASSUME WatchInv, HostRestarts \/ StartListens
  PROVE  WatchInv'
  <1>1. CASE HostRestarts
    <2>1. Cardinality({}) = 0
      BY FS_EmptySet
    <2>2. PolicyOK'
      BY <1>1, WatchdogAssumption
      DEF HostRestarts, NewProcess, WatchInv, PolicyOK, MaxAge
    <2>3. Lists'
      BY <1>1, <2>1, WatchdogAssumption
      DEF HostRestarts, NewProcess, Lists, RestartsSpaced, ProcessRateLimit
    <2>4. Failures' /\ Guarded'
      BY <1>1, WatchdogAssumption
      DEF HostRestarts, NewProcess, Failures, UnhelpfulBounded, Guarded
    <2> QED
      BY <2>2, <2>3, <2>4 DEF WatchInv
  <1>2. CASE StartListens
    <2>1. UNCHANGED policyVars /\ startupAge' \in 0..MaxAge
      BY <1>2, WatchdogAssumption DEF StartListens, WatchInv, PolicyOK, MaxAge
    <2>2. Guarded'
      BY <1>2, <2>1 DEF StartListens, WatchInv, Guarded, policyVars
    <2> QED
      BY <2>1, <2>2
      DEF WatchInv, PolicyOK, Lists, RestartsSpaced, ProcessRateLimit,
          Failures, UnhelpfulBounded, Recent, policyVars
  <1> QED
    BY <1>1, <1>2

(* The circuit is looked for.                                              *)
LEMMA CircuitKeeps ==
  ASSUME WatchInv, CheckKuboAlive \/ CheckCircuit
  PROVE  WatchInv'
  <1>1. UNCHANGED <<startupAge, restarted, restartAge, cooldown, history, mine,
                    bounces>>
    BY DEF CheckKuboAlive, CheckCircuit, otherPolicy
  <1>2. missing' \in 0..Threshold
    BY WatchdogAssumption
    DEF CheckKuboAlive, CheckCircuit, circuitPresent, circuitMissing, Capped,
        WatchInv, PolicyOK
  <1>3. \/ UNCHANGED <<failed, unhelped>>
        \/ failed' = 0 /\ unhelped' = 0
    BY DEF CheckKuboAlive, CheckCircuit, circuitPresent, circuitMissing,
           otherPolicy
  <1>4. PolicyOK'
    BY <1>1, <1>2, <1>3, WatchdogAssumption DEF WatchInv, PolicyOK
  <1>5. Lists'
    BY <1>1 DEF WatchInv, Lists, RestartsSpaced, ProcessRateLimit, Recent
  <1>6. Failures'
    BY <1>1, <1>3, WatchdogAssumption DEF WatchInv, Failures, UnhelpfulBounded
  <1>7. Guarded'
    BY <1>1, WatchdogAssumption
    DEF CheckKuboAlive, CheckCircuit, circuitPresent, circuitMissing, Guarded,
        WatchInv, PolicyOK, MaxAge
  <1> QED
    BY <1>4, <1>5, <1>6, <1>7 DEF WatchInv

(* A restart is asked for: the gates leave room for one more.              *)
LEMMA SignalKeeps ==
  ASSUME WatchInv, SignalsRestart, watch' = "idle", UNCHANGED startupAge
  PROVE  WatchInv'
  <1>1. failedRestarts \in 0..MaxFailed
    BY WatchdogAssumption DEF failedRestarts, Capped, WatchInv, PolicyOK
  <1>2. PolicyOK'
    <2>1. 0 \in 0..MaxAge /\ 0 \in 0..Threshold
      BY WatchdogAssumption DEF MaxAge
    <2>2. /\ Recent(history) \cup {0} \subseteq 0..MaxAge
          /\ bounces \cup {0} \subseteq 0..MaxAge
          /\ mine \cup {0} \subseteq 0..MaxAge
      BY <2>1, Zenon DEF WatchInv, PolicyOK, Recent
    <2>3. unhelped + 1 \in Nat
      BY DEF WatchInv, PolicyOK
    <2> QED
      BY <1>1, <2>1, <2>2, <2>3 DEF SignalsRestart, WatchInv, PolicyOK
  <1>3. restartAge \in Nat /\ restartAge >= MinGap
    BY WatchdogAssumption DEF SignalsRestart, gatesPass, tooSoon, WatchInv, PolicyOK
  <1>4. mine' \subseteq Recent(history)' /\ \A a \in mine' : restarted' /\ restartAge' <= a
    BY WatchdogAssumption
    DEF SignalsRestart, WatchInv, PolicyOK, Lists, Recent
  <1>5. RestartsSpaced'
    <2>1. \A a \in mine : a \in Nat /\ a >= MinGap
      BY <1>3, WatchdogAssumption DEF WatchInv, PolicyOK, Lists
    <2> QED
      BY <2>1, WatchdogAssumption
      DEF SignalsRestart, WatchInv, Lists, RestartsSpaced
  <1>6. ProcessRateLimit'
    <2> DEFINE R == Recent(history)
    <2>1. IsFiniteSet(R) /\ Cardinality(R) \in Nat
      BY AgesFinite, FS_CardinalityType DEF WatchInv, PolicyOK, Recent
    <2>2. Cardinality(R) < MaxRestarts
      BY <2>1, WatchdogAssumption DEF SignalsRestart, gatesPass, rateLimited
    <2>3. IsFiniteSet(R \cup {0}) /\ Cardinality(R \cup {0}) <= Cardinality(R) + 1
      BY <2>1, FS_AddElement
    <2>4. Cardinality(R \cup {0}) \in Nat
      BY <2>3, FS_CardinalityType
    <2>5. mine' \subseteq R \cup {0}
      BY DEF SignalsRestart, WatchInv, Lists
    <2>6. Cardinality(mine') <= Cardinality(R \cup {0}) /\ IsFiniteSet(mine')
      BY <2>3, <2>5, FS_Subset
    <2>7. Cardinality(mine') \in Nat
      BY <2>6, FS_CardinalityType
    <2> QED
      BY <2>1, <2>2, <2>3, <2>4, <2>6, <2>7, WatchdogAssumption
      DEF ProcessRateLimit
  <1>7. Failures'
    <2>1. CASE restarted
      <3>1. failed' = failed + 1 /\ failed' < MaxFailed
        BY <2>1, <1>3, WatchdogAssumption
        DEF SignalsRestart, gaveUp, failedRestarts, Capped, WatchInv, PolicyOK
      <3> QED
        BY <3>1, WatchdogAssumption
        DEF SignalsRestart, WatchInv, PolicyOK, Failures, UnhelpfulBounded
    <2>2. CASE ~restarted
      BY <2>2, WatchdogAssumption
      DEF SignalsRestart, failedRestarts, WatchInv, PolicyOK, Failures,
          UnhelpfulBounded
    <2> QED
      BY <2>1, <2>2
  <1>8. Guarded'
    BY DEF Guarded
  <1> QED
    BY <1>2, <1>4, <1>5, <1>6, <1>7, <1>8 DEF WatchInv, Lists

LEMMA StillBelow ==
  ASSUME NEW u \in Nat, NEW f \in Nat, NEW g \in Nat, u <= f + 1, f <= g
  PROVE  u <= g + 1
  OBVIOUS

(* The gates: no restart is asked for, or one is.                          *)
LEMMA RelayKeeps == ASSUME WatchInv, CheckRelay PROVE WatchInv'
  <1>1. CASE SignalsRestart
    BY <1>1, SignalKeeps DEF CheckRelay
  <1>2. CASE RelayNotConnected \/ GateDefers \/ EntersLongCooldown \/ SignalFails
    <2>1. /\ UNCHANGED <<startupAge, restarted, restartAge, mine, bounces,
                         unhelped>>
          /\ missing' \in {missing, 0}
          /\ cooldown' \in {cooldown, LongCooldown}
          /\ history' \in {history, Recent(history)}
          /\ failed' \in {failed, failedRestarts}
      BY <1>2 DEF CheckRelay, RelayNotConnected, GateDefers, EntersLongCooldown,
                  SignalFails, otherPolicy
    <2>2. failedRestarts \in 0..MaxFailed /\ failed <= failedRestarts
      BY WatchdogAssumption DEF failedRestarts, Capped, WatchInv, PolicyOK
    <2>3. PolicyOK'
      BY <2>1, <2>2, WatchdogAssumption DEF WatchInv, PolicyOK, Recent
    <2>4. Lists'
      BY <2>1 DEF WatchInv, Lists, RestartsSpaced, ProcessRateLimit, Recent
    <2>5. Failures'
      <3>1. failed <= failed' /\ failed \in Nat /\ failed' \in Nat
        BY <2>1, <2>2 DEF WatchInv, PolicyOK
      <3>2. unhelped \in Nat /\ unhelped <= failed + 1
        BY DEF WatchInv, PolicyOK, Failures
      <3>3. unhelped' = unhelped
        BY <2>1
      <3>4. unhelped' <= failed' + 1
        BY <3>1, <3>2, <3>3, StillBelow, Zenon
      <3> QED
        BY <2>1, <3>4 DEF WatchInv, Failures, UnhelpfulBounded
    <2>6. Guarded'
      BY DEF CheckRelay, Guarded
    <2> QED
      BY <2>3, <2>4, <2>5, <2>6 DEF WatchInv
  <1> QED
    BY <1>1, <1>2 DEF CheckRelay

(* Every step keeps the invariant.                                         *)
LEMMA WatchNext == WatchInv /\ [Next]_vars => WatchInv'
  <1> SUFFICES ASSUME WatchInv, [Next]_vars PROVE WatchInv'
    OBVIOUS
  <1>1. CASE Tick
    BY <1>1, TickKeeps
  <1>2. CASE HostRestarts \/ StartListens
    BY <1>2, NewKeeps
  <1>3. CASE StartWaits \/ StartCloses \/ StartForwards \/ StartDiscovers
    BY <1>3, SamePolicy, Zenon
    DEF StartWaits, StartCloses, StartForwards, StartDiscovers
  <1>4. CASE CheckKuboAlive \/ CheckCircuit
    BY <1>4, CircuitKeeps
  <1>5. CASE CheckKuboP2PListeners \/ WatchCloses \/ WatchListens
             \/ WatchReforwards \/ CheckClusterForward
    BY <1>5, SamePolicy
    DEF CheckKuboP2PListeners, WatchCloses, WatchListens, WatchReforwards,
        CheckClusterForward
  <1>6. CASE CheckRelay
    BY <1>6, RelayKeeps
  <1>7. CASE Environment
    BY <1>7, SamePolicy DEF Environment, KuboStops, KuboStarts, NetworkChanges
  <1>8. CASE UNCHANGED vars
    BY <1>8, SamePolicy DEF vars
  <1> QED
    BY <1>1, <1>2, <1>3, <1>4, <1>5, <1>6, <1>7, <1>8
    DEF Next, StartStep, WatchStep

LEMMA WatchAlways == Spec => []WatchInv
  BY WatchInit, WatchNext, PTL DEF Spec

(* watchKuboP2P never asks for more than MaxRestarts restarts in a window, *)
(* although it prunes its history only when it is about to ask again.      *)
THEOREM RateLimited == Spec => []ProcessRateLimit
  <1>1. WatchInv => ProcessRateLimit
    BY DEF WatchInv, Lists
  <1> QED
    BY <1>1, WatchAlways, PTL

(* watchKuboP2P asks for restarts at least MinGap apart.                   *)
THEOREM Spaced == Spec => []RestartsSpaced
  <1>1. WatchInv => RestartsSpaced
    BY DEF WatchInv, Lists
  <1> QED
    BY <1>1, WatchAlways, PTL

(* watchKuboP2P asks for at most MaxFailed restarts in a row that do not   *)
(* bring the circuit back, for any limits with Grace <= MinGap.            *)
THEOREM GivesUp == Spec => []UnhelpfulBounded
  <1>1. WatchInv => UnhelpfulBounded
    BY DEF WatchInv, Failures
  <1> QED
    BY <1>1, WatchAlways, PTL

(* No restart is asked for within Bootstrap of a start, unless the circuit *)
(* has been there before.                                                  *)
THEOREM BootstrapGuard == Spec => NoRestartInBootstrap
  <1>1. WatchInv /\ [Next]_vars
          => [marker' /\ ~marker => seenCircuit \/ startupAge >= Bootstrap]_vars
    <2> SUFFICES ASSUME WatchInv, Next, marker', ~marker
                 PROVE  seenCircuit \/ startupAge >= Bootstrap
      OBVIOUS
    <2>1. watch = "relay"
      BY Zenon DEF Next, StartStep, StartWaits, StartCloses, StartListens,
             StartForwards, StartDiscovers, Tick, WatchStep, CheckKuboAlive,
             CheckKuboP2PListeners, WatchCloses, WatchListens, WatchReforwards,
             CheckClusterForward, CheckCircuit, CheckRelay, HostRestarts,
             NewProcess, Environment, KuboStops, KuboStarts, NetworkChanges,
             policyVars, otherPolicy
    <2> QED
      BY <2>1 DEF WatchInv, Guarded
  <1> QED
    BY <1>1, WatchAlways, PTL DEF Spec, NoRestartInBootstrap

-----------------------------------------------------------------------------
(* Type correctness.  PolicyOK has the numbers; these are the others.      *)
FlagsOK ==
    /\ alive \in BOOLEAN /\ circuit \in BOOLEAN /\ relay \in BOOLEAN
    /\ listeners \subseteq Protocols /\ forward \in BOOLEAN
    /\ start \in StartSteps /\ topic \in BOOLEAN /\ server \in BOOLEAN
    /\ watch \in WatchSteps
    /\ seenCircuit \in BOOLEAN /\ restarted \in BOOLEAN /\ marker \in BOOLEAN

LEMMA FlagsInit == Init => FlagsOK
  BY Zenon DEF Init, FlagsOK, StartSteps, WatchSteps

\* Blox.Start
LEMMA FlagsStart == ASSUME FlagsOK, StartStep PROVE FlagsOK'
  <1>1. CASE StartWaits
    BY <1>1 DEF StartWaits, FlagsOK, StartSteps, kuboVars, policyVars
  <1>2. CASE StartCloses
    BY <1>2, Zenon DEF StartCloses, closeAll, FlagsOK, StartSteps, policyVars
  <1>3. CASE StartListens
    BY <1>3 DEF StartListens, registerAll, registerSome, FlagsOK, StartSteps, WatchSteps,
                policyVars
  <1>4. CASE StartForwards
    BY <1>4, Zenon DEF StartForwards, setServer, registerClusterForward, FlagsOK, StartSteps,
                          policyVars
  <1>5. CASE StartDiscovers
    BY <1>5, Zenon DEF StartDiscovers, FlagsOK, StartSteps, kuboVars, policyVars
  <1> QED
    BY <1>1, <1>2, <1>3, <1>4, <1>5 DEF StartStep

\* watchKuboP2P
LEMMA FlagsWatch == ASSUME FlagsOK, Tick \/ WatchStep PROVE FlagsOK'
  <1>1. CASE Tick
    BY <1>1 DEF Tick, FlagsOK, WatchSteps, kuboVars, startVars
  <1>2. CASE CheckKuboAlive
    BY <1>2 DEF CheckKuboAlive, FlagsOK, WatchSteps, kuboVars, startVars, otherPolicy
  <1>3. CASE CheckKuboP2PListeners
    BY <1>3 DEF CheckKuboP2PListeners, FlagsOK, WatchSteps, kuboVars, startVars, policyVars
  <1>4. CASE WatchCloses
    BY <1>4, Zenon DEF WatchCloses, closeAll, FlagsOK, WatchSteps, startVars, policyVars
  <1>5. CASE WatchListens
    BY <1>5 DEF WatchListens, registerAll, registerSome, FlagsOK, WatchSteps, startVars,
                policyVars
  <1>6. CASE WatchReforwards
    BY <1>6, Zenon DEF WatchReforwards, registerClusterForward, FlagsOK, WatchSteps, startVars,
                policyVars
  <1>7. CASE CheckClusterForward
    BY <1>7, Zenon DEF CheckClusterForward, registerClusterForward, FlagsOK, WatchSteps, startVars,
                policyVars
  <1>8. CASE CheckCircuit
    BY <1>8, Zenon DEF CheckCircuit, circuitPresent, circuitMissing, FlagsOK, WatchSteps, kuboVars,
                startVars
  <1>9. CASE CheckRelay
    BY <1>9, Zenon DEF CheckRelay, RelayNotConnected, GateDefers, EntersLongCooldown,
                SignalsRestart, SignalFails, FlagsOK, WatchSteps, kuboVars, startVars, otherPolicy
  <1> QED
    BY <1>1, <1>2, <1>3, <1>4, <1>5, <1>6, <1>7, <1>8, <1>9 DEF WatchStep

LEMMA FlagsNext == FlagsOK /\ [Next]_vars => FlagsOK'
  <1> SUFFICES ASSUME FlagsOK, [Next]_vars PROVE FlagsOK'
    OBVIOUS
  <1>1. CASE HostRestarts
    BY <1>1, Zenon DEF HostRestarts, NewProcess, FlagsOK, StartSteps, WatchSteps
  <1>2. CASE Environment
    BY <1>2, Zenon DEF Environment, KuboStops, KuboStarts, NetworkChanges, FlagsOK, startVars,
                policyVars
  <1>3. CASE UNCHANGED vars
    BY <1>3 DEF vars, kuboVars, startVars, policyVars, FlagsOK
  <1> QED
    BY <1>1, <1>2, <1>3, FlagsStart, FlagsWatch DEF Next

(* Every variable of the watchdog keeps its type: the counters of          *)
(* watchKuboP2P stay within their limits, and the listeners that kubo has  *)
(* are among those go-fula registers.                                      *)
THEOREM WellTyped == Spec => []TypeOK
  <1>1. Spec => []FlagsOK
    BY FlagsInit, FlagsNext, PTL DEF Spec
  <1>2. WatchInv /\ FlagsOK => TypeOK
    BY DEF WatchInv, PolicyOK, FlagsOK, TypeOK
  <1> QED
    BY <1>1, <1>2, WatchAlways, PTL
=============================================================================
