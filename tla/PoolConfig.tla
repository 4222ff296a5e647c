----------------------------- MODULE PoolConfig -----------------------------
(***************************************************************************)
(* The pool membership of a blox device: the two fields poolName and       *)
(* chainName of its config.yaml, and everything that reads or writes them. *)
(*                                                                         *)
(* Writers, each a thread that takes and releases configMu once per step:  *)
(*   - the join, leave, cancel-join and manifest-upload (cluster endpoint) *)
(*     request handlers, any number of them at a time;                     *)
(*   - Blox.Start, which discovers the device's pool on the chains and then *)
(*     runs FetchUsersAndPopulateSets;                                     *)
(*   - the reconcile pass, which drops a pool that the device has left;    *)
(*   - the WAP process, which rewrites the file without any lock.          *)
(* The process may stop at any step (power loss, or the host restarting    *)
(* the fula services on the restart marker file) and starts again with     *)
(* what is on disk: config.yaml, the confirmed-membership marker and the   *)
(* time of the last reconcile clear.                                       *)
(*                                                                         *)
(* What is abstracted:                                                     *)
(*   - a pool is a value, "0" and "" are both NoPool;                      *)
(*   - the contract on each chain is a status per pool, as the RPC         *)
(*     endpoints serve it; "not listed" is "none";                         *)
(*   - the age of the reconcile-clear marker is one Boolean: is it less    *)
(*     than PoolReconcileMinInterval (24h) old;                            *)
(*   - the response a handler writes; a request that is refused before any *)
(*     state changes (400, 409, 503) is no step at all.                    *)
(***************************************************************************)
EXTENDS Naturals, FiniteSets

CONSTANTS Pools,      \* pool ids, "0" excluded
          PoolsOn,    \* the <<chain, pool>> pairs that exist on the chains
          Handlers,   \* request handler goroutines that may run at a time
          NoPool,     \* poolName "0" (or "")
          PoolHost,   \* options.poolHost: this device hosts its pool
          Faults      \* which of "disk" and "rpc" operations may fail

Chains == {"base", "skale"}
NoChain == "none"     \* chainName ""
Absent == "absent"    \* config.yaml holds no chainName key
Keys == Chains \X Pools

ASSUME ConstantsAssumption ==
    /\ PoolsOn \subseteq Keys
    /\ NoPool \notin Pools
    /\ PoolHost \in BOOLEAN
    /\ Faults \subseteq {"disk", "rpc"}

ASSUME HandlersAssumption == Handlers \cap {"start", "reconcile"} = {}

VARIABLES
    file,       \* config.yaml: its poolName and chainName
    memChain,   \* app.config.ChainName, kept when the file lacks the key
    up,         \* the blox process is running
    topic,      \* Blox.topicName
    th,         \* th[t]: where thread t is
    ping,       \* the ping server is serving
    confirmed,  \* pool_member_confirmed.tmp
    recent,     \* pool_reconcile_cleared_at.tmp is younger than the interval
    creators,   \* pools whose creator peer id is cached on disk
    hooks,      \* goroutines about to call onPoolConfigCleared
    marker,     \* the file that asks the host to restart the services
    listed,     \* the contracts: the cluster peer's status in each pool
    \* History, read by the properties only:
    seen,       \* pairs the device has been a member of
    unlisted,   \* unlisted[t]: th[t].key was "none" at some point since t
                \* started to check it
    clears      \* reconcile clears since the interval last elapsed

diskVars == <<file, confirmed, recent, creators, marker>>
history == <<seen, unlisted, clears>>
vars == <<file, memChain, up, topic, th, ping, confirmed, recent, creators,
          hooks, marker, listed, seen, unlisted, clears>>

Threads == Handlers \cup {"start", "reconcile"}
NoKey == <<NoChain, NoPool>>
Steps == {"idle", "joinPool", "joinChain", "leaveChain", "readMember",
          "readRequest", "clearPool", "clearChain", "cleanPool", "cleanChain",
          "cleanMark", "verify", "cancelPool", "cancelChain", "endpoint",
          "start", "discover", "setPool", "setChain", "fetch", "fetchPool",
          "fetchChain", "running", "reconcileChain", "recheckPool",
          "recheckChain", "markCleared"}
Ops == {"none", "join", "leave", "cancel", "endpoint", "start", "reconcile"}
Status == {"none", "pending", "member"}
ThreadState == [op : Ops, step : Steps,
                key : (Chains \cup {NoChain}) \X (Pools \cup {NoPool}),
                tries : 0..3]
Idle == [op |-> "none", step |-> "idle", key |-> NoKey, tries |-> 0]

TypeOK ==
    /\ file \in [pool : Pools \cup {NoPool},
                 chain : Chains \cup {NoChain, Absent}]
    /\ memChain \in Chains \cup {NoChain}
    /\ up \in BOOLEAN
    /\ topic \in Pools \cup {NoPool}
    /\ th \in [Threads -> ThreadState]
    /\ ping \in BOOLEAN
    /\ confirmed \in Keys \cup {NoKey}
    /\ recent \in BOOLEAN
    /\ creators \subseteq Pools
    /\ hooks \in Nat
    /\ marker \in BOOLEAN
    /\ listed \in [Keys -> Status]
    /\ seen \subseteq Keys
    /\ unlisted \in [Threads -> BOOLEAN]
    /\ clears \in Nat

Init ==
    /\ file = [pool |-> NoPool, chain |-> NoChain]
    /\ memChain = NoChain
    /\ up = FALSE
    /\ topic = NoPool
    /\ th = [t \in Threads |-> Idle]
    /\ ping = FALSE
    /\ confirmed = NoKey
    /\ recent = FALSE
    /\ creators = {}
    /\ hooks = 0
    /\ marker = FALSE
    /\ listed = [k \in Keys |-> "none"]
    /\ seen = {}
    /\ unlisted = [t \in Threads |-> FALSE]
    /\ clears = 0

-----------------------------------------------------------------------------
(* The config accessors of cmd/blox.  Each one reads the file into the      *)
(* shared app.config under configMu, so a key the file lacks keeps the      *)
(* value it has in memory, and a write puts every key back.                 *)

CurChain == IF file.chain = Absent THEN memChain ELSE file.chain

getPoolName == file.pool
getChainName == CurChain
Load == memChain' = CurChain /\ UNCHANGED file

updatePoolName(p) ==
    /\ memChain' = CurChain
    /\ file' = IF file.pool = p THEN file ELSE [pool |-> p, chain |-> CurChain]

updateChainName(c) ==
    /\ memChain' = c
    /\ file' = IF CurChain = c THEN file ELSE [file EXCEPT !.chain = c]

\* A failed write: the file keeps its contents, app.config has the new value.
DiskFails == "disk" \in Faults
RpcFails == "rpc" \in Faults
updatePoolNameFails == DiskFails /\ Load
updateChainNameFails(c) == DiskFails /\ memChain' = c /\ UNCHANGED file

Begin(t, op, s, k) ==
    th' = [th EXCEPT ![t] = [op |-> op, step |-> s, key |-> k, tries |-> 0]]
Check(t, k, n) ==
    th' = [th EXCEPT ![t] = [@ EXCEPT !.step = "readMember", !.key = k,
                                      !.tries = n]]
Goto(t, s) == th' = [th EXCEPT ![t].step = s]
Done(t) == th' = [th EXCEPT ![t] = Idle]
At(t, s) == up /\ th[t].step = s

-----------------------------------------------------------------------------
(* HandlePoolJoin.                                                          *)

\* discoverPoolChain tries skale, then base; an unreadable chain is skipped,
\* and the callers fall back to skale.
discoverPoolChain(p) ==
    LET on(c) == <<c, p>> \in PoolsOn
    IN  IF on("skale") THEN {"skale"} \cup {c \in {"base"} : RpcFails /\ on(c)}
        ELSE IF on("base") THEN {"base"} \cup {c \in {"skale"} : RpcFails}
        ELSE {"skale"}

\* The pool must exist on the chain; the chain comes from the request, or is
\* discovered.
HandlePoolJoin(h, p, c) ==
    /\ At(h, "idle")
    /\ \E d \in IF c = NoChain THEN discoverPoolChain(p) ELSE {c} :
         /\ <<d, p>> \in PoolsOn
         /\ Begin(h, "join", "joinPool", <<d, p>>)
    /\ UNCHANGED <<diskVars, memChain, up, topic, ping, hooks, listed, history>>

JoinSetPool(h) ==
    /\ At(h, "joinPool")
    /\ \/ updatePoolName(th[h].key[2]) /\ Goto(h, "joinChain")
       \/ updatePoolNameFails /\ Done(h)
    /\ UNCHANGED <<up, topic, ping, confirmed, recent, creators, hooks, marker,
                   listed, history>>

JoinSetChain(h) ==
    /\ At(h, "joinChain")
    /\ Done(h)
    /\ \/ updateChainName(th[h].key[1])
       \/ updateChainNameFails(th[h].key[1])
    /\ UNCHANGED <<up, topic, ping, confirmed, recent, creators, hooks, marker,
                   listed, history>>

-----------------------------------------------------------------------------
(* Reading the chain.  ClusterPeerPoolStatus makes two calls, one for the   *)
(* membership and, if there is none, one for the join request; the chain    *)
(* may move between them.  Any failure ends the caller without a change.    *)

\* Thread t starts to check key k.
StartCheck(t, k) ==
    /\ Check(t, k, 1)
    /\ unlisted' = [unlisted EXCEPT ![t] = listed[k] = "none"]

\* Mutant: one attempt too many.
StillListedOnceMore(t) ==
    IF th[t].op = "leave" /\ th[t].tries <= 3
    THEN Check(t, th[t].key, th[t].tries + 1)
    ELSE Done(t)

\* The leave handler asks up to poolLeaveCheckAttempts times while it is
\* still listed; the reconcile pass keeps the pool at once.
StillListed(t) ==
    IF th[t].op = "leave" /\ th[t].tries < 3
    THEN Check(t, th[t].key, th[t].tries + 1)
    ELSE Done(t)

\* recordPoolMemberConfirmed; the write may fail.
recordPoolMemberConfirmed(k) ==
    \/ confirmed' = k
    \/ DiskFails /\ UNCHANGED confirmed

ReadMember(t) ==
    /\ At(t, "readMember")
    /\ IF listed[th[t].key] = "member"
       THEN /\ StillListed(t)
            /\ IF th[t].op = "reconcile"
               THEN recordPoolMemberConfirmed(th[t].key)
               ELSE UNCHANGED confirmed
       ELSE Goto(t, "readRequest") /\ UNCHANGED confirmed
    /\ UNCHANGED <<file, memChain, up, topic, ping, recent, creators, hooks,
                   marker, listed, history>>

\* Mutant: the first answer is enough.
NotListedTrustsOneAnswer(t) ==
    IF th[t].op = "leave" THEN Goto(t, "clearPool")
    ELSE IF confirmed = th[t].key THEN Goto(t, "recheckPool") ELSE Done(t)

\* Mutant: the second check is taken for a first one.
NotListedNeverDecides(t) ==
    IF th[t].op = "leave" THEN Goto(t, "clearPool")
    ELSE IF confirmed = th[t].key THEN Check(t, th[t].key, 2) ELSE Done(t)

\* Neither a member nor waiting.  A reconcile pass needs that answer twice,
\* and after the first one that it once saw this membership.
NotListed(t) ==
    IF th[t].op = "leave" THEN Goto(t, "clearPool")
    ELSE IF th[t].tries = 2 THEN Goto(t, "recheckPool")
    ELSE IF confirmed = th[t].key
         THEN Check(t, th[t].key, 2)
         ELSE Done(t)

ReadRequest(t) ==
    /\ At(t, "readRequest")
    /\ IF listed[th[t].key] = "pending" THEN StillListed(t) ELSE NotListed(t)
    /\ UNCHANGED <<diskVars, memChain, up, topic, ping, hooks, listed, history>>

\* An RPC error, or the request's or the pass's time limit.
CheckFails(t) ==
    /\ RpcFails
    /\ At(t, "readMember") \/ At(t, "readRequest")
    /\ Done(t)
    /\ UNCHANGED <<diskVars, memChain, up, topic, ping, hooks, listed, history>>

-----------------------------------------------------------------------------
(* clearPoolConfig and cleanLeaveJoinPool, for the leave handler and the    *)
(* reconcile pass; the cancel-join handler enters at cleanLeaveJoinPool.    *)

ClearPool(t) ==
    /\ At(t, "clearPool")
    /\ \/ /\ updatePoolName(NoPool)
          /\ Goto(t, "clearChain")
          /\ clears' = IF t = "reconcile" THEN clears + 1 ELSE clears
       \/ updatePoolNameFails /\ Done(t) /\ UNCHANGED clears
    /\ UNCHANGED <<up, topic, ping, confirmed, recent, creators, hooks, marker,
                   listed, seen, unlisted>>

ClearChain(t) ==
    /\ At(t, "clearChain")
    /\ \/ updateChainName(NoChain) /\ Goto(t, "cleanPool")
       \/ updateChainNameFails(NoChain) /\ Done(t)
    /\ UNCHANGED <<up, topic, ping, confirmed, recent, creators, hooks, marker,
                   listed, history>>

\* cleanLeaveJoinPool only logs its errors.
CleanPool(t) ==
    /\ At(t, "cleanPool")
    /\ updatePoolName(NoPool) \/ updatePoolNameFails
    /\ Goto(t, "cleanChain")
    /\ UNCHANGED <<up, topic, ping, confirmed, recent, creators, hooks, marker,
                   listed, history>>

CleanChain(t) ==
    /\ At(t, "cleanChain")
    /\ updateChainName(NoChain) \/ updateChainNameFails(NoChain)
    /\ Goto(t, "cleanMark")
    /\ UNCHANGED <<up, topic, ping, confirmed, recent, creators, hooks, marker,
                   listed, history>>

\* clearPoolMemberConfirmed, then StopPingServer.
CleanMark(t) ==
    /\ At(t, "cleanMark")
    /\ confirmed' = NoKey \/ (DiskFails /\ UNCHANGED confirmed)
    /\ ping' = FALSE
    /\ IF th[t].op = "cancel" THEN Done(t) ELSE Goto(t, "verify")
    /\ UNCHANGED <<file, memChain, up, topic, recent, creators, hooks, marker,
                   listed, history>>

\* clearPoolConfig confirms the clear; only then is a restart signalled.  An
\* unreadable file reads as pool "0".
Verify(t) ==
    /\ At(t, "verify")
    /\ Load
    /\ Done(t)
    /\ \/ getPoolName = NoPool /\ hooks' = hooks + 1
       \/ getPoolName # NoPool /\ UNCHANGED hooks
       \/ DiskFails /\ hooks' = hooks + 1
    /\ UNCHANGED <<up, topic, ping, confirmed, recent, creators, marker,
                   listed, history>>

\* signalPoolConfigCleared's goroutine, after its delay.
SignalRestart ==
    /\ up
    /\ hooks > 0
    /\ hooks' = hooks - 1
    /\ marker' = TRUE \/ (DiskFails /\ UNCHANGED marker)
    /\ UNCHANGED <<file, memChain, up, topic, th, ping, confirmed, recent,
                   creators, listed, history>>

-----------------------------------------------------------------------------
(* HandlePoolLeave.                                                         *)

\* The configured pool is the one asked about.
HandlePoolLeave(h, p, c) ==
    /\ ~PoolHost
    /\ At(h, "idle")
    /\ getPoolName = p
    /\ Load
    /\ Begin(h, "leave", "leaveChain", <<c, p>>)
    /\ UNCHANGED <<up, topic, ping, confirmed, recent, creators, hooks, marker,
                   listed, history>>

\* The chain comes from the request, else from the config, else it is
\* discovered; it must not differ from the configured one.
LeaveChain(h) ==
    /\ At(h, "leaveChain")
    /\ Load
    /\ LET p == th[h].key[2]
           asked == th[h].key[1]
           configured == getChainName
           chain == IF asked # NoChain THEN {asked}
                    ELSE IF configured # NoChain THEN {configured}
                    ELSE discoverPoolChain(p)
       IN  \E c \in chain :
             IF configured \in {NoChain, c}
             THEN StartCheck(h, <<c, p>>)
             ELSE Done(h) /\ UNCHANGED unlisted
    /\ UNCHANGED <<up, topic, ping, confirmed, recent, creators, hooks, marker,
                   listed, seen, clears>>

-----------------------------------------------------------------------------
(* HandlePoolCancelJoin.  It does not look at the configured pool.          *)

\* The gateway accepted the cancellation, or it cannot be reached for it and
\* its user list shows no open request.
HandlePoolCancelJoin(h) ==
    /\ At(h, "idle")
    /\ \E s \in {"cleanPool", "cancelPool"} : Begin(h, "cancel", s, NoKey)
    /\ UNCHANGED <<diskVars, memChain, up, topic, ping, hooks, listed, history>>

CancelPool(h) ==
    /\ At(h, "cancelPool")
    /\ updatePoolName(NoPool) \/ updatePoolNameFails
    /\ Goto(h, "cancelChain")
    /\ UNCHANGED <<up, topic, ping, confirmed, recent, creators, hooks, marker,
                   listed, history>>

CancelChain(h) ==
    /\ At(h, "cancelChain")
    /\ updateChainName(NoChain) \/ updateChainNameFails(NoChain)
    /\ ping' = FALSE
    /\ Done(h)
    /\ UNCHANGED <<up, topic, confirmed, recent, creators, hooks, marker,
                   listed, history>>

-----------------------------------------------------------------------------
(* getClusterEndpoint, called by the manifest upload handler.               *)

saveCreatorPeerID(p) ==
    \/ creators' = creators \cup {p}
    \/ DiskFails /\ UNCHANGED creators

\* The creator lookup works on the configured chain, and is cached; or only
\* on the other chain, which then becomes the configured one.
getClusterEndpoint(h, p) ==
    /\ At(h, "idle")
    /\ p \notin creators
    /\ Load
    /\ LET chain == IF getChainName = NoChain THEN "skale" ELSE getChainName
           fallback == IF chain = "base" THEN "skale" ELSE "base"
       IN  \/ /\ <<chain, p>> \in PoolsOn
              /\ saveCreatorPeerID(p)
              /\ UNCHANGED th
           \/ /\ <<chain, p>> \notin PoolsOn \/ RpcFails
              /\ <<fallback, p>> \in PoolsOn
              /\ Begin(h, "endpoint", "endpoint", <<fallback, p>>)
              /\ UNCHANGED creators
    /\ UNCHANGED <<up, topic, ping, confirmed, recent, hooks, marker, listed,
                   history>>

EndpointSetChain(h) ==
    /\ At(h, "endpoint")
    /\ updateChainName(th[h].key[1]) \/ updateChainNameFails(th[h].key[1])
    /\ saveCreatorPeerID(th[h].key[2])
    /\ Done(h)
    /\ UNCHANGED <<up, topic, ping, confirmed, recent, hooks, marker, listed,
                   history>>

-----------------------------------------------------------------------------
(* The process: before() and Blox.Start.                                    *)

\* before() fills app.config from the flags that config.yaml may set, and
\* writes it back: there is no flag for chainName, so every start empties it.
\* Start then serves requests and removes a stale restart marker.
Boot ==
    /\ ~up
    /\ up' = TRUE
    /\ file' = [file EXCEPT !.chain = NoChain]
    /\ memChain' = NoChain
    /\ topic' = file.pool
    /\ th' = [t \in Threads |->
                IF t = "start" THEN [Idle EXCEPT !.op = "start", !.step = "start"]
                ELSE Idle]
    /\ ping' = TRUE
    /\ marker' = FALSE
    /\ UNCHANGED <<confirmed, recent, creators, hooks, listed, history>>

\* needsDiscovery, evaluated once the handlers are live.
NeedsDiscovery ==
    /\ At("start", "start")
    /\ Load
    /\ IF topic = NoPool \/ getChainName = NoChain
       THEN Goto("start", "discover")
       ELSE Goto("start", "fetch")
    /\ UNCHANGED <<up, topic, ping, confirmed, recent, creators, hooks, marker,
                   listed, history>>

\* Thread "start" found membership k and goes on to record it.
Found(k, s) ==
    th' = [th EXCEPT !["start"] = [@ EXCEPT !.step = s, !.key = k]]

IsMember(k) == k \in PoolsOn /\ listed[k] = "member"

\* The first membership found, base before skale; an unreadable chain or pool
\* is passed over as if the device were not a member.
DiscoverPool ==
    /\ At("start", "discover")
    /\ \/ \E k \in Keys :
            /\ IsMember(k)
            /\ \/ k[1] = "base" \/ RpcFails
               \/ \A p \in Pools : ~IsMember(<<"base", p>>)
            /\ Found(k, "setPool")
       \/ /\ RpcFails \/ \A k \in Keys : ~IsMember(k)
          /\ Goto("start", "fetch")
    /\ UNCHANGED <<diskVars, memChain, up, topic, ping, hooks, listed, history>>

DiscoverSetPool ==
    /\ At("start", "setPool")
    /\ updatePoolName(th["start"].key[2]) \/ updatePoolNameFails
    /\ topic' = th["start"].key[2]
    /\ Goto("start", "setChain")
    /\ UNCHANGED <<up, ping, confirmed, recent, creators, hooks, marker, listed,
                   history>>

DiscoverSetChain ==
    /\ At("start", "setChain")
    /\ \/ updateChainName(th["start"].key[1])
       \/ updateChainNameFails(th["start"].key[1])
    /\ Goto("start", "fetch")
    /\ UNCHANGED <<up, topic, ping, confirmed, recent, creators, hooks, marker,
                   listed, history>>

\* discoverPoolAndChain looks for topic on skale, then on base.
FetchUsersAndPopulateSets ==
    /\ At("start", "fetch")
    /\ Load
    /\ LET search == topic # NoPool /\ getChainName = NoChain
           member(c) == IsMember(<<c, topic>>)
       IN  \/ /\ search
              /\ \E c \in Chains :
                   /\ member(c)
                   /\ c = "skale" \/ RpcFails \/ ~member("skale")
                   /\ Found(<<c, topic>>, "fetchPool")
           \/ /\ search => RpcFails \/ \A c \in Chains : ~member(c)
              /\ Goto("start", "running")
    /\ UNCHANGED <<up, topic, ping, confirmed, recent, creators, hooks, marker,
                   listed, history>>

FetchSetPool ==
    /\ At("start", "fetchPool")
    /\ updatePoolName(th["start"].key[2]) \/ updatePoolNameFails
    /\ Goto("start", "fetchChain")
    /\ UNCHANGED <<up, topic, ping, confirmed, recent, creators, hooks, marker,
                   listed, history>>

FetchSetChain ==
    /\ At("start", "fetchChain")
    /\ \/ updateChainName(th["start"].key[1])
       \/ updateChainNameFails(th["start"].key[1])
    /\ Goto("start", "running")
    /\ UNCHANGED <<up, topic, ping, confirmed, recent, creators, hooks, marker,
                   listed, history>>

-----------------------------------------------------------------------------
(* ReconcilePoolConfig: two minutes after Start, then every six hours, never *)
(* two passes at a time.                                                     *)

\* startPoolReconcile comes before FetchUsersAndPopulateSets.
DiscoveryDone ==
    th["start"].step \in {"fetch", "fetchPool", "fetchChain", "running"}

ReconcilePoolConfig ==
    /\ ~PoolHost
    /\ At("reconcile", "idle") /\ DiscoveryDone
    /\ getPoolName # NoPool
    /\ Load
    /\ Begin("reconcile", "reconcile", "reconcileChain", <<NoChain, getPoolName>>)
    /\ UNCHANGED <<up, topic, ping, confirmed, recent, creators, hooks, marker,
                   listed, history>>

\* Mutant: the time of the last clear is not looked at.
ReconcileChainUnlimited ==
    /\ At("reconcile", "reconcileChain")
    /\ Load
    /\ IF getChainName = NoChain
       THEN Done("reconcile") /\ UNCHANGED unlisted
       ELSE StartCheck("reconcile", <<getChainName, th["reconcile"].key[2]>>)
    /\ UNCHANGED <<up, topic, ping, confirmed, recent, creators, hooks, marker,
                   listed, seen, clears>>

ReconcileChain ==
    /\ At("reconcile", "reconcileChain")
    /\ Load
    /\ IF getChainName = NoChain \/ recent
       THEN Done("reconcile") /\ UNCHANGED unlisted
       ELSE StartCheck("reconcile", <<getChainName, th["reconcile"].key[2]>>)
    /\ UNCHANGED <<up, topic, ping, confirmed, recent, creators, hooks, marker,
                   listed, seen, clears>>

\* "Abort if the config changed while checking": two reads, one per field.
RecheckPool ==
    /\ At("reconcile", "recheckPool")
    /\ Load
    /\ IF getPoolName = th["reconcile"].key[2]
       THEN Goto("reconcile", "recheckChain")
       ELSE Done("reconcile")
    /\ UNCHANGED <<up, topic, ping, confirmed, recent, creators, hooks, marker,
                   listed, history>>

RecheckChain ==
    /\ At("reconcile", "recheckChain")
    /\ Load
    /\ IF getChainName = th["reconcile"].key[1]
       THEN Goto("reconcile", "markCleared")
       ELSE Done("reconcile")
    /\ UNCHANGED <<up, topic, ping, confirmed, recent, creators, hooks, marker,
                   listed, history>>

\* writeTimeMarker comes before the clear, which needs it.
MarkCleared ==
    /\ At("reconcile", "markCleared")
    /\ \/ recent' = TRUE /\ Goto("reconcile", "clearPool")
       \/ DiskFails /\ Done("reconcile") /\ UNCHANGED recent
    /\ UNCHANGED <<file, memChain, up, topic, ping, confirmed, creators, hooks,
                   marker, listed, history>>

\* PoolReconcileMinInterval has passed since the last clear.  A pass is
\* minutes long, the interval a day: it does not elapse inside a pass.
IntervalElapses ==
    /\ recent
    /\ th["reconcile"].step = "idle"
    /\ recent' = FALSE
    /\ clears' = 0
    /\ UNCHANGED <<file, memChain, up, topic, th, ping, confirmed, creators,
                   hooks, marker, listed, seen, unlisted>>

-----------------------------------------------------------------------------
(* The rest of the world.                                                   *)

\* The WAP joinPoolHandler: a process of its own, no lock, and a Config type
\* without chainName, so the key is gone from the file it writes.
WapJoinPool(p) ==
    /\ file' = [pool |-> p, chain |-> Absent]
    /\ UNCHANGED <<memChain, up, topic, th, ping, confirmed, recent, creators,
                   hooks, marker, listed, history>>

\* The contracts: a join request, its approval or refusal, a removal.
ChainStep(k, from, to) ==
    /\ listed[k] = from
    /\ listed' = [listed EXCEPT ![k] = to]
    /\ seen' = IF to = "member" THEN seen \cup {k} ELSE seen
    /\ unlisted' = [t \in Threads |->
                      unlisted[t] \/ (th[t].key = k /\ to = "none")]
    /\ UNCHANGED <<diskVars, memChain, up, topic, th, ping, hooks, clears>>

RequestJoin(k) == ChainStep(k, "none", "pending")
ApproveJoin(k) == ChainStep(k, "pending", "member")
RefuseJoin(k) == ChainStep(k, "pending", "none")
RemoveMember(k) == ChainStep(k, "member", "none")

\* The process is gone: power loss, or the host restarting the services.
Down ==
    /\ up
    /\ up' = FALSE
    /\ th' = [t \in Threads |-> Idle]
    /\ hooks' = 0
    /\ ping' = FALSE
    /\ UNCHANGED <<file, memChain, topic, confirmed, recent, creators, listed,
                   history>>

Crash == Down /\ UNCHANGED marker

HostRestarts == marker /\ Down /\ marker' = FALSE

-----------------------------------------------------------------------------
Request(h) ==
    \/ \E p \in Pools, c \in Chains \cup {NoChain} :
         HandlePoolJoin(h, p, c) \/ HandlePoolLeave(h, p, c)
    \/ HandlePoolCancelJoin(h)
    \/ \E p \in Pools : getClusterEndpoint(h, p)

HandlerStep(h) ==
    \/ JoinSetPool(h) \/ JoinSetChain(h) \/ LeaveChain(h)
    \/ CancelPool(h) \/ CancelChain(h) \/ EndpointSetChain(h)

\* The steps that handlers and the reconcile pass have in common.
CheckStep(t) == ReadMember(t) \/ ReadRequest(t)
ClearStep(t) ==
    \/ ClearPool(t) \/ ClearChain(t) \/ CleanPool(t) \/ CleanChain(t)
    \/ CleanMark(t) \/ Verify(t)

StartStep ==
    \/ NeedsDiscovery \/ DiscoverPool \/ DiscoverSetPool \/ DiscoverSetChain
    \/ FetchUsersAndPopulateSets \/ FetchSetPool \/ FetchSetChain

ReconcileStep ==
    \/ ReconcilePoolConfig \/ ReconcileChain \/ RecheckPool \/ RecheckChain
    \/ MarkCleared

ChainChanges ==
    \E k \in PoolsOn :
       RequestJoin(k) \/ ApproveJoin(k) \/ RefuseJoin(k) \/ RemoveMember(k)

\* What the process does on its own; the rest is its environment.
System ==
    \/ Boot \/ StartStep \/ ReconcileStep \/ SignalRestart \/ HostRestarts
    \/ \E h \in Handlers : HandlerStep(h)
    \/ \E t \in Handlers \cup {"reconcile"} :
         CheckStep(t) \/ CheckFails(t) \/ ClearStep(t)
    \/ IntervalElapses

Next ==
    \/ System
    \/ \E h \in Handlers : Request(h)
    \/ \E p \in Pools : WapJoinPool(p)
    \/ ChainChanges
    \/ Crash

Spec == Init /\ [][Next]_vars

-----------------------------------------------------------------------------
(* Properties.                                                              *)

\* From its second "not listed" answer on, until it has dropped the pool.
ReconcileDecided ==
    th["reconcile"].step \in {"recheckPool", "recheckChain", "markCleared",
                              "clearPool"}

\* ReconcilePoolConfig acts only on a pool the device was a member of, and
\* that did not list it at some moment of this pass: neither a join request
\* approved between the two calls of ClusterPeerPoolStatus, nor a membership
\* confirmed under an earlier process, leads it to drop a pool it is still in.
ReconcileActsOnLeftMembership ==
    ReconcileDecided => /\ th["reconcile"].key \in seen
                        /\ unlisted["reconcile"]

\* ReconcilePoolConfig drops at most one pool per PoolReconcileMinInterval,
\* whatever the chains answer and wherever the process stops and restarts.
ReconcileRateLimit == clears <= 1

\* "Never clear a different pool than the one asked about" (HandlePoolLeave):
\* a leave handler's write never removes another pool from config.yaml.
LeaveClearsOnlyThePoolAsked ==
    [][\A h \in Handlers :
         th[h].op = "leave" /\ th'[h] # th[h] /\ file'.pool = NoPool
           => file.pool \in {NoPool, th[h].key[2]}]_vars

\* The configured pool and chain are a confirmed membership that the device
\* no longer has.
ConfirmedButLeft ==
    /\ up
    /\ confirmed = <<CurChain, file.pool>>
    /\ confirmed \in Keys
    /\ listed[confirmed] = "none"

\* A running device does not stay configured for a confirmed pool it has left:
\* some reconcile pass drops it, or a handler changes the config.
LeftPoolIsDropped == []<>~ConfirmedButLeft

\* Start is to "drop a pool it was a member of but has since left (e.g. from
\* the app while it was offline)": the same, whatever chain is configured.
LeftPoolIsDroppedAfterRestart ==
    []<>~(/\ confirmed \in Keys
          /\ file.pool = confirmed[2]
          /\ \A c \in Chains : listed[<<c, file.pool>>] = "none")
=============================================================================
