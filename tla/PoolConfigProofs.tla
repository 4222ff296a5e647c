-------------------------- MODULE PoolConfigProofs --------------------------
(***************************************************************************)
(* Proofs about PoolConfig for any pools, contracts, handlers and faults:  *)
(* type correctness, what a reconcile pass acts on, and its rate limit.    *)
(***************************************************************************)
EXTENDS PoolConfig, TLAPS

\* TypeOK in three parts.  A thread that is to choose a chain has a pool, and
\* one that reads a contract or records a chain has a full key: without this
\* the types are not inductive.
Pooled == {"leaveChain", "reconcileChain"}
Keyed == {"readMember", "readRequest", "endpoint"}
Plain == Steps \ (Keyed \cup Pooled)
HasKey(r) == /\ r.step \in Pooled => r.key[2] \in Pools
             /\ r.step \in Keyed => r.key \in Keys

ConfigOK == /\ file \in [pool : Pools \cup {NoPool},
                         chain : Chains \cup {NoChain, Absent}]
            /\ memChain \in Chains \cup {NoChain}

ThreadsOK == /\ th \in [Threads -> ThreadState]
             /\ \A t \in Threads : HasKey(th[t])

RestOK == /\ up \in BOOLEAN /\ ping \in BOOLEAN /\ recent \in BOOLEAN
          /\ marker \in BOOLEAN
          /\ topic \in Pools \cup {NoPool}
          /\ confirmed \in Keys \cup {NoKey}
          /\ creators \subseteq Pools
          /\ hooks \in Nat /\ clears \in Nat
          /\ listed \in [Keys -> Status]
          /\ seen \subseteq Keys
          /\ unlisted \in [Threads -> BOOLEAN]

TypeInv == ConfigOK /\ ThreadsOK /\ RestOK

(* The strengthened invariant has the types.                               *)
LEMMA TypeInvType == TypeInv => TypeOK
  BY DEF TypeInv, TypeOK, ConfigOK, ThreadsOK, RestOK

-----------------------------------------------------------------------------
(* A thread's key is a pair.                                               *)
LEMMA KeyType ==
  ASSUME TypeInv, NEW t \in Threads
  PROVE  /\ th[t].key[1] \in Chains \cup {NoChain}
         /\ th[t].key[2] \in Pools \cup {NoPool}
         /\ th[t] \in ThreadState
  BY DEF TypeInv, ThreadsOK, ThreadState

(* CurChain is a chain or none, so reading the file keeps the types.       *)
LEMMA LoadType ==
  ASSUME TypeInv
  PROVE  /\ CurChain \in Chains \cup {NoChain}
         /\ Load => ConfigOK'
         /\ updatePoolNameFails => ConfigOK'
  BY DEF TypeInv, CurChain, Load, ConfigOK, Absent, updatePoolNameFails

(* updatePoolName and updateChainName keep the types.                      *)
LEMMA UpdateType ==
  ASSUME TypeInv
  PROVE  /\ \A p \in Pools \cup {NoPool} : updatePoolName(p) => ConfigOK'
         /\ \A c \in Chains \cup {NoChain} :
              updateChainName(c) \/ updateChainNameFails(c) => ConfigOK'
  <1>1. ASSUME NEW p \in Pools \cup {NoPool}, updatePoolName(p)
        PROVE  ConfigOK'
    BY <1>1, LoadType DEF TypeInv, updatePoolName, ConfigOK
  <1>2. ASSUME NEW c \in Chains \cup {NoChain},
               updateChainName(c) \/ updateChainNameFails(c)
        PROVE  ConfigOK'
    BY <1>2, LoadType DEF TypeInv, updateChainName, updateChainNameFails, ConfigOK
  <1> QED
    BY <1>1, <1>2

(* What replacing one thread's state does.                                 *)
LEMMA ThreadUpdate ==
  ASSUME th \in [Threads -> ThreadState], NEW t \in Threads,
         NEW r \in ThreadState, th' = [th EXCEPT ![t] = r]
  PROVE  /\ th' \in [Threads -> ThreadState]
         /\ th'[t] = r
         /\ \A u \in Threads \ {t} : th'[u] = th[u]
  OBVIOUS

(* Starting a thread, moving it to a step without a contract to read, and  *)
(* ending it keep the threads' types.                                      *)
LEMMA SetType ==
  ASSUME TypeInv, NEW t \in Threads, NEW r \in ThreadState,
         HasKey(r), th' = [th EXCEPT ![t] = r]
  PROVE  ThreadsOK'
  <1>1. /\ th' \in [Threads -> ThreadState]
        /\ th'[t] = r
        /\ \A u \in Threads \ {t} : th'[u] = th[u]
    BY ThreadUpdate DEF TypeInv, ThreadsOK
  <1> QED
    BY <1>1 DEF TypeInv, ThreadsOK

LEMMA GotoType ==
  ASSUME TypeInv, NEW t \in Threads, NEW s \in Plain, Goto(t, s)
  PROVE  ThreadsOK'
  <1>1. th[t] \in ThreadState
    BY DEF TypeInv, ThreadsOK
  <1>2. [th[t] EXCEPT !.step = s] \in ThreadState
    BY <1>1 DEF ThreadState, Plain
  <1>3. [th[t] EXCEPT !.step = s].step = s
    BY <1>1 DEF ThreadState
  <1> QED
    BY <1>2, <1>3, SetType, Zenon DEF Goto, Plain, HasKey

LEMMA DoneType ==
  ASSUME TypeInv, NEW t \in Threads, Done(t)
  PROVE  ThreadsOK'
  <1>1. Idle \in ThreadState /\ HasKey(Idle)
    BY DEF Idle, ThreadState, Ops, Steps, NoKey, Keyed, Pooled, HasKey
  <1> QED
    BY <1>1, SetType, Zenon DEF Done

(* The steps that need no contract.                                        *)
LEMMA PlainSteps ==
  {"idle", "joinPool", "joinChain", "clearPool", "clearChain",
   "cleanPool", "cleanChain", "cleanMark", "verify", "cancelPool",
   "cancelChain", "start", "discover", "setPool", "setChain", "fetch",
   "fetchPool", "fetchChain", "running", "recheckPool",
   "recheckChain", "markCleared"} \subseteq Plain
  BY DEF Plain, Steps, Keyed, Pooled

LEMMA StepNames ==
  /\ {"joinPool", "leaveChain", "cleanPool", "cancelPool", "endpoint",
      "reconcileChain"} \subseteq Steps
  /\ {"join", "leave", "cancel", "endpoint", "reconcile"} \subseteq Ops
  BY DEF Steps, Ops

(* Steps that leave the config, or the threads, alone.                     *)
LEMMA Same ==
  ASSUME TypeInv
  PROVE  /\ UNCHANGED <<file, memChain>> => ConfigOK'
         /\ UNCHANGED th => ThreadsOK'
  BY DEF TypeInv, ConfigOK, ThreadsOK

(* A new thread state.                                                     *)
LEMMA BeginType ==
  ASSUME TypeInv, NEW t \in Threads, NEW op \in Ops, NEW s \in Steps,
         NEW k \in (Chains \cup {NoChain}) \X (Pools \cup {NoPool}),
         s \in Pooled => k[2] \in Pools, s \in Keyed => k \in Keys,
         Begin(t, op, s, k)
  PROVE  ThreadsOK'
  <1> DEFINE r == [op |-> op, step |-> s, key |-> k, tries |-> 0]
  <1>1. r \in ThreadState
    BY DEF ThreadState
  <1> QED
    BY <1>1, SetType, Zenon DEF Begin, HasKey

(* A check, first or further, has a full key.                              *)
LEMMA CheckType ==
  ASSUME TypeInv, NEW t \in Threads, NEW k \in Keys, NEW n \in 0..3,
         Check(t, k, n)
  PROVE  ThreadsOK'
  <1> DEFINE r == [th[t] EXCEPT !.step = "readMember", !.key = k, !.tries = n]
  <1>1. th[t] \in ThreadState
    BY KeyType
  <1>2. "readMember" \in Steps
    BY DEF Steps
  <1>3. r \in ThreadState
    BY <1>1, <1>2, Zenon DEF ThreadState, Keys
  <1>4. r.key = k /\ r.step = "readMember"
    BY <1>1 DEF ThreadState
  <1> QED
    BY <1>3, <1>4, SetType, Zenon DEF Check, HasKey, Pooled

LEMMA StartCheckType ==
  ASSUME TypeInv, NEW t \in Threads, NEW k \in Keys, StartCheck(t, k)
  PROVE  ThreadsOK' /\ unlisted' \in [Threads -> BOOLEAN]
  BY CheckType DEF StartCheck, TypeInv, RestOK

LEMMA FoundType ==
  ASSUME TypeInv, NEW k \in Keys, NEW s \in Plain, Found(k, s)
  PROVE  ThreadsOK'
  <1> DEFINE r == [th["start"] EXCEPT !.step = s, !.key = k]
  <1>1. "start" \in Threads
    BY DEF Threads
  <1>2. th["start"] \in ThreadState
    BY <1>1, KeyType
  <1>3. r \in ThreadState /\ r.step = s
    BY <1>2, Zenon DEF ThreadState, Plain, Keys
  <1> QED
    BY <1>1, <1>3, SetType, Zenon DEF Found, HasKey, Plain

(* All threads idle: the process is not running.                           *)
LEMMA IdleType ==
  ASSUME th' = [t \in Threads |-> Idle]
  PROVE  ThreadsOK'
  <1>1. Idle \in ThreadState /\ HasKey(Idle)
    BY DEF Idle, ThreadState, Ops, Steps, NoKey, Keyed, Pooled, HasKey
  <1> QED
    BY <1>1 DEF ThreadsOK

(* A step of the contracts.                                                *)
LEMMA ChainType ==
  ASSUME TypeInv, NEW k \in Keys, NEW from \in Status, NEW to \in Status,
         ChainStep(k, from, to)
  PROVE  TypeInv'
  BY DEF ChainStep, TypeInv, ConfigOK, ThreadsOK, RestOK, diskVars

LEMMA StillListedType ==
  ASSUME TypeInv, NEW t \in Threads, th[t].key \in Keys, StillListed(t)
  PROVE  ThreadsOK'
  <1>1. th[t].tries \in 0..3
    BY KeyType DEF ThreadState
  <1>2. th[t].tries < 3 => th[t].tries + 1 \in 0..3
    BY <1>1
  <1> QED
    BY <1>2, CheckType, DoneType DEF StillListed

LEMMA NotListedType ==
  ASSUME TypeInv, NEW t \in Threads, th[t].key \in Keys, NotListed(t)
  PROVE  ThreadsOK'
  BY CheckType, DoneType, GotoType, PlainSteps DEF NotListed

LEMMA ReadMemberType ==
  ASSUME TypeInv, NEW t \in Threads, ReadMember(t)
  PROVE  TypeInv'
  <1>1. th[t].step \in Keyed /\ th[t].key \in Keys
    BY DEF ReadMember, At, Keyed, HasKey, TypeInv, ThreadsOK
  <1>2. ThreadsOK'
    <2>1. ASSUME Goto(t, "readRequest") PROVE ThreadsOK'
      <3> DEFINE r == [th[t] EXCEPT !.step = "readRequest"]
      <3>1. r \in ThreadState /\ r.key = th[t].key /\ r.step = "readRequest"
        BY KeyType DEF ThreadState, Steps
      <3> QED
        BY <2>1, <3>1, <1>1, SetType, Zenon DEF Goto, HasKey, Pooled
    <2> QED
      BY <1>1, <2>1, StillListedType DEF ReadMember
  <1>3. confirmed' \in Keys \cup {NoKey}
    BY <1>1 DEF ReadMember, recordPoolMemberConfirmed, TypeInv, RestOK
  <1> QED
    BY <1>2, <1>3 DEF ReadMember, TypeInv, ConfigOK, RestOK, history

LEMMA ReadRequestType ==
  ASSUME TypeInv, NEW t \in Threads, ReadRequest(t)
  PROVE  TypeInv'
  <1>1. th[t].key \in Keys
    BY DEF ReadRequest, At, Keyed, HasKey, TypeInv, ThreadsOK
  <1>2. ThreadsOK'
    BY <1>1, StillListedType, NotListedType DEF ReadRequest
  <1> QED
    BY <1>2 DEF ReadRequest, TypeInv, ConfigOK, RestOK, diskVars, history

(* The first state of a process, and of the system.                        *)
LEMMA BootType ==
  ASSUME TypeInv, Boot
  PROVE  ThreadsOK'
  <1> DEFINE r == [Idle EXCEPT !.op = "start", !.step = "start"]
  <1>1. Idle \in ThreadState /\ HasKey(Idle)
    BY DEF Idle, ThreadState, Ops, Steps, NoKey, Keyed, Pooled, HasKey
  <1>2. "start" \in Ops /\ "start" \in Steps
    BY DEF Ops, Steps
  <1>3. r \in ThreadState /\ r.step = "start"
    BY <1>1, <1>2, Zenon DEF ThreadState
  <1>4. HasKey(r)
    BY <1>3 DEF HasKey, Keyed, Pooled
  <1> QED
    BY <1>1, <1>3, <1>4 DEF ThreadsOK, Boot

(* Every step keeps the types.                                             *)
LEMMA TypeNext == TypeInv /\ [Next]_vars => TypeInv'
  <1> SUFFICES ASSUME TypeInv, [Next]_vars PROVE TypeInv'
    OBVIOUS
  <1> USE ConstantsAssumption DEF TypeInv, RestOK, Threads, Keys,
              diskVars, history
  <1>1. ASSUME NEW h \in Handlers, NEW p \in Pools, NEW c \in Chains \cup {NoChain},
               HandlePoolJoin(h, p, c)
       PROVE  TypeInv'
    BY <1>1, BeginType, Same, StepNames DEF HandlePoolJoin, Keyed, Pooled
  <1>2. ASSUME NEW h \in Handlers, NEW p \in Pools, NEW c \in Chains \cup {NoChain},
               HandlePoolLeave(h, p, c)
       PROVE  TypeInv'
    BY <1>2, BeginType, LoadType, StepNames DEF HandlePoolLeave, Keyed,
       Pooled
  <1>3. ASSUME NEW h \in Handlers, HandlePoolCancelJoin(h)
       PROVE  TypeInv'
    BY <1>3, BeginType, Same, StepNames DEF HandlePoolCancelJoin, NoKey,
       Keyed, Pooled
  <1>4. ASSUME NEW h \in Handlers, NEW p \in Pools, getClusterEndpoint(h, p)
       PROVE  TypeInv'
    BY <1>4, BeginType, LoadType, Same, StepNames DEF getClusterEndpoint,
       saveCreatorPeerID, Chains, Pooled
  <1>5. ASSUME NEW h \in Handlers, JoinSetPool(h)
       PROVE  TypeInv'
    BY <1>5, GotoType, DoneType, LoadType, UpdateType, KeyType, PlainSteps
       DEF JoinSetPool
  <1>6. ASSUME NEW h \in Handlers, JoinSetChain(h)
       PROVE  TypeInv'
    BY <1>6, DoneType, LoadType, UpdateType, KeyType DEF JoinSetChain
  <1>7. ASSUME NEW h \in Handlers, LeaveChain(h)
       PROVE  TypeInv'
    <2>1. th[h].key[2] \in Pools
      BY <1>7 DEF LeaveChain, At, Pooled, HasKey, ThreadsOK
    <2>2. \/ \E k \in Keys : StartCheck(h, k)
          \/ Done(h) /\ UNCHANGED unlisted
      BY <1>7, <2>1, LoadType, KeyType DEF LeaveChain, discoverPoolChain,
         getChainName, Chains, Keys
    <2>3. ThreadsOK' /\ unlisted' \in [Threads -> BOOLEAN]
      BY <2>2, DoneType, StartCheckType
    <2>4. ConfigOK'
      BY <1>7, LoadType DEF LeaveChain
    <2> QED
      BY <1>7, <2>3, <2>4 DEF LeaveChain
  <1>8. ASSUME NEW h \in Handlers, CancelPool(h)
       PROVE  TypeInv'
    BY <1>8, GotoType, LoadType, UpdateType, PlainSteps DEF CancelPool
  <1>9. ASSUME NEW h \in Handlers, CancelChain(h)
       PROVE  TypeInv'
    BY <1>9, DoneType, LoadType, UpdateType, Zenon DEF CancelChain
  <1>10. ASSUME NEW h \in Handlers, EndpointSetChain(h)
       PROVE  TypeInv'
    BY <1>10, DoneType, LoadType, UpdateType, KeyType, Zenon DEF EndpointSetChain,
       saveCreatorPeerID, At, Keyed, HasKey, ThreadsOK
  <1>11. ASSUME NEW t \in Handlers \cup {"reconcile"}, ReadMember(t)
       PROVE  TypeInv'
    BY <1>11, ReadMemberType
  <1>12. ASSUME NEW t \in Handlers \cup {"reconcile"}, ReadRequest(t)
       PROVE  TypeInv'
    BY <1>12, ReadRequestType
  <1>13. ASSUME NEW t \in Handlers \cup {"reconcile"}, CheckFails(t)
       PROVE  TypeInv'
    BY <1>13, DoneType, Same DEF CheckFails
  <1>14. ASSUME NEW t \in Handlers \cup {"reconcile"}, ClearPool(t)
       PROVE  TypeInv'
    <2>1. ConfigOK'
      BY <1>14, LoadType, UpdateType DEF ClearPool
    <2>2. ThreadsOK'
      BY <1>14, GotoType, DoneType, PlainSteps DEF ClearPool
    <2>3. clears' \in Nat
      BY <1>14 DEF ClearPool
    <2> QED
      BY <1>14, <2>1, <2>2, <2>3 DEF ClearPool
  <1>15. ASSUME NEW t \in Handlers \cup {"reconcile"}, ClearChain(t)
       PROVE  TypeInv'
    BY <1>15, GotoType, DoneType, LoadType, UpdateType, PlainSteps DEF
       ClearChain
  <1>16. ASSUME NEW t \in Handlers \cup {"reconcile"}, CleanPool(t)
       PROVE  TypeInv'
    BY <1>16, GotoType, LoadType, UpdateType, PlainSteps DEF CleanPool
  <1>17. ASSUME NEW t \in Handlers \cup {"reconcile"}, CleanChain(t)
       PROVE  TypeInv'
    BY <1>17, GotoType, LoadType, UpdateType, PlainSteps DEF CleanChain
  <1>18. ASSUME NEW t \in Handlers \cup {"reconcile"}, CleanMark(t)
       PROVE  TypeInv'
    BY <1>18, GotoType, DoneType, PlainSteps, Same, Zenon DEF CleanMark, NoKey
  <1>19. ASSUME NEW t \in Handlers \cup {"reconcile"}, Verify(t)
       PROVE  TypeInv'
    BY <1>19, DoneType, LoadType DEF Verify
  <1>20. ASSUME Boot
       PROVE  TypeInv'
    BY <1>20, BootType, Zenon DEF Boot, ConfigOK
  <1>21. ASSUME NeedsDiscovery
       PROVE  TypeInv'
    BY <1>21, GotoType, LoadType, PlainSteps, Zenon DEF NeedsDiscovery
  <1>22. ASSUME DiscoverPool
       PROVE  TypeInv'
    BY <1>22, GotoType, PlainSteps, Same, FoundType, Zenon DEF DiscoverPool
  <1>23. ASSUME DiscoverSetPool
       PROVE  TypeInv'
    BY <1>23, GotoType, PlainSteps, LoadType, UpdateType, KeyType, Zenon DEF
       DiscoverSetPool
  <1>24. ASSUME DiscoverSetChain
       PROVE  TypeInv'
    BY <1>24, GotoType, PlainSteps, LoadType, UpdateType, KeyType, Zenon DEF
       DiscoverSetChain
  <1>25. ASSUME FetchSetPool
       PROVE  TypeInv'
    BY <1>25, GotoType, PlainSteps, LoadType, UpdateType, KeyType, Zenon DEF
       FetchSetPool
  <1>26. ASSUME FetchSetChain
       PROVE  TypeInv'
    BY <1>26, GotoType, PlainSteps, LoadType, UpdateType, KeyType, Zenon DEF
       FetchSetChain
  <1>27. ASSUME FetchUsersAndPopulateSets
       PROVE  TypeInv'
    BY <1>27, GotoType, LoadType, PlainSteps, FoundType, Zenon DEF
       FetchUsersAndPopulateSets, IsMember
  <1>28. ASSUME ReconcilePoolConfig
       PROVE  TypeInv'
    BY <1>28, BeginType, LoadType, StepNames, Zenon DEF ReconcilePoolConfig,
       getPoolName, ConfigOK, Keyed, Pooled
  <1>29. ASSUME ReconcileChain
       PROVE  TypeInv'
    BY <1>29, DoneType, LoadType, KeyType, StartCheckType, Zenon DEF
       ReconcileChain, getChainName, At, Pooled, HasKey, ThreadsOK
  <1>30. ASSUME RecheckPool
       PROVE  TypeInv'
    BY <1>30, DoneType, LoadType, GotoType, PlainSteps, Zenon DEF RecheckPool
  <1>31. ASSUME RecheckChain
       PROVE  TypeInv'
    BY <1>31, DoneType, LoadType, GotoType, PlainSteps, Zenon DEF RecheckChain
  <1>32. ASSUME MarkCleared
       PROVE  TypeInv'
    BY <1>32, DoneType, GotoType, PlainSteps, Same, Zenon DEF MarkCleared
  <1>33. ASSUME IntervalElapses
       PROVE  TypeInv'
    BY <1>33, Same, Zenon DEF IntervalElapses
  <1>34. ASSUME SignalRestart
       PROVE  TypeInv'
    <2>1. hooks' \in Nat
      BY <1>34 DEF SignalRestart
    <2>2. marker' \in BOOLEAN
      BY <1>34, Zenon DEF SignalRestart
    <2> QED
      BY <1>34, <2>1, <2>2, Same DEF SignalRestart
  <1>35. ASSUME HostRestarts \/ Crash
       PROVE  TypeInv'
    <2>1. Down /\ marker' \in BOOLEAN
      BY <1>35, Zenon DEF HostRestarts, Crash
    <2> QED
      BY <2>1, IdleType, Same, Zenon DEF Down
  <1>36. ASSUME NEW p \in Pools, WapJoinPool(p)
       PROVE  TypeInv'
    BY <1>36, Same DEF WapJoinPool, ConfigOK
  <1>37. ASSUME ChainChanges
       PROVE  TypeInv'
    BY <1>37, ChainType DEF Status, ChainChanges, RequestJoin, ApproveJoin,
       RefuseJoin, RemoveMember
  <1>38. CASE UNCHANGED vars
    BY <1>38, Same DEF vars
  <1> QED
    BY <1>1, <1>2, <1>3, <1>4, <1>5, <1>6, <1>7, <1>8, <1>9, <1>10, <1>11,
       <1>12, <1>13, <1>14, <1>15, <1>16, <1>17, <1>18, <1>19, <1>20, <1>21,
       <1>22, <1>23, <1>24, <1>25, <1>26, <1>27, <1>28, <1>29, <1>30, <1>31,
       <1>32, <1>33, <1>34, <1>35, <1>36, <1>37, <1>38, Zenon
    DEF Next, System, StartStep, ReconcileStep, HandlerStep, CheckStep,
        ClearStep, Request

(* The initial state has the types.                                        *)
LEMMA TypeInit == Init => TypeInv
  <1> SUFFICES ASSUME Init PROVE TypeInv
    OBVIOUS
  <1>1. Idle \in ThreadState /\ HasKey(Idle)
    BY DEF Idle, ThreadState, Ops, Steps, NoKey, Keyed, Pooled, HasKey
  <1>2. ThreadsOK
    BY <1>1 DEF Init, ThreadsOK
  <1>3. ConfigOK
    BY DEF Init, ConfigOK, Chains
  <1>4. RestOK
    BY Zenon DEF Init, RestOK, Status, NoKey
  <1> QED
    BY <1>2, <1>3, <1>4 DEF TypeInv

(* Every variable of PoolConfig keeps its type, for any pools, contracts,  *)
(* number of concurrent handlers and kinds of failure: in particular no    *)
(* handler reads a contract without a chain, and no check runs more than   *)
(* three times.                                                            *)
THEOREM TypeCorrect == Spec => []TypeOK
  <1>1. Init => TypeInv
    BY TypeInit
  <1>2. TypeInv /\ [Next]_vars => TypeInv'
    BY TypeNext
  <1>3. TypeInv => TypeOK
    BY TypeInvType
  <1> QED
    BY <1>1, <1>2, <1>3, PTL DEF Spec

-----------------------------------------------------------------------------
(* The reconcile pass.  What it knows of the membership, and what it may    *)
(* still clear, at each of its steps.                                       *)

\* The pass's own thread state, and its witness that the key was not listed.
Pass == th["reconcile"]
Witness == unlisted["reconcile"]

\* Only real memberships are recorded, and every membership is in the history.
Memberships ==
    /\ confirmed \in seen \cup {NoKey}
    /\ \A k \in Keys : listed[k] = "member" => k \in seen

\* The second check starts only for a membership that was confirmed, and a
\* pass that has read "not a member" in it has seen the key not listed: either
\* it was already, or the membership it replaced was in force meanwhile.
Evidence ==
    /\ Pass.step # "idle" => Pass.op = "reconcile"
    /\ Pass.step \in {"readMember", "readRequest"}
         => /\ Pass.tries \in {1, 2}
            /\ listed[Pass.key] = "none" => Witness
    /\ Pass.step = "readMember" /\ Pass.tries = 2
         => Pass.key \in seen /\ (Witness \/ listed[Pass.key] = "member")
    /\ Pass.step = "readRequest" /\ Pass.tries = 2
         => Pass.key \in seen /\ Witness
    /\ ReconcileDecided => Pass.key \in seen /\ Witness

\* A clear since the interval elapsed left its marker, and a pass that may
\* still clear started without one.
Limit ==
    /\ clears <= 1
    /\ clears # 0 => recent
    /\ Pass.step \in {"readMember", "readRequest", "recheckPool",
                      "recheckChain", "markCleared", "clearPool"}
         => clears = 0
    /\ Pass.step = "clearPool" => recent

ReconcileInv == Memberships /\ Evidence /\ Limit

(* The initial state.                                                      *)
LEMMA ReconcileInit == Init => ReconcileInv
  <1> SUFFICES ASSUME Init PROVE ReconcileInv
    OBVIOUS
  <1>1. Pass = Idle
    BY DEF Init, Pass, Threads
  <1>2. Pass.step = "idle"
    BY <1>1 DEF Idle
  <1> QED
    BY <1>2 DEF Init, ReconcileInv, Memberships, Evidence, Limit, ReconcileDecided, Pass

(* Steps of the other threads leave the pass where it is.                  *)
LEMMA OtherThread ==
  ASSUME TypeInv, NEW t \in Threads \ {"reconcile"}
  PROVE  /\ Done(t) => Pass' = Pass
         /\ \A s : Goto(t, s) => Pass' = Pass
         /\ \A op, s, k : Begin(t, op, s, k) => Pass' = Pass
         /\ \A k, n : Check(t, k, n) => Pass' = Pass
         /\ \A k, s : Found(k, s) => Pass' = Pass
  BY Zenon DEF TypeInv, ThreadsOK, Threads, Pass, Done, Goto, Begin, Check, Found

(* What keeps the invariant when the pass does not move.                   *)
LEMMA Frame ==
  ASSUME ReconcileInv, Pass' = Pass, Witness' = Witness,
         UNCHANGED <<listed, seen, recent, clears>>,
         confirmed' \in {confirmed, NoKey} \cup seen
  PROVE  ReconcileInv'
  BY DEF ReconcileInv, Memberships, Evidence, Limit, ReconcileDecided, Pass,
         Witness

(* The end of a pass, wherever it was.                                     *)
LEMMA PassEnds ==
  ASSUME TypeInv, ReconcileInv, Pass' = Idle,
         UNCHANGED <<listed, seen, recent, clears>>,
         confirmed' \in seen \cup {NoKey}
  PROVE  ReconcileInv'
  <1>1. Pass'.step = "idle"
    BY DEF Idle
  <1> QED
    BY <1>1 DEF ReconcileInv, Memberships, Evidence, Limit, ReconcileDecided, Pass

(* A pass that begins its first check.                                     *)
LEMMA FirstCheck ==
  ASSUME Pass'.step = "readMember", Pass'.op = "reconcile", Pass'.tries = 1,
         listed'[Pass'.key] = "none" => Witness', ~ReconcileDecided'
  PROVE  Evidence'
  BY DEF Evidence

(* What a step of the pass's own thread makes of its state.                *)
LEMMA PassMoves ==
  ASSUME TypeInv
  PROVE  /\ Done("reconcile") => Pass' = Idle
         /\ \A s : Goto("reconcile", s) =>
                     /\ Pass'.step = s /\ Pass'.op = Pass.op
                     /\ Pass'.key = Pass.key /\ Pass'.tries = Pass.tries
         /\ \A k, n : Check("reconcile", k, n) =>
                     /\ Pass'.step = "readMember" /\ Pass'.op = Pass.op
                     /\ Pass'.key = k /\ Pass'.tries = n
         /\ \A op, s, k : Begin("reconcile", op, s, k) =>
                     /\ Pass'.step = s /\ Pass'.op = op
  <1> USE DEF Pass
  <1>1. Pass \in ThreadState /\ th \in [Threads -> ThreadState]
    BY DEF TypeInv, ThreadsOK, Threads
  <1>2. "reconcile" \in Threads
    BY DEF Threads
  <1>3. Done("reconcile") => Pass' = Idle
    BY <1>1, <1>2 DEF Done
  <1>4. ASSUME NEW s, Goto("reconcile", s)
        PROVE  /\ Pass'.step = s /\ Pass'.op = Pass.op
               /\ Pass'.key = Pass.key /\ Pass'.tries = Pass.tries
    BY <1>1, <1>2, <1>4 DEF Goto, ThreadState
  <1>5. ASSUME NEW k, NEW n, Check("reconcile", k, n)
        PROVE  /\ Pass'.step = "readMember" /\ Pass'.op = Pass.op
               /\ Pass'.key = k /\ Pass'.tries = n
    BY <1>1, <1>2, <1>5 DEF Check, ThreadState
  <1>6. ASSUME NEW op, NEW s, NEW k, Begin("reconcile", op, s, k)
        PROVE  Pass'.step = s /\ Pass'.op = op
    BY <1>1, <1>2, <1>6 DEF Begin
  <1> QED
    BY <1>3, <1>4, <1>5, <1>6

(* The pass reads the chain.                                               *)
LEMMA ReadMemberEvidence ==
  ASSUME TypeInv, ReconcileInv, ReadMember("reconcile")
  PROVE  ReconcileInv'
  <1> USE DEF Pass, Witness, ReconcileInv, history
  <1>1. Pass.step = "readMember" /\ Pass.op = "reconcile" /\ Pass.key \in Keys
    BY DEF ReadMember, At, Evidence, TypeInv, ThreadsOK, HasKey, Keyed, Threads
  <1>2. CASE listed[Pass.key] = "member"
    <2>1. Done("reconcile")
      BY <1>1, <1>2, Zenon DEF ReadMember, StillListed
    <2>2. confirmed' \in seen \cup {NoKey}
      BY <1>1, <1>2 DEF ReadMember, recordPoolMemberConfirmed, Memberships
    <2> QED
      BY <2>1, <2>2, PassMoves, PassEnds DEF ReadMember
  <1>3. CASE listed[Pass.key] # "member"
    <2>1. Goto("reconcile", "readRequest") /\ UNCHANGED confirmed
      BY <1>3 DEF ReadMember
    <2>2. /\ Pass'.step = "readRequest" /\ Pass'.op = Pass.op
          /\ Pass'.key = Pass.key /\ Pass'.tries = Pass.tries
      BY <2>1, PassMoves
    <2> QED
      BY <1>1, <1>3, <2>1, <2>2
      DEF ReadMember, Memberships, Evidence, Limit, ReconcileDecided
  <1> QED
    BY <1>2, <1>3

LEMMA ReadRequestEvidence ==
  ASSUME TypeInv, ReconcileInv, ReadRequest("reconcile")
  PROVE  ReconcileInv'
  <1> USE DEF Pass, Witness, ReconcileInv, history, diskVars
  <1>1. /\ Pass.step = "readRequest" /\ Pass.op = "reconcile"
        /\ Pass.key \in Keys /\ Pass.tries \in {1, 2}
    BY DEF ReadRequest, At, Evidence, TypeInv, ThreadsOK, HasKey, Keyed, Threads
  <1>2. CASE Done("reconcile")
    BY <1>2, PassMoves, PassEnds, Zenon DEF ReadRequest, Memberships
  <1>3. CASE Pass.tries = 2 /\ Goto("reconcile", "recheckPool")
    <2>1. /\ Pass'.step = "recheckPool" /\ Pass'.op = Pass.op
          /\ Pass'.key = Pass.key
      BY <1>3, PassMoves, Zenon
    <2> QED
      BY <1>1, <1>3, <2>1, Zenon
      DEF ReadRequest, Memberships, Evidence, Limit, ReconcileDecided
  <1>4. CASE /\ confirmed = Pass.key /\ listed[Pass.key] # "pending"
             /\ Check("reconcile", Pass.key, 2)
    <2>1. /\ Pass'.step = "readMember" /\ Pass'.op = Pass.op
          /\ Pass'.key = Pass.key /\ Pass'.tries = 2
      BY <1>4, PassMoves
    <2>2. listed[Pass.key] \in {"none", "member"}
      BY <1>1, <1>4 DEF TypeInv, RestOK, Status
    <2>3. Pass.key \in seen
      BY <1>1, <1>4 DEF Memberships, NoKey, NoChain, Keys, Chains
    <2> QED
      BY <1>1, <2>1, <2>2, <2>3, Zenon
      DEF ReadRequest, Memberships, Evidence, Limit, ReconcileDecided
  <1> QED
    BY <1>1, <1>2, <1>3, <1>4 DEF ReadRequest, StillListed, NotListed
LEMMA PassGoto ==
  ASSUME TypeInv, NEW s, Goto("reconcile", s)
  PROVE  Pass'.step = s /\ Pass'.op = Pass.op /\ Pass'.key = Pass.key
  BY PassMoves

(* The pass clears.                                                        *)
LEMMA PassClears ==
  ASSUME TypeInv, ReconcileInv, ClearStep("reconcile")
  PROVE  ReconcileInv'
  <1> USE DEF Pass, Witness, ReconcileInv, history
  <1>1. Pass.step # "idle" /\ Pass.op = "reconcile"
    BY Zenon DEF ClearStep, ClearPool, ClearChain, CleanPool, CleanChain, CleanMark,
           Verify, At, Evidence
  <1>2. CASE ClearPool("reconcile")
    <2>1. clears = 0 /\ recent
      BY <1>2 DEF ClearPool, At, Limit
    <2>2. CASE Goto("reconcile", "clearChain") /\ clears' = clears + 1
      <3>1. Pass'.step = "clearChain" /\ Pass'.op = "reconcile"
        BY <1>1, <2>2, PassMoves
      <3>2. Memberships'
        BY <1>2 DEF ClearPool, Memberships
      <3>3. Evidence'
        BY <3>1 DEF Evidence, ReconcileDecided
      <3>4. Limit'
        BY <1>2, <2>1, <2>2, <3>1 DEF ClearPool, Limit
      <3> QED
        BY <3>2, <3>3, <3>4
    <2>3. CASE Done("reconcile") /\ UNCHANGED clears
      BY <1>2, <2>3, PassMoves, PassEnds DEF ClearPool, Memberships
    <2> QED
      BY <1>2, <2>2, <2>3 DEF ClearPool
  <1>3. ASSUME UNCHANGED <<listed, seen, unlisted, recent, clears>>,
               confirmed' \in {confirmed, NoKey},
               \/ Done("reconcile")
               \/ \E s \in {"cleanPool", "cleanChain", "cleanMark", "verify"} :
                     Goto("reconcile", s)
        PROVE  ReconcileInv'
    <2>1. CASE Done("reconcile")
      BY <1>3, <2>1, PassMoves, PassEnds DEF Memberships
    <2>2. ASSUME NEW s \in {"cleanPool", "cleanChain", "cleanMark", "verify"},
                 Goto("reconcile", s)
          PROVE  ReconcileInv'
      <3>1. Pass'.step = s /\ Pass'.op = "reconcile"
        BY <1>1, <2>2, PassGoto
      <3>2. Memberships'
        BY <1>3 DEF Memberships
      <3>3. Evidence'
        BY <3>1 DEF Evidence, ReconcileDecided
      <3>4. Limit'
        BY <1>3, <3>1 DEF Limit
      <3> QED
        BY <3>2, <3>3, <3>4
    <2> QED
      BY <1>3, <2>1, <2>2
  <1> QED
    BY <1>1, <1>2, <1>3, Zenon
    DEF ClearStep, ClearChain, CleanPool, CleanChain, CleanMark, Verify

(* The other steps of the pass.                                            *)
LEMMA PassSteps ==
  ASSUME TypeInv, ReconcileInv, ReconcileStep \/ CheckFails("reconcile")
  PROVE  ReconcileInv'
  <1> USE DEF Pass, Witness, ReconcileInv, history, diskVars
  <1>1. CASE ReconcilePoolConfig
    <2>1. Pass'.step = "reconcileChain" /\ Pass'.op = "reconcile"
      BY <1>1, PassMoves DEF ReconcilePoolConfig
    <2>2. Memberships'
      BY <1>1 DEF ReconcilePoolConfig, Memberships
    <2>3. Evidence'
      BY <2>1 DEF Evidence, ReconcileDecided
    <2>4. Limit'
      BY <1>1, <2>1 DEF ReconcilePoolConfig, Limit
    <2> QED
      BY <2>2, <2>3, <2>4
  <1>2. CASE ReconcileChain
    <2>1. CASE Done("reconcile")
      BY <1>2, <2>1, PassMoves, PassEnds DEF ReconcileChain, Memberships
    <2>2. CASE ~recent /\ StartCheck("reconcile", <<getChainName, Pass.key[2]>>)
      <3>1. clears = 0
        BY <2>2 DEF Limit, TypeInv, RestOK
      <3>2. Pass.op = "reconcile"
        BY <1>2 DEF ReconcileChain, At, Evidence
      <3>3. Witness' = (listed[<<getChainName, Pass.key[2]>>] = "none")
        BY <2>2 DEF StartCheck, TypeInv, RestOK, Threads
      <3>4. /\ Pass'.step = "readMember" /\ Pass'.op = "reconcile"
            /\ Pass'.key = <<getChainName, Pass.key[2]>> /\ Pass'.tries = 1
        BY <2>2, <3>2, PassMoves DEF StartCheck
      <3>5. listed'[Pass'.key] = "none" => Witness'
        BY <1>2, <3>3, <3>4, Zenon DEF ReconcileChain
      <3>6. Memberships'
        BY <1>2 DEF ReconcileChain, Memberships
      <3>7. Limit'
        BY <1>2, <3>1, <3>4 DEF ReconcileChain, Limit
      <3>8. ~ReconcileDecided'
        BY <3>4 DEF ReconcileDecided
      <3>9. Evidence'
        BY <3>4, <3>5, <3>8, FirstCheck
      <3> QED
        BY <3>6, <3>7, <3>9
    <2> QED
      BY <1>2, <2>1, <2>2 DEF ReconcileChain
  <1>3. ASSUME RecheckPool \/ RecheckChain \/ MarkCleared
        PROVE  ReconcileInv'
    <2>1. ReconcileDecided /\ Pass.step # "idle"
      BY <1>3 DEF RecheckPool, RecheckChain, MarkCleared, At, ReconcileDecided
    <2>2. CASE Done("reconcile") /\ UNCHANGED recent
      BY <1>3, <2>2, PassMoves, PassEnds, Zenon
      DEF RecheckPool, RecheckChain, MarkCleared, Memberships
    <2>3. CASE /\ \/ Goto("reconcile", "recheckChain") /\ UNCHANGED recent
                  \/ Goto("reconcile", "markCleared") /\ UNCHANGED recent
                  \/ Goto("reconcile", "clearPool") /\ recent' = TRUE
      <3>1. clears = 0
        BY <1>3, Zenon DEF RecheckPool, RecheckChain, MarkCleared, At, Limit
      <3>2. /\ Pass'.step \in {"recheckChain", "markCleared", "clearPool"}
            /\ Pass'.op = Pass.op /\ Pass'.key = Pass.key
        BY <2>3, PassGoto
      <3>3. Pass'.step = "clearPool" => recent'
        <4>1. Goto("reconcile", "recheckChain") \/ Goto("reconcile", "markCleared")
                => Pass'.step # "clearPool"
          BY PassGoto
        <4> QED
          BY <2>3, <4>1, Zenon
      <3>4. /\ UNCHANGED <<listed, seen, confirmed, clears>>
            /\ Witness' = Witness
        BY <1>3 DEF RecheckPool, RecheckChain, MarkCleared
      <3>5. Memberships'
        BY <3>4 DEF Memberships
      <3>6. Evidence'
        BY <2>1, <3>2, <3>4 DEF Evidence, ReconcileDecided
      <3>7. Limit'
        BY <3>1, <3>2, <3>3, <3>4 DEF Limit
      <3> QED
        BY <3>5, <3>6, <3>7
    <2> QED
      BY <1>3, <2>2, <2>3, Zenon DEF RecheckPool, RecheckChain, MarkCleared
  <1>4. CASE CheckFails("reconcile")
    BY <1>4, PassMoves, PassEnds DEF CheckFails, Memberships
  <1> QED
    BY <1>1, <1>2, <1>3, <1>4 DEF ReconcileStep

(* The contracts move.                                                     *)
LEMMA ChainEvidence ==
  ASSUME TypeInv, ReconcileInv, NEW k \in Keys, NEW from \in Status,
         NEW to \in Status, from = "member" => to = "none",
         ChainStep(k, from, to)
  PROVE  ReconcileInv'
  <1> USE DEF Pass, Witness, ReconcileInv
  <1>1. /\ Witness' = (Witness \/ (Pass.key = k /\ to = "none"))
        /\ Pass' = Pass
        /\ listed'[k] = to
        /\ \A j \in Keys \ {k} : listed'[j] = listed[j]
        /\ seen \subseteq seen' /\ (to = "member" => k \in seen')
        /\ UNCHANGED <<confirmed, recent, clears>>
    BY DEF ChainStep, TypeInv, RestOK, Threads, diskVars
  <1>2. Memberships'
    BY <1>1, Zenon DEF Memberships
  <1>3. Limit'
    BY <1>1, Zenon DEF Limit
  <1>4. Pass.step \in {"readMember", "readRequest"} => Pass.key \in Keys
    BY DEF TypeInv, ThreadsOK, HasKey, Keyed, Threads
  <1>5. Pass.step \in {"readMember", "readRequest"}
          => (listed'[Pass.key] = "none" => Witness')
    BY <1>1, <1>4, Zenon DEF Evidence, ReconcileDecided
  <1>6. Pass.step = "readMember" /\ Pass.tries = 2
          => Pass.key \in seen' /\ (Witness' \/ listed'[Pass.key] = "member")
    <2>1. listed[k] = from
      BY DEF ChainStep
    <2> QED
      BY <1>1, <1>4, <2>1, Zenon DEF Evidence
  <1>7. /\ Pass.step = "readRequest" /\ Pass.tries = 2
            => Pass.key \in seen' /\ Witness'
        /\ ReconcileDecided => Pass.key \in seen' /\ Witness'
    BY <1>1, Zenon DEF Evidence
  <1>8. Evidence'
    BY <1>1, <1>5, <1>6, <1>7 DEF Evidence, ReconcileDecided
  <1> QED
    BY <1>2, <1>3, <1>8

(* Every step keeps the invariant of the pass.                             *)
LEMMA ReconcileNext ==
  TypeInv /\ ReconcileInv /\ [Next]_vars => ReconcileInv'
  <1> SUFFICES ASSUME TypeInv, ReconcileInv, [Next]_vars PROVE ReconcileInv'
    OBVIOUS
  <1> USE HandlersAssumption DEF Threads, Pass, Witness, history, diskVars
  <1>1. ASSUME NEW h \in Handlers, NEW p \in Pools,
               NEW c \in Chains \cup {NoChain}, HandlePoolJoin(h, p, c)
       PROVE  ReconcileInv'
    BY <1>1, OtherThread, Frame, Zenon DEF HandlePoolJoin
  <1>2. ASSUME NEW h \in Handlers, NEW p \in Pools,
               NEW c \in Chains \cup {NoChain}, HandlePoolLeave(h, p, c)
       PROVE  ReconcileInv'
    BY <1>2, OtherThread, Frame, Zenon DEF HandlePoolLeave
  <1>3. ASSUME NEW h \in Handlers, HandlePoolCancelJoin(h)
       PROVE  ReconcileInv'
    BY <1>3, OtherThread, Frame, Zenon DEF HandlePoolCancelJoin
  <1>4. ASSUME NEW h \in Handlers, NEW p \in Pools, getClusterEndpoint(h, p)
       PROVE  ReconcileInv'
    BY <1>4, OtherThread, Frame, Zenon DEF getClusterEndpoint
  <1>5. ASSUME NEW h \in Handlers, HandlerStep(h)
       PROVE  ReconcileInv'
    BY <1>5, OtherThread, Frame, Zenon DEF HandlerStep, JoinSetPool, JoinSetChain,
       LeaveChain, StartCheck, CancelPool, CancelChain, EndpointSetChain,
       TypeInv, RestOK
  <1>6. ASSUME NEW h \in Handlers, CheckStep(h)
       PROVE  ReconcileInv'
    <2>1. Pass' = Pass
      BY <1>6, OtherThread, Zenon
      DEF CheckStep, ReadMember, ReadRequest, StillListed, NotListed
    <2>2. confirmed' \in {confirmed, NoKey} \cup seen
      BY <1>6, Zenon DEF CheckStep, ReadMember, ReadRequest, At, ReconcileInv,
         recordPoolMemberConfirmed, Memberships, TypeInv, ThreadsOK, HasKey, Keyed
    <2> QED
      BY <1>6, <2>1, <2>2, Frame, Zenon DEF CheckStep, ReadMember, ReadRequest
  <1>7. ASSUME NEW h \in Handlers, CheckFails(h)
       PROVE  ReconcileInv'
    BY <1>7, OtherThread, Frame, Zenon DEF CheckFails
  <1>8. ASSUME NEW h \in Handlers, ClearStep(h)
       PROVE  ReconcileInv'
    BY <1>8, OtherThread, Frame, Zenon DEF ClearStep, ClearPool, ClearChain,
       CleanPool, CleanChain, CleanMark, Verify
  <1>9. ASSUME StartStep
       PROVE  ReconcileInv'
    <2>1. "start" \in Threads \ {"reconcile"}
      OBVIOUS
    <2>2. /\ \A s : Goto("start", s) => Pass' = Pass
          /\ \A k, s : Found(k, s) => Pass' = Pass
      BY <2>1, OtherThread
    <2>3. Pass' = Pass
      BY <1>9, <2>2, Zenon
      DEF StartStep, NeedsDiscovery, DiscoverPool, DiscoverSetPool,
          DiscoverSetChain, FetchUsersAndPopulateSets, FetchSetPool, FetchSetChain
    <2> QED
      BY <1>9, <2>3, Frame, Zenon
      DEF StartStep, NeedsDiscovery, DiscoverPool, DiscoverSetPool,
          DiscoverSetChain, FetchUsersAndPopulateSets, FetchSetPool, FetchSetChain
  <1>10. CASE ReadMember("reconcile") \/ ReadRequest("reconcile")
    BY <1>10, ReadMemberEvidence, ReadRequestEvidence
  <1>11. CASE ReconcileStep \/ CheckFails("reconcile")
    BY <1>11, PassSteps
  <1>12. CASE ClearStep("reconcile")
    BY <1>12, PassClears
  <1>13. CASE Boot \/ Down
    <2>1. Pass' = Idle
      BY <1>13 DEF Boot, Down
    <2> QED
      BY <1>13, <2>1, PassEnds DEF Boot, Down, ReconcileInv, Memberships
  <1>14. CASE IntervalElapses
    <2>1. Pass' = Pass /\ Pass.step = "idle" /\ clears' = 0
      BY <1>14 DEF IntervalElapses
    <2>2. Memberships' /\ Evidence'
      BY <1>14, <2>1, Zenon DEF IntervalElapses, ReconcileInv, Memberships, Evidence,
                         ReconcileDecided
    <2>3. Limit'
      BY <2>1 DEF Limit
    <2> QED
      BY <2>2, <2>3 DEF ReconcileInv
  <1>15. CASE SignalRestart \/ UNCHANGED vars
    BY <1>15, Frame DEF SignalRestart, vars
  <1>16. ASSUME NEW p \in Pools, WapJoinPool(p)
       PROVE  ReconcileInv'
    BY <1>16, Frame DEF WapJoinPool
  <1>17. CASE ChainChanges
    BY <1>17, ChainEvidence, ConstantsAssumption
    DEF ChainChanges, RequestJoin, ApproveJoin, RefuseJoin, RemoveMember, Status
  <1> QED
    BY <1>1, <1>2, <1>3, <1>4, <1>5, <1>6, <1>7, <1>8, <1>9, <1>10, <1>11,
       <1>12, <1>13, <1>14, <1>15, <1>16, <1>17
    DEF Next, System, CheckStep, Request, HostRestarts, Crash

(* The invariants of the pass hold together with the types.                *)
LEMMA ReconcileAlways == Spec => [](TypeInv /\ ReconcileInv)
  <1>1. Init => TypeInv /\ ReconcileInv
    BY TypeInit, ReconcileInit
  <1>2. TypeInv /\ ReconcileInv /\ [Next]_vars => TypeInv' /\ ReconcileInv'
    BY TypeNext, ReconcileNext
  <1> QED
    BY <1>1, <1>2, PTL DEF Spec

(* ReconcilePoolConfig only ever drops a pool that the device was a member *)
(* of and that did not list it at some moment of the pass, however the     *)
(* chain moves between its reads, whatever the other handlers do and       *)
(* wherever the process stops.                                             *)
THEOREM ReconcileSound == Spec => []ReconcileActsOnLeftMembership
  <1>1. ReconcileInv => ReconcileActsOnLeftMembership
    BY DEF ReconcileInv, Evidence, Pass, Witness, ReconcileActsOnLeftMembership
  <1> QED
    BY <1>1, ReconcileAlways, PTL

(* ReconcilePoolConfig drops at most one pool per interval.                *)
THEOREM ReconcileLimited == Spec => []ReconcileRateLimit
  <1>1. ReconcileInv => ReconcileRateLimit
    BY DEF ReconcileInv, Limit, ReconcileRateLimit
  <1> QED
    BY <1>1, ReconcileAlways, PTL
=============================================================================
