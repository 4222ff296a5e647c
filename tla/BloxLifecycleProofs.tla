------------------------ MODULE BloxLifecycleProofs ------------------------
(***************************************************************************)
(* Proofs about BloxLifecycle, for any connections and any blocks: the     *)
(* datastore is closed behind the last request, and a tick of the six-hour *)
(* loop puts behind its stamp only what it has dealt with.                 *)
(***************************************************************************)
EXTENDS BloxLifecycle, TLAPS

-----------------------------------------------------------------------------
(* The datastore.                                                          *)

InUse == {"action", "chat", "ping"}
Down == {"waiting", "draining", "exited"}

\* A server that Shutdown has closed accepts nothing; Shutdown passes a server
\* when its requests are over, so the requests of a closed server stay over.
ClosingInv ==
  /\ conn \in [Conns -> {"none", "action", "chat", "ping", "over"}]
  /\ listening \subseteq {"proxy", "ping"}
  /\ main \in {"pingDown", "proxyDown"} \cup Down => "ping" \notin listening
  /\ main \in {"proxyDown"} \cup Down => "proxy" \notin listening
  /\ main \in {"proxyDown"} \cup Down => Active({"ping"}) = {}
  /\ main \in Down => Active(InUse) = {}
  /\ dsClosed => main \in Down

LEMMA ClosingInit == BloxInit => ClosingInv
  BY DEF BloxInit, ClosingInv, Down

\* The wait for the requests of both servers has ended.
LEMMA AllOver ==
  ASSUME ClosingInv, Active({"ping"}) = {}, Active({"action", "chat"}) = {}
  PROVE  Active(InUse) = {}
  BY DEF Active, InUse

LEMMA ClosingStep == ClosingInv /\ [BloxNext]_bloxVars => ClosingInv'
  <1> SUFFICES ASSUME ClosingInv, [BloxNext]_bloxVars PROVE ClosingInv'
    OBVIOUS
  <1> USE DEF ClosingInv, Down
  <1>1. CASE StartFails
    BY <1>1 DEF StartFails, Active, InUse
  <1>2. CASE StartProxy \/ StartPingProxy \/ StartReturns
    <2>1. main' \in {"proxied", "started", "running"} /\ main \notin Down
      BY <1>2 DEF StartProxy, StartPingProxy, StartReturns
    <2>2. conn' = conn /\ dsClosed' = dsClosed /\ listening' \subseteq {"proxy", "ping"}
      BY <1>2, Zenon DEF StartProxy, StartPingProxy, StartReturns
    <2>3. ~dsClosed'
      BY <2>1, <2>2, Zenon
    <2> QED
      BY <2>1, <2>2, <2>3
  <1>3. CASE Signal
    BY <1>3 DEF Signal, Active, InUse
  <1>4. CASE ShutdownPingProxy \/ ShutdownProxy
    <2>1. main \notin Down /\ dsClosed' = dsClosed
      BY <1>4 DEF ShutdownPingProxy, ShutdownProxy
    <2>2. ~dsClosed'
      BY <2>1, Zenon
    <2>3. CASE ShutdownPingProxy
      BY <2>2, <2>3 DEF ShutdownPingProxy
    <2>4. CASE ShutdownProxy
      BY <2>2, <2>4 DEF ShutdownProxy, Active
    <2> QED
      BY <1>4, <2>3, <2>4
  <1>5. CASE ShutdownFails \/ CloseDatastore
    <2>1. Active(InUse) = {}
      BY <1>5, AllOver DEF ShutdownFails, CloseDatastore
    <2>2. conn' = conn /\ listening' = listening /\ main' \in Down
      BY <1>5 DEF ShutdownFails, CloseDatastore
    <2>3. Active({"ping"}) = {} /\ listening = {}
      BY <1>5 DEF ShutdownFails, CloseDatastore
    <2> QED
      BY <2>1, <2>2, <2>3 DEF Active
  <1>6. CASE ShutdownReturns \/ ProcessExits
    BY <1>6, Zenon DEF ShutdownReturns, ProcessExits, Active, InUse
  <1>7. ASSUME NEW r \in Conns, Accepts(r) PROVE ClosingInv'
    <2>1. main \notin Down /\ (main = "proxyDown" => FALSE)
      BY <1>7 DEF Accepts
    <2>2. main' = main /\ listening' = listening /\ dsClosed' = dsClosed
      BY <1>7 DEF Accepts, runVars
    <2>3. conn' \in [Conns -> {"none", "action", "chat", "ping", "over"}]
      BY <1>7 DEF Accepts
    <2>4. ~dsClosed'
      BY <2>1, <2>2, Zenon
    <2> QED
      BY <2>1, <2>2, <2>3, <2>4
  <1>8. ASSUME NEW r \in Conns, Serves(r) PROVE ClosingInv'
    BY <1>8 DEF Serves, runVars, Active, InUse
  <1>9. CASE FetchCheckEnds \/ WatchEnds \/ ReconcileEnds \/ LoopEnds
             \/ \E s \in {"proxy", "ping"} : ServeEnds(s)
    <2>1. UNCHANGED <<main, listening, dsClosed, conn>>
      BY <1>9 DEF FetchCheckEnds, WatchEnds, ReconcileEnds, LoopEnds, ServeEnds
    <2> QED
      BY <2>1 DEF Active
  <1>10. CASE TickFires \/ TickStep \/ \E b \in Blocks : KuboStores(b)
    <2>1. UNCHANGED <<runVars, conn>>
      BY <1>10 DEF TickFires, TickStep, GetLastCheckedTime, NoPool, ListModifiedStoredBlocks,
         ListingFails, WalksDir, LinksCollected, UpdateLastCheckedTime, KuboStores
    <2> QED
      BY <2>1 DEF runVars, Active, InUse
  <1>11. CASE StopPingServer
    BY <1>11 DEF StopPingServer, Active
  <1>12. CASE UNCHANGED bloxVars
    BY <1>12 DEF bloxVars, runVars, Active, InUse
  <1> QED
    BY <1>1, <1>2, <1>3, <1>4, <1>5, <1>6, <1>7, <1>8, <1>9, <1>10, <1>11, <1>12
       DEF BloxNext, ShutdownStep

\* The datastore is closed, and the process gone, behind the last request: for
\* any number of connections, whatever they are used for.
THEOREM StoreClosesLast == BloxSpec => []DatastoreClosesLast
  <1>1. ClosingInv => DatastoreClosesLast
    BY DEF ClosingInv, DatastoreClosesLast, Down, InUse
  <1> QED
    BY <1>1, ClosingInit, ClosingStep, PTL DEF BloxSpec

-----------------------------------------------------------------------------
(* The six-hour loop.                                                      *)

\* What a tick still has to deal with before it may stamp: while it walks, the
\* new blocks it has neither listed nor skipped are in directories still to
\* walk, and when it is about to stamp there are none.
TickInv ==
  /\ block \in [Blocks -> {"absent", "new", "old"}]
  /\ tick # "walking" => dirs = {}
  /\ tick = "walking" => \A b \in Blocks : block[b] = "new" => b \in dirs \cup listed \cup skipped
  /\ tick = "stamping" => \A b \in Blocks : block[b] = "new" => b \in listed \cup skipped
  /\ ListedOrSkipped

LEMMA TickInit == BloxInit => TickInv
  BY DEF BloxInit, TickInv, ListedOrSkipped

LEMMA TickKeeps == TickInv /\ [BloxNext]_bloxVars => TickInv'
  <1> SUFFICES ASSUME TickInv, [BloxNext]_bloxVars PROVE TickInv'
    OBVIOUS
  <1> USE DEF TickInv, ListedOrSkipped
  <1>1. CASE UNCHANGED tickVars
    BY <1>1 DEF tickVars
  <1>2. CASE TickFires \/ GetLastCheckedTime \/ ListingFails
    BY <1>2 DEF TickFires, GetLastCheckedTime, ListingFails
  <1>3. CASE NoPool
    BY <1>3 DEF NoPool, New
  <1>4. CASE ListModifiedStoredBlocks
    BY <1>4 DEF ListModifiedStoredBlocks, New
  <1>5. ASSUME NEW b \in Blocks, WalksDir(b) PROVE TickInv'
    BY <1>5 DEF WalksDir
  <1>6. CASE LinksCollected
    BY <1>6 DEF LinksCollected
  <1>7. CASE UpdateLastCheckedTime
    BY <1>7 DEF UpdateLastCheckedTime
  <1>8. ASSUME NEW b \in Blocks, KuboStores(b) PROVE TickInv'
    BY <1>8 DEF KuboStores
  <1>9. CASE StartFails \/ StartProxy \/ StartPingProxy \/ StartReturns \/ Signal \/ ShutdownStep
    <2>1. UNCHANGED tickVars
      BY <1>9 DEF StartFails, StartProxy, StartPingProxy, StartReturns, Signal, ShutdownStep,
         ShutdownPingProxy, ShutdownProxy, ShutdownFails, CloseDatastore, ShutdownReturns,
         ProcessExits
    <2> QED
      BY <2>1, <1>1
  <1>10. CASE \/ FetchCheckEnds \/ WatchEnds \/ ReconcileEnds \/ LoopEnds
              \/ \E s \in {"proxy", "ping"} : ServeEnds(s)
              \/ \E r \in Conns : Accepts(r) \/ Serves(r)
              \/ StopPingServer
    <2>1. UNCHANGED tickVars
      BY <1>10 DEF FetchCheckEnds, WatchEnds, ReconcileEnds, LoopEnds, ServeEnds, Accepts, Serves,
         StopPingServer
    <2> QED
      BY <2>1, <1>1
  <1>11. CASE UNCHANGED bloxVars
    BY <1>11, <1>1 DEF bloxVars
  <1> QED
    BY <1>2, <1>3, <1>4, <1>5, <1>6, <1>7, <1>8, <1>9, <1>10, <1>11 DEF BloxNext, TickStep

\* No block falls behind the stamp unlisted, unless a tick had no chance to list
\* it: for any number of blocks, whenever kubo stores them.
THEOREM NoneForgotten == BloxSpec => []ListedOrSkipped
  <1>1. TickInv => ListedOrSkipped
    BY DEF TickInv
  <1> QED
    BY <1>1, TickInit, TickKeeps, PTL DEF BloxSpec
=============================================================================
