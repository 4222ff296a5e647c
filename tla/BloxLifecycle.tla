--------------------------- MODULE BloxLifecycle ---------------------------
(***************************************************************************)
(* One run of the blox process: main starts the blox, the blox starts its  *)
(* two servers and its background goroutines, a signal shuts it down, and  *)
(* main leaves once the wait group it shares with all of them is empty.    *)
(*                                                                         *)
(* Two contexts are involved: main's (ctxDone), which main cancels after   *)
(* Shutdown has returned, and the blox's own (ownDone), which Shutdown     *)
(* cancels first.  The kubo watcher and the first pool reconcile listen    *)
(* only to main's, so Shutdown's wait for the group ends with its twenty   *)
(* second timeout, and main's own wait collects them.                      *)
(*                                                                         *)
(* The six-hour loop is modelled with what it is for: listing the blocks   *)
(* stored since the previous tick.  A block is "new" while its file is     *)
(* younger than the stamp file and "old" once a stamp is younger than it.  *)
(* The IPFS server on port 5001 is left out: main never asks for it.       *)
(***************************************************************************)
EXTENDS Naturals, FiniteSets

CONSTANTS
  Conns,        \* connections with one request each, to the proxy or the ping port
  Blocks,       \* block files, each in a directory of its own
  PoolHost      \* whether the blox runs in pool host mode

ASSUME BloxAssumption ==
  /\ IsFiniteSet(Conns)
  /\ IsFiniteSet(Blocks)
  /\ PoolHost \in BOOLEAN

VARIABLES
  main,         \* where main and the Shutdown it calls stand
  group,        \* the goroutines counted by the wait group
  ctxDone,      \* main's context is cancelled
  ownDone,      \* the blox's context is cancelled
  stopFetch,    \* fetchCheckStop is closed
  listening,    \* the servers that accept connections
  conn,         \* what each connection is used for
  dsClosed,     \* the datastore is closed
  tick,         \* where the six-hour loop stands
  dirs,         \* the modified directories still being walked
  block,        \* the age of each block's file
  listed,       \* the blocks some tick has listed
  skipped       \* blocks a tick had no chance to list (ghost)

runVars == <<main, group, ctxDone, ownDone, stopFetch, listening, dsClosed>>
tickVars == <<tick, dirs, block, listed, skipped>>
bloxVars == <<runVars, conn, tickVars>>

Active(s) == {r \in Conns : conn[r] \in s}

New == {b \in Blocks : block[b] = "new"}

BloxTypeOK ==
  /\ main \in {"new", "proxied", "started", "running", "signalled", "pingDown",
               "proxyDown", "waiting", "draining", "exited"}
  /\ group \subseteq {"fetch", "proxy", "ping", "watch", "reconcile", "loop"}
  /\ listening \subseteq {"proxy", "ping"}
  /\ conn \in [Conns -> {"none", "action", "chat", "ping", "over"}]
  /\ {ctxDone, ownDone, stopFetch, dsClosed} \subseteq BOOLEAN
  /\ tick \in {"idle", "reconciled", "pooled", "walking", "stamping"}
  /\ block \in [Blocks -> {"absent", "new", "old"}]
  /\ {dirs, listed, skipped} \subseteq SUBSET Blocks

\* New has started the fetch ticker before main calls Start.
BloxInit ==
  /\ main = "new"
  /\ group = {"fetch"}
  /\ ctxDone = FALSE /\ ownDone = FALSE /\ stopFetch = FALSE /\ dsClosed = FALSE
  /\ listening = {}
  /\ conn = [r \in Conns |-> "none"]
  /\ tick = "idle"
  /\ dirs = {}
  /\ block = [b \in Blocks |-> "absent"]
  /\ listed = {}
  /\ skipped = {}

-----------------------------------------------------------------------------
(* Start.                                                                  *)

\* The bind of a port fails and main returns the error, or a signal comes
\* before main handles signals: the process ends.
StartFails ==
  /\ main \in {"new", "proxied", "started"}
  /\ main' = "exited"
  /\ ctxDone' = TRUE
  /\ group' = {}
  /\ listening' = {}
  /\ conn' = [r \in Conns |-> "over"]
  /\ UNCHANGED <<ownDone, stopFetch, dsClosed, tickVars>>

StartProxy ==
  /\ main = "new"
  /\ main' = "proxied"
  /\ listening' = listening \union {"proxy"}
  /\ group' = group \union {"proxy"}
  /\ UNCHANGED <<ctxDone, ownDone, stopFetch, dsClosed, conn, tickVars>>

StartPingProxy ==
  /\ main = "proxied"
  /\ main' = "started"
  /\ listening' = listening \union {"ping"}
  /\ group' = group \union {"ping"}
  /\ UNCHANGED <<ctxDone, ownDone, stopFetch, dsClosed, conn, tickVars>>

\* The rest of Start; what it does to kubo is KuboWatchdog's, what it does to
\* the pool configuration PoolConfig's.
StartReturns ==
  /\ main = "started"
  /\ main' = "running"
  /\ group' = group \union {"watch"} \union (IF PoolHost THEN {} ELSE {"reconcile", "loop"})
  /\ UNCHANGED <<ctxDone, ownDone, stopFetch, listening, dsClosed, conn, tickVars>>

-----------------------------------------------------------------------------
(* The servers.                                                            *)

Accepts(r) ==
  /\ conn[r] = "none"
  /\ \E k \in (IF "proxy" \in listening THEN {"action", "chat"} ELSE {})
                \union (IF "ping" \in listening THEN {"ping"} ELSE {}) :
       conn' = [conn EXCEPT ![r] = k]
  /\ UNCHANGED <<runVars, tickVars>>

Serves(r) ==
  /\ conn[r] \in {"action", "chat", "ping"}
  /\ conn' = [conn EXCEPT ![r] = "over"]
  /\ UNCHANGED <<runVars, tickVars>>

\* A pool that is left or found left, by a request or by a reconcile pass, stops the
\* ping server for the rest of the run.
StopPingServer ==
  /\ "ping" \in listening
  /\ Active({"action"}) # {} \/ "reconcile" \in group \/ tick = "reconciled"
  /\ listening' = listening \ {"ping"}
  /\ UNCHANGED <<main, group, ctxDone, ownDone, stopFetch, dsClosed, conn, tickVars>>

-----------------------------------------------------------------------------
(* The goroutines end.                                                     *)

FetchCheckEnds ==
  /\ "fetch" \in group /\ stopFetch
  /\ group' = group \ {"fetch"}
  /\ UNCHANGED <<main, ctxDone, ownDone, stopFetch, listening, dsClosed, conn, tickVars>>

\* Serve returns ErrServerClosed as soon as Shutdown has closed the listener.
ServeEnds(s) ==
  /\ s \in group /\ s \notin listening
  /\ group' = group \ {s}
  /\ UNCHANGED <<main, ctxDone, ownDone, stopFetch, listening, dsClosed, conn, tickVars>>

WatchEnds ==
  /\ "watch" \in group /\ ctxDone
  /\ group' = group \ {"watch"}
  /\ UNCHANGED <<main, ctxDone, ownDone, stopFetch, listening, dsClosed, conn, tickVars>>

\* After its pass, or at once when main's context is cancelled.
ReconcileEnds ==
  /\ "reconcile" \in group
  /\ group' = group \ {"reconcile"}
  /\ UNCHANGED <<main, ctxDone, ownDone, stopFetch, listening, dsClosed, conn, tickVars>>

LoopEnds ==
  /\ "loop" \in group /\ tick = "idle"
  /\ ctxDone \/ ownDone
  /\ group' = group \ {"loop"}
  /\ UNCHANGED <<main, ctxDone, ownDone, stopFetch, listening, dsClosed, conn, tickVars>>

-----------------------------------------------------------------------------
(* The six-hour loop.                                                      *)

TickFires ==
  /\ "loop" \in group /\ tick = "idle"
  /\ tick' = "reconciled"
  /\ UNCHANGED <<runVars, conn, dirs, block, listed, skipped>>

\* The time of the last check is read; an error other than a missing file
\* ends the tick.
GetLastCheckedTime ==
  /\ tick = "reconciled"
  /\ tick' \in {"idle", "pooled"}
  /\ UNCHANGED <<runVars, conn, dirs, block, listed, skipped>>

\* Without a pool nothing is listed, and the stamp is written all the same.
NoPool ==
  /\ tick = "pooled"
  /\ tick' = "stamping"
  /\ skipped' = skipped \union New
  /\ UNCHANGED <<runVars, conn, dirs, block, listed>>

\* The first walk: the directories modified since the last check.
ListModifiedStoredBlocks ==
  /\ tick = "pooled"
  /\ tick' = "walking"
  /\ dirs' = New
  /\ UNCHANGED <<runVars, conn, block, listed, skipped>>

\* A mutant of ListingFails: the error does not end the tick.
ListingFailsQuietly ==
  /\ tick = "pooled"
  /\ tick' = "stamping"
  /\ UNCHANGED <<runVars, conn, dirs, block, listed, skipped>>

ListingFails ==
  /\ tick = "pooled"
  /\ tick' = "idle"
  /\ UNCHANGED <<runVars, conn, dirs, block, listed, skipped>>

\* One goroutine per directory; a failed walk is logged and its blocks are lost.
WalksDir(b) ==
  /\ b \in dirs
  /\ dirs' = dirs \ {b}
  /\ \/ listed' = listed \union {b} /\ UNCHANGED skipped
     \/ skipped' = skipped \union {b} /\ UNCHANGED listed
  /\ UNCHANGED <<runVars, conn, tick, block>>

LinksCollected ==
  /\ tick = "walking" /\ dirs = {}
  /\ tick' = "stamping"
  /\ UNCHANGED <<runVars, conn, dirs, block, listed, skipped>>

\* The stamp is the present, not the moment the listing began; a write that
\* fails leaves the old one.
UpdateLastCheckedTime ==
  /\ tick = "stamping"
  /\ tick' = "idle"
  /\ \/ block' = [b \in Blocks |-> IF block[b] = "new" THEN "old" ELSE block[b]]
     \/ UNCHANGED block
  /\ UNCHANGED <<runVars, conn, dirs, listed, skipped>>

TickStep ==
  \/ GetLastCheckedTime
  \/ NoPool
  \/ ListModifiedStoredBlocks
  \/ ListingFails
  \/ \E b \in Blocks : WalksDir(b)
  \/ LinksCollected
  \/ UpdateLastCheckedTime

\* Kubo stores a block; a tick that has listed and not yet stamped misses it.
KuboStores(b) ==
  /\ main \notin {"new", "exited"}
  /\ block[b] = "absent"
  /\ block' = [block EXCEPT ![b] = "new"]
  /\ skipped' = IF tick \in {"walking", "stamping"} THEN skipped \union {b} ELSE skipped
  /\ UNCHANGED <<runVars, conn, tick, dirs, listed>>

-----------------------------------------------------------------------------
(* Shutdown, called by main's signal goroutine.                            *)

Signal ==
  /\ main = "running"
  /\ main' = "signalled"
  /\ ownDone' = TRUE
  /\ UNCHANGED <<group, ctxDone, stopFetch, listening, dsClosed, conn, tickVars>>

\* A mutant of ShutdownPingProxy: fetchCheckStop is never closed.
ShutdownKeepsFetch ==
  /\ main = "signalled"
  /\ main' = "pingDown"
  /\ listening' = listening \ {"ping"}
  /\ UNCHANGED <<group, ctxDone, ownDone, stopFetch, dsClosed, conn, tickVars>>

\* fetchCheckStop is closed, then the ping server's listener.
ShutdownPingProxy ==
  /\ main = "signalled"
  /\ main' = "pingDown"
  /\ stopFetch' = TRUE
  /\ listening' = listening \ {"ping"}
  /\ UNCHANGED <<group, ctxDone, ownDone, dsClosed, conn, tickVars>>

\* The ping requests in progress are waited for before the proxy is closed.
ShutdownProxy ==
  /\ main = "pingDown" /\ Active({"ping"}) = {}
  /\ main' = "proxyDown"
  /\ listening' = listening \ {"proxy"}
  /\ UNCHANGED <<group, ctxDone, ownDone, stopFetch, dsClosed, conn, tickVars>>

\* The proxy's Shutdown, or the datastore's Close, reports an error:
\* Shutdown returns it and main cancels its context.
ShutdownFails ==
  /\ main = "proxyDown" /\ Active({"action", "chat"}) = {}
  /\ main' = "draining"
  /\ ctxDone' = TRUE
  /\ UNCHANGED <<group, ownDone, stopFetch, listening, dsClosed, conn, tickVars>>

\* A mutant of CloseDatastore: it does not wait for the proxy's requests.
CloseDatastoreEarly ==
  /\ main = "proxyDown"
  /\ main' = "waiting"
  /\ dsClosed' = TRUE
  /\ UNCHANGED <<group, ctxDone, ownDone, stopFetch, listening, conn, tickVars>>

CloseDatastore ==
  /\ main = "proxyDown" /\ Active({"action", "chat"}) = {}
  /\ main' = "waiting"
  /\ dsClosed' = TRUE
  /\ UNCHANGED <<group, ctxDone, ownDone, stopFetch, listening, conn, tickVars>>

\* The group is empty or twenty seconds are over; main cancels its context.
ShutdownReturns ==
  /\ main = "waiting"
  /\ main' = "draining"
  /\ ctxDone' = TRUE
  /\ UNCHANGED <<group, ownDone, stopFetch, listening, dsClosed, conn, tickVars>>

ProcessExits ==
  /\ main = "draining" /\ group = {}
  /\ main' = "exited"
  /\ UNCHANGED <<group, ctxDone, ownDone, stopFetch, listening, dsClosed, conn, tickVars>>

ShutdownStep ==
  \/ ShutdownPingProxy
  \/ ShutdownProxy
  \/ ShutdownFails
  \/ CloseDatastore
  \/ ShutdownReturns
  \/ ProcessExits

BloxNext ==
  \/ StartFails
  \/ StartProxy
  \/ StartPingProxy
  \/ StartReturns
  \/ Signal
  \/ ShutdownStep
  \/ \E r \in Conns : Accepts(r)
  \/ \E r \in Conns : Serves(r)
  \/ StopPingServer
  \/ FetchCheckEnds
  \/ \E s \in {"proxy", "ping"} : ServeEnds(s)
  \/ WatchEnds
  \/ ReconcileEnds
  \/ LoopEnds
  \/ TickFires
  \/ TickStep
  \/ \E b \in Blocks : KuboStores(b)

BloxSpec == BloxInit /\ [][BloxNext]_bloxVars

-----------------------------------------------------------------------------
(* What must hold.                                                         *)

\* The datastore is closed, and the process gone after a shutdown, only when
\* every request a server had accepted is answered: Shutdown closes the
\* listeners, waits for the requests and only then closes the store.
DatastoreClosesLast ==
  dsClosed \/ main \in {"draining", "exited"} => Active({"action", "chat", "ping"}) = {}

\* Every block whose file is older than the stamp has been listed, unless the
\* tick that stamped had no chance to: there was no pool, the walk of its
\* directory failed, or the block came after the walk and before the stamp.
\* In particular a tick that fails to read the last check's time or to list
\* leaves the stamp, and the next tick covers its blocks.
ListedOrSkipped ==
  \A b \in Blocks : block[b] = "old" => b \in listed \union skipped

\* Once main is signalled the process ends, whatever goroutine it catches where,
\* if the requests in progress end.  Shutdown waits for those without a limit, and
\* the servers set none for reading a body or for a chat.
ShutdownExits ==
  (\A r \in Conns : []<>(conn[r] \notin {"action", "chat", "ping"}))
     => (main = "signalled" ~> main = "exited")

=============================================================================
