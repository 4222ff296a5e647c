-------------------------- MODULE ClientLifecycle --------------------------
(***************************************************************************)
(* The life of a mobile client: operations of the app that use the libp2p  *)
(* host, each on a thread of its own, against Shutdown, which frees the    *)
(* host and the datastore and may be called from several threads.          *)
(*                                                                         *)
(* An operation is admitted by beginOp and looks for the blox: it dials    *)
(* it, then looks it up in the IPFS DHT and dials it again; a network call *)
(* may hang until its context is cancelled or times out.  A chat ignores   *)
(* the context it is admitted with and leaves a goroutine behind that      *)
(* reads the answer.  SetAuth is not admitted by beginOp at all.  A        *)
(* critical section of lifeMu is one step.                                 *)
(***************************************************************************)
EXTENDS Naturals, FiniteSets

CONSTANTS
    Ops,       \* threads calling ConnectToBlox, Ping or a blockchain method
    Chats,     \* threads calling ChatWithAI
    Setters,   \* threads calling SetAuth on another peer
    Closers,   \* threads calling Shutdown
    HasDHT     \* the IPFS DHT fallback is configured

Gated == Ops \cup Chats
Threads == Gated \cup Setters \cup Closers

ASSUME ClientAssumption ==
    /\ IsFiniteSet(Gated)
    /\ Gated \cap Setters = {} /\ Gated \cap Closers = {}
    /\ Setters \cap Closers = {} /\ Ops \cap Chats = {}
    /\ HasDHT \in BOOLEAN

VARIABLES
    pc,         \* where each thread is
    closed,     \* closed
    inflight,   \* the counter of the inflight wait group
    cancelled,  \* opCtx is cancelled
    streams,    \* chats whose goroutine still reads the answer
    ready,      \* ipfsDHTReady is closed
    serving,    \* the exchange's server is handling a peer's request
    up          \* the resources not closed yet

vars == <<pc, closed, inflight, cancelled, streams, ready, serving, up>>

Resources == {"exchange", "dht", "host", "store"}
OpSteps == {"dial", "lookup", "redial", "use", "return"}
CloseSteps == {"drain", "exchange", "dht", "host", "store"}

TypeOK ==
    /\ pc \in [Threads -> {"idle", "refused", "request", "returned"}
                          \cup OpSteps \cup CloseSteps]
    /\ closed \in BOOLEAN /\ cancelled \in BOOLEAN /\ ready \in BOOLEAN
    /\ serving \in BOOLEAN
    /\ inflight \in Nat
    /\ streams \subseteq Chats
    /\ up \subseteq Resources

Init ==
    /\ pc = [t \in Threads |-> "idle"]
    /\ closed = FALSE /\ inflight = 0 /\ cancelled = FALSE
    /\ streams = {}
    /\ ready = ~HasDHT /\ serving = FALSE
    /\ up = Resources

At(t, l) == pc[t] = l
Goto(t, l) == pc' = [pc EXCEPT ![t] = l]

-----------------------------------------------------------------------------
(* Operations that use the host                                            *)

\* Mutant: the check of closed is dropped.
beginOpUnchecked(t) ==
    /\ At(t, "idle") /\ t \notin streams
    /\ Goto(t, "dial") /\ inflight' = inflight + 1
    /\ UNCHANGED <<closed, cancelled, streams, ready, serving, up>>

beginOp(t) ==
    /\ At(t, "idle") /\ t \notin streams
    /\ \/ closed /\ Goto(t, "refused") /\ UNCHANGED inflight
       \/ ~closed /\ Goto(t, "dial") /\ inflight' = inflight + 1
    /\ UNCHANGED <<closed, cancelled, streams, ready, serving, up>>

\* Mutant: the operation's context does not come from opCtx.
ContextDoneBackground(t) == FALSE

ContextDone(t) == cancelled /\ t \in Ops

\* The blox is reached: ConnectToBlox returns, the others go on to their
\* pings or their request.
Connected(t) ==
    \/ Goto(t, "use")
    \/ t \in Ops /\ Goto(t, "return")

\* A network call of the operation succeeds.  The lookup needs the DHT to
\* have bootstrapped.
Succeeds(t) ==
    /\ \/ (At(t, "dial") \/ At(t, "redial")) /\ Connected(t) /\ UNCHANGED streams
       \/ At(t, "lookup") /\ ready /\ Goto(t, "redial") /\ UNCHANGED streams
       \/ At(t, "use") /\ Goto(t, "return")
          /\ streams' = IF t \in Chats THEN streams \cup {t} ELSE streams
    /\ UNCHANGED <<closed, inflight, cancelled, ready, serving, up>>

\* It fails: refused, timed out, or its context is cancelled.
Fails(t) ==
    /\ \/ At(t, "dial") /\ Goto(t, IF HasDHT THEN "lookup" ELSE "return")
       \/ \E l \in {"lookup", "redial", "use"} : At(t, l) /\ Goto(t, "return")
    /\ UNCHANGED <<closed, inflight, cancelled, streams, ready, serving, up>>

\* Mutant: the operation calls done itself and defers it too.
doneTwice(t) ==
    /\ At(t, "return") /\ Goto(t, "idle")
    /\ inflight' = inflight - 2
    /\ UNCHANGED <<closed, cancelled, streams, ready, serving, up>>

\* The deferred release function.
done(t) ==
    /\ At(t, "return") /\ Goto(t, "idle")
    /\ inflight' = inflight - 1
    /\ UNCHANGED <<closed, cancelled, streams, ready, serving, up>>

\* The goroutine of ChatWithAI: the answer is complete or its body fails.
StreamEnds(t) ==
    /\ t \in streams /\ streams' = streams \ {t}
    /\ UNCHANGED <<pc, closed, inflight, cancelled, ready, serving, up>>

SetAuth(t) ==
    /\ \/ At(t, "idle") /\ Goto(t, "request")
       \/ At(t, "request") /\ Goto(t, "idle")
    /\ UNCHANGED <<closed, inflight, cancelled, streams, ready, serving, up>>

\* The goroutine that bootstraps the IPFS DHT ends: it is warm, it failed, or
\* it was cancelled.
Bootstraps ==
    /\ ~ready /\ ready' = TRUE
    /\ UNCHANGED <<pc, closed, inflight, cancelled, streams, serving, up>>

\* A peer's request to the exchange's HTTP server, until its shutdown closes the
\* listener.
Serve ==
    /\ \/ ~serving /\ "exchange" \in up /\ \A c \in Closers : ~At(c, "exchange")
       \/ serving
    /\ serving' = ~serving
    /\ UNCHANGED <<pc, closed, inflight, cancelled, streams, ready, up>>

-----------------------------------------------------------------------------
(* Shutdown                                                                *)

Shutdown(c) ==
    /\ At(c, "idle")
    /\ \/ closed /\ Goto(c, "returned") /\ UNCHANGED <<closed, cancelled>>
       \/ ~closed /\ Goto(c, "drain") /\ closed' = TRUE /\ cancelled' = TRUE
    /\ UNCHANGED <<inflight, streams, ready, serving, up>>

\* inflight.Wait()
Drained(c) ==
    /\ At(c, "drain") /\ inflight = 0
    /\ Goto(c, "exchange")
    /\ UNCHANGED <<closed, inflight, cancelled, streams, ready, serving, up>>

After == [exchange |-> "dht", dht |-> "host", host |-> "store",
          store |-> "returned"]

\* An error of one Close is kept and the next one is tried all the same.  The
\* exchange's server waits for the request it is handling.
Closes(c) ==
    /\ \E r \in Resources :
          /\ At(c, r) /\ (r = "exchange" => ~serving)
          /\ up' = up \ {r}
          /\ Goto(c, After[r])
    /\ UNCHANGED <<closed, inflight, cancelled, streams, ready, serving>>

OpStep(t) == Succeeds(t) \/ Fails(t)
ShutdownStep(c) == Drained(c) \/ Closes(c)

Next ==
    \/ \E t \in Gated : beginOp(t) \/ OpStep(t) \/ done(t)
    \/ \E t \in Chats : StreamEnds(t)
    \/ \E t \in Setters : SetAuth(t)
    \/ \E c \in Closers : Shutdown(c) \/ ShutdownStep(c)
    \/ Bootstraps \/ Serve

Spec == Init /\ [][Next]_vars

\* Goroutines run, and a cancelled context ends a network call; nothing else
\* does: a peer that is never heard of again is a behaviour.
FairSpec ==
    /\ Spec
    /\ \A t \in Gated : /\ WF_vars(done(t))
                        /\ WF_vars(ContextDone(t) /\ Fails(t))
    /\ \A c \in Closers : WF_vars(ShutdownStep(c))

-----------------------------------------------------------------------------
Admitted == {t \in Gated : pc[t] \in OpSteps}

\* "guaranteed to drain every op" (beginOp): when a resource has been closed, or
\* is about to be, no operation that beginOp admitted is still running.
DrainedBeforeClose ==
    (up # Resources \/ \E c \in Closers : pc[c] \in Resources) => Admitted = {}

\* Shutdown of a client whose peer never answers still closes everything: the
\* cancelled context ends every admitted operation, without waiting for its
\* time-out.  The exceptions are a chat being set up, which has no such context,
\* and a request that a peer of the exchange leaves hanging.
ShutdownIsPrompt ==
    \A c \in Closers :
        At(c, "drain") ~> (up = {} \/ Admitted \cap Chats # {} \/ serving)

\* "guaranteed to drain every op that will ever touch the host": once the host
\* is closed nothing the client started uses it.
NothingUsesClosedHost ==
    "host" \notin up =>
        streams = {} /\ \A t \in Setters : ~At(t, "request")
=============================================================================
