---------------------------- MODULE MCClientApp ----------------------------
(***************************************************************************)
(* The mobile client for model checking: its lifecycle, a chat, the remote *)
(* calls and the exchange.  The four share no state, so an initial state   *)
(* picks the one that moves and the others stay as they are: the run is    *)
(* the union of the four state spaces and not their product.  The exchange *)
(* moves with two pairs of pulls.                                          *)
(***************************************************************************)
EXTENDS MCClientLifecycle, ChatStream, RemoteCall, Exchange, TLC

CONSTANTS t1, t2, x1, x2, x3, c1, c2, p1, p2

VARIABLE focus    \* the component that moves, or the pair of pulls

\* t1 owns the blox; t2 makes one of the calls.
MCMay == t1 :> AllCalls @@ t2 :> {"PoolCreate"}

\* x1 pulls a root with a child, x2 pulls that child from the same peer and x3 from
\* another one.
MCDag == x1 :> {c1, c2} @@ x2 :> {c2} @@ x3 :> {c2}
MCRoot == x1 :> c1 @@ x2 :> c2 @@ x3 :> c2
MCFrom == x1 :> p1 @@ x2 :> p1 @@ x3 :> p2

\* The pulls that are made: of a graph and a node of it, or of one node from two peers.
Made == CASE focus = "graph" -> {x1, x2} [] focus = "peers" -> {x2, x3} [] OTHER -> {}
Asked == {From[x] : x \in Made}

AppInit ==
    /\ Init /\ ChatInit /\ RemoteInit /\ ExchangeInit
    /\ focus \in {"lifecycle", "chat", "remote", "graph", "peers"}
    /\ focus # "remote" => authorization = "none"
    /\ Made = {} => allowAll
    /\ authorizedPeers \subseteq IF allowAll THEN {} ELSE Asked

LifecycleMoves ==
    /\ focus = "lifecycle" /\ Next
    /\ UNCHANGED <<chatVars, remoteVars, exchangeVars, focus>>

ChatMoves ==
    /\ focus = "chat" /\ ChatNext
    /\ UNCHANGED <<vars, remoteVars, exchangeVars, focus>>

RemoteMoves ==
    /\ focus = "remote" /\ RemoteNext
    /\ UNCHANGED <<vars, chatVars, exchangeVars, focus>>

ExchangeMoves ==
    /\ Made # {} /\ ExchangeNext
    /\ authorizedPeers' \subseteq Asked /\ \A x \in Pulls \ Made : pull'[x] = "idle"
    /\ UNCHANGED <<vars, chatVars, remoteVars, focus>>

AppNext == LifecycleMoves \/ ChatMoves \/ RemoteMoves \/ ExchangeMoves

appAllVars == <<vars, chatVars, remoteVars, exchangeVars, focus>>

LifecycleFairness ==
    /\ \A t \in Gated :
          /\ WF_vars(focus = "lifecycle" /\ done(t))
          /\ WF_vars(focus = "lifecycle" /\ ContextDone(t) /\ Fails(t))
    /\ \A c \in Closers : WF_vars(focus = "lifecycle" /\ ShutdownStep(c))

\* The goroutine that reads the stream runs, and a call of GetChunk returns
\* when it can.
ChatFairness ==
    /\ WF_chatVars(focus = "chat" /\ ReaderStep)
    /\ WF_chatVars(focus = "chat" /\ GetChunk)

\* The goroutines of a push run.  Nothing is assumed of what another peer does: a
\* request that is handled, answered, refused or lost is none of these steps.
ExchangeFairness ==
    \A x \in Pulls :
        /\ WF_exchangeVars(Made # {} /\ PushReturns(x))
        /\ \A c \in Dag[x] :
              WF_exchangeVars(Made # {} /\ (Execute(x, c) \/ BreakerRefuses(x, c)))

AppSpec ==
    /\ AppInit /\ [][AppNext]_appAllVars
    /\ LifecycleFairness /\ ChatFairness /\ ExchangeFairness
=============================================================================
