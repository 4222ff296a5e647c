------------------------------- MODULE Exchange -------------------------------
(***************************************************************************)
(* Pulls of a node from its peers.  The puller gives the peer a temporary  *)
(* authorization for the root it asks for; the peer walks the graph under  *)
(* the root and pushes every node, all at once, through a circuit breaker  *)
(* that all pushes of its process share, and retries the ones that fail.   *)
(* No request has a deadline: one that is not answered hangs.              *)
(*                                                                         *)
(* The pull's answer is buffered until the peer's handler returns, so the  *)
(* puller waits for the whole push.  The body of a push is a buffer that   *)
(* the first attempt to reach the puller drains: the request of a retry is *)
(* shorter than its announced length, and net/http gives up writing it.    *)
(***************************************************************************)
EXTENDS Naturals, FiniteSets

CONSTANTS
    Peers,        \* peers the puller asks
    Pulls,        \* pulls, each made once
    Cids,         \* nodes
    From,         \* pull -> the peer that is asked
    Dag,          \* pull -> the nodes its peer pushes
    Root,         \* pull -> the node that is asked for
    Retries,      \* attempts after the first one: 5 in the code
    TripAfter,    \* consecutive failures that open the breaker: 6 in gobreaker
    HalfOpenMax,  \* MaxRequests of the breaker: 3 in the code
    MaxFaults     \* bound: messages lost and blocks not found

ASSUME ExchangeAssumption ==
    /\ Dag \in [Pulls -> SUBSET Cids] /\ Root \in [Pulls -> Cids] /\ From \in [Pulls -> Peers]
    /\ \A x \in Pulls : Root[x] \in Dag[x]
    /\ {Retries, TripAfter, HalfOpenMax, MaxFaults} \subseteq Nat
    /\ "none" \notin Peers

VARIABLES
    pull,         \* pull -> "idle", "asked", "pushing" (in the peer's handler), "done"
    pushed,       \* pull -> what the peer's Push returned
    allowAll,     \* the puller's authorizer is empty or the puller itself
    tempAuths,    \* node -> the peer that may push it once, or "none"
    authorizedPeers, \* the peers that are authorized for good
    stored,       \* nodes the puller has stored
    job,          \* pull, node -> the push of that node
    breaker,      \* peer -> pushCircuitBreaker of its process
    granted, spent, \* peer, node -> temporary authorizations given and used
    faults

auths == <<allowAll, authorizedPeers, granted>>
exchangeVars == <<pull, pushed, tempAuths, auths, stored, job, breaker, spent, faults>>

\* "counted": the breaker has not changed state since this attempt was let through.
NoJob == [at |-> "none", attempt |-> 0, body |-> TRUE, counted |-> FALSE]
Closed0 == [state |-> "closed", failures |-> 0, requests |-> 0, successes |-> 0]

ExchangeInit ==
    /\ pull = [x \in Pulls |-> "idle"] /\ pushed = [x \in Pulls |-> "none"]
    /\ allowAll \in BOOLEAN /\ tempAuths = [c \in Cids |-> "none"]
    /\ authorizedPeers \in SUBSET Peers /\ stored = {} /\ faults = 0
    /\ job = [x \in Pulls |-> [c \in Cids |-> NoJob]]
    /\ breaker = [p \in Peers |-> Closed0]
    /\ granted = [p \in Peers |-> [c \in Cids |-> 0]] /\ spent = granted

Fault == faults < MaxFaults /\ faults' = faults + 1

-----------------------------------------------------------------------------
(***************************************************************************)
(* The breaker (gobreaker): a change of state starts a new generation, and *)
(* the results of requests of an older one are not counted.                *)
(***************************************************************************)
Enter(s) == [Closed0 EXCEPT !.state = s]
Uncounted(p, j) ==
    [x \in Pulls |-> IF From[x] # p THEN j[x]
                     ELSE [c \in Cids |-> [j[x][c] EXCEPT !.counted = FALSE]]]

LetThrough(b) == b.state = "closed" \/ (b.state = "half" /\ b.requests < HalfOpenMax)

\* The breaker after the result of an attempt that still counts.
BreakerAfter(b, ok) ==
    CASE b.state = "closed" /\ ok -> [b EXCEPT !.failures = 0]
      [] b.state = "closed" /\ ~ok /\ b.failures + 1 < TripAfter ->
             [b EXCEPT !.failures = @ + 1]
      [] b.state = "half" /\ ok /\ b.successes + 1 < HalfOpenMax ->
             [b EXCEPT !.successes = @ + 1]
      [] b.state = "half" /\ ok -> Enter("closed")
      [] OTHER -> Enter("open")

\* The open breaker half opens, and the counts of a closed one are cleared.
BreakerTimer(p) ==
    /\ \/ breaker[p].state = "open" /\ breaker' = [breaker EXCEPT ![p] = Enter("half")]
       \/ /\ breaker[p].state = "closed" /\ breaker[p].failures > 0
          /\ breaker' = [breaker EXCEPT ![p] = Closed0]
    /\ job' = Uncounted(p, job)
    /\ UNCHANGED <<pull, pushed, tempAuths, auths, stored, spent, faults>>

-----------------------------------------------------------------------------
\* Mutant: the authorization is given only when the peer has answered.
PullsFirst(x) ==
    /\ pull[x] = "idle"
    /\ pull' = [pull EXCEPT ![x] = "asked"]
    /\ UNCHANGED <<pushed, tempAuths, auths, stored, job, breaker, spent, faults>>

\* Pull: the root is authorized before the request is sent, in place of an
\* authorization of it that another peer holds.
Pull(x) ==
    /\ pull[x] = "idle"
    /\ tempAuths' = [tempAuths EXCEPT ![Root[x]] = From[x]]
    /\ granted' = [granted EXCEPT ![From[x]][Root[x]] = @ + 1]
    /\ pull' = [pull EXCEPT ![x] = "asked"]
    /\ UNCHANGED <<pushed, allowAll, authorizedPeers, stored, job, breaker, spent, faults>>

\* The request does not arrive; the authorization stays.
PullLost(x) ==
    /\ pull[x] = "asked" /\ Fault
    /\ pull' = [pull EXCEPT ![x] = "done"]
    /\ UNCHANGED <<pushed, tempAuths, auths, stored, job, breaker, spent>>

Started(x, nodes) ==
    job' = [job EXCEPT ![x] = [c \in Cids |-> IF c \in nodes THEN [NoJob EXCEPT !.at = "try"]
                                               ELSE NoJob]]

\* handlePull and Push: one goroutine per node of the graph.  If the root or a node
\* below it cannot be loaded, Push returns at once, and the goroutines of the nodes
\* that were visited before run on.
HandlePull(x) ==
    /\ pull[x] = "asked"
    /\ \/ /\ pull' = [pull EXCEPT ![x] = "pushing"] /\ Started(x, Dag[x])
          /\ UNCHANGED <<faults, pushed>>
       \/ /\ Fault /\ pull' = [pull EXCEPT ![x] = "done"]
          /\ pushed' = [pushed EXCEPT ![x] = "failed"]
          /\ \E visited \in (SUBSET Dag[x]) \ {Dag[x]} :
                (visited # {} => Root[x] \in visited) /\ Started(x, visited)
    /\ UNCHANGED <<tempAuths, auths, stored, breaker, spent>>

\* What an attempt that failed leads to: the first one to retryWithBackoff, and the
\* last one of it to an error.
NextTry(j) ==
    IF j.attempt = Retries THEN [j EXCEPT !.at = "failed", !.attempt = 0]
    ELSE [j EXCEPT !.at = "try", !.attempt = @ + 1]

\* The breaker lets an attempt through.
Execute(x, c) ==
    LET b == breaker[From[x]] IN
    /\ job[x][c].at = "try" /\ LetThrough(b)
    /\ job' = [job EXCEPT ![x][c].at = "flight", ![x][c].counted = TRUE]
    /\ breaker' = [breaker EXCEPT ![From[x]] =
                     IF b.state = "half" THEN [b EXCEPT !.requests = @ + 1] ELSE b]
    /\ UNCHANGED <<pull, pushed, tempAuths, auths, stored, spent, faults>>

\* Mutant: an attempt that the breaker refuses does not count as one.
BreakerDelays(x, c) ==
    /\ job[x][c].at = "try" /\ ~LetThrough(breaker[From[x]])
    /\ UNCHANGED exchangeVars

\* ... or does not.  Only the first attempt takes an open breaker for final.
BreakerRefuses(x, c) ==
    /\ job[x][c].at = "try" /\ ~LetThrough(breaker[From[x]])
    /\ job' = [job EXCEPT ![x][c] =
                 IF breaker[From[x]].state = "open" /\ @.attempt = 0
                 THEN [@ EXCEPT !.at = "failed"] ELSE NextTry(@)]
    /\ UNCHANGED <<pull, pushed, tempAuths, auths, stored, breaker, spent, faults>>

\* The result of an attempt is counted, and ends the push of the node or not.
Finishes(x, c, ok, j) ==
    LET old == job[x][c]
        b   == breaker[From[x]]
        new == IF ok THEN [j EXCEPT !.at = "ok", !.attempt = 0] ELSE NextTry(j)
        br  == IF old.counted THEN BreakerAfter(b, ok) ELSE b
        all == [job EXCEPT ![x][c] = [new EXCEPT !.counted = FALSE]] IN
    /\ breaker' = [breaker EXCEPT ![From[x]] = br]
    /\ job' = IF br.state # b.state THEN Uncounted(From[x], all) ELSE all

\* Mutant: the temporary authorization is not deleted when it is used.
AuthorizedKeeps(p, c) ==
    /\ UNCHANGED tempAuths
    /\ IF ~allowAll /\ tempAuths[c] = p THEN spent' = [spent EXCEPT ![p][c] = @ + 1]
       ELSE (allowAll \/ p \in authorizedPeers) /\ UNCHANGED spent

\* authorized: a push uses up the temporary authorization of its peer for its node,
\* also when the peer is authorized for good.
Authorized(p, c) ==
    IF ~allowAll /\ tempAuths[c] = p
    THEN /\ tempAuths' = [tempAuths EXCEPT ![c] = "none"]
         /\ spent' = [spent EXCEPT ![p][c] = @ + 1]
    ELSE (allowAll \/ p \in authorizedPeers) /\ UNCHANGED <<tempAuths, spent>>

\* serve, handlePush and decodeAndStoreBlock.  The connection may break before the
\* whole body is read, when the authorization is already used, or before the answer.
HandlePush(x, c) ==
    LET drained == [job[x][c] EXCEPT !.body = FALSE] IN
    /\ job[x][c].at = "flight" /\ job[x][c].body /\ Authorized(From[x], c)
    /\ \/ stored' = stored \cup {c} /\ Finishes(x, c, TRUE, drained) /\ UNCHANGED faults
       \/ stored' = stored \cup {c} /\ Finishes(x, c, FALSE, drained) /\ Fault
       \/ UNCHANGED stored /\ Finishes(x, c, FALSE, drained) /\ Fault
    /\ UNCHANGED <<pull, pushed, auths>>

\* A retry whose body is gone: the request is not sent.
PushUnsent(x, c) ==
    /\ job[x][c].at = "flight" /\ ~job[x][c].body
    /\ Finishes(x, c, FALSE, job[x][c])
    /\ UNCHANGED <<pull, pushed, tempAuths, auths, stored, spent, faults>>

\* serve: the push is not authorized.
PushRejected(x, c) ==
    /\ job[x][c].at = "flight" /\ job[x][c].body
    /\ ~allowAll /\ tempAuths[c] # From[x] /\ From[x] \notin authorizedPeers
    /\ Finishes(x, c, FALSE, [job[x][c] EXCEPT !.body = FALSE])
    /\ UNCHANGED <<pull, pushed, tempAuths, auths, stored, spent, faults>>

\* The puller is not reached: the body is still there for the next attempt.
PushLost(x, c) ==
    /\ job[x][c].at = "flight" /\ job[x][c].body /\ Fault
    /\ Finishes(x, c, FALSE, job[x][c])
    /\ UNCHANGED <<pull, pushed, tempAuths, auths, stored, spent>>

\* Mutant: Push returns with the first goroutine that has stored its node.
PushEndsEarly(x) ==
    /\ pull[x] = "pushing" /\ job[x][Root[x]].at \in {"ok", "failed"}
    /\ pull' = [pull EXCEPT ![x] = "done"]
    /\ pushed' = [pushed EXCEPT ![x] = job[x][Root[x]].at]
    /\ UNCHANGED <<job, tempAuths, auths, stored, breaker, spent, faults>>

\* errgroup: Push returns when all goroutines have, with an error if one has.
PushReturns(x) ==
    /\ pull[x] = "pushing" /\ \A c \in Dag[x] : job[x][c].at \in {"ok", "failed"}
    /\ pull' = [pull EXCEPT ![x] = "done"]
    /\ pushed' = [pushed EXCEPT ![x] =
                    IF \A c \in Dag[x] : job[x][c].at = "ok" THEN "ok" ELSE "failed"]
    /\ job' = [job EXCEPT ![x] = [c \in Cids |-> NoJob]]
    /\ UNCHANGED <<tempAuths, auths, stored, breaker, spent, faults>>

\* handleAuthorization and SetAuth: the owner authorizes a peer, or no longer.
HandleAuthorization(p) ==
    /\ ~allowAll
    /\ authorizedPeers' = IF p \in authorizedPeers THEN authorizedPeers \ {p}
                          ELSE authorizedPeers \cup {p}
    /\ UNCHANGED <<pull, pushed, allowAll, tempAuths, stored, job, breaker, granted, spent, faults>>

PushStep(x, c) == \/ Execute(x, c) \/ BreakerRefuses(x, c)
                  \/ HandlePush(x, c) \/ PushRejected(x, c)
                  \/ PushUnsent(x, c) \/ PushLost(x, c)

PullStep(x) == HandlePull(x) \/ PushReturns(x) \/ PullLost(x)

ExchangeNext ==
    \/ \E p \in Peers : BreakerTimer(p) \/ HandleAuthorization(p)
    \/ \E x \in Pulls : Pull(x) \/ PullStep(x)
    \/ \E x \in Pulls, c \in Cids : PushStep(x, c)

ExchangeSpec == ExchangeInit /\ [][ExchangeNext]_exchangeVars

-----------------------------------------------------------------------------
\* When the peer's Push returns without an error, the puller holds every node of the
\* graph: no retry, refusal of the breaker or lost answer passes for a success.
PushMeansStored == \A x \in Pulls : pushed[x] = "ok" => Dag[x] \subseteq stored

\* A temporary authorization lets one push of its peer through: no peer gets more
\* pushes of a node accepted on one than pulls have asked it for that node, also when
\* several pulls of several peers replace and use the authorizations of each other.
TempAuthsAreSpentOnce ==
    \A p \in Peers, c \in Cids : spent[p][c] <= granted[p][c]

\* No attempt of the push is left without an answer or an error for ever.
AttemptsEnd(x) == \A c \in Dag[x] : []<>(job[x][c].at # "flight")

\* A push of which no attempt hangs ends: the retries are bounded, and a breaker that
\* stays open or half open only makes them fail.
PushesEnd == \A x \in Pulls : AttemptsEnd(x) => (pull[x] = "pushing" ~> pull[x] = "done")

\* A root that is asked for arrives as long as nothing is lost or hangs and the
\* breaker of the peer stays closed: its authorization is in place when the push
\* comes, or a push of another pull has used it or will use the one in its place.
PulledRootArrives ==
    (\A x \in Pulls : AttemptsEnd(x) /\ []<>(pull[x] # "asked")) =>
        \A x \in Pulls :
            pull[x] = "asked" ~> \/ Root[x] \in stored \/ faults > 0
                                 \/ breaker[From[x]].state # "closed"
=============================================================================
