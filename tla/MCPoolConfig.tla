---------------------------- MODULE MCPoolConfig ----------------------------
(***************************************************************************)
(* Model-checking instances of PoolConfig: the environment's steps are     *)
(* drawn from a budget, which bounds the behaviours without cutting off    *)
(* what the process does in response.                                      *)
(***************************************************************************)
EXTENDS PoolConfig

CONSTANTS p1, p2,
          MaxRequests,   \* requests the handlers receive
          MaxWapJoins,   \* WAP joinPool requests
          MaxChanges,    \* changes of the contracts
          MaxCrashes     \* power losses

VARIABLE budget

MCvars == <<vars, budget>>

\* "Pool ids repeat across chains": pool 1 on both; or two pools on one chain.
MCPoolsOnBase == {<<"base", p1>>, <<"base", p2>>}
MCPoolOnBoth == {<<"base", p1>>, <<"skale", p1>>}
MCNoFaults == {}
MCRpcFaults == {"rpc"}
MCFaults == {"disk", "rpc"}

Spend(what) == /\ budget[what] > 0
               /\ budget' = [budget EXCEPT ![what] = @ - 1]

MCInit == /\ Init
          /\ budget = [requests |-> MaxRequests, wap |-> MaxWapJoins,
                       changes |-> MaxChanges, crashes |-> MaxCrashes]

MCNext ==
    \/ System /\ UNCHANGED budget
    \/ Spend("requests") /\ \E h \in Handlers : Request(h)
    \/ Spend("wap") /\ \E p \in Pools : WapJoinPool(p)
    \/ Spend("changes") /\ ChainChanges
    \/ Spend("crashes") /\ Crash

MCSpec == MCInit /\ [][MCNext]_MCvars

Checking(check) == th["reconcile"].tries = check /\ UNCHANGED budget

\* The goroutines run and the host restarts what stops.  A chain read may
\* fail, but not for ever, neither in the first nor in the second check.  Time
\* passes: the interval elapses however often passes start meanwhile.
MCFairSpec ==
    /\ MCSpec
    /\ WF_MCvars(Boot /\ UNCHANGED budget)
    /\ WF_MCvars(StartStep /\ UNCHANGED budget)
    /\ WF_MCvars(ReconcileStep /\ UNCHANGED budget)
    /\ \A check \in 1..2 :
         /\ SF_MCvars(Checking(check) /\ ReadMember("reconcile"))
         /\ SF_MCvars(Checking(check) /\ ReadRequest("reconcile"))
    /\ WF_MCvars(ClearStep("reconcile") /\ UNCHANGED budget)
    /\ SF_MCvars(IntervalElapses /\ UNCHANGED budget)
=============================================================================
