-------------------------- MODULE PeerCallsProofs ---------------------------
(***************************************************************************)
(* Proofs about the two ways in which the app uses its blox, for any       *)
(* number of uses at the same time.  Exchange: a push that succeeded was   *)
(* stored, and a temporary authorization is spent once.  RemoteCall: what  *)
(* the app is told of a call agrees with what the device did.              *)
(***************************************************************************)
EXTENDS Exchange, RemoteCall, TLAPS

(* PART ONE: the exchange of blocks.                                       *)
-----------------------------------------------------------------------------
(* Exchange: what a push that succeeds has stored.                         *)

Jobs == [at : {"none", "try", "flight", "ok", "failed"}, attempt : Nat,
         body : BOOLEAN, counted : BOOLEAN]
Results == {"none", "ok", "failed"}

\* A goroutine that has pushed its node knows that the node is stored.
PushInv ==
    /\ job \in [Pulls -> [Cids -> Jobs]]
    /\ pushed \in [Pulls -> Results]
    /\ \A x \in Pulls, c \in Cids : job[x][c].at = "ok" => c \in stored
    /\ PushMeansStored

(* A failed attempt is followed by another one or by the error.            *)
LEMMA NextTryFacts ==
  ASSUME NEW j \in Jobs
  PROVE  NextTry(j) \in Jobs /\ NextTry(j).at \in {"try", "failed"}
  <1>1. [j EXCEPT !.at = "failed", !.attempt = 0] \in Jobs
        /\ [j EXCEPT !.at = "failed", !.attempt = 0].at = "failed"
    BY Zenon DEF Jobs
  <1>2. [j EXCEPT !.at = "try", !.attempt = j.attempt + 1] \in Jobs
        /\ [j EXCEPT !.at = "try", !.attempt = j.attempt + 1].at = "try"
    <2>1. \A n \in Nat : /\ [j EXCEPT !.at = "try", !.attempt = n] \in Jobs
                        /\ [j EXCEPT !.at = "try", !.attempt = n].at = "try"
      BY Zenon DEF Jobs
    <2>2. j.attempt + 1 \in Nat
      BY DEF Jobs
    <2> QED
      BY <2>1, <2>2, Zenon
  <1> QED
    BY <1>1, <1>2 DEF NextTry

(* The counts of the breaker do not touch what a goroutine has achieved.   *)
LEMMA UncountedFacts ==
  ASSUME NEW p, NEW j \in [Pulls -> [Cids -> Jobs]]
  PROVE  /\ Uncounted(p, j) \in [Pulls -> [Cids -> Jobs]]
         /\ \A x \in Pulls, c \in Cids : Uncounted(p, j)[x][c].at = j[x][c].at
  <1>1. \A r \in Jobs : /\ [r EXCEPT !.counted = FALSE] \in Jobs
                       /\ [r EXCEPT !.counted = FALSE].at = r.at
    BY Zenon DEF Jobs
  <1>2. \A x \in Pulls, c \in Cids : j[x][c] \in Jobs
    OBVIOUS
  <1>3. ASSUME NEW x \in Pulls
        PROVE  /\ Uncounted(p, j)[x] \in [Cids -> Jobs]
               /\ \A c \in Cids : Uncounted(p, j)[x][c].at = j[x][c].at
    BY <1>1, <1>2, Zenon DEF Uncounted
  <1>4. Uncounted(p, j) = [x \in Pulls |-> Uncounted(p, j)[x]]
    BY Zenon DEF Uncounted
  <1> QED
    BY <1>3, <1>4, Zenon

\* All jobs after an attempt whose job is then new.
JobsWith(x, c, new) == [job EXCEPT ![x][c] = [new EXCEPT !.counted = FALSE]]
JobBecomes(x, c, new) ==
    job' = JobsWith(x, c, new) \/ job' = Uncounted(From[x], JobsWith(x, c, new))

(* The end of an attempt changes one job, whatever the breaker does.       *)
LEMMA JobChanges ==
  ASSUME NEW x \in Pulls, NEW c \in Cids, NEW new \in Jobs,
         job \in [Pulls -> [Cids -> Jobs]],
         JobBecomes(x, c, new)
  PROVE  /\ job' \in [Pulls -> [Cids -> Jobs]]
         /\ \A y \in Pulls, d \in Cids :
              job'[y][d].at = "ok" =>
                job[y][d].at = "ok" \/ (y = x /\ d = c /\ new.at = "ok")
  <1> DEFINE last == [new EXCEPT !.counted = FALSE]
             all == JobsWith(x, c, new)
  <1>1. last \in Jobs /\ last.at = new.at
    BY Zenon DEF Jobs
  <1>2. job' = all \/ job' = Uncounted(From[x], all)
    BY DEF JobBecomes
  <1>0. all = [job EXCEPT ![x][c] = last]
    BY DEF JobsWith
  <1> HIDE DEF last
  <1>3. /\ all \in [Pulls -> [Cids -> Jobs]]
        /\ \A y \in Pulls, d \in Cids :
             all[y][d].at = "ok" =>
               job[y][d].at = "ok" \/ (y = x /\ d = c /\ new.at = "ok")
    BY <1>0, <1>1
  <1> HIDE DEF all
  <1>4. CASE job' = all
    BY <1>3, <1>4
  <1>5. CASE job' = Uncounted(From[x], all)
    <2> DEFINE un == Uncounted(From[x], all)
    <2>1. un \in [Pulls -> [Cids -> Jobs]] /\ \A y \in Pulls, d \in Cids : un[y][d].at = all[y][d].at
      BY <1>3, UncountedFacts
    <2>2. job' = un
      BY <1>5
    <2> HIDE DEF un
    <2> QED
      BY <1>3, <2>1, <2>2
  <1> QED
    BY <1>2, <1>4, <1>5

(* An attempt that fails claims nothing that was not stored before, ...    *)
LEMMA FailsKeeps ==
  ASSUME PushInv, NEW x \in Pulls, NEW c \in Cids, NEW j \in Jobs,
         Finishes(x, c, FALSE, j), stored \subseteq stored'
  PROVE  /\ job' \in [Pulls -> [Cids -> Jobs]]
         /\ \A y \in Pulls, d \in Cids : job'[y][d].at = "ok" => d \in stored'
  <1>1. NextTry(j) \in Jobs /\ NextTry(j).at # "ok"
    BY NextTryFacts
  <1>2. JobBecomes(x, c, NextTry(j))
    BY DEF Finishes, JobsWith, JobBecomes
  <1>3. job \in [Pulls -> [Cids -> Jobs]]
    BY DEF PushInv
  <1> DEFINE new == NextTry(j)
  <1> HIDE DEF new
  <1>4. /\ job' \in [Pulls -> [Cids -> Jobs]]
        /\ \A y \in Pulls, d \in Cids :
             job'[y][d].at = "ok" =>
               job[y][d].at = "ok" \/ (y = x /\ d = c /\ new.at = "ok")
    <2>1. new \in Jobs /\ JobBecomes(x, c, new)
      BY <1>1, <1>2 DEF new
    <2> QED
      BY <2>1, <1>3, JobChanges
  <1>5. new.at # "ok"
    BY <1>1 DEF new
  <1> QED
    BY <1>4, <1>5 DEF PushInv

(* ... and one that succeeds claims its node.                              *)
LEMMA SucceedsKeeps ==
  ASSUME PushInv, NEW x \in Pulls, NEW c \in Cids, NEW j \in Jobs,
         Finishes(x, c, TRUE, j), stored \subseteq stored', c \in stored'
  PROVE  /\ job' \in [Pulls -> [Cids -> Jobs]]
         /\ \A y \in Pulls, d \in Cids : job'[y][d].at = "ok" => d \in stored'
  <1> DEFINE new == [j EXCEPT !.at = "ok", !.attempt = 0]
  <1>1. new \in Jobs
    BY Zenon DEF Jobs
  <1>2. JobBecomes(x, c, new)
    BY DEF Finishes, JobsWith, JobBecomes
  <1>3. job \in [Pulls -> [Cids -> Jobs]]
    BY DEF PushInv
  <1> HIDE DEF new
  <1>4. /\ job' \in [Pulls -> [Cids -> Jobs]]
        /\ \A y \in Pulls, d \in Cids :
             job'[y][d].at = "ok" =>
               job[y][d].at = "ok" \/ (y = x /\ d = c /\ new.at = "ok")
    BY <1>1, <1>2, <1>3, JobChanges, SMT
  <1> QED
    BY <1>4 DEF PushInv

(* The initial state.                                                      *)
LEMMA PushInit == ExchangeInit => PushInv
  BY ExchangeAssumption DEF ExchangeInit, PushInv, Jobs, NoJob, Results, PushMeansStored

(* What is stored stays stored, so a step that leaves the results of Push  *)
(* alone keeps what they mean.                                             *)
LEMMA StoredStays ==
  ASSUME PushMeansStored, stored \subseteq stored', pushed' = pushed
  PROVE  PushMeansStored'
  BY DEF PushMeansStored

(* The push of one node.                                                   *)
LEMMA PushStepKeeps ==
  ASSUME PushInv, NEW x \in Pulls, NEW c \in Cids, PushStep(x, c)
  PROVE  PushInv'
  <1> USE DEF PushInv
  <1>0. job[x][c] \in Jobs
    OBVIOUS
  <1>1. job[x][c] \in Jobs /\ [job[x][c] EXCEPT !.body = FALSE] \in Jobs
    BY <1>0, Zenon DEF Jobs
  <1>2. pushed' = pushed /\ stored \subseteq stored'
    BY Zenon DEF PushStep, Execute, BreakerRefuses, HandlePush, PushRejected, PushUnsent, PushLost
  <1>3. /\ job' \in [Pulls -> [Cids -> Jobs]]
        /\ \A y \in Pulls, d \in Cids : job'[y][d].at = "ok" => d \in stored'
    <2>1. CASE Execute(x, c)
      <3>1. [job[x][c] EXCEPT !.at = "flight", !.counted = TRUE] \in Jobs
        BY <1>1, Zenon DEF Jobs
      <3>2. job' = [job EXCEPT ![x][c] = [job[x][c] EXCEPT !.at = "flight", !.counted = TRUE]]
        BY <2>1, Zenon DEF Execute, Jobs
      <3>3. [job[x][c] EXCEPT !.at = "flight", !.counted = TRUE].at = "flight"
        BY <1>1 DEF Jobs
      <3> QED
        BY <1>2, <3>1, <3>2, <3>3
    <2>2. CASE BreakerRefuses(x, c)
      <3>1. PICK j \in Jobs : j.at \in {"try", "failed"} /\ job' = [job EXCEPT ![x][c] = j]
        <4>1. [job[x][c] EXCEPT !.at = "failed"] \in Jobs
              /\ [job[x][c] EXCEPT !.at = "failed"].at = "failed"
          BY <1>1 DEF Jobs
        <4> QED
          BY <1>1, <2>2, <4>1, NextTryFacts, Zenon DEF BreakerRefuses
      <3> QED
        BY <1>2, <3>1
    <2>3. CASE HandlePush(x, c)
      <3>1. CASE c \in stored' /\ Finishes(x, c, TRUE, [job[x][c] EXCEPT !.body = FALSE])
        BY <1>1, <1>2, <3>1, SucceedsKeeps, Zenon
      <3>2. CASE Finishes(x, c, FALSE, [job[x][c] EXCEPT !.body = FALSE])
        BY <1>1, <1>2, <3>2, FailsKeeps, Zenon
      <3> QED
        BY <2>3, <3>1, <3>2, Zenon DEF HandlePush
    <2>4. CASE PushRejected(x, c) \/ PushUnsent(x, c) \/ PushLost(x, c)
      <3>1. PICK j \in Jobs : Finishes(x, c, FALSE, j)
        BY <1>1, <2>4, Zenon DEF PushRejected, PushUnsent, PushLost
      <3> QED
        BY <1>2, <3>1, FailsKeeps, Zenon
    <2> QED
      BY <2>1, <2>2, <2>3, <2>4 DEF PushStep
  <1> QED
    BY <1>2, <1>3, StoredStays

(* The pull that asked for the push.                                       *)
LEMMA PullStepKeeps ==
  ASSUME PushInv, NEW x \in Pulls, Pull(x) \/ PullStep(x) PROVE PushInv'
  <1> USE DEF PushInv
  <1>1. CASE Pull(x) \/ PullLost(x)
    BY <1>1, StoredStays DEF Pull, PullLost
  <1>2. CASE HandlePull(x)
    <2>1. stored' = stored
      BY <1>2 DEF HandlePull
    <2>2. PICK nodes : Started(x, nodes)
      BY <1>2, Zenon DEF HandlePull
    <2>3. NoJob \in Jobs /\ NoJob.at = "none" /\ [NoJob EXCEPT !.at = "try"] \in Jobs
          /\ [NoJob EXCEPT !.at = "try"].at = "try"
      BY Zenon DEF NoJob, Jobs
    <2>4. job' \in [Pulls -> [Cids -> Jobs]]
      BY <2>2, <2>3 DEF Started
    <2>5. \A y \in Pulls, c \in Cids : job'[y][c].at = "ok" => c \in stored'
      BY <2>1, <2>2, <2>3 DEF Started
    <2>6. CASE pushed' = pushed
      BY <2>1, <2>4, <2>5, <2>6, StoredStays, Zenon
    <2>7. CASE pushed' = [pushed EXCEPT ![x] = "failed"]
      BY <2>1, <2>4, <2>5, <2>7 DEF PushMeansStored, Results
    <2> QED
      BY <1>2, <2>6, <2>7 DEF HandlePull
  <1>3. CASE PushReturns(x)
    <2>1. NoJob \in Jobs /\ NoJob.at = "none"
      BY DEF NoJob, Jobs
    <2>2. job' = [job EXCEPT ![x] = [c \in Cids |-> NoJob]] /\ stored' = stored
      BY <1>3 DEF PushReturns
    <2>3. job' \in [Pulls -> [Cids -> Jobs]]
      BY <2>1, <2>2
    <2>4. \A y \in Pulls, c \in Cids : job'[y][c].at = "ok" => c \in stored'
      BY <2>1, <2>2
    <2>5. pushed' \in [Pulls -> Results]
      BY <1>3 DEF PushReturns, Results
    <2>6. PushMeansStored'
      <3>1. pushed'[x] = "ok" => Dag[x] \subseteq stored
        BY <1>3, ExchangeAssumption, Zenon DEF PushReturns
      <3>2. \A y \in Pulls \ {x} : pushed'[y] = pushed[y]
        BY <1>3 DEF PushReturns
      <3> QED
        BY <2>2, <3>1, <3>2 DEF PushMeansStored
    <2> QED
      BY <2>3, <2>4, <2>5, <2>6
  <1> QED
    BY <1>1, <1>2, <1>3 DEF PullStep

(* When the peer's Push returns without an error, the puller holds every   *)
(* node of the graph: no retry, refusal of the breaker or lost answer      *)
(* passes for a success, for any graphs, any number of pulls, retries and  *)
(* faults, and any limits of the breaker.                                  *)
THEOREM PushMeansStoredHolds == ExchangeSpec => []PushMeansStored
  <1>1. PushInv /\ [ExchangeNext]_exchangeVars => PushInv'
    <2> SUFFICES ASSUME PushInv, [ExchangeNext]_exchangeVars PROVE PushInv'
      OBVIOUS
    <2>1. ASSUME NEW p \in Peers, BreakerTimer(p) PROVE PushInv'
      BY <2>1, UncountedFacts, StoredStays DEF BreakerTimer, PushInv
    <2>2. ASSUME NEW p \in Peers, HandleAuthorization(p) PROVE PushInv'
      BY <2>2, StoredStays DEF HandleAuthorization, PushInv
    <2>3. CASE UNCHANGED exchangeVars
      BY <2>3, StoredStays DEF exchangeVars, PushInv
    <2> QED
      BY <2>1, <2>2, <2>3, PushStepKeeps, PullStepKeeps DEF ExchangeNext
  <1>2. PushInv => PushMeansStored
    BY DEF PushInv
  <1> QED
    BY <1>1, <1>2, PushInit, PTL DEF ExchangeSpec

-----------------------------------------------------------------------------
(* Exchange: the temporary authorizations.                                 *)

Unused(p, c) == IF tempAuths[c] = p THEN 1 ELSE 0

\* An authorization that is still there has been given and not been used.
AuthInv ==
    /\ tempAuths \in [Cids -> Peers \cup {"none"}]
    /\ granted \in [Peers -> [Cids -> Nat]] /\ spent \in [Peers -> [Cids -> Nat]]
    /\ \A p \in Peers, c \in Cids : spent[p][c] + Unused(p, c) <= granted[p][c]

(* However pulls, pushes and retries of any number of peers interleave, no *)
(* peer gets more pushes of a node accepted on a temporary authorization   *)
(* than pulls have asked it for: authorized deletes the one that it has    *)
(* used, and a pull from another peer replaces it.                         *)
THEOREM TempAuthsAreSpentOnceHolds == ExchangeSpec => []TempAuthsAreSpentOnce
  <1>1. ExchangeInit => AuthInv
    BY ExchangeAssumption DEF ExchangeInit, AuthInv, Unused
  <1>2. AuthInv /\ [ExchangeNext]_exchangeVars => AuthInv'
    <2> SUFFICES ASSUME AuthInv, [ExchangeNext]_exchangeVars PROVE AuthInv'
      OBVIOUS
    <2>1. ASSUME NEW x \in Pulls, Pull(x) PROVE AuthInv'
      <3> DEFINE p == From[x]
                 r == Root[x]
      <3>1. /\ p \in Peers /\ r \in Cids
            /\ tempAuths' = [tempAuths EXCEPT ![r] = p]
            /\ granted' = [granted EXCEPT ![p][r] = @ + 1] /\ spent' = spent
        BY <2>1, ExchangeAssumption DEF Pull
      <3> HIDE DEF p, r
      <3> QED
        BY <3>1 DEF AuthInv, Unused
    <2>2. ASSUME NEW x \in Pulls, NEW c \in Cids, HandlePush(x, c) PROVE AuthInv'
      <3> DEFINE p == From[x]
      <3>1. p \in Peers /\ Authorized(p, c) /\ granted' = granted
        BY <2>2, ExchangeAssumption DEF HandlePush, auths
      <3> HIDE DEF p
      <3>2. CASE tempAuths[c] = p /\ tempAuths' = [tempAuths EXCEPT ![c] = "none"]
                 /\ spent' = [spent EXCEPT ![p][c] = @ + 1]
        <4>1. /\ tempAuths' \in [Cids -> Peers \cup {"none"}]
              /\ spent' \in [Peers -> [Cids -> Nat]]
          BY <3>1, <3>2 DEF AuthInv
        <4>2. Unused(p, c) = 1 /\ Unused(p, c)' = 0 /\ spent'[p][c] = spent[p][c] + 1
          BY <3>1, <3>2, ExchangeAssumption DEF AuthInv, Unused
        <4>3. ASSUME NEW q \in Peers, NEW d \in Cids, q # p \/ d # c
              PROVE  spent'[q][d] = spent[q][d] /\ Unused(q, d)' <= Unused(q, d)
          BY <3>1, <3>2, <4>3, ExchangeAssumption DEF AuthInv, Unused
        <4>4. ASSUME NEW q \in Peers, NEW d \in Cids
              PROVE  spent'[q][d] + Unused(q, d)' <= granted[q][d]
          <5>1. spent[q][d] \in Nat /\ granted[q][d] \in Nat
                /\ spent[q][d] + Unused(q, d) <= granted[q][d]
            BY DEF AuthInv
          <5>2. Unused(q, d) \in {0, 1} /\ Unused(q, d)' \in {0, 1}
            BY DEF Unused
          <5> QED
            BY <4>2, <4>3, <5>1, <5>2
        <4> QED
          BY <3>1, <4>1, <4>4 DEF AuthInv
      <3>3. CASE UNCHANGED <<tempAuths, spent>>
        BY <3>1, <3>3 DEF AuthInv, Unused
      <3> QED
        BY <3>1, <3>2, <3>3 DEF Authorized
    <2>3. CASE UNCHANGED <<granted, spent, tempAuths>>
      BY <2>3 DEF AuthInv, Unused
    <2>4. ASSUME NEW p \in Peers, BreakerTimer(p) \/ HandleAuthorization(p) PROVE AuthInv'
      BY <2>3, <2>4 DEF BreakerTimer, HandleAuthorization, auths
    <2>7. CASE UNCHANGED exchangeVars
      BY <2>3, <2>7 DEF exchangeVars, auths
    <2>5. ASSUME NEW x \in Pulls, PullStep(x) PROVE AuthInv'
      BY <2>3, <2>5 DEF PullStep, HandlePull, PushReturns, PullLost, auths
    <2>6. ASSUME NEW x \in Pulls, NEW c \in Cids, PushStep(x, c) PROVE AuthInv'
      BY <2>2, <2>3, <2>6, Zenon
      DEF PushStep, Execute, BreakerRefuses, PushRejected, PushUnsent, PushLost, auths
    <2> QED
      BY <2>1, <2>4, <2>5, <2>6, <2>7 DEF ExchangeNext
  <1>3. AuthInv => TempAuthsAreSpentOnce
    BY DEF AuthInv, Unused, TempAuthsAreSpentOnce
  <1> QED
    BY <1>1, <1>2, <1>3, PTL DEF ExchangeSpec

-----------------------------------------------------------------------------
(* PART TWO: calls of the blox.                                            *)
-----------------------------------------------------------------------------
(* RemoteCall: the status each client expects.                             *)

\* The calls whose handler answers 200 when it has done what it was asked to,
\* by what the handlers of the device do; the others answer 202.
OKCalls == ReportActions \cup (ToolActions \ DOMAIN WifiCalls) \cup AutoPinActions
           \cup OwnerCalls \cup {"GetAccount"}
PoolCalls == {"PoolJoin", "PoolCancelJoin", "PoolLeave"}
Succeeds(a) == IF a \in PluginCalls THEN "any" ELSE IF a \in OKCalls THEN OK ELSE Accepted

(* Every method of the client expects what the handler of its call answers *)
(* when it has succeeded.                                                  *)
LEMMA ClientExpects ==
  ASSUME NEW a \in AllCalls PROVE Client[a] = Succeeds(a)
  <1>1. PICK f \in ClientMethods : a \in DOMAIN f /\ Client[a] = f[a]
    BY Zenon DEF AllCalls, Client
  <1>2. f[a] = Succeeds(a)
    <2> USE DEF Expecting
    <2>1. DOMAIN WifiCalls = {"DeleteWifi", "DisconnectWifi"}
      BY DEF WifiCalls
    <2>2. PluginCalls = {"ListPlugins", "InstallPlugin", "UninstallPlugin", "ListActivePlugins",
                         "GetInstallOutput", "GetInstallStatus", "UpdatePlugin"}
      BY DEF PluginCalls, PluginListCalls, PluginOutputCalls, PluginUpdateCalls
    <2> USE <1>1, <2>1, <2>2
        DEF Succeeds, OKCalls, ReportActions, ToolActions, AutoPinActions, OwnerCalls
    <2>3. CASE f \in {WipeCalls, DeviceCalls, InfoCalls, AutoPinCalls, NasCalls}
      BY <2>3 DEF WipeCalls, DeviceCalls, InfoCalls, AutoPinCalls, NasCalls
    <2>4. CASE f \in {PluginListCalls, PluginOutputCalls, PluginUpdateCalls}
      BY <2>4 DEF PluginListCalls, PluginOutputCalls, PluginUpdateCalls
    <2>5. CASE f \in {LogCalls, SizeCalls, WifiCalls, PoolCreateCalls}
      BY <2>5 DEF LogCalls, SizeCalls, WifiCalls, PoolCreateCalls
    <2>6. CASE f \in {PoolJoinCalls, PoolQueryCalls, PoolVoteCalls}
      BY <2>6 DEF PoolJoinCalls, PoolQueryCalls, PoolVoteCalls
    <2>7. CASE f \in {ManifestUploadCalls, ManifestStoreCalls, ManifestBatchCalls,
                      ManifestRemoveCalls}
      BY <2>7 DEF ManifestUploadCalls, ManifestStoreCalls, ManifestBatchCalls,
                  ManifestRemoveCalls
    <2>8. CASE f \in {AccountCalls, BalanceCalls}
      BY <2>8 DEF AccountCalls, BalanceCalls
    <2> QED
      BY <2>3, <2>4, <2>5, <2>6, <2>7, <2>8 DEF ClientMethods
  <1> QED
    BY <1>1, <1>2

-----------------------------------------------------------------------------
(* RemoteCall: what a call is told.                                        *)

Places == {"idle", "sent", "admitted", "answered", "dropped", "told"}
Calls == [at : Places, action : AllCalls, status : {"none", OK, Accepted, NoContent, Refused,
                                                    NotFound, Failed},
          body : {"yes", "no", "error"}, done : BOOLEAN, lost : BOOLEAN,
          told : {"none", "ok", "error"}]

\* The calls of which the app hears that they were done although they were not.
Exempt == SizeActions \cup ReportActions \cup PluginCalls
          \cup {"GetAccount", "ReplicateInPool", "ManifestBatchUpload", "PoolCancelJoin"}

Taken(r) == Succeeds(r.action) \in {"any", r.status}
Heard(r) == r.done = TRUE /\ r.lost = FALSE /\ r.action \notin DOMAIN WifiCalls
Undone(r) == r.done = FALSE /\ r.action \notin Exempt

\* The answer that waits for the client will be taken for what it is.
AnswerOK(r) ==
    r.at = "answered" => /\ Heard(r) => Taken(r) /\ r.body # "no"
                         /\ Undone(r) => ~Taken(r) \/ r.body = "no"
\* What is told is right.
EndOK(r) ==
    r.at = "told" => (Heard(r) => r.told = "ok") /\ (Undone(r) => r.told = "error")

CallOK(r) == r \in Calls /\ AnswerOK(r) /\ EndOK(r)

CallInv == call \in [Callers -> Calls] /\ \A t \in Callers : CallOK(call[t])

(* A call that is neither answered nor told claims nothing.                *)
LEMMA OnTheWay ==
  ASSUME NEW r \in Calls, r.at \in {"idle", "sent", "admitted", "dropped"}
  PROVE  CallOK(r)
  BY DEF CallOK, AnswerOK, EndOK

\* The record of a call after the device's answer.
Answered(r, status, body, done, lost) ==
    [r EXCEPT !.at = "answered", !.status = status, !.body = body, !.done = done, !.lost = lost]

\* The answer to the call of a is the right one: the client takes it for success
\* when it was done, and only then.
RightWhenDone(a, status, body) ==
    a \notin DOMAIN WifiCalls => Succeeds(a) \in {"any", status} /\ body # "no"
RightWhenUndone(a, status, body) ==
    a \notin Exempt => Succeeds(a) \notin {"any", status} \/ body = "no"

Statuses == {OK, Accepted, NoContent, Refused, NotFound, Failed}
Bodies == {"yes", "no", "error"}

LEMMA AnsweredOK ==
  ASSUME NEW r \in Calls, NEW status \in Statuses, NEW body \in Bodies,
         NEW done \in BOOLEAN, NEW lost \in BOOLEAN,
         done = TRUE /\ lost = FALSE => RightWhenDone(r.action, status, body),
         done = FALSE => RightWhenUndone(r.action, status, body)
  PROVE  CallOK(Answered(r, status, body, done, lost))
  <1> DEFINE q == Answered(r, status, body, done, lost)
  <1>1. /\ q \in Calls
        /\ q.at = "answered" /\ q.action = r.action /\ q.status = status /\ q.body = body
        /\ q.done = done /\ q.lost = lost
    <2>1. /\ "answered" \in Places
          /\ status \in {"none", OK, Accepted, NoContent, Refused, NotFound, Failed}
          /\ body \in {"yes", "no", "error"}
      BY DEF Places, Statuses, Bodies
    <2>2. q \in Calls
      BY <2>1, Zenon DEF Answered, Calls
    <2>3. q.at = "answered" /\ q.action = r.action
      BY DEF Answered, Calls
    <2>4. q.status = status /\ q.body = body /\ q.done = done /\ q.lost = lost
      BY DEF Answered, Calls
    <2> QED
      BY <2>2, <2>3, <2>4
  <1> HIDE DEF q
  <1>2. AnswerOK(q)
    BY <1>1 DEF AnswerOK, Heard, Undone, Taken, RightWhenDone, RightWhenUndone
  <1>3. EndOK(q)
    BY <1>1 DEF EndOK
  <1> QED
    BY <1>1, <1>2, <1>3 DEF CallOK, q

(* A step of one call.                                                     *)
LEMMA CallChanges ==
  ASSUME CallInv, NEW t \in Callers, NEW r, CallOK(r), call' = [call EXCEPT ![t] = r]
  PROVE  CallInv'
  <1>1. r \in Calls
    BY DEF CallOK
  <1>2. call' \in [Callers -> Calls]
    BY <1>1 DEF CallInv
  <1>3. \A u \in Callers : call'[u] = IF u = t THEN r ELSE call[u]
    BY DEF CallInv
  <1> QED
    BY <1>2, <1>3 DEF CallInv

LEMMA AnswersKeeps ==
  ASSUME CallInv, NEW t \in Callers, NEW status \in Statuses, NEW body \in Bodies,
         NEW done \in BOOLEAN, Answers(t, status, body, done),
         done = TRUE => RightWhenDone(call[t].action, status, body),
         done = FALSE => RightWhenUndone(call[t].action, status, body)
  PROVE  CallInv'
  <1>1. call[t] \in Calls
    BY DEF CallInv
  <1>2. call[t].lost \in BOOLEAN
    BY <1>1 DEF Calls
  <1>3. call' = [call EXCEPT ![t] = Answered(call[t], status, body, done, call[t].lost)]
    BY <1>1, Zenon DEF Answers, Answered, Calls
  <1>4. CallOK(Answered(call[t], status, body, done, call[t].lost))
    BY <1>1, <1>2, AnsweredOK, Zenon
  <1> QED
    BY <1>3, <1>4, CallChanges, Zenon

LEMMA LateKeeps ==
  ASSUME CallInv, NEW t \in Callers, NEW status \in Statuses, NEW done \in BOOLEAN,
         AnswersLate(t, status, done), RightWhenUndone(call[t].action, status, "error")
  PROVE  CallInv'
  <1>1. call[t] \in Calls
    BY DEF CallInv
  <1>2. call' = [call EXCEPT ![t] = Answered(call[t], status, "error", done, TRUE)]
    BY <1>1, Zenon DEF AnswersLate, Answered, Calls
  <1>3. CallOK(Answered(call[t], status, "error", done, TRUE))
    BY <1>1, AnsweredOK, Zenon DEF Bodies
  <1> QED
    BY <1>2, <1>3, CallChanges, Zenon

(* What the clients of each group of handlers expect.                      *)
LEMMA GroupSucceeds ==
  ASSUME NEW a
  PROVE  /\ a \in NotDispatched \cup ChainActions \cup PoolCalls \cup LogActions \cup SizeActions
                  \cup {"ManifestBatchUpload", "ReplicateInPool"} \cup DOMAIN WifiCalls
              => Succeeds(a) = Accepted
         /\ a \in OKCalls => Succeeds(a) = OK
         /\ a \in PluginCalls => Succeeds(a) = "any"
         /\ a \notin PluginCalls => Succeeds(a) \in {OK, Accepted}
  <1>1. DOMAIN WifiCalls = {"DeleteWifi", "DisconnectWifi"}
    BY DEF WifiCalls, Expecting
  <1>2. PluginCalls = {"ListPlugins", "InstallPlugin", "UninstallPlugin", "ListActivePlugins",
                       "GetInstallOutput", "GetInstallStatus", "UpdatePlugin"}
    BY DEF PluginCalls, PluginListCalls, PluginOutputCalls, PluginUpdateCalls, Expecting
  <1>3. OKCalls = {"BloxFreeSpace", "GetDockerImageBuildDates", "GetClusterInfo", "EraseBlData",
                   "WifiRemoveall", "Reboot", "Partition", "DeleteFulaConfig", "AutoPinPair",
                   "AutoPinRefresh", "AutoPinUnpair", "NasCredentials", "GetAccount"}
    BY <1>1 DEF OKCalls, ReportActions, ToolActions, AutoPinActions, OwnerCalls
  <1>4. a \in OKCalls => a \notin PluginCalls
    BY <1>2, <1>3
  <1>5. a \in NotDispatched \cup PoolCalls \cup LogActions \cup SizeActions
             \cup {"ManifestBatchUpload", "ReplicateInPool"} \cup DOMAIN WifiCalls
          => a \notin PluginCalls /\ a \notin OKCalls
    BY <1>1, <1>2, <1>3 DEF NotDispatched, PoolCalls, LogActions, SizeActions
  <1>6. a \in ChainActions => a \notin PluginCalls /\ a \notin OKCalls
    BY <1>2, <1>3 DEF ChainActions
  <1> QED
    BY <1>4, <1>5, <1>6 DEF Succeeds

LEMMA AnswersDone ==
  ASSUME CallInv, NEW t \in Callers, NEW status \in Statuses, NEW body \in Bodies,
         Answers(t, status, body, TRUE), RightWhenDone(call[t].action, status, body)
  PROVE  CallInv'
  BY AnswersKeeps, Zenon

LEMMA AnswersUndone ==
  ASSUME CallInv, NEW t \in Callers, NEW status \in Statuses, NEW body \in Bodies,
         Answers(t, status, body, FALSE), RightWhenUndone(call[t].action, status, body)
  PROVE  CallInv'
  BY AnswersKeeps, Zenon

(* The connection is dropped: the client will hear of an error.            *)
LEMMA DropKeeps ==
  ASSUME CallInv, NEW t \in Callers, NEW done \in BOOLEAN,
         call' = [call EXCEPT ![t].at = "dropped", ![t].done = done]
  PROVE  CallInv'
  <1> DEFINE r == [call[t] EXCEPT !.at = "dropped", !.done = done]
  <1>1. call[t] \in Calls
    BY DEF CallInv
  <1>2. r \in Calls /\ r.at = "dropped" /\ call' = [call EXCEPT ![t] = r]
    BY <1>1, Zenon DEF Calls, Places
  <1> HIDE DEF r
  <1> QED
    BY <1>2, OnTheWay, CallChanges, Zenon

LEMMA StatusFacts ==
  /\ Statuses = {OK, Accepted, NoContent, Refused, NotFound, Failed}
  /\ Bodies = {"yes", "no", "error"}
  /\ OK # Accepted /\ Failed \notin {OK, Accepted, "any"} /\ Refused \notin {OK, Accepted, "any"}
  /\ NoContent \notin {OK, Accepted, "any"} /\ NotFound \notin {OK, Accepted, "any"}
  /\ OK # "any" /\ Accepted # "any"
  BY DEF Statuses, Bodies, OK, Accepted, NoContent, Refused, NotFound, Failed

(* An error is never taken for success, ...                                *)
LEMMA FailureRight ==
  ASSUME NEW a, NEW body
  PROVE  /\ RightWhenUndone(a, Failed, body) /\ RightWhenUndone(a, Refused, body)
         /\ RightWhenUndone(a, NotFound, body)
  BY GroupSucceeds, StatusFacts DEF RightWhenUndone, Exempt

(* ... nor is an answer that says so.                                      *)
LEMMA NoRight == ASSUME NEW a, NEW status PROVE RightWhenUndone(a, status, "no")
  BY DEF RightWhenUndone

(* The handlers that answer 202.                                           *)
LEMMA AcceptedRight ==
  ASSUME NEW a, NEW body \in {"yes", "error"},
         a \in ChainActions \cup PoolCalls \cup LogActions \cup SizeActions
               \cup {"ManifestBatchUpload", "ReplicateInPool"}
  PROVE  RightWhenDone(a, Accepted, body) /\ RightWhenUndone(a, OK, body)
  BY GroupSucceeds, StatusFacts DEF RightWhenDone, RightWhenUndone

(* The handlers that answer 200.                                           *)
LEMMA OKRight ==
  ASSUME NEW a \in OKCalls \cup DOMAIN WifiCalls \cup PluginCalls,
         NEW body \in {"yes", "error"}
  PROVE  RightWhenDone(a, OK, body)
  BY GroupSucceeds, StatusFacts DEF RightWhenDone

(* Each handler answers what its client expects.                           *)
LEMMA DeviceKeeps ==
  ASSUME CallInv, NEW t \in Callers, DeviceStep(t)
  PROVE  CallInv'
  <1> DEFINE a == call[t].action
  <1>0. /\ {OK, Accepted, NoContent, Refused, NotFound, Failed} \subseteq Statuses
        /\ {"yes", "no", "error"} \subseteq Bodies
    BY StatusFacts
  <1>1. CASE ProxyRefuses(t)
    BY <1>0, <1>1, FailureRight, AnswersUndone, Zenon DEF ProxyRefuses
  <1>2. CASE ProxyAdmits(t)
    <2> DEFINE r == [call[t] EXCEPT !.at = "admitted"]
    <2>1. call[t] \in Calls
      BY DEF CallInv
    <2>2. r \in Calls /\ r.at = "admitted" /\ call' = [call EXCEPT ![t] = r]
      BY <1>2, <2>1 DEF ProxyAdmits, Calls, Places
    <2> HIDE DEF r
    <2> QED
      BY <2>2, OnTheWay, CallChanges, Zenon
  <1>3. CASE DispatchesNone(t)
    <2>1. CASE Answers(t, NotFound, "error", FALSE)
      BY <1>0, <2>1, FailureRight, AnswersUndone, Zenon
    <2>2. CASE a = "GetAccount" /\ Answers(t, OK, "error", FALSE)
      <3>1. RightWhenUndone(a, OK, "error")
        BY <2>2 DEF RightWhenUndone, Exempt
      <3> QED
        BY <1>0, <2>2, <3>1, AnswersUndone, Zenon
    <2> QED
      BY <1>3, <2>1, <2>2, Zenon DEF DispatchesNone
  <1>4. ASSUME NEW body \in Bodies, Answers(t, Failed, body, FALSE) PROVE CallInv'
    BY <1>0, <1>4, FailureRight, AnswersUndone, Zenon
  <1>5. CASE HandleAction(t)
    <2>1. a \in ChainActions
      BY <1>5 DEF HandleAction
    <2>2. CASE Answers(t, Accepted, "yes", TRUE)
      BY <1>0, <2>1, <2>2, AcceptedRight, AnswersDone, Zenon
    <2>3. ASSUME NEW done \in BOOLEAN, AnswersLate(t, OK, done) PROVE CallInv'
      <3>1. RightWhenUndone(a, OK, "error")
        BY <2>1, AcceptedRight
      <3> QED
        BY <1>0, <2>3, <3>1, LateKeeps
    <2> QED
      BY <1>0, <1>4, <1>5, <2>2, <2>3, DropKeeps, Zenon DEF HandleAction
  <1>6. CASE HandleBatchUpload(t)
    <2>1. a = "ManifestBatchUpload"
      BY <1>6 DEF HandleBatchUpload
    <2>2. ASSUME NEW done \in BOOLEAN, Answers(t, Accepted, "yes", done) PROVE CallInv'
      <3>1. RightWhenDone(a, Accepted, "yes") /\ RightWhenUndone(a, Accepted, "yes")
        BY <2>1, AcceptedRight DEF RightWhenUndone, Exempt
      <3> QED
        BY <1>0, <2>2, <3>1, AnswersKeeps, Zenon
    <2>3. ASSUME NEW done \in BOOLEAN, AnswersLate(t, Failed, done) PROVE CallInv'
      BY <1>0, <2>3, FailureRight, LateKeeps
    <2> QED
      BY <1>0, <1>4, <1>6, <2>2, <2>3, Zenon DEF HandleBatchUpload
  <1>7. CASE HandleReplicate(t)
    <2>1. a = "ReplicateInPool"
      BY <1>7 DEF HandleReplicate
    <2>2. \A s \in Statuses, b \in Bodies : RightWhenUndone(a, s, b)
      BY <2>1 DEF RightWhenUndone, Exempt
    <2>3. ASSUME NEW done \in BOOLEAN, Answers(t, Accepted, "yes", done) PROVE CallInv'
      <3>1. RightWhenDone(a, Accepted, "yes")
        BY <2>1, AcceptedRight
      <3> QED
        BY <1>0, <2>2, <2>3, <3>1, AnswersKeeps, Zenon
    <2>4. CASE Answers(t, NoContent, "error", FALSE)
      BY <1>0, <2>2, <2>4, AnswersUndone, Zenon
    <2>5. CASE AnswersLate(t, OK, FALSE)
      BY <1>0, <2>2, <2>5, LateKeeps, Zenon
    <2>6. CASE call' = [call EXCEPT ![t].at = "dropped"]
      <3> DEFINE r == [call[t] EXCEPT !.at = "dropped"]
      <3>1. call[t] \in Calls
        BY DEF CallInv
      <3>2. r \in Calls /\ r.at = "dropped" /\ call' = [call EXCEPT ![t] = r]
        BY <2>6, <3>1 DEF Calls, Places
      <3> HIDE DEF r
      <3> QED
        BY <3>2, OnTheWay, CallChanges, Zenon
    <2> QED
      BY <1>0, <1>4, <1>7, <2>3, <2>4, <2>5, <2>6, Zenon DEF HandleReplicate
  <1>8. CASE HandlePoolJoin(t) \/ HandlePoolCancelJoin(t) \/ HandlePoolLeave(t)
    <2>1. a \in PoolCalls
      BY <1>8 DEF HandlePoolJoin, HandlePoolCancelJoin, HandlePoolLeave, PoolCalls
    <2>2. CASE Answers(t, Accepted, "yes", TRUE)
      BY <1>0, <2>1, <2>2, AcceptedRight, AnswersDone, Zenon
    <2>3. ASSUME a = "PoolCancelJoin" PROVE \A b \in Bodies : RightWhenUndone(a, Accepted, b)
      BY <2>3 DEF RightWhenUndone, Exempt
    <2>4. CASE a = "PoolCancelJoin" /\ Answers(t, Accepted, "yes", FALSE)
      BY <1>0, <2>3, <2>4, AnswersUndone, Zenon
    <2>5. CASE a = "PoolCancelJoin" /\ AnswersLate(t, Accepted, FALSE)
      BY <1>0, <2>3, <2>5, LateKeeps, Zenon
    <2>6. CASE HandlePoolCancelJoin(t)
      BY <1>0, <1>4, <2>2, <2>4, <2>5, <2>6, DropKeeps, Zenon DEF HandlePoolCancelJoin
    <2> QED
      BY <1>0, <1>4, <1>8, <2>2, <2>6, Zenon DEF HandlePoolJoin, HandlePoolLeave
  <1>9. CASE HandleTool(t) \/ HandleLogs(t)
    <2>1. ASSUME NEW s \in Statuses, Answers(t, s, "no", FALSE) PROVE CallInv'
      BY <1>0, <2>1, NoRight, AnswersUndone, Zenon
    <2>2. CASE a \in ToolActions /\ Answers(t, OK, "yes", TRUE)
      BY <1>0, <2>2, OKRight, AnswersDone, Zenon DEF OKCalls
    <2>3. CASE a \in LogActions /\ Answers(t, Accepted, "yes", TRUE)
      BY <1>0, <2>3, AcceptedRight, AnswersDone, Zenon
    <2> QED
      BY <1>0, <1>9, <2>1, <2>2, <2>3, Zenon DEF HandleTool, HandleLogs
  <1>10. CASE HandleSizes(t) \/ HandleReport(t)
    <2>1. PICK s \in Statuses, done \in BOOLEAN :
            Answers(t, s, "yes", done) /\ RightWhenDone(a, s, "yes")
            /\ a \in SizeActions \cup ReportActions
      <3>1. CASE HandleSizes(t)
        BY <1>0, <3>1, AcceptedRight DEF HandleSizes
      <3>2. CASE HandleReport(t)
        BY <1>0, <3>2, OKRight DEF HandleReport, OKCalls
      <3> QED
        BY <1>10, <3>1, <3>2
    <2>2. RightWhenUndone(a, s, "yes")
      BY <2>1 DEF RightWhenUndone, Exempt
    <2> QED
      BY <1>0, <2>1, <2>2, AnswersKeeps, Zenon
  <1>11. CASE HandlePlugin(t)
    <2>1. a \in PluginCalls
      BY <1>11 DEF HandlePlugin
    <2>2. CASE Answers(t, OK, "yes", TRUE)
      BY <1>0, <2>1, <2>2, OKRight, AnswersDone, Zenon
    <2>3. CASE Answers(t, OK, "no", FALSE)
      BY <1>0, <2>3, NoRight, AnswersUndone, Zenon
    <2> QED
      BY <1>0, <1>4, <1>11, <2>2, <2>3, Zenon DEF HandlePlugin
  <1>12. CASE HandleAutoPin(t)
    <2>1. CASE a \in AutoPinActions \cup OwnerCalls /\ Answers(t, OK, "yes", TRUE)
      BY <1>0, <2>1, OKRight, AnswersDone, Zenon DEF OKCalls
    <2> QED
      BY <1>0, <1>4, <1>12, <2>1, Zenon DEF HandleAutoPin
  <1>13. CASE AnswerLost(t)
    <2> DEFINE r == [call[t] EXCEPT !.at = "told", !.lost = TRUE, !.told = "error"]
    <2>1. call[t] \in Calls
      BY DEF CallInv
    <2>2. /\ r \in Calls /\ r.at = "told" /\ r.lost = TRUE /\ r.told = "error"
          /\ call' = [call EXCEPT ![t] = r]
      BY <1>13, <2>1, Zenon DEF AnswerLost, Calls, Places
    <2> HIDE DEF r
    <2>3. CallOK(r)
      BY <2>2 DEF CallOK, AnswerOK, EndOK, Heard
    <2> QED
      BY <2>2, <2>3, CallChanges, Zenon
  <1> QED
    BY <1>1, <1>2, <1>3, <1>5, <1>6, <1>7, <1>8, <1>9, <1>10, <1>11, <1>12, <1>13
    DEF DeviceStep

(* The client tells the app.                                               *)
LEMMA TellsKeeps ==
  ASSUME CallInv, NEW t \in Callers, NEW told \in {"ok", "error"}, Tells(t, told),
         Heard(call[t]) => told = "ok", Undone(call[t]) => told = "error"
  PROVE  CallInv'
  <1> DEFINE r == [call[t] EXCEPT !.at = "told", !.told = told]
  <1>1. call[t] \in Calls
    BY DEF CallInv
  <1>2. /\ r \in Calls /\ r.at = "told" /\ r.told = told /\ r.done = call[t].done
        /\ r.lost = call[t].lost /\ r.action = call[t].action
    BY <1>1, Zenon DEF Calls, Places
  <1>3. call' = [call EXCEPT ![t] = r]
    BY <1>1, Zenon DEF Tells, Calls
  <1> HIDE DEF r
  <1>4. CallOK(r)
    BY <1>2 DEF CallOK, AnswerOK, EndOK, Heard, Undone
  <1> QED
    BY <1>3, <1>4, CallChanges, Zenon

(* A caller without a call.                                                *)
LEMMA NoCallFacts == NoCall \in Calls /\ NoCall.at = "idle"
  <1>1. "Reboot" \in DOMAIN DeviceCalls
    BY DEF DeviceCalls, Expecting
  <1>2. "Reboot" \in AllCalls
    BY <1>1 DEF AllCalls, Client, ClientMethods
  <1> QED
    BY <1>2 DEF NoCall, Calls, Places

LEMMA ClientKeeps == ASSUME CallInv, NEW t \in Callers, ClientStep(t) PROVE CallInv'
  <1>1. call[t] \in Calls /\ AnswerOK(call[t]) /\ EndOK(call[t])
    BY DEF CallInv, CallOK
  <1>2. Client[call[t].action] = Succeeds(call[t].action)
    <2>1. call[t].action \in AllCalls
      BY <1>1 DEF Calls
    <2> QED
      BY <2>1, ClientExpects
  <1>3. CASE \E a \in May[t] : Sends(t, a)
    <2>1. PICK a \in May[t] : Sends(t, a)
      BY <1>3
    <2>2. a \in AllCalls
      BY <2>1, RemoteAssumption
    <2> DEFINE r == [NoCall EXCEPT !.at = "sent", !.action = a]
    <2>3. r \in Calls /\ r.at = "sent"
      BY <2>2 DEF NoCall, Calls, Places
    <2>4. call' = [call EXCEPT ![t] = r]
      BY <2>1, Zenon DEF Sends
    <2> HIDE DEF r
    <2> QED
      BY <2>3, <2>4, OnTheWay, CallChanges, Zenon
  <1>4. CASE ClientAccepts(t)
    <2>1. call[t].at = "answered" /\ Taken(call[t])
      BY <1>2, <1>4 DEF ClientAccepts, Taken
    <2>2. CASE call[t].body = "no" /\ Tells(t, "error")
      <3>1. ~Heard(call[t])
        BY <1>1, <2>1, <2>2 DEF AnswerOK
      <3> QED
        BY <2>2, <3>1, TellsKeeps
    <2>3. CASE call[t].body # "no" /\ Tells(t, "ok")
      <3>1. ~Undone(call[t])
        BY <1>1, <2>1, <2>3 DEF AnswerOK
      <3> QED
        BY <2>3, <3>1, TellsKeeps
    <2> QED
      BY <1>4, <2>2, <2>3 DEF ClientAccepts
  <1>5. CASE ClientFails(t)
    <2>1. call[t].at = "answered" /\ ~Taken(call[t])
      BY <1>2, <1>5 DEF ClientFails, Taken
    <2>2. ~Heard(call[t])
      BY <1>1, <2>1 DEF AnswerOK
    <2> QED
      BY <1>5, <2>2, TellsKeeps DEF ClientFails
  <1>6. CASE ClientReturns(t)
    BY <1>6, NoCallFacts, OnTheWay, CallChanges, Zenon DEF ClientReturns
  <1> QED
    BY <1>3, <1>4, <1>5, <1>6 DEF ClientStep

(* The calls of every run.                                                 *)
LEMMA CallsHold == RemoteSpec => []CallInv
  <1>1. RemoteInit => CallInv
    BY NoCallFacts, OnTheWay DEF RemoteInit, CallInv
  <1>2. CallInv /\ [RemoteNext]_remoteVars => CallInv'
    <2> SUFFICES ASSUME CallInv, [RemoteNext]_remoteVars PROVE CallInv'
      OBVIOUS
    <2>1. CASE OwnerSetsAuth \/ UNCHANGED remoteVars
      <3>1. call' = call
        BY <2>1 DEF OwnerSetsAuth, remoteVars
      <3> QED
        BY <3>1 DEF CallInv
    <2> QED
      BY <2>1, DeviceKeeps, ClientKeeps DEF RemoteNext
  <1> QED
    BY <1>1, <1>2, PTL DEF RemoteSpec

(* What a handler of the blox has done, its client method reports as done  *)
(* when the answer arrives, but for the two Wi-Fi calls that DoneIsTold    *)
(* leaves out: for any callers, and whatever calls each of them makes.     *)
THEOREM DoneIsToldHolds == RemoteSpec => []DoneIsTold
  <1>1. CallInv => DoneIsTold
    BY DEF CallInv, CallOK, EndOK, Heard, DoneIsTold, Calls
  <1> QED
    BY <1>1, CallsHold, PTL

(* What a handler has refused or failed to do is reported as an error, but *)
(* for the calls that UndoneIsTold names: for any callers and calls.       *)
THEOREM UndoneIsToldHolds == RemoteSpec => []UndoneIsTold
  <1>1. CallInv => UndoneIsTold
    BY DEF CallInv, CallOK, EndOK, Undone, Exempt, UndoneIsTold, Calls
  <1> QED
    BY <1>1, CallsHold, PTL

=============================================================================
