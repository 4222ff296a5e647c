------------------------------ MODULE RemoteCall ------------------------------
(***************************************************************************)
(* The calls of the app to its device: the client methods of FxBlockchain, *)
(* the signed request through the proxy, the check of the caller, the      *)
(* dispatch to a handler, the handler's answer and what the client makes   *)
(* of it.  What the text of an error says is left out.                     *)
(***************************************************************************)
CONSTANTS
    Callers,      \* goroutines of the app that make calls
    May           \* caller -> the calls it makes

OK == "200"
Accepted == "202"
NoContent == "204"
Refused == "401"
NotFound == "404"
Failed == "500"

-----------------------------------------------------------------------------
(***************************************************************************)
(* The client methods: the status each one takes for success ("any": it    *)
(* does not look).  Another one is an error, with the body as its text or  *)
(* with the fields of it that are read into apiError.                      *)
(***************************************************************************)
Expecting(names, status) == [n \in names |-> status]

WipeCalls == Expecting({"BloxFreeSpace", "EraseBlData", "WifiRemoveall"}, OK)
DeviceCalls == Expecting({"Reboot", "Partition", "DeleteFulaConfig", "GetAccount"}, OK)
LogCalls == Expecting({"FetchContainerLogs"}, Accepted)
SizeCalls == Expecting({"FindBestAndTargetInLogs", "GetFolderSize", "GetDatastoreSize"},
                       Accepted)
InfoCalls == Expecting({"GetDockerImageBuildDates", "GetClusterInfo"}, OK)
WifiCalls == Expecting({"DeleteWifi", "DisconnectWifi"}, Accepted)
PoolCreateCalls == Expecting({"PoolCreate"}, Accepted)
PoolJoinCalls == Expecting({"PoolJoin", "PoolCancelJoin"}, Accepted)
PoolQueryCalls == Expecting({"PoolRequests", "PoolList", "ReplicateInPool"}, Accepted)
PoolVoteCalls == Expecting({"PoolUserList", "PoolVote", "PoolLeave"}, Accepted)
ManifestUploadCalls == Expecting({"ManifestUpload"}, Accepted)
ManifestStoreCalls == Expecting({"ManifestStore"}, Accepted)
ManifestBatchCalls == Expecting({"ManifestAvailable", "ManifestBatchStore",
                                 "ManifestBatchUpload"}, Accepted)
ManifestRemoveCalls == Expecting({"ManifestRemove", "ManifestRemoveStorer",
                                  "ManifestRemoveStored"}, Accepted)
AccountCalls == Expecting({"Seeded", "AccountCreate", "AccountFund", "AccountExists"},
                          Accepted)
BalanceCalls == Expecting({"AccountBalance", "AssetsBalance", "TransferToGoerli",
                           "TransferToMumbai"}, Accepted)
PluginListCalls == Expecting({"ListPlugins", "InstallPlugin", "UninstallPlugin",
                              "ListActivePlugins"}, "any")
PluginOutputCalls == Expecting({"GetInstallOutput", "GetInstallStatus"}, "any")
PluginUpdateCalls == Expecting({"UpdatePlugin"}, "any")
AutoPinCalls == Expecting({"AutoPinPair", "AutoPinRefresh", "AutoPinUnpair"}, OK)
NasCalls == Expecting({"NasCredentials"}, OK)

ClientMethods ==
    {WipeCalls, DeviceCalls, LogCalls, SizeCalls, InfoCalls, WifiCalls, PoolCreateCalls,
     PoolJoinCalls, PoolQueryCalls, PoolVoteCalls, ManifestUploadCalls, ManifestStoreCalls,
     ManifestBatchCalls, ManifestRemoveCalls, AccountCalls, BalanceCalls, PluginListCalls,
     PluginOutputCalls, PluginUpdateCalls, AutoPinCalls, NasCalls}
Client == [a \in UNION {DOMAIN f : f \in ClientMethods} |->
             (CHOOSE f \in ClientMethods : a \in DOMAIN f)[a]]
AllCalls == DOMAIN Client
PluginCalls == DOMAIN PluginListCalls \cup DOMAIN PluginOutputCalls \cup DOMAIN PluginUpdateCalls

ASSUME RemoteAssumption == May \in [Callers -> SUBSET AllCalls]

\* The caller is one of the device's authorized peers, or its owner; replication is
\* asked of a pool host, a device that is its own owner.
OwnerCalls == {"NasCredentials"}
PoolHostCalls == {"ReplicateInPool"}
NeverAuthorized == {"AccountCreate", "AccountBalance", "PoolUserList", "TransferToGoerli",
                    "ManifestBatchStore"}

\* The handlers of dispatch, by what they do.
NotDispatched == {"AccountCreate", "AccountBalance", "AccountFund", "PoolUserList"}
ChainActions == {"Seeded", "AccountExists", "AssetsBalance", "TransferToGoerli", "TransferToMumbai",
                 "PoolCreate", "PoolRequests", "PoolList", "PoolVote", "ManifestUpload",
                 "ManifestStore", "ManifestAvailable", "ManifestBatchStore", "ManifestRemove",
                 "ManifestRemoveStorer", "ManifestRemoveStored"}
ToolActions == {"EraseBlData", "WifiRemoveall", "Reboot", "Partition", "DeleteFulaConfig",
                "DeleteWifi", "DisconnectWifi"}
LogActions == {"FetchContainerLogs", "FindBestAndTargetInLogs"}
SizeActions == {"GetFolderSize", "GetDatastoreSize"}
ReportActions == {"BloxFreeSpace", "GetDockerImageBuildDates", "GetClusterInfo"}
AutoPinActions == {"AutoPinPair", "AutoPinRefresh", "AutoPinUnpair"}

-----------------------------------------------------------------------------
VARIABLES
    call,         \* caller -> its call
    authorization \* whether the caller is "owner", "delegated" or "none" to the device

remoteVars == <<call, authorization>>

\* "done": the device did what was asked; "body": what the answer says of it, "yes"
\* or "no" in fields of its own, or "error" for a message; "lost": the answer of the
\* chain or of the device did not arrive.
NoCall == [at |-> "idle", action |-> "Reboot", status |-> "none", body |-> "error",
           done |-> FALSE, lost |-> FALSE, told |-> "none"]

RemoteInit ==
    /\ call = [t \in Callers |-> NoCall]
    /\ authorization \in {"owner", "delegated", "none"}

\* A client method: the request is signed and sent.
Sends(t, a) ==
    /\ call[t].at = "idle"
    /\ call' = [call EXCEPT ![t] = [NoCall EXCEPT !.at = "sent", !.action = a]]
    /\ UNCHANGED authorization

Answers(t, status, body, done) ==
    call' = [call EXCEPT ![t].at = "answered", ![t].status = status,
                         ![t].body = body, ![t].done = done]

\* What the handler has asked another service for may or may not have been done.
AnswersLate(t, status, done) ==
    call' = [call EXCEPT ![t].at = "answered", ![t].status = status, ![t].body = "error",
                         ![t].done = done, ![t].lost = TRUE]

Authorizes(a) ==
    /\ a \notin NeverAuthorized
    /\ \/ a \in OwnerCalls /\ authorization = "owner"
       \/ a \in PoolHostCalls /\ authorization # "owner"
       \/ a \notin OwnerCalls \cup PoolHostCalls /\ authorization # "none"

\* serveProxy: a request that is not signed in time, or whose caller may not make
\* it, is refused.
ProxyRefuses(t) ==
    /\ call[t].at = "sent" /\ Answers(t, Refused, "error", FALSE)
    /\ UNCHANGED authorization

ProxyAdmits(t) ==
    /\ call[t].at = "sent" /\ Authorizes(call[t].action)
    /\ call' = [call EXCEPT ![t].at = "admitted"]
    /\ UNCHANGED authorization

\* dispatch, for what has no handler, and for the handler that does nothing.
DispatchesNone(t) ==
    /\ call[t].at = "admitted"
    /\ \/ call[t].action \in NotDispatched /\ Answers(t, NotFound, "error", FALSE)
       \/ call[t].action = "GetAccount" /\ Answers(t, OK, "error", FALSE)
    /\ UNCHANGED authorization

\* Mutant: the status of the chain is passed on when the call succeeded, too.
HandleActionPasses(t) ==
    /\ call[t].at = "admitted" /\ call[t].action \in ChainActions
    /\ Answers(t, OK, "yes", TRUE)
    /\ UNCHANGED authorization

\* handleAction: the chain does it, refuses it, or does not answer in time.  Then
\* WriteHeader(0) panics and the connection is dropped; if only the body is late, the
\* chain's status is passed on with an error.
HandleAction(t) ==
    /\ call[t].at = "admitted" /\ call[t].action \in ChainActions
    /\ \/ Answers(t, Accepted, "yes", TRUE)
       \/ \E body \in {"error", "no"} : Answers(t, Failed, body, FALSE)
       \/ \E done \in BOOLEAN : AnswersLate(t, OK, done)
       \/ \E done \in BOOLEAN :
             call' = [call EXCEPT ![t].at = "dropped", ![t].done = done]
    /\ UNCHANGED authorization

\* handleActionManifestBatchUpload: the cluster of the pool is asked to pin, without a
\* pool nobody is.
HandleBatchUpload(t) ==
    /\ call[t].at = "admitted" /\ call[t].action = "ManifestBatchUpload"
    /\ \/ \E done \in BOOLEAN : Answers(t, Accepted, "yes", done)
       \/ Answers(t, Failed, "error", FALSE)
       \/ \E done \in BOOLEAN : AnswersLate(t, Failed, done)
    /\ UNCHANGED authorization

\* handleReplicateInPool: what the chain knows is pinned, and the answer lists what
\* could be, which may be nothing.
HandleReplicate(t) ==
    /\ call[t].at = "admitted" /\ call[t].action = "ReplicateInPool"
    /\ \/ \E done \in BOOLEAN : Answers(t, Accepted, "yes", done)
       \/ \E body \in {"error", "no"} : Answers(t, Failed, body, FALSE)
       \/ Answers(t, NoContent, "error", FALSE)
       \/ AnswersLate(t, OK, FALSE)
       \/ call' = [call EXCEPT ![t].at = "dropped"]
    /\ UNCHANGED authorization

\* HandlePoolJoin: an error of the request, of the validation or of one of the two
\* writes of the config is answered as one.
HandlePoolJoin(t) ==
    /\ call[t].at = "admitted" /\ call[t].action = "PoolJoin"
    /\ Answers(t, Accepted, "yes", TRUE) \/ Answers(t, Failed, "error", FALSE)
    /\ UNCHANGED authorization

\* HandlePoolCancelJoin: after a chain that accepts, errors of the clean-up are only
\* logged.  After one that fails and holds no open request, the handler cleans up
\* itself and reports errors of that; if a request is open or that cannot be read
\* either, a chain that did not answer panics WriteHeader(0), and the status 200 of
\* one whose answer broke off becomes 202 without a clean-up.  A refusal of the
\* chain that is not JSON panics err.Error(), since err is nil.
HandlePoolCancelJoin(t) ==
    /\ call[t].at = "admitted" /\ call[t].action = "PoolCancelJoin"
    /\ \/ \E done \in BOOLEAN : Answers(t, Accepted, "yes", done)
       \/ Answers(t, Failed, "error", FALSE)
       \/ AnswersLate(t, Accepted, FALSE)
       \/ \E done \in BOOLEAN :
             call' = [call EXCEPT ![t].at = "dropped", ![t].done = done]
    /\ UNCHANGED authorization

\* HandlePoolLeave: another pool or chain, a membership that is left to be removed or
\* could not be read, and a clean-up that failed are answered as errors.
HandlePoolLeave(t) ==
    /\ call[t].at = "admitted" /\ call[t].action = "PoolLeave"
    /\ Answers(t, Accepted, "yes", TRUE) \/ Answers(t, Failed, "error", FALSE)
    /\ UNCHANGED authorization

\* The handlers that run a tool of the device, whose answer says how it went.
HandleTool(t) ==
    /\ call[t].at = "admitted" /\ call[t].action \in ToolActions
    /\ \E done \in BOOLEAN : Answers(t, OK, IF done THEN "yes" ELSE "no", done)
    /\ UNCHANGED authorization

HandleLogs(t) ==
    /\ call[t].at = "admitted" /\ call[t].action \in LogActions
    /\ \E done \in BOOLEAN : Answers(t, Accepted, IF done THEN "yes" ELSE "no", done)
    /\ UNCHANGED authorization

\* The handlers whose answer is zeros or empty when the value could not be found.
HandleSizes(t) ==
    /\ call[t].at = "admitted" /\ call[t].action \in SizeActions
    /\ \E done \in BOOLEAN : Answers(t, Accepted, "yes", done)
    /\ UNCHANGED authorization

HandleReport(t) ==
    /\ call[t].at = "admitted" /\ call[t].action \in ReportActions
    /\ \E done \in BOOLEAN : Answers(t, OK, "yes", done)
    /\ UNCHANGED authorization

\* handlePluginAction: the answer says how it went, or that there was an error.
HandlePlugin(t) ==
    /\ call[t].at = "admitted" /\ call[t].action \in PluginCalls
    /\ \/ \E done \in BOOLEAN : Answers(t, OK, IF done THEN "yes" ELSE "no", done)
       \/ Answers(t, Failed, "error", FALSE)
    /\ UNCHANGED authorization

\* Mutant: a request that cannot be carried out is answered with the status of one
\* that can.
HandleAutoPinAlways(t) ==
    /\ call[t].at = "admitted" /\ call[t].action \in AutoPinActions \cup OwnerCalls
    /\ \E done \in BOOLEAN : Answers(t, OK, "yes", done)
    /\ UNCHANGED authorization

\* The auto-pin handlers and handleNasCredentials.
HandleAutoPin(t) ==
    /\ call[t].at = "admitted" /\ call[t].action \in AutoPinActions \cup OwnerCalls
    /\ \/ Answers(t, OK, "yes", TRUE)
       \/ Answers(t, Failed, "error", FALSE)
    /\ UNCHANGED authorization

\* The answer does not arrive: it is lost, or the handler has panicked.
AnswerLost(t) ==
    /\ call[t].at \in {"answered", "dropped"}
    /\ call' = [call EXCEPT ![t].at = "told", ![t].lost = TRUE, ![t].told = "error"]
    /\ UNCHANGED authorization

-----------------------------------------------------------------------------
Tells(t, told) == call' = [call EXCEPT ![t].at = "told", ![t].told = told]

\* The client takes the answer for success; the app reads what the body says.
ClientAccepts(t) ==
    /\ call[t].at = "answered" /\ Client[call[t].action] \in {"any", call[t].status}
    /\ Tells(t, IF call[t].body = "no" THEN "error" ELSE "ok")
    /\ UNCHANGED authorization

\* ... or for an error.
ClientFails(t) ==
    /\ call[t].at = "answered" /\ Client[call[t].action] \notin {"any", call[t].status}
    /\ Tells(t, "error")
    /\ UNCHANGED authorization

ClientReturns(t) ==
    /\ call[t].at = "told" /\ call' = [call EXCEPT ![t] = NoCall]
    /\ UNCHANGED authorization

\* handleAuthorization and SetAuth: the owner authorizes the caller, or no longer.
OwnerSetsAuth ==
    /\ \/ authorization = "delegated" /\ authorization' = "none"
       \/ authorization = "none" /\ authorization' = "delegated"
    /\ UNCHANGED call

DeviceStep(t) ==
    \/ ProxyRefuses(t) \/ ProxyAdmits(t) \/ DispatchesNone(t) \/ HandleAction(t)
    \/ HandleBatchUpload(t) \/ HandleReplicate(t)
    \/ HandlePoolJoin(t) \/ HandlePoolCancelJoin(t) \/ HandlePoolLeave(t) \/ HandleTool(t)
    \/ HandleLogs(t) \/ HandleSizes(t) \/ HandleReport(t) \/ HandlePlugin(t)
    \/ HandleAutoPin(t) \/ AnswerLost(t)

ClientStep(t) ==
    \/ \E a \in May[t] : Sends(t, a)
    \/ ClientAccepts(t) \/ ClientFails(t) \/ ClientReturns(t)

RemoteNext ==
    \/ OwnerSetsAuth
    \/ \E t \in Callers : DeviceStep(t) \/ ClientStep(t)

RemoteSpec == RemoteInit /\ [][RemoteNext]_remoteVars

-----------------------------------------------------------------------------
\* What the device has done is told to the app, if the answer arrives: each handler
\* answers with the status its client takes for success.  Removing and disconnecting
\* a Wi-Fi are left out: their handlers answer 200 and their clients expect 202.
DoneIsTold ==
    \A t \in Callers :
        call[t].at = "told" /\ call[t].done /\ ~call[t].lost
            /\ call[t].action \notin DOMAIN WifiCalls => call[t].told = "ok"

\* What the device has not done is never told to be done, but for the calls whose
\* handlers report nothing as zeros or as an empty list (sizes, free space, images,
\* cluster, replication, an upload without a pool), the one that has no handler, the
\* plugin calls, which take any status for success, and the cancelling of a join,
\* which is accepted also when its clean-up failed or was left out.
UndoneIsTold ==
    \A t \in Callers :
        call[t].at = "told" /\ ~call[t].done
            /\ call[t].action \notin SizeActions \cup ReportActions \cup PluginCalls
                                     \cup {"GetAccount", "ReplicateInPool", "ManifestBatchUpload",
                                           "PoolCancelJoin"}
            => call[t].told = "error"
=============================================================================
