----------------------------- MODULE PluginFiles -----------------------------
(***************************************************************************)
(* The plugin handlers of the blox: active-plugins.txt, update-plugins.txt *)
(* and the parameter files of each plugin.  A handler reads a list,        *)
(* changes its copy and writes it back with os.WriteFile, which first      *)
(* truncates the file, and so are the parameter files written one by one;  *)
(* handlers run concurrently without a lock, and the process may die       *)
(* between any two steps.                                                  *)
(*                                                                         *)
(* A list is the set of its names: a name is appended only when the copy   *)
(* does not have it.  The empty name that Split makes of an empty file is  *)
(* trimmed away by the next read and equals no plugin's name.              *)
(***************************************************************************)
EXTENDS Naturals

CONSTANTS
    Plugins,      \* names of plugins
    Params,       \* plugin -> the parameters its installation brings
    Updated,      \* the plugins that updates are requested of
    Handlers,     \* requests that may run at the same time
    Junk          \* a name made of the remains of two lists written at once

ASSUME PluginAssumption == Plugins # {} /\ Junk \notin Plugins /\ Updated \subseteq Plugins

VARIABLES
    file,         \* content of the lists "active" and "update"
    written,      \* the <<plugin, parameter>> whose file holds a value
    cut,          \* those truncated by an overlapping request that did not fill them
    request,      \* handler -> the request it serves
    kept          \* installed by a request that ran alone, and not disturbed since

pluginVars == <<file, written, cut, request, kept>>

Ops == {"install", "uninstall", "update"}
Names == Plugins \cup {Junk}
ParamNames == UNION {Params[p] : p \in Plugins}
ListOf(o) == IF o = "update" THEN "update" ELSE "active"

\* What a handler is serving: the step it is at, its operation and plugin, its copy
\* of the list, the parameters it has to write, the one whose file it has opened, and
\* whether no other request has run beside it.
Request == [at : {"idle", "read", "params", "truncate", "write", "status"},
            op : Ops, plugin : Plugins, copy : SUBSET Names, todo : SUBSET ParamNames,
            opened : SUBSET ParamNames, alone : BOOLEAN]
Idle == [at |-> "idle", op |-> "install", plugin |-> CHOOSE p \in Plugins : TRUE,
         copy |-> {}, todo |-> {}, opened |-> {}, alone |-> TRUE]
Busy == {h \in Handlers : request[h].at # "idle"}

PluginTypeOK ==
    /\ file \in [{"active", "update"} -> SUBSET Names]
    /\ written \subseteq Plugins \X ParamNames /\ cut \subseteq Plugins \X ParamNames
    /\ kept \subseteq Plugins
    /\ request \in [Handlers -> Request]

PluginInit ==
    /\ file = [l \in {"active", "update"} |-> {}]
    /\ written = {} /\ cut = {} /\ kept = {}
    /\ request = [h \in Handlers |-> Idle]

\* The list is as it should be: the status file and the answer remain.
Listed(h) == request' = [request EXCEPT ![h] = [Idle EXCEPT !.at = "status",
                                                  !.plugin = request[h].plugin,
                                                  !.alone = request[h].alone]]
Answers(h) == request' = [request EXCEPT ![h] = Idle]

-----------------------------------------------------------------------------
\* handlePluginAction: a request with a plugin's name arrives.
Arrives(h, o, p) ==
    /\ h \notin Busy
    /\ o = "update" => p \in Updated
    /\ request' = [g \in Handlers |->
                     IF g = h THEN [Idle EXCEPT !.at = "read", !.op = o, !.plugin = p,
                                                !.alone = (Busy = {})]
                     ELSE IF g \in Busy THEN [request[g] EXCEPT !.alone = FALSE] ELSE Idle]
    /\ kept' = IF Busy # {} THEN {} ELSE IF o = "uninstall" THEN kept \ {p} ELSE kept
    /\ UNCHANGED <<file, written, cut>>

Copies(h, at, new, todo) ==
    request' = [request EXCEPT ![h].at = at, ![h].copy = new, ![h].todo = todo]

\* installPluginImpl reads the list: a plugin that is listed is not installed again.
installPlugin(h) ==
    LET p == request[h].plugin
        list == file["active"] IN
    /\ request[h].at = "read" /\ request[h].op = "install"
    /\ \/ p \in list /\ Listed(h)
       \/ /\ p \notin list
          /\ Copies(h, IF Params[p] = {} THEN "truncate" ELSE "params", list \cup {p}, Params[p])
    /\ UNCHANGED <<file, written, cut, kept>>

\* uninstallPluginImpl reads the list: one that is not listed cannot be removed.
uninstallPlugin(h) ==
    LET p == request[h].plugin
        list == file["active"] IN
    /\ request[h].at = "read" /\ request[h].op = "uninstall"
    /\ \/ p \in list /\ Copies(h, "truncate", list \ {p}, {})
       \/ p \notin list /\ Answers(h)
    /\ UNCHANGED <<file, written, cut, kept>>

\* updatePluginImpl reads the list of updates: one that waits is not queued again.
updatePlugin(h) ==
    LET p == request[h].plugin
        list == file["update"] IN
    /\ request[h].at = "read" /\ request[h].op = "update"
    /\ \/ p \notin list /\ Copies(h, "truncate", list \cup {p}, {})
       \/ p \in list /\ Answers(h)
    /\ UNCHANGED <<file, written, cut, kept>>

\* The next parameter: its file is opened and truncated; a parameter without a value
\* or a failure ends the request.
OpensParam(h) ==
    /\ request[h].at = "params" /\ request[h].opened = {}
    /\ \/ \E n \in request[h].todo :
             /\ written' = written \ {<<request[h].plugin, n>>}
             /\ request' = [request EXCEPT ![h].opened = {n}]
       \/ Answers(h) /\ UNCHANGED written
    /\ UNCHANGED <<file, cut, kept>>

Opened(h) == {request[h].plugin} \X request[h].opened
CutShort(h) == IF request[h].alone THEN {} ELSE Opened(h)

\* Mutant: only the first parameter is written.
FillsFirst(h) ==
    /\ request[h].at = "params" /\ request[h].opened # {}
    /\ written' = written \cup Opened(h) /\ cut' = cut \ Opened(h)
    /\ request' = [request EXCEPT ![h].at = "truncate", ![h].opened = {}, ![h].todo = {}]
    /\ UNCHANGED <<file, kept>>

\* ... and is written; a write that fails leaves it empty and ends the request.
FillsParam(h) ==
    LET left == request[h].todo \ request[h].opened IN
    /\ request[h].at = "params" /\ request[h].opened # {}
    /\ \/ /\ written' = written \cup Opened(h) /\ cut' = cut \ Opened(h)
          /\ request' = [request EXCEPT ![h].at = IF left = {} THEN "truncate" ELSE "params",
                                        ![h].opened = {}, ![h].todo = left]
       \/ Answers(h) /\ cut' = cut \cup CutShort(h) /\ UNCHANGED written
    /\ UNCHANGED <<file, kept>>

\* os.WriteFile opens the list and truncates it, or fails to open it.
Truncates(h) ==
    /\ request[h].at = "truncate"
    /\ \/ file' = [file EXCEPT ![ListOf(request[h].op)] = {}] /\ request' = [request EXCEPT ![h].at = "write"]
       \/ Answers(h) /\ UNCHANGED file
    /\ UNCHANGED <<written, cut, kept>>

\* Mutant: only the new plugin's name is written.
WritesOne(h) ==
    LET l == ListOf(request[h].op) IN
    /\ request[h].at = "write"
    /\ file' = [file EXCEPT ![l] = request[h].copy \cap {request[h].plugin}]
    /\ IF request[h].op = "install" THEN Listed(h) ELSE Answers(h)
    /\ UNCHANGED <<written, cut, kept>>

\* The copy is written from the start of the file: over a list that another
\* request has written meanwhile some of its names may stay, or a torn one.  A
\* write that fails leaves the list empty.
Writes(h) ==
    LET l == ListOf(request[h].op) IN
    /\ request[h].at = "write"
    /\ \/ /\ \E rest \in SUBSET (IF file[l] = {} THEN {} ELSE file[l] \cup {Junk}) :
                file' = [file EXCEPT ![l] = request[h].copy \cup rest]
          /\ IF request[h].op = "install" THEN Listed(h) ELSE Answers(h)
          /\ UNCHANGED kept
       \/ Answers(h) /\ kept' = {} /\ UNCHANGED file
    /\ UNCHANGED <<written, cut>>

\* setPluginStatus, whose error is ignored and whose file no step here reads, and
\* the answer.
SetsStatus(h) ==
    /\ request[h].at = "status" /\ Answers(h)
    /\ kept' = IF request[h].alone THEN kept \cup {request[h].plugin} ELSE kept
    /\ UNCHANGED <<file, written, cut>>

\* The process dies; what was truncated and not written yet stays empty.
PluginCrash ==
    /\ Busy # {}
    /\ kept' = IF \E h \in Busy : request[h].at = "write" THEN {} ELSE kept
    /\ cut' = cut \cup UNION {CutShort(h) : h \in Busy}
    /\ request' = [h \in Handlers |-> Idle]
    /\ UNCHANGED <<file, written>>

HandlerStep(h) ==
    \/ \E o \in Ops, p \in Plugins : Arrives(h, o, p)
    \/ installPlugin(h) \/ uninstallPlugin(h) \/ updatePlugin(h)
    \/ OpensParam(h) \/ FillsParam(h) \/ Truncates(h) \/ Writes(h) \/ SetsStatus(h)

PluginNext == PluginCrash \/ \E h \in Handlers : HandlerStep(h)

PluginSpec == PluginInit /\ [][PluginNext]_pluginVars

-----------------------------------------------------------------------------
\* Whoever watches active-plugins.txt finds every parameter of a listed plugin in its
\* file, whatever fails and whenever the process dies: a file is missing or empty only
\* while an installation rewrites it, or after one that overlapped another request was
\* cut short while it rewrote it.
ParamsBeforeActive ==
    \A p \in file["active"] \cap Plugins :
        {p} \X Params[p] \subseteq written \cup cut \cup UNION {Opened(h) : h \in Handlers}

\* A plugin whose installation was answered stays active until it is removed,
\* unless requests overlapped, a write failed or the process died while it rewrote
\* the list.
InstalledStays ==
    (\A h \in Handlers : request[h].at # "write") => kept \subseteq file["active"]
=============================================================================
