--------------------------- MODULE BoxFilesProofs ---------------------------
(***************************************************************************)
(* Proofs about the files that requests to the box rewrite, for any number *)
(* of requests at the same time.  PluginFiles: a plugin is listed only     *)
(* behind its parameters, and an installation that was answered is lost    *)
(* only in the ways the code allows.  BoxProps: box_props.json holds what  *)
(* the last answered request left, and no pairing secret is replaced.      *)
(***************************************************************************)
EXTENDS PluginFiles, BoxProps, TLAPS

(* PART ONE: the files of the plugins.                                     *)
-----------------------------------------------------------------------------
(* Types.                                                                  *)

LEMMA IdleTyped == Idle \in Request
  <1>1. (CHOOSE p \in Plugins : TRUE) \in Plugins
    BY PluginAssumption
  <1> QED
    BY <1>1 DEF Idle, Request, Ops

\* The fields of an idle handler.
LEMMA IdleFields ==
  /\ Idle.at = "idle" /\ Idle.op = "install" /\ Idle.copy = {} /\ Idle.alone
  /\ Idle.todo = {} /\ Idle.opened = {}
  BY DEF Idle

\* What a request that arrives makes of the handlers.
LEMMA ArrivalShape ==
  ASSUME PluginTypeOK, NEW h \in Handlers, NEW o \in Ops, NEW p \in Plugins, Arrives(h, o, p)
  PROVE  /\ request'[h].at = "read" /\ request'[h].op = o /\ request'[h].plugin = p
         /\ request'[h].alone = (Busy = {}) /\ request'[h].opened = {}
         /\ \A g \in Busy : /\ g # h /\ request'[g].at = request[g].at
                            /\ request'[g].op = request[g].op
                            /\ request'[g].plugin = request[g].plugin
                            /\ request'[g].copy = request[g].copy
                            /\ request'[g].todo = request[g].todo
                            /\ request'[g].opened = request[g].opened
                            /\ request'[g].alone = FALSE
         /\ \A g \in Handlers \ (Busy \cup {h}) : request'[g].at = "idle" /\ request'[g].opened = {}
  BY IdleTyped, Zenon DEF Arrives, PluginTypeOK, Idle, Request, Busy

\* What the ways to go on make of the handlers.
LEMMA ListedShape ==
  ASSUME PluginTypeOK, NEW h \in Handlers, Listed(h)
  PROVE  /\ request'[h].at = "status" /\ request'[h].op = "install"
         /\ request'[h].plugin = request[h].plugin
         /\ request'[h].alone = request[h].alone /\ request'[h].opened = {}
         /\ \A g \in Handlers \ {h} : request'[g] = request[g]
  BY DEF PluginTypeOK, Listed, Request, Idle

LEMMA CopiesShape ==
  ASSUME PluginTypeOK, NEW h \in Handlers, NEW at, NEW new, NEW todo, Copies(h, at, new, todo)
  PROVE  /\ request'[h].at = at /\ request'[h].op = request[h].op
         /\ request'[h].plugin = request[h].plugin /\ request'[h].copy = new
         /\ request'[h].todo = todo /\ request'[h].opened = request[h].opened
         /\ request'[h].alone = request[h].alone
         /\ \A g \in Handlers \ {h} : request'[g] = request[g]
  BY DEF PluginTypeOK, Copies, Request

LEMMA FillsShape ==
  ASSUME PluginTypeOK, NEW h \in Handlers, NEW at, NEW left,
         request' = [request EXCEPT ![h].at = at, ![h].opened = {}, ![h].todo = left]
  PROVE  /\ request'[h].at = at /\ request'[h].op = request[h].op
         /\ request'[h].plugin = request[h].plugin /\ request'[h].copy = request[h].copy
         /\ request'[h].todo = left /\ request'[h].opened = {}
         /\ request'[h].alone = request[h].alone
         /\ \A g \in Handlers \ {h} : request'[g] = request[g]
  BY DEF PluginTypeOK, Request

LEMMA OpensShape ==
  ASSUME PluginTypeOK, NEW h \in Handlers, NEW n, request' = [request EXCEPT ![h].opened = {n}]
  PROVE  /\ request'[h].at = request[h].at /\ request'[h].op = request[h].op
         /\ request'[h].plugin = request[h].plugin /\ request'[h].copy = request[h].copy
         /\ request'[h].todo = request[h].todo /\ request'[h].opened = {n}
         /\ request'[h].alone = request[h].alone
         /\ \A g \in Handlers \ {h} : request'[g] = request[g]
  BY DEF PluginTypeOK, Request

LEMMA WriteShape ==
  ASSUME PluginTypeOK, NEW h \in Handlers, request' = [request EXCEPT ![h].at = "write"]
  PROVE  /\ request'[h].at = "write" /\ request'[h].op = request[h].op
         /\ request'[h].plugin = request[h].plugin /\ request'[h].copy = request[h].copy
         /\ request'[h].opened = request[h].opened
         /\ request'[h].alone = request[h].alone
         /\ \A g \in Handlers \ {h} : request'[g] = request[g]
  BY DEF PluginTypeOK, Request

LEMMA AnswersShape ==
  ASSUME PluginTypeOK, NEW h \in Handlers, Answers(h)
  PROVE  /\ request'[h].at = "idle" /\ request'[h].opened = {}
         /\ \A g \in Handlers \ {h} : request'[g] = request[g]
  BY IdleFields DEF PluginTypeOK, Answers

LEMMA PluginTypes == PluginTypeOK /\ [PluginNext]_pluginVars => PluginTypeOK'
  <1> SUFFICES ASSUME PluginTypeOK, [PluginNext]_pluginVars PROVE PluginTypeOK'
    OBVIOUS
  <1> USE DEF PluginTypeOK
  <1>1. ASSUME NEW h \in Handlers, NEW o \in Ops, NEW p \in Plugins, Arrives(h, o, p)
        PROVE  PluginTypeOK'
    <2>1. (Busy = {}) \in BOOLEAN
      OBVIOUS
    <2>2. [Idle EXCEPT !.at = "read", !.op = o, !.plugin = p, !.alone = (Busy = {})] \in Request
      BY <2>1, IdleTyped, Zenon DEF Request
    <2>3. \A g \in Handlers : [request[g] EXCEPT !.alone = FALSE] \in Request
      BY Zenon DEF Request
    <2> QED
      BY <1>1, <2>2, <2>3, IdleTyped, Zenon DEF Arrives
  <1>l. ASSUME NEW h \in Handlers, Listed(h) PROVE request' \in [Handlers -> Request]
    <2>1. [Idle EXCEPT !.at = "status", !.plugin = request[h].plugin,
                       !.alone = request[h].alone] \in Request
      BY IdleTyped, Zenon DEF Request
    <2> QED
      BY <1>l, <2>1, Zenon DEF Listed
  <1>2. ASSUME NEW h \in Handlers, installPlugin(h) \/ uninstallPlugin(h) \/ updatePlugin(h)
        PROVE  PluginTypeOK'
    <2>1. UNCHANGED <<file, written, cut, kept>>
      BY <1>2 DEF installPlugin, uninstallPlugin, updatePlugin
    <2>2. \A at \in {"params", "truncate"}, new \in SUBSET Names, todo \in SUBSET ParamNames :
            [request[h] EXCEPT !.at = at, !.copy = new, !.todo = todo] \in Request
      BY Zenon DEF Request
    <2>4. ASSUME NEW at \in {"params", "truncate"}, NEW new \in SUBSET Names,
                 NEW todo \in SUBSET ParamNames, Copies(h, at, new, todo)
          PROVE  request' \in [Handlers -> Request]
      BY <2>2, <2>4, Zenon DEF Copies
    <2>5. request[h].plugin \in Plugins
      BY DEF Request
    <2>6. CASE installPlugin(h)
      <3>1. Params[request[h].plugin] \in SUBSET ParamNames
        BY <2>5 DEF ParamNames
      <3>2. file["active"] \cup {request[h].plugin} \in SUBSET Names
        BY <2>5 DEF Names
      <3>3. CASE Listed(h)
        BY <2>1, <3>3, <1>l
      <3>4. (IF Params[request[h].plugin] = {} THEN "truncate" ELSE "params") \in {"params", "truncate"}
        OBVIOUS
      <3> QED
        BY <2>1, <2>4, <2>6, <3>1, <3>2, <3>3, <3>4 DEF installPlugin
    <2>7. CASE uninstallPlugin(h)
      BY <2>1, <2>4, <2>7, IdleTyped DEF uninstallPlugin, Answers
    <2>8. CASE updatePlugin(h)
      BY <2>1, <2>4, <2>5, <2>8, IdleTyped DEF updatePlugin, Answers, Names
    <2> QED
      BY <1>2, <2>6, <2>7, <2>8
  <1>o. ASSUME NEW h \in Handlers, OpensParam(h) PROVE PluginTypeOK'
    <2>1. request[h].todo \subseteq ParamNames
      BY DEF Request
    <2>2. \A n \in request[h].todo : [request[h] EXCEPT !.opened = {n}] \in Request
      BY <2>1, Zenon DEF Request
    <2>3. request' \in [Handlers -> Request]
      BY <1>o, <2>2, IdleTyped DEF OpensParam, Answers
    <2> QED
      BY <1>o, <2>3 DEF OpensParam
  <1>f. ASSUME NEW h \in Handlers, FillsParam(h) PROVE PluginTypeOK'
    <2>1. Opened(h) \subseteq Plugins \X ParamNames
      BY DEF Request, Opened
    <2>2. CutShort(h) \subseteq Plugins \X ParamNames
      BY <2>1 DEF CutShort
    <2> DEFINE left == request[h].todo \ request[h].opened
               at == IF left = {} THEN "truncate" ELSE "params"
    <2>3. left \in SUBSET ParamNames /\ at \in {"truncate", "params"}
      BY DEF Request
    <2> HIDE DEF left, at
    <2>4. [request[h] EXCEPT !.at = at, !.opened = {}, !.todo = left] \in Request
      BY <2>3, Zenon DEF Request
    <2>5. request' \in [Handlers -> Request]
      <3>1. CASE Answers(h)
        BY <3>1, IdleTyped DEF Answers
      <3>2. CASE request' = [request EXCEPT ![h].at = at, ![h].opened = {}, ![h].todo = left]
        BY <2>4, <3>2, Zenon
      <3> QED
        BY <1>f, <3>1, <3>2 DEF FillsParam, left, at
    <2>6. written' \subseteq Plugins \X ParamNames /\ cut' \subseteq Plugins \X ParamNames
      BY <1>f, <2>1, <2>2 DEF FillsParam
    <2> QED
      BY <1>f, <2>5, <2>6 DEF FillsParam
  <1>3. ASSUME NEW h \in Handlers, Truncates(h) PROVE PluginTypeOK'
    <2>1. [request[h] EXCEPT !.at = "write"] \in Request
      BY DEF Request
    <2> QED
      BY <1>3, <2>1, IdleTyped DEF Truncates, Answers
  <1>4. ASSUME NEW h \in Handlers, Writes(h) PROVE PluginTypeOK'
    <2>1. ListOf(request[h].op) \in {"active", "update"}
      BY DEF ListOf
    <2>2. request[h].copy \subseteq Names
      BY DEF Request
    <2>3. file' \in [{"active", "update"} -> SUBSET Names]
      BY <1>4, <2>1, <2>2 DEF Writes, Names
    <2>4. request' \in [Handlers -> Request]
      <3>1. Listed(h) \/ Answers(h)
        BY <1>4 DEF Writes
      <3> QED
        BY <1>l, <3>1, IdleTyped DEF Answers
    <2> QED
      BY <1>4, <2>3, <2>4 DEF Writes
  <1>5. ASSUME NEW h \in Handlers, SetsStatus(h) PROVE PluginTypeOK'
    BY <1>5, IdleTyped DEF SetsStatus, Answers, Request
  <1>6. CASE PluginCrash
    <2>1. \A h \in Busy : CutShort(h) \subseteq Plugins \X ParamNames
      BY DEF CutShort, Opened, Busy, Request
    <2> QED
      BY <1>6, <2>1, IdleTyped DEF PluginCrash
  <1>7. CASE UNCHANGED pluginVars
    BY <1>7 DEF pluginVars
  <1> QED
    BY <1>1, <1>2, <1>o, <1>f, <1>3, <1>4, <1>5, <1>6, <1>7 DEF PluginNext, HandlerStep

-----------------------------------------------------------------------------
(* Installed plugins.                                                      *)

Rewrites(h) == request[h].op # "update"

\* A request that ran beside another one leaves nothing to keep; one that runs
\* alone has a copy of the active list with everything that is to be kept.
KeepInv ==
  /\ PluginTypeOK
  /\ \A h \in Busy : request[h].alone => Busy = {h}
  /\ \A h \in Busy : ~request[h].alone => kept = {}
  /\ \A h \in Busy : request[h].op = "uninstall" => request[h].plugin \notin kept
  /\ \A h \in Busy : request[h].at \in {"params", "truncate", "write"} /\ Rewrites(h) =>
       /\ kept \subseteq request[h].copy
       /\ request[h].op = "install" => request[h].plugin \in request[h].copy
  /\ \A h \in Busy : request[h].at = "status" /\ request[h].alone =>
       request[h].plugin \in file["active"]
  /\ \A h \in Busy : request[h].at = "params" => request[h].op = "install"
  /\ (\A h \in Busy : ~(request[h].at = "write" /\ Rewrites(h))) => kept \subseteq file["active"]

LEMMA KeepInit == PluginInit => KeepInv
  BY IdleTyped, IdleFields DEF PluginInit, KeepInv, PluginTypeOK, Busy

\* What the active list of a request that does not write yet is known to hold.
LEMMA ReadsKept ==
  ASSUME KeepInv, NEW h \in Busy, request[h].at # "write"
  PROVE  kept \subseteq file["active"]
  <1>1. CASE request[h].alone
    BY <1>1 DEF KeepInv
  <1>2. CASE ~request[h].alone
    BY <1>2 DEF KeepInv
  <1> QED
    BY <1>1, <1>2

\* A request that does not write the active list ends and changes nothing.
LEMMA QuietEnd ==
  ASSUME KeepInv, PluginTypeOK', NEW h \in Busy, ~(request[h].at = "write" /\ Rewrites(h)),
         Answers(h), UNCHANGED <<kept, file["active"]>>
  PROVE  KeepInv'
  <1>1. request \in [Handlers -> Request] /\ h \in Handlers
    BY DEF KeepInv, PluginTypeOK, Busy
  <1>2. request'[h].at = "idle" /\ \A g \in Handlers \ {h} : request'[g] = request[g]
    BY <1>1, IdleFields DEF Answers
  <1>3. Busy' = Busy \ {h}
    BY <1>2 DEF Busy
  <1>4. \A g \in Busy' : g \in Busy /\ request'[g] = request[g]
    BY <1>2, <1>3 DEF Busy
  <1>5. \A g \in Busy' : request'[g].alone => Busy' = {g}
    BY <1>3, <1>4 DEF KeepInv
  <1>6. (\A g \in Busy' : ~(request'[g].at = "write" /\ request'[g].op # "update"))
           => kept' \subseteq file'["active"]
    <2> SUFFICES ASSUME \A g \in Busy' : ~(request'[g].at = "write" /\ request'[g].op # "update")
                 PROVE  kept \subseteq file["active"]
      OBVIOUS
    <2>1. \A g \in Busy : ~(request[g].at = "write" /\ Rewrites(g))
      BY <1>3, <1>4 DEF Rewrites
    <2> QED
      BY <2>1 DEF KeepInv
  <1> QED
    BY <1>4, <1>5, <1>6 DEF KeepInv, Rewrites

\* A request goes on to a step before its write, or to the one after it.
LEMMA QuietMove ==
  ASSUME KeepInv, PluginTypeOK', NEW h \in Busy, request[h].at # "write",
         request'[h].at \notin {"idle", "write"},
         request'[h].op = request[h].op, request'[h].plugin = request[h].plugin,
         request'[h].alone = request[h].alone,
         \A g \in Handlers \ {h} : request'[g] = request[g],
         UNCHANGED <<file, kept>>,
         request'[h].at \in {"params", "truncate"} /\ Rewrites(h) =>
            /\ kept \subseteq request'[h].copy
            /\ request[h].op = "install" => request[h].plugin \in request'[h].copy,
         request'[h].at = "status" => request[h].plugin \in file["active"],
         request'[h].at = "params" => request[h].op = "install"
  PROVE  KeepInv'
  <1>1. Busy' = Busy /\ Busy \subseteq Handlers
    BY DEF Busy
  <1>2. \A g \in Busy : /\ request'[g].op = request[g].op
                        /\ request'[g].plugin = request[g].plugin
                        /\ request'[g].alone = request[g].alone
    BY <1>1
  <1>3. kept' \subseteq file'["active"]
    BY ReadsKept
  <1>4. \A g \in Busy \ {h} : request'[g] = request[g]
    BY <1>1
  <1>5. \A g \in Busy : request'[g].at \in {"params", "truncate", "write"} /\ request'[g].op # "update" =>
           /\ kept' \subseteq request'[g].copy
           /\ request'[g].op = "install" => request'[g].plugin \in request'[g].copy
    BY <1>4 DEF KeepInv, Rewrites
  <1>6. \A g \in Busy : request'[g].at = "status" /\ request'[g].alone =>
           request'[g].plugin \in file'["active"]
    BY <1>4 DEF KeepInv
  <1>7. \A g \in Busy : request'[g].at = "params" => request'[g].op = "install"
    BY <1>4 DEF KeepInv
  <1>8. /\ \A g \in Busy : request'[g].alone => Busy = {g}
        /\ \A g \in Busy : ~request'[g].alone => kept' = {}
        /\ \A g \in Busy : request'[g].op = "uninstall" => request'[g].plugin \notin kept'
    BY <1>2 DEF KeepInv
  <1> QED
    BY <1>1, <1>3, <1>5, <1>6, <1>7, <1>8 DEF KeepInv, Rewrites

LEMMA KeepStep == KeepInv /\ [PluginNext]_pluginVars => KeepInv'
  <1> SUFFICES ASSUME KeepInv, [PluginNext]_pluginVars PROVE KeepInv'
    OBVIOUS
  <1>0. PluginTypeOK /\ PluginTypeOK'
    BY PluginTypes DEF KeepInv
  <1> USE <1>0 DEF KeepInv, PluginTypeOK, Busy, Rewrites
  <1>1. ASSUME NEW h \in Handlers, NEW o \in Ops, NEW p \in Plugins, Arrives(h, o, p)
        PROVE  KeepInv'
    <2> HIDE DEF PluginTypeOK, Busy, KeepInv, Rewrites
    <2>1. PluginTypeOK
      BY <1>0
    <2>2. /\ request'[h].at = "read" /\ request'[h].op = o /\ request'[h].plugin = p
          /\ request'[h].alone = (Busy = {})
      BY <1>1, <2>1, ArrivalShape, ZenonT(60)
    <2>3. \A g \in Busy : /\ request'[g].at = request[g].at /\ request'[g].op = request[g].op
                          /\ request'[g].plugin = request[g].plugin
                          /\ request'[g].copy = request[g].copy
                          /\ request'[g].alone = FALSE
      BY <1>1, <2>1, ArrivalShape, Zenon
    <2>4. \A g \in Handlers \ (Busy \cup {h}) : request'[g].at = "idle"
      BY <1>1, <2>1, ArrivalShape, Zenon
    <2> USE DEF KeepInv, Rewrites
    <2>5. file' = file
      BY <1>1, Zenon DEF Arrives
    <2>6. Busy' = Busy \cup {h}
      BY <2>2, <2>3, <2>4 DEF Busy
    <2>7. CASE Busy = {}
      <3>1. Busy' = {h} /\ kept' = (IF o = "uninstall" THEN kept \ {p} ELSE kept)
        BY <1>1, <2>6, <2>7 DEF Arrives
      <3>2. request'[h].alone
        BY <2>2, <2>7, Zenon
      <3>3. kept \subseteq file["active"]
        BY <2>7
      <3>4. \A g \in Busy' : g = h
        BY <3>1
      <3> QED
        BY <2>2, <2>5, <3>1, <3>2, <3>3, <3>4
    <2>8. CASE Busy # {}
      <3>1. kept' = {}
        BY <1>1, <2>8, Zenon DEF Arrives
      <3>2. \A g \in Busy' : ~request'[g].alone
        BY <2>2, <2>3, <2>6, <2>8, Zenon
      <3> QED
        BY <2>2, <2>3, <2>5, <2>6, <3>1, <3>2
    <2> QED
      BY <2>7, <2>8
  <1> HIDE DEF KeepInv, PluginTypeOK, Busy, Rewrites
  <1>2. request \in [Handlers -> Request] /\ file \in [{"active", "update"} -> SUBSET Names]
    BY <1>0 DEF PluginTypeOK
  <1>3. ASSUME NEW h \in Handlers, installPlugin(h) PROVE KeepInv'
    <2>1. h \in Busy /\ request[h].at = "read" /\ request[h].op = "install" /\ UNCHANGED <<file, kept>>
      BY <1>3 DEF installPlugin, Busy
    <2>2. CASE request[h].plugin \in file["active"] /\ Listed(h)
      BY <1>0, <2>1, <2>2, ListedShape, QuietMove
    <2> DEFINE at == IF Params[request[h].plugin] = {} THEN "truncate" ELSE "params"
    <2>3. CASE Copies(h, at, file["active"] \cup {request[h].plugin}, Params[request[h].plugin])
      <3>1. kept \subseteq file["active"]
        BY <2>1, ReadsKept
      <3>2. at \in {"params", "truncate"}
        OBVIOUS
      <3> HIDE DEF at
      <3>3. /\ request'[h].at = at /\ request'[h].op = request[h].op
            /\ request'[h].plugin = request[h].plugin /\ request'[h].alone = request[h].alone
            /\ request'[h].copy = file["active"] \cup {request[h].plugin}
            /\ \A g \in Handlers \ {h} : request'[g] = request[g]
        BY <1>0, <2>3, CopiesShape
      <3>4. kept \subseteq request'[h].copy /\ request[h].plugin \in request'[h].copy
        BY <3>1, <3>3
      <3> QED
        BY <1>0, <2>1, <3>2, <3>3, <3>4, QuietMove
    <2> QED
      BY <1>3, <2>2, <2>3 DEF installPlugin
  <1>4. ASSUME NEW h \in Handlers, uninstallPlugin(h) PROVE KeepInv'
    <2>1. h \in Busy /\ request[h].at = "read" /\ request[h].op = "uninstall" /\ UNCHANGED <<file, kept>>
      BY <1>4 DEF uninstallPlugin, Busy
    <2>2. CASE Copies(h, "truncate", file["active"] \ {request[h].plugin}, {})
      <3>1. kept \subseteq file["active"] /\ request[h].plugin \notin kept
        BY <2>1, ReadsKept DEF KeepInv
      <3>2. /\ request'[h].at = "truncate" /\ request'[h].op = request[h].op
            /\ request'[h].plugin = request[h].plugin /\ request'[h].alone = request[h].alone
            /\ request'[h].copy = file["active"] \ {request[h].plugin}
            /\ \A g \in Handlers \ {h} : request'[g] = request[g]
        BY <1>0, <2>2, CopiesShape
      <3>3. kept \subseteq request'[h].copy
        BY <3>1, <3>2
      <3> QED
        BY <1>0, <2>1, <3>2, <3>3, QuietMove
    <2>3. CASE Answers(h)
      BY <1>0, <2>1, <2>3, QuietEnd
    <2> QED
      BY <1>4, <2>2, <2>3 DEF uninstallPlugin
  <1>5. ASSUME NEW h \in Handlers, updatePlugin(h) PROVE KeepInv'
    <2>1. h \in Busy /\ request[h].at = "read" /\ request[h].op = "update" /\ UNCHANGED <<file, kept>>
      BY <1>5 DEF updatePlugin, Busy
    <2>2. CASE Copies(h, "truncate", file["update"] \cup {request[h].plugin}, {})
      BY <1>0, <2>1, <2>2, CopiesShape, QuietMove DEF Rewrites
    <2>3. CASE Answers(h)
      BY <1>0, <2>1, <2>3, QuietEnd
    <2> QED
      BY <1>5, <2>2, <2>3 DEF updatePlugin
  <1>6. ASSUME NEW h \in Handlers, OpensParam(h) \/ FillsParam(h) PROVE KeepInv'
    <2>1. h \in Busy /\ request[h].at = "params" /\ UNCHANGED <<file, kept>>
      BY <1>6 DEF OpensParam, FillsParam, Busy
    <2>2. CASE Answers(h)
      BY <1>0, <2>1, <2>2, QuietEnd
    <2>3. ASSUME request'[h].at \in {"params", "truncate"}, request'[h].op = request[h].op,
                 request'[h].plugin = request[h].plugin, request'[h].copy = request[h].copy,
                 request'[h].alone = request[h].alone,
                 \A g \in Handlers \ {h} : request'[g] = request[g]
          PROVE  KeepInv'
      <3>1. Rewrites(h) => /\ kept \subseteq request[h].copy
                           /\ request[h].op = "install" => request[h].plugin \in request[h].copy
        BY <2>1 DEF KeepInv
      <3>2. request[h].op = "install"
        BY <2>1 DEF KeepInv
      <3> QED
        BY <1>0, <2>1, <2>3, <3>1, <3>2, QuietMove
    <2>4. ASSUME NEW n, request' = [request EXCEPT ![h].opened = {n}] PROVE KeepInv'
      BY <1>0, <2>1, <2>3, <2>4, OpensShape
    <2>5. ASSUME NEW at \in {"params", "truncate"}, NEW left,
                 request' = [request EXCEPT ![h].at = at, ![h].opened = {}, ![h].todo = left]
          PROVE  KeepInv'
      <3>1. /\ request'[h].at = at /\ request'[h].op = request[h].op
            /\ request'[h].plugin = request[h].plugin /\ request'[h].copy = request[h].copy
            /\ request'[h].alone = request[h].alone
            /\ \A g \in Handlers \ {h} : request'[g] = request[g]
        BY <1>0, <2>5, FillsShape
      <3> QED
        BY <2>3, <3>1
    <2>6. CASE OpensParam(h)
      BY <2>2, <2>4, <2>6 DEF OpensParam
    <2>7. CASE FillsParam(h)
      BY <2>2, <2>5, <2>7 DEF FillsParam
    <2> QED
      BY <1>6, <2>6, <2>7
  <1>7. ASSUME NEW h \in Handlers, Truncates(h) PROVE KeepInv'
    <2>1. h \in Busy /\ request[h].at = "truncate" /\ kept' = kept
      BY <1>7 DEF Truncates, Busy
    <2>2. CASE Answers(h) /\ UNCHANGED file
      BY <1>0, <2>1, <2>2, QuietEnd
    <2>3. CASE file' = [file EXCEPT ![ListOf(request[h].op)] = {}] /\ request' = [request EXCEPT ![h].at = "write"]
      <3>1. /\ request'[h].at = "write" /\ request'[h].op = request[h].op
            /\ request'[h].plugin = request[h].plugin /\ request'[h].copy = request[h].copy
            /\ request'[h].alone = request[h].alone
            /\ \A g \in Handlers \ {h} : request'[g] = request[g]
        BY <1>0, <2>3, WriteShape
      <3>2. Busy' = Busy /\ Busy \subseteq Handlers
        BY <2>1, <3>1 DEF Busy
      <3>3. \A g \in Busy : /\ request'[g].op = request[g].op
                            /\ request'[g].plugin = request[g].plugin
                            /\ request'[g].copy = request[g].copy
                            /\ request'[g].alone = request[g].alone
        BY <3>1, <3>2
      <3>4. \A g \in Busy \ {h} : request'[g].at = request[g].at /\ ~request[g].alone
        BY <2>1, <3>1, <3>2 DEF KeepInv
      <3>5. \A g \in Busy : request'[g].at \in {"params", "truncate", "write"}
                              => request[g].at \in {"params", "truncate", "write"}
        BY <2>1, <3>4
      <3>6. \A g \in Busy : ~(request'[g].at = "status" /\ request'[g].alone)
        BY <3>1, <3>3, <3>4
      <3>7. \A g \in Busy : request'[g].at = "params" => request[g].at = "params"
        BY <3>1, <3>4
      <3>8. request[h].op = "update" => kept \subseteq file'["active"]
        BY <1>2, <2>1, <2>3, ReadsKept DEF ListOf
      <3>9. \A g \in Busy : Rewrites(g)' <=> Rewrites(g)
        BY <3>3 DEF Rewrites
      <3>10. (\A g \in Busy : ~(request'[g].at = "write" /\ Rewrites(g))) => kept \subseteq file'["active"]
        BY <2>1, <3>1, <3>8 DEF Rewrites
      <3>11. \A g \in Busy : request'[g].at \in {"params", "truncate", "write"} /\ Rewrites(g) =>
               /\ kept \subseteq request'[g].copy
               /\ request'[g].op = "install" => request'[g].plugin \in request'[g].copy
        BY <3>3, <3>5 DEF KeepInv
      <3>12. /\ \A g \in Busy : request'[g].alone => Busy = {g}
             /\ \A g \in Busy : ~request'[g].alone => kept = {}
             /\ \A g \in Busy : request'[g].op = "uninstall" => request'[g].plugin \notin kept
             /\ \A g \in Busy : request'[g].at = "params" => request'[g].op = "install"
        BY <3>3, <3>7 DEF KeepInv
      <3> QED
        BY <1>0, <2>1, <3>2, <3>6, <3>9, <3>10, <3>11, <3>12 DEF KeepInv
    <2> QED
      BY <1>7, <2>2, <2>3 DEF Truncates
  <1>8. ASSUME NEW h \in Handlers, Writes(h) PROVE KeepInv'
    <2>1. h \in Busy /\ request[h].at = "write" /\ Busy \subseteq Handlers
      BY <1>8 DEF Writes, Busy
    <2>2. \A g \in Busy \ {h} : ~request[g].alone
      BY <2>1 DEF KeepInv
    <2>3. ASSUME Answers(h)
          PROVE  Busy' = Busy \ {h} /\ \A g \in Busy' : g \in Busy \ {h} /\ request'[g] = request[g]
      <3>1. request'[h].at = "idle" /\ \A g \in Handlers \ {h} : request'[g] = request[g]
        BY <1>0, <2>3, AnswersShape
      <3>2. Busy' = Busy \ {h}
        BY <3>1 DEF Busy
      <3> QED
        BY <2>1, <3>1, <3>2
    <2>4. CASE Answers(h) /\ kept' = {}
      <3>1. \A g \in Busy' : g \in Busy /\ request'[g] = request[g] /\ ~request'[g].alone
        BY <2>2, <2>3, <2>4
      <3> QED
        BY <1>0, <2>4, <3>1 DEF KeepInv, Rewrites
    <2>5. ASSUME NEW rest, file' = [file EXCEPT ![ListOf(request[h].op)] = request[h].copy \cup rest],
                 IF request[h].op = "install" THEN Listed(h) ELSE Answers(h),
                 kept' = kept
          PROVE  KeepInv'
      <3>1. CASE request[h].op = "update"
        <4>1. file'["active"] = file["active"]
          BY <1>2, <2>5, <3>1 DEF ListOf
        <4>2. Answers(h) /\ ~Rewrites(h)
          BY <2>5, <3>1 DEF Rewrites
        <4> QED
          BY <1>0, <2>1, <2>5, <4>1, <4>2, QuietEnd
      <3>2. request[h].op # "update" =>
               /\ kept \subseteq file'["active"]
               /\ request[h].op = "install" => request[h].plugin \in file'["active"]
        <4>1. request[h].op # "update" => file'["active"] = request[h].copy \cup rest
          BY <1>2, <2>5 DEF ListOf
        <4> QED
          BY <2>1, <4>1 DEF KeepInv, Rewrites
      <3>3. CASE request[h].op = "uninstall"
        <4>1. \A g \in Busy' : g \in Busy /\ request'[g] = request[g] /\ ~request'[g].alone
          BY <2>2, <2>3, <2>5, <3>3
        <4>2. kept' \subseteq file'["active"]
          BY <2>5, <3>2, <3>3
        <4> QED
          BY <1>0, <2>5, <4>1, <4>2 DEF KeepInv, Rewrites
      <3>4. CASE request[h].op = "install"
        <4>1. /\ request'[h].at = "status" /\ request'[h].op = request[h].op
              /\ request'[h].plugin = request[h].plugin /\ request'[h].alone = request[h].alone
              /\ \A g \in Handlers \ {h} : request'[g] = request[g]
          BY <1>0, <2>5, <3>4, ListedShape
        <4>2. Busy' = Busy
          BY <2>1, <4>1 DEF Busy
        <4>3. \A g \in Busy \ {h} : request'[g] = request[g]
          BY <2>1, <4>1
        <4>4. kept' \subseteq file'["active"] /\ request'[h].plugin \in file'["active"]
          BY <2>5, <3>2, <3>4, <4>1
        <4>5. \A g \in Busy : request'[g].at = "status" /\ request'[g].alone =>
                 request'[g].plugin \in file'["active"]
          BY <2>2, <4>3, <4>4
        <4>6. \A g \in Busy : request'[g].at \in {"params", "truncate", "write"} =>
                 request'[g] = request[g]
          BY <4>1, <4>3
        <4>7. /\ \A g \in Busy : request'[g].alone => Busy = {g}
              /\ \A g \in Busy : ~request'[g].alone => kept' = {}
              /\ \A g \in Busy : request'[g].op = "uninstall" => request'[g].plugin \notin kept'
          <5>1. \A g \in Busy : request'[g].op = request[g].op /\ request'[g].alone = request[g].alone
                               /\ request'[g].plugin = request[g].plugin
            BY <4>1, <4>3
          <5>2. kept' = kept
            BY <2>5
          <5> QED
            BY <5>1, <5>2 DEF KeepInv
        <4> QED
          BY <1>0, <2>5, <4>2, <4>4, <4>5, <4>6, <4>7 DEF KeepInv, Rewrites
      <3>5. request[h].op \in {"install", "uninstall", "update"}
        BY <1>2 DEF Request, Ops
      <3> QED
        BY <3>1, <3>3, <3>4, <3>5
    <2> QED
      BY <1>8, <2>4, <2>5 DEF Writes
  <1>9. ASSUME NEW h \in Handlers, SetsStatus(h) PROVE KeepInv'
    <2>1. h \in Busy /\ request[h].at = "status" /\ Answers(h) /\ file' = file
      BY <1>9 DEF SetsStatus, Busy
    <2>2. CASE request[h].alone
      <3>1. Busy = {h} /\ request[h].plugin \in file["active"] /\ kept \subseteq file["active"]
        BY <2>1, <2>2, ReadsKept DEF KeepInv
      <3>2. kept' = kept \cup {request[h].plugin}
        BY <1>9, <2>2 DEF SetsStatus
      <3>3. request'[h].at = "idle" /\ \A g \in Handlers \ {h} : request'[g] = request[g]
        BY <1>0, <2>1, AnswersShape
      <3>4. Busy' = {}
        BY <3>1, <3>3 DEF Busy
      <3>5. kept' \subseteq file'["active"]
        BY <2>1, <3>1, <3>2
      <3> QED
        BY <1>0, <3>4, <3>5 DEF KeepInv
    <2>3. CASE ~request[h].alone
      <3>1. kept' = kept
        BY <1>9, <2>3 DEF SetsStatus
      <3> QED
        BY <1>0, <2>1, <3>1, QuietEnd
    <2> QED
      BY <2>2, <2>3
  <1>10. CASE PluginCrash
    <2>1. Busy' = {} /\ file' = file
      BY <1>10, IdleFields DEF PluginCrash, Busy
    <2>2. kept' \subseteq file'["active"]
      <3>1. CASE \E h \in Busy : request[h].at = "write"
        BY <1>10, <3>1 DEF PluginCrash
      <3>2. CASE \A h \in Busy : request[h].at # "write"
        BY <1>10, <2>1, <3>2, ReadsKept DEF PluginCrash
      <3> QED
        BY <3>1, <3>2
    <2> QED
      BY <1>0, <2>1, <2>2 DEF KeepInv
  <1>11. CASE UNCHANGED pluginVars
    BY <1>11 DEF pluginVars, KeepInv, PluginTypeOK, Busy, Rewrites
  <1> QED
    BY <1>1, <1>3, <1>4, <1>5, <1>6, <1>7, <1>8, <1>9, <1>10, <1>11 DEF PluginNext, HandlerStep

\* An installation that was answered lasts, but for the cases InstalledStays
\* excepts: for any plugins and any number of requests.
THEOREM InstallLasts == PluginSpec => []InstalledStays
  <1>1. KeepInv => InstalledStays
    BY DEF KeepInv, InstalledStays, Busy
  <1> QED
    BY <1>1, KeepInit, KeepStep, PTL DEF PluginSpec

-----------------------------------------------------------------------------
(* Parameters.                                                             *)

\* The parameter files that hold a value, are being rewritten, or were cut short by
\* a request that overlapped another; and the plugins that lack no other file.
Known == written \cup cut \cup UNION {Opened(h) : h \in Handlers}
Provided == {p \in Plugins : {p} \X Params[p] \subseteq Known}

\* A request writes the parameters one by one, and those it has written are there
\* when it comes to the list; the copy it is going to write names no other plugin
\* that lacks one.  One that runs alone finds its plugin unlisted until then.
Sound(h) ==
  /\ request[h].at # "params" => request[h].opened = {}
  /\ request[h].at = "params" =>
       /\ request[h].copy \cap Plugins \subseteq Provided \cup {request[h].plugin}
       /\ {request[h].plugin} \X (Params[request[h].plugin] \ request[h].todo) \subseteq Known
       /\ request[h].alone => request[h].plugin \notin file["active"]
  /\ request[h].at \in {"truncate", "write"} /\ Rewrites(h) =>
       request[h].copy \cap Plugins \subseteq Provided

ParamsInv == ParamsBeforeActive /\ \A h \in Handlers : Sound(h)

LEMMA ParamsInit == PluginInit => ParamsInv
  BY IdleTyped, IdleFields DEF PluginInit, ParamsInv, Sound, ParamsBeforeActive

\* What ParamsBeforeActive says in terms of Provided.
LEMMA ActiveProvided == ParamsBeforeActive <=> file["active"] \cap Plugins \subseteq Provided
  BY DEF ParamsBeforeActive, Provided, Known

LEMMA ProvidedGrows == ASSUME Known \subseteq Known' PROVE Provided \subseteq Provided'
  BY DEF Provided

\* A step of one handler that takes no parameter file away: only its own part of the
\* invariant and the list remain to be shown.
LEMMA ParamsMove ==
  ASSUME KeepInv, ParamsInv, NEW h \in Busy, \A g \in Handlers \ {h} : request'[g] = request[g],
         Known \subseteq Known', Sound(h)', file'["active"] \cap Plugins \subseteq Provided'
  PROVE  ParamsInv'
  <1>1. Provided \subseteq Provided'
    BY ProvidedGrows
  <1>2. ASSUME NEW g \in Handlers \ {h} PROVE Sound(g)'
    <2>1. request'[g] = request[g] /\ Sound(g)
      BY DEF ParamsInv
    <2>2. request[g].at = "params" => ~request[g].alone
      BY DEF KeepInv, Busy
    <2>3. Rewrites(g)' <=> Rewrites(g)
      BY <2>1 DEF Rewrites
    <2>4. request[g].at = "params" =>
            /\ request[g].copy \cap Plugins \subseteq Provided' \cup {request[g].plugin}
            /\ {request[g].plugin} \X (Params[request[g].plugin] \ request[g].todo) \subseteq Known'
      BY <1>1, <2>1 DEF Sound
    <2>5. request[g].at \in {"truncate", "write"} /\ Rewrites(g) =>
            request[g].copy \cap Plugins \subseteq Provided'
      BY <1>1, <2>1 DEF Sound
    <2> QED
      BY <2>1, <2>2, <2>3, <2>4, <2>5 DEF Sound
  <1>3. ParamsBeforeActive'
    BY DEF ParamsBeforeActive, Provided, Known
  <1> QED
    BY <1>2, <1>3 DEF ParamsInv

\* Outside of the loop over the parameters a request has no file open.
LEMMA KnownStays ==
  ASSUME ParamsInv, NEW h \in Handlers, request[h].at # "params",
         \A g \in Handlers \ {h} : request'[g] = request[g], UNCHANGED <<written, cut>>
  PROVE  Known \subseteq Known'
  <1>1. Opened(h) = {}
    BY DEF ParamsInv, Sound, Opened
  <1>2. \A g \in Handlers \ {h} : Opened(g)' = Opened(g)
    BY DEF Opened
  <1>3. ASSUME NEW x \in Known PROVE x \in Known'
    <2>1. CASE x \in written \cup cut
      BY <2>1 DEF Known
    <2>2. CASE x \in UNION {Opened(g) : g \in Handlers}
      <3>1. PICK g \in Handlers : x \in Opened(g)
        BY <2>2
      <3>2. g # h /\ x \in Opened(g)'
        BY <1>1, <1>2, <3>1
      <3> QED
        BY <3>2 DEF Known
    <2> QED
      BY <2>1, <2>2 DEF Known
  <1> QED
    BY <1>3

\* A request is answered, or goes on to the status file, outside of that loop.
LEMMA ParamsQuietEnd ==
  ASSUME KeepInv, ParamsInv, NEW h \in Busy, request[h].at # "params",
         Answers(h) \/ Listed(h), UNCHANGED <<written, cut>>,
         file'["active"] \cap Plugins \subseteq Provided
  PROVE  ParamsInv'
  <1>1. h \in Handlers /\ PluginTypeOK
    BY DEF Busy, KeepInv
  <1>2. /\ request'[h].at \in {"idle", "status"} /\ request'[h].opened = {}
        /\ \A g \in Handlers \ {h} : request'[g] = request[g]
    BY <1>1, AnswersShape, ListedShape
  <1>3. Known \subseteq Known'
    BY <1>1, <1>2, KnownStays
  <1>4. Sound(h)'
    BY <1>2 DEF Sound
  <1>5. file'["active"] \cap Plugins \subseteq Provided'
    BY <1>3, ProvidedGrows
  <1> QED
    BY <1>2, <1>3, <1>4, <1>5, ParamsMove

\* A request that has a parameter file open ends: one that ran alone leaves no other
\* request behind and its plugin unlisted, one that did not leaves the file in cut.
LEMMA CutEnd ==
  ASSUME KeepInv, ParamsInv, NEW h \in Busy, request[h].at = "params", Answers(h),
         written' = written, cut' = cut \cup CutShort(h), file' = file
  PROVE  ParamsInv'
  <1>1. h \in Handlers /\ PluginTypeOK
    BY DEF Busy, KeepInv
  <1>2. /\ request'[h].at = "idle" /\ request'[h].opened = {}
        /\ \A g \in Handlers \ {h} : request'[g] = request[g]
    BY <1>1, AnswersShape
  <1>3. \A g \in Handlers \ {h} : Opened(g)' = Opened(g)
    BY <1>2 DEF Opened
  <1>4. Known \ Opened(h) \subseteq Known'
    <2>1. ASSUME NEW x \in Known, x \notin Opened(h) PROVE x \in Known'
      <3>1. CASE x \in written \cup cut
        BY <3>1 DEF Known
      <3>2. CASE x \in UNION {Opened(g) : g \in Handlers}
        <4>1. PICK g \in Handlers : x \in Opened(g)
          BY <3>2
        <4>2. g # h /\ x \in Opened(g)'
          BY <1>3, <2>1, <4>1
        <4> QED
          BY <4>2 DEF Known
      <3> QED
        BY <2>1, <3>1, <3>2 DEF Known
    <2> QED
      BY <2>1
  <1>5. Sound(h)'
    BY <1>2 DEF Sound
  <1>6. file["active"] \cap Plugins \subseteq Provided
    BY ActiveProvided DEF ParamsInv
  <1>7. CASE ~request[h].alone
    <2>1. Known \subseteq Known'
      BY <1>4, <1>7 DEF CutShort, Known
    <2>2. file'["active"] \cap Plugins \subseteq Provided'
      BY <1>6, <2>1, ProvidedGrows
    <2> QED
      BY <1>2, <1>5, <2>1, <2>2, ParamsMove
  <1>8. CASE request[h].alone
    <2>1. request[h].plugin \notin file["active"]
      BY <1>1, <1>8 DEF ParamsInv, Sound
    <2>2. ASSUME NEW g \in Handlers \ {h} PROVE Sound(g)'
      <3>1. request[g].at = "idle" /\ request'[g] = request[g] /\ Sound(g)
        BY <1>2, <1>8 DEF KeepInv, Busy, ParamsInv
      <3> QED
        BY <3>1 DEF Sound
    <2>3. ASSUME NEW p \in file["active"] \cap Plugins PROVE {p} \X Params[p] \subseteq Known'
      <3>1. {p} \X Params[p] \subseteq Known /\ p # request[h].plugin
        BY <1>6, <2>1 DEF Provided
      <3> QED
        BY <1>4, <3>1 DEF Opened
    <2>4. ParamsBeforeActive'
      BY <2>3 DEF ParamsBeforeActive, Known
    <2> QED
      BY <1>5, <2>2, <2>4 DEF ParamsInv
  <1> QED
    BY <1>7, <1>8

LEMMA ParamsStep == KeepInv /\ ParamsInv /\ [PluginNext]_pluginVars => ParamsInv'
  <1> SUFFICES ASSUME KeepInv, ParamsInv, [PluginNext]_pluginVars PROVE ParamsInv'
    OBVIOUS
  <1>0. PluginTypeOK /\ Busy \subseteq Handlers
    BY DEF KeepInv, Busy
  <1>a. /\ file["active"] \cap Plugins \subseteq Provided
        /\ file \in [{"active", "update"} -> SUBSET Names]
    BY <1>0, ActiveProvided DEF ParamsInv, PluginTypeOK
  <1>1. ASSUME NEW h \in Handlers, NEW o \in Ops, NEW p \in Plugins, Arrives(h, o, p)
        PROVE  ParamsInv'
    <2>1. request'[h].at = "read" /\ request'[h].opened = {}
      BY <1>0, <1>1, ArrivalShape, Zenon
    <2>2. \A g \in Busy : /\ request'[g].at = request[g].at /\ request'[g].op = request[g].op
                          /\ request'[g].plugin = request[g].plugin
                          /\ request'[g].copy = request[g].copy
                          /\ request'[g].todo = request[g].todo
                          /\ request'[g].opened = request[g].opened
                          /\ request'[g].alone = FALSE
      BY <1>0, <1>1, ArrivalShape, Zenon
    <2>3. \A g \in Handlers \ (Busy \cup {h}) : request'[g].at = "idle" /\ request'[g].opened = {}
      BY <1>0, <1>1, ArrivalShape, Zenon
    <2>4. UNCHANGED <<file, written, cut>>
      BY <1>1, Zenon DEF Arrives
    <2>5. ASSUME NEW g \in Handlers PROVE Opened(g) \subseteq Opened(g)'
      <3>1. CASE g \in Busy
        BY <2>2, <3>1 DEF Opened
      <3>2. CASE g \notin Busy
        <4>1. request[g].opened = {}
          BY <3>2 DEF ParamsInv, Sound, Busy
        <4> QED
          BY <4>1 DEF Opened
      <3> QED
        BY <3>1, <3>2
    <2>6. Known \subseteq Known'
      <3>1. ASSUME NEW x \in UNION {Opened(g) : g \in Handlers}
            PROVE  x \in UNION {Opened(g)' : g \in Handlers}
        BY <2>5
      <3> QED
        BY <2>4, <3>1 DEF Known
    <2>7. Provided \subseteq Provided'
      BY <2>6, ProvidedGrows
    <2>8. ASSUME NEW g \in Handlers PROVE Sound(g)'
      <3>1. CASE g \in Busy
        <4>1. Sound(g)
          BY DEF ParamsInv
        <4> QED
          BY <2>2, <2>6, <2>7, <3>1, <4>1 DEF Sound, Rewrites
      <3>2. CASE g \notin Busy
        BY <2>1, <2>3, <3>2 DEF Sound
      <3> QED
        BY <3>1, <3>2
    <2>9. ParamsBeforeActive'
      BY <1>a, <2>4, <2>7 DEF ParamsBeforeActive, Provided, Known
    <2> QED
      BY <2>8, <2>9 DEF ParamsInv
  <1>2. ASSUME NEW h \in Busy, request[h].at = "read", NEW at, NEW new, NEW todo,
               Copies(h, at, new, todo), UNCHANGED <<file, written, cut>>,
               Rewrites(h) => new \cap Plugins \subseteq file["active"] \cup {request[h].plugin},
               \/ at = "truncate" /\ (Rewrites(h) => new \cap Plugins \subseteq Provided)
               \/ at = "params" /\ Rewrites(h) /\ todo = Params[request[h].plugin]
                  /\ request[h].plugin \notin file["active"]
        PROVE  ParamsInv'
    <2>1. /\ request'[h].at = at /\ request'[h].op = request[h].op
          /\ request'[h].plugin = request[h].plugin /\ request'[h].copy = new
          /\ request'[h].todo = todo /\ request'[h].opened = request[h].opened
          /\ request'[h].alone = request[h].alone
          /\ \A g \in Handlers \ {h} : request'[g] = request[g]
      BY <1>0, <1>2, CopiesShape
    <2>2. request[h].opened = {}
      BY <1>0, <1>2 DEF ParamsInv, Sound
    <2>3. Known \subseteq Known'
      BY <1>0, <1>2, <2>1, KnownStays
    <2>4. Provided \subseteq Provided'
      BY <2>3, ProvidedGrows
    <2>5. Sound(h)'
      <3>1. CASE at = "truncate"
        BY <1>2, <2>1, <2>2, <2>4, <3>1 DEF Sound, Rewrites
      <3>2. CASE at = "params"
        <4>1. {request'[h].plugin} \X (Params[request'[h].plugin] \ request'[h].todo) = {}
          BY <1>2, <2>1, <3>2
        <4>2. request'[h].copy \cap Plugins \subseteq Provided' \cup {request'[h].plugin}
          BY <1>2, <1>a, <2>1, <2>4, <3>2
        <4> QED
          BY <1>2, <2>1, <3>2, <4>1, <4>2 DEF Sound
      <3> QED
        BY <1>2, <3>1, <3>2
    <2> QED
      BY <1>2, <1>a, <2>1, <2>3, <2>4, <2>5, ParamsMove
  <1>3. ASSUME NEW h \in Handlers, installPlugin(h) PROVE ParamsInv'
    <2>1. h \in Busy /\ request[h].at = "read" /\ Rewrites(h) /\ UNCHANGED <<file, written, cut>>
      BY <1>3 DEF installPlugin, Busy, Rewrites
    <2>2. CASE Listed(h)
      BY <1>a, <2>1, <2>2, ParamsQuietEnd
    <2> DEFINE p == request[h].plugin
    <2>3. CASE p \notin file["active"]
               /\ Copies(h, IF Params[p] = {} THEN "truncate" ELSE "params",
                         file["active"] \cup {p}, Params[p])
      <3>1. CASE Params[p] = {}
        <4>1. Copies(h, "truncate", file["active"] \cup {p}, Params[p])
          BY <2>3, <3>1
        <4>2. p \in Provided
          <5>1. p \in Plugins
            BY <1>0, <2>1 DEF PluginTypeOK, Request
          <5> QED
            BY <3>1, <5>1 DEF Provided
        <4>3. (file["active"] \cup {p}) \cap Plugins \subseteq Provided
          BY <1>a, <4>2
        <4>4. (file["active"] \cup {p}) \cap Plugins \subseteq file["active"] \cup {p}
          OBVIOUS
        <4> QED
          BY <1>2, <2>1, <4>1, <4>3, <4>4
      <3>2. CASE Params[p] # {}
        <4>1. Copies(h, "params", file["active"] \cup {p}, Params[p])
          BY <2>3, <3>2
        <4>2. (file["active"] \cup {p}) \cap Plugins \subseteq file["active"] \cup {p}
          OBVIOUS
        <4> QED
          BY <1>2, <2>1, <2>3, <4>1, <4>2
      <3> QED
        BY <3>1, <3>2
    <2> QED
      BY <1>3, <2>2, <2>3 DEF installPlugin
  <1>4. ASSUME NEW h \in Handlers, uninstallPlugin(h) PROVE ParamsInv'
    <2>1. h \in Busy /\ request[h].at = "read" /\ UNCHANGED <<file, written, cut>>
      BY <1>4 DEF uninstallPlugin, Busy
    <2>2. CASE Copies(h, "truncate", file["active"] \ {request[h].plugin}, {})
      <3>1. /\ (file["active"] \ {request[h].plugin}) \cap Plugins \subseteq Provided
            /\ (file["active"] \ {request[h].plugin}) \cap Plugins
                 \subseteq file["active"] \cup {request[h].plugin}
        BY <1>a
      <3> QED
        BY <1>2, <2>1, <2>2, <3>1
    <2> QED
      BY <1>4, <1>a, <2>1, <2>2, ParamsQuietEnd DEF uninstallPlugin
  <1>5. ASSUME NEW h \in Handlers, updatePlugin(h) PROVE ParamsInv'
    <2>1. h \in Busy /\ request[h].at = "read" /\ ~Rewrites(h) /\ UNCHANGED <<file, written, cut>>
      BY <1>5 DEF updatePlugin, Busy, Rewrites
    <2>2. CASE Copies(h, "truncate", file["update"] \cup {request[h].plugin}, {})
      BY <1>2, <2>1, <2>2
    <2> QED
      BY <1>5, <1>a, <2>1, <2>2, ParamsQuietEnd DEF updatePlugin
  <1>6. ASSUME NEW h \in Handlers, OpensParam(h) PROVE ParamsInv'
    <2>1. /\ h \in Busy /\ request[h].at = "params" /\ request[h].opened = {}
          /\ UNCHANGED <<file, cut>>
      BY <1>6 DEF OpensParam, Busy
    <2>2. CASE Answers(h) /\ UNCHANGED written
      <3>1. CutShort(h) = {}
        BY <2>1 DEF CutShort, Opened
      <3> QED
        BY <2>1, <2>2, <3>1, CutEnd
    <2>3. ASSUME NEW n, written' = written \ {<<request[h].plugin, n>>},
                 request' = [request EXCEPT ![h].opened = {n}]
          PROVE  ParamsInv'
      <3>1. /\ request'[h].at = request[h].at /\ request'[h].op = request[h].op
            /\ request'[h].plugin = request[h].plugin /\ request'[h].copy = request[h].copy
            /\ request'[h].todo = request[h].todo /\ request'[h].opened = {n}
            /\ request'[h].alone = request[h].alone
            /\ \A g \in Handlers \ {h} : request'[g] = request[g]
        BY <1>0, <2>3, OpensShape
      <3>2. \A g \in Handlers : Opened(g) \subseteq Opened(g)'
        BY <2>1, <3>1 DEF Opened
      <3>3. <<request[h].plugin, n>> \in Opened(h)'
        BY <3>1 DEF Opened
      <3>4. ASSUME NEW x \in Known PROVE x \in Known'
        <4>1. CASE x \in UNION {Opened(g) : g \in Handlers}
          BY <3>2, <4>1 DEF Known
        <4>2. CASE x = <<request[h].plugin, n>>
          BY <3>3, <4>2 DEF Known
        <4>3. CASE x \in written \cup cut /\ x # <<request[h].plugin, n>>
          BY <2>1, <2>3, <4>3 DEF Known
        <4> QED
          BY <4>1, <4>2, <4>3 DEF Known
      <3>5. Known \subseteq Known' /\ Provided \subseteq Provided'
        BY <3>4, ProvidedGrows
      <3>6. Sound(h)
        BY DEF ParamsInv
      <3>7. Sound(h)'
        BY <2>1, <3>1, <3>5, <3>6 DEF Sound
      <3> QED
        BY <1>a, <2>1, <3>1, <3>5, <3>7, ParamsMove
    <2> QED
      BY <1>6, <2>2, <2>3 DEF OpensParam
  <1>7. ASSUME NEW h \in Handlers, FillsParam(h) PROVE ParamsInv'
    <2>1. h \in Busy /\ request[h].at = "params" /\ UNCHANGED file
      BY <1>7 DEF FillsParam, Busy
    <2>2. CASE Answers(h) /\ cut' = cut \cup CutShort(h) /\ UNCHANGED written
      BY <2>1, <2>2, CutEnd
    <2> DEFINE left == request[h].todo \ request[h].opened
               at == IF left = {} THEN "truncate" ELSE "params"
    <2>3. CASE /\ written' = written \cup Opened(h) /\ cut' = cut \ Opened(h)
               /\ request' = [request EXCEPT ![h].at = at, ![h].opened = {}, ![h].todo = left]
      <3> HIDE DEF at, left
      <3>1. /\ request'[h].at = at /\ request'[h].op = request[h].op
            /\ request'[h].plugin = request[h].plugin /\ request'[h].copy = request[h].copy
            /\ request'[h].todo = left /\ request'[h].opened = {}
            /\ request'[h].alone = request[h].alone
            /\ \A g \in Handlers \ {h} : request'[g] = request[g]
        BY <1>0, <2>3, FillsShape
      <3>2. \A g \in Handlers \ {h} : Opened(g)' = Opened(g)
        BY <3>1 DEF Opened
      <3>3. ASSUME NEW x \in Known PROVE x \in Known'
        <4>1. CASE x \in Opened(h)
          BY <2>3, <4>1 DEF Known
        <4>2. CASE x \in written \cup cut /\ x \notin Opened(h)
          BY <2>3, <4>2 DEF Known
        <4>3. CASE x \in UNION {Opened(g) : g \in Handlers} /\ x \notin Opened(h)
          <5>1. PICK g \in Handlers : x \in Opened(g)
            BY <4>3
          <5>2. g # h /\ x \in Opened(g)'
            BY <3>2, <4>3, <5>1
          <5> QED
            BY <5>2 DEF Known
        <4> QED
          BY <4>1, <4>2, <4>3 DEF Known
      <3>4. Known \subseteq Known' /\ Provided \subseteq Provided'
        BY <3>3, ProvidedGrows
      <3>5. /\ request[h].copy \cap Plugins \subseteq Provided \cup {request[h].plugin}
            /\ {request[h].plugin} \X (Params[request[h].plugin] \ request[h].todo) \subseteq Known
            /\ request[h].alone => request[h].plugin \notin file["active"]
        BY <2>1 DEF ParamsInv, Sound
      <3>6. {request[h].plugin} \X (Params[request[h].plugin] \ left) \subseteq Known'
        <4>1. Opened(h) \subseteq Known'
          BY <2>3 DEF Known
        <4> QED
          BY <3>4, <3>5, <4>1 DEF Opened, left
      <3>7. left = {} => request[h].plugin \in Provided'
        <4>1. request[h].plugin \in Plugins
          BY <1>0, <2>1 DEF PluginTypeOK, Request
        <4> QED
          BY <3>6, <4>1 DEF Provided
      <3>8. Sound(h)'
        <4>1. CASE left = {}
          <5>1. at = "truncate"
            BY <4>1 DEF at
          <5> QED
            BY <3>1, <3>4, <3>5, <3>7, <4>1, <5>1 DEF Sound
        <4>2. CASE left # {}
          <5>1. at = "params"
            BY <4>2 DEF at
          <5> QED
            BY <2>1, <3>1, <3>4, <3>5, <3>6, <5>1 DEF Sound
        <4> QED
          BY <4>1, <4>2
      <3> QED
        BY <1>a, <2>1, <3>1, <3>4, <3>8, ParamsMove
    <2> QED
      BY <1>7, <2>2, <2>3 DEF FillsParam
  <1>8. ASSUME NEW h \in Handlers, Truncates(h) PROVE ParamsInv'
    <2>1. h \in Busy /\ request[h].at = "truncate" /\ UNCHANGED <<written, cut>>
      BY <1>8 DEF Truncates, Busy
    <2>2. CASE file' = [file EXCEPT ![ListOf(request[h].op)] = {}]
               /\ request' = [request EXCEPT ![h].at = "write"]
      <3>1. /\ request'[h].at = "write" /\ request'[h].op = request[h].op
            /\ request'[h].copy = request[h].copy /\ request'[h].opened = request[h].opened
            /\ \A g \in Handlers \ {h} : request'[g] = request[g]
        BY <1>0, <2>2, WriteShape
      <3>2. file'["active"] \subseteq file["active"]
        BY <1>a, <2>2 DEF ListOf
      <3>3. Known \subseteq Known' /\ Provided \subseteq Provided'
        BY <1>0, <2>1, <3>1, KnownStays, ProvidedGrows
      <3>4. Sound(h)
        BY <1>0, <2>1 DEF ParamsInv
      <3>5. Sound(h)'
        BY <2>1, <3>1, <3>3, <3>4 DEF Sound, Rewrites
      <3> QED
        BY <1>a, <2>1, <3>1, <3>2, <3>3, <3>5, ParamsMove
    <2> QED
      BY <1>8, <1>a, <2>1, <2>2, ParamsQuietEnd DEF Truncates
  <1>9. ASSUME NEW h \in Handlers, Writes(h) PROVE ParamsInv'
    <2>1. h \in Busy /\ request[h].at = "write" /\ UNCHANGED <<written, cut>>
      BY <1>9 DEF Writes, Busy
    <2>2. Rewrites(h) => request[h].copy \cap Plugins \subseteq Provided
      BY <2>1 DEF ParamsInv, Sound
    <2>3. file'["active"] \cap Plugins \subseteq Provided
      <3>1. CASE file' = file
        BY <1>a, <3>1
      <3>2. ASSUME NEW rest \in SUBSET (IF file[ListOf(request[h].op)] = {} THEN {}
                                        ELSE file[ListOf(request[h].op)] \cup {Junk}),
                   file' = [file EXCEPT ![ListOf(request[h].op)] = request[h].copy \cup rest]
            PROVE  file'["active"] \cap Plugins \subseteq Provided
        <4>1. CASE request[h].op = "update"
          BY <1>a, <3>2, <4>1 DEF ListOf
        <4>2. CASE request[h].op # "update"
          <5>1. file'["active"] = request[h].copy \cup rest /\ rest \subseteq file["active"] \cup {Junk}
            BY <1>a, <3>2, <4>2 DEF ListOf
          <5> QED
            BY <1>a, <2>2, <4>2, <5>1, PluginAssumption DEF Rewrites
        <4> QED
          BY <4>1, <4>2
      <3> QED
        BY <1>9, <3>1, <3>2 DEF Writes
    <2>4. Answers(h) \/ Listed(h)
      BY <1>9 DEF Writes
    <2> QED
      BY <2>1, <2>3, <2>4, ParamsQuietEnd
  <1>10. ASSUME NEW h \in Handlers, SetsStatus(h) PROVE ParamsInv'
    <2>1. /\ h \in Busy /\ request[h].at = "status" /\ Answers(h)
          /\ UNCHANGED <<file, written, cut>>
      BY <1>10 DEF SetsStatus, Busy
    <2> QED
      BY <1>a, <2>1, ParamsQuietEnd
  <1>11. CASE PluginCrash
    <2>1. /\ UNCHANGED <<file, written>> /\ cut' = cut \cup UNION {CutShort(h) : h \in Busy}
          /\ \A h \in Handlers : request'[h].at = "idle" /\ request'[h].opened = {}
      BY <1>11, IdleFields DEF PluginCrash
    <2>2. \A h \in Handlers : Sound(h)'
      BY <2>1 DEF Sound
    <2>3. ASSUME NEW p \in file["active"] \cap Plugins, NEW x \in {p} \X Params[p]
          PROVE  x \in Known'
      <3>1. x \in Known
        BY <1>a DEF Provided
      <3>2. CASE x \in written \cup cut
        BY <2>1, <3>2 DEF Known
      <3>3. ASSUME NEW h \in Handlers, x \in Opened(h) PROVE x \in Known'
        <4>1. request[h].at = "params" /\ h \in Busy /\ request[h].plugin = p
          BY <3>3 DEF ParamsInv, Sound, Busy, Opened
        <4>2. ~request[h].alone
          BY <4>1 DEF ParamsInv, Sound
        <4>3. x \in CutShort(h)
          BY <3>3, <4>2 DEF CutShort
        <4>4. x \in cut'
          BY <2>1, <4>1, <4>3
        <4> QED
          BY <4>4 DEF Known
      <3> QED
        BY <3>1, <3>2, <3>3 DEF Known
    <2>4. ParamsBeforeActive'
      BY <2>1, <2>3 DEF ParamsBeforeActive, Known
    <2> QED
      BY <2>2, <2>4 DEF ParamsInv
  <1>12. CASE UNCHANGED pluginVars
    <2>1. UNCHANGED <<file, written, cut, request>>
      BY <1>12 DEF pluginVars
    <2>2. Known' = Known
      BY <2>1 DEF Known, Opened
    <2>3. Provided' = Provided
      BY <2>2 DEF Provided
    <2>4. ASSUME NEW h \in Handlers PROVE Sound(h)'
      BY <2>1, <2>2, <2>3 DEF ParamsInv, Sound, Rewrites
    <2>5. ParamsBeforeActive'
      BY <2>1, <2>2 DEF ParamsInv, ParamsBeforeActive, Known
    <2> QED
      BY <2>4, <2>5 DEF ParamsInv
  <1> QED
    BY <1>1, <1>3, <1>4, <1>5, <1>6, <1>7, <1>8, <1>9, <1>10, <1>11, <1>12
       DEF PluginNext, HandlerStep

\* No plugin is listed before each of its parameters is in its file, and none loses
\* one but to an overlapping installation: for any plugins and parameters, any number
\* of requests, failing writes and deaths of the process.
THEOREM ParamsFirst == PluginSpec => []ParamsBeforeActive
  <1>1. KeepInv /\ ParamsInv /\ [PluginNext]_pluginVars => (KeepInv /\ ParamsInv)'
    BY KeepStep, ParamsStep
  <1>2. ParamsInv => ParamsBeforeActive
    BY DEF ParamsInv
  <1> QED
    BY <1>1, <1>2, KeepInit, ParamsInit, PTL DEF PluginSpec

-----------------------------------------------------------------------------
(* PART TWO: box_props.json.                                               *)
-----------------------------------------------------------------------------
(* Types.                                                                  *)

Call == [at : {"idle", "read", "truncate", "write"},
         op : {"pair", "refresh", "unpair", "exchange"}, new : Props, alone : BOOLEAN]

\* What is in the file, before and after the first pairing.
LEMMA PropsTyped == Unreadable \in Props /\ Fresh \in Props /\ ~Unreadable.readable
  <1>1. AnyToken \in Tokens /\ 0 \in 0..MaxSecrets
    BY PropsAssumption DEF AnyToken
  <1>2. Unreadable \in Props
    BY <1>1 DEF Unreadable, Props
  <1>3. Fresh \in Props
    BY <1>2, Zenon DEF Fresh, Props
  <1>4. ~Unreadable.readable
    BY DEF Unreadable
  <1> QED
    BY <1>2, <1>3, <1>4

\* The fields of a caller that makes no request.
LEMMA NoCallTyped == NoCall \in Call /\ NoCall.at = "idle"
  BY PropsTyped DEF NoCall, Call

LEMMA PropsTypes == BoxTypeOK /\ [PropsNext]_propsVars => BoxTypeOK'
  <1> SUFFICES ASSUME BoxTypeOK, [PropsNext]_propsVars PROVE BoxTypeOK'
    OBVIOUS
  <1>0. /\ box \in Props /\ issued \in 0..MaxSecrets /\ told \in Props
        /\ calls \in [Callers -> Call]
    BY DEF BoxTypeOK, Call
  <1>w. ASSUME NEW c \in Callers, NEW n \in Props, WillWrite(c, n)
        PROVE  calls' \in [Callers -> Call]
    <2>1. [calls[c] EXCEPT !.at = "truncate", !.new = n] \in Call
      BY <1>0, Zenon DEF Call
    <2>2. calls' = [calls EXCEPT ![c] = [calls[c] EXCEPT !.at = "truncate", !.new = n]]
      BY <1>0, <1>w, Zenon DEF WillWrite, Call
    <2> QED
      BY <1>0, <2>1, <2>2
  <1>r. ASSUME NEW c \in Callers, Refused(c) PROVE calls' \in [Callers -> Call]
    BY <1>0, <1>r, NoCallTyped DEF Refused
  <1>t. ASSUME box' \in Props, issued' \in 0..MaxSecrets, told' \in Props,
               calls' \in [Callers -> Call]
        PROVE  BoxTypeOK'
    BY <1>t DEF BoxTypeOK, Call
  <1>1. ASSUME NEW c \in Callers, NEW o \in {"pair", "refresh", "unpair", "exchange"},
               NEW t \in Tokens, Requests(c, o, t)
        PROVE  BoxTypeOK'
    <2>1. (Calling = {}) \in BOOLEAN
      OBVIOUS
    <2>2. [NoCall EXCEPT !.at = "read", !.op = o, !.new.token = t, !.alone = (Calling = {})] \in Call
      BY <2>1, NoCallTyped, Zenon DEF Call, Props
    <2>3. \A d \in Callers : [calls[d] EXCEPT !.alone = FALSE] \in Call
      BY <1>0, Zenon DEF Call
    <2>4. calls' \in [Callers -> Call]
      BY <1>1, <2>2, <2>3, NoCallTyped, Zenon DEF Requests
    <2> QED
      BY <1>0, <1>1, <1>t, <2>4, PropsTyped, Zenon DEF Requests
  <1>2. ASSUME NEW c \in Callers, AutoPinPair(c) PROVE BoxTypeOK'
    <2> DEFINE t == calls[c].new.token
               old == IF box.readable THEN box ELSE Fresh
    <2>1. t \in Tokens /\ old \in Props
      BY <1>0, PropsTyped DEF Call, Props
    <2> HIDE DEF t, old
    <2>2. CASE WillWrite(c, [old EXCEPT !.token = t]) /\ issued' = issued
      <3>1. [old EXCEPT !.token = t] \in Props
        BY <2>1 DEF Props
      <3>2. calls' \in [Callers -> Call]
        BY <1>w, <2>2, <3>1
      <3> QED
        BY <1>0, <1>2, <1>t, <2>2, <3>2 DEF AutoPinPair
    <2>3. CASE /\ issued < MaxSecrets /\ issued' = issued + 1
               /\ WillWrite(c, [old EXCEPT !.token = t, !.secret = issued + 1])
      <3>1. issued + 1 \in 0..MaxSecrets
        BY <1>0, <2>3, PropsAssumption
      <3>2. [old EXCEPT !.token = t, !.secret = issued + 1] \in Props
        BY <2>1, <3>1, Zenon DEF Props
      <3>3. calls' \in [Callers -> Call]
        BY <1>w, <2>3, <3>2
      <3> QED
        BY <1>0, <1>2, <1>t, <2>3, <3>1, <3>3 DEF AutoPinPair
    <2> QED
      BY <1>2, <2>2, <2>3 DEF AutoPinPair, t, old
  <1>3. ASSUME NEW c \in Callers, AutoPinRefresh(c) PROVE BoxTypeOK'
    <2>1. [box EXCEPT !.token = calls[c].new.token] \in Props
      BY <1>0 DEF Call, Props
    <2>2. calls' \in [Callers -> Call]
      BY <1>3, <1>w, <1>r, <2>1 DEF AutoPinRefresh
    <2> QED
      BY <1>0, <1>3, <1>t, <2>2 DEF AutoPinRefresh
  <1>4. ASSUME NEW c \in Callers, AutoPinUnpair(c) PROVE BoxTypeOK'
    <2>1. [box EXCEPT !.secret = 0, !.token = AnyToken] \in Props
      <3>1. AnyToken \in Tokens /\ 0 \in 0..MaxSecrets
        BY PropsAssumption DEF AnyToken
      <3> QED
        BY <1>0, <3>1, Zenon DEF Props
    <2>2. calls' \in [Callers -> Call]
      BY <1>4, <1>w, <1>r, <2>1 DEF AutoPinUnpair
    <2> QED
      BY <1>0, <1>4, <1>t, <2>2 DEF AutoPinUnpair
  <1>5. ASSUME NEW c \in Callers, ExchangePeers(c) PROVE BoxTypeOK'
    <2>1. [Fresh EXCEPT !.owner = TRUE] \in Props
      BY PropsTyped, Zenon DEF Props
    <2>2. calls' \in [Callers -> Call]
      BY <1>5, <1>w, <1>r, <2>1 DEF ExchangePeers
    <2> QED
      BY <1>0, <1>5, <1>t, <2>2 DEF ExchangePeers
  <1>6. ASSUME NEW c \in Callers, EmptiesBox(c) PROVE BoxTypeOK'
    <2>1. [calls[c] EXCEPT !.at = "write"] \in Call
      BY <1>0 DEF Call
    <2>2. calls' \in [Callers -> Call]
      BY <1>0, <1>6, <1>r, <2>1 DEF EmptiesBox
    <2> QED
      BY <1>0, <1>6, <1>t, <2>2, PropsTyped DEF EmptiesBox
  <1>7. ASSUME NEW c \in Callers, FillsBox(c) PROVE BoxTypeOK'
    <2>1. calls[c].new \in Props
      BY <1>0 DEF Call
    <2>2. calls' \in [Callers -> Call]
      BY <1>0, <1>7, NoCallTyped DEF FillsBox
    <2> QED
      BY <1>0, <1>7, <1>t, <2>1, <2>2, PropsTyped DEF FillsBox
  <1>8. ASSUME NEW p \in {"blox", "wap"}, ProcessDies(p) PROVE BoxTypeOK'
    <2>1. calls' \in [Callers -> Call]
      BY <1>0, <1>8, NoCallTyped DEF ProcessDies
    <2> QED
      BY <1>0, <1>8, <1>t, <2>1, PropsTyped DEF ProcessDies
  <1>9. CASE UNCHANGED propsVars
    BY <1>9 DEF propsVars, BoxTypeOK
  <1> QED
    BY <1>1, <1>2, <1>3, <1>4, <1>5, <1>6, <1>7, <1>8, <1>9 DEF PropsNext, CallerStep

-----------------------------------------------------------------------------
(* What the box holds.                                                     *)

\* A request that ran beside another one leaves nothing to expect of the box; one
\* that runs alone fills a file that it has emptied itself.
BoxInv ==
  /\ BoxTypeOK
  /\ \A c \in Calling : calls[c].alone => Calling = {c}
  /\ \A c \in Calling : ~calls[c].alone => ~told.readable
  /\ \A c \in Calling : calls[c].at = "write" /\ calls[c].alone => ~box.readable
  /\ AnsweredIsStored

LEMMA BoxInit == PropsInit => BoxInv
  <1> SUFFICES ASSUME PropsInit PROVE BoxInv
    OBVIOUS
  <1>1. BoxTypeOK
    BY PropsTyped, NoCallTyped, PropsAssumption DEF PropsInit, BoxTypeOK, Call
  <1>2. Calling = {} /\ ~told.readable
    BY PropsTyped, NoCallTyped DEF PropsInit, Calling
  <1> QED
    BY <1>1, <1>2 DEF BoxInv, AnsweredIsStored

\* Steps that leave the box and the expectation alone, of a request that only goes
\* on to the next step before its write or ends.
LEMMA QuietStep ==
  ASSUME BoxInv, BoxTypeOK', NEW c \in Calling, calls[c].at # "write",
         UNCHANGED <<box, told>>,
         calls'[c].at # "write", calls'[c].at # "idle" => calls'[c].alone = calls[c].alone,
         \A d \in Callers \ {c} : calls'[d] = calls[d]
  PROVE  BoxInv'
  <1>1. Calling' \subseteq Calling
    BY DEF Calling
  <1>2. \A d \in Calling' : calls'[d].alone = calls[d].alone
    BY DEF Calling
  <1>3. \A d \in Callers : calls'[d].at = "write" <=> calls[d].at = "write"
    BY DEF Calling
  <1>4. AnsweredIsStored'
    BY <1>3 DEF BoxInv, AnsweredIsStored
  <1>5. \A d \in Calling' : calls'[d].alone => Calling' = {d}
    BY <1>1, <1>2 DEF BoxInv
  <1>6. \A d \in Calling' : ~calls'[d].alone => ~told'.readable
    BY <1>1, <1>2 DEF BoxInv
  <1>7. \A d \in Calling' : calls'[d].at = "write" /\ calls'[d].alone => ~box'.readable
    BY <1>1, <1>2, <1>3 DEF BoxInv, Calling
  <1> QED
    BY <1>4, <1>5, <1>6, <1>7 DEF BoxInv

LEMMA BoxStep == BoxInv /\ [PropsNext]_propsVars => BoxInv'
  <1> SUFFICES ASSUME BoxInv, [PropsNext]_propsVars PROVE BoxInv'
    OBVIOUS
  <1>0. BoxTypeOK /\ BoxTypeOK' /\ calls \in [Callers -> Call]
    BY PropsTypes DEF BoxInv, BoxTypeOK, Call
  <1>1. ASSUME NEW c \in Callers, NEW o \in {"pair", "refresh", "unpair", "exchange"},
               NEW t \in Tokens, Requests(c, o, t)
        PROVE  BoxInv'
    <2>1. /\ calls'[c].at = "read" /\ calls'[c].alone = (Calling = {})
          /\ \A d \in Calling : d # c /\ calls'[d].at = calls[d].at /\ calls'[d].alone = FALSE
          /\ \A d \in Callers \ (Calling \cup {c}) : calls'[d].at = "idle"
      BY <1>0, <1>1, NoCallTyped, Zenon DEF Requests, Calling, Call
    <2>2. Calling' = Calling \cup {c}
      BY <1>1, <2>1 DEF Calling
    <2>3. box' = box /\ told' = IF Calling = {} THEN told ELSE Unreadable
      BY <1>1, Zenon DEF Requests
    <2>4. CASE Calling = {}
      <3>1. \A d \in Callers : calls[d].at # "write"
        BY <2>4 DEF Calling
      <3>2. AnsweredIsStored'
        BY <2>3, <2>4, <3>1 DEF BoxInv, AnsweredIsStored
      <3> QED
        BY <1>0, <2>1, <2>2, <2>4, <3>2, Zenon DEF BoxInv
    <2>5. CASE Calling # {}
      <3>1. ~told'.readable
        BY <2>3, <2>5, PropsTyped
      <3>2. \A d \in Calling' : ~calls'[d].alone
        BY <2>1, <2>2, <2>5, Zenon
      <3> QED
        BY <1>0, <3>1, <3>2 DEF BoxInv, AnsweredIsStored
    <2> QED
      BY <2>4, <2>5
  <1>2. ASSUME NEW c \in Callers,
               AutoPinPair(c) \/ AutoPinRefresh(c) \/ AutoPinUnpair(c) \/ ExchangePeers(c)
        PROVE  BoxInv'
    <2>1. calls[c].at = "read" /\ UNCHANGED <<box, told>>
      BY <1>2 DEF AutoPinPair, AutoPinRefresh, AutoPinUnpair, ExchangePeers
    <2>2. Refused(c) \/ \E n : WillWrite(c, n)
      BY <1>2 DEF AutoPinPair, AutoPinRefresh, AutoPinUnpair, ExchangePeers
    <2>3. /\ calls'[c].at # "write"
          /\ calls'[c].at # "idle" => calls'[c].alone = calls[c].alone
          /\ \A d \in Callers \ {c} : calls'[d] = calls[d]
      BY <1>0, <2>2, NoCallTyped DEF Refused, WillWrite, Call
    <2>4. c \in Calling /\ calls[c].at # "write"
      BY <2>1 DEF Calling
    <2> QED
      BY <1>0, <2>1, <2>3, <2>4, QuietStep
  <1>3. ASSUME NEW c \in Callers, EmptiesBox(c) PROVE BoxInv'
    <2>1. CASE Refused(c) /\ UNCHANGED box
      <3>1. /\ calls'[c].at = "idle"
            /\ \A d \in Callers \ {c} : calls'[d] = calls[d]
        BY <1>0, <2>1, NoCallTyped DEF Refused
      <3> QED
        BY <1>0, <1>3, <2>1, <3>1, QuietStep DEF Calling, EmptiesBox
    <2>2. CASE box' = Unreadable /\ calls' = [calls EXCEPT ![c].at = "write"]
      <3>1. /\ calls'[c].at = "write"
            /\ \A d \in Callers \ {c} : calls'[d] = calls[d]
            /\ \A d \in Callers : calls'[d].alone = calls[d].alone
        BY <1>0, <2>2 DEF Call
      <3>2. Calling' = Calling
        BY <1>3, <3>1 DEF EmptiesBox, Calling
      <3>3. ~box'.readable /\ told' = told
        BY <1>3, <2>2, PropsTyped DEF EmptiesBox
      <3>4. AnsweredIsStored'
        BY <3>1 DEF AnsweredIsStored
      <3> QED
        BY <1>0, <3>1, <3>2, <3>3, <3>4 DEF BoxInv, Calling
    <2> QED
      BY <1>3, <2>1, <2>2 DEF EmptiesBox
  <1>4. ASSUME NEW c \in Callers, FillsBox(c) PROVE BoxInv'
    <2>1. /\ c \in Calling /\ calls'[c].at = "idle"
          /\ \A d \in Callers \ {c} : calls'[d] = calls[d]
      BY <1>0, <1>4, NoCallTyped DEF FillsBox, Calling
    <2>2. Calling' = Calling \ {c}
      BY <2>1 DEF Calling
    <2>3. CASE calls[c].alone
      <3>1. Calling' = {} /\ ~box.readable
        BY <1>4, <2>1, <2>2, <2>3 DEF BoxInv, FillsBox
      <3>2. (box' = calls[c].new /\ told' = calls[c].new) \/ told' = Unreadable
        BY <1>4, <2>3, <3>1 DEF FillsBox
      <3>3. AnsweredIsStored'
        BY <3>2, PropsTyped DEF AnsweredIsStored
      <3> QED
        BY <1>0, <3>1, <3>3 DEF BoxInv
    <2>4. CASE ~calls[c].alone
      <3>1. ~told.readable
        BY <2>1, <2>4 DEF BoxInv
      <3>2. ~told'.readable
        BY <1>4, <2>4, <3>1, PropsTyped DEF FillsBox
      <3>3. \A d \in Calling' : ~calls'[d].alone
        BY <2>1, <2>2, <2>4 DEF BoxInv, Calling
      <3> QED
        BY <1>0, <3>2, <3>3 DEF BoxInv, AnsweredIsStored
    <2> QED
      BY <2>3, <2>4
  <1>5. ASSUME NEW p \in {"blox", "wap"}, ProcessDies(p) PROVE BoxInv'
    <2> DEFINE Its == {c \in Calling : ProcessOf(calls[c].op) = p}
    <2>1. /\ \A c \in Its : calls'[c].at = "idle"
          /\ \A c \in Callers \ Its : calls'[c] = calls[c]
          /\ box' = box
          /\ told' = IF \E c \in Its : calls[c].at = "write" THEN Unreadable ELSE told
      BY <1>5, NoCallTyped DEF ProcessDies, Calling
    <2>2. Its \subseteq Calling
      OBVIOUS
    <2> HIDE DEF Its
    <2>3. Calling' = Calling \ Its
      BY <2>1, <2>2 DEF Calling
    <2>4. \A c \in Calling' : c \in Calling /\ calls'[c] = calls[c]
      BY <2>1, <2>3 DEF Calling
    <2>5. \A c \in Calling' : calls'[c].alone => Calling' = {c}
      BY <2>3, <2>4 DEF BoxInv
    <2>6. told'.readable => told' = told
      BY <2>1, PropsTyped
    <2>7. \A c \in Calling' : ~calls'[c].alone => ~told'.readable
      BY <2>4, <2>6 DEF BoxInv
    <2>8. AnsweredIsStored'
      <3>1. ASSUME told'.readable, \A c \in Callers : calls'[c].at # "write"
            PROVE  \A c \in Callers : calls[c].at # "write"
        BY <2>1, <3>1, PropsTyped
      <3> QED
        BY <2>1, <2>6, <3>1 DEF BoxInv, AnsweredIsStored
    <2> QED
      BY <1>0, <2>1, <2>4, <2>5, <2>7, <2>8 DEF BoxInv
  <1>6. CASE UNCHANGED propsVars
    BY <1>0, <1>6 DEF propsVars, BoxInv, AnsweredIsStored, Calling
  <1> QED
    BY <1>1, <1>2, <1>3, <1>4, <1>5, <1>6 DEF PropsNext, CallerStep

LEMMA BoxAlways == PropsSpec => []BoxInv
  BY BoxInit, BoxStep, PTL DEF PropsSpec

\* The box holds what the last answered request left there, but for the cases
\* AnsweredIsStored excepts: for any requests of the two processes, failing writes
\* and deaths of either.
THEOREM AnswerStored == PropsSpec => []AnsweredIsStored
  <1>1. BoxInv => AnsweredIsStored
    BY DEF BoxInv
  <1> QED
    BY <1>1, BoxAlways, PTL

-----------------------------------------------------------------------------
(* The pairing secret.                                                     *)

\* Only a readable file has a secret, and what an undisturbed request is about to
\* write has the secret that the app was given last, or none.
Rewriting(c) == calls[c].at \in {"truncate", "write"}
SecretInv ==
  /\ box.secret # 0 => box.readable
  /\ told.secret # 0 => told.readable
  /\ \A c \in Callers : Rewriting(c) => calls[c].new.readable
  /\ \A c \in Callers : Rewriting(c) /\ calls[c].alone /\ told.secret # 0
                        => calls[c].new.secret \in {0, told.secret}

LEMMA NoSecret == Unreadable.secret = 0 /\ Fresh.secret = 0 /\ Fresh.readable
  BY DEF Unreadable, Fresh

LEMMA SecretInit == PropsInit => SecretInv
  BY NoSecret, NoCallTyped DEF PropsInit, SecretInv, Rewriting

\* A request that runs alone and has not written yet finds the box as it was left.
LEMMA FindsTold ==
  ASSUME BoxInv, NEW c \in Callers, calls[c].at = "read", calls[c].alone, told.readable
  PROVE  box = told
  <1>1. Calling = {c}
    BY DEF BoxInv, Calling
  <1>2. \A d \in Callers : calls[d].at # "write"
    BY <1>1 DEF Calling
  <1> QED
    BY <1>2 DEF BoxInv, AnsweredIsStored

\* A request decides what to write.
LEMMA DecidesKeeps ==
  ASSUME BoxInv, SecretInv, NEW c \in Callers, calls[c].at = "read", UNCHANGED <<box, told>>,
         NEW n \in Props, WillWrite(c, n), n.readable,
         calls[c].alone /\ told.secret # 0 => n.secret \in {0, told.secret}
  PROVE  SecretInv'
  <1>1. calls \in [Callers -> Call]
    BY DEF BoxInv, BoxTypeOK, Call
  <1>2. /\ calls'[c].new = n /\ calls'[c].alone = calls[c].alone
        /\ \A d \in Callers \ {c} : calls'[d] = calls[d]
    BY <1>1 DEF WillWrite, Call
  <1> QED
    BY <1>2 DEF SecretInv, Rewriting

LEMMA SecretStep == BoxInv /\ SecretInv /\ [PropsNext]_propsVars => SecretInv'
  <1> SUFFICES ASSUME BoxInv, SecretInv, [PropsNext]_propsVars PROVE SecretInv'
    OBVIOUS
  <1>0. calls \in [Callers -> Call] /\ box \in Props /\ told \in Props
    BY DEF BoxInv, BoxTypeOK, Call
  <1>r. ASSUME NEW c \in Callers, Refused(c), UNCHANGED <<box, told>> PROVE SecretInv'
    <2>1. calls'[c].at = "idle" /\ \A d \in Callers \ {c} : calls'[d] = calls[d]
      BY <1>0, <1>r, NoCallTyped DEF Refused
    <2> QED
      BY <1>r, <2>1 DEF SecretInv, Rewriting
  <1>1. ASSUME NEW c \in Callers, NEW o \in {"pair", "refresh", "unpair", "exchange"},
               NEW t \in Tokens, Requests(c, o, t)
        PROVE  SecretInv'
    <2>1. calls'[c].at = "read"
      BY <1>1, NoCallTyped, Zenon DEF Requests, Call
    <2>2. \A d \in Callers \ {c} :
            \/ calls'[d].at = "idle"
            \/ calls'[d].at = calls[d].at /\ calls'[d].new = calls[d].new /\ Calling # {}
      BY <1>0, <1>1, NoCallTyped, Zenon DEF Requests, Call
    <2>3. box' = box /\ told' = IF Calling = {} THEN told ELSE Unreadable
      BY <1>1, Zenon DEF Requests
    <2> QED
      BY <2>1, <2>2, <2>3, NoSecret DEF SecretInv, Rewriting
  <1>2. ASSUME NEW c \in Callers, AutoPinPair(c) PROVE SecretInv'
    <2> DEFINE t == calls[c].new.token
               old == IF box.readable THEN box ELSE Fresh
    <2>1. /\ calls[c].at = "read" /\ UNCHANGED <<box, told>> /\ t \in Tokens
          /\ issued \in 0..MaxSecrets
      BY <1>0, <1>2 DEF AutoPinPair, Call, Props, BoxInv, BoxTypeOK
    <2>2. old \in Props /\ old.readable
      BY <1>0, PropsTyped, NoSecret
    <2>3. calls[c].alone /\ told.secret # 0 => old.secret = told.secret
      BY <2>1, FindsTold DEF SecretInv
    <2> HIDE DEF t, old
    <2>4. CASE WillWrite(c, [old EXCEPT !.token = t])
      <3> DEFINE n == [old EXCEPT !.token = t]
      <3>1. n \in Props /\ n.readable /\ n.secret = old.secret
        BY <2>1, <2>2 DEF Props
      <3> HIDE DEF n
      <3>2. WillWrite(c, n)
        BY <2>4 DEF n
      <3> QED
        BY <2>1, <2>3, <3>1, <3>2, DecidesKeeps
    <2>5. CASE /\ old.secret = 0 /\ issued < MaxSecrets
               /\ WillWrite(c, [old EXCEPT !.token = t, !.secret = issued + 1])
      <3> DEFINE n == [old EXCEPT !.token = t, !.secret = issued + 1]
      <3>1. issued + 1 \in 0..MaxSecrets
        BY <2>1, <2>5, PropsAssumption
      <3>2. n \in Props /\ n.readable
        BY <2>1, <2>2, <3>1, Zenon DEF Props
      <3> HIDE DEF n
      <3>3. WillWrite(c, n)
        BY <2>5 DEF n
      <3>4. ~(calls[c].alone /\ told.secret # 0)
        BY <2>3, <2>5
      <3> QED
        BY <2>1, <3>2, <3>3, <3>4, DecidesKeeps
    <2> QED
      BY <1>2, <2>4, <2>5 DEF AutoPinPair, t, old
  <1>3. ASSUME NEW c \in Callers, AutoPinRefresh(c) PROVE SecretInv'
    <2>1. calls[c].at = "read" /\ UNCHANGED <<box, told>> /\ calls[c].new.token \in Tokens
      BY <1>0, <1>3 DEF AutoPinRefresh, Call, Props
    <2>2. CASE box.secret # 0 /\ WillWrite(c, [box EXCEPT !.token = calls[c].new.token])
      <3> DEFINE n == [box EXCEPT !.token = calls[c].new.token]
      <3>1. n \in Props /\ n.readable /\ n.secret = box.secret
        BY <1>0, <2>1, <2>2 DEF Props, SecretInv
      <3> HIDE DEF n
      <3>2. WillWrite(c, n)
        BY <2>2 DEF n
      <3>3. calls[c].alone /\ told.secret # 0 => n.secret = told.secret
        BY <2>1, <3>1, FindsTold DEF SecretInv
      <3> QED
        BY <2>1, <3>1, <3>2, <3>3, DecidesKeeps
    <2> QED
      BY <1>3, <1>r, <2>1, <2>2 DEF AutoPinRefresh
  <1>4. ASSUME NEW c \in Callers, AutoPinUnpair(c) PROVE SecretInv'
    <2>1. calls[c].at = "read" /\ UNCHANGED <<box, told>>
      BY <1>4 DEF AutoPinUnpair
    <2>2. CASE box.readable /\ WillWrite(c, [box EXCEPT !.secret = 0, !.token = AnyToken])
      <3> DEFINE n == [box EXCEPT !.secret = 0, !.token = AnyToken]
      <3>1. AnyToken \in Tokens /\ 0 \in 0..MaxSecrets
        BY PropsAssumption DEF AnyToken
      <3>2. n \in Props /\ n.readable /\ n.secret = 0
        BY <1>0, <2>2, <3>1, Zenon DEF Props
      <3> HIDE DEF n
      <3>3. WillWrite(c, n)
        BY <2>2 DEF n
      <3> QED
        BY <2>1, <3>2, <3>3, DecidesKeeps
    <2> QED
      BY <1>4, <1>r, <2>1, <2>2 DEF AutoPinUnpair
  <1>5. ASSUME NEW c \in Callers, ExchangePeers(c) PROVE SecretInv'
    <2>1. calls[c].at = "read" /\ UNCHANGED <<box, told>>
      BY <1>5 DEF ExchangePeers
    <2>2. CASE WillWrite(c, [Fresh EXCEPT !.owner = TRUE])
      <3> DEFINE n == [Fresh EXCEPT !.owner = TRUE]
      <3>1. n \in Props /\ n.readable /\ n.secret = 0
        BY PropsTyped, NoSecret, Zenon DEF Props
      <3> HIDE DEF n
      <3>2. WillWrite(c, n)
        BY <2>2 DEF n
      <3> QED
        BY <2>1, <3>1, <3>2, DecidesKeeps
    <2> QED
      BY <1>5, <1>r, <2>1, <2>2 DEF ExchangePeers
  <1>6. ASSUME NEW c \in Callers, EmptiesBox(c) PROVE SecretInv'
    <2>1. CASE Refused(c) /\ UNCHANGED box
      BY <1>6, <1>r, <2>1 DEF EmptiesBox
    <2>2. CASE box' = Unreadable /\ calls' = [calls EXCEPT ![c].at = "write"]
      <3>1. \A d \in Callers : calls'[d].new = calls[d].new /\ calls'[d].alone = calls[d].alone
        BY <1>0, <2>2 DEF Call
      <3>2. /\ calls[c].at = "truncate" /\ told' = told
            /\ \A d \in Callers \ {c} : calls'[d].at = calls[d].at
        BY <1>0, <1>6, <2>2 DEF EmptiesBox
      <3> QED
        BY <2>2, <3>1, <3>2, NoSecret DEF SecretInv, Rewriting
    <2> QED
      BY <1>6, <2>1, <2>2 DEF EmptiesBox
  <1>7. ASSUME NEW c \in Callers, FillsBox(c) PROVE SecretInv'
    <2>1. /\ calls'[c].at = "idle" /\ \A d \in Callers \ {c} : calls'[d] = calls[d]
          /\ Rewriting(c) /\ c \in Calling
      BY <1>0, <1>7, NoCallTyped DEF FillsBox, Rewriting, Calling
    <2>2. /\ box' \in {calls[c].new, Unreadable}
          /\ told' \in {calls[c].new, told, Unreadable}
      BY <1>7 DEF FillsBox
    <2>3. calls[c].new.readable
      BY <2>1 DEF SecretInv
    <2>4. \A d \in Callers : Rewriting(d)' /\ calls'[d].alone => told' \in {told, Unreadable}
      <3> SUFFICES ASSUME NEW d \in Callers, Rewriting(d)', calls'[d].alone
                   PROVE  told' \in {told, Unreadable}
        OBVIOUS
      <3>1. d # c /\ d \in Calling /\ calls[d].alone
        BY <2>1 DEF Rewriting, Calling
      <3>2. Calling = {d}
        BY <3>1 DEF BoxInv
      <3> QED
        BY <2>1, <3>1, <3>2
    <2> QED
      BY <2>1, <2>2, <2>3, <2>4, NoSecret DEF SecretInv, Rewriting
  <1>8. ASSUME NEW p \in {"blox", "wap"}, ProcessDies(p) PROVE SecretInv'
    <2>1. /\ \A c \in Callers : calls'[c].at = "idle" \/ calls'[c] = calls[c]
          /\ box' = box /\ told' \in {told, Unreadable}
      BY <1>8, NoCallTyped DEF ProcessDies
    <2> QED
      BY <2>1, NoSecret DEF SecretInv, Rewriting
  <1>9. CASE UNCHANGED propsVars
    BY <1>9 DEF propsVars, SecretInv, Rewriting
  <1> QED
    BY <1>1, <1>2, <1>3, <1>4, <1>5, <1>6, <1>7, <1>8, <1>9 DEF PropsNext, CallerStep

\* A secret that the app was given by handleAutoPinPair is never replaced by another
\* one: between two answers that name a secret, it is the same secret.
THEOREM SecretStable == PropsSpec => SecretIsStable
  <1>1. PropsSpec => []SecretInv
    BY SecretInit, SecretStep, BoxAlways, PTL DEF PropsSpec
  <1>2. BoxInv /\ SecretInv /\ [PropsNext]_propsVars
          => [told.secret # 0 /\ told'.secret # 0 => told'.secret = told.secret]_propsVars
    <2> SUFFICES ASSUME BoxInv, SecretInv, PropsNext, told.secret # 0, told'.secret # 0
                 PROVE  told'.secret = told.secret
      OBVIOUS
    <2>1. ASSUME NEW c \in Callers, FillsBox(c) PROVE told'.secret = told.secret
      <3>1. Rewriting(c)
        BY <2>1 DEF FillsBox, Rewriting
      <3>2. told' = Unreadable \/ told' = told \/ (calls[c].alone /\ told' = calls[c].new)
        BY <2>1 DEF FillsBox
      <3> QED
        BY <3>1, <3>2, NoSecret DEF SecretInv
    <2>2. told' = told \/ told' = Unreadable \/ \E c \in Callers : FillsBox(c)
      BY Zenon DEF PropsNext, CallerStep, Requests, AutoPinPair, AutoPinRefresh, AutoPinUnpair,
             ExchangePeers, EmptiesBox, ProcessDies
    <2> QED
      BY <2>1, <2>2, NoSecret
  <1> QED
    BY <1>1, <1>2, BoxAlways, PTL DEF PropsSpec, SecretIsStable
=============================================================================
