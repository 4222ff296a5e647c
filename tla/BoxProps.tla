------------------------------- MODULE BoxProps -------------------------------
(***************************************************************************)
(* box_props.json, which two processes rewrite as a whole without a lock:  *)
(* the blox (auto-pin pair, refresh and unpair) and the set-up server      *)
(* (the exchange of peer identities).  A write truncates the file first,   *)
(* and either process may die between any two steps.                       *)
(*                                                                         *)
(* The properties are reduced to the pairing secret (0: not paired), the   *)
(* pinning token and whether the identity keys of the set-up are there.    *)
(***************************************************************************)
EXTENDS Naturals

CONSTANTS
    Callers,      \* requests that may run at the same time
    Tokens,       \* pinning tokens the app may send
    MaxSecrets    \* bound: pairing secrets generated

ASSUME PropsAssumption == MaxSecrets \in Nat /\ Tokens # {}

VARIABLES
    box,          \* the content of box_props.json
    calls,        \* caller -> the request it makes
    issued,       \* how many pairing secrets were generated
    told          \* what undisturbed requests were answered: what the box must hold

propsVars == <<box, calls, issued, told>>

AnyToken == CHOOSE t \in Tokens : TRUE
Props == [readable : BOOLEAN, secret : 0..MaxSecrets, token : Tokens, owner : BOOLEAN]

\* A file that is missing, empty or not JSON: ReadProperties returns an error.
Unreadable == [readable |-> FALSE, secret |-> 0, token |-> AnyToken, owner |-> FALSE]
Fresh == [Unreadable EXCEPT !.readable = TRUE]

NoCall == [at |-> "idle", op |-> "pair", new |-> Fresh, alone |-> TRUE]
ProcessOf(o) == IF o = "exchange" THEN "wap" ELSE "blox"
Calling == {c \in Callers : calls[c].at # "idle"}

BoxTypeOK ==
    /\ box \in Props /\ issued \in 0..MaxSecrets /\ told \in Props
    /\ calls \in [Callers -> [at : {"idle", "read", "truncate", "write"},
                              op : {"pair", "refresh", "unpair", "exchange"},
                              new : Props, alone : BOOLEAN]]

PropsInit ==
    /\ box = Unreadable /\ issued = 0 /\ told = Unreadable
    /\ calls = [c \in Callers |-> NoCall]

-----------------------------------------------------------------------------
\* A request arrives, with a token where it needs one.
Requests(c, o, t) ==
    /\ calls[c].at = "idle"
    /\ calls' = [d \in Callers |->
                   IF d = c THEN [NoCall EXCEPT !.at = "read", !.op = o, !.new.token = t,
                                                !.alone = (Calling = {})]
                   ELSE IF d \in Calling THEN [calls[d] EXCEPT !.alone = FALSE] ELSE NoCall]
    /\ told' = IF Calling = {} THEN told ELSE Unreadable
    /\ UNCHANGED <<box, issued>>

WillWrite(c, new) == calls' = [calls EXCEPT ![c].at = "truncate", ![c].new = new]
Refused(c) == calls' = [calls EXCEPT ![c] = NoCall]

\* Mutant: pairing again replaces the secret that the app already has.
PairsAnew(c) ==
    LET t == calls[c].new.token
        old == IF box.readable THEN box ELSE Fresh IN
    /\ calls[c].at = "read" /\ calls[c].op = "pair" /\ issued < MaxSecrets
    /\ issued' = issued + 1
    /\ WillWrite(c, [old EXCEPT !.token = t, !.secret = issued + 1])
    /\ UNCHANGED <<box, told>>

\* handleAutoPinPair: properties that cannot be read are replaced by fresh ones;
\* a box that is paired keeps its secret and takes the new token.
AutoPinPair(c) ==
    LET t == calls[c].new.token
        old == IF box.readable THEN box ELSE Fresh IN
    /\ calls[c].at = "read" /\ calls[c].op = "pair"
    /\ \/ /\ old.secret # 0
          /\ WillWrite(c, [old EXCEPT !.token = t]) /\ UNCHANGED issued
       \/ /\ old.secret = 0 /\ issued < MaxSecrets
          /\ issued' = issued + 1
          /\ WillWrite(c, [old EXCEPT !.token = t, !.secret = issued + 1])
    /\ UNCHANGED <<box, told>>

\* handleAutoPinRefresh: only the token of a paired box is replaced.
AutoPinRefresh(c) ==
    /\ calls[c].at = "read" /\ calls[c].op = "refresh"
    /\ \/ ~box.readable /\ Refused(c)
       \/ box.readable /\ box.secret = 0 /\ Refused(c)
       \/ box.secret # 0 /\ WillWrite(c, [box EXCEPT !.token = calls[c].new.token])
    /\ UNCHANGED <<box, issued, told>>

\* handleAutoPinUnpair: the three auto-pin keys are deleted.
AutoPinUnpair(c) ==
    /\ calls[c].at = "read" /\ calls[c].op = "unpair"
    /\ \/ ~box.readable /\ Refused(c)
       \/ box.readable /\ WillWrite(c, [box EXCEPT !.secret = 0, !.token = AnyToken])
    /\ UNCHANGED <<box, issued, told>>

\* exchangePeersHandler: the identity keys are written, and nothing else is kept.
ExchangePeers(c) ==
    /\ calls[c].at = "read" /\ calls[c].op = "exchange"
    /\ \/ WillWrite(c, [Fresh EXCEPT !.owner = TRUE])
       \/ Refused(c)
    /\ UNCHANGED <<box, issued, told>>

\* os.WriteFile empties the file, or fails to open it.
EmptiesBox(c) ==
    /\ calls[c].at = "truncate"
    /\ \/ box' = Unreadable /\ calls' = [calls EXCEPT ![c].at = "write"]
       \/ Refused(c) /\ UNCHANGED box
    /\ UNCHANGED <<issued, told>>

\* Mutant: the error of the write is not looked at.
FillsUnchecked(c) ==
    /\ calls[c].at = "write"
    /\ box' \in {calls[c].new, Unreadable}
    /\ told' = IF calls[c].alone THEN calls[c].new ELSE told
    /\ calls' = [calls EXCEPT ![c] = NoCall]
    /\ UNCHANGED issued

\* ... and writes the properties; written over another request's they may be no
\* JSON any more.  The request is answered, or told that the write failed.
FillsBox(c) ==
    /\ calls[c].at = "write"
    /\ \/ /\ box' \in IF box.readable THEN {calls[c].new, Unreadable} ELSE {calls[c].new}
          /\ told' = IF calls[c].alone THEN calls[c].new ELSE told
       \/ box' = Unreadable /\ told' = Unreadable
    /\ calls' = [calls EXCEPT ![c] = NoCall]
    /\ UNCHANGED issued

\* A process dies, and its requests with it: a file it has emptied stays empty.
ProcessDies(p) ==
    LET Its == {c \in Calling : ProcessOf(calls[c].op) = p} IN
    /\ Its # {}
    /\ told' = IF \E c \in Its : calls[c].at = "write" THEN Unreadable ELSE told
    /\ calls' = [c \in Callers |-> IF c \in Its THEN NoCall ELSE calls[c]]
    /\ UNCHANGED <<box, issued>>

CallerStep(c) ==
    \/ \E o \in {"pair", "refresh", "unpair", "exchange"}, t \in Tokens : Requests(c, o, t)
    \/ AutoPinPair(c) \/ AutoPinRefresh(c) \/ AutoPinUnpair(c) \/ ExchangePeers(c)
    \/ EmptiesBox(c) \/ FillsBox(c)

PropsNext ==
    \/ \E c \in Callers : CallerStep(c)
    \/ \E p \in {"blox", "wap"} : ProcessDies(p)

PropsSpec == PropsInit /\ [][PropsNext]_propsVars

-----------------------------------------------------------------------------
\* The box holds what the last answered request left there (the secret the app was
\* given, its latest token, the identity of the set-up), unless requests overlapped,
\* a write failed or a process died while it rewrote the file.
AnsweredIsStored ==
    told.readable /\ (\A c \in Callers : calls[c].at # "write") => box = told

\* Across a step that answers nobody's unpairing or new set-up, a secret that the
\* app was given is never replaced by another one.
SecretIsStable ==
    [][told.secret # 0 /\ told'.secret # 0 => told'.secret = told.secret]_propsVars
=============================================================================
