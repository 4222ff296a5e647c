------------------------------ MODULE ChunkBag ------------------------------
(***************************************************************************)
(* What a chat stream promises its reader: every chunk that the reading    *)
(* goroutine adds is handed over exactly once, or is dropped because the   *)
(* application has closed the stream; a closed stream takes no more.  It   *)
(* promises no order.                                                      *)
(***************************************************************************)
CONSTANT Chunk   \* every chunk there may be

VARIABLES
    pending,   \* added and not handed over yet
    handed,    \* handed over
    ended      \* closed

bagVars == <<pending, handed, ended>>

BagInit == pending = {} /\ handed = {} /\ ended = FALSE

Put(c) ==
    /\ ~ended /\ c \notin pending \cup handed
    /\ pending' = pending \cup {c}
    /\ UNCHANGED <<handed, ended>>

Hand(c) ==
    /\ c \in pending
    /\ pending' = pending \ {c} /\ handed' = handed \cup {c}
    /\ UNCHANGED ended

End == ended' = TRUE /\ UNCHANGED <<pending, handed>>

BagNext == End \/ \E c \in Chunk : Put(c) \/ Hand(c)

BagSpec == BagInit /\ [][BagNext]_bagVars
=============================================================================
