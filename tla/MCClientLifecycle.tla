------------------------- MODULE MCClientLifecycle -------------------------
(***************************************************************************)
(* Model-checking instances of ClientLifecycle.                            *)
(***************************************************************************)
EXTENDS ClientLifecycle, TLC

\* Operations are alike; so are callers of Shutdown.  Only for safety.
ThreadSymmetry == Permutations(Ops) \cup Permutations(Closers)
=============================================================================
