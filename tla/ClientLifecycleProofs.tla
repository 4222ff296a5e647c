----------------------- MODULE ClientLifecycleProofs -----------------------
(***************************************************************************)
(* Proofs about ClientLifecycle, for any sets of threads: Shutdown closes  *)
(* nothing that an operation admitted by beginOp still uses.               *)
(***************************************************************************)
EXTENDS ClientLifecycle, FiniteSetTheorems, TLAPS

(* A thread at one of the steps of an operation, or not, as a step leaves it. *)
LEMMA GotoAdmits ==
  ASSUME TypeOK, NEW t \in Gated, NEW l \in OpSteps, Goto(t, l)
  PROVE  Admitted' = Admitted \cup {t}
  BY DEF TypeOK, Goto, Admitted, Threads

LEMMA GotoReleases ==
  ASSUME TypeOK, NEW t \in Gated, NEW l \in {"idle", "refused"}, Goto(t, l)
  PROVE  Admitted' = Admitted \ {t}
  BY DEF TypeOK, Goto, Admitted, Threads, OpSteps

LEMMA GotoElsewhere ==
  ASSUME TypeOK, NEW t \in Setters \cup Closers, NEW l, Goto(t, l)
  PROVE  Admitted' = Admitted
  BY ClientAssumption DEF TypeOK, Goto, Admitted, Threads

(* The steps of a caller of Shutdown, as a step of another thread leaves them. *)
LEMMA OthersStay ==
  ASSUME TypeOK, NEW t \in Gated \cup Setters, NEW l, Goto(t, l)
  PROVE  \A c \in Closers : pc'[c] = pc[c]
  BY ClientAssumption DEF TypeOK, Goto, Threads

LEMMA AdmittedFinite == IsFiniteSet(Admitted)
  <1>1. Admitted \subseteq Gated
    BY DEF Admitted
  <1> QED
    BY <1>1, ClientAssumption, FS_Subset

-----------------------------------------------------------------------------
\* The wait group counts the admitted operations; one caller at a time is past
\* the compare-and-swap, which has closed the client; and past the wait there is
\* no operation left.
Counted == inflight = Cardinality(Admitted)
ClosedFirst ==
    (up # Resources \/ \E c \in Closers : pc[c] \in CloseSteps) => closed
LifeInv == TypeOK /\ Counted /\ ClosedFirst /\ DrainedBeforeClose

LEMMA LifeInit == Init => LifeInv
  <1> SUFFICES ASSUME Init PROVE LifeInv
    OBVIOUS
  <1>1. TypeOK
    <2>1. closed \in BOOLEAN /\ cancelled \in BOOLEAN /\ serving \in BOOLEAN
      BY Zenon DEF Init
    <2>2. ready \in BOOLEAN
      BY Zenon, ClientAssumption DEF Init
    <2> QED
      BY <2>1, <2>2 DEF Init, TypeOK
  <1>2. Admitted = {}
    BY DEF Init, Admitted, OpSteps, Threads
  <1>3. Counted
    BY <1>2, FS_EmptySet DEF Counted, Init
  <1>4. ClosedFirst /\ DrainedBeforeClose
    BY <1>2 DEF Init, ClosedFirst, DrainedBeforeClose, CloseSteps, Resources,
                Threads
  <1> QED
    BY <1>1, <1>3, <1>4 DEF LifeInv

(* A step of an operation under way: nothing is counted, admitted or closed. *)
LEMMA OpStepKeeps ==
  ASSUME LifeInv, NEW t \in Gated, OpStep(t)
  PROVE  LifeInv'
  <1> USE DEF LifeInv
  <1>1. /\ t \in Admitted
        /\ \E l \in OpSteps : Goto(t, l)
        /\ UNCHANGED <<closed, inflight, cancelled, ready, serving, up>>
        /\ streams' \subseteq Chats
    <2>1. CASE Succeeds(t)
      BY <2>1 DEF TypeOK, Succeeds, Connected, At, Admitted, OpSteps
    <2>2. CASE Fails(t)
      BY <2>2 DEF TypeOK, Fails, At, Admitted, OpSteps
    <2> QED
      BY <2>1, <2>2 DEF OpStep
  <1>2. Admitted' = Admitted
    BY <1>1, GotoAdmits
  <1>3. \A c \in Closers : pc'[c] = pc[c]
    BY <1>1, OthersStay
  <1>4. TypeOK'
    BY <1>1, Zenon DEF TypeOK, Goto
  <1> QED
    BY <1>1, <1>2, <1>3, <1>4 DEF Counted, ClosedFirst, DrainedBeforeClose

LEMMA BeginKeeps ==
  ASSUME LifeInv, NEW t \in Gated, beginOp(t)
  PROVE  LifeInv'
  <1> USE DEF LifeInv
  <1>1. t \notin Admitted
    BY DEF beginOp, At, Admitted, OpSteps
  <1>2. /\ TypeOK'
        /\ UNCHANGED <<closed, up>>
        /\ \A c \in Closers : pc'[c] = pc[c]
    <2>1. \E l \in {"refused", "dial"} : Goto(t, l)
      BY DEF beginOp
    <2>2. inflight' \in Nat
      BY DEF beginOp, TypeOK
    <2>3. \A c \in Closers : pc'[c] = pc[c]
      BY <2>1, OthersStay
    <2> QED
      BY <2>1, <2>2, <2>3, Zenon DEF beginOp, TypeOK, Goto, OpSteps
  <1>3. CASE closed /\ Goto(t, "refused") /\ UNCHANGED inflight
    <2>1. Admitted' = Admitted
      BY <1>1, <1>3, GotoReleases
    <2> QED
      BY <1>2, <1>3, <2>1 DEF Counted, ClosedFirst, DrainedBeforeClose
  <1>4. CASE ~closed /\ Goto(t, "dial") /\ inflight' = inflight + 1
    <2>1. Admitted' = Admitted \cup {t}
      BY <1>4, GotoAdmits DEF OpSteps
    <2>2. Counted'
      BY <1>1, <1>4, <2>1, AdmittedFinite, FS_AddElement DEF Counted
    <2>3. ~(up # Resources \/ \E c \in Closers : pc[c] \in CloseSteps)
      BY <1>4 DEF ClosedFirst
    <2> QED
      BY <1>2, <2>2, <2>3 DEF ClosedFirst, DrainedBeforeClose, CloseSteps,
                              Resources
  <1> QED
    BY <1>3, <1>4 DEF beginOp

LEMMA DoneKeeps ==
  ASSUME LifeInv, NEW t \in Gated, done(t)
  PROVE  LifeInv'
  <1> USE DEF LifeInv
  <1>1. t \in Admitted
    BY DEF done, At, Admitted, OpSteps
  <1>2. Admitted' = Admitted \ {t}
    BY GotoReleases DEF done
  <1>3. /\ Cardinality(Admitted') = Cardinality(Admitted) - 1
        /\ Cardinality(Admitted') \in Nat
    <2>1. IsFiniteSet(Admitted')
      BY <1>2, AdmittedFinite, FS_Subset
    <2> QED
      BY <1>1, <1>2, <2>1, AdmittedFinite, FS_RemoveElement, FS_CardinalityType
  <1>4. Counted' /\ inflight' \in Nat
    BY <1>3 DEF done, Counted
  <1>5. TypeOK'
    BY <1>4, Zenon DEF done, TypeOK, Goto
  <1>6. \A c \in Closers : pc'[c] = pc[c]
    BY OthersStay DEF done
  <1> QED
    BY <1>2, <1>4, <1>5, <1>6 DEF done, ClosedFirst, DrainedBeforeClose

(* Shutdown: the first caller closes the client, the others return.        *)
LEMMA ShutdownKeeps ==
  ASSUME LifeInv, NEW c \in Closers, Shutdown(c)
  PROVE  LifeInv'
  <1> USE DEF LifeInv
  <1>1. \E l \in {"returned", "drain"} : Goto(c, l)
    BY DEF Shutdown
  <1>2. Admitted' = Admitted
    BY <1>1, GotoElsewhere
  <1>3. closed' = TRUE
    BY DEF Shutdown
  <1>4. cancelled' \in BOOLEAN
    BY Zenon DEF Shutdown, TypeOK
  <1>5. TypeOK'
    BY <1>1, <1>3, <1>4, Zenon DEF Shutdown, TypeOK, Goto, CloseSteps
  <1>6. \A d \in Closers : pc'[d] \in Resources => pc[d] \in Resources
    BY <1>1 DEF TypeOK, Goto, Resources
  <1> QED
    BY <1>2, <1>3, <1>5, <1>6 DEF Shutdown, Counted, ClosedFirst,
                                  DrainedBeforeClose

(* The wait ends only when the count, and so the set of operations, is zero; *)
(* what is closed after it is closed with no operation left.                *)
LEMMA ShutdownStepKeeps ==
  ASSUME LifeInv, NEW c \in Closers, ShutdownStep(c)
  PROVE  LifeInv'
  <1> USE DEF LifeInv
  <1>1. /\ Admitted = {} /\ closed
        /\ \E l \in CloseSteps \cup {"returned"} : Goto(c, l)
        /\ UNCHANGED <<closed, inflight, cancelled, streams, ready, serving>>
        /\ up' \subseteq Resources
    <2>1. CASE Drained(c)
      <3>1. Admitted = {}
        BY <2>1, AdmittedFinite, FS_EmptySet, Zenon DEF Drained, Counted
      <3> QED
        BY <2>1, <3>1 DEF Drained, At, ClosedFirst, CloseSteps, TypeOK
    <2>2. CASE Closes(c)
      BY <2>2 DEF Closes, At, After, ClosedFirst, DrainedBeforeClose, CloseSteps,
                  Resources, TypeOK
    <2> QED
      BY <2>1, <2>2 DEF ShutdownStep
  <1>2. Admitted' = {}
    BY <1>1, GotoElsewhere
  <1>3. TypeOK'
    BY <1>1, Zenon DEF TypeOK, Goto
  <1> QED
    BY <1>1, <1>2, <1>3 DEF Counted, ClosedFirst, DrainedBeforeClose

(* The other steps move no operation and no caller of Shutdown.            *)
LEMMA OthersKeep ==
  ASSUME LifeInv,
         \/ \E t \in Chats : StreamEnds(t)
         \/ \E t \in Setters : SetAuth(t)
         \/ Bootstraps \/ Serve
         \/ UNCHANGED vars
  PROVE  LifeInv'
  <1> USE DEF LifeInv
  <1>1. ready' \in BOOLEAN /\ serving' \in BOOLEAN
    BY Zenon DEF TypeOK, StreamEnds, SetAuth, Bootstraps, Serve, vars
  <1>2. UNCHANGED <<closed, inflight, cancelled, up>> /\ streams' \subseteq streams
    BY DEF StreamEnds, SetAuth, Bootstraps, Serve, vars
  <1>3. \/ UNCHANGED pc
        \/ \E t \in Setters, l \in {"idle", "request"} : Goto(t, l)
    BY DEF StreamEnds, SetAuth, Bootstraps, Serve, vars
  <1>4. /\ Admitted' = Admitted
        /\ \A c \in Closers : pc'[c] = pc[c]
    BY <1>3, GotoElsewhere, OthersStay DEF Admitted
  <1>5. TypeOK'
    BY <1>1, <1>2, <1>3 DEF TypeOK, Goto
  <1> QED
    BY <1>2, <1>4, <1>5 DEF Counted, ClosedFirst, DrainedBeforeClose

LEMMA LifeNext == LifeInv /\ [Next]_vars => LifeInv'
  BY BeginKeeps, OpStepKeeps, DoneKeeps, ShutdownKeeps, ShutdownStepKeeps,
     OthersKeep DEF Next

-----------------------------------------------------------------------------
(* However many operations and calls of Shutdown race, Shutdown closes the *)
(* exchange, the DHT, the host and the datastore only when every operation *)
(* that beginOp admitted has returned, and no more are admitted.           *)
THEOREM Drains == Spec => []DrainedBeforeClose
  <1>1. Init => LifeInv
    BY LifeInit
  <1>2. LifeInv /\ [Next]_vars => LifeInv'
    BY LifeNext
  <1>3. LifeInv => DrainedBeforeClose
    BY DEF LifeInv
  <1> QED
    BY <1>1, <1>2, <1>3, PTL DEF Spec

(* The counter of the wait group never goes below zero (Go panics if it     *)
(* does), and the other variables keep their types.                         *)
THEOREM ClientTypeCorrect == Spec => []TypeOK
  <1>1. LifeInv => TypeOK
    BY DEF LifeInv
  <1> QED
    BY <1>1, LifeInit, LifeNext, PTL DEF Spec
=============================================================================
