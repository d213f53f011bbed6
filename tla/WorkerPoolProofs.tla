-------------------------- MODULE WorkerPoolProofs --------------------------
(***************************************************************************)
(* Proofs about WorkerPool, for any number of tasks and any sizes of the   *)
(* pool and its queue.                                                     *)
(***************************************************************************)
EXTENDS WorkerPool, FiniteSetTheorems, TLAPS

(***************************************************************************)
(* The inductive invariant.  That #inFlight is a natural number depends on *)
(* it being exact; that close() leaves nothing in the pool depends on what *)
(* each phase of the shutdown has already done.                            *)
(***************************************************************************)

\* Tasks are accepted only before close() and without a fatal error.
Admission == accepting => closing = "none" /\ ~fatalError

\* The callback of close() is kept exactly while close() waits.
Waiter == idleWaiter => closing = "waiting"

\* What the phases of close() have established.
Shutdown ==
    /\ closing = "draining" => inFlight = 0
    /\ closing \in {"destroying", "rejecting"} \cup Closed => In(InPool) = {}
    /\ closing = "destroying" => ~graceful
    /\ closing = "resolved" /\ graceful => inFlight = 0

\* Only a fatal error or a close() that is not graceful terminates tasks.
Terminated ==
    /\ closing \in {"none", "waiting", "draining"} /\ ~fatalError => terminated = {}
    /\ closing = "resolved" /\ graceful => terminated = {}

IInv ==
    /\ TypeOK
    /\ AdmissionBound
    /\ Admission
    /\ NoLostWakeup
    /\ Waiter
    /\ Shutdown
    /\ Terminated

(***************************************************************************)
(* Counting tasks.                                                         *)
(***************************************************************************)

\* Every set of tasks at given places can be counted.
LEMMA InFinite ==
    ASSUME NEW place
    PROVE  IsFiniteSet(In(place)) /\ Cardinality(In(place)) \in Nat
  <1>1. IsFiniteSet(In(place))
    BY PoolAssumption, FS_Subset DEF In
  <1>2. QED
    BY <1>1, FS_CardinalityType

\* One task more is accepted.
LEMMA Enters ==
    ASSUME TypeOK, NEW t \in Tasks, NEW to \in Accepted, pc[t] \notin Accepted,
           pc' = [pc EXCEPT ![t] = to]
    PROVE  Cardinality(In(Accepted)') = Cardinality(In(Accepted)) + 1
  <1>1. In(Accepted)' = In(Accepted) \cup {t} /\ t \notin In(Accepted)
    BY DEF In, TypeOK
  <1>2. QED
    BY <1>1, InFinite, FS_AddElement

\* An accepted task is answered.
LEMMA Leaves ==
    ASSUME TypeOK, NEW t \in Tasks, NEW to, to \notin Accepted, pc[t] \in Accepted,
           pc' = [pc EXCEPT ![t] = to]
    PROVE  /\ Cardinality(In(Accepted)') = Cardinality(In(Accepted)) - 1
           /\ Cardinality(In(Accepted)) > 0
  <1>1. In(Accepted)' = In(Accepted) \ {t} /\ t \in In(Accepted)
    BY DEF In, TypeOK
  <1>2. Cardinality(In(Accepted)') = Cardinality(In(Accepted)) - 1
    BY <1>1, InFinite, FS_RemoveElement
  <1>3. Cardinality(In(Accepted)') \in Nat
    BY <1>1, InFinite, FS_RemoveElement, FS_CardinalityType
  <1>4. QED
    BY <1>2, <1>3, InFinite

\* A task that moves between places of the same kind stays what it is.
LEMMA Stays ==
    ASSUME TypeOK, NEW t \in Tasks, NEW to, NEW place, to \in place <=> pc[t] \in place,
           pc' = [pc EXCEPT ![t] = to]
    PROVE  In(place)' = In(place)
  BY DEF In, TypeOK

\* Destroying the pool empties it; what was accepted stays accepted until its
\* run() continues.
LEMMA DestroyEmpties ==
    ASSUME TypeOK, Destroy
    PROVE  /\ In(InPool)' = {}
           /\ In(Accepted)' = In(Accepted)
           /\ pc' \in [Tasks -> {"idle"} \cup Accepted \cup Answered]
           /\ terminated' \subseteq Tasks
  BY DEF Destroy, In, InPool, Accepted, TypeOK

\* When no task is in flight the pool is empty.
LEMMA NoneInFlight ==
    ASSUME AdmissionBound, inFlight = 0
    PROVE  In(Accepted) = {} /\ In(InPool) = {}
  <1>1. In(Accepted) = {}
    BY InFinite, FS_EmptySet DEF AdmissionBound
  <1>2. QED
    BY <1>1 DEF In, Accepted

(***************************************************************************)
(* The steps.                                                              *)
(***************************************************************************)

\* run() admits a task only while tasks are accepted and there is room.
LEMMA RunStep ==
    ASSUME IInv, NEW t \in Tasks, NEW valid \in BOOLEAN, Run(t, valid)
    PROVE  IInv'
  <1> USE DEF IInv
  <1>1. PICK to \in {"queued", "refused", "abort", "fatal", "closed", "invalid", "full"} :
            /\ pc' = [pc EXCEPT ![t] = to]
            /\ inFlight' = IF to \in {"queued", "refused"} THEN inFlight + 1 ELSE inFlight
            /\ to \in {"queued", "refused"} => accepting /\ inFlight < MaxThreads + MaxQueue
    <2> DEFINE answer == CASE fatalError                        -> "fatal"
                       [] ~fatalError /\ ~accepting         -> "closed"
                       [] accepting /\ ~valid               -> "invalid"
                       [] accepting /\ valid /\ inFlight >= MaxThreads + MaxQueue -> "full"
                       [] OTHER -> IF t \in aborted THEN "abort" ELSE "queued"
    <2>1. /\ \/ pc' = [pc EXCEPT ![t] = answer]
             \/ answer = "queued" /\ pc' = [pc EXCEPT ![t] = "refused"]
          /\ inFlight' = IF answer = "queued" THEN inFlight + 1 ELSE inFlight
      BY DEF Run, PoolRefuses
    <2>2. answer \in {"queued", "abort", "fatal", "closed", "invalid", "full"}
      BY DEF TypeOK
    <2>3. answer = "queued" => accepting /\ inFlight < MaxThreads + MaxQueue
      BY PoolAssumption DEF TypeOK
    <2> HIDE DEF answer
    <2>4. QED
      BY <2>1, <2>2, <2>3
  <1>2. /\ pc[t] = "idle"
        /\ UNCHANGED <<accepting, fatalError, closing, graceful, idleWaiter, aborted, terminated>>
    BY DEF Run
  <1>3. TypeOK'
    BY <1>1, <1>2 DEF TypeOK, Accepted, InPool, Answered
  <1>4. CASE to \in {"queued", "refused"}
    <2>1. AdmissionBound'
      <3>1. to \in Accepted /\ "idle" \notin Accepted
        BY <1>4 DEF Accepted, InPool
      <3>2. Cardinality(In(Accepted)') = Cardinality(In(Accepted)) + 1
        BY <1>1, <1>2, <1>4, <3>1, Enters
      <3>3. inFlight' = inFlight + 1 /\ inFlight < MaxThreads + MaxQueue /\ inFlight \in Nat
        BY <1>1, <1>4 DEF TypeOK
      <3>4. QED
        BY <3>2, <3>3, PoolAssumption DEF AdmissionBound
    <2>2. closing' = "none" /\ ~idleWaiter'
      BY <1>1, <1>2, <1>4 DEF Admission, Waiter
    <2>3. QED
      BY <1>2, <1>3, <2>1, <2>2
         DEF Admission, NoLostWakeup, Waiter, Shutdown, Terminated, Closed
  <1>5. CASE to \notin {"queued", "refused"}
    <2>1. In(Accepted)' = In(Accepted) /\ In(InPool)' = In(InPool) /\ inFlight' = inFlight
      BY <1>1, <1>2, <1>5, Stays DEF Accepted, InPool
    <2>2. QED
      BY <1>2, <1>3, <2>1
         DEF AdmissionBound, Admission, NoLostWakeup, Waiter, Shutdown, Terminated, Closed
  <1>6. QED
    BY <1>4, <1>5

\* A step in which a task moves within the pool, or out of it without being
\* answered, preserves the invariant.
LEMMA PoolStep ==
    ASSUME IInv, NEW t \in Tasks, PoolStarts(t) \/ PoolSettles(t) \/ TaskAborts(t)
    PROVE  IInv'
  <1> USE DEF IInv
  <1>1. PICK to : /\ pc' = [pc EXCEPT ![t] = to]
                  /\ to \in {"idle"} \cup Accepted \cup Answered
                  /\ to \in Accepted <=> pc[t] \in Accepted
                  /\ to \in InPool => pc[t] \in InPool
    <2>1. CASE PoolStarts(t)
      BY <2>1 DEF PoolStarts, Accepted, InPool
    <2>2. CASE PoolSettles(t)
      BY <2>2 DEF PoolSettles, Accepted, InPool
    <2>3. CASE TaskAborts(t)
      <3>1. pc[t] \in {"idle"} \cup Accepted \cup Answered
        BY DEF TypeOK
      <3>2. pc' = [pc EXCEPT ![t] = IF pc[t] \in InPool THEN "error" ELSE pc[t]]
        BY <2>3 DEF TaskAborts
      <3>3. QED
        BY <3>1, <3>2 DEF Accepted, InPool
    <2>4. QED
      BY <2>1, <2>2, <2>3
  <1>2. /\ UNCHANGED <<accepting, inFlight, fatalError, closing, graceful, idleWaiter, terminated>>
        /\ aborted' \subseteq Tasks
    BY DEF PoolStarts, PoolSettles, TaskAborts, TypeOK
  <1>3. In(Accepted)' = In(Accepted) /\ In(InPool)' \subseteq In(InPool)
    <2>1. In(Accepted)' = In(Accepted)
      BY <1>1, Stays
    <2>2. QED
      BY <1>1, <2>1 DEF In, TypeOK
  <1>4. TypeOK'
    BY <1>1, <1>2 DEF TypeOK
  <1>5. QED
    BY <1>2, <1>3, <1>4
       DEF AdmissionBound, Admission, NoLostWakeup, Waiter, Shutdown, Terminated, Closed

\* The continuation of run() answers one task and wakes close() when it was
\* the last one.
LEMMA ContinueStep ==
    ASSUME IInv, NEW t \in Tasks, Continue(t)
    PROVE  IInv'
  <1> USE DEF IInv
  <1>1. PICK to \in {"ok", "full", "abort", "failed"} : pc' = [pc EXCEPT ![t] = to]
    BY DEF Continue
  <1>2. /\ pc[t] \in {"refused", "value", "error"}
        /\ inFlight' = inFlight - 1
        /\ UNCHANGED <<accepting, fatalError, graceful, aborted, terminated>>
    BY DEF Continue
  <1>3. Cardinality(In(Accepted)') = Cardinality(In(Accepted)) - 1 /\ inFlight > 0
    BY <1>1, <1>2, Leaves DEF Accepted, InPool, AdmissionBound
  <1>4. In(InPool)' = In(InPool)
    BY <1>1, <1>2, Stays DEF InPool
  <1>5. AdmissionBound' /\ inFlight' \in Nat
    BY <1>2, <1>3, PoolAssumption DEF AdmissionBound, TypeOK
  <1>6. CASE inFlight' = 0 /\ idleWaiter
    <2>1. idleWaiter' = FALSE /\ closing' = "draining" /\ closing = "waiting"
      BY <1>6 DEF Continue, Waiter
    <2>2. TypeOK'
      BY <1>1, <1>2, <1>5, <2>1 DEF TypeOK, Phases, Answered
    <2>3. QED
      BY <1>2, <1>5, <1>6, <2>1, <2>2
         DEF Admission, NoLostWakeup, Waiter, Shutdown, Terminated, Closed
  <1>7. CASE ~(inFlight' = 0 /\ idleWaiter)
    <2>1. UNCHANGED <<idleWaiter, closing>>
      BY <1>7 DEF Continue
    <2>2. TypeOK'
      BY <1>1, <1>2, <1>5, <2>1 DEF TypeOK, Answered
    <2>3. NoLostWakeup'
      BY <1>2, <1>3, <1>5, <1>7, <2>1 DEF NoLostWakeup, TypeOK
    <2>4. Shutdown'
      BY <1>2, <1>3, <1>4, <2>1 DEF Shutdown, Closed, TypeOK
    <2>5. QED
      BY <1>2, <1>5, <2>1, <2>2, <2>3, <2>4 DEF Admission, Waiter, Terminated
  <1>8. QED
    BY <1>6, <1>7

\* A fatal error of the pool or a step of the shutdown.
LEMMA ShutdownStep ==
    ASSUME IInv,
           \/ \E force \in BOOLEAN : Close(force)
           \/ OnPoolError \/ GraceExpires \/ Drained \/ Destroyed
    PROVE  IInv'
  <1> USE DEF IInv
  <1>0. Destroy \/ UNCHANGED <<pc, terminated>>
    BY DEF Close, OnPoolError, GraceExpires, Drained, Destroyed
  <1>1. inFlight' = inFlight /\ aborted' = aborted
    BY DEF Close, OnPoolError, GraceExpires, Drained, Destroyed
  <1>2. In(Accepted)' = In(Accepted) /\ In(InPool)' \subseteq In(InPool)
    <2>1. CASE Destroy
      BY <2>1, DestroyEmpties
    <2>2. CASE UNCHANGED pc
      BY <2>2 DEF In
    <2>3. QED
      BY <1>0, <2>1, <2>2
  <1>3. AdmissionBound'
    BY <1>1, <1>2 DEF AdmissionBound
  <1>4. pc' \in [Tasks -> {"idle"} \cup Accepted \cup Answered] /\ terminated' \subseteq Tasks
    BY <1>0, DestroyEmpties DEF TypeOK
  <1>5. inFlight = 0 => In(InPool) = {}
    BY NoneInFlight
  <1>6. ASSUME NEW force \in BOOLEAN, Close(force) PROVE IInv'
    <2>1. CASE force \/ fatalError
      <3>1. /\ Destroy /\ closing = "none" /\ closing' = "destroying" /\ ~accepting' /\ ~graceful'
            /\ UNCHANGED <<idleWaiter, fatalError>>
        BY <1>6, <2>1 DEF Close
      <3>2. In(InPool)' = {}
        BY <3>1, DestroyEmpties
      <3>3. graceful' \in BOOLEAN /\ accepting' \in BOOLEAN
        BY <1>6 DEF Close, TypeOK
      <3>4. TypeOK'
        BY <1>1, <1>4, <3>1, <3>3 DEF TypeOK, Phases
      <3>5. QED
        BY <1>1, <1>3, <3>1, <3>2, <3>4
           DEF Admission, NoLostWakeup, Waiter, Shutdown, Terminated, Closed
    <2>2. CASE ~(force \/ fatalError)
      <3>1. /\ closing = "none" /\ ~accepting' /\ graceful' /\ ~fatalError
            /\ closing' = IF inFlight > 0 THEN "waiting" ELSE "draining"
            /\ idleWaiter' = (inFlight > 0)
            /\ UNCHANGED <<pc, terminated, fatalError>>
        BY <1>6, <2>2 DEF Close
      <3>2. graceful' \in BOOLEAN /\ accepting' \in BOOLEAN
        BY <1>6 DEF Close, TypeOK
      <3>3. TypeOK'
        BY <1>1, <1>4, <3>1, <3>2 DEF TypeOK, Phases
      <3>4. closing' \in {"waiting", "draining"} /\ (closing' = "draining" => inFlight = 0)
        BY <3>1 DEF TypeOK
      <3>5. closing' = "waiting" <=> idleWaiter' /\ inFlight > 0
        BY <3>1
      <3>6. idleWaiter' => closing' = "waiting"
        BY <3>1
      <3>7. QED
        BY <1>1, <1>3, <3>1, <3>3, <3>4, <3>5, <3>6
           DEF Admission, NoLostWakeup, Waiter, Shutdown, Terminated, Closed
    <2>3. QED
      BY <2>1, <2>2
  <1>7. CASE OnPoolError
    <2>1. /\ fatalError' /\ ~accepting' /\ closing \notin Closed
          /\ UNCHANGED <<closing, graceful, idleWaiter>>
          /\ fatalError' \in BOOLEAN /\ accepting' \in BOOLEAN
      BY <1>7 DEF OnPoolError
    <2>2. TypeOK'
      BY <1>1, <1>4, <2>1 DEF TypeOK
    <2>3. QED
      BY <1>1, <1>2, <1>3, <2>1, <2>2
         DEF Admission, NoLostWakeup, Waiter, Shutdown, Terminated, Closed
  <1>8. CASE GraceExpires
    <2>1. /\ closing = "waiting" /\ closing' = "rejecting" /\ ~idleWaiter' /\ idleWaiter' \in BOOLEAN
          /\ Destroy
          /\ UNCHANGED <<accepting, fatalError, graceful>>
      BY <1>8 DEF GraceExpires
    <2>2. In(InPool)' = {}
      BY <2>1, DestroyEmpties
    <2>3. TypeOK'
      BY <1>1, <1>4, <2>1 DEF TypeOK, Phases
    <2>4. QED
      BY <1>3, <2>1, <2>2, <2>3
         DEF Admission, NoLostWakeup, Waiter, Shutdown, Terminated, Closed
  <1>9. CASE Drained
    <2>1. /\ closing = "draining"
          /\ \/ ~fatalError /\ closing' = "resolved" /\ UNCHANGED <<pc, terminated>>
             \/ closing' = "rejecting"
          /\ UNCHANGED <<accepting, fatalError, graceful, idleWaiter>>
      BY <1>9 DEF Drained
    <2>2. In(InPool)' = {} /\ inFlight' = 0
      BY <1>1, <1>2, <1>5, <2>1 DEF Shutdown
    <2>3. TypeOK'
      BY <1>1, <1>4, <2>1 DEF TypeOK, Phases, Closed
    <2>4. QED
      BY <1>3, <2>1, <2>2, <2>3
         DEF Admission, NoLostWakeup, Waiter, Shutdown, Terminated, Closed
  <1>10. CASE Destroyed
    <2>1. /\ \/ closing = "destroying" /\ closing' \in {"resolved", "rejecting"}
             \/ closing = "rejecting" /\ closing' = "rejected"
          /\ UNCHANGED <<accepting, fatalError, graceful, idleWaiter, pc, terminated>>
      BY <1>10 DEF Destroyed
    <2>2. TypeOK'
      BY <1>1, <1>4, <2>1 DEF TypeOK, Phases, Closed
    <2>3. QED
      BY <1>1, <1>2, <1>3, <2>1, <2>2
         DEF Admission, NoLostWakeup, Waiter, Shutdown, Terminated, Closed
  <1>11. QED
    BY <1>6, <1>7, <1>8, <1>9, <1>10

\* The inductive invariant holds in every reachable state.
THEOREM Invariance == Spec => []IInv
  <1>1. Init => IInv
    <2> SUFFICES ASSUME Init PROVE IInv
      OBVIOUS
    <2>1. In(Accepted) = {} /\ In(InPool) = {}
      BY DEF Init, In, Accepted, InPool
    <2>2. AdmissionBound
      BY <2>1, FS_EmptySet, PoolAssumption DEF AdmissionBound, Init
    <2>3. QED
      BY <2>1, <2>2 DEF Init, IInv, TypeOK, Phases, Admission, NoLostWakeup, Waiter, Shutdown,
                        Terminated, Closed
  <1>2. IInv /\ [Next]_vars => IInv'
    <2> SUFFICES ASSUME IInv, [Next]_vars PROVE IInv'
      OBVIOUS
    <2>1. CASE UNCHANGED vars
      BY <2>1 DEF vars, IInv, TypeOK, AdmissionBound, Admission, NoLostWakeup, Waiter,
                  Shutdown, Terminated, In
    <2>2. CASE Next
      BY <2>2, RunStep, PoolStep, ContinueStep, ShutdownStep DEF Next
    <2>3. QED
      BY <2>1, <2>2
  <1>3. QED
    BY <1>1, <1>2, PTL DEF Spec

\* The state of the plugin is always well typed: #inFlight is never negative.
THEOREM TypeCorrect == Spec => []TypeOK
  <1>1. IInv => TypeOK
    BY DEF IInv
  <1>2. QED
    BY <1>1, Invariance, PTL

\* #inFlight counts the accepted tasks exactly and never exceeds the threads
\* and queue slots of the pool, whatever is aborted, refused or terminated.
THEOREM AdmissionIsBounded == Spec => []AdmissionBound
  <1>1. IInv => AdmissionBound
    BY DEF IInv
  <1>2. QED
    BY <1>1, Invariance, PTL

\* close() settles only with an empty pool; a graceful close() that resolves
\* has terminated nothing and waited for everything.
THEOREM SettledCloseIsDrained == Spec => []CloseDrains
  <1>1. IInv => CloseDrains
    BY DEF IInv, CloseDrains, Shutdown, Terminated, Closed
  <1>2. QED
    BY <1>1, Invariance, PTL

\* close() waits exactly while a task in flight holds its wake-up.
THEOREM WakeupIsNotLost == Spec => []NoLostWakeup
  <1>1. IInv => NoLostWakeup
    BY DEF IInv
  <1>2. QED
    BY <1>1, Invariance, PTL
=============================================================================
