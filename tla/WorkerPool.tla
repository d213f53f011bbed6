----------------------------- MODULE WorkerPool -----------------------------
(***************************************************************************)
(* Admission and shutdown of WorkerPoolPlugin (src/plugin/worker.ts), with *)
(* Piscina as an external pool of threads with a queue.                    *)
(*                                                                         *)
(* A task that settles in the pool and the continuation of run() that      *)
(* answers its caller are separate steps: close(), a timer, an abort or a  *)
(* fatal pool error may come in between.                                   *)
(***************************************************************************)
EXTENDS Naturals, FiniteSets

CONSTANTS
    Tasks,       \* the calls of process() and reverse()
    MaxThreads,  \* options.maxThreads
    MaxQueue     \* options.maxQueue

ASSUME PoolAssumption ==
    /\ IsFiniteSet(Tasks)
    /\ MaxThreads \in Nat \ {0}
    /\ MaxQueue \in Nat \ {0}

VARIABLES
    accepting,   \* #accepting
    inFlight,    \* #inFlight
    fatalError,  \* #fatalError is set
    closing,     \* #closePromise and where its function is, see below
    graceful,    \* the close that runs drains the pool
    idleWaiter,  \* #idleWaiters holds the callback of close()
    pc,          \* where each task is
    aborted,     \* tasks whose signal has aborted: caller, timer or stream
    terminated   \* tasks that destroying the pool has rejected

vars == <<accepting, inFlight, fatalError, closing, graceful, idleWaiter,
          pc, aborted, terminated>>

(***************************************************************************)
(* pc: "queued" and "running" in the pool; "refused" when the pool found   *)
(* its own queue full, "value" and "error" when its promise has settled    *)
(* otherwise, and run() has not yet continued.                             *)
(***************************************************************************)
InPool   == {"queued", "running"}
Accepted == InPool \cup {"refused", "value", "error"}
Answered == {"fatal", "closed", "invalid", "full", "ok", "abort", "failed"}

(***************************************************************************)
(* closing: "none" before close(); "waiting" for the accepted tasks;       *)
(* "draining" in pool.close(); "destroying" in the first pool.destroy();   *)
(* "rejecting" in the pool.destroy() of the catch block; then settled.     *)
(***************************************************************************)
Closed == {"resolved", "rejected"}
Phases == {"none", "waiting", "draining", "destroying", "rejecting"} \cup Closed

Init ==
    /\ accepting = TRUE
    /\ inFlight = 0
    /\ fatalError = FALSE
    /\ closing = "none"
    /\ graceful = FALSE
    /\ idleWaiter = FALSE
    /\ pc = [t \in Tasks |-> "idle"]
    /\ aborted = {}
    /\ terminated = {}

In(place) == {t \in Tasks : pc[t] \in place}

(***************************************************************************)
(* Piscina.                                                                *)
(***************************************************************************)

\* destroy() rejects whatever is queued or running.
Destroy ==
    /\ pc' = [t \in Tasks |-> IF pc[t] \in InPool THEN "error" ELSE pc[t]]
    /\ terminated' = terminated \cup In(InPool)

\* A thread takes a queued task.
PoolStarts(t) ==
    /\ pc[t] = "queued"
    /\ Cardinality(In({"running"})) < MaxThreads
    /\ pc' = [pc EXCEPT ![t] = "running"]
    /\ UNCHANGED <<accepting, inFlight, fatalError, closing, graceful, idleWaiter,
                   aborted, terminated>>

\* The handler returns or throws, or its thread exits.
PoolSettles(t) ==
    /\ pc[t] = "running"
    /\ \E outcome \in {"value", "error"} : pc' = [pc EXCEPT ![t] = outcome]
    /\ UNCHANGED <<accepting, inFlight, fatalError, closing, graceful, idleWaiter,
                   aborted, terminated>>

\* A submitted task finds the queue full ("Task queue is at limit"), which the
\* pool counts on its own.
PoolRefuses(t) ==
    /\ Cardinality(In({"queued"})) >= MaxQueue
    /\ pc' = [pc EXCEPT ![t] = "refused"]

\* The signal of a task aborts: the pool drops it or terminates its thread.
TaskAborts(t) ==
    /\ t \notin aborted
    /\ pc[t] \notin Answered
    /\ aborted' = aborted \cup {t}
    /\ pc' = [pc EXCEPT ![t] = IF @ \in InPool THEN "error" ELSE @]
    /\ UNCHANGED <<accepting, inFlight, fatalError, closing, graceful, idleWaiter,
                   terminated>>

(***************************************************************************)
(* run().                                                                  *)
(***************************************************************************)

\* The checks before admission, in their order, and the submission.  A task
\* whose signal has aborted is admitted and answered in the same step.  What
\* is admitted may yet meet a full queue, when threads are still starting.
Run(t, valid) ==
    /\ pc[t] = "idle"
    /\ LET answer == CASE fatalError                        -> "fatal"
                       [] ~fatalError /\ ~accepting         -> "closed"
                       [] accepting /\ ~valid               -> "invalid"
                       [] accepting /\ valid /\ inFlight >= MaxThreads + MaxQueue -> "full"
                       [] OTHER -> IF t \in aborted THEN "abort" ELSE "queued"
       IN  /\ pc' = [pc EXCEPT ![t] = answer] \/ (answer = "queued" /\ PoolRefuses(t))
           /\ inFlight' = IF answer = "queued" THEN inFlight + 1 ELSE inFlight
    /\ UNCHANGED <<accepting, fatalError, closing, graceful, idleWaiter, aborted, terminated>>

ContinueWithoutWaking(t) ==
    /\ pc[t] \in {"value", "error"}
    /\ pc' = [pc EXCEPT ![t] = IF @ = "value" THEN "ok" ELSE "failed"]
    /\ inFlight' = inFlight - 1
    /\ UNCHANGED <<accepting, fatalError, closing, graceful, idleWaiter, aborted, terminated>>

ContinueKeepingRefused(t) ==
    /\ \/ pc[t] = "value" /\ pc' = [pc EXCEPT ![t] = "ok"]
       \/ pc[t] = "error" /\ pc' = [pc EXCEPT ![t] = "failed"]
       \/ pc[t] = "refused" /\ pc' = [pc EXCEPT ![t] = "full"]
    /\ inFlight' = IF pc[t] = "refused" THEN inFlight ELSE inFlight - 1
    /\ IF inFlight' = 0 /\ idleWaiter
       THEN idleWaiter' = FALSE /\ closing' = "draining"
       ELSE UNCHANGED <<idleWaiter, closing>>
    /\ UNCHANGED <<accepting, fatalError, graceful, aborted, terminated>>

\* run() continues: the value is checked (it may be too large or not binary)
\* or the error is translated, a refusal into WorkerQueueFullError; the last
\* task wakes close().
Continue(t) ==
    /\ \/ pc[t] = "value" /\ pc' = [pc EXCEPT ![t] = "ok"]
       \/ pc[t] = "refused" /\ pc' = [pc EXCEPT ![t] = IF t \in aborted THEN "abort" ELSE "full"]
       \/ /\ pc[t] \in {"value", "error"}
          /\ pc' = [pc EXCEPT ![t] = IF t \in aborted THEN "abort" ELSE "failed"]
    /\ inFlight' = inFlight - 1
    /\ IF inFlight' = 0 /\ idleWaiter
       THEN idleWaiter' = FALSE /\ closing' = "draining"
       ELSE UNCHANGED <<idleWaiter, closing>>
    /\ UNCHANGED <<accepting, fatalError, graceful, aborted, terminated>>

(***************************************************************************)
(* Shutdown.                                                               *)
(***************************************************************************)

\* The pool's 'error' event: the pool is destroyed and stays unusable.
OnPoolError ==
    /\ closing \notin Closed
    /\ ~fatalError
    /\ fatalError' = TRUE
    /\ accepting' = FALSE
    /\ Destroy
    /\ UNCHANGED <<inFlight, closing, graceful, idleWaiter, aborted>>

CloseWithoutWaiting(force) ==
    /\ closing = "none"
    /\ accepting' = FALSE
    /\ graceful' = ~force
    /\ closing' = "destroying"
    /\ Destroy
    /\ UNCHANGED <<inFlight, fatalError, idleWaiter, aborted>>

\* close(): admission stops; the pool is destroyed, or the tasks in flight
\* are awaited.  A later call returns the promise of the first one.
Close(force) ==
    /\ closing = "none"
    /\ accepting' = FALSE
    /\ graceful' = ~(force \/ fatalError)
    /\ IF force \/ fatalError
       THEN Destroy /\ closing' = "destroying" /\ UNCHANGED idleWaiter
       ELSE /\ closing' = IF inFlight > 0 THEN "waiting" ELSE "draining"
            /\ idleWaiter' = (inFlight > 0)
            /\ UNCHANGED <<pc, terminated>>
    /\ UNCHANGED <<inFlight, fatalError, aborted>>

GraceExpiresWithoutRejecting ==
    /\ closing = "waiting" /\ idleWaiter
    /\ idleWaiter' = FALSE
    /\ UNCHANGED <<accepting, inFlight, fatalError, closing, graceful, pc, aborted, terminated>>

\* The timer of the graceful close fires: the catch block destroys the pool.
GraceExpires ==
    /\ closing = "waiting" /\ idleWaiter
    /\ idleWaiter' = FALSE
    /\ closing' = "rejecting"
    /\ Destroy
    /\ UNCHANGED <<accepting, inFlight, fatalError, graceful, aborted>>

\* pool.close() is done: a fatal error or a failure to close goes to the
\* catch block, otherwise the shutdown is complete.
Drained ==
    /\ closing = "draining"
    /\ \/ ~fatalError /\ closing' = "resolved" /\ UNCHANGED <<pc, terminated>>
       \/ closing' = "rejecting" /\ Destroy
    /\ UNCHANGED <<accepting, inFlight, fatalError, graceful, idleWaiter, aborted>>

\* pool.destroy() is done; the first one may also fail.
Destroyed ==
    /\ \/ closing = "destroying" /\ closing' \in {"resolved", "rejecting"}
       \/ closing = "rejecting" /\ closing' = "rejected"
    /\ UNCHANGED <<accepting, inFlight, fatalError, graceful, idleWaiter,
                   pc, aborted, terminated>>

(***************************************************************************)
(* Specification.                                                          *)
(***************************************************************************)

Next ==
    \/ \E t \in Tasks, valid \in BOOLEAN : Run(t, valid)
    \/ \E t \in Tasks : PoolStarts(t) \/ PoolSettles(t) \/ TaskAborts(t) \/ Continue(t)
    \/ \E force \in BOOLEAN : Close(force)
    \/ OnPoolError \/ GraceExpires \/ Drained \/ Destroyed

Spec == Init /\ [][Next]_vars

\* Continuations and the grace timer run, and the pool finishes close() and
\* destroy().  Handlers may hang.
Fairness ==
    /\ \A t \in Tasks : WF_vars(Continue(t))
    /\ WF_vars(GraceExpires) /\ WF_vars(Drained) /\ WF_vars(Destroyed)

LiveSpec == Spec /\ Fairness

(***************************************************************************)
(* Properties.                                                             *)
(***************************************************************************)

TypeOK ==
    /\ accepting \in BOOLEAN
    /\ inFlight \in Nat
    /\ fatalError \in BOOLEAN
    /\ closing \in Phases
    /\ graceful \in BOOLEAN
    /\ idleWaiter \in BOOLEAN
    /\ pc \in [Tasks -> {"idle"} \cup Accepted \cup Answered]
    /\ aborted \subseteq Tasks
    /\ terminated \subseteq Tasks

\* The admission counter is exact and bounded, so the pool never holds more
\* than its threads and its queue, also when its own queue refuses a task that
\* was admitted (#inFlight, #maxInFlight).
AdmissionBound ==
    /\ inFlight = Cardinality(In(Accepted))
    /\ inFlight <= MaxThreads + MaxQueue

\* When close() settles nothing is queued or running in the pool, whether it
\* drained, was forced, timed out or failed; a graceful close that resolves
\* has terminated no accepted task and left none behind.
CloseDrains ==
    closing \in Closed =>
        /\ In(InPool) = {}
        /\ graceful /\ closing = "resolved" => terminated = {} /\ inFlight = 0

\* close() waits only while a task that will wake it is in flight.
NoLostWakeup == closing = "waiting" <=> (idleWaiter /\ inFlight > 0)

\* close() settles although handlers hang, and every task that was accepted
\* has then been answered or is answered soon.
CloseSettles == closing # "none" ~> (closing \in Closed /\ inFlight = 0)
=============================================================================
