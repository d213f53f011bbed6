-------------------------- MODULE BinaryOperations --------------------------
(***************************************************************************)
(* engine.binary.run() and engine.binary.undo(): one sequential operation  *)
(* per request, executed by BinaryController with withRetry (core.ts) and  *)
(* awaitOperation (operations.ts) on top of the request table.             *)
(*                                                                         *)
(* Operations of one engine interleave: every await is a point where the   *)
(* caller may abort, a deadline may pass, another operation may run or the *)
(* configuration may be changed.  A promise returned by a plugin or by the *)
(* audit logger settles at any time, also after nobody waits for it, or    *)
(* never.                                                                  *)
(***************************************************************************)
EXTENDS DataEngine

CONSTANT WithDeadline   \* the operations called with a positive timeoutMs

ASSUME DeadlineAssumption == WithDeadline \subseteq Requests

VARIABLES
    pc,       \* where each operation is
    mode,     \* "process" (run) or "reverse" (undo)
    chain,    \* the plugins the controller captured when it was called
    budget,   \* the maxRetryAttempts it captured
    step,     \* position of the current plugin in execution order
    attempt,  \* number of attempts of that plugin already failed
    started,  \* number of promises handed to trackWork so far
    signal,   \* the operation's AbortSignal, see below
    audit     \* chains the audit logger has been given (at most one per request)

opVars == <<pc, mode, chain, budget, step, attempt, started, signal, audit>>
vars   == <<engineVars, opVars>>

(***************************************************************************)
(* signal: "live"; "expired" once the deadline has passed but its abort    *)
(* event has not been delivered (throwIfAborted already throws);           *)
(* "aborted" once the event was delivered or the caller aborted.           *)
(***************************************************************************)
Signals == {"live", "expired", "aborted"}

(***************************************************************************)
(* pc: "retry" is the top of the withRetry loop; "awaiting" and "auditing" *)
(* wait in awaitOperation for promise number started; "resolved" and       *)
(* "rejected" are the continuations of the former, "delay" the back-off    *)
(* timer; "finish" is after the last plugin, "audited" after the audit;    *)
(* "failing" is the controller's catch block.                              *)
(***************************************************************************)
Running == {"retry", "awaiting", "resolved", "rejected", "delay",
            "finish", "auditing", "audited", "failing"}
Settling == {"refused", "ok", "failed"}
PCs == {"idle"} \cup Running \cup Settling

Goto(o, to) == pc' = [pc EXCEPT ![o] = to]

Init ==
    /\ EngineInit
    /\ pc      = [o \in Requests |-> "idle"]
    /\ mode    = [o \in Requests |-> "process"]
    /\ chain   = [o \in Requests |-> <<>>]
    /\ budget  = [o \in Requests |-> 0]
    /\ step    = [o \in Requests |-> 1]
    /\ attempt = [o \in Requests |-> 0]
    /\ started = [o \in Requests |-> 0]
    /\ signal  = [o \in Requests |-> "live"]
    /\ audit   = [o \in Requests |-> {}]

\* The k-th plugin in execution order: undo runs the pipeline backwards.
Nth(o, k) == chain[o][IF mode[o] = "process" THEN k ELSE Len(chain[o]) + 1 - k]

Reversible(seq) == \A k \in 1 .. Len(seq) : seq[k] \notin Irreversible

Live(o) == signal[o] = "live"

(***************************************************************************)
(* The call.                                                               *)
(***************************************************************************)

\* throwIfAborted, assertReversiblePipeline or startRequest throws before the
\* request exists.
Refuse(o, m) ==
    /\ pc[o] = "idle"
    /\ \/ ~Live(o)
       \/ m = "reverse" /\ ~Reversible(plugins)
       \/ ~MayStart
    /\ Goto(o, "refused")
    /\ UNCHANGED <<engineVars, mode, chain, budget, step, attempt, started, signal, audit>>

\* run(input) / undo(result): the request starts and the input is validated
\* and converted.  A failed preparation goes to the catch block.
Call(o, m) ==
    /\ pc[o] = "idle"
    /\ Live(o)
    /\ m = "reverse" => Reversible(plugins)
    /\ MayStart
    /\ StartRequest(o)
    /\ mode'   = [mode EXCEPT ![o] = m]
    /\ chain'  = [chain EXCEPT ![o] = plugins]
    /\ budget' = [budget EXCEPT ![o] = limits.maxRetryAttempts]
    /\ \/ Goto(o, "failing")
       \/ Goto(o, IF plugins = <<>> THEN "finish" ELSE "retry")
    /\ UNCHANGED <<configVars, step, attempt, started, signal, audit>>

(***************************************************************************)
(* withRetry.                                                              *)
(***************************************************************************)

\* One turn of the loop: fn() returns a promise that is tracked and awaited,
\* or throws synchronously.
Attempt(o) ==
    /\ pc[o] = "retry"
    /\ \/ /\ Attempts[Nth(o, step[o])] > budget[o] \/ ~Live(o)
          /\ Goto(o, "failing")
          /\ UNCHANGED <<tableVars, started>>
       \/ /\ Attempts[Nth(o, step[o])] <= budget[o] /\ Live(o)
          /\ \/ /\ started' = [started EXCEPT ![o] = @ + 1]
                /\ TrackWork(o, started[o] + 1)
                /\ Goto(o, "awaiting")
             \/ /\ Goto(o, "rejected")
                /\ UNCHANGED <<tableVars, started>>
    /\ UNCHANGED <<configVars, mode, chain, budget, step, attempt, signal, audit>>

RejectedRetriesAlways(o) ==
    /\ pc[o] = "rejected"
    /\ IF attempt[o] + 1 < Attempts[Nth(o, step[o])]
       THEN /\ attempt' = [attempt EXCEPT ![o] = @ + 1]
            /\ started' = [started EXCEPT ![o] = @ + 1]
            /\ TrackWork(o, started[o] + 1)
            /\ Goto(o, "awaiting")
       ELSE Goto(o, "failing") /\ UNCHANGED <<tableVars, attempt, started>>
    /\ UNCHANGED <<configVars, mode, chain, budget, step, signal, audit>>

\* The catch block of withRetry: an aborted operation is not retried.
Rejected(o) ==
    /\ pc[o] = "rejected"
    /\ LET p == Nth(o, step[o])
       IN  IF Live(o) /\ attempt[o] + 1 < Attempts[p]
           THEN /\ attempt' = [attempt EXCEPT ![o] = @ + 1]
                /\ Goto(o, IF p \in Delayed THEN "delay" ELSE "retry")
           ELSE Goto(o, "failing") /\ UNCHANGED attempt
    /\ UNCHANGED <<engineVars, mode, chain, budget, step, started, signal, audit>>

\* The back-off timer fires.
DelayElapsed(o) ==
    /\ pc[o] = "delay"
    /\ Goto(o, "retry")
    /\ UNCHANGED <<engineVars, mode, chain, budget, step, attempt, started, signal, audit>>

\* withRetry returned the output of the plugin; the size check may reject it.
Resolved(o) ==
    /\ pc[o] = "resolved"
    /\ \/ /\ Goto(o, "failing")
          /\ UNCHANGED <<step, attempt>>
       \/ /\ step'    = [step EXCEPT ![o] = @ + 1]
          /\ attempt' = [attempt EXCEPT ![o] = 0]
          /\ Goto(o, IF step[o] = Len(chain[o]) THEN "finish" ELSE "retry")
    /\ UNCHANGED <<engineVars, mode, chain, budget, started, signal, audit>>

(***************************************************************************)
(* Completion.                                                             *)
(***************************************************************************)

AuditAfterRelease(o) ==
    /\ pc[o] = "finish"
    /\ IF o \in active
       THEN ReleaseRequest(o) /\ UNCHANGED <<pc, audit>>
       ELSE /\ audit' = [audit EXCEPT ![o] = {AuditChain(o)}]
            /\ Goto(o, "audited")
            /\ UNCHANGED tableVars
    /\ UNCHANGED <<configVars, mode, chain, budget, step, attempt, started, signal>>

\* emitAudit: the record is handed to the logger, if one is set, and the
\* promise is awaited.  undo may still fail to decode or to validate the
\* restored value before that.
Audit(o) ==
    /\ pc[o] = "finish"
    /\ \/ /\ ~Live(o) \/ mode[o] = "reverse"
          /\ Goto(o, "failing")
          /\ UNCHANGED <<tableVars, started, audit>>
       \/ /\ Live(o)
          /\ started' = [started EXCEPT ![o] = @ + 1]
          /\ \E record \in {{}, {AuditChain(o)}} : audit' = [audit EXCEPT ![o] = record]
          /\ TrackWork(o, started[o] + 1)
          /\ Goto(o, "auditing")
    /\ UNCHANGED <<configVars, mode, chain, budget, step, attempt, signal>>

CompleteWithoutRelease(o) ==
    /\ pc[o] = "audited"
    /\ Goto(o, IF Live(o) THEN "ok" ELSE "failing")
    /\ UNCHANGED <<engineVars, mode, chain, budget, step, attempt, started, signal, audit>>

\* The last throwIfAborted, then endRequest and the result.
Complete(o) ==
    /\ pc[o] = "audited"
    /\ \/ /\ Live(o)
          /\ ReleaseRequest(o)
          /\ Goto(o, "ok")
       \/ /\ ~Live(o)
          /\ Goto(o, "failing")
          /\ UNCHANGED tableVars
    /\ UNCHANGED <<configVars, mode, chain, budget, step, attempt, started, signal, audit>>

\* catch / finally: emitError and releaseRequest, then the promise rejects.
Fail(o) ==
    /\ pc[o] = "failing"
    /\ ReleaseRequest(o)
    /\ Goto(o, "failed")
    /\ UNCHANGED <<configVars, mode, chain, budget, step, attempt, started, signal, audit>>

(***************************************************************************)
(* awaitOperation: the promise, the abort event and the deadline timer     *)
(* race; the bookkeeping of trackWork runs before the waiting operation    *)
(* continues.                                                              *)
(***************************************************************************)

\* Where a waiting operation continues when it stops waiting without a result.
OnReject(o) ==
    CASE pc[o] = "awaiting" -> Goto(o, "rejected")
      [] pc[o] \in {"auditing", "delay"} -> Goto(o, "failing")
      [] OTHER -> UNCHANGED pc

\* A tracked promise settles.  A result nobody waits for is dropped.
PromiseSettles(o, w, fulfilled) ==
    /\ w \in pending[o]
    /\ Settled(o, w)
    /\ IF w # started[o] \/ pc[o] \notin {"awaiting", "auditing"} THEN UNCHANGED pc
       ELSE IF fulfilled /\ Live(o)
            THEN Goto(o, IF pc[o] = "awaiting" THEN "resolved" ELSE "audited")
            ELSE OnReject(o)
    /\ UNCHANGED <<configVars, mode, chain, budget, step, attempt, started, signal, audit>>

\* The caller aborts, or the AbortSignal.timeout event is delivered.
Abort(o) ==
    /\ pc[o] \notin Settling
    /\ signal[o] # "aborted"
    /\ signal' = [signal EXCEPT ![o] = "aborted"]
    /\ OnReject(o)
    /\ UNCHANGED <<engineVars, mode, chain, budget, step, attempt, started, audit>>

\* The clock passes the deadline of a running operation.
Expire(o) ==
    /\ o \in WithDeadline
    /\ pc[o] \in Running
    /\ Live(o)
    /\ signal' = [signal EXCEPT ![o] = "expired"]
    /\ UNCHANGED <<engineVars, pc, mode, chain, budget, step, attempt, started, audit>>

DeadlineTimerOnlyForPlugins(o) ==
    /\ signal[o] = "expired"
    /\ pc[o] = "awaiting"
    /\ OnReject(o)
    /\ UNCHANGED <<engineVars, mode, chain, budget, step, attempt, started, signal, audit>>

\* The referenced timer of awaitOperation fires.
DeadlineTimer(o) ==
    /\ signal[o] = "expired"
    /\ pc[o] \in {"awaiting", "auditing"}
    /\ OnReject(o)
    /\ UNCHANGED <<engineVars, mode, chain, budget, step, attempt, started, signal, audit>>

(***************************************************************************)
(* Specification.                                                          *)
(***************************************************************************)

Configure ==
    /\ \/ \E p \in PluginIds : Use(p)
       \/ \E l \in LimitChoices : SetLimits(l)
    /\ UNCHANGED opVars

\* The steps of the operation itself: JavaScript continuations.
Advance(o) ==
    \/ Attempt(o)
    \/ Rejected(o)
    \/ DelayElapsed(o)
    \/ Resolved(o)
    \/ Audit(o)
    \/ Complete(o)
    \/ Fail(o)

Next ==
    \/ Configure
    \/ \E o \in Requests, m \in {"process", "reverse"} : Refuse(o, m) \/ Call(o, m)
    \/ \E o \in Requests : Advance(o) \/ Abort(o) \/ Expire(o) \/ DeadlineTimer(o)
    \/ \E o \in Requests : \E w \in pending[o], fulfilled \in BOOLEAN :
          PromiseSettles(o, w, fulfilled)

Spec == Init /\ [][Next]_vars

\* Continuations and timers of the event loop are eventually run.  Nothing is
\* assumed of plugins and audit loggers: their promises may never settle.
Fairness ==
    \A o \in Requests :
        WF_vars(Advance(o)) /\ WF_vars(Expire(o)) /\ WF_vars(DeadlineTimer(o))

LiveSpec == Spec /\ Fairness

(***************************************************************************)
(* Properties.                                                             *)
(***************************************************************************)

TypeOK ==
    /\ EngineTypeOK
    /\ pc      \in [Requests -> PCs]
    /\ mode    \in [Requests -> {"process", "reverse"}]
    /\ chain   \in [Requests -> Seq(PluginIds)]
    /\ budget  \in [Requests -> Nat]
    /\ step    \in [Requests -> Nat \ {0}]
    /\ attempt \in [Requests -> Nat]
    /\ started \in [Requests -> Nat]
    /\ signal  \in [Requests -> Signals]
    /\ audit   \in [Requests -> SUBSET Seq(PluginIds)]

\* A promise that has not settled keeps the capacity of its request, also
\* after the caller was told that the operation was aborted or timed out
\* (trackWork, releaseRequest).
WorkHoldsCapacity == \A o \in Requests : pending[o] # {} => o \in active

\* Capacity is not leaked: a request that holds capacity is either still
\* running or waits, marked as finished, for work that has not settled
\* (trackWork's settled callback).
CapacityAccounted ==
    \A o \in active : pc[o] \in Running \/ (o \in finished /\ pending[o] # {})

\* The attempts of an operation never overlap: a plugin is not called again
\* while an earlier call, or the audit logger, is still at work for the same
\* request (withRetry never retries what it merely stopped waiting for).
NoOverlap == \A o \in Requests : Cardinality(pending[o]) <= 1

\* The chain in the audit record is the chain whose plugins were all executed
\* for this request, even when the pipeline was reconfigured meanwhile
\* (requestPipelines, emitAudit).
AuditIsExecution ==
    \A o \in Requests : \A c \in audit[o] : c = chain[o] /\ step[o] = Len(c) + 1

\* A successful operation has applied every plugin, left no work behind and
\* returned its capacity before its caller sees the result (endRequest).
SuccessIsClean ==
    \A o \in Requests : pc[o] = "ok" =>
        step[o] = Len(chain[o]) + 1 /\ pending[o] = {} /\ o \notin active

\* An operation with a deadline is answered even when a plugin or the audit
\* logger never settles (awaitOperation's timer).
DeadlineAnswers ==
    \A o \in WithDeadline : pc[o] \in Running ~> pc[o] \in Settling

\* When the promises an operation started keep settling, the operation
\* eventually gives its capacity back.
CapacityReturns ==
    \A o \in Requests : []<>(pending[o] = {}) => (o \in active ~> o \notin active)
=============================================================================
