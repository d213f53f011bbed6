-------------------------- MODULE StreamOperations --------------------------
(***************************************************************************)
(* engine.stream.pipe(), into() and reverseInto(): chunks flow through one *)
(* stage per plugin, and the stages of one operation run concurrently.     *)
(*                                                                         *)
(* A plugin without createStream is wrapped by buildFallbackTransform: each *)
(* chunk is processed under withRetry, and a chunk whose processing failed *)
(* is diverted to the caller's failure sink (setDlq) before the stage      *)
(* reports the error.  Node's pipeline() destroys all stages when one of   *)
(* them, the source or the destination fails or the signal aborts; an      *)
(* attempt that is in flight at that moment is not told unless the signal  *)
(* aborted, and its stage function keeps running.                          *)
(*                                                                         *)
(* The source holds Chunks chunks; a chunk is only counted.                *)
(***************************************************************************)
EXTENDS DataEngine

CONSTANTS
    WithDeadline,  \* the operations called with a positive timeoutMs
    Native,        \* plugins that bring their own createStream
    Chunks,        \* bound: number of chunks of every source
    TasksPerChunk, \* bound: calls a plugin's own stream makes for one chunk
    WithSink       \* whether a failure sink is configured

ASSUME StreamAssumption ==
    /\ WithDeadline \subseteq Requests
    /\ Native \subseteq PluginIds
    /\ Chunks \in Nat
    /\ TasksPerChunk \in Nat \ {0}
    /\ WithSink \in BOOLEAN

VARIABLES
    pc,        \* where each operation is
    chain,     \* the plugins of the operation in execution order
    signal,    \* "live", "expired" (deadline passed) or "aborted", as in BinaryOperations
    started,   \* number of promises handed to trackWork so far
    stage,     \* stage[o][k]: where the transform of the k-th plugin is
    tries,     \* tries[o][k]: failed attempts, or calls of a native stage, for its chunk
    task,      \* task[o][k]: the promise it waits for
    out,       \* out[o][k]: number of chunks it has emitted
    diverted,  \* diverted[o]: stages whose failed chunk went to the sink
    sink       \* the failure sink: "none", "ready", "blocked", "errored", "closed"

stageVars  == <<stage, tries, task, out, diverted>>
streamVars == <<pc, chain, signal, started, stageVars, sink>>
vars       == <<engineVars, streamVars>>

(***************************************************************************)
(* pc: "streaming" while pipeline() is pending.  A stage is "waiting" for  *)
(* a chunk, "awaiting" the promise of an attempt, at one of the            *)
(* continuations "resolved" and "rejected", in the back-off "delay", in    *)
(* the catch block ("caught"), waiting for the sink to "drain", or "dead"  *)
(* once it has reported its error.  A plugin's own stream only waits,      *)
(* awaits, continues and dies.                                             *)
(***************************************************************************)
Running  == {"streaming", "finish", "auditing", "audited", "failing"}
Settling == {"refused", "ok", "failed"}
Stages   == {"waiting", "awaiting", "resolved", "rejected", "delay",
             "caught", "drain", "dead"}
Slots    == 1 .. MaxPlugins

Init ==
    /\ EngineInit
    /\ pc       = [o \in Requests |-> "idle"]
    /\ chain    = [o \in Requests |-> <<>>]
    /\ signal   = [o \in Requests |-> "live"]
    /\ started  = [o \in Requests |-> 0]
    /\ stage    = [o \in Requests |-> [k \in Slots |-> "waiting"]]
    /\ tries    = [o \in Requests |-> [k \in Slots |-> 0]]
    /\ task     = [o \in Requests |-> [k \in Slots |-> 0]]
    /\ out      = [o \in Requests |-> [k \in Slots |-> 0]]
    /\ diverted = [o \in Requests |-> {}]
    /\ sink     = IF WithSink THEN "ready" ELSE "none"

LiveIgnoringDeadline(o) == signal[o] # "aborted"

\* throwIfAborted passes: no abort, and the deadline is not over.
Live(o) == signal[o] = "live"
IsNative(o, k) == chain[o][k] \in Native
StagesOf(o) == 1 .. Len(chain[o])
Goto(o, to) == pc' = [pc EXCEPT ![o] = to]
SetStage(o, k, to) == stage' = [stage EXCEPT ![o][k] = to]

Reversible(seq) == \A k \in 1 .. Len(seq) : seq[k] \notin Irreversible

\* buildTransformChain runs the pipeline backwards when reversing.
Ordered(m) ==
    IF m = "process" THEN plugins
    ELSE [k \in 1 .. Len(plugins) |-> plugins[Len(plugins) + 1 - k]]

\* The k-th stage has a chunk to work on.
Available(o, k) == out[o][k] < IF k = 1 THEN Chunks ELSE out[o][k - 1]

(***************************************************************************)
(* The operation.                                                          *)
(***************************************************************************)

\* throwIfAborted, the check for a global schema, or startRequest throws.
Refuse(o, hasSchema) ==
    /\ pc[o] = "idle"
    /\ ~Live(o) \/ hasSchema \/ ~MayStart
    /\ Goto(o, "refused")
    /\ UNCHANGED <<engineVars, chain, signal, started, stageVars, sink>>

\* The request starts and the stages are built; building them fails for an
\* irreversible pipeline or when a createStream throws.
Call(o, m) ==
    /\ pc[o] = "idle"
    /\ Live(o)
    /\ MayStart
    /\ StartRequest(o)
    /\ chain' = [chain EXCEPT ![o] = Ordered(m)]
    /\ \/ Goto(o, "failing")
       \/ (m = "reverse" => Reversible(plugins)) /\ Goto(o, "streaming")
    /\ UNCHANGED <<configVars, signal, started, stageVars, sink>>

\* pipeline() resolves once every stage has passed on every chunk and the
\* destination has finished.
PipelineResolves(o) ==
    /\ pc[o] = "streaming"
    /\ \A k \in StagesOf(o) : out[o][k] = Chunks /\ stage[o][k] = "waiting"
    /\ Goto(o, "finish")
    /\ UNCHANGED <<engineVars, chain, signal, started, stageVars, sink>>

\* A stage waiting for the sink is released by the 'close' event when
\* pipeline() destroys it.
Closed(stages) == [k \in Slots |-> IF stages[k] = "drain" THEN "dead" ELSE stages[k]]

\* The source or the destination fails, or a byte limit is exceeded.
EndpointFails(o) ==
    /\ pc[o] = "streaming"
    /\ Goto(o, "failing")
    /\ stage' = [stage EXCEPT ![o] = Closed(@)]
    /\ UNCHANGED <<engineVars, chain, signal, started, tries, task, out, diverted, sink>>

\* The audit record is handed over and its promise tracked; awaitOperation
\* waits for it unless the signal has aborted or expired.
Audit(o) ==
    /\ pc[o] = "finish"
    /\ started' = [started EXCEPT ![o] = @ + 1]
    /\ TrackWork(o, started[o] + 1)
    /\ Goto(o, IF Live(o) THEN "auditing" ELSE "failing")
    /\ UNCHANGED <<configVars, chain, signal, stageVars, sink>>

\* throwIfAborted, then endRequest.
Complete(o) ==
    /\ pc[o] = "audited"
    /\ IF Live(o) THEN ReleaseRequest(o) /\ Goto(o, "ok")
       ELSE Goto(o, "failing") /\ UNCHANGED tableVars
    /\ UNCHANGED <<configVars, chain, signal, started, stageVars, sink>>

\* emitError, then the caller sees the rejection.
Fail(o) ==
    /\ pc[o] = "failing"
    /\ ReleaseRequest(o)
    /\ Goto(o, "failed")
    /\ UNCHANGED <<configVars, chain, signal, started, stageVars, sink>>

(***************************************************************************)
(* One stage.                                                              *)
(***************************************************************************)

\* cb(error): the stage is destroyed and with it the pipeline.  The error of
\* a stage whose pipeline is gone is ignored.
Report(o, k) ==
    IF pc[o] = "streaming"
    THEN /\ Goto(o, "failing")
         /\ stage' = [stage EXCEPT ![o] = [Closed(@) EXCEPT ![k] = "dead"]]
    ELSE SetStage(o, k, "dead") /\ UNCHANGED pc

\* A call whose promise is tracked: an attempt, or a task of a worker stream.
StartTask(o, k) ==
    /\ started' = [started EXCEPT ![o] = @ + 1]
    /\ TrackWork(o, started[o] + 1)
    /\ task' = [task EXCEPT ![o][k] = started[o] + 1]
    /\ SetStage(o, k, "awaiting")

\* A plugin's own stream passes a chunk on, or fails.
NativeStep(o, k) ==
    /\ pc[o] = "streaming"
    /\ IsNative(o, k)
    /\ stage[o][k] = "resolved" \/ (stage[o][k] = "waiting" /\ Available(o, k))
    /\ \/ /\ out' = [out EXCEPT ![o][k] = @ + 1]
          /\ SetStage(o, k, "waiting")
          /\ UNCHANGED pc
       \/ Report(o, k) /\ UNCHANGED out
    /\ UNCHANGED <<engineVars, chain, signal, started, tries, task, diverted, sink>>

\* The stream of a WorkerPoolPlugin hands the chunk, or the next frame of it,
\* to the pool and tracks the task.  It looks at the abort signal, which has
\* destroyed the pipeline, and not at the clock.
NativeCalls(o, k) ==
    /\ pc[o] = "streaming"
    /\ IsNative(o, k)
    /\ \/ stage[o][k] = "waiting" /\ Available(o, k) /\ tries' = [tries EXCEPT ![o][k] = 1]
       \/ /\ stage[o][k] = "resolved" /\ tries[o][k] < TasksPerChunk
          /\ tries' = [tries EXCEPT ![o][k] = @ + 1]
    /\ StartTask(o, k)
    /\ UNCHANGED <<configVars, pc, chain, signal, out, diverted, sink>>

\* The task has failed, or settles after the stream was destroyed.
NativeFails(o, k) ==
    /\ IsNative(o, k)
    /\ stage[o][k] = "rejected" \/ (stage[o][k] = "resolved" /\ pc[o] # "streaming")
    /\ Report(o, k)
    /\ UNCHANGED <<engineVars, chain, signal, started, tries, task, out, diverted, sink>>

\* The top of the withRetry loop: throwIfAborted, then the promise of fn() is
\* tracked and awaited.  (A synchronous throw is a promise that rejects.)
StartAttempt(o, k) ==
    IF Live(o) THEN StartTask(o, k)
    ELSE SetStage(o, k, "caught") /\ UNCHANGED <<tableVars, started, task>>

\* transform(chunk) is called: the signal and the retry options are checked
\* and the first attempt starts.
TakeChunk(o, k) ==
    /\ pc[o] = "streaming"
    /\ ~IsNative(o, k)
    /\ stage[o][k] = "waiting"
    /\ Available(o, k)
    /\ tries' = [tries EXCEPT ![o][k] = 0]
    /\ IF Attempts[chain[o][k]] > limits.maxRetryAttempts
       THEN SetStage(o, k, "caught") /\ UNCHANGED <<tableVars, started, task>>
       ELSE StartAttempt(o, k)
    /\ UNCHANGED <<configVars, pc, chain, signal, out, diverted, sink>>

StageRejectedRetriesAlways(o, k) ==
    /\ stage[o][k] = "rejected"
    /\ ~IsNative(o, k)
    /\ tries' = [tries EXCEPT ![o][k] = @ + 1]
    /\ IF tries[o][k] + 1 < Attempts[chain[o][k]]
       THEN StartTask(o, k)
       ELSE SetStage(o, k, "caught") /\ UNCHANGED <<tableVars, started, task>>
    /\ UNCHANGED <<configVars, pc, chain, signal, out, diverted, sink>>

\* The catch block of withRetry: the next attempt follows at once or after
\* the back-off delay.
StageRejected(o, k) ==
    /\ stage[o][k] = "rejected"
    /\ ~IsNative(o, k)
    /\ tries' = IF Live(o) THEN [tries EXCEPT ![o][k] = @ + 1] ELSE tries
    /\ LET again == Live(o) /\ tries[o][k] + 1 < Attempts[chain[o][k]]
       IN  IF again /\ chain[o][k] \notin Delayed
           THEN StartAttempt(o, k)
           ELSE /\ SetStage(o, k, IF again THEN "delay" ELSE "caught")
                /\ UNCHANGED <<tableVars, started, task>>
    /\ UNCHANGED <<configVars, pc, chain, signal, out, diverted, sink>>

\* The back-off timer fires.
StageDelayElapsed(o, k) ==
    /\ stage[o][k] = "delay"
    /\ StartAttempt(o, k)
    /\ UNCHANGED <<configVars, pc, chain, signal, tries, out, diverted, sink>>

\* The output passes the size check and is emitted, or the chunk has failed.
\* The output of a destroyed stage is dropped.
StageResolved(o, k) ==
    /\ stage[o][k] = "resolved"
    /\ ~IsNative(o, k)
    /\ \/ SetStage(o, k, "caught") /\ UNCHANGED out
       \/ /\ SetStage(o, k, "waiting")
          /\ out' = IF pc[o] = "streaming" THEN [out EXCEPT ![o][k] = @ + 1] ELSE out
    /\ UNCHANGED <<engineVars, pc, chain, signal, started, tries, task, diverted, sink>>

StageCaughtSkipsChunk(o, k) ==
    /\ stage[o][k] = "caught"
    /\ IF sink \in {"ready", "blocked"}
       THEN /\ diverted' = [diverted EXCEPT ![o] = @ \cup {k}]
            /\ SetStage(o, k, "waiting")
            /\ out' = [out EXCEPT ![o][k] = @ + 1]
            /\ UNCHANGED pc
       ELSE Report(o, k) /\ UNCHANGED <<out, diverted>>
    /\ UNCHANGED <<engineVars, chain, signal, started, tries, task, sink>>

\* The catch block of the transform: the chunk is written to a writable sink;
\* when the sink is full the error is reported only after it has drained.
StageCaught(o, k) ==
    /\ stage[o][k] = "caught"
    /\ \/ /\ sink \notin {"ready", "blocked"}
          /\ Report(o, k)
          /\ UNCHANGED <<diverted, sink>>
       \/ /\ sink \in {"ready", "blocked"}
          /\ diverted' = [diverted EXCEPT ![o] = @ \cup {k}]
          /\ \/ sink = "ready" /\ Report(o, k) /\ UNCHANGED sink
             \/ /\ sink' = "blocked"
                /\ IF signal[o] = "aborted" THEN Report(o, k)
                   ELSE SetStage(o, k, "drain") /\ UNCHANGED pc
    /\ UNCHANGED <<engineVars, chain, signal, started, tries, task, out>>

(***************************************************************************)
(* The failure sink.                                                       *)
(***************************************************************************)

\* 'drain' or 'error' of the sink reaches every stage that waits for it.
SinkReleases(to) ==
    /\ sink' = to
    /\ pc' = [o \in Requests |->
                IF pc[o] = "streaming" /\ \E k \in Slots : stage[o][k] = "drain"
                THEN "failing" ELSE pc[o]]
    /\ stage' = [o \in Requests |-> Closed(stage[o])]
    /\ UNCHANGED <<engineVars, chain, signal, started, tries, task, out, diverted>>

SinkDrains == sink = "blocked" /\ SinkReleases("ready")

SinkFails == sink \in {"ready", "blocked"} /\ SinkReleases("errored")

\* The sink is destroyed without an error: it emits only 'close', which no
\* stage listens for.
SinkCloses ==
    /\ sink \in {"ready", "blocked"}
    /\ sink' = "closed"
    /\ UNCHANGED <<engineVars, pc, chain, signal, started, stageVars>>

(***************************************************************************)
(* Promises, aborts and deadlines.                                         *)
(***************************************************************************)

\* A tracked promise settles; only a stage or an audit that still waits for
\* it continues.  awaitOperation rejects a late answer, a native stream does not.
PromiseSettles(o, w, fulfilled) ==
    /\ w \in pending[o]
    /\ Settled(o, w)
    /\ IF pc[o] = "auditing" /\ w = started[o]
       THEN /\ Goto(o, IF fulfilled /\ Live(o) THEN "audited" ELSE "failing")
            /\ UNCHANGED stage
       ELSE /\ stage' = [stage EXCEPT ![o] = [k \in Slots |->
                 IF @[k] = "awaiting" /\ task[o][k] = w
                 THEN IF fulfilled /\ (Live(o) \/ IsNative(o, k)) THEN "resolved" ELSE "rejected"
                 ELSE @[k]]]
            /\ UNCHANGED pc
    /\ UNCHANGED <<configVars, chain, signal, started, tries, task, out, diverted, sink>>

AbortNotHeard(o) ==
    /\ pc[o] \notin {"refused", "ok"}
    /\ signal[o] # "aborted"
    /\ signal' = [signal EXCEPT ![o] = "aborted"]
    /\ UNCHANGED <<engineVars, pc, chain, started, stageVars, sink>>

\* The caller aborts or the AbortSignal.timeout event is delivered, possibly
\* after the operation was answered: pipeline() fails, and every wait ends but
\* that of a native stage for its task.
Abort(o) ==
    /\ pc[o] \notin {"refused", "ok"}
    /\ signal[o] # "aborted"
    /\ signal' = [signal EXCEPT ![o] = "aborted"]
    /\ pc' = [pc EXCEPT ![o] = IF @ \in {"streaming", "auditing"} THEN "failing" ELSE @]
    /\ stage' = [stage EXCEPT ![o] = [k \in Slots |->
                   CASE @[k] = "awaiting" /\ ~IsNative(o, k) -> "rejected"
                     [] @[k] = "delay"    -> "caught"
                     [] @[k] = "drain"    -> "dead"
                     [] OTHER             -> @[k]]]
    /\ UNCHANGED <<engineVars, chain, started, tries, task, out, diverted, sink>>

\* The clock passes the deadline.
Expire(o) ==
    /\ o \in WithDeadline
    /\ pc[o] \in Running
    /\ Live(o)
    /\ signal' = [signal EXCEPT ![o] = "expired"]
    /\ UNCHANGED <<engineVars, pc, chain, started, stageVars, sink>>

\* The deadline timers of awaitOperation, and the abort event of the signal.
DeadlineFires(o) == signal[o] = "expired" /\ Abort(o)

StageTimer(o, k) ==
    /\ signal[o] = "expired"
    /\ stage[o][k] = "awaiting"
    /\ ~IsNative(o, k)
    /\ SetStage(o, k, "rejected")
    /\ UNCHANGED <<engineVars, pc, chain, signal, started, tries, task, out, diverted, sink>>

(***************************************************************************)
(* Specification.                                                          *)
(***************************************************************************)

Configure ==
    /\ \/ \E p \in PluginIds : Use(p)
       \/ \E l \in LimitChoices : SetLimits(l)
    /\ UNCHANGED streamVars

StageStep(o, k) ==
    \/ NativeStep(o, k)
    \/ NativeCalls(o, k)
    \/ NativeFails(o, k)
    \/ TakeChunk(o, k)
    \/ StageRejected(o, k)
    \/ StageDelayElapsed(o, k)
    \/ StageResolved(o, k)
    \/ StageCaught(o, k)

Advance(o) == PipelineResolves(o) \/ Audit(o) \/ Complete(o) \/ Fail(o)

Next ==
    \/ Configure
    \/ \E o \in Requests, hasSchema \in BOOLEAN : Refuse(o, hasSchema)
    \/ \E o \in Requests, m \in {"process", "reverse"} : Call(o, m)
    \/ \E o \in Requests : Advance(o) \/ EndpointFails(o) \/ Abort(o) \/ Expire(o)
    \/ \E o \in Requests : \E k \in StagesOf(o) : StageStep(o, k) \/ StageTimer(o, k)
    \/ \E o \in Requests : \E w \in pending[o], fulfilled \in BOOLEAN :
          PromiseSettles(o, w, fulfilled)
    \/ SinkDrains \/ SinkFails \/ SinkCloses

Spec == Init /\ [][Next]_vars

\* The event loop runs continuations and timers; pipeline() and native
\* streams make progress.  Plugins, the audit logger and the sink may stall.
Fairness ==
    \A o \in Requests :
        /\ WF_vars(Advance(o)) /\ WF_vars(Expire(o)) /\ WF_vars(DeadlineFires(o))
        /\ \A k \in Slots : WF_vars(k \in StagesOf(o) /\ StageStep(o, k))

LiveSpec == Spec /\ Fairness

(***************************************************************************)
(* Properties.                                                             *)
(***************************************************************************)

TypeOK ==
    /\ EngineTypeOK
    /\ pc       \in [Requests -> {"idle"} \cup Running \cup Settling]
    /\ chain    \in [Requests -> Seq(PluginIds)]
    /\ signal   \in [Requests -> {"live", "expired", "aborted"}]
    /\ started  \in [Requests -> Nat]
    /\ stage    \in [Requests -> [Slots -> Stages]]
    /\ tries    \in [Requests -> [Slots -> Nat]]
    /\ task     \in [Requests -> [Slots -> Nat]]
    /\ out      \in [Requests -> [Slots -> 0 .. Chunks]]
    /\ diverted \in [Requests -> SUBSET Slots]
    /\ sink     \in {"none", "ready", "blocked", "errored", "closed"}

\* Capacity is not leaked by a stream whose stages were still at work when
\* the pipeline failed: it is held by running operations, or by answered ones
\* with unsettled promises (releaseRequest, trackWork).
CapacityAccounted ==
    \A o \in active : pc[o] \in Running \/ (o \in finished /\ pending[o] # {})

\* The stages of one operation never pile up work: at most one promise per
\* plugin is unsettled, whatever was aborted, retried or timed out.
OnePromisePerStage ==
    \A o \in Requests :
        Cardinality(pending[o]) <= IF chain[o] = <<>> THEN 1 ELSE Len(chain[o])

\* An operation that lost a chunk to the failure sink never succeeds
\* (buildFallbackTransform reports the error after the write).
DivertedNeverSucceeds ==
    \A o \in Requests : diverted[o] # {} =>
        pc[o] \notin {"finish", "auditing", "audited", "ok"}

\* A stage never calls its plugin while the promise of its previous call is
\* unsettled, although the timer, an abort and a failed pipeline abandon
\* promises that keep running (withRetry, awaitOperation, throwIfAborted).
StageNoOverlap ==
    [][\A o \in Requests, k \in Slots :
         task'[o][k] # task[o][k] => task[o][k] \notin pending[o]]_vars

\* A stream with a deadline is answered although plugins, the audit logger or
\* the failure sink never answer.
DeadlineAnswers ==
    \A o \in WithDeadline : pc[o] \in Running ~> pc[o] \in Settling

\* docs/enterprise.md:52-53 "Non-cooperative work still occupies concurrency
\* capacity until its promise settles": every unsettled promise belongs to a
\* request that holds capacity (trackWork).
WorkHoldsCapacity == \A o \in Requests : pending[o] # {} => o \in active

\* docs/enterprise.md:129 "Sink errors and premature closure fail the
\* operation": a stream that waits for a closed sink is eventually answered.
ClosedSinkFails ==
    \A o \in Requests :
        (sink = "closed" /\ pc[o] = "streaming" /\ \E k \in Slots : stage[o][k] = "drain")
            ~> pc[o] \in Settling

\* docs/enterprise.md:126-127 "PipeX writes the original failed chunk once
\* after plugin retries are exhausted": a diverted chunk has failed in every
\* attempt its plugin allows.
DivertedAfterRetries ==
    \A o \in Requests : \A k \in diverted[o] : tries[o][k] = Attempts[chain[o][k]]
=============================================================================
