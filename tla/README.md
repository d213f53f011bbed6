# PipeX in TLA+

PipeX runs application data through a pipeline of plugins (compression,
encryption, hashing, validation, worker threads) on three paths: values in
memory (`engine.binary`), Node streams (`engine.stream`) and files
(`engine.file`). One `DataEngine` serves many operations at once. Plugins, audit
loggers, failure sinks, worker handlers and native file calls are asynchronous,
cannot be cancelled by the engine and may never answer. The hard part of the
code is therefore bookkeeping across `await`: who still holds capacity, what may
be retried, when a descriptor may be closed, and what a caller may be told.

Source paths below are relative to the repository (`src/core/...`).

## Inventory

| Component | State | Operations | Interaction | Hard part | What makes it correct |
|---|---|---|---|---|---|
| Engine request table (`core/dataEngine.ts`) | plugin list, limits, `#activeRequests`, `#pendingWork`, `#finishedRequests`, `#requestPipelines` | `use`, `setLimits`, `startRequest`, `trackWork`, `releaseRequest`, `emitAudit` | called by every controller | release postponed until the last promise settles | bound respected, no leak, unsettled work holds capacity, configuration stable |
| Cancellation and retries (`core/operations.ts`, `withRetry` in `core/core.ts`) | deadline per signal, per-wait timer | `throwIfAborted`, `awaitOperation`, `withRetry` | used around every plugin call and audit | promise, abort event and timer race; late results | no overlap of attempts, deadline always answers |
| Binary controller | position in the pipeline | `run`, `undo`, `pack`, `unpack` | engine table, plugins, audit logger | reconfiguration and aborts between awaits | success means all plugins ran and nothing is left; audit names what ran |
| Stream controller | one Node stream per stage | `pipe`, `into`, `reverseInto`, `pack`, `unpack` | `pipeline()`, plugins, failure sink | stages run concurrently; the pipeline dies while attempts are in flight | no chunk lost on success, diverted chunk means failure |
| Failure sink (`setDlq`) | caller's Writable | write, wait for drain | shared by all stages and streams | back-pressure, error and close of a foreign stream | operation fails, never hangs |
| File controller and session (`core/secureFiles.ts`) | descriptors, temporary directory and file, `committed`, `disposed`, pending native calls | open, read, write, commit, dispose | native calls, file system | short writes, calls in flight at dispose, crashes | output old or complete; nothing left behind; no call on a closed descriptor |
| Worker pool (`plugin/worker.ts`) | `#accepting`, `#inFlight`, `#closePromise`, `#fatalError`, `#idleWaiters` | `process`, `reverse`, `close` | Piscina | close against tasks, grace timer, fatal errors | bound exact, no lost wake-up, graceful close loses no task, close settles |
| Endpoint of `into()` (`StreamController.#into`) | `finalCallback`, the internal source | write, final, destroy, `settleEndpoint` | caller's `pipeline()`, internal `pipeline()`, audit | the caller and the operation end in any order | 'finish' only when all is done, failures reach the caller, one answer |
| Worker stream framing (PXWK) | header, payload, end flag | transform, flush, destroy | worker pool | fragmentation at any byte, a task awaited in the middle of a chunk | task boundaries independent of chunking; nothing pushed after destroy |
| AEAD frames (`plugin/encryptionFormat.ts`) | sequence number, final flag, buffers, derived key | encrypt and decrypt, buffer and stream | crypto | order, truncation, two decoders, limits | decoders agree; only whole streams succeed; keys erased |
| MessagePack limits (`core/frameLimits.ts`) | scanner position, remaining values | `scan`, `finish` | stream and binary unpack | fragmentation, exact limits | same boundaries for every fragmentation |
| `stream.pack`, `stream.unpack` | sent and seen flags, counters | manifest, object and frame limits | `runPipeline` | manifest counted or not | what was packed within limits can be unpacked |
| Compression and hashing | counters, buffered chunks | buffer and stream forms | zlib, crypto | limits at any chunk boundary | both forms agree; nothing released before it is verified |
| KMS encryption (`plugin/kms_encryption.ts`) | timer, abort listener, data key of a call | `process`, `reverse` | external provider | late, wrong or missing answers | keys erased, calls answered, envelopes readable |
| Others | - | validation, typed pipeline, capabilities, observability, path containment | - | mostly pure or thin wrappers | listed in PROJECT.json |

## Modules

| Module | Models |
|---|---|
| `DataEngine` | the request table and its methods, as operators that the controller modules use inside their actions |
| `RequestCapacity` | abstract contract: capacity is held while work is unsettled, and the configuration is fixed while anybody holds capacity; `DataEngine` maps the table to it (`CapacityContract`); binary operations implement it, streams and files do when no wrapped plugin is retried |
| `BinaryOperations` | `run`, `undo`, `withRetry`, `awaitOperation` |
| `StreamOperations` | `pipe`, `buildFallbackTransform`, native stages, the failure sink |
| `StreamEndpoint` | extends it by the Writable that `into` and `reverseInto` return |
| `AtomicReplace` | abstract contract of file operations |
| `FileOperations` | `FileController` and the POSIX and Windows file sessions |
| `WorkerPool` | admission and shutdown of `WorkerPoolPlugin` |
| `AeadFrames` | the PXAE format: buffer and stream encoder and decoder, legacy packets |
| `FrameScanner` | the incremental MessagePack scanner and the Transform around it |
| `WorkerFraming` | the PXWK encoder and decoder of `WorkerPoolPlugin.createStream` |
| `PluginStreams` | hashing and compression in both forms; the Transforms of `stream.pack` and `stream.unpack` |
| `Transforms` | composes the four: one Transform of any kind with the Node stream that feeds it, and the definitions of the formats on whole inputs |
| `KmsEnvelope` | `KmsEncryptionPlugin`: the provider call and the envelope |
| `EngineProofs` | lemmas about the request table and its contract, shared by the next four |
| `BinaryProofs`, `StreamProofs`, `EndpointProofs`, `FileProofs` | theorems about the operation modules |
| `WorkerPoolProofs`, `KmsProofs` | theorems about `WorkerPool` and `KmsEnvelope` |
| `TransformProofs` | theorems about `Transforms`, for inputs and limits of any size |
| `MCBinary`, `MCStream`, `MCEndpoint`, `MCFile`, `MCWorkerPool`, `MCTransforms`, `MCKms` | small instances for TLC |

A definition whose name is a variation of another one (`SettledWithoutRelease`
next to `Settled`) is a deliberately wrong version; PROJECT.json lists which
property finds it out.

### How state and actions correspond to the code

*Requests.* `startRequest` draws a UUID, so an operation and its request are one
element of `Requests`; `active`, `pending`, `finished` and `requestPipelines` are
the private fields of the same names. A tracked promise is a number within its
request. `pending[r] = {}` stands for a missing map entry.

*Signal.* `live`, `expired` (the deadline has passed but the abort event is not
yet delivered: `throwIfAborted` already throws, listeners have not run) and
`aborted`. This separation is what the comment in `operations.ts` about
synchronous work is about. The timer that `awaitOperation` arms for the same deadline
(`operations.ts` line 50) is taken to fire only once `Date.now()` has reached it:
a timer that is early by a clock tick, so that an attempt is given up while
`throwIfAborted` still passes, is not modelled.

*Binary.* `pc` names the place in `run`/`undo` where the operation is suspended.
Two consecutive synchronous sections are separate steps in some places
(`Rejected` then `Attempt`); other operations may step in between, which the
program cannot do, but `throwIfAborted` is evaluated again in the second step
as it is in the code, so this adds interleavings and hides none.

*Streams.* Each stage has its own small state machine (`stage`, `tries`,
`task`). Synchronous sections are merged here (the retry starts its next attempt
in the step that handles the rejection). A plugin that throws synchronously is a
promise that rejects. Chunks are counted, not represented: `out[o][k]` is how many
chunks the k-th stage has passed on. A plugin with its own `createStream` is
external unless it is the worker pool's, which hands its tasks to `track`
(`worker.ts` lines 235-247): a native stage passes a chunk on or fails, at once or after
up to `TasksPerChunk` tracked tasks, one at a time. It never retries, and after a
task it notices that its stream was destroyed.

*Files.* The file at the output path is identified by who created it
(`output`), and `size` belongs to that file rather than to a path, so a write
that lands after the rename would change what readers see. `reading` and `writing`
are native calls in flight, `chunk` the rest of the write loop, `waits` the
snapshot `dispose()` takes of them. Opening is one step with an outcome for each
place it can fail, followed by the cleanup of the code; `rmdir` removes only an
empty directory. All operations write the same path, the hardest case. Stages
between source and destination pass bytes on or fail. They are given the engine's
`trackWork` as those of a stream are (`FileController.ts` lines 52-54, 69 and 96), so what the
request table sees of them is kept: `StageCalls`, `StageSettles` and `StageRetries` track at
most one promise per stage, also of stages whose pipeline, session or
operation is over. `pack` and `unpack` have no such stages. Not kept are the order of the
stages, how many attempts are left and the failure sink, which are the subject of
`StreamOperations`.

*Worker pool.* `closing` is where the function behind `#closePromise` is
suspended. Piscina is external: it starts queued tasks on free threads, settles
them, rejects a task whose signal aborts and rejects everything on `destroy()`. It has
a queue limit of its own and may refuse a task that `#run` has admitted (`PoolRefuses`),
which `#run` maps to `WorkerQueueFullError` and must count out again.

*Endpoint.* The PassThrough between the caller and the internal pipeline is
`source`; `pipeline()` resolves only when it has ended and rejects when it was
destroyed early. A write whose source is destroyed before it calls back leaves
the endpoint in `writing`: only `settleEndpoint` can end it. `answers` counts
calls of the callback of `final()`.

*Loops.* A loop of a Transform is one operator per turn (`FramedTurn`, `ScanTurn`,
`DecodeTurn`, ...) and a recursive function of the number of turns. There are as many
turns as bytes in the chunk, because a turn uses at least one; a turn with nothing left
to do changes nothing.

*Transforms.* A codec is a set of pure operators on a record of the closure's
local variables (`EncryptTransform(st, chunk, limits)`, ...), `out` being what it
has pushed; `Transforms` turns them into one state machine whose `Write` delivers
the next bytes in a chunk of any length, zero included. Bytes are records that say what
they are; header, tag and digest are two or three bytes long instead of 16 to 32,
so that every split inside and between them occurs. Cryptography is symbolic:
a tag names the header, frame header and text it was computed for, a
ciphertext byte its nonce. MessagePack tokens are the real byte values. Chunks
that a Transform pushes are concatenated except where their boundaries matter
(frames, worker tasks).

*KMS.* `pc` is where a call is suspended; `promise` lives on after the call was
answered. `callProvider`, its `abortable` and the code after the await are
separate steps, so an abort or the timer can come between the provider's answer
and its use. An envelope is the record of the fields `reverse` looks at.

## Runs

| Run | Shows |
|---|---|
| `binary` | capacity bound, accounting, no overlapping attempts, audit equals execution, clean success, refinement of `RequestCapacity`, a deadline answers, capacity comes back |
| `stream` | one promise per stage, no stage calls its plugin while its previous promise is unsettled, a stream that diverted a chunk never succeeds, a deadline answers |
| `endpoint` | `FinishMeansDone`, `FailureReachesCaller`, `FinalAnsweredOnce`, no capacity leak, and `EndpointSettles`: a destroyed endpoint or a deadline ends the operation although plugins and the caller do nothing more |
| `file` | output whole, no call after close, nothing left behind, success is committed, refinement of `AtomicReplace`; both platforms (chosen in `Init`); no plugins, as for `pack` and `unpack` |
| `file_stages` | one file operation with two stages, retried ones and ones that are not: no capacity leak although plugins outlive pipeline, session and answer, and a deadline answers although plugins hang, when native calls complete |
| `worker_pool` | exact admission, `CloseDrains` (a closed pool is idle and a graceful close loses no task), no lost wake-up, `CloseSettles` (close and every accepted task are answered although handlers hang) |
| `transforms` | `FragmentationInvisible`: each stream form gives the result of its buffer form, or of the format's definition, for every fragmentation; `ReleasedIsAuthentic`: frames lost, repeated, exchanged, replaced, renumbered or cut off never reach the reader; `RoundTrip`: what was written within the limits can be read under them; `SecretsErased`; `NothingAfterDestroy` |
| `kms` | `AnsweredIsClean`: no key and no timer outlive an answered call; `EnvelopeReadable`; `CallAnswered` with a hung provider |

Four runs show a disagreement between the code and its documentation:

* `stream_retry_release`: after the pipeline has failed, a stage whose attempt
  rejects retries it although the request has been released; the new promise
  runs without capacity (`docs/enterprise.md` lines 52-53 say it holds capacity).
  The stages of `file.process` and `file.reverse` do the same. `binary` has no such
  case, because only one promise exists at a time; there the property is proved.
* `stream_sink_closed`: a stage waiting for a full sink is not woken by the
  sink's `close` (`docs/enterprise.md` line 129: "premature closure fail[s] the
  operation"). Without a deadline the operation stays pending.
* `stream_early_divert`: a chunk whose attempts were cut short is written to the sink
  before its retries are exhausted (`docs/enterprise.md` lines 126-127), by an abort in
  the counterexample. The same catch block sees a plugin whose output exceeds the limit
  and one that asks for more attempts than the limits allow.
* `legacy`: a decryption stream whose plugin has no `allowLegacyDecrypt` option
  decrypts a legacy packet; the buffer decoder refuses it, and `README.md` line 263
  and `docs/security.md` line 22 call the option off by default
  (`docs/api.md` line 374 says on). The cases of `transforms` therefore set it.

### Bounds

* Two operations and two plugins with two attempts each: two operations are
  needed for capacity to be contended and for reconfiguration between them, two
  plugins for a retry in the middle of a pipeline, two attempts for a retry.
  `MCLimits` contains a limit of one operation (refusal) and a retry budget below
  the plugin's attempts (refusal by `withRetry`).
* Streams: two stages and two chunks, so a stage can hold a chunk while the
  previous one works on the next, and two tasks per chunk of a native stage, so that it
  starts one after another.
* Endpoints: two operations over one engine that admits one or two of them, one
  stage and one chunk each, one with and one without a deadline: every place where
  a caller can write, end or destroy while the operation runs, fails or ends.
* Transforms: inputs of up to three bytes of text (at most 22 bytes encoded) under ample
  limits, limits that fit exactly and limits that are one too small; every string of at most
  three tokens, and those of four that begin with a container or a length, of an
  alphabet that has every kind of token; all fragmentations of each. Record
  and frame counts of 0, 1, 2 and 3 cover the first, a middle and the last frame.
* KMS: two calls, because one writes what the other reads and because answers
  interleave; data and keys of 0 to 3 bytes around the limit of 8.
* Files: two operations on one path, two bytes, so that reads and writes can be
  short and a prefix differs from the whole. Stages multiply the states, so
  `file_stages` has one operation with two of them, because stages of one operation
  share its request.
* Worker pool: one thread, one queue slot and three tasks: running, queued, and one
  that is refused or arrives late.
* `MaxPlugins` stands for the 256 of `use()`.

Deadlock checking is off for files (a crash ends the process), for the worker
pool (a closed pool with answered tasks has nothing to do), for Transforms (a
finished stream stays finished) and for KMS (every call is answered in the end).

### Fairness

The event loop eventually runs continuations and timers: weak fairness of the
operation's own steps, of `Expire` (time passes) and of the deadline and grace
timers. Plugins, audit loggers, sinks and worker handlers get no fairness.
The run `file_stages` additionally assumes that native reads and writes complete, because
`dispose()` waits for them without a deadline, and `worker_pool` that
Piscina completes `close()` and `destroy()`. In `endpoint` the caller of the
endpoint gets no fairness either: it may stop after any write. In `kms` timers
and continuations are fair and the provider is not, which is what the timer of
`providerControl` is for; a call without a timer is answered only if its signal
aborts, and `CallAnswered` says no more.

## Proofs

Every theorem holds for all values of the constants that satisfy the named
assumptions, which are what the constructors, `use()` and `setLimits()` check:
`EngineAssumption` (finitely many operations, limits and attempts at least one),
`DeadlineAssumption`, `StreamAssumption` and `FileAssumption` (which operations
have a deadline, which plugins a stream of their own, the size of the input),
`PoolAssumption` (at least one thread and one queue slot), `KmsAssumption`
(limits are natural numbers, every provider can generate a data key) and
`CaseAssumption` (the limits and frame sizes of a Transform are positive; its input is any
sequence of bytes). The last one also says what cryptography gives a reader, `Unforged`:
a tag in the input that names the packet's own header is one that the writer made for
that packet, and a legacy tag or an HMAC is the one of the original; nothing is assumed
about where in the input they stand, how often, or about any other byte. TLC evaluates
the assumptions in the runs. Nothing is assumed about plugins, callers, loggers or
providers.

| Theorem | Module | Property | Run |
|---|---|---|---|
| `TypeCorrect` | `BinaryProofs`, `StreamProofs`, `FileProofs`, `WorkerPoolProofs` | `TypeOK` | `binary`, `stream`, `file`; - for the pool |
| `CapacityIsBounded` / `ConcurrencyIsBounded` | `BinaryProofs` / `StreamProofs`, `FileProofs` | `CapacityBound` | `binary`; - for the others |
| `WorkIsAccounted` | `BinaryProofs` | `WorkHoldsCapacity` | `binary` |
| `CapacityIsAccounted` | `BinaryProofs`, `StreamProofs`, `FileProofs` | `CapacityAccounted` | `binary`, `endpoint`, `file_stages` |
| `AttemptsNeverOverlap` | `BinaryProofs` | `NoOverlap` | `binary` |
| `AuditNamesExecution`, `SuccessLeavesNothing` | `BinaryProofs` | `AuditIsExecution`, `SuccessIsClean` | `binary` |
| `ImplementsCapacity` | `BinaryProofs` | `CapacityContract` | `binary` |
| `StreamsImplementCapacity`, `FilesImplementCapacity` (given `NoRetries`) | `StreamProofs`, `FileProofs` | `CapacityContract` | - |
| `PromisesAreBounded` | `StreamProofs` | `OnePromisePerStage` | `stream` |
| `DivertedChunkFails` | `StreamProofs` | `DivertedNeverSucceeds` | `stream` |
| `StageCallsNeverOverlap` | `StreamProofs` | `StageNoOverlap` | `stream` |
| `EndpointImplementsStream` | `EndpointProofs` | `EndpointSpec => Spec` | - |
| `EndpointCapacity` | `EndpointProofs` | `CapacityAccounted` | `endpoint` |
| `FinishIsDone`, `FailureIsSeen` | `EndpointProofs` | `FinishMeansDone`, `FailureReachesCaller` | `endpoint` |
| `FinalIsAnsweredOnce` | `EndpointProofs` | `FinalAnsweredOnce` | `endpoint` |
| `OutputStaysWhole`, `CallsPrecedeClose` | `FileProofs` | `OutputIsWhole`, `NoCallAfterClose` | `file` |
| `NothingIsLeftBehind`, `SuccessMeansCommitted` | `FileProofs` | `NothingLeftBehind`, `SuccessIsCommitted` | `file` |
| `FilesReplaceAtomically` | `FileProofs` | `ReplaceContract` | `file` |
| `AdmissionIsBounded`, `SettledCloseIsDrained`, `WakeupIsNotLost` | `WorkerPoolProofs` | `AdmissionBound`, `CloseDrains`, `NoLostWakeup` | `worker_pool` |
| `AnsweredCallIsClean`, `EnvelopeIsReadable` | `KmsProofs` | `AnsweredIsClean`, `EnvelopeReadable` | `kms` |
| `SecretsAreErased`, `NothingPushedAfterTheEnd` | `TransformProofs` | `SecretsErased`, `NothingAfterDestroy` | `transforms` |
| `ReleasesAreAuthentic` (kinds `decrypt`, `verify`) | `TransformProofs` | `ReleasedIsAuthentic` | `transforms` |
| `BufferingFragmentation` (kinds `sign`, `verify`, `compress`) | `TransformProofs` | `FragmentationInvisible` | `transforms` |
| `EncryptionFragmentation` (kind `encrypt`) | `TransformProofs` | `FragmentationInvisible` | `transforms` |
| `DecryptionFragmentation` (kind `decrypt`) | `TransformProofs` | `FragmentationInvisible` | `transforms` |
| `DecompressionFragmentation` (kind `decompress`) | `TransformProofs` | `FragmentationInvisible` | `transforms` |

`SecretsAreErased` is about the derived key of the cipher streams (kinds `encrypt` and
`decrypt`) and the plaintext that an encrypting one has not yet sealed; what `verify`,
`sign`, `compress` and worker streams have buffered is not erased by the code and not covered.
The last five speak of the kinds in brackets; what the property says of the other kinds
is only model-checked. `DecryptionFragmentation` holds where the option was given or the
input does not begin as a legacy packet does (`Decided`): in the excepted case the two
decoders do differ, which is what the run `legacy` shows.

### The arguments

Each proof module defines an inductive invariant (`IInv`; `EInv` for endpoints, six of them
for Transforms), proves that `Init` implies it and that every step preserves it, and
derives the properties from it. The invariants of the operation modules are a
global part and one conjunct `OpInv(o)` per operation, so each preservation proof
has the same shape: the step belongs to one operation, leaves the others' part
alone (`OthersSame`), and preserves its own (`OwnStep`, one case per action). Each
invariant holds on the instance of its run according to TLC.

* `EngineProofs` holds what the three controllers share: the effect of
  `startRequest`, `trackWork`, `releaseRequest` and a settled promise on the types
  (`TableStepType`), on other requests (`OtherRequests`), on the bound
  (`CapacityKept`: a request that starts under `MayStart` keeps the cardinality within
  the limit; `CapacityReconfigured`: limits change only while nobody is active) and
  on the contract (`ContractKept`).
* *Binary.* `WorkHoldsCapacity` needs that a request is released only with no
  pending work and that work is started only by a running, hence active,
  operation; `NoOverlap` needs that an operation at the top of the retry loop with
  a live signal has nothing pending. `IInv` collects these per value of `pc`.
* *Streams.* Stages run concurrently and outlive the answer, so it is not enough
  to count promises: `Work` says that every unsettled promise is the last one some stage
  started (or the audit's, once all stages are through), `StageWork` that a stage
  about to start an attempt has no unsettled promise. `OnePromisePerStage` then
  follows because the image of the stages under `task` is no larger than the chain.
  `DivertedNeverSucceeds` needs `StageFlow` (a stage that diverted its chunk waits for the sink
  or is destroyed) against `Through` (a resolved pipeline has only waiting stages).
  `StageNoOverlap` follows from `StageWork` too: a promise that a timer, an abort or the end of
  the pipeline abandoned keeps its stage away from the next attempt. In general streams do not
  implement `RequestCapacity`: the run `stream_retry_release` shows the step that does
  not. `StreamsImplementCapacity` says that it is the only one: when no wrapped plugin is
  retried (`NoRetries`), no stage is ever in a back-off (`NoDelay`), and every call is
  made by a streaming, hence active, operation (`SingleAttempt`).
* *Endpoints.* `EndpointSpec => Spec` gives the stream invariant for free;
  `EndInv` adds that the callback of `final()` is kept only by an endpoint that is
  ending, that an unsettled endpoint has answered nothing, and that the state of the
  endpoint agrees with the answer of the operation.
* *Files.* `OutputIsWhole` needs that only committed files are at the output path
  (`OutputInv`), that a file is complete when the pipeline has resolved, and that no
  write can follow: what is written or being written was read before, so a
  complete file has nothing left to write (`Bytes`). `NoCallAfterClose` needs that
  the snapshot of `dispose()` names every call in flight (`Session`). The
  refinement maps the abstract `open` to the operations that were neither committed
  nor given up; `ReplacementStep` shows that only `commit` moves the output.
  `CapacityAccounted` and the `pending[o] = {}` of `SuccessIsCommitted` need that a
  pipeline resolves only when no stage is at work or about to be (`Work`); stages of
  operations that failed stay unconstrained. The capacity contract again
  holds given `NoRetries` (`NoneRetrying`, `SingleAttempt`).
* *Worker pool.* That `#inFlight` never drops below zero (`TypeOK`) depends on its being exact
  (`AdmissionBound`), so both are one invariant; `CloseDrains` needs what each
  phase of the shutdown has established (`Shutdown`, `Terminated`).
* *KMS.* A plaintext key lives only between its arrival in time and the `finally`
  block (`Held`); what `process()` may write passes the checks of `reverse()`
  (`WrittenIsReadable`, arithmetic on the limits), given that the data was checked
  before the provider was called (`Checked`).

* *Transforms.* A loop is proved about by induction on its turns. `SetInduction` and `UpTo` give
  induction on a set of numbers rather than on a formula (from the well-foundedness of the
  naturals), and `Iteration` that the function of the turns exists; `FillLoop`, `FramedLoop` and
  the like apply it to each loop. Lemmas on windows (`Window(s, p, n)` is the n elements of s
  behind p) carry the arithmetic. Then:
  - `SecretInv`: the local variables of a Transform always have their fields, a Transform that has
    failed has no live key, no pending text and no task, and one that is over keeps it so.
    `WorkerSafe` and `DecodeSafe` say the same about the loop in which a task is awaited.
  - `BufferInv`: the variables of a hashing or compressing stream are a function of the bytes it
    has got (`Behind`), so the chunks cannot matter.
  - `DecryptInv`: what a frame's tag is compared with is an element of the input. By
    `Unforged` the frame is one the writer made, and its sequence number says which, so what was
    released is the first frames of the original (`Whole`); the final frame names their number.
  - `EncryptInv`: the pending text is the window of the input behind the frames already sealed,
    and the output is what `encryptBuffer` has after the same frames (`Sealed`).
  - `PaceInv`: the stream is at the same frame as the loop of `decryptBuffer` (`Abreast`), what it
    holds of that frame is a window of the input (`Within`), and a frame is opened or refused by both
    (`FrameOpens`). A frame that the input cuts off is refused by `decryptBuffer` in its loop
    and by the stream in `flush()`.
  - `InflateInv`: a decompressing stream has released what the decompressor makes of the payload
    so far (`Restored`), which only grows with the payload (`RestoredGrows`): a limit crossed on the
    way is crossed by the whole, and the bytes pushed chunk by chunk add up.

### Only model-checked

* Liveness: `DeadlineAnswers`, `CapacityReturns`, `EndpointSettles`, `CloseSettles`,
  `CallAnswered`. The prover has no reasoning about fairness.
* `FragmentationInvisible` for the kinds `frames`, `pack`, `unpack`, `encode` and `decode`,
  and `ReleasedIsAuthentic` for `decompress`, `frames`, `unpack` and `decode`. There the reference is not
  another loop of the program but the definition of a format or a concatenation (folds over
  sequences, the grammar of MessagePack), and a proof needs a theory of those
  definitions that the library does not have.
* `RoundTrip`: it relates a reader to the writer through such a definition for most kinds,
  and for encryption through the lengths that the writer computes in advance.

## Not modelled

The components with status `not_modelled` in PROJECT.json: `binary.pack` and
`unpack` (one synchronous call of msgpackr around the frame check that
`FrameScanner` models as `WithinFrameLimits`), path containment (path strings and
file system metadata), validation and benchmark plugins (synchronous
pass-through), the typed pipeline (types), plugin capabilities (static checks, a
constant here), observability and error classes (no influence on control).

In the modelled ones:

* in the operation modules byte and frame limits are a nondeterministic failure;
  in `Transforms` they are exact;
* events, logging, tracing and metrics have no influence on control;
* failures of `unlink`/`rmdir` during cleanup, which the code ignores;
* a crash is the end of the process, not a loss of power (the code does not call fsync);
* of the stages of file operations everything but their promises and retries;
* of `stream.pack`/`unpack` the request lifecycle, which is that of `pipe` without
  plugins, and the Duplex that joins the two ends, which is Node's;
* in `Transforms` a Transform that has failed is fed no more, as Node does; the
  input of a tampered header keeps its shape (three fields), so parsing
  errors other than magic, size and order are one case;
* the two algorithms of a format (AES and ChaCha, gzip and brotli, hash lengths) are one.

`loadSchema`: two calls in flight are settled by the later answer; neither code nor
docs say which should win, so no property is stated (see the hazards).

## Plan

1. Done: engine table, binary operations, streams, failure sink and endpoints,
   file operations, worker pool, codecs and Transforms, KMS.
2. Done: the safety properties of all of these except the codecs, proved.
3. Done: of the codecs, `SecretsErased` and `NothingAfterDestroy` for every kind, and fragmentation for
   encryption, decryption, hashing and compression, and authenticity for decryption and
   verification, proved.
4. Open: a theory of the MessagePack grammar (`ValuesEnd`), from which `FragmentationInvisible` for
   `frames` and `unpack` would follow; `RoundTrip` for encryption.
