--------------------------- MODULE FileOperations ---------------------------
(***************************************************************************)
(* engine.file.process(), reverse(), pack() and unpack(): FileController   *)
(* runs a pipeline from an input file into a temporary file and renames it *)
(* over the output path (secureFiles.ts).                                  *)
(*                                                                         *)
(* All operations write the same output path.  Its directory entry names   *)
(* the previous file (Old) or the file an operation created, so that a     *)
(* write that lands after the rename would be seen in the published file.  *)
(* Reads and writes are native calls that complete at any time, writes     *)
(* possibly short, and that nothing can cancel.  The process may crash     *)
(* between any two steps.                                                  *)
(*                                                                         *)
(* The stages between input and output pass bytes on unchanged or fail.    *)
(* Of what happens inside them, the subject of StreamOperations, only what *)
(* the request table sees is kept: a stage has at most one tracked promise,*)
(* and a wrapped plugin may be called again when it rejects, also after    *)
(* the pipeline or the operation is gone.  Their order, the number of the  *)
(* attempts that are left and the failure sink are not kept.               *)
(***************************************************************************)
EXTENDS DataEngine

CONSTANTS
    WithDeadline,  \* the operations called with a positive timeoutMs
    Native,        \* plugins that bring their own createStream
    Size,          \* bound: bytes of every input file
    Old            \* the file the output path names at first

ASSUME FileAssumption ==
    /\ WithDeadline \subseteq Requests
    /\ Native \subseteq PluginIds
    /\ Size \in Nat
    /\ Old \notin Requests

VARIABLES
    pc,        \* where each operation is
    signal,    \* "live", "expired" or "aborted", as in BinaryOperations
    chain,     \* the plugins of the operation; none for pack and unpack
    retrying,  \* retrying[o]: stages about to start their next attempt
    fetched,   \* bytes of the input passed on by the source
    eof,       \* operations whose source has ended
    reading,   \* operations with a native read in flight
    writing,   \* operations with a native write in flight
    chunk,     \* bytes of the chunk being written that are not yet written
    handles,   \* operations whose descriptors are open
    disposed,  \* operations whose session is disposed
    committed, \* operations whose session is committed
    waits,     \* waits[o]: the native calls dispose() waits for
    dirs,      \* temporary directories that exist
    files,     \* temporary entries that exist
    size,      \* size[o]: bytes in the file that o created
    output,    \* the file at the output path
    windows,   \* process.platform === 'win32'
    crashed    \* the process has ended

stageVars   == <<chain, retrying>>
ioVars      == <<fetched, eof, reading, writing, chunk>>
pipeVars    == <<stageVars, ioVars>>
sessionVars == <<handles, disposed, committed, waits>>
diskVars    == <<dirs, files, size, output>>
host        == <<windows, crashed>>
fileVars    == <<pc, signal, pipeVars, sessionVars, diskVars, host>>
vars        == <<engineVars, fileVars>>

(***************************************************************************)
(* pc: "streaming" while pipeline() is pending, "broken" when it has       *)
(* destroyed its streams, "ran" when it has resolved; "disposing" until    *)
(* the native calls are done; then as in StreamOperations.                 *)
(***************************************************************************)
Running  == {"streaming", "broken", "ran", "disposing",
             "finish", "auditing", "audited", "failing"}
Settling == {"refused", "ok", "failed"}

Init ==
    /\ EngineInit
    /\ pc        = [o \in Requests |-> "idle"]
    /\ signal    = [o \in Requests |-> "live"]
    /\ chain     = [o \in Requests |-> <<>>]
    /\ retrying  = [o \in Requests |-> {}]
    /\ fetched   = [o \in Requests |-> 0]
    /\ eof       = {}
    /\ reading   = {}
    /\ writing   = {}
    /\ chunk     = [o \in Requests |-> 0]
    /\ handles   = {}
    /\ disposed  = {}
    /\ committed = {}
    /\ waits     = [o \in Requests |-> {}]
    /\ dirs      = {}
    /\ files     = {}
    /\ size      = [o \in Requests |-> 0]
    /\ output    = Old
    /\ windows  \in BOOLEAN
    /\ crashed   = FALSE

Live(o) == signal[o] = "live"
Goto(o, to) == pc' = [pc EXCEPT ![o] = to]

\* The streams are destroyed, unless they are already.
Break(o) == pc' = [pc EXCEPT ![o] = IF @ = "streaming" THEN "broken" ELSE @]

\* Promise 1 of a request is that of the audit, promise k + 1 of its k-th stage.
AuditWork == 1
StagesOf(o) == 1 .. Len(chain[o])
IsNative(o, k) == chain[o][k] \in Native

(***************************************************************************)
(* The session: openAtomicFileSession, commit and dispose.                 *)
(***************************************************************************)

CleanupPosixDirectoryFirst(o, opened, d, f) ==
    /\ dirs'  = IF o \in f THEN d ELSE d \ {o}
    /\ files' = IF opened /\ o \notin committed THEN f \ {o} ELSE f

\* cleanup(): the temporary entry is unlinked unless it was renamed; the
\* directory can only be removed when it is empty.
CleanupPosix(o, opened, d, f) ==
    /\ files' = IF opened /\ o \notin committed THEN f \ {o} ELSE f
    /\ dirs'  = IF o \in files' THEN d ELSE d \ {o}

\* Windows has no private directory; the handle marks its file for deletion.
CleanupWindows(o, f) ==
    /\ files' = IF o \in committed THEN f ELSE f \ {o}
    /\ UNCHANGED dirs

\* The acquisitions before any file is created may fail (made = 0), as may
\* each of mkdir, opening the private directory (2) and creating the data
\* file (3, when only a check of the new descriptor fails).
OpenPosix(o) ==
    \E made \in 0 .. 4 :
        LET d == IF made >= 1 THEN dirs \cup {o} ELSE dirs
            f == IF made >= 3 THEN files \cup {o} ELSE files
        IN  IF made = 4
            THEN /\ dirs' = d /\ files' = f
                 /\ handles' = handles \cup {o}
                 /\ Goto(o, "streaming")
            ELSE /\ CleanupPosix(o, made >= 2, d, f)
                 /\ UNCHANGED handles
                 /\ Goto(o, "failing")

\* As OpenPosix, with one creation (made = 1 when its inspection fails).
OpenWindows(o) ==
    \E made \in 0 .. 2 :
        LET f == IF made >= 1 THEN files \cup {o} ELSE files
        IN  IF made = 2
            THEN /\ files' = f /\ UNCHANGED dirs
                 /\ handles' = handles \cup {o}
                 /\ Goto(o, "streaming")
            ELSE /\ CleanupWindows(o, f)
                 /\ UNCHANGED handles
                 /\ Goto(o, "failing")

\* commit(): the temporary entry becomes the output file.
Rename(o) ==
    /\ o \notin disposed \cup committed
    /\ output' = o
    /\ files' = files \ {o}
    /\ committed' = committed \cup {o}

DisposeWithoutWaiting(o) ==
    /\ disposed' = disposed \cup {o}
    /\ waits' = [waits EXCEPT ![o] = {}]
    /\ Goto(o, "disposing")

\* dispose() up to its await: the streams are destroyed and the native calls
\* in flight are noted.
Dispose(o) ==
    /\ disposed' = disposed \cup {o}
    /\ waits' = [waits EXCEPT ![o] = {call \in {"read", "write"} :
                     o \in IF call = "read" THEN reading ELSE writing}]
    /\ Goto(o, "disposing")

(***************************************************************************)
(* The operation.                                                          *)
(***************************************************************************)

\* throwIfAborted or startRequest throws.
Refuse(o) ==
    /\ pc[o] = "idle"
    /\ ~Live(o) \/ ~MayStart
    /\ Goto(o, "refused")
    /\ UNCHANGED <<engineVars, signal, pipeVars, sessionVars, diskVars, host>>

\* The request starts, a global schema is refused, and the session is opened.
\* The configuration is stable until the chain is built.
Call(o, hasSchema) ==
    /\ pc[o] = "idle"
    /\ Live(o)
    /\ MayStart
    /\ StartRequest(o)
    /\ IF hasSchema
       THEN Goto(o, "failing") /\ UNCHANGED <<handles, dirs, files>>
       ELSE IF windows THEN OpenWindows(o) ELSE OpenPosix(o)
    /\ \E stages \in {plugins, <<>>} : chain' = [chain EXCEPT ![o] = stages]
    /\ UNCHANGED <<configVars, signal, retrying, ioVars, disposed, committed, waits,
                   size, output, host>>

\* A stage fails, gives up at its deadline or exceeds a byte limit: pipeline()
\* destroys all streams.
StageFails(o) ==
    /\ pc[o] = "streaming"
    /\ Goto(o, "broken")
    /\ UNCHANGED <<engineVars, signal, pipeVars, sessionVars, diskVars, host>>

\* pipeline() resolves when no stage is at work and the last byte is written.
PipelineResolves(o) ==
    /\ pc[o] = "streaming"
    /\ pending[o] = {} /\ retrying[o] = {}
    /\ o \in eof
    /\ chunk[o] = 0
    /\ size[o] = fetched[o]
    /\ Goto(o, "ran")
    /\ UNCHANGED <<engineVars, signal, pipeVars, sessionVars, diskVars, host>>

\* pipeline() rejects: the finally block of withAtomicOutput disposes.
PipelineRejects(o) ==
    /\ pc[o] = "broken"
    /\ Dispose(o)
    /\ UNCHANGED <<engineVars, signal, pipeVars, handles, committed, diskVars, host>>

FinishWithoutCheck(o) ==
    /\ pc[o] \in {"ran", "broken"}
    /\ Rename(o)
    /\ Dispose(o)
    /\ UNCHANGED <<engineVars, signal, pipeVars, handles, dirs, size, host>>

\* throwIfAborted and commit(), either of which may throw; then dispose.
Finish(o) ==
    /\ pc[o] = "ran"
    /\ (Live(o) /\ Rename(o)) \/ UNCHANGED <<output, files, committed>>
    /\ Dispose(o)
    /\ UNCHANGED <<engineVars, signal, pipeVars, handles, dirs, size, host>>

CleanupAsSuccess(o) ==
    /\ pc[o] = "disposing"
    /\ waits[o] = {} \/ o \notin reading \cup writing
    /\ IF windows THEN CleanupWindows(o, files) ELSE CleanupPosix(o, TRUE, dirs, files)
    /\ handles' = handles \ {o}
    /\ Goto(o, "finish")
    /\ UNCHANGED <<engineVars, signal, pipeVars, disposed, committed, waits,
                   size, output, host>>

\* The rest of dispose() once the native calls it noted are done.
Cleanup(o) ==
    /\ pc[o] = "disposing"
    /\ "read" \in waits[o] => o \notin reading
    /\ "write" \in waits[o] => o \notin writing
    /\ IF windows THEN CleanupWindows(o, files) ELSE CleanupPosix(o, TRUE, dirs, files)
    /\ handles' = handles \ {o}
    /\ Goto(o, IF o \in committed THEN "finish" ELSE "failing")
    /\ UNCHANGED <<engineVars, signal, pipeVars, disposed, committed, waits,
                   size, output, host>>

\* The audit record is handed over and its promise tracked.
Audit(o) ==
    /\ pc[o] = "finish"
    /\ TrackWork(o, AuditWork)
    /\ Goto(o, IF Live(o) THEN "auditing" ELSE "failing")
    /\ UNCHANGED <<configVars, signal, pipeVars, sessionVars, diskVars, host>>

\* throwIfAborted, then endRequest.
Complete(o) ==
    /\ pc[o] = "audited"
    /\ IF Live(o) THEN ReleaseRequest(o) /\ Goto(o, "ok")
       ELSE Goto(o, "failing") /\ UNCHANGED tableVars
    /\ UNCHANGED <<configVars, signal, pipeVars, sessionVars, diskVars, host>>

\* emitError, then the caller sees the rejection.
Fail(o) ==
    /\ pc[o] = "failing"
    /\ ReleaseRequest(o)
    /\ Goto(o, "failed")
    /\ UNCHANGED <<configVars, signal, pipeVars, sessionVars, diskVars, host>>

(***************************************************************************)
(* The plugins of a stage.                                                 *)
(***************************************************************************)

\* The k-th stage calls its plugin for bytes that are on their way.  A retry
\* option beyond the limit makes it fail instead.
StageCalls(o, k) ==
    /\ pc[o] = "streaming"
    /\ k \notin retrying[o] /\ k + 1 \notin pending[o]
    /\ size[o] + chunk[o] < fetched[o]
    /\ IsNative(o, k) \/ (Live(o) /\ Attempts[chain[o][k]] <= limits.maxRetryAttempts)
    /\ TrackWork(o, k + 1)
    /\ UNCHANGED <<configVars, pc, signal, pipeVars, sessionVars, diskVars, host>>

\* The promise of a stage settles: the stage goes on, tries again, or fails.
StageSettles(o, k, fulfilled) ==
    /\ k + 1 \in pending[o]
    /\ Settled(o, k + 1)
    /\ \/ fulfilled /\ (Live(o) \/ IsNative(o, k)) /\ UNCHANGED <<pc, retrying>>
       \/ /\ ~fulfilled /\ Live(o) /\ ~IsNative(o, k) /\ Attempts[chain[o][k]] > 1
          /\ retrying' = [retrying EXCEPT ![o] = @ \cup {k}]
          /\ UNCHANGED pc
       \/ /\ ~fulfilled \/ (~Live(o) /\ ~IsNative(o, k))
          /\ Break(o)
          /\ UNCHANGED retrying
    /\ UNCHANGED <<configVars, signal, chain, ioVars, sessionVars, diskVars, host>>

\* The next attempt of withRetry, at once or after the back-off: it asks for
\* the signal only, not whether its stage still exists.
StageRetries(o, k) ==
    /\ k \in retrying[o]
    /\ retrying' = [retrying EXCEPT ![o] = @ \ {k}]
    /\ IF Live(o) THEN TrackWork(o, k + 1) /\ UNCHANGED pc ELSE Break(o) /\ UNCHANGED tableVars
    /\ UNCHANGED <<configVars, signal, chain, ioVars, sessionVars, diskVars, host>>

(***************************************************************************)
(* Native I/O.                                                             *)
(***************************************************************************)

\* source.read(): at most one read is in flight, none once it is destroyed.
Read(o) ==
    /\ pc[o] = "streaming"
    /\ o \notin eof \cup reading
    /\ reading' = reading \cup {o}
    /\ UNCHANGED <<engineVars, pc, signal, stageVars, fetched, eof, writing, chunk,
                   sessionVars, diskVars, host>>

\* A read completes with count bytes or an error; the result of a read that
\* outlived its stream is dropped.
ReadDone(o) ==
    /\ o \in reading
    /\ reading' = reading \ {o}
    /\ \/ /\ pc[o] = "streaming"
          /\ \E count \in 0 .. Size - fetched[o] :
                /\ count = 0 => fetched[o] = Size
                /\ fetched' = [fetched EXCEPT ![o] = @ + count]
                /\ eof' = IF count = 0 THEN eof \cup {o} ELSE eof
          /\ UNCHANGED pc
       \/ pc[o] = "streaming" /\ Goto(o, "broken") /\ UNCHANGED <<fetched, eof>>
       \/ pc[o] # "streaming" /\ UNCHANGED <<pc, fetched, eof>>
    /\ UNCHANGED <<engineVars, signal, stageVars, writing, chunk, sessionVars, diskVars, host>>

\* destination.write(bytes): the first native write of the loop starts.
Write(o, bytes) ==
    /\ pc[o] = "streaming"
    /\ chunk[o] = 0
    /\ chunk' = [chunk EXCEPT ![o] = bytes]
    /\ writing' = writing \cup {o}
    /\ UNCHANGED <<engineVars, pc, signal, stageVars, fetched, eof, reading,
                   sessionVars, diskVars, host>>

WriteDoneIgnoringShort(o) ==
    /\ o \in writing
    /\ \E count \in 1 .. chunk[o] :
          /\ size' = [size EXCEPT ![o] = @ + count]
          /\ fetched' = [fetched EXCEPT ![o] = @ - (chunk[o] - count)]
    /\ chunk' = [chunk EXCEPT ![o] = 0]
    /\ writing' = writing \ {o}
    /\ UNCHANGED <<engineVars, pc, signal, stageVars, eof, reading, sessionVars,
                   dirs, files, output, host>>

\* A write completes: the loop writes the rest of a short write unless the
\* session was disposed.  An error or a write of nothing breaks the stream.
WriteDone(o) ==
    /\ o \in writing
    /\ \/ \E count \in 1 .. chunk[o] :
             LET again == count < chunk[o] /\ o \notin disposed
             IN  /\ size' = [size EXCEPT ![o] = @ + count]
                 /\ chunk' = [chunk EXCEPT ![o] = IF again THEN @ - count ELSE 0]
                 /\ writing' = IF again THEN writing ELSE writing \ {o}
                 /\ UNCHANGED pc
       \/ /\ chunk' = [chunk EXCEPT ![o] = 0]
          /\ writing' = writing \ {o}
          /\ IF pc[o] = "streaming" THEN Goto(o, "broken") ELSE UNCHANGED pc
          /\ UNCHANGED size
    /\ UNCHANGED <<engineVars, signal, stageVars, fetched, eof, reading, sessionVars,
                   dirs, files, output, host>>

(***************************************************************************)
(* Promises, aborts, deadlines and crashes.                                *)
(***************************************************************************)

\* The audit promise settles.
AuditSettles(o, fulfilled) ==
    /\ AuditWork \in pending[o]
    /\ Settled(o, AuditWork)
    /\ IF pc[o] = "auditing"
       THEN Goto(o, IF fulfilled /\ Live(o) THEN "audited" ELSE "failing")
       ELSE UNCHANGED pc
    /\ UNCHANGED <<configVars, signal, pipeVars, sessionVars, diskVars, host>>

AbortNotHeard(o) ==
    /\ pc[o] \notin Settling
    /\ signal[o] # "aborted"
    /\ signal' = [signal EXCEPT ![o] = "aborted"]
    /\ UNCHANGED <<engineVars, pc, pipeVars, sessionVars, diskVars, host>>

\* The caller aborts or the deadline's abort event is delivered.
Abort(o) ==
    /\ pc[o] \notin Settling
    /\ signal[o] # "aborted"
    /\ signal' = [signal EXCEPT ![o] = "aborted"]
    /\ Goto(o, CASE pc[o] = "streaming" -> "broken"
                 [] pc[o] = "auditing"  -> "failing"
                 [] OTHER               -> pc[o])
    /\ UNCHANGED <<engineVars, pipeVars, sessionVars, diskVars, host>>

\* The clock passes the deadline.
Expire(o) ==
    /\ o \in WithDeadline
    /\ pc[o] \in Running
    /\ Live(o)
    /\ signal' = [signal EXCEPT ![o] = "expired"]
    /\ UNCHANGED <<engineVars, pc, pipeVars, sessionVars, diskVars, host>>

DeadlineFires(o) == signal[o] = "expired" /\ Abort(o)

\* The process ends; the operating system closes its descriptors.
Crash ==
    /\ crashed' = TRUE
    /\ handles' = {} /\ reading' = {} /\ writing' = {}
    /\ UNCHANGED <<engineVars, pc, signal, stageVars, fetched, eof, chunk, disposed, committed,
                   waits, diskVars, windows>>

(***************************************************************************)
(* Specification.                                                          *)
(***************************************************************************)

Configure ==
    /\ \/ \E p \in PluginIds : Use(p)
       \/ \E l \in LimitChoices : SetLimits(l)
    /\ UNCHANGED fileVars

Advance(o) ==
    \/ PipelineResolves(o) \/ PipelineRejects(o) \/ Finish(o) \/ Cleanup(o)
    \/ Audit(o) \/ Complete(o) \/ Fail(o)

StageStep(o, k) ==
    \/ StageCalls(o, k) \/ StageRetries(o, k)
    \/ \E fulfilled \in BOOLEAN : StageSettles(o, k, fulfilled)

NativeCall(o) == ReadDone(o) \/ WriteDone(o)

Next ==
    /\ ~crashed
    /\ \/ Configure
       \/ Crash
       \/ \E o \in Requests, hasSchema \in BOOLEAN : Call(o, hasSchema)
       \/ \E o \in Requests :
             \/ Refuse(o) \/ Advance(o) \/ StageFails(o) \/ Read(o) \/ NativeCall(o)
             \/ Abort(o) \/ Expire(o)
             \/ \E bytes \in 1 .. fetched[o] - size[o] : Write(o, bytes)
             \/ \E fulfilled \in BOOLEAN : AuditSettles(o, fulfilled)
             \/ \E k \in StagesOf(o) : StageStep(o, k)

Spec == Init /\ [][Next]_vars

\* The event loop runs continuations and timers and native calls complete;
\* the stages and the audit logger may stall.
Fairness ==
    \A o \in Requests :
        /\ WF_vars(~crashed /\ Advance(o)) /\ WF_vars(~crashed /\ NativeCall(o))
        /\ WF_vars(~crashed /\ Expire(o)) /\ WF_vars(~crashed /\ DeadlineFires(o))

LiveSpec == Spec /\ Fairness

(***************************************************************************)
(* Properties.                                                             *)
(***************************************************************************)

TypeOK ==
    /\ EngineTypeOK
    /\ pc \in [Requests -> {"idle"} \cup Running \cup Settling]
    /\ signal \in [Requests -> {"live", "expired", "aborted"}]
    /\ chain \in [Requests -> Seq(PluginIds)]
    /\ retrying \in [Requests -> SUBSET (Nat \ {0})]
    /\ fetched \in [Requests -> 0 .. Size]
    /\ chunk \in [Requests -> 0 .. Size]
    /\ size \in [Requests -> 0 .. Size]
    /\ waits \in [Requests -> SUBSET {"read", "write"}]
    /\ UNION {eof, reading, writing, handles, disposed, committed, dirs, files}
          \subseteq Requests
    /\ output \in Requests \cup {Old}
    /\ windows \in BOOLEAN
    /\ crashed \in BOOLEAN

\* A reader of the output path sees the previous file or a complete result,
\* at every moment and also after a crash (commit, the write loop).
OutputIsWhole == output = Old \/ size[output] = Size

\* No native call uses a descriptor that was closed: dispose() waits for the
\* calls in flight and no call starts afterwards.
NoCallAfterClose == reading \cup writing \subseteq handles

\* When the caller is answered the descriptors are closed and the temporary
\* file and directory are gone, whatever failed on the way (cleanup).
NothingLeftBehind ==
    ~crashed => \A o \in Requests : pc[o] \in {"failing", "finish"} \cup Settling =>
        o \notin UNION {handles, files, dirs}

\* Capacity is held by running operations, or by answered ones with unsettled
\* promises: a plugin that outlives a failed pipeline, the disposal and the
\* answer leaks none (releaseRequest, trackWork).
CapacityAccounted ==
    \A o \in active : pc[o] \in Running \/ (o \in finished /\ pending[o] # {})

\* The operation succeeds only with its result in place and its capacity
\* returned (withAtomicOutput, endRequest).
SuccessIsCommitted ==
    \A o \in Requests : pc[o] = "ok" =>
        o \in committed /\ size[o] = Size /\ pending[o] = {} /\ o \notin active

\* An operation with a deadline is answered although a stage or the audit
\* logger never answers, as long as native calls complete.
DeadlineAnswers ==
    \A o \in WithDeadline : pc[o] \in Running ~> (pc[o] \in Settling \/ crashed)

\* File operations implement AtomicReplace.
Replacement == INSTANCE AtomicReplace WITH
    Result  <- LAMBDA o : <<o, Size>>,
    content <- IF output = Old THEN Old ELSE <<output, size[output]>>,
    open    <- {o \in Requests : o \notin committed /\ pc[o] \notin {"failing"} \cup Settling}

ReplaceContract == Replacement!Spec
=============================================================================
