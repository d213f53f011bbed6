--------------------------- MODULE WorkerFraming ----------------------------
(***************************************************************************)
(* The PXWK stream of WorkerPoolPlugin.createStream (src/plugin/worker.ts): *)
(* a magic, one length-prefixed record per task, an end marker.  Every     *)
(* record is the result of one task of the pool, and transform() is        *)
(* suspended while a task runs; the stream may be destroyed meanwhile.     *)
(*                                                                         *)
(* `rest` is what is left of the chunk at hand; `busy` while a task with   *)
(* input `task` runs.  `aborted` is the signal of the stream.  Magic and   *)
(* length fields are two bytes here, five and four in the code.            *)
(***************************************************************************)
EXTENDS Integers, Sequences, FiniteSetsExt

WorkerMagic == <<[k |-> "PXWK"], [k |-> "version"]>>
EndMarker   == <<[k |-> "end"], [k |-> "pad"]>>
LengthField(n) == <<[k |-> "length", n |-> n], [k |-> "pad"]>>

WorkerCreate ==
    [inputBytes |-> 0, outputBytes |-> 0, frames |-> 0, started |-> FALSE, ended |-> FALSE,
     header |-> <<>>, hasPayload |-> FALSE, length |-> 0, payload |-> <<>>,
     rest |-> <<>>, busy |-> FALSE, task |-> <<>>, aborted |-> FALSE,
     out |-> <<>>, key |-> "none", failed |-> FALSE]

WorkerError(st) == [st EXCEPT !.failed = TRUE, !.rest = <<>>]

\* emit: the aggregate output limit.
Emit(st, bytes, limits) ==
    IF st.failed \/ Len(bytes) > limits.maxOutputBytes - st.outputBytes THEN WorkerError(st)
    ELSE [st EXCEPT !.outputBytes = @ + Len(bytes), !.out = @ \o bytes]

\* The first half of run(): a task is handed to the pool.
StartTask(st, data, limits) ==
    IF st.frames + 1 > limits.maxFrames THEN WorkerError(st)
    ELSE [st EXCEPT !.frames = @ + 1, !.busy = TRUE, !.task = data]

(***************************************************************************)
(* Forward: each chunk is cut into tasks.                                  *)
(***************************************************************************)

EncodeNext(st, limits) ==
    IF st.rest = <<>> \/ st.failed THEN st
    ELSE LET size == Min({limits.maxFrameBytes, Len(st.rest)})
         IN  StartTask([st EXCEPT !.rest = SubSeq(st.rest, size + 1, Len(st.rest))],
                       SubSeq(st.rest, 1, size), limits)

EncodeTransform(st, chunk, limits) ==
    IF st.aborted \/ Len(chunk) > limits.maxInputBytes - st.inputBytes THEN WorkerError(st)
    ELSE LET read == [st EXCEPT !.inputBytes = @ + Len(chunk), !.rest = chunk]
         IN  EncodeNext(IF read.started THEN read
                        ELSE [Emit(read, WorkerMagic, limits) EXCEPT !.started = TRUE], limits)

\* The second half of run() and the rest of transform().
EncodeResume(st, output, limits) ==
    LET idle == [st EXCEPT !.busy = FALSE, !.task = <<>>]
    IN  IF st.aborted \/ Len(output) > limits.maxFrameBytes THEN WorkerError(idle)
        ELSE EncodeNext(Emit(Emit(idle, LengthField(Len(output)), limits), output, limits), limits)

EncodeFlush(st, limits) ==
    IF st.aborted THEN WorkerError(st)
    ELSE Emit(IF st.started THEN st ELSE Emit(st, WorkerMagic, limits), EndMarker, limits)

(***************************************************************************)
(* Reverse: records are put together from chunks of any size.              *)
(***************************************************************************)

\* The header at hand is complete: magic, end marker or length.
ReadWorkerHeader(st, header, limits) ==
    IF ~st.started
    THEN IF header = WorkerMagic THEN [st EXCEPT !.started = TRUE, !.header = <<>>] ELSE WorkerError(st)
    ELSE IF header = EndMarker THEN [st EXCEPT !.ended = TRUE, !.header = <<>>]
    ELSE IF header[1].k # "length" \/ header[1].n \notin 0 .. limits.maxFrameBytes THEN WorkerError(st)
    ELSE [st EXCEPT !.header = <<>>, !.hasPayload = TRUE, !.length = header[1].n, !.payload = <<>>]

\* Payload bytes are copied; a complete record becomes a task.
ReadPayload(st, limits) ==
    LET count == Min({st.length - Len(st.payload), Len(st.rest)})
        read  == [st EXCEPT !.payload = @ \o SubSeq(st.rest, 1, count),
                            !.rest = SubSeq(st.rest, count + 1, Len(st.rest))]
    IN  IF Len(read.payload) = st.length THEN StartTask(read, read.payload, limits) ELSE read

\* One turn of the loop of transform().
DecodeTurn(st, limits) ==
    IF st.rest = <<>> \/ st.failed \/ st.busy THEN st
    ELSE IF st.ended THEN WorkerError(st)
    ELSE IF st.hasPayload THEN ReadPayload(st, limits)
    ELSE LET count  == Min({2 - Len(st.header), Len(st.rest)})
             header == st.header \o SubSeq(st.rest, 1, count)
             read   == [st EXCEPT !.rest = SubSeq(st.rest, count + 1, Len(st.rest))]
             after  == ReadWorkerHeader(read, header, limits)
         IN  IF Len(header) < 2 THEN [read EXCEPT !.header = header]
             ELSE IF after.hasPayload /\ ~after.failed THEN ReadPayload(after, limits) ELSE after

\* The loop up to the next await; a turn uses at least one byte of the chunk.
DecodeNext(st, limits) ==
    LET turn[n \in 0 .. Len(st.rest)] == IF n = 0 THEN st ELSE DecodeTurn(turn[n - 1], limits)
    IN  turn[Len(st.rest)]

DecodeTransform(st, chunk, limits) ==
    IF st.aborted \/ Len(chunk) > limits.maxInputBytes - st.inputBytes THEN WorkerError(st)
    ELSE DecodeNext([st EXCEPT !.inputBytes = @ + Len(chunk), !.rest = chunk], limits)

DecodeResumeUnchecked(st, output, limits) ==
    LET idle == [st EXCEPT !.busy = FALSE, !.task = <<>>, !.hasPayload = FALSE, !.payload = <<>>]
    IN  DecodeNext(Emit(idle, output, limits), limits)

DecodeResume(st, output, limits) ==
    LET idle == [st EXCEPT !.busy = FALSE, !.task = <<>>, !.hasPayload = FALSE, !.payload = <<>>]
    IN  IF st.aborted \/ Len(output) > limits.maxFrameBytes THEN WorkerError(idle)
        ELSE DecodeNext(Emit(idle, output, limits), limits)

DecodeFlush(st) ==
    IF st.aborted \/ ~st.ended \/ st.hasPayload \/ st.header # <<>> THEN WorkerError(st) ELSE st

\* destroy(): the signal of the stream aborts, and with it the task.
WorkerDestroy(st) == [st EXCEPT !.aborted = TRUE, !.hasPayload = FALSE, !.payload = <<>>]
=============================================================================
