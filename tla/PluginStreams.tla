--------------------------- MODULE PluginStreams ----------------------------
(***************************************************************************)
(* The stream forms of HashingPlugin and CompressionPlugin                 *)
(* (src/plugin/hashing.ts, src/plugin/compression.ts) next to their buffer *)
(* forms, and the manifest and limit Transforms of pack and unpack         *)
(* (src/core/core.ts).  HMAC and zlib are external: a digest fits one      *)
(* text only, and a compressed stream is complete with its trailer only.   *)
(***************************************************************************)
EXTENDS Integers, Sequences, FrameScanner

StreamCreate == [total |-> 0, chunks |-> <<>>, sent |-> FALSE, out |-> <<>>, key |-> "none", failed |-> FALSE]

StreamError(st) == [st EXCEPT !.failed = TRUE]

Success(bytes) == [ok |-> TRUE, out |-> bytes]
Failure == [ok |-> FALSE, out |-> <<>>]

(***************************************************************************)
(* HashingPlugin.                                                          *)
(***************************************************************************)

DIGEST_LENGTH == 2
Digest(text) == <<[k |-> "hmac", text |-> text], [k |-> "pad"]>>

HashProcess(data, limits) ==
    IF Len(data) > limits.maxInputBytes \/ Len(data) > limits.maxOutputBytes - DIGEST_LENGTH
    THEN Failure ELSE Success(data \o Digest(data))

HashReverse(data, limits) ==
    LET size == Len(data) - DIGEST_LENGTH
        text == SubSeq(data, 1, size)
    IN  IF \/ Len(data) > limits.maxInputBytes
           \/ size < 0 \/ size > limits.maxOutputBytes
           \/ SubSeq(data, size + 1, Len(data)) # Digest(text)
        THEN Failure ELSE Success(text)

\* construct() fails when not even the digest fits.
SignCreate(limits) == [StreamCreate EXCEPT !.failed = limits.maxOutputBytes < DIGEST_LENGTH]

SignTransform(st, chunk, limits) ==
    IF \/ Len(chunk) > limits.maxInputBytes - st.total
       \/ Len(chunk) > limits.maxOutputBytes - DIGEST_LENGTH - st.total
    THEN StreamError(st)
    ELSE [st EXCEPT !.total = @ + Len(chunk), !.chunks = @ \o chunk, !.out = @ \o chunk]

SignFlush(st) == [st EXCEPT !.out = @ \o Digest(st.chunks), !.chunks = <<>>]

\* Nothing is released before the digest has been compared.
VerifyTransform(st, chunk, limits) ==
    IF Len(chunk) > limits.maxInputBytes - st.total THEN StreamError(st)
    ELSE [st EXCEPT !.total = @ + Len(chunk), !.chunks = @ \o chunk]

VerifyFlush(st, limits) ==
    LET size == Len(st.chunks) - DIGEST_LENGTH
        text == SubSeq(st.chunks, 1, size)
        drop == [st EXCEPT !.chunks = <<>>]
    IN  IF \/ size < 0 \/ size > limits.maxOutputBytes
           \/ SubSeq(st.chunks, size + 1, Len(st.chunks)) # Digest(text)
        THEN StreamError(drop) ELSE [drop EXCEPT !.out = text]

(***************************************************************************)
(* CompressionPlugin; type is "none" or "gzip" (brotli is treated alike).  *)
(***************************************************************************)

TypeByte(type) == <<[k |-> type]>>

Deflate(data, type) ==
    IF type = "none" THEN data
    ELSE [i \in 1 .. Len(data) |-> [k |-> "z", v |-> data[i]]] \o <<[k |-> "trailer"]>>

\* One byte of a compressed payload.
Inflate(out, byte) == IF byte.k = "z" THEN Append(out, byte.v) ELSE out

\* What a decompressor has produced from a prefix of its input.
Inflated(payload, type) ==
    LET out[n \in 0 .. Len(payload)] == IF n = 0 THEN <<>> ELSE Inflate(out[n - 1], payload[n])
    IN  IF type = "none" THEN payload ELSE out[Len(payload)]

WholePayload(payload, type) ==
    type = "none" \/ (payload # <<>> /\ payload[Len(payload)].k = "trailer")

CompressProcess(data, type, limits) ==
    IF \/ Len(data) > limits.maxInputBytes
       \/ 1 + Len(Deflate(data, type)) > limits.maxOutputBytes
       \/ type # "none" /\ limits.maxOutputBytes <= 1
    THEN Failure ELSE Success(TypeByte(type) \o Deflate(data, type))

CompressReverse(data, limits) ==
    LET type    == data[1].k
        payload == SubSeq(data, 2, Len(data))
    IN  IF \/ Len(data) > limits.maxInputBytes
           \/ data = <<>>
           \/ type \notin {"none", "gzip"}
           \/ ~WholePayload(payload, type)
           \/ Len(Inflated(payload, type)) > limits.maxOutputBytes
        THEN Failure ELSE Success(Inflated(payload, type))

\* buildByteLimitTransform behind the header: what passes is pushed.
PushWithin(st, bytes, limits) ==
    IF st.failed \/ Len(bytes) > limits.maxOutputBytes - Len(st.out) THEN StreamError(st)
    ELSE [st EXCEPT !.out = @ \o bytes]

\* prependHeader: the type byte precedes whatever comes first.
PrependHeader(st, type, limits) ==
    IF st.sent THEN st ELSE [PushWithin(st, TypeByte(type), limits) EXCEPT !.sent = TRUE]

\* The input limit, the compressor and the header; zlib keeps its input until
\* the end, a PassThrough nothing.
CompressTransform(st, chunk, type, limits) ==
    IF Len(chunk) > limits.maxInputBytes - st.total THEN StreamError(st)
    ELSE LET read == [st EXCEPT !.total = @ + Len(chunk)]
         IN  IF type = "none"
             THEN IF chunk = <<>> THEN read
                  ELSE PushWithin(PrependHeader(read, type, limits), chunk, limits)
             ELSE [read EXCEPT !.chunks = @ \o chunk]

CompressFlush(st, type, limits) ==
    LET headed == PrependHeader(st, type, limits)
    IN  IF type = "none" THEN headed ELSE PushWithin(headed, Deflate(st.chunks, type), limits)

\* The generator: the first byte selects the decompressor.  chunks is the
\* input so far.
DecompressTransform(st, chunk, limits) ==
    LET read == [st EXCEPT !.total = @ + Len(chunk), !.chunks = @ \o chunk]
        type == read.chunks[1].k
    IN  IF Len(chunk) > limits.maxInputBytes - st.total THEN StreamError(st)
        ELSE IF read.chunks = <<>> THEN read
        ELSE IF type \notin {"none", "gzip"} THEN StreamError(read)
        ELSE LET all == Inflated(SubSeq(read.chunks, 2, Len(read.chunks)), type)
             IN  PushWithin(read, SubSeq(all, Len(st.out) + 1, Len(all)), limits)

DecompressFlush(st) ==
    IF \/ st.chunks = <<>>
       \/ ~WholePayload(SubSeq(st.chunks, 2, Len(st.chunks)), st.chunks[1].k)
    THEN StreamError(st) ELSE st

(***************************************************************************)
(* stream.pack and stream.unpack.  A value is the bytes of its frame:      *)
(* msgpackr is external.                                                   *)
(***************************************************************************)

\* The frame of buildManifest([]).
Manifest == <<129, 2, 2>>

WithoutManifest(limits) == limits

\* engine.limits seen by the frame scanner: one more frame, the manifest.
WithManifest(limits) == [limits EXCEPT !.maxFrames = @ + 1]

PackCreate == [count |-> 0, sent |-> FALSE, total |-> 0, frame |-> FrameLimitCreate,
               out |-> <<>>, key |-> "none", failed |-> FALSE]

\* What the frame limit let through meets the output limit; out holds frames.
PackFrames(st, frame, total, limits) ==
    IF st.failed \/ frame.failed \/ total > limits.maxOutputBytes THEN StreamError(st)
    ELSE [st EXCEPT !.frame = [frame EXCEPT !.out = <<>>], !.total = total, !.out = @ \o frame.out]

PackBytes(st, bytes, limits) ==
    PackFrames(st, FrameLimitTransform([st.frame EXCEPT !.out = <<>>], bytes, WithManifest(limits)),
               st.total + Len(bytes), limits)

PackManifest(st, limits) ==
    IF st.sent THEN st ELSE [PackBytes(st, Manifest, limits) EXCEPT !.sent = TRUE]

\* One object: object limit, PackrStream, manifest header, frame limit.
PackTransform(st, value, limits) ==
    IF st.count >= limits.maxFrames THEN StreamError(st)
    ELSE PackBytes([PackManifest(st, limits) EXCEPT !.count = @ + 1], value, limits)

PackFlush(st, limits) == PackManifest(st, limits)

UnpackCreate == [total |-> 0, frame |-> FrameLimitCreate, seen |-> FALSE,
                 out |-> <<>>, key |-> "none", failed |-> FALSE]

\* buildManifestExtractTransform: only the first frame may be the manifest.
Extract(st, frame) ==
    IF ~st.seen /\ frame = Manifest THEN [st EXCEPT !.seen = TRUE]
    ELSE [st EXCEPT !.seen = TRUE, !.out = Append(@, frame)]

\* buildManifestExtractTransform, then buildObjectLimitTransform, for one frame.
DeliverFrame(st, frame, limits) ==
    LET next == Extract(st, frame)
    IN  IF st.failed THEN st ELSE IF Len(next.out) > limits.maxFrames THEN StreamError(st) ELSE next

Deliver(st, frames, limits) ==
    LET after[n \in 0 .. Len(frames)] ==
            IF n = 0 THEN st ELSE DeliverFrame(after[n - 1], frames[n], limits)
    IN  after[Len(frames)]

\* The frames reach UnpackrStream, the manifest extractor and the object limit.
UnpackFrames(st, frame, limits) ==
    IF frame.failed THEN StreamError(st)
    ELSE Deliver([st EXCEPT !.frame = [frame EXCEPT !.out = <<>>]], frame.out, limits)

\* Byte limit, then frame limit.
UnpackTransform(st, chunk, limits) ==
    IF Len(chunk) > limits.maxInputBytes - st.total THEN StreamError(st)
    ELSE UnpackFrames([st EXCEPT !.total = @ + Len(chunk)],
                      FrameLimitTransform([st.frame EXCEPT !.out = <<>>], chunk, WithManifest(limits)), limits)

UnpackFlush(st) == IF Finished(st.frame.scanner) THEN st ELSE StreamError(st)
=============================================================================
