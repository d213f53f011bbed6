----------------------------- MODULE Transforms -----------------------------
(***************************************************************************)
(* One incremental Transform of PipeX and the stream that feeds it.  Node  *)
(* delivers the input in chunks of any size, then flush(); the stream may  *)
(* be destroyed, or its signal aborted, at any time.  A case is a kind of  *)
(* Transform with its options, the engine limits and the input.            *)
(*                                                                         *)
(* The question for every kind is the same: does anybody see where the     *)
(* chunks ended?  The answer is measured against the buffer form of the    *)
(* same code, or against a definition of the format on whole inputs.       *)
(***************************************************************************)
EXTENDS AeadFrames, WorkerFraming, PluginStreams, SequencesExt

CONSTANT Cases   \* records with the fields kind, option, limits, input,
                 \* original (what a reader should see) and honest (the input
                 \* was written by PipeX under the same limits)

Kinds    == {"encrypt", "decrypt", "sign", "verify", "compress", "decompress",
             "frames", "pack", "unpack", "encode", "decode"}
Worker   == {"encode", "decode"}
Decoders == {"decrypt", "verify", "decompress", "frames", "unpack", "decode"}

\* The tag of a frame that a writer made from the original under this header.
WrittenTag(tag, header, original) ==
    LET size == header[3].size
        type == tag.aad[4].type
        j    == tag.aad[5].sequence
    IN  \/ /\ type = DATA_FRAME
           /\ tag.text = SubSeq(original, j * size + 1, Min({Len(original), (j + 1) * size}))
        \/ /\ type = FINAL_FRAME
           /\ tag.text = <<>> /\ j = DataFrameCount(Len(original), size)

\* AEAD and HMAC cannot be forged: a tag under the header of the input was made
\* for a frame of the original, and a digest for the original.  Tags under
\* another header (another salt, another key) may belong to anything.
Unforged(c) ==
    LET header == Take(c.input, GLOBAL_HEADER_LENGTH)
    IN  \A i \in DOMAIN c.input :
            /\ c.input[i].k = "tag" /\ Take(c.input[i].aad, GLOBAL_HEADER_LENGTH) = header
                  => WrittenTag(c.input[i], header, c.original)
            /\ c.input[i].k \in {"legacy tag", "hmac"} => c.input[i].text = c.original

\* Limits are positive (setLimits), and so is a frame size (resolveFrameSize).
ASSUME CaseAssumption ==
    \A c \in Cases :
        /\ c.kind \in Kinds
        /\ c.limits \in [maxInputBytes : Nat \ {0}, maxOutputBytes : Nat \ {0},
                         maxFrameBytes : Nat \ {0}, maxFrames : Nat \ {0}]
        /\ c.input \in Seq(Range(c.input))
        /\ c.kind = "encrypt" => c.option \in Nat \ {0}
        /\ c.kind \in {"decrypt", "verify"} => c.original \in Seq(Range(c.original)) /\ Unforged(c)

VARIABLES
    case,   \* the case at hand
    taken,  \* number of bytes (objects for "pack") delivered
    st,     \* the local variables of the Transform
    phase,  \* "open", "ok", "failed" or "destroyed"
    tasks,  \* worker kinds: inputs of the tasks that returned
    fault   \* a task was rejected or the signal aborted

vars == <<case, taken, st, phase, tasks, fault>>

\* pluginInputLimit: a plugin also reads what the plugin before it wrote.
PluginLimits(limits) ==
    [limits EXCEPT !.maxInputBytes = Max({limits.maxInputBytes, limits.maxOutputBytes})]

Create(c) ==
    LET limits == PluginLimits(c.limits)
    IN  CASE c.kind = "encrypt" -> EncryptCreate(c.option, "salt", limits)
          [] c.kind = "decrypt" -> DecryptCreate
          [] c.kind = "sign"    -> SignCreate(limits)
          [] c.kind \in {"verify", "compress", "decompress"} -> StreamCreate
          [] c.kind = "frames"  -> FrameLimitCreate
          [] c.kind = "pack"    -> PackCreate
          [] c.kind = "unpack"  -> UnpackCreate
          [] c.kind \in Worker  -> WorkerCreate

Transform(c, s, chunk) ==
    LET limits == PluginLimits(c.limits)
    IN  CASE c.kind = "encrypt"    -> EncryptTransform(s, chunk, limits)
          [] c.kind = "decrypt"    -> DecryptTransform(s, chunk, c.option, limits)
          [] c.kind = "sign"       -> SignTransform(s, chunk, limits)
          [] c.kind = "verify"     -> VerifyTransform(s, chunk, limits)
          [] c.kind = "compress"   -> CompressTransform(s, chunk, c.option, limits)
          [] c.kind = "decompress" -> DecompressTransform(s, chunk, limits)
          [] c.kind = "frames"     -> FrameLimitTransform(s, chunk, c.limits)
          [] c.kind = "pack"       -> PackTransform(s, chunk[1], c.limits)
          [] c.kind = "unpack"     -> UnpackTransform(s, chunk, c.limits)
          [] c.kind = "encode"     -> EncodeTransform(s, chunk, limits)
          [] c.kind = "decode"     -> DecodeTransform(s, chunk, limits)

Flush(c, s) ==
    LET limits == PluginLimits(c.limits)
    IN  CASE c.kind = "encrypt"    -> EncryptFlush(s, limits)
          [] c.kind = "decrypt"    -> DecryptFlush(s, limits)
          [] c.kind = "sign"       -> SignFlush(s)
          [] c.kind = "verify"     -> VerifyFlush(s, limits)
          [] c.kind = "compress"   -> CompressFlush(s, c.option, limits)
          [] c.kind = "decompress" -> DecompressFlush(s)
          [] c.kind = "frames"     -> FrameLimitFlush(s)
          [] c.kind = "pack"       -> PackFlush(s, c.limits)
          [] c.kind = "unpack"     -> UnpackFlush(s)
          [] c.kind = "encode"     -> EncodeFlush(s, limits)
          [] c.kind = "decode"     -> DecodeFlush(s)

OnDestroy(c, s) ==
    CASE c.kind = "encrypt" -> EncryptCleanup(s)
      [] c.kind = "decrypt" -> DecryptCleanup(s)
      [] c.kind = "verify"  -> [s EXCEPT !.chunks = <<>>]
      [] c.kind \in Worker  -> WorkerDestroy(s)
      [] OTHER              -> s

\* What the handler of a task returns: of the same size, longer or empty.
TaskResult(c, data) ==
    CASE c.option = "same"  -> data
      [] c.option = "grow"  -> data \o <<[k |-> "more"]>>
      [] c.option = "empty" -> <<>>

Resume(c, s) ==
    IF c.kind = "encode" THEN EncodeResume(s, TaskResult(c, s.task), PluginLimits(c.limits))
    ELSE DecodeResume(s, TaskResult(c, s.task), PluginLimits(c.limits))

Busy == case.kind \in Worker /\ st.busy

Init ==
    /\ case \in Cases
    /\ taken = 0
    /\ st = Create(case)
    /\ phase = IF st.failed THEN "failed" ELSE "open"
    /\ tasks = <<>>
    /\ fault = FALSE

\* transform(chunk) with the next n bytes; an object stream has one object.
Write(n) ==
    /\ phase = "open" /\ ~Busy
    /\ taken + n <= Len(case.input)
    /\ case.kind = "pack" => n = 1
    /\ st' = Transform(case, st, SubSeq(case.input, taken + 1, taken + n))
    /\ taken' = taken + n
    /\ phase' = IF st'.failed THEN "failed" ELSE "open"
    /\ UNCHANGED <<case, tasks, fault>>

\* flush() after the last chunk.
End ==
    /\ phase = "open" /\ ~Busy
    /\ taken = Len(case.input)
    /\ st' = Flush(case, st)
    /\ phase' = IF st'.failed THEN "failed" ELSE "ok"
    /\ UNCHANGED <<case, taken, tasks, fault>>

\* The task settles, possibly after the stream was destroyed.
TaskSettles(fulfilled) ==
    /\ Busy
    /\ st' = IF fulfilled THEN Resume(case, st) ELSE WorkerError([st EXCEPT !.busy = FALSE])
    /\ tasks' = IF fulfilled THEN Append(tasks, st.task) ELSE tasks
    /\ fault' = (fault \/ ~fulfilled)
    /\ phase' = IF phase = "open" /\ st'.failed THEN "failed" ELSE phase
    /\ UNCHANGED <<case, taken>>

Destroy ==
    /\ phase = "open"
    /\ st' = OnDestroy(case, st)
    /\ phase' = "destroyed"
    /\ UNCHANGED <<case, taken, tasks, fault>>

\* The signal of the operation aborts; only worker streams look at it.
Abort ==
    /\ phase = "open" /\ case.kind \in Worker /\ ~st.aborted
    /\ st' = [st EXCEPT !.aborted = TRUE]
    /\ fault' = TRUE
    /\ UNCHANGED <<case, taken, phase, tasks>>

Next ==
    \/ \E n \in 0 .. Len(case.input) : Write(n)
    \/ End
    \/ \E fulfilled \in BOOLEAN : TaskSettles(fulfilled)
    \/ Destroy
    \/ Abort

Spec == Init /\ [][Next]_vars

(***************************************************************************)
(* The formats on whole inputs.                                            *)
(***************************************************************************)

BytesEnd(b, p, n) == IF p + n - 1 <= Len(b) THEN p + n ELSE 0
LengthAt(b, p, w) == FoldLeft(LAMBDA n, byte : n * 256 + byte, 0, SubSeq(b, p, p + w - 1))

\* The n MessagePack values that begin at p end before ValuesEnd(b)[p, n]; 0
\* when there are not n complete values of the supported profile.
ValuesEnd(b) ==
    LET end[p \in 0 .. Len(b) + 1, n \in Nat] ==
            LET t == b[p]
                Sized(w, After(_)) == IF BytesEnd(b, p + 1, w) = 0 THEN 0 ELSE After(LengthAt(b, p + 1, w))
                Bytes(w) == Sized(w, LAMBDA m : BytesEnd(b, p + 1 + w, m))
                Extension(q, m) ==
                    IF BytesEnd(b, q, m + 1) = 0 \/ b[q] \notin WithChild \cup Opaque THEN 0
                    ELSE IF b[q] \in WithChild THEN end[q + m + 1, 1] ELSE q + m + 1
                first == CASE t \in 128 .. 143 -> end[p + 1, 2 * (t - 128)]
                           [] t \in 144 .. 159 -> end[p + 1, t - 144]
                           [] t \in 160 .. 191 -> BytesEnd(b, p + 1, t - 160)
                           [] t \in 196 .. 198 -> Bytes(2 ^ (t - 196))
                           [] t \in 199 .. 201 -> LET w == 2 ^ (t - 199)
                                                  IN  Sized(w, LAMBDA m : Extension(p + 1 + w, m))
                           [] t \in 202 .. 203 -> BytesEnd(b, p + 1, 2 ^ (t - 200))
                           [] t \in 204 .. 207 -> BytesEnd(b, p + 1, 2 ^ (t - 204))
                           [] t \in 208 .. 211 -> BytesEnd(b, p + 1, 2 ^ (t - 208))
                           [] t \in 212 .. 216 -> Extension(p + 1, 2 ^ (t - 212))
                           [] t \in 217 .. 219 -> Bytes(2 ^ (t - 217))
                           [] t \in 220 .. 221 -> LET w == 2 ^ (t - 219)
                                                  IN  Sized(w, LAMBDA m : end[p + 1 + w, m])
                           [] t \in 222 .. 223 -> LET w == 2 ^ (t - 221)
                                                  IN  Sized(w, LAMBDA m : end[p + 1 + w, 2 * m])
                           [] OTHER            -> p + 1
            IN  IF n = 0 THEN p
                ELSE IF p = 0 \/ p > Len(b) \/ t = 193 THEN 0
                ELSE end[first, n - 1]
    IN  end

\* The complete frames at the beginning of b.
FramesOf(b) ==
    LET from[p \in 1 .. Len(b) + 1] ==
            LET Before(e) == IF e = 0 THEN <<>> ELSE <<SubSeq(b, p, e - 1)>> \o from[e]
            IN  Before(ValuesEnd(b)[p, 1])
    IN  from[1]

Fit(frames, b, limits) ==
    /\ FlattenSeq(frames) = b
    /\ Len(frames) <= limits.maxFrames
    /\ \A i \in DOMAIN frames : Len(frames[i]) <= limits.maxFrameBytes

\* The values of a packed stream: its frames without a leading manifest.
ValuesOf(frames) ==
    IF frames # <<>> /\ frames[1] = Manifest THEN Tail(frames) ELSE frames

\* The records of a PXWK stream.
RecordsOf(b, limits) ==
    LET from[p \in 1 .. Len(b) + 1] ==
            LET n    == b[p].n
                more == from[p + n + 2]
            IN  IF SubSeq(b, p, Len(b)) = EndMarker THEN Success(<<>>)
                ELSE IF p >= Len(b) \/ b[p].k # "length" THEN Failure
                ELSE IF n > limits.maxFrameBytes \/ p + n + 1 > Len(b) \/ ~more.ok THEN Failure
                ELSE Success(<<SubSeq(b, p + 2, p + n + 1)>> \o more.out)
    IN  IF Len(b) < 2 \/ Take(b, 2) # WorkerMagic THEN Failure ELSE from[3]

\* What the whole input gives, whatever its chunks.
Expected(c) ==
    LET limits == PluginLimits(c.limits)
        Given(ok, out) == [ok |-> ok, out |-> out]
    IN  CASE c.kind = "encrypt"    -> EncryptBuffer(c.input, c.option, "salt", limits)
          [] c.kind = "decrypt"    -> DecryptBuffer(c.input, c.option, limits)
          [] c.kind = "sign"       -> HashProcess(c.input, limits)
          [] c.kind = "verify"     -> HashReverse(c.input, limits)
          [] c.kind = "compress"   -> CompressProcess(c.input, c.option, limits)
          [] c.kind = "decompress" -> CompressReverse(c.input, limits)
          [] c.kind = "frames"     ->
                LET Framed(frames) == Given(Fit(frames, c.input, c.limits), frames)
                IN  Framed(FramesOf(c.input))
          [] c.kind = "pack"       ->
                LET frames == <<Manifest>> \o c.input
                IN  Given(/\ Len(c.input) <= c.limits.maxFrames
                          /\ \A i \in DOMAIN frames : Len(frames[i]) <= c.limits.maxFrameBytes
                          /\ Len(FlattenSeq(frames)) <= c.limits.maxOutputBytes, frames)
          [] c.kind = "unpack"     ->
                LET Unpacked(frames) ==
                        Given(/\ Len(c.input) <= c.limits.maxInputBytes
                              /\ Fit(frames, c.input, WithManifest(c.limits))
                              /\ Len(ValuesOf(frames)) <= c.limits.maxFrames, ValuesOf(frames))
                IN  Unpacked(FramesOf(c.input))
          [] c.kind = "decode"     ->
                LET records == RecordsOf(c.input, c.limits)
                    out     == FlattenSeq(records.out)
                IN  Given(/\ records.ok /\ Len(records.out) <= c.limits.maxFrames
                          /\ Len(c.input) <= limits.maxInputBytes
                          /\ Len(out) <= c.limits.maxOutputBytes, out)

(***************************************************************************)
(* Properties.                                                             *)
(***************************************************************************)

\* Nobody sees where the chunks ended: a Transform succeeds exactly when the
\* buffer form of the same code does and with the same bytes (for MessagePack
\* both scans also agree with the definition of the format); the writer of
\* worker records, whose tasks do follow the chunks, covers the whole input
\* and writes one record per task (createEncryptionStream, scan, createStream).
FragmentationInvisible ==
    IF case.kind = "encode"
    THEN phase = "ok" =>
            /\ FlattenSeq(tasks) = case.input
            /\ RecordsOf(st.out, case.limits) = Success([i \in DOMAIN tasks |-> TaskResult(case, tasks[i])])
    ELSE /\ case.kind = "frames" => WithinFrameLimits(case.input, case.limits) = Expected(case).ok
         /\ phase = "ok" => Expected(case) = Success(st.out)
         /\ phase = "failed" /\ ~fault => ~Expected(case).ok

Released == IF case.kind = "decode" THEN tasks ELSE st.out

\* What a reader has released is at every moment a prefix of what was written,
\* and a reader that succeeds has released all of it: frames that were lost,
\* repeated, exchanged, replaced or cut off end in an error before any byte of
\* theirs is released (consumeFramed, flush; docs/security.md).
ReleasedIsAuthentic ==
    case.kind \in Decoders =>
        /\ IsPrefix(Released, case.original)
        /\ phase = "ok" => Released = case.original

\* What PipeX wrote within its limits it can read again under the same limits
\* (encodedLength and maxFrames of the writer against the checks of the reader).
RoundTrip == case.honest /\ ~fault => phase # "failed"

\* The derived key of an encryption stream, and the plaintext that waits for
\* its frame to fill, are overwritten on every way out: success, error and
\* destroy (cleanup).
SecretsErased ==
    phase # "open" => st.key # "live" /\ (case.kind = "encrypt" => st.pending = <<>>)

\* A stream that failed or was destroyed pushes nothing any more, although a
\* task of it may still settle (signal.throwIfAborted after the await).
NothingAfterDestroy == [][(phase \in {"failed", "destroyed"}) => st'.out = st.out]_vars

\* README.md:263 "allowLegacyDecrypt, default `false`": without an explicit
\* `true` a packet of the legacy format is never decrypted.
LegacyNeedsConsent ==
    case.kind = "decrypt" /\ case.input # <<>> /\ case.input[1] # MAGIC[1] /\ case.option # "true"
        => phase # "ok"
=============================================================================
