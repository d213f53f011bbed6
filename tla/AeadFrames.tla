----------------------------- MODULE AeadFrames -----------------------------
(***************************************************************************)
(* The PXAE format of EncryptionPlugin (src/plugin/encryptionFormat.ts):   *)
(* one header, data frames and one final frame, written and read by a      *)
(* buffer function and by an incremental Transform.                        *)
(*                                                                         *)
(* A byte is a record.  The lengths below are scaled: one byte of the      *)
(* model stands for several of the file, and each field of the format      *)
(* still spans a boundary at which a chunk may end.  AEAD is symbolic: a   *)
(* tag fits one key, nonce, header, frame header and plaintext only.       *)
(*                                                                         *)
(* A Transform is a record of its local variables, `out` for what it has   *)
(* pushed, `failed` for callback(error), and `key` for its derived key.    *)
(***************************************************************************)
EXTENDS Integers, Sequences, FiniteSetsExt

GLOBAL_HEADER_LENGTH == 3   \* 28 in the code
FRAME_HEADER_LENGTH  == 2   \* 13
TAG_LENGTH           == 2   \* 16
FRAME_OVERHEAD       == FRAME_HEADER_LENGTH + TAG_LENGTH
LEGACY_HEADER_LENGTH == 1 + 1 + TAG_LENGTH   \* algorithm, nonce, tag

MAGIC == <<[k |-> "P"], [k |-> "XAE"]>>
Pad   == <<[k |-> "pad"]>>

DATA_FRAME  == 1
FINAL_FRAME == 2

Take(s, n) == SubSeq(s, 1, n)
Drop(s, n) == SubSeq(s, n + 1, Len(s))

Failed == [ok |-> FALSE, out |-> <<>>]
Result(bytes) == [ok |-> TRUE, out |-> bytes]

(***************************************************************************)
(* Sizes.  limits is a FormatLimits record.                                *)
(***************************************************************************)

\* resolveFrameSize: 0 stands for the error.
ResolveFrameSize(requested, limits) ==
    LET capacity == limits.maxFrameBytes - FRAME_OVERHEAD
    IN  IF capacity < 1 \/ limits.maxFrameBytes < GLOBAL_HEADER_LENGTH \/ requested > capacity
        THEN 0 ELSE requested

DataFrameCount(bytes, size) == (bytes + size - 1) \div size

EncodedLength(bytes, size) ==
    GLOBAL_HEADER_LENGTH + bytes + (DataFrameCount(bytes, size) + 1) * FRAME_OVERHEAD

(***************************************************************************)
(* Headers and frames.                                                     *)
(***************************************************************************)

BuildHeader(size, salt) == MAGIC \o <<[k |-> "fields", size |-> size, salt |-> salt]>>

\* parseHeader: magic, version and frame size.
ValidHeader(header, limits) ==
    /\ Take(header, 2) = MAGIC
    /\ header[3].size \in 1 .. limits.maxFrameBytes - FRAME_OVERHEAD

BuildFrameHeader(type, sequence, bytes) ==
    <<[k |-> "type", type |-> type],
      [k |-> "numbers", sequence |-> sequence, bytes |-> bytes]>>

\* The tag authenticates the header, the frame header and the plaintext.
Seal(header, frameHeader, plaintext) ==
    <<[k |-> "tag", aad |-> header \o frameHeader, text |-> plaintext]>> \o Pad

EncryptFrame(plaintext, type, sequence, header) ==
    LET frameHeader == BuildFrameHeader(type, sequence, Len(plaintext))
    IN  frameHeader
        \o [i \in 1 .. Len(plaintext) |-> [k |-> "cipher", sequence |-> sequence, v |-> plaintext[i]]]
        \o Seal(header, frameHeader, plaintext)

\* decryptFrame: the plaintext, or AuthenticationError.
DecryptFrame(ciphertext, tag, frameHeader, header) ==
    LET text == [i \in 1 .. Len(ciphertext) |-> ciphertext[i].v]
    IN  IF /\ \A i \in 1 .. Len(ciphertext) :
                 /\ ciphertext[i].k = "cipher"
                 /\ ciphertext[i].sequence = frameHeader[2].sequence
           /\ tag = Seal(header, frameHeader, text)
        THEN Result(text) ELSE Failed

\* The checks of a frame header, before its body is read.
FrameAccepted(frameHeader, expected, dataFrames, produced, size, limits) ==
    LET type  == frameHeader[1].type
        bytes == frameHeader[2].bytes
    IN  /\ frameHeader[2].sequence = expected
        /\ type \in {DATA_FRAME, FINAL_FRAME}
        /\ type = FINAL_FRAME => bytes = 0
        /\ bytes \in 0 .. size /\ bytes <= limits.maxFrameBytes - FRAME_OVERHEAD
        /\ type = DATA_FRAME => dataFrames < limits.maxFrames
                                /\ bytes <= limits.maxOutputBytes - produced

(***************************************************************************)
(* The legacy packet: algorithm, nonce, tag, ciphertext.                   *)
(***************************************************************************)

LegacySeal(plaintext) == <<[k |-> "legacy tag", text |-> plaintext]>> \o Pad

LegacyPacket(plaintext) ==
    <<[k |-> "algorithm"], [k |-> "nonce"]>> \o LegacySeal(plaintext)
    \o [i \in 1 .. Len(plaintext) |-> [k |-> "cipher", v |-> plaintext[i]]]

DecryptLegacy(data, limits) ==
    LET text == [i \in 1 .. Len(data) - LEGACY_HEADER_LENGTH |-> data[LEGACY_HEADER_LENGTH + i].v]
    IN  IF \/ Len(data) < LEGACY_HEADER_LENGTH
           \/ Len(data) - LEGACY_HEADER_LENGTH > limits.maxOutputBytes
           \/ data[1].k # "algorithm"
           \/ SubSeq(data, 3, LEGACY_HEADER_LENGTH) # LegacySeal(text)
        THEN Failed ELSE Result(text)

(***************************************************************************)
(* encryptBuffer and decryptBuffer.                                        *)
(***************************************************************************)

EncryptBuffer(data, requested, salt, limits) ==
    LET size   == ResolveFrameSize(requested, limits)
        header == BuildHeader(size, salt)
        count  == DataFrameCount(Len(data), size)
        frame[i \in 0 .. count] ==
            IF i = 0 THEN header
            ELSE frame[i - 1] \o EncryptFrame(SubSeq(data, (i - 1) * size + 1, Min({Len(data), i * size})),
                                              DATA_FRAME, i - 1, header)
    IN  IF \/ Len(data) > limits.maxInputBytes
           \/ size = 0
           \/ count > limits.maxFrames
           \/ EncodedLength(Len(data), size) > limits.maxOutputBytes
        THEN Failed
        ELSE Result(frame[count] \o EncryptFrame(<<>>, FINAL_FRAME, count, header))

\* One turn of the loop of decryptBuffer: the frame at the head of b.data.
BufferTurn(b, header, limits) ==
    IF b.data = <<>> \/ b.failed THEN b
    ELSE IF \/ b.finalSeen
            \/ Len(b.data) < FRAME_HEADER_LENGTH
            \/ ~FrameAccepted(Take(b.data, FRAME_HEADER_LENGTH), b.sequence, b.sequence,
                              Len(b.plaintext), header[3].size, limits)
         THEN [b EXCEPT !.failed = TRUE]
    ELSE LET frameHeader == Take(b.data, FRAME_HEADER_LENGTH)
             bytes       == frameHeader[2].bytes
             body        == Drop(b.data, FRAME_HEADER_LENGTH)
             restored    == DecryptFrame(Take(body, bytes), SubSeq(body, bytes + 1, bytes + TAG_LENGTH),
                                         frameHeader, header)
         IN  IF Len(body) < bytes + TAG_LENGTH \/ ~restored.ok THEN [b EXCEPT !.failed = TRUE]
             ELSE [b EXCEPT !.data = Drop(body, bytes + TAG_LENGTH), !.sequence = @ + 1,
                            !.finalSeen = (frameHeader[1].type = FINAL_FRAME),
                            !.plaintext = @ \o restored.out]

\* The loop of decryptBuffer over the frames that follow the header; a turn
\* uses at least one byte, so there are no more turns than bytes.
DecryptFrames(data, header, limits) ==
    LET turn[n \in 0 .. Len(data)] ==
            IF n = 0 THEN [data |-> data, sequence |-> 0, finalSeen |-> FALSE,
                           plaintext |-> <<>>, failed |-> FALSE]
            ELSE BufferTurn(turn[n - 1], header, limits)
        last == turn[Len(data)]
    IN  IF last.failed \/ ~last.finalSeen THEN Failed ELSE Result(last.plaintext)

\* allowLegacy is "true", "false" or "undefined", the values of the option.
DecryptBuffer(data, allowLegacy, limits) ==
    IF Len(data) > limits.maxInputBytes THEN Failed
    ELSE IF data = <<>> \/ data[1] # MAGIC[1]
         THEN IF allowLegacy # "true" THEN Failed ELSE DecryptLegacy(data, limits)
    ELSE IF Len(data) < GLOBAL_HEADER_LENGTH \/ ~ValidHeader(Take(data, GLOBAL_HEADER_LENGTH), limits)
         THEN Failed
    ELSE DecryptFrames(Drop(data, GLOBAL_HEADER_LENGTH), Take(data, GLOBAL_HEADER_LENGTH), limits)

(***************************************************************************)
(* createEncryptionStream.                                                 *)
(***************************************************************************)

\* cleanup(): buffers and the derived key are overwritten.
EncryptCleanup(st) == [st EXCEPT !.pending = <<>>, !.key = "erased"]

EncryptError(st) == [EncryptCleanup(st) EXCEPT !.failed = TRUE]

EncryptCreate(requested, salt, limits) ==
    LET size   == ResolveFrameSize(requested, limits)
        throws == size = 0 \/ EncodedLength(0, size) > limits.maxOutputBytes
    IN  [header |-> BuildHeader(size, salt), size |-> size, pending |-> <<>>, inputBytes |-> 0,
         dataFrames |-> 0, headerSent |-> FALSE, out |-> <<>>,
         key |-> IF throws THEN "none" ELSE "live", failed |-> throws]

SendHeader(st) ==
    IF st.headerSent THEN st ELSE [st EXCEPT !.headerSent = TRUE, !.out = @ \o st.header]

\* A data frame with the pending bytes is pushed.
PushData(st, bytes, limits) ==
    IF st.dataFrames + 1 > limits.maxFrames THEN EncryptError(st)
    ELSE [st EXCEPT !.dataFrames = @ + 1, !.pending = <<>>,
                    !.out = @ \o EncryptFrame(bytes, DATA_FRAME, st.dataFrames, st.header)]

\* One turn of the loop of transform(): [st, rest].
FillTurn(st, input, limits) ==
    LET copied == Min({st.size - Len(st.pending), Len(input)})
        filled == st.pending \o Take(input, copied)
    IN  IF input = <<>> \/ st.failed THEN [st |-> st, rest |-> input]
        ELSE [st   |-> IF Len(filled) = st.size THEN PushData(st, filled, limits)
                       ELSE [st EXCEPT !.pending = filled],
              rest |-> Drop(input, copied)]

\* The loop; a turn uses at least one byte of the chunk.
FillFrames(st, input, limits) ==
    LET turn[n \in 0 .. Len(input)] ==
            IF n = 0 THEN [st |-> st, rest |-> input]
            ELSE LET last == turn[n - 1] IN FillTurn(last.st, last.rest, limits)
    IN  turn[Len(input)].st

EncryptTransform(st, input, limits) ==
    LET total == st.inputBytes + Len(input)
    IN  IF \/ total > limits.maxInputBytes
           \/ DataFrameCount(total, st.size) > limits.maxFrames
           \/ EncodedLength(total, st.size) > limits.maxOutputBytes
        THEN EncryptError(st)
        ELSE FillFrames(SendHeader([st EXCEPT !.inputBytes = total]), input, limits)

EncryptFlush(st, limits) ==
    LET sent == SendHeader(st)
        last == IF sent.pending = <<>> THEN sent ELSE PushData(sent, sent.pending, limits)
    IN  IF last.failed THEN last
        ELSE EncryptCleanup([last EXCEPT !.out = @ \o EncryptFrame(<<>>, FINAL_FRAME, last.dataFrames, last.header)])

(***************************************************************************)
(* createDecryptionStream.                                                 *)
(***************************************************************************)

DecryptCreate ==
    [format |-> "unknown", totalInput |-> 0, globalHeader |-> <<>>, frameHeader |-> <<>>,
     frameBody |-> <<>>, expected |-> 0, dataFrames |-> 0, finalSeen |-> FALSE,
     legacyChunks |-> <<>>, out |-> <<>>, key |-> "none", failed |-> FALSE]

DecryptCleanupKeepingKey(st) ==
    [st EXCEPT !.frameBody = <<>>, !.legacyChunks = <<>>, !.frameHeader = <<>>]

DecryptCleanup(st) ==
    [st EXCEPT !.frameBody = <<>>, !.legacyChunks = <<>>, !.frameHeader = <<>>,
               !.globalHeader = <<>>, !.key = IF @ = "live" THEN "erased" ELSE @]

DecryptError(st) == [DecryptCleanup(st) EXCEPT !.failed = TRUE]

\* A complete frame body: the plaintext is released only when it is authentic.
OpenFrame(st) ==
    LET bytes    == st.frameHeader[2].bytes
        restored == DecryptFrame(Take(st.frameBody, bytes), Drop(st.frameBody, bytes),
                                 st.frameHeader, st.globalHeader)
        final    == st.frameHeader[1].type = FINAL_FRAME
    IN  IF ~restored.ok THEN DecryptError(st)
        ELSE [st EXCEPT !.finalSeen = final, !.out = @ \o restored.out,
                        !.dataFrames = IF final THEN @ ELSE @ + 1,
                        !.expected = @ + 1, !.frameBody = <<>>, !.frameHeader = <<>>]

\* One turn of the loop of consumeFramed: [st, rest].  A body that is still
\* incomplete after its header ended the chunk waits for the next one.
FramedTurn(st, input, limits) ==
    IF input = <<>> \/ st.failed THEN [st |-> st, rest |-> input]
    ELSE IF st.finalSeen THEN [st |-> DecryptError(st), rest |-> <<>>]
    ELSE IF Len(st.globalHeader) < GLOBAL_HEADER_LENGTH
    THEN LET copied == Min({GLOBAL_HEADER_LENGTH - Len(st.globalHeader), Len(input)})
             header == st.globalHeader \o Take(input, copied)
             read   == [st EXCEPT !.globalHeader = header]
         IN  [st |-> IF Len(header) < GLOBAL_HEADER_LENGTH THEN read
                     ELSE IF ValidHeader(header, limits) THEN [read EXCEPT !.key = "live"]
                     ELSE DecryptError(read),
              rest |-> Drop(input, copied)]
    ELSE LET headed == Min({FRAME_HEADER_LENGTH - Len(st.frameHeader), Len(input)})
             header == st.frameHeader \o Take(input, headed)
             after  == Drop(input, headed)
             fresh  == Len(st.frameHeader) < FRAME_HEADER_LENGTH
         IN  IF Len(header) < FRAME_HEADER_LENGTH
             THEN [st |-> [st EXCEPT !.frameHeader = header], rest |-> after]
             ELSE IF fresh /\ ~FrameAccepted(header, st.expected, st.dataFrames, Len(st.out),
                                             st.globalHeader[3].size, limits)
             THEN [st |-> DecryptError(st), rest |-> <<>>]
             ELSE LET length == header[2].bytes + TAG_LENGTH
                      copied == Min({length - Len(st.frameBody), Len(after)})
                      body   == st.frameBody \o Take(after, copied)
                      read   == [st EXCEPT !.frameHeader = header, !.frameBody = body]
                  IN  [st |-> IF Len(body) < length THEN read ELSE OpenFrame(read),
                       rest |-> Drop(after, copied)]

\* The loop; a turn uses at least one byte of the chunk.
ConsumeFramed(st, input, limits) ==
    LET turn[n \in 0 .. Len(input)] ==
            IF n = 0 THEN [st |-> st, rest |-> input]
            ELSE LET last == turn[n - 1] IN FramedTurn(last.st, last.rest, limits)
    IN  turn[Len(input)].st

DecryptTransform(st, input, allowLegacy, limits) ==
    LET format == IF st.format # "unknown" THEN st.format
                  ELSE IF input[1] = MAGIC[1] THEN "framed" ELSE "legacy"
        read   == [st EXCEPT !.totalInput = @ + Len(input)]
    IN  IF Len(input) > limits.maxInputBytes - st.totalInput THEN DecryptError(st)
        ELSE IF input = <<>> THEN read
        ELSE IF st.format = "unknown" /\ format = "legacy" /\ allowLegacy = "false" THEN DecryptError(read)
        ELSE IF format = "legacy" THEN [read EXCEPT !.format = format, !.legacyChunks = @ \o input]
        ELSE ConsumeFramed([read EXCEPT !.format = format], input, limits)

DecryptFlushWithoutFinal(st, limits) ==
    IF st.format = "legacy" THEN DecryptError(st)
    ELSE IF st.format = "framed" /\ st.key = "live" /\ st.frameHeader = <<>> THEN DecryptCleanup(st)
    ELSE DecryptError(st)

DecryptFlush(st, limits) ==
    IF st.format = "legacy"
    THEN LET restored == DecryptLegacy(st.legacyChunks, limits)
         IN  IF restored.ok THEN [DecryptCleanup(st) EXCEPT !.out = restored.out] ELSE DecryptError(st)
    ELSE IF /\ st.format = "framed"
            /\ Len(st.globalHeader) = GLOBAL_HEADER_LENGTH
            /\ st.frameHeader = <<>>
            /\ st.finalSeen
         THEN DecryptCleanup(st)
         ELSE DecryptError(st)
=============================================================================
