---------------------------- MODULE FrameScanner ----------------------------
(***************************************************************************)
(* MessagePackFrameScanner (src/core/frameLimits.ts), the Transform built  *)
(* on it, and the pack and unpack chains that use it.  A byte is a number  *)
(* between 0 and 255.                                                      *)
(*                                                                         *)
(* An exception is the flag `failed`; what an operator computes after it   *)
(* is never used, because scan() has then ended.                           *)
(***************************************************************************)
EXTENDS Integers, Sequences, FiniteSetsExt, TLC

NoLength == [kind |-> "none", bytes |-> 0, read |-> 0, value |-> 0]

ScannerCreate ==
    [frameBytes |-> 0, remainingValues |-> 1, payloadBytes |-> 0,
     extensionTypePending |-> FALSE, pending |-> NoLength, frames |-> 0,
     boundaries |-> <<>>, failed |-> FALSE]

Throw(s) == [s EXCEPT !.failed = TRUE]

ConsumeBytes(s, count, limits) ==
    IF count > limits.maxFrameBytes - s.frameBytes THEN Throw(s)
    ELSE [s EXCEPT !.frameBytes = @ + count]

EnsureMinimumRemaining(s, additional, limits) ==
    LET capacity == limits.maxFrameBytes - s.frameBytes
    IN  IF additional > capacity \/ s.remainingValues > capacity - additional
        THEN Throw(s) ELSE s

AddChildren(s, count, limits) ==
    EnsureMinimumRemaining([s EXCEPT !.remainingValues = @ + count], 0, limits)

SetPayload(s, length, limits) ==
    [EnsureMinimumRemaining(s, length, limits) EXCEPT !.payloadBytes = length]

SetExtensionPayload(s, length, limits) ==
    [SetPayload(s, length + 1, limits) EXCEPT !.extensionTypePending = TRUE]

ReadLength(s, kind, bytes) ==
    [s EXCEPT !.pending = [kind |-> kind, bytes |-> bytes, read |-> 0, value |-> 0]]

ApplyLength(s, kind, value, limits) ==
    CASE kind = "array"     -> AddChildren(s, value, limits)
      [] kind = "map"       -> AddChildren(s, value * 2, limits)
      [] kind = "extension" -> SetExtensionPayload(s, value, limits)
      [] OTHER              -> SetPayload(s, value, limits)

\* The length field of a token: its kind and its width in bytes.
LengthToken ==
    (196 :> <<"payload", 1>>) @@ (197 :> <<"payload", 2>>) @@ (198 :> <<"payload", 4>>) @@
    (199 :> <<"extension", 1>>) @@ (200 :> <<"extension", 2>>) @@ (201 :> <<"extension", 4>>) @@
    (217 :> <<"payload", 1>>) @@ (218 :> <<"payload", 2>>) @@ (219 :> <<"payload", 4>>) @@
    (220 :> <<"array", 2>>) @@ (221 :> <<"array", 4>>) @@
    (222 :> <<"map", 2>>) @@ (223 :> <<"map", 4>>)

\* Tokens with a payload of fixed length: floats and integers.
FixedPayload ==
    (202 :> 4) @@ (203 :> 8) @@ (204 :> 1) @@ (205 :> 2) @@ (206 :> 4) @@ (207 :> 8) @@
    (208 :> 1) @@ (209 :> 2) @@ (210 :> 4) @@ (211 :> 8)

\* Extensions with a payload of fixed length.
FixedExtension == (212 :> 1) @@ (213 :> 2) @@ (214 :> 4) @@ (215 :> 8) @@ (216 :> 16)

ReadToken(s, token, limits) ==
    CASE token = 193                    -> Throw(s)
      [] \/ token <= 127 \/ token >= 224
         \/ token \in {192, 194, 195}   -> s
      [] token \in 128 .. 143           -> AddChildren(s, (token % 16) * 2, limits)
      [] token \in 144 .. 159           -> AddChildren(s, token % 16, limits)
      [] token \in 160 .. 191           -> SetPayload(s, token % 32, limits)
      [] token \in DOMAIN LengthToken   -> ReadLength(s, LengthToken[token][1], LengthToken[token][2])
      [] token \in DOMAIN FixedPayload  -> SetPayload(s, FixedPayload[token], limits)
      [] token \in DOMAIN FixedExtension -> SetExtensionPayload(s, FixedExtension[token], limits)
      [] OTHER                          -> Throw(s)

CompleteIgnoringPayload(s, offset, limits) ==
    IF s.pending # NoLength \/ s.remainingValues # 0 THEN s
    ELSE IF s.frames + 1 > limits.maxFrames THEN Throw(s)
    ELSE [s EXCEPT !.frames = @ + 1, !.boundaries = Append(@, offset), !.frameBytes = 0,
                   !.remainingValues = 1, !.extensionTypePending = FALSE]

CompleteIfReady(s, offset, limits) ==
    IF s.pending # NoLength \/ s.payloadBytes > 0 \/ s.remainingValues # 0 THEN s
    ELSE IF s.frames + 1 > limits.maxFrames THEN Throw(s)
    ELSE [s EXCEPT !.frames = @ + 1, !.boundaries = Append(@, offset), !.frameBytes = 0,
                   !.remainingValues = 1, !.extensionTypePending = FALSE]

(***************************************************************************)
(* The branches of the loop of scan(); each returns the scanner and the    *)
(* number of bytes it has used.                                            *)
(***************************************************************************)

\* These extensions are followed by one more value of the same frame.
WithChild == {101, 115, 120}
Opaque    == {0, 66, 116, 255}

ExtensionType(s, type, offset, limits) ==
    LET read == [ConsumeBytes(s, 1, limits) EXCEPT !.payloadBytes = @ - 1, !.extensionTypePending = FALSE]
        kept == IF type \in WithChild
                THEN EnsureMinimumRemaining(AddChildren(read, 1, limits), read.payloadBytes, limits)
                ELSE IF type \in Opaque THEN read ELSE Throw(read)
    IN  [s |-> IF kept.payloadBytes = 0 THEN CompleteIfReady(kept, offset + 1, limits) ELSE kept, used |-> 1]

Payload(s, available, offset, limits) ==
    LET consumed == Min({s.payloadBytes, available})
        read     == [ConsumeBytes(s, consumed, limits) EXCEPT !.payloadBytes = @ - consumed]
        kept     == IF read.payloadBytes > 0 /\ read.frameBytes = limits.maxFrameBytes
                    THEN Throw(read) ELSE read
    IN  [s |-> IF kept.payloadBytes = 0 THEN CompleteIfReady(kept, offset + consumed, limits) ELSE kept,
         used |-> consumed]

LengthByte(s, byte, offset, limits) ==
    LET read == [ConsumeBytes(s, 1, limits) EXCEPT !.pending.value = @ * 256 + byte,
                                                   !.pending.read = @ + 1]
        done == ApplyLength([read EXCEPT !.pending = NoLength], read.pending.kind, read.pending.value, limits)
    IN  [s |-> IF read.pending.read = read.pending.bytes THEN CompleteIfReady(done, offset + 1, limits) ELSE read,
         used |-> 1]

Token(s, token, offset, limits) ==
    LET read == [ConsumeBytes(s, 1, limits) EXCEPT !.remainingValues = @ - 1]
    IN  [s |-> CompleteIfReady(ReadToken(IF read.remainingValues < 0 THEN Throw(read) ELSE read, token, limits),
                               offset + 1, limits),
         used |-> 1]

\* One turn of the loop: the scanner and the offset behind what it used.
ScanTurn(s, chunk, offset, limits) ==
    IF s.failed \/ offset >= Len(chunk) THEN [s |-> s, offset |-> offset]
    ELSE LET turn == CASE s.payloadBytes > 0 /\ s.extensionTypePending ->
                            ExtensionType(s, chunk[offset + 1], offset, limits)
                       [] s.payloadBytes > 0 /\ ~s.extensionTypePending ->
                            Payload(s, Len(chunk) - offset, offset, limits)
                       [] s.payloadBytes = 0 /\ s.pending # NoLength ->
                            LengthByte(s, chunk[offset + 1], offset, limits)
                       [] OTHER -> Token(s, chunk[offset + 1], offset, limits)
         IN  [s |-> turn.s, offset |-> offset + turn.used]

\* scan(chunk): the boundaries are those found in this chunk.  A turn uses at
\* least one byte.
Scan(s, chunk, limits) ==
    LET turn[n \in 0 .. Len(chunk)] ==
            IF n = 0 THEN [s |-> [s EXCEPT !.boundaries = <<>>], offset |-> 0]
            ELSE LET last == turn[n - 1] IN ScanTurn(last.s, chunk, last.offset, limits)
    IN  turn[Len(chunk)].s

\* finish(): no frame has been begun.
Finished(s) == s.frameBytes = 0 /\ s.pending = NoLength /\ s.payloadBytes = 0

\* assertMessagePackFrameLimits.
WithinFrameLimits(input, limits) ==
    LET s == Scan(ScannerCreate, input, limits) IN ~s.failed /\ Finished(s)

(***************************************************************************)
(* buildFrameLimitTransform: every frame is pushed as one buffer.          *)
(***************************************************************************)

FrameLimitCreate ==
    [scanner |-> ScannerCreate, held |-> <<>>, out |-> <<>>, key |-> "none", failed |-> FALSE]

FrameLimitTransform(st, input, limits) ==
    LET s     == Scan(st.scanner, input, limits)
        ends  == s.boundaries
        start == [i \in 1 .. Len(ends) + 1 |-> IF i = 1 THEN 0 ELSE ends[i - 1]]
        part  == [i \in 1 .. Len(ends) |-> SubSeq(input, start[i] + 1, ends[i])]
        whole == [i \in 1 .. Len(ends) |-> IF i = 1 THEN st.held \o part[i] ELSE part[i]]
        tail  == SubSeq(input, start[Len(ends) + 1] + 1, Len(input))
    IN  IF s.failed THEN [st EXCEPT !.failed = TRUE]
        ELSE [st EXCEPT !.scanner = [s EXCEPT !.boundaries = <<>>], !.out = @ \o whole,
                        !.held = IF ends = <<>> THEN @ \o tail ELSE tail]

FrameLimitFlush(st) == [st EXCEPT !.failed = ~Finished(st.scanner)]
=============================================================================
