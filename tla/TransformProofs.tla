-------------------------- MODULE TransformProofs ---------------------------
(***************************************************************************)
(* Proofs about Transforms, for inputs, limits and fragmentations of any   *)
(* size.                                                                   *)
(***************************************************************************)
EXTENDS Transforms, SequenceTheorems, WellFoundedInduction, TLAPS

(***************************************************************************)
(* Loops.  The loop of a Transform is a recursive function of the number   *)
(* of its turns; what a loop establishes is shown by induction on them.    *)
(***************************************************************************)

\* Induction: the least natural number outside of P would not be zero, and its
\* predecessor would be outside as well.
LEMMA SetInduction ==
    ASSUME NEW P, 0 \in P, \A n \in Nat : n \in P => n + 1 \in P
    PROVE  Nat \subseteq P
  <1> DEFINE Outside == Nat \ P
             Less    == OpToRel(<, Nat)
  <1>1. SUFFICES ASSUME Outside # {} PROVE FALSE
    OBVIOUS
  <1>2. IsWellFoundedOn(Less, Nat)
    BY NatLessThanWellFounded
  <1>3. Outside \subseteq Nat
    OBVIOUS
  <1> HIDE DEF Less
  <1>4. PICK x \in Outside : \A y \in Outside : ~(<<y, x>> \in Less)
    BY <1>1, <1>2, <1>3, WFMin
  <1>5. x # 0 /\ x - 1 \in Outside
    OBVIOUS
  <1>6. <<x - 1, x>> \in Less
    BY <1>5 DEF Less, OpToRel
  <1>7. QED
    BY <1>4, <1>5, <1>6

\* Induction up to N.
LEMMA UpTo ==
    ASSUME NEW N \in Nat, NEW P, 0 \in P, \A n \in 1 .. N : n - 1 \in P => n \in P
    PROVE  N \in P /\ \A n \in 0 .. N : n \in P
  <1> DEFINE Q == {n \in Nat : n <= N => n \in P}
  <1>1. 0 \in Q
    OBVIOUS
  <1>2. ASSUME NEW n \in Nat, n \in Q PROVE n + 1 \in Q
    <2>1. CASE n + 1 <= N
      <3>1. n + 1 \in 1 .. N /\ n \in P /\ (n + 1) - 1 = n
        BY <1>2, <2>1
      <3>2. QED
        BY <3>1
    <2>2. CASE ~(n + 1 <= N)
      BY <2>2
    <2>3. QED
      BY <2>1, <2>2
  <1>3. Nat \subseteq Q
    BY <1>1, <1>2, SetInduction
  <1>4. QED
    BY <1>3

\* The n-th turn of each of the loops; a and b are what the loop leaves alone.
Turn(loop, n, x, a, b) ==
    IF loop = "fill" THEN FillTurn(x.st, x.rest, a)
    ELSE IF loop = "framed" THEN FramedTurn(x.st, x.rest, a)
    ELSE IF loop = "decode" THEN DecodeTurn(x, a)
    ELSE IF loop = "scan" THEN ScanTurn(x.s, a, x.offset, b)
    ELSE IF loop = "seal"
         THEN x \o EncryptFrame(SubSeq(a, (n - 1) * b.size + 1, Min({Len(a), n * b.size})), DATA_FRAME, n - 1, b.header)
    ELSE IF loop = "buffer" THEN BufferTurn(x, a, b)
    ELSE IF loop = "inflate" THEN Inflate(x, a[n])
    ELSE DeliverFrame(x, a[n], b)

\* f[n] is the state of the loop after n turns.
IsRun(f, loop, x, a, b, N) ==
    /\ f = [n \in 0 .. N |-> f[n]]
    /\ f[0] = x
    /\ \A n \in 1 .. N : f[n] = Turn(loop, n, f[n - 1], a, b)

\* A loop of so many turns exists.
LEMMA Iteration ==
    ASSUME NEW loop, NEW x, NEW a, NEW b, NEW N \in Nat
    PROVE  \E f : IsRun(f, loop, x, a, b, N)
  <1> DEFINE P == {m \in Nat : \E g : IsRun(g, loop, x, a, b, m)}
  <1>1. 0 \in P
    <2>1. IsRun([n \in 0 .. 0 |-> x], loop, x, a, b, 0)
      BY DEF IsRun
    <2>2. QED
      BY <2>1
  <1>2. ASSUME NEW m \in Nat, m \in P PROVE m + 1 \in P
    <2>1. PICK g : IsRun(g, loop, x, a, b, m)
      BY <1>2
    <2> DEFINE h == [n \in 0 .. m + 1 |-> IF n <= m THEN g[n] ELSE Turn(loop, m + 1, g[m], a, b)]
    <2>2. IsRun(h, loop, x, a, b, m + 1)
      <3>1. \A n \in 0 .. m : h[n] = g[n]
        OBVIOUS
      <3>2. h[m + 1] = Turn(loop, m + 1, h[m], a, b)
        OBVIOUS
      <3>3. ASSUME NEW n \in 1 .. m PROVE h[n] = Turn(loop, n, h[n - 1], a, b)
        <4>1. n - 1 \in 0 .. m /\ n \in 0 .. m
          OBVIOUS
        <4>2. h[n] = g[n] /\ h[n - 1] = g[n - 1]
          BY <3>1, <4>1
        <4>3. g[n] = Turn(loop, n, g[n - 1], a, b)
          BY <2>1 DEF IsRun
        <4>4. QED
          BY <4>2, <4>3
      <3>4. \A n \in 1 .. m + 1 : h[n] = Turn(loop, n, h[n - 1], a, b)
        BY <3>2, <3>3
      <3>5. h[0] = x /\ h = [n \in 0 .. m + 1 |-> h[n]]
        BY <2>1, <3>1 DEF IsRun
      <3>6. QED
        BY <3>4, <3>5 DEF IsRun
    <2>3. QED
      BY <2>2
  <1>3. Nat \subseteq P
    BY <1>1, <1>2, SetInduction
  <1>4. QED
    BY <1>3

\* FillFrames is what its last turn leaves.
LEMMA FillLoop ==
    ASSUME NEW st0, NEW input, NEW limits, Len(input) \in Nat
    PROVE  \E turn : /\ IsRun(turn, "fill", [st |-> st0, rest |-> input], limits, limits, Len(input))
                     /\ FillFrames(st0, input, limits) = turn[Len(input)].st
  <1> DEFINE N == Len(input)
             x == [st |-> st0, rest |-> input]
             G(f) == [n \in 0 .. N |-> IF n = 0 THEN x ELSE FillTurn(f[n - 1].st, f[n - 1].rest, limits)]
  <1>1. FillFrames(st0, input, limits) = (CHOOSE f : f = G(f))[N].st
    BY DEF FillFrames
  <1> HIDE DEF x
  <1>2. \A f : f = G(f) <=> IsRun(f, "fill", x, limits, limits, N)
    <2> TAKE f
    <2>1. \A n \in 1 .. N : Turn("fill", n, f[n - 1], limits, limits) = FillTurn(f[n - 1].st, f[n - 1].rest, limits)
      BY DEF Turn
    <2>2. ASSUME f = G(f) PROVE IsRun(f, "fill", x, limits, limits, N)
      <3>1. \A n \in 0 .. N : f[n] = IF n = 0 THEN x ELSE FillTurn(f[n - 1].st, f[n - 1].rest, limits)
        BY <2>2
      <3>2. f[0] = x /\ \A n \in 1 .. N : f[n] = FillTurn(f[n - 1].st, f[n - 1].rest, limits)
        BY <3>1
      <3>3. f = [n \in 0 .. N |-> f[n]]
        BY <2>2
      <3>4. QED
        BY <2>1, <3>2, <3>3 DEF IsRun
    <2>3. ASSUME IsRun(f, "fill", x, limits, limits, N) PROVE f = G(f)
      BY <2>1, <2>3 DEF IsRun
    <2>4. QED
      BY <2>2, <2>3
  <1>3. \E f : f = G(f)
    BY <1>2, Iteration
  <1>4. PICK f : f = G(f) /\ FillFrames(st0, input, limits) = f[N].st
    BY <1>1, <1>3
  <1>5. QED
    BY <1>2, <1>4 DEF x

\* ConsumeFramed is what its last turn leaves.
LEMMA FramedLoop ==
    ASSUME NEW st0, NEW input, NEW limits, Len(input) \in Nat
    PROVE  \E turn : /\ IsRun(turn, "framed", [st |-> st0, rest |-> input], limits, limits, Len(input))
                     /\ ConsumeFramed(st0, input, limits) = turn[Len(input)].st
  <1> DEFINE N == Len(input)
             x == [st |-> st0, rest |-> input]
             G(f) == [n \in 0 .. N |-> IF n = 0 THEN x ELSE FramedTurn(f[n - 1].st, f[n - 1].rest, limits)]
  <1>1. ConsumeFramed(st0, input, limits) = (CHOOSE f : f = G(f))[N].st
    BY DEF ConsumeFramed
  <1> HIDE DEF x
  <1>2. \A f : f = G(f) <=> IsRun(f, "framed", x, limits, limits, N)
    <2> TAKE f
    <2>1. \A n \in 1 .. N : Turn("framed", n, f[n - 1], limits, limits) = FramedTurn(f[n - 1].st, f[n - 1].rest, limits)
      BY DEF Turn
    <2>2. ASSUME f = G(f) PROVE IsRun(f, "framed", x, limits, limits, N)
      <3>1. \A n \in 0 .. N : f[n] = IF n = 0 THEN x ELSE FramedTurn(f[n - 1].st, f[n - 1].rest, limits)
        BY <2>2
      <3>2. f[0] = x /\ \A n \in 1 .. N : f[n] = FramedTurn(f[n - 1].st, f[n - 1].rest, limits)
        BY <3>1
      <3>3. f = [n \in 0 .. N |-> f[n]]
        BY <2>2
      <3>4. QED
        BY <2>1, <3>2, <3>3 DEF IsRun
    <2>3. ASSUME IsRun(f, "framed", x, limits, limits, N) PROVE f = G(f)
      BY <2>1, <2>3 DEF IsRun
    <2>4. QED
      BY <2>2, <2>3
  <1>3. \E f : f = G(f)
    BY <1>2, Iteration
  <1>4. PICK f : f = G(f) /\ ConsumeFramed(st0, input, limits) = f[N].st
    BY <1>1, <1>3
  <1>5. QED
    BY <1>2, <1>4 DEF x

\* DecodeNext is what its last turn leaves.
LEMMA DecodeLoop ==
    ASSUME NEW st0, NEW limits, Len(st0.rest) \in Nat
    PROVE  \E turn : /\ IsRun(turn, "decode", st0, limits, limits, Len(st0.rest))
                     /\ DecodeNext(st0, limits) = turn[Len(st0.rest)]
  <1> DEFINE N == Len(st0.rest)
             x == st0
             G(f) == [n \in 0 .. N |-> IF n = 0 THEN x ELSE DecodeTurn(f[n - 1], limits)]
  <1>1. DecodeNext(st0, limits) = (CHOOSE f : f = G(f))[N]
    BY DEF DecodeNext
  <1> HIDE DEF x
  <1>2. \A f : f = G(f) <=> IsRun(f, "decode", x, limits, limits, N)
    <2> TAKE f
    <2>1. \A n \in 1 .. N : Turn("decode", n, f[n - 1], limits, limits) = DecodeTurn(f[n - 1], limits)
      BY DEF Turn
    <2>2. ASSUME f = G(f) PROVE IsRun(f, "decode", x, limits, limits, N)
      <3>1. \A n \in 0 .. N : f[n] = IF n = 0 THEN x ELSE DecodeTurn(f[n - 1], limits)
        BY <2>2
      <3>2. f[0] = x /\ \A n \in 1 .. N : f[n] = DecodeTurn(f[n - 1], limits)
        BY <3>1
      <3>3. f = [n \in 0 .. N |-> f[n]]
        BY <2>2
      <3>4. QED
        BY <2>1, <3>2, <3>3 DEF IsRun
    <2>3. ASSUME IsRun(f, "decode", x, limits, limits, N) PROVE f = G(f)
      <3>1. f[0] = x /\ f = [n \in 0 .. N |-> f[n]] /\ \A n \in 1 .. N : f[n] = DecodeTurn(f[n - 1], limits)
        BY <2>1, <2>3 DEF IsRun
      <3>2. \A n \in 0 .. N : f[n] = IF n = 0 THEN x ELSE DecodeTurn(f[n - 1], limits)
        BY <3>1
      <3>3. QED
        BY <3>1, <3>2
    <2>4. QED
      BY <2>2, <2>3
  <1>3. \E f : f = G(f)
    BY <1>2, Iteration
  <1>4. PICK f : f = G(f) /\ DecodeNext(st0, limits) = f[N]
    BY <1>1, <1>3
  <1>5. QED
    BY <1>2, <1>4 DEF x

\* Deliver is what its last turn leaves.
LEMMA DeliverLoop ==
    ASSUME NEW st0, NEW frames, NEW limits, Len(frames) \in Nat
    PROVE  \E turn : /\ IsRun(turn, "deliver", st0, frames, limits, Len(frames))
                     /\ Deliver(st0, frames, limits) = turn[Len(frames)]
  <1> DEFINE N == Len(frames)
             x == st0
             G(f) == [n \in 0 .. N |-> IF n = 0 THEN x ELSE DeliverFrame(f[n - 1], frames[n], limits)]
  <1>1. Deliver(st0, frames, limits) = (CHOOSE f : f = G(f))[N]
    BY DEF Deliver
  <1> HIDE DEF x
  <1>2. \A f : f = G(f) <=> IsRun(f, "deliver", x, frames, limits, N)
    <2> TAKE f
    <2>1. \A n \in 1 .. N : Turn("deliver", n, f[n - 1], frames, limits) = DeliverFrame(f[n - 1], frames[n], limits)
      BY DEF Turn
    <2>2. ASSUME f = G(f) PROVE IsRun(f, "deliver", x, frames, limits, N)
      <3>1. \A n \in 0 .. N : f[n] = IF n = 0 THEN x ELSE DeliverFrame(f[n - 1], frames[n], limits)
        BY <2>2
      <3>2. f[0] = x /\ \A n \in 1 .. N : f[n] = DeliverFrame(f[n - 1], frames[n], limits)
        BY <3>1
      <3>3. f = [n \in 0 .. N |-> f[n]]
        BY <2>2
      <3>4. QED
        BY <2>1, <3>2, <3>3 DEF IsRun
    <2>3. ASSUME IsRun(f, "deliver", x, frames, limits, N) PROVE f = G(f)
      BY <2>1, <2>3 DEF IsRun
    <2>4. QED
      BY <2>2, <2>3
  <1>3. \E f : f = G(f)
    BY <1>2, Iteration
  <1>4. PICK f : f = G(f) /\ Deliver(st0, frames, limits) = f[N]
    BY <1>1, <1>3
  <1>5. QED
    BY <1>2, <1>4 DEF x

\* Scan is what its last turn leaves.
LEMMA ScanLoop ==
    ASSUME NEW st0, NEW chunk, NEW limits, Len(chunk) \in Nat
    PROVE  \E turn : /\ IsRun(turn, "scan", [s |-> [st0 EXCEPT !.boundaries = <<>>], offset |-> 0], chunk, limits, Len(chunk))
                     /\ Scan(st0, chunk, limits) = turn[Len(chunk)].s
  <1> DEFINE N == Len(chunk)
             x == [s |-> [st0 EXCEPT !.boundaries = <<>>], offset |-> 0]
             G(f) == [n \in 0 .. N |-> IF n = 0 THEN x ELSE ScanTurn(f[n - 1].s, chunk, f[n - 1].offset, limits)]
  <1>1. Scan(st0, chunk, limits) = (CHOOSE f : f = G(f))[N].s
    BY DEF Scan
  <1> HIDE DEF x
  <1>2. \A f : f = G(f) <=> IsRun(f, "scan", x, chunk, limits, N)
    <2> TAKE f
    <2>1. \A n \in 1 .. N : Turn("scan", n, f[n - 1], chunk, limits) = ScanTurn(f[n - 1].s, chunk, f[n - 1].offset, limits)
      BY DEF Turn
    <2>2. ASSUME f = G(f) PROVE IsRun(f, "scan", x, chunk, limits, N)
      <3>1. \A n \in 0 .. N : f[n] = IF n = 0 THEN x ELSE ScanTurn(f[n - 1].s, chunk, f[n - 1].offset, limits)
        BY <2>2
      <3>2. f[0] = x /\ \A n \in 1 .. N : f[n] = ScanTurn(f[n - 1].s, chunk, f[n - 1].offset, limits)
        BY <3>1
      <3>3. f = [n \in 0 .. N |-> f[n]]
        BY <2>2
      <3>4. QED
        BY <2>1, <3>2, <3>3 DEF IsRun
    <2>3. ASSUME IsRun(f, "scan", x, chunk, limits, N) PROVE f = G(f)
      <3>1. f[0] = x /\ \A n \in 1 .. N : f[n] = ScanTurn(f[n - 1].s, chunk, f[n - 1].offset, limits)
        BY <2>1, <2>3 DEF IsRun
      <3>2. \A n \in 0 .. N : f[n] = IF n = 0 THEN x ELSE ScanTurn(f[n - 1].s, chunk, f[n - 1].offset, limits)
        BY <3>1
      <3>3. f = [n \in 0 .. N |-> f[n]]
        BY <2>3 DEF IsRun
      <3>4. QED
        BY <3>2, <3>3
    <2>4. QED
      BY <2>2, <2>3
  <1>3. \E f : f = G(f)
    BY <1>2, Iteration
  <1>4. PICK f : f = G(f) /\ Scan(st0, chunk, limits) = f[N].s
    BY <1>1, <1>3
  <1>5. QED
    BY <1>2, <1>4 DEF x

\* f[j] is what encryptBuffer has written after j of N frames.
Seals(f, data, requested, salt, limits, size, header, N) ==
    /\ IsRun(f, "seal", header, data, [size |-> size, header |-> header], N)
    /\ EncryptBuffer(data, requested, salt, limits) =
          IF \/ Len(data) > limits.maxInputBytes \/ size = 0 \/ N > limits.maxFrames
             \/ EncodedLength(Len(data), size) > limits.maxOutputBytes
          THEN Failed
          ELSE Result(f[N] \o EncryptFrame(<<>>, FINAL_FRAME, N, header))

\* encryptBuffer seals one frame after the other.
LEMMA SealLoop ==
    ASSUME NEW data, NEW requested, NEW salt, NEW limits, NEW size, NEW header, NEW N \in Nat,
           size = ResolveFrameSize(requested, limits), header = BuildHeader(size, salt),
           N = DataFrameCount(Len(data), size)
    PROVE  \E frame : Seals(frame, data, requested, salt, limits, size, header, N)
  <1> DEFINE b      == [size |-> size, header |-> header]
             SealedTo(i, x) == x \o EncryptFrame(SubSeq(data, (i - 1) * size + 1, Min({Len(data), i * size})),
                                              DATA_FRAME, i - 1, header)
             G(f)   == [i \in 0 .. N |-> IF i = 0 THEN header ELSE SealedTo(i, f[i - 1])]
             bad    == \/ Len(data) > limits.maxInputBytes \/ size = 0 \/ N > limits.maxFrames
                       \/ EncodedLength(Len(data), size) > limits.maxOutputBytes
  <1>1. EncryptBuffer(data, requested, salt, limits) =
          IF bad THEN Failed ELSE Result((CHOOSE f : f = G(f))[N] \o EncryptFrame(<<>>, FINAL_FRAME, N, header))
    BY DEF EncryptBuffer
  <1>0. N \in Nat
    OBVIOUS
  <1>2. b.size = size /\ b.header = header
    OBVIOUS
  <1> HIDE DEF b, bad
  <1>3. \A f : f = G(f) <=> IsRun(f, "seal", header, data, b, N)
    <2> TAKE f
    <2>1. \A n \in 1 .. N : Turn("seal", n, f[n - 1], data, b) = SealedTo(n, f[n - 1])
      BY <1>2 DEF Turn
    <2> HIDE DEF SealedTo
    <2>2. ASSUME f = G(f) PROVE IsRun(f, "seal", header, data, b, N)
      <3>1. \A n \in 0 .. N : f[n] = IF n = 0 THEN header ELSE SealedTo(n, f[n - 1])
        BY <2>2
      <3>2. f[0] = header /\ \A n \in 1 .. N : f[n] = SealedTo(n, f[n - 1])
        BY <1>0, <3>1
      <3>3. f = [n \in 0 .. N |-> f[n]]
        BY <2>2
      <3>4. QED
        BY <2>1, <3>2, <3>3 DEF IsRun
    <2>3. ASSUME IsRun(f, "seal", header, data, b, N) PROVE f = G(f)
      <3>1. f[0] = header /\ \A n \in 1 .. N : f[n] = SealedTo(n, f[n - 1])
        BY <2>1, <2>3 DEF IsRun
      <3>2. \A n \in 0 .. N : f[n] = IF n = 0 THEN header ELSE SealedTo(n, f[n - 1])
        BY <1>0, <3>1
      <3>3. f = [n \in 0 .. N |-> f[n]]
        BY <2>3 DEF IsRun
      <3>4. QED
        BY <3>2, <3>3
    <2>4. QED
      BY <2>2, <2>3
  <1>4. \E f : f = G(f)
    <2>1. \E f : IsRun(f, "seal", header, data, b, N)
      BY <1>0, Iteration
    <2> HIDE DEF G
    <2>2. QED
      BY <1>3, <2>1
  <1>5. PICK f : f = G(f) /\ f = (CHOOSE g : g = G(g))
    BY <1>4
  <1>6. IsRun(f, "seal", header, data, b, N)
    <2>1. f = G(f) => IsRun(f, "seal", header, data, b, N)
      BY <1>3
    <2>2. QED
      BY <1>5, <2>1
  <1>7. EncryptBuffer(data, requested, salt, limits) =
          IF bad THEN Failed ELSE Result(f[N] \o EncryptFrame(<<>>, FINAL_FRAME, N, header))
    BY <1>1, <1>5
  <1>8. QED
    BY <1>6, <1>7, Zenon DEF Seals, b, bad

\* f[j] is what the loop of decryptBuffer has after j turns.
Opens(f, data, header, limits) ==
    LET last == f[Len(data)]
    IN  /\ IsRun(f, "buffer", [data |-> data, sequence |-> 0, finalSeen |-> FALSE, plaintext |-> <<>>, failed |-> FALSE],
                 header, limits, Len(data))
        /\ DecryptFrames(data, header, limits) =
              IF last.failed \/ ~last.finalSeen THEN Failed ELSE Result(last.plaintext)

\* decryptBuffer opens one frame after the other.
LEMMA BufferLoop ==
    ASSUME NEW data, NEW header, NEW limits, Len(data) \in Nat
    PROVE  \E turn : Opens(turn, data, header, limits)
  <1> DEFINE x == [data |-> data, sequence |-> 0, finalSeen |-> FALSE, plaintext |-> <<>>, failed |-> FALSE]
             N == Len(data)
             G(f) == [n \in 0 .. N |-> IF n = 0 THEN x ELSE BufferTurn(f[n - 1], header, limits)]
             Out(f) == IF f[N].failed \/ ~f[N].finalSeen THEN Failed ELSE Result(f[N].plaintext)
  <1>1. DecryptFrames(data, header, limits) = Out(CHOOSE f : f = G(f))
    BY Zenon DEF DecryptFrames
  <1> HIDE DEF x
  <1>2. \A f : f = G(f) <=> IsRun(f, "buffer", x, header, limits, N)
    <2> TAKE f
    <2>1. \A n \in 1 .. N : Turn("buffer", n, f[n - 1], header, limits) = BufferTurn(f[n - 1], header, limits)
      BY DEF Turn
    <2>2. ASSUME f = G(f) PROVE IsRun(f, "buffer", x, header, limits, N)
      <3>1. \A n \in 0 .. N : f[n] = IF n = 0 THEN x ELSE BufferTurn(f[n - 1], header, limits)
        BY <2>2
      <3>2. f[0] = x /\ \A n \in 1 .. N : f[n] = BufferTurn(f[n - 1], header, limits)
        BY <3>1
      <3>3. f = [n \in 0 .. N |-> f[n]]
        BY <2>2
      <3>4. QED
        BY <2>1, <3>2, <3>3 DEF IsRun
    <2>3. ASSUME IsRun(f, "buffer", x, header, limits, N) PROVE f = G(f)
      <3>1. f[0] = x /\ \A n \in 1 .. N : f[n] = BufferTurn(f[n - 1], header, limits)
        BY <2>1, <2>3 DEF IsRun
      <3>2. \A n \in 0 .. N : f[n] = IF n = 0 THEN x ELSE BufferTurn(f[n - 1], header, limits)
        BY <3>1
      <3>3. f = [n \in 0 .. N |-> f[n]]
        BY <2>3 DEF IsRun
      <3>4. QED
        BY <3>2, <3>3
    <2>4. QED
      BY <2>2, <2>3
  <1>3. \E f : f = G(f)
    BY <1>2, Iteration
  <1> HIDE DEF Out
  <1>4. PICK f : f = G(f) /\ DecryptFrames(data, header, limits) = Out(f)
    BY <1>1, <1>3
  <1>5. QED
    BY <1>2, <1>4, Zenon DEF Opens, x, Out

(***************************************************************************)
(* Sequences.                                                              *)
(***************************************************************************)

\* The smaller and the larger of two numbers.
LEMMA MinMax ==
    ASSUME NEW a \in Int, NEW b \in Int
    PROVE  /\ Min({a, b}) = IF a <= b THEN a ELSE b
           /\ Max({a, b}) = IF a <= b THEN b ELSE a
  <1> DEFINE lo == IF a <= b THEN a ELSE b
             hi == IF a <= b THEN b ELSE a
  <1>1. /\ lo \in {a, b} /\ \A y \in {a, b} : lo <= y
        /\ \A x \in {a, b} : (\A y \in {a, b} : x <= y) => x = lo
    OBVIOUS
  <1>2. /\ hi \in {a, b} /\ \A y \in {a, b} : hi >= y
        /\ \A x \in {a, b} : (\A y \in {a, b} : x >= y) => x = hi
    OBVIOUS
  <1> HIDE DEF lo, hi
  <1>3. Min({a, b}) = lo
    BY <1>1 DEF Min
  <1>4. Max({a, b}) = hi
    BY <1>2 DEF Max
  <1>5. QED
    BY <1>3, <1>4 DEF lo, hi

\* A sequence is cut in two.
LEMMA Cut ==
    ASSUME NEW R, NEW s \in Seq(R), NEW n \in 0 .. Len(s)
    PROVE  /\ SubSeq(s, 1, n) \in Seq(R) /\ Len(SubSeq(s, 1, n)) = n
           /\ SubSeq(s, n + 1, Len(s)) \in Seq(R) /\ Len(SubSeq(s, n + 1, Len(s))) = Len(s) - n
           /\ \A i \in 1 .. n : SubSeq(s, 1, n)[i] = s[i]
           /\ \A i \in 1 .. Len(s) - n : SubSeq(s, n + 1, Len(s))[i] = s[n + i]
  OBVIOUS

\* n elements behind the first p.
Window(s, p, n) == SubSeq(s, p + 1, p + n)

\* A window has its elements.
LEMMA WindowElements ==
    ASSUME NEW R, NEW s \in Seq(R), NEW p \in Nat, NEW n \in Nat, p + n <= Len(s)
    PROVE  /\ Window(s, p, n) \in Seq(R)
           /\ Len(Window(s, p, n)) = n
           /\ \A i \in 1 .. n : Window(s, p, n)[i] = s[p + i]
  BY DEF Window

\* What is taken from a window, and what is left of it, are windows.
LEMMA WindowCut ==
    ASSUME NEW R, NEW s \in Seq(R), NEW p \in Nat, NEW n \in Nat, p + n <= Len(s), NEW j \in 0 .. n
    PROVE  /\ Take(Window(s, p, n), j) = Window(s, p, j)
           /\ Drop(Window(s, p, n), j) = Window(s, p + j, n - j)
           /\ SubSeq(Window(s, p, n), j + 1, n) = Window(s, p + j, n - j)
  <1> DEFINE w == Window(s, p, n)
             u == Window(s, p, j)
             v == Window(s, p + j, n - j)
  <1>0. j \in Nat /\ p + j <= Len(s) /\ p + j \in Nat /\ n - j \in Nat /\ (p + j) + (n - j) <= Len(s)
    OBVIOUS
  <1>1. /\ w \in Seq(R) /\ Len(w) = n /\ \A i \in 1 .. n : w[i] = s[p + i]
        /\ u \in Seq(R) /\ Len(u) = j /\ \A i \in 1 .. j : u[i] = s[p + i]
        /\ v \in Seq(R) /\ Len(v) = n - j /\ \A i \in 1 .. n - j : v[i] = s[(p + j) + i]
    <2>1. w \in Seq(R) /\ Len(w) = n /\ \A i \in 1 .. n : w[i] = s[p + i]
      BY WindowElements
    <2>2. u \in Seq(R) /\ Len(u) = j /\ \A i \in 1 .. j : u[i] = s[p + i]
      BY <1>0, WindowElements
    <2>3. v \in Seq(R) /\ Len(v) = n - j /\ \A i \in 1 .. n - j : v[i] = s[(p + j) + i]
      BY <1>0, WindowElements
    <2>4. QED
      BY <2>1, <2>2, <2>3
  <1> HIDE DEF w, u, v
  <1> DEFINE x == SubSeq(w, 1, j)
             y == SubSeq(w, j + 1, n)
  <1>2. x \in Seq(R) /\ Len(x) = j /\ \A i \in 1 .. j : x[i] = w[i]
    BY <1>1
  <1>3. y \in Seq(R) /\ Len(y) = n - j /\ \A i \in 1 .. n - j : y[i] = w[j + i]
    BY <1>1
  <1> HIDE DEF x, y
  <1>4. x = u
    <2>1. ASSUME NEW i \in 1 .. Len(x) PROVE x[i] = u[i]
      <3>1. i \in 1 .. j /\ i \in 1 .. n
        BY <1>2
      <3>2. QED
        BY <1>1, <1>2, <3>1
    <2>2. QED
      BY <1>1, <1>2, <2>1, SeqEqual
  <1>5. y = v
    <2>1. ASSUME NEW i \in 1 .. Len(y) PROVE y[i] = v[i]
      <3>1. i \in 1 .. n - j /\ j + i \in 1 .. n /\ p + (j + i) = (p + j) + i
        BY <1>3
      <3>2. y[i] = w[j + i] /\ w[j + i] = s[p + (j + i)] /\ v[i] = s[(p + j) + i]
        BY <1>1, <1>3, <3>1
      <3>3. QED
        BY <3>1, <3>2
    <2>2. QED
      BY <1>1, <1>3, <2>1, SeqEqual
  <1>6. QED
    BY <1>1, <1>4, <1>5 DEF w, u, v, x, y, Take, Drop

\* Adjacent windows.
LEMMA WindowJoin ==
    ASSUME NEW R, NEW s \in Seq(R), NEW p \in Nat, NEW n \in Nat, NEW j \in Nat, p + n + j <= Len(s)
    PROVE  Window(s, p, n) \o Window(s, p + n, j) = Window(s, p, n + j)
  <1>1. /\ p + 1 \in 1 .. Len(s) + 1 /\ p + n \in (p + 1) - 1 .. Len(s)
        /\ p + (n + j) \in p + n .. Len(s) /\ (p + n) + j = p + (n + j) /\ Len(s) \in Nat
    OBVIOUS
  <1>2. SubSeq(s, p + 1, p + n) \o SubSeq(s, (p + n) + 1, p + (n + j)) = SubSeq(s, p + 1, p + (n + j))
    BY <1>1, ConcatAdjacentSubSeq
  <1>3. QED
    BY <1>1, <1>2 DEF Window

\* The empty window, and the whole.
LEMMA WindowEnds ==
    ASSUME NEW R, NEW s \in Seq(R), NEW p \in 0 .. Len(s)
    PROVE  Window(s, p, 0) = <<>> /\ Window(s, 0, Len(s)) = s
  <1>1. Window(s, p, 0) = <<>>
    BY DEF Window
  <1>2. Window(s, 0, Len(s)) = s
    BY SubSeqFull DEF Window
  <1>3. QED
    BY <1>1, <1>2

(***************************************************************************)
(* Secrets.  What a Transform is between two calls, as far as its key is   *)
(* concerned.                                                              *)
(***************************************************************************)

EncryptFields == {"header", "size", "pending", "inputBytes", "dataFrames", "headerSent", "out", "key", "failed"}

DecryptFields == {"format", "totalInput", "globalHeader", "frameHeader", "frameBody", "expected", "dataFrames",
                  "finalSeen", "legacyChunks", "out", "key", "failed"}

EncryptSafe(s) ==
    /\ DOMAIN s = EncryptFields
    /\ s.failed \in BOOLEAN
    /\ s.failed => s.key # "live" /\ s.pending = <<>>

DecryptSafe(s) ==
    /\ DOMAIN s = DecryptFields
    /\ s.failed \in BOOLEAN
    /\ s.failed => s.key # "live"

\* One turn of the loop of the encrypting transform() keeps the key safe.
LEMMA FillTurnSafe ==
    ASSUME NEW s, NEW rest, NEW limits, EncryptSafe(s)
    PROVE  EncryptSafe(FillTurn(s, rest, limits).st)
  BY DEF EncryptSafe, EncryptFields, FillTurn, PushData, EncryptError, EncryptCleanup

\* And so does the loop.
LEMMA FillFramesSafe ==
    ASSUME NEW s, NEW input, NEW limits, Len(input) \in Nat, EncryptSafe(s)
    PROVE  EncryptSafe(FillFrames(s, input, limits))
  <1>1. PICK turn : /\ IsRun(turn, "fill", [st |-> s, rest |-> input], limits, limits, Len(input))
                    /\ FillFrames(s, input, limits) = turn[Len(input)].st
    BY FillLoop
  <1> DEFINE P == {n \in 0 .. Len(input) : EncryptSafe(turn[n].st)}
  <1>2. 0 \in P
    <2>1. turn[0].st = s
      BY <1>1 DEF IsRun
    <2>2. QED
      BY <2>1
  <1>3. ASSUME NEW n \in 1 .. Len(input), n - 1 \in P PROVE n \in P
    <2>1. turn[n] = FillTurn(turn[n - 1].st, turn[n - 1].rest, limits)
      BY <1>1 DEF IsRun, Turn
    <2>2. QED
      BY <1>3, <2>1, FillTurnSafe
  <1> HIDE DEF P
  <1>4. Len(input) \in P
    BY <1>2, <1>3, UpTo
  <1>5. QED
    BY <1>1, <1>4 DEF P

\* The calls of the encrypting Transform keep the key safe; after flush(),
\* successful or not, and after destroy() it is gone.
LEMMA EncryptCallsSafe ==
    ASSUME NEW s, NEW input, NEW limits, Len(input) \in Nat, EncryptSafe(s)
    PROVE  /\ EncryptSafe(EncryptTransform(s, input, limits))
           /\ EncryptSafe(EncryptFlush(s, limits))
           /\ EncryptFlush(s, limits).key # "live" /\ EncryptFlush(s, limits).pending = <<>>
           /\ EncryptCleanup(s).key # "live" /\ EncryptCleanup(s).pending = <<>>
           /\ EncryptSafe(EncryptCleanup(s))
  <1>1. EncryptSafe(EncryptError(s)) /\ EncryptSafe(EncryptCleanup(s))
    BY DEF EncryptSafe, EncryptFields, EncryptError, EncryptCleanup
  <1>2. EncryptSafe(EncryptTransform(s, input, limits))
    <2> DEFINE read == SendHeader([s EXCEPT !.inputBytes = s.inputBytes + Len(input)])
    <2>1. EncryptSafe(read)
      BY DEF EncryptSafe, EncryptFields, SendHeader
    <2>2. EncryptSafe(FillFrames(read, input, limits))
      BY <2>1, FillFramesSafe
    <2>3. EncryptTransform(s, input, limits) \in {EncryptError(s), FillFrames(read, input, limits)}
      BY Zenon DEF EncryptTransform
    <2> HIDE DEF read
    <2>4. QED
      BY <1>1, <2>2, <2>3
  <1>3. /\ EncryptSafe(EncryptFlush(s, limits))
        /\ EncryptFlush(s, limits).key # "live" /\ EncryptFlush(s, limits).pending = <<>>
    BY DEF EncryptSafe, EncryptFields, EncryptFlush, SendHeader, PushData, EncryptError, EncryptCleanup
  <1>4. EncryptCleanup(s).key # "live" /\ EncryptCleanup(s).pending = <<>>
    BY DEF EncryptSafe, EncryptFields, EncryptCleanup
  <1>5. QED
    BY <1>1, <1>2, <1>3, <1>4

\* One turn of the loop of consumeFramed keeps the key safe.
LEMMA FramedTurnSafe ==
    ASSUME NEW s, NEW rest, NEW limits, DecryptSafe(s)
    PROVE  DecryptSafe(FramedTurn(s, rest, limits).st)
  BY DEF DecryptSafe, DecryptFields, FramedTurn, OpenFrame, DecryptError, DecryptCleanup

\* And so does the loop.
LEMMA ConsumeFramedSafe ==
    ASSUME NEW s, NEW input, NEW limits, Len(input) \in Nat, DecryptSafe(s)
    PROVE  DecryptSafe(ConsumeFramed(s, input, limits))
  <1>1. PICK turn : /\ IsRun(turn, "framed", [st |-> s, rest |-> input], limits, limits, Len(input))
                    /\ ConsumeFramed(s, input, limits) = turn[Len(input)].st
    BY FramedLoop
  <1> DEFINE P == {n \in 0 .. Len(input) : DecryptSafe(turn[n].st)}
  <1>2. 0 \in P
    <2>1. turn[0].st = s
      BY <1>1 DEF IsRun
    <2>2. QED
      BY <2>1
  <1>3. ASSUME NEW n \in 1 .. Len(input), n - 1 \in P PROVE n \in P
    <2>1. turn[n] = FramedTurn(turn[n - 1].st, turn[n - 1].rest, limits)
      BY <1>1 DEF IsRun, Turn
    <2>2. QED
      BY <1>3, <2>1, FramedTurnSafe
  <1> HIDE DEF P
  <1>4. Len(input) \in P
    BY <1>2, <1>3, UpTo
  <1>5. QED
    BY <1>1, <1>4 DEF P

\* The calls of the decrypting Transform keep the key safe; after flush(),
\* successful or not, and after destroy() it is gone.
LEMMA DecryptCallsSafe ==
    ASSUME NEW s, NEW input, NEW allowLegacy, NEW limits, Len(input) \in Nat, DecryptSafe(s)
    PROVE  /\ DecryptSafe(DecryptTransform(s, input, allowLegacy, limits))
           /\ DecryptSafe(DecryptFlush(s, limits)) /\ DecryptFlush(s, limits).key # "live"
           /\ DecryptSafe(DecryptCleanup(s)) /\ DecryptCleanup(s).key # "live"
  <1>1. ASSUME NEW t, DecryptSafe(t)
        PROVE  /\ DecryptSafe(DecryptError(t)) /\ DecryptError(t).key # "live"
               /\ DecryptSafe(DecryptCleanup(t)) /\ DecryptCleanup(t).key # "live"
    BY <1>1 DEF DecryptSafe, DecryptFields, DecryptError, DecryptCleanup
  <1>2. DecryptSafe(DecryptTransform(s, input, allowLegacy, limits))
    <2> DEFINE read   == [s EXCEPT !.totalInput = s.totalInput + Len(input)]
               format == IF s.format # "unknown" THEN s.format
                         ELSE IF input[1] = MAGIC[1] THEN "framed" ELSE "legacy"
               kept   == [read EXCEPT !.format = format, !.legacyChunks = read.legacyChunks \o input]
               framed == [read EXCEPT !.format = format]
    <2>1. DecryptSafe(read) /\ DecryptSafe(kept) /\ DecryptSafe(framed)
      BY DEF DecryptSafe, DecryptFields
    <2>2. DecryptSafe(ConsumeFramed(framed, input, limits))
      BY <2>1, ConsumeFramedSafe
    <2>3. DecryptTransform(s, input, allowLegacy, limits)
            \in {DecryptError(s), read, DecryptError(read), kept, ConsumeFramed(framed, input, limits)}
      BY Zenon DEF DecryptTransform
    <2> HIDE DEF read, format, kept, framed
    <2>4. QED
      BY <1>1, <2>1, <2>2, <2>3
  <1>3. DecryptSafe(DecryptFlush(s, limits)) /\ DecryptFlush(s, limits).key # "live"
    <2>1. \A x : /\ DecryptSafe([DecryptCleanup(s) EXCEPT !.out = x])
                 /\ [DecryptCleanup(s) EXCEPT !.out = x].key # "live"
      BY <1>1 DEF DecryptSafe, DecryptFields
    <2>2. QED
      BY <1>1, <2>1 DEF DecryptFlush
  <1>4. QED
    BY <1>1, <1>2, <1>3

(***************************************************************************)
(* The frame scanner: its boundaries are a sequence, so the frames it      *)
(* finds are one.                                                          *)
(***************************************************************************)

IsSequence(x) == \E S : x \in Seq(S)

ScannerSafe(s) == "boundaries" \in DOMAIN s /\ IsSequence(s.boundaries)

\* t has the boundaries of s.
SameBoundaries(s, t) == DOMAIN t = DOMAIN s /\ t.boundaries = s.boundaries

\* Appending keeps a sequence a sequence.
LEMMA AppendSequence ==
    ASSUME NEW x, NEW e, IsSequence(x)
    PROVE  IsSequence(Append(x, e))
  <1>1. PICK S : x \in Seq(S)
    BY DEF IsSequence
  <1>2. x \in Seq(S \cup {e}) /\ e \in S \cup {e}
    BY <1>1
  <1>3. Append(x, e) \in Seq(S \cup {e})
    BY <1>2
  <1>4. QED
    BY <1>3 DEF IsSequence

\* Only complete() and scan() change the boundaries.
LEMMA TokenBoundaries ==
    ASSUME NEW s, NEW x, NEW y, NEW limits
    PROVE  /\ SameBoundaries(s, Throw(s))
           /\ SameBoundaries(s, ConsumeBytes(s, x, limits))
           /\ SameBoundaries(s, EnsureMinimumRemaining(s, x, limits))
           /\ SameBoundaries(s, AddChildren(s, x, limits))
           /\ SameBoundaries(s, SetPayload(s, x, limits))
           /\ SameBoundaries(s, SetExtensionPayload(s, x, limits))
           /\ SameBoundaries(s, ReadLength(s, x, y))
  <1>1. /\ SameBoundaries(s, Throw(s))
        /\ SameBoundaries(s, ConsumeBytes(s, x, limits))
        /\ SameBoundaries(s, EnsureMinimumRemaining(s, x, limits))
        /\ SameBoundaries(s, ReadLength(s, x, y))
    BY DEF SameBoundaries, Throw, ConsumeBytes, EnsureMinimumRemaining, ReadLength
  <1>2. SameBoundaries(s, AddChildren(s, x, limits))
    BY DEF SameBoundaries, Throw, EnsureMinimumRemaining, AddChildren
  <1>3. \A z : SameBoundaries(s, SetPayload(s, z, limits))
    BY DEF SameBoundaries, Throw, EnsureMinimumRemaining, SetPayload
  <1>4. SameBoundaries(s, SetExtensionPayload(s, x, limits))
    BY <1>3 DEF SameBoundaries, SetExtensionPayload
  <1>5. QED
    BY <1>1, <1>2, <1>3, <1>4

\* A token and a length leave them alone.
LEMMA ReadBoundaries ==
    ASSUME NEW s, NEW token, NEW kind, NEW limits
    PROVE  SameBoundaries(s, ReadToken(s, token, limits)) /\ SameBoundaries(s, ApplyLength(s, kind, token, limits))
  <1>1. /\ SameBoundaries(s, Throw(s))
        /\ \A x, y : SameBoundaries(s, ReadLength(s, x, y))
        /\ \A x : /\ SameBoundaries(s, AddChildren(s, x, limits))
                  /\ SameBoundaries(s, SetPayload(s, x, limits))
                  /\ SameBoundaries(s, SetExtensionPayload(s, x, limits))
    BY TokenBoundaries
  <1>2. SameBoundaries(s, ReadToken(s, token, limits))
    <2>1. SameBoundaries(s, s)
      BY DEF SameBoundaries
    <2>2. QED
      BY <1>1, <2>1 DEF ReadToken
  <1>3. SameBoundaries(s, ApplyLength(s, kind, token, limits))
    BY <1>1 DEF ApplyLength
  <1>4. QED
    BY <1>2, <1>3

\* complete() appends one boundary.
LEMMA CompleteSafe ==
    ASSUME NEW s, NEW offset, NEW limits, ScannerSafe(s)
    PROVE  ScannerSafe(CompleteIfReady(s, offset, limits))
  <1>1. IsSequence(Append(s.boundaries, offset))
    BY AppendSequence DEF ScannerSafe
  <1>2. CompleteIfReady(s, offset, limits).boundaries \in {s.boundaries, Append(s.boundaries, offset)}
    BY DEF CompleteIfReady, Throw, ScannerSafe
  <1>3. DOMAIN CompleteIfReady(s, offset, limits) = DOMAIN s
    BY DEF CompleteIfReady, Throw
  <1>4. QED
    BY <1>1, <1>2, <1>3 DEF ScannerSafe

\* One turn of scan().
LEMMA ScanTurnSafe ==
    ASSUME NEW s, NEW chunk, NEW offset, NEW limits, ScannerSafe(s)
    PROVE  ScannerSafe(ScanTurn(s, chunk, offset, limits).s)
  <1>1. ASSUME NEW t, SameBoundaries(s, t) PROVE ScannerSafe(t)
    BY <1>1 DEF SameBoundaries, ScannerSafe
  <1>2. \A byte : ScannerSafe(ExtensionType(s, byte, offset, limits).s)
    <2> TAKE byte
    <2> DEFINE read == [ConsumeBytes(s, 1, limits) EXCEPT !.payloadBytes = ConsumeBytes(s, 1, limits).payloadBytes - 1,
                                                          !.extensionTypePending = FALSE]
               more == AddChildren(read, 1, limits)
               kept == IF byte \in WithChild THEN EnsureMinimumRemaining(more, read.payloadBytes, limits)
                       ELSE IF byte \in Opaque THEN read ELSE Throw(read)
    <2>1. SameBoundaries(s, read)
      BY TokenBoundaries DEF SameBoundaries
    <2> HIDE DEF read
    <2>2. SameBoundaries(s, kept)
      <3>1. SameBoundaries(read, more) /\ SameBoundaries(read, Throw(read))
        BY TokenBoundaries
      <3> HIDE DEF more
      <3>2. SameBoundaries(more, EnsureMinimumRemaining(more, read.payloadBytes, limits))
        BY TokenBoundaries
      <3>3. QED
        BY <2>1, <3>1, <3>2 DEF SameBoundaries
    <2> HIDE DEF kept
    <2>3. ScannerSafe(kept) /\ ScannerSafe(CompleteIfReady(kept, offset + 1, limits))
      BY <1>1, <2>2, CompleteSafe
    <2>4. ExtensionType(s, byte, offset, limits).s \in {kept, CompleteIfReady(kept, offset + 1, limits)}
      BY DEF ExtensionType, kept, read
    <2>5. QED
      BY <2>3, <2>4
  <1>3. \A available : ScannerSafe(Payload(s, available, offset, limits).s)
    <2> TAKE available
    <2> DEFINE consumed == Min({s.payloadBytes, available})
               after == ConsumeBytes(s, consumed, limits)
               read  == [after EXCEPT !.payloadBytes = after.payloadBytes - consumed]
               kept  == IF read.payloadBytes > 0 /\ read.frameBytes = limits.maxFrameBytes THEN Throw(read) ELSE read
    <2>1. SameBoundaries(s, after)
      BY TokenBoundaries
    <2> HIDE DEF after
    <2>2. SameBoundaries(s, read)
      BY <2>1 DEF SameBoundaries
    <2> HIDE DEF read
    <2>3. SameBoundaries(s, kept)
      BY <2>2, TokenBoundaries DEF SameBoundaries
    <2> HIDE DEF kept
    <2>4. ScannerSafe(kept) /\ ScannerSafe(CompleteIfReady(kept, offset + consumed, limits))
      BY <1>1, <2>3, CompleteSafe
    <2>5. Payload(s, available, offset, limits).s \in {kept, CompleteIfReady(kept, offset + consumed, limits)}
      BY DEF Payload, kept, read, after
    <2>6. QED
      BY <2>4, <2>5
  <1>4. \A byte : ScannerSafe(LengthByte(s, byte, offset, limits).s)
    <2> TAKE byte
    <2> DEFINE after == ConsumeBytes(s, 1, limits)
               read  == [after EXCEPT !.pending.value = after.pending.value * 256 + byte,
                                      !.pending.read = after.pending.read + 1]
               bare  == [read EXCEPT !.pending = NoLength]
               done  == ApplyLength(bare, read.pending.kind, read.pending.value, limits)
    <2>1. SameBoundaries(s, after)
      BY TokenBoundaries
    <2> HIDE DEF after
    <2>2. SameBoundaries(s, read)
      BY <2>1 DEF SameBoundaries
    <2> HIDE DEF read
    <2>3. SameBoundaries(s, bare)
      BY <2>2 DEF SameBoundaries
    <2> HIDE DEF bare
    <2>4. SameBoundaries(s, done)
      BY <2>3, ReadBoundaries DEF SameBoundaries
    <2> HIDE DEF done
    <2>5. ScannerSafe(read) /\ ScannerSafe(CompleteIfReady(done, offset + 1, limits))
      BY <1>1, <2>2, <2>4, CompleteSafe
    <2>6. LengthByte(s, byte, offset, limits).s \in {read, CompleteIfReady(done, offset + 1, limits)}
      BY DEF LengthByte, read, after, bare, done
    <2>7. QED
      BY <2>5, <2>6
  <1>5. \A byte : ScannerSafe(Token(s, byte, offset, limits).s)
    <2> TAKE byte
    <2> DEFINE after == ConsumeBytes(s, 1, limits)
               read  == [after EXCEPT !.remainingValues = after.remainingValues - 1]
               kept  == IF read.remainingValues < 0 THEN Throw(read) ELSE read
               done  == ReadToken(kept, byte, limits)
    <2>1. SameBoundaries(s, after)
      BY TokenBoundaries
    <2> HIDE DEF after
    <2>2. SameBoundaries(s, read)
      BY <2>1 DEF SameBoundaries
    <2> HIDE DEF read
    <2>3. SameBoundaries(s, kept)
      BY <2>2, TokenBoundaries DEF SameBoundaries
    <2> HIDE DEF kept
    <2>4. SameBoundaries(s, done)
      BY <2>3, ReadBoundaries DEF SameBoundaries
    <2> HIDE DEF done
    <2>5. ScannerSafe(CompleteIfReady(done, offset + 1, limits))
      BY <1>1, <2>4, CompleteSafe
    <2>6. Token(s, byte, offset, limits).s = CompleteIfReady(done, offset + 1, limits)
      BY DEF Token, read, after, kept, done
    <2>7. QED
      BY <2>5, <2>6
  <1>6. QED
    BY <1>2, <1>3, <1>4, <1>5 DEF ScanTurn

\* scan().
LEMMA ScanSafe ==
    ASSUME NEW s, NEW chunk, NEW limits, Len(chunk) \in Nat, "boundaries" \in DOMAIN s
    PROVE  ScannerSafe(Scan(s, chunk, limits))
  <1> DEFINE bare == [s EXCEPT !.boundaries = <<>>]
  <1>1. ScannerSafe(bare)
    <2>1. <<>> \in Seq({})
      OBVIOUS
    <2>2. QED
      BY <2>1 DEF ScannerSafe, IsSequence
  <1>2. PICK turn : /\ IsRun(turn, "scan", [s |-> bare, offset |-> 0], chunk, limits, Len(chunk))
                    /\ Scan(s, chunk, limits) = turn[Len(chunk)].s
    BY ScanLoop
  <1> HIDE DEF bare
  <1> DEFINE P == {n \in 0 .. Len(chunk) : ScannerSafe(turn[n].s)}
  <1>3. 0 \in P
    <2>1. turn[0].s = bare
      BY <1>2 DEF IsRun
    <2>2. QED
      BY <1>1, <2>1
  <1>4. ASSUME NEW n \in 1 .. Len(chunk), n - 1 \in P PROVE n \in P
    <2>1. turn[n] = ScanTurn(turn[n - 1].s, chunk, turn[n - 1].offset, limits)
      BY <1>2 DEF IsRun, Turn
    <2>2. QED
      BY <1>4, <2>1, ScanTurnSafe
  <1> HIDE DEF P
  <1>5. Len(chunk) \in P
    BY <1>3, <1>4, UpTo
  <1>6. QED
    BY <1>2, <1>5 DEF P

FrameFields  == {"scanner", "held", "out", "key", "failed"}
UnpackFields == {"total", "frame", "seen", "out", "key", "failed"}

FrameSafe(f) ==
    /\ DOMAIN f = FrameFields
    /\ "boundaries" \in DOMAIN f.scanner
    /\ f.key = "none"

UnpackSafe(s) ==
    /\ DOMAIN s = UnpackFields
    /\ FrameSafe(s.frame)
    /\ s.key = "none"

\* The limit Transform keeps its shape, and what it pushes is a sequence.
LEMMA FrameLimitSafe ==
    ASSUME NEW f, NEW input, NEW limits, Len(input) \in Nat, FrameSafe(f)
    PROVE  /\ FrameSafe(FrameLimitTransform(f, input, limits))
           /\ f.out = <<>> => Len(FrameLimitTransform(f, input, limits).out) \in Nat
           /\ FrameSafe(FrameLimitFlush(f))
           /\ FrameSafe([f EXCEPT !.out = <<>>]) /\ [f EXCEPT !.out = <<>>].out = <<>>
  <1>0. /\ FrameSafe(FrameLimitFlush(f))
        /\ FrameSafe([f EXCEPT !.out = <<>>]) /\ [f EXCEPT !.out = <<>>].out = <<>>
    BY DEF FrameSafe, FrameFields, FrameLimitFlush
  <1> DEFINE s     == Scan(f.scanner, input, limits)
             ends  == s.boundaries
             start == [i \in 1 .. Len(ends) + 1 |-> IF i = 1 THEN 0 ELSE ends[i - 1]]
             part  == [i \in 1 .. Len(ends) |-> SubSeq(input, start[i] + 1, ends[i])]
             piece(i) == IF i = 1 THEN f.held \o part[i] ELSE part[i]
             whole == [i \in 1 .. Len(ends) |-> piece(i)]
             tail  == SubSeq(input, start[Len(ends) + 1] + 1, Len(input))
             next  == [f EXCEPT !.scanner = [s EXCEPT !.boundaries = <<>>], !.out = f.out \o whole,
                                !.held = IF ends = <<>> THEN f.held \o tail ELSE tail]
  <1>1. FrameLimitTransform(f, input, limits) = IF s.failed THEN [f EXCEPT !.failed = TRUE] ELSE next
    BY Zenon DEF FrameLimitTransform
  <1>2. ScannerSafe(s)
    BY ScanSafe DEF FrameSafe
  <1>3. Len(ends) \in Nat
    BY <1>2 DEF ScannerSafe, IsSequence
  <1> HIDE DEF s, ends, piece, start, part, tail
  <1>6. \E S : whole \in Seq(S)
    <2> DEFINE S == {piece(i) : i \in 1 .. Len(ends)}
    <2>1. whole \in [1 .. Len(ends) -> S]
      OBVIOUS
    <2>2. whole \in Seq(S)
      BY <1>3, <2>1, SeqDef
    <2>3. QED
      BY <2>2
  <1> HIDE DEF whole
  <1>7. f.out = <<>> => Len(f.out \o whole) \in Nat
    BY <1>6
  <1>8. next.out = f.out \o whole /\ DOMAIN next = FrameFields /\ next.key = "none"
    BY DEF FrameSafe, FrameFields
  <1>9. "boundaries" \in DOMAIN next.scanner
    <2>1. next.scanner = [s EXCEPT !.boundaries = <<>>]
      BY DEF FrameSafe, FrameFields
    <2>2. QED
      BY <1>2, <2>1 DEF ScannerSafe
  <1>10. FrameSafe([f EXCEPT !.failed = TRUE]) /\ [f EXCEPT !.failed = TRUE].out = f.out
    BY DEF FrameSafe, FrameFields
  <1> HIDE DEF next
  <1>11. QED
    BY <1>0, <1>1, <1>7, <1>8, <1>9, <1>10 DEF FrameSafe

\* One frame of unpack.
LEMMA DeliverFrameSafe ==
    ASSUME NEW s, NEW frame, NEW limits, UnpackSafe(s)
    PROVE  UnpackSafe(DeliverFrame(s, frame, limits))
  <1> DEFINE Kept(t) == DOMAIN t = UnpackFields /\ t.frame = s.frame /\ t.key = "none"
  <1>1. Kept(DeliverFrame(s, frame, limits))
    BY DEF UnpackSafe, UnpackFields, DeliverFrame, Extract, StreamError
  <1>2. QED
    BY <1>1 DEF UnpackSafe

\* The calls of unpack keep its shape: it holds no key.
LEMMA UnpackCallsSafe ==
    ASSUME NEW s, NEW chunk, NEW limits, Len(chunk) \in Nat, UnpackSafe(s)
    PROVE  UnpackSafe(UnpackTransform(s, chunk, limits)) /\ UnpackSafe(UnpackFlush(s))
  <1>1. ASSUME NEW t, UnpackSafe(t) PROVE UnpackSafe(StreamError(t))
    <2>1. DOMAIN StreamError(t) = DOMAIN t /\ StreamError(t).frame = t.frame /\ StreamError(t).key = t.key
      BY <1>1 DEF UnpackSafe, UnpackFields, StreamError
    <2>2. QED
      BY <1>1, <2>1 DEF UnpackSafe
  <1>2. UnpackSafe(UnpackFlush(s))
    BY <1>1 DEF UnpackFlush
  <1> DEFINE read  == [s EXCEPT !.total = s.total + Len(chunk)]
             bare  == [s.frame EXCEPT !.out = <<>>]
             wider == WithManifest(limits)
             frame == FrameLimitTransform(bare, chunk, wider)
             clean == [frame EXCEPT !.out = <<>>]
             base  == [read EXCEPT !.frame = clean]
  <1>3. FrameSafe(bare) /\ bare.out = <<>>
    BY FrameLimitSafe DEF UnpackSafe
  <1> HIDE DEF bare, wider
  <1>4. FrameSafe(frame) /\ Len(frame.out) \in Nat
    BY <1>3, FrameLimitSafe
  <1>5. UnpackSafe(read)
    <2>1. DOMAIN read = DOMAIN s /\ read.frame = s.frame /\ read.key = s.key
      BY DEF UnpackSafe, UnpackFields
    <2>2. QED
      BY <2>1 DEF UnpackSafe
  <1> HIDE DEF frame, read
  <1>6. FrameSafe(clean)
    BY <1>4, FrameLimitSafe
  <1> HIDE DEF clean
  <1>7. UnpackSafe(base)
    <2>1. DOMAIN base = DOMAIN read /\ base.frame = clean /\ base.key = read.key
      BY <1>5 DEF UnpackSafe, UnpackFields
    <2>2. QED
      BY <1>5, <1>6, <2>1 DEF UnpackSafe
  <1> HIDE DEF base
  <1>8. UnpackSafe(Deliver(base, frame.out, limits))
    <2> DEFINE frames == frame.out
    <2>1. PICK turn : /\ IsRun(turn, "deliver", base, frames, limits, Len(frames))
                      /\ Deliver(base, frames, limits) = turn[Len(frames)]
      BY <1>4, DeliverLoop
    <2> DEFINE P == {n \in 0 .. Len(frames) : UnpackSafe(turn[n])}
    <2>2. 0 \in P
      BY <1>4, <1>7, <2>1 DEF IsRun
    <2>3. ASSUME NEW n \in 1 .. Len(frames), n - 1 \in P PROVE n \in P
      <3>1. turn[n] = DeliverFrame(turn[n - 1], frames[n], limits)
        BY <2>1 DEF IsRun, Turn
      <3>2. QED
        BY <2>3, <3>1, DeliverFrameSafe
    <2> HIDE DEF P
    <2>4. Len(frames) \in P
      BY <1>4, <2>2, <2>3, UpTo
    <2>5. QED
      BY <2>1, <2>4 DEF P
  <1>9. UnpackTransform(s, chunk, limits) \in {StreamError(s), StreamError(read), Deliver(base, frame.out, limits)}
    BY Zenon DEF UnpackTransform, UnpackFrames, read, bare, wider, frame, clean, base
  <1>10. QED
    BY <1>1, <1>2, <1>5, <1>8, <1>9

(***************************************************************************)
(* Worker streams.                                                         *)
(***************************************************************************)

WorkerFields == {"inputBytes", "outputBytes", "frames", "started", "ended", "header", "hasPayload", "length",
                 "payload", "rest", "busy", "task", "aborted", "out", "key", "failed"}

\* A stream that has failed has no task, and there is no key.
WorkerSafe(s) ==
    /\ DOMAIN s = WorkerFields
    /\ s.key = "none"
    /\ s.failed \in BOOLEAN /\ s.busy \in BOOLEAN /\ s.aborted \in BOOLEAN
    /\ s.failed => ~s.busy

\* The buffers of a decoding stream hold bytes of the input, within their sizes.
DecodeSafe(s, R) ==
    /\ WorkerSafe(s)
    /\ s.rest \in Seq(R) /\ s.header \in Seq(R) /\ s.payload \in Seq(R)
    /\ Len(s.header) <= 2
    /\ s.length \in Nat
    /\ s.hasPayload => Len(s.payload) <= s.length

\* The calls of the forward direction.
LEMMA EncodeCallsSafe ==
    ASSUME NEW s, NEW x, NEW limits, WorkerSafe(s)
    PROVE  /\ ~s.busy => WorkerSafe(EncodeTransform(s, x, limits))
           /\ WorkerSafe(EncodeResume(s, x, limits))
           /\ ~s.busy => WorkerSafe(EncodeFlush(s, limits))
           /\ WorkerSafe(WorkerDestroy(s))
           /\ WorkerSafe(WorkerError([s EXCEPT !.busy = FALSE]))
           /\ WorkerSafe([s EXCEPT !.aborted = TRUE])
  <1> DEFINE Idle(t) == WorkerSafe(t) /\ ~t.busy
  <1>1. ASSUME NEW t, NEW bytes, Idle(t)
        PROVE  Idle(WorkerError(t)) /\ Idle(Emit(t, bytes, limits))
    BY <1>1 DEF WorkerSafe, WorkerFields, WorkerError, Emit
  <1>2. ASSUME NEW t, Idle(t) PROVE WorkerSafe(EncodeNext(t, limits))
    BY <1>2 DEF WorkerSafe, WorkerFields, WorkerError, StartTask, EncodeNext
  <1>3. ~s.busy => WorkerSafe(EncodeTransform(s, x, limits))
    <2> SUFFICES ASSUME ~s.busy PROVE WorkerSafe(EncodeTransform(s, x, limits))
      OBVIOUS
    <2> DEFINE read  == [s EXCEPT !.inputBytes = s.inputBytes + Len(x), !.rest = x]
               sent  == Emit(read, WorkerMagic, limits)
               begun == [sent EXCEPT !.started = TRUE]
               ready == IF read.started THEN read ELSE begun
    <2>1. Idle(read)
      BY DEF WorkerSafe, WorkerFields
    <2> HIDE DEF read
    <2>2. Idle(sent)
      BY <1>1, <2>1
    <2> HIDE DEF sent
    <2>3. Idle(begun)
      BY <2>2 DEF WorkerSafe, WorkerFields
    <2> HIDE DEF begun
    <2>4. WorkerSafe(EncodeNext(ready, limits)) /\ WorkerSafe(WorkerError(s))
      BY <1>1, <1>2, <2>1, <2>3
    <2>5. EncodeTransform(s, x, limits) \in {EncodeNext(ready, limits), WorkerError(s)}
      BY Zenon DEF EncodeTransform, read, sent, begun
    <2> HIDE DEF ready
    <2>6. QED
      BY <2>4, <2>5
  <1>4. WorkerSafe(EncodeResume(s, x, limits))
    <2> DEFINE idle == [s EXCEPT !.busy = FALSE, !.task = <<>>]
               one  == Emit(idle, LengthField(Len(x)), limits)
               two  == Emit(one, x, limits)
    <2>1. Idle(idle)
      BY DEF WorkerSafe, WorkerFields
    <2> HIDE DEF idle
    <2>2. Idle(one) /\ Idle(WorkerError(idle))
      BY <1>1, <2>1
    <2> HIDE DEF one
    <2>3. Idle(two)
      BY <1>1, <2>2
    <2> HIDE DEF two
    <2>4. WorkerSafe(EncodeNext(two, limits))
      BY <1>2, <2>3
    <2>5. EncodeResume(s, x, limits) \in {WorkerError(idle), EncodeNext(two, limits)}
      BY Zenon DEF EncodeResume, idle, one, two
    <2>6. QED
      BY <2>2, <2>4, <2>5
  <1>5. ~s.busy => WorkerSafe(EncodeFlush(s, limits))
    <2> SUFFICES ASSUME ~s.busy PROVE WorkerSafe(EncodeFlush(s, limits))
      OBVIOUS
    <2> DEFINE sent == IF s.started THEN s ELSE Emit(s, WorkerMagic, limits)
    <2>1. Idle(sent) /\ Idle(WorkerError(s))
      BY <1>1
    <2> HIDE DEF sent
    <2>2. Idle(Emit(sent, EndMarker, limits))
      BY <1>1, <2>1
    <2>3. EncodeFlush(s, limits) \in {WorkerError(s), Emit(sent, EndMarker, limits)}
      BY Zenon DEF EncodeFlush, sent
    <2>4. QED
      BY <2>1, <2>2, <2>3
  <1>6. WorkerSafe(WorkerDestroy(s)) /\ WorkerSafe(WorkerError([s EXCEPT !.busy = FALSE]))
    BY DEF WorkerSafe, WorkerFields, WorkerDestroy, WorkerError
  <1>7. WorkerSafe([s EXCEPT !.aborted = TRUE])
    BY DEF WorkerSafe, WorkerFields
  <1>8. QED
    BY <1>3, <1>4, <1>5, <1>6, <1>7

\* Payload bytes are copied, never more than the record has.
LEMMA ReadPayloadSafe ==
    ASSUME NEW s, NEW R, NEW limits, DecodeSafe(s, R), ~s.failed, ~s.busy, s.hasPayload
    PROVE  DecodeSafe(ReadPayload(s, limits), R)
  <1> DEFINE count == Min({s.length - Len(s.payload), Len(s.rest)})
             copied == s.payload \o SubSeq(s.rest, 1, count)
             left   == SubSeq(s.rest, count + 1, Len(s.rest))
             read   == [s EXCEPT !.payload = copied, !.rest = left]
  <1>1. count \in 0 .. Len(s.rest) /\ count <= s.length - Len(s.payload)
    <2>1. s.length - Len(s.payload) \in Nat /\ Len(s.rest) \in Nat
      BY DEF DecodeSafe
    <2>2. count = IF s.length - Len(s.payload) <= Len(s.rest) THEN s.length - Len(s.payload) ELSE Len(s.rest)
      BY <2>1, MinMax
    <2>3. QED
      BY <2>1, <2>2
  <1> HIDE DEF count
  <1>2. copied \in Seq(R) /\ left \in Seq(R) /\ Len(copied) <= s.length
    <2>1. s.rest \in Seq(R) /\ s.payload \in Seq(R) /\ s.length \in Nat
      BY DEF DecodeSafe
    <2>2. /\ SubSeq(s.rest, 1, count) \in Seq(R) /\ Len(SubSeq(s.rest, 1, count)) = count
          /\ left \in Seq(R)
      BY <1>1, <2>1, Cut
    <2> DEFINE first == SubSeq(s.rest, 1, count)
               had   == s.payload
    <2>3. copied \in Seq(R) /\ Len(copied) = Len(had) + Len(first) /\ Len(had) \in Nat
      BY <2>1, <2>2, ConcatProperties
    <2> HIDE DEF copied, left, first
    <2>4. Len(copied) = Len(had) + count
      BY <2>2, <2>3 DEF first
    <2>5. Len(copied) <= s.length
      BY <1>1, <2>1, <2>3, <2>4
    <2>6. QED
      BY <2>2, <2>3, <2>5
  <1>3. ReadPayload(s, limits) = IF Len(copied) = s.length THEN StartTask(read, copied, limits) ELSE read
    BY DEF ReadPayload, count, DecodeSafe, WorkerSafe, WorkerFields
  <1> HIDE DEF copied, left
  <1>4. DecodeSafe(read, R) /\ ~read.failed /\ ~read.busy
    BY <1>2 DEF DecodeSafe, WorkerSafe, WorkerFields
  <1> HIDE DEF read
  <1>5. DecodeSafe(StartTask(read, copied, limits), R)
    BY <1>4, EmptySeq DEF DecodeSafe, WorkerSafe, WorkerFields, StartTask, WorkerError
  <1>6. QED
    BY <1>3, <1>4, <1>5

\* One turn of the loop of the reverse direction.
LEMMA DecodeTurnSafe ==
    ASSUME NEW s, NEW R, NEW limits, limits.maxFrameBytes \in Nat, DecodeSafe(s, R)
    PROVE  DecodeSafe(DecodeTurn(s, limits), R)
  <1>1. CASE s.rest = <<>> \/ s.failed \/ s.busy
    BY <1>1 DEF DecodeTurn
  <1>2. CASE ~(s.rest = <<>> \/ s.failed \/ s.busy) /\ s.ended
    BY <1>2 DEF DecodeTurn, WorkerError, DecodeSafe, WorkerSafe, WorkerFields
  <1>3. CASE ~(s.rest = <<>> \/ s.failed \/ s.busy) /\ ~s.ended /\ s.hasPayload
    BY <1>3, ReadPayloadSafe DEF DecodeTurn
  <1>4. CASE ~(s.rest = <<>> \/ s.failed \/ s.busy) /\ ~s.ended /\ ~s.hasPayload
    <2> DEFINE count  == Min({2 - Len(s.header), Len(s.rest)})
               header == s.header \o SubSeq(s.rest, 1, count)
               left   == SubSeq(s.rest, count + 1, Len(s.rest))
               read   == [s EXCEPT !.rest = left]
               after  == ReadWorkerHeader(read, header, limits)
    <2>1. count \in 0 .. Len(s.rest) /\ count <= 2 - Len(s.header)
      <3> DEFINE a == 2 - Len(s.header)
                 b == Len(s.rest)
      <3>1. a \in Int /\ b \in Int /\ a >= 0 /\ b >= 0
        BY DEF DecodeSafe
      <3> HIDE DEF a, b
      <3>2. Min({a, b}) = IF a <= b THEN a ELSE b
        BY <3>1, MinMax
      <3>3. Min({a, b}) \in 0 .. b /\ Min({a, b}) <= a
        BY <3>1, <3>2
      <3>4. QED
        BY <3>3 DEF a, b
    <2> HIDE DEF count
    <2>2. header \in Seq(R) /\ left \in Seq(R) /\ Len(header) <= 2
      <3>1. s.rest \in Seq(R) /\ s.header \in Seq(R)
        BY DEF DecodeSafe
      <3>2. /\ SubSeq(s.rest, 1, count) \in Seq(R) /\ Len(SubSeq(s.rest, 1, count)) = count
            /\ left \in Seq(R)
        BY <2>1, <3>1, Cut
      <3> DEFINE first == SubSeq(s.rest, 1, count)
      <3>3. header \in Seq(R) /\ Len(header) = Len(s.header) + Len(first) /\ Len(s.header) \in Nat
        BY <3>1, <3>2, ConcatProperties
      <3> HIDE DEF header, left, first
      <3>4. Len(header) = Len(s.header) + count
        BY <3>2, <3>3 DEF first
      <3>5. Len(header) <= 2
        BY <2>1, <3>3, <3>4
      <3>6. QED
        BY <3>2, <3>3, <3>5
    <2>3. DecodeTurn(s, limits) = IF Len(header) < 2 THEN [read EXCEPT !.header = header]
                                  ELSE IF after.hasPayload /\ ~after.failed THEN ReadPayload(after, limits) ELSE after
      BY <1>4, Zenon DEF DecodeTurn, count
    <2> HIDE DEF header, left
    <2>4. DecodeSafe(read, R) /\ ~read.failed /\ ~read.busy
      BY <1>4, <2>2 DEF DecodeSafe, WorkerSafe, WorkerFields
    <2> HIDE DEF read
    <2>5. DecodeSafe([read EXCEPT !.header = header], R)
      BY <2>2, <2>4 DEF DecodeSafe, WorkerSafe, WorkerFields
    <2>6. DecodeSafe(after, R) /\ ~after.busy
      <3> DEFINE n == header[1].n
                 begun == [read EXCEPT !.started = TRUE, !.header = <<>>]
                 ended == [read EXCEPT !.ended = TRUE, !.header = <<>>]
                 sized == [read EXCEPT !.header = <<>>, !.hasPayload = TRUE, !.length = n, !.payload = <<>>]
      <3>1. DecodeSafe(begun, R) /\ ~begun.busy
        BY <2>4, EmptySeq DEF DecodeSafe, WorkerSafe, WorkerFields
      <3>2. DecodeSafe(ended, R) /\ ~ended.busy
        BY <2>4, EmptySeq DEF DecodeSafe, WorkerSafe, WorkerFields
      <3>3. n \in Nat => DecodeSafe(sized, R) /\ ~sized.busy
        <4> HIDE DEF n
        <4>1. QED
          BY <2>4, EmptySeq DEF DecodeSafe, WorkerSafe, WorkerFields
      <3>4. DecodeSafe(WorkerError(read), R) /\ ~WorkerError(read).busy
        BY <2>4, EmptySeq DEF DecodeSafe, WorkerSafe, WorkerFields, WorkerError
      <3>5. \/ after = begun \/ after = ended \/ after = WorkerError(read)
            \/ after = sized /\ n \in 0 .. limits.maxFrameBytes
        <4> HIDE DEF begun, ended, sized, n
        <4>1. after = IF ~read.started THEN IF header = WorkerMagic THEN begun ELSE WorkerError(read)
                      ELSE IF header = EndMarker THEN ended
                      ELSE IF header[1].k # "length" \/ n \notin 0 .. limits.maxFrameBytes THEN WorkerError(read)
                      ELSE sized
          BY Zenon DEF ReadWorkerHeader, begun, ended, sized, n
        <4> HIDE DEF after
        <4>2. QED
          BY <4>1
      <3> HIDE DEF begun, ended, sized, after
      <3>6. QED
        BY <3>1, <3>2, <3>3, <3>4, <3>5
    <2> HIDE DEF after
    <2>7. after.hasPayload /\ ~after.failed => DecodeSafe(ReadPayload(after, limits), R)
      BY <2>6, ReadPayloadSafe
    <2>8. QED
      BY <2>3, <2>5, <2>6, <2>7
  <1>5. QED
    BY <1>1, <1>2, <1>3, <1>4

\* The loop of the reverse direction.
LEMMA DecodeNextSafe ==
    ASSUME NEW s, NEW R, NEW limits, limits.maxFrameBytes \in Nat, DecodeSafe(s, R)
    PROVE  DecodeSafe(DecodeNext(s, limits), R)
  <1> DEFINE N == Len(s.rest)
  <1>1. N \in Nat
    BY DEF DecodeSafe
  <1>2. PICK turn : /\ IsRun(turn, "decode", s, limits, limits, N)
                    /\ DecodeNext(s, limits) = turn[N]
    BY <1>1, DecodeLoop
  <1> HIDE DEF N
  <1> DEFINE P == {n \in 0 .. N : DecodeSafe(turn[n], R)}
  <1>3. 0 \in P
    BY <1>1, <1>2 DEF IsRun
  <1>4. ASSUME NEW n \in 1 .. N, n - 1 \in P PROVE n \in P
    <2>1. turn[n] = DecodeTurn(turn[n - 1], limits)
      BY <1>2 DEF IsRun, Turn
    <2>2. QED
      BY <1>4, <2>1, DecodeTurnSafe
  <1> HIDE DEF P
  <1>5. N \in P
    BY <1>1, <1>3, <1>4, UpTo
  <1>6. QED
    BY <1>2, <1>5 DEF P

\* The calls of the reverse direction.
LEMMA DecodeCallsSafe ==
    ASSUME NEW s, NEW R, NEW chunk \in Seq(R), NEW output, NEW limits, limits.maxFrameBytes \in Nat, DecodeSafe(s, R)
    PROVE  /\ ~s.busy => DecodeSafe(DecodeTransform(s, chunk, limits), R)
           /\ DecodeSafe(DecodeResume(s, output, limits), R)
           /\ ~s.busy => DecodeSafe(DecodeFlush(s), R)
           /\ DecodeSafe(WorkerDestroy(s), R)
           /\ DecodeSafe(WorkerError([s EXCEPT !.busy = FALSE]), R)
           /\ DecodeSafe([s EXCEPT !.aborted = TRUE], R)
  <1> DEFINE Idle(t) == DecodeSafe(t, R) /\ ~t.busy
  <1>1. ASSUME NEW t, NEW bytes, Idle(t)
        PROVE  Idle(WorkerError(t)) /\ Idle(Emit(t, bytes, limits))
    BY <1>1, EmptySeq DEF DecodeSafe, WorkerSafe, WorkerFields, WorkerError, Emit
  <1>2. ~s.busy => DecodeSafe(DecodeTransform(s, chunk, limits), R)
    <2> DEFINE read == [s EXCEPT !.inputBytes = s.inputBytes + Len(chunk), !.rest = chunk]
    <2>1. ~s.busy => Idle(read)
      BY DEF DecodeSafe, WorkerSafe, WorkerFields
    <2>2. DecodeTransform(s, chunk, limits) \in {WorkerError(s), DecodeNext(read, limits)}
      BY Zenon DEF DecodeTransform
    <2> HIDE DEF read
    <2>3. QED
      BY <1>1, <2>1, <2>2, DecodeNextSafe
  <1>3. DecodeSafe(DecodeResume(s, output, limits), R)
    <2> DEFINE idle == [s EXCEPT !.busy = FALSE, !.task = <<>>, !.hasPayload = FALSE, !.payload = <<>>]
    <2>1. Idle(idle)
      BY DEF DecodeSafe, WorkerSafe, WorkerFields
    <2>2. DecodeResume(s, output, limits) \in {WorkerError(idle), DecodeNext(Emit(idle, output, limits), limits)}
      BY Zenon DEF DecodeResume
    <2> HIDE DEF idle
    <2>3. QED
      BY <1>1, <2>1, <2>2, DecodeNextSafe
  <1>4. ~s.busy => DecodeSafe(DecodeFlush(s), R)
    BY <1>1 DEF DecodeFlush
  <1>5. DecodeSafe(WorkerDestroy(s), R) /\ DecodeSafe(WorkerError([s EXCEPT !.busy = FALSE]), R)
    BY DEF DecodeSafe, WorkerSafe, WorkerFields, WorkerDestroy, WorkerError
  <1>6. DecodeSafe([s EXCEPT !.aborted = TRUE], R)
    BY DEF DecodeSafe, WorkerSafe, WorkerFields
  <1>7. QED
    BY <1>2, <1>3, <1>4, <1>5, <1>6

(***************************************************************************)
(* The calls, kind by kind.                                                *)
(***************************************************************************)

Plain == {"sign", "verify", "compress", "decompress", "frames", "pack"}

Keyless(s) == "key" \in DOMAIN s /\ s.key = "none"

KindSafe(c, s) ==
    /\ c.kind = "encrypt" => EncryptSafe(s)
    /\ c.kind = "decrypt" => DecryptSafe(s)
    /\ c.kind = "unpack"  => UnpackSafe(s)
    /\ c.kind = "encode"  => WorkerSafe(s)
    /\ c.kind = "decode"  => DecodeSafe(s, Range(c.input))
    /\ c.kind \in Plain   => Keyless(s)

\* The calls of kind "encrypt".
LEMMA EncryptCalls ==
    ASSUME NEW c, NEW s, NEW x, c.kind = "encrypt"
    PROVE  /\ Create(c) = EncryptCreate(c.option, "salt", PluginLimits(c.limits))
           /\ Transform(c, s, x) = EncryptTransform(s, x, PluginLimits(c.limits))
           /\ Flush(c, s) = EncryptFlush(s, PluginLimits(c.limits))
           /\ OnDestroy(c, s) = EncryptCleanup(s)
  BY Zenon DEF Create, Transform, Flush, OnDestroy, Worker

\* The calls of kind "decrypt".
LEMMA DecryptCalls ==
    ASSUME NEW c, NEW s, NEW x, c.kind = "decrypt"
    PROVE  /\ Create(c) = DecryptCreate
           /\ Transform(c, s, x) = DecryptTransform(s, x, c.option, PluginLimits(c.limits))
           /\ Flush(c, s) = DecryptFlush(s, PluginLimits(c.limits))
           /\ OnDestroy(c, s) = DecryptCleanup(s)
  BY Zenon DEF Create, Transform, Flush, OnDestroy, Worker

\* The calls of kind "sign".
LEMMA SignCalls ==
    ASSUME NEW c, NEW s, NEW x, c.kind = "sign"
    PROVE  /\ Create(c) = SignCreate(PluginLimits(c.limits))
           /\ Transform(c, s, x) = SignTransform(s, x, PluginLimits(c.limits))
           /\ Flush(c, s) = SignFlush(s)
           /\ OnDestroy(c, s) = s
  BY Zenon DEF Create, Transform, Flush, OnDestroy, Worker

\* The calls of kind "verify".
LEMMA VerifyCalls ==
    ASSUME NEW c, NEW s, NEW x, c.kind = "verify"
    PROVE  /\ Create(c) = StreamCreate
           /\ Transform(c, s, x) = VerifyTransform(s, x, PluginLimits(c.limits))
           /\ Flush(c, s) = VerifyFlush(s, PluginLimits(c.limits))
           /\ OnDestroy(c, s) = [s EXCEPT !.chunks = <<>>]
  BY Zenon DEF Create, Transform, Flush, OnDestroy, Worker

\* The calls of kind "compress".
LEMMA CompressCalls ==
    ASSUME NEW c, NEW s, NEW x, c.kind = "compress"
    PROVE  /\ Create(c) = StreamCreate
           /\ Transform(c, s, x) = CompressTransform(s, x, c.option, PluginLimits(c.limits))
           /\ Flush(c, s) = CompressFlush(s, c.option, PluginLimits(c.limits))
           /\ OnDestroy(c, s) = s
  BY Zenon DEF Create, Transform, Flush, OnDestroy, Worker

\* The calls of kind "decompress".
LEMMA DecompressCalls ==
    ASSUME NEW c, NEW s, NEW x, c.kind = "decompress"
    PROVE  /\ Create(c) = StreamCreate
           /\ Transform(c, s, x) = DecompressTransform(s, x, PluginLimits(c.limits))
           /\ Flush(c, s) = DecompressFlush(s)
           /\ OnDestroy(c, s) = s
  BY Zenon DEF Create, Transform, Flush, OnDestroy, Worker

\* The calls of kind "frames".
LEMMA FramesCalls ==
    ASSUME NEW c, NEW s, NEW x, c.kind = "frames"
    PROVE  /\ Create(c) = FrameLimitCreate
           /\ Transform(c, s, x) = FrameLimitTransform(s, x, c.limits)
           /\ Flush(c, s) = FrameLimitFlush(s)
           /\ OnDestroy(c, s) = s
  BY Zenon DEF Create, Transform, Flush, OnDestroy, Worker

\* The calls of kind "pack".
LEMMA PackCalls ==
    ASSUME NEW c, NEW s, NEW x, c.kind = "pack"
    PROVE  /\ Create(c) = PackCreate
           /\ Transform(c, s, x) = PackTransform(s, x[1], c.limits)
           /\ Flush(c, s) = PackFlush(s, c.limits)
           /\ OnDestroy(c, s) = s
  BY Zenon DEF Create, Transform, Flush, OnDestroy, Worker

\* The calls of kind "unpack".
LEMMA UnpackCalls ==
    ASSUME NEW c, NEW s, NEW x, c.kind = "unpack"
    PROVE  /\ Create(c) = UnpackCreate
           /\ Transform(c, s, x) = UnpackTransform(s, x, c.limits)
           /\ Flush(c, s) = UnpackFlush(s)
           /\ OnDestroy(c, s) = s
  BY Zenon DEF Create, Transform, Flush, OnDestroy, Worker

\* The calls of kind "encode".
LEMMA EncodeCalls ==
    ASSUME NEW c, NEW s, NEW x, c.kind = "encode"
    PROVE  /\ Create(c) = WorkerCreate
           /\ Transform(c, s, x) = EncodeTransform(s, x, PluginLimits(c.limits))
           /\ Flush(c, s) = EncodeFlush(s, PluginLimits(c.limits))
           /\ OnDestroy(c, s) = WorkerDestroy(s)
  BY Zenon DEF Create, Transform, Flush, OnDestroy, Worker

\* The calls of kind "decode".
LEMMA DecodeCalls ==
    ASSUME NEW c, NEW s, NEW x, c.kind = "decode"
    PROVE  /\ Create(c) = WorkerCreate
           /\ Transform(c, s, x) = DecodeTransform(s, x, PluginLimits(c.limits))
           /\ Flush(c, s) = DecodeFlush(s)
           /\ OnDestroy(c, s) = WorkerDestroy(s)
  BY Zenon DEF Create, Transform, Flush, OnDestroy, Worker

\* The limits of a plugin are limits.
LEMMA PluginLimitsTyped ==
    ASSUME NEW c \in Cases
    PROVE  /\ PluginLimits(c.limits) \in [maxInputBytes : Nat \ {0}, maxOutputBytes : Nat \ {0},
                                          maxFrameBytes : Nat \ {0}, maxFrames : Nat \ {0}]
           /\ PluginLimits(c.limits).maxInputBytes >= c.limits.maxInputBytes
           /\ PluginLimits(c.limits).maxInputBytes >= c.limits.maxOutputBytes
           /\ PluginLimits(c.limits).maxOutputBytes = c.limits.maxOutputBytes
           /\ PluginLimits(c.limits).maxFrameBytes = c.limits.maxFrameBytes
           /\ PluginLimits(c.limits).maxFrames = c.limits.maxFrames
  <1> DEFINE l == c.limits
  <1>1. l \in [maxInputBytes : Nat \ {0}, maxOutputBytes : Nat \ {0},
               maxFrameBytes : Nat \ {0}, maxFrames : Nat \ {0}]
    BY CaseAssumption
  <1> DEFINE m == Max({l.maxInputBytes, l.maxOutputBytes})
  <1>2. m = IF l.maxInputBytes <= l.maxOutputBytes THEN l.maxOutputBytes ELSE l.maxInputBytes
    <2>1. l.maxInputBytes \in Int /\ l.maxOutputBytes \in Int
      BY <1>1
    <2>2. QED
      BY <2>1, MinMax
  <1>3. PluginLimits(l) = [l EXCEPT !.maxInputBytes = m]
    BY DEF PluginLimits
  <1> HIDE DEF l, m
  <1>4. QED
    BY <1>1, <1>2, <1>3 DEF l

\* The next n bytes of the input.
LEMMA NextChunk ==
    ASSUME NEW c \in Cases, NEW i \in Nat, NEW n \in Nat, i + n <= Len(c.input)
    PROVE  /\ Len(c.input) \in Nat
           /\ SubSeq(c.input, i + 1, i + n) \in Seq(Range(c.input))
           /\ Len(SubSeq(c.input, i + 1, i + n)) = n
  <1> DEFINE s == c.input
             R == Range(c.input)
  <1>1. s \in Seq(R)
    BY CaseAssumption
  <1> HIDE DEF s, R
  <1>2. Len(s) \in Nat /\ SubSeq(s, i + 1, i + n) \in Seq(R) /\ Len(SubSeq(s, i + 1, i + n)) = n
    BY <1>1 DEF s
  <1>3. QED
    BY <1>2 DEF s, R

\* A new Transform.
LEMMA CreateSafe ==
    ASSUME NEW c \in Cases
    PROVE  /\ KindSafe(c, Create(c))
           /\ Create(c).failed => Create(c).key # "live" /\ (c.kind = "encrypt" => Create(c).pending = <<>>)
           /\ c.kind \in Worker => ~Create(c).busy /\ ~Create(c).failed
  <1>1. CASE c.kind = "encrypt"
    <2>1. Create(c) = EncryptCreate(c.option, "salt", PluginLimits(c.limits))
      BY <1>1, EncryptCalls
    <2>2. EncryptSafe(Create(c))
      <3> DEFINE l      == PluginLimits(c.limits)
                 size   == ResolveFrameSize(c.option, l)
                 throws == size = 0 \/ EncodedLength(0, size) > l.maxOutputBytes
                 new    == [header |-> BuildHeader(size, "salt"), size |-> size, pending |-> <<>>, inputBytes |-> 0,
                            dataFrames |-> 0, headerSent |-> FALSE, out |-> <<>>,
                            key |-> IF throws THEN "none" ELSE "live", failed |-> throws]
      <3>1. Create(c) = new
        BY <2>1, Zenon DEF EncryptCreate
      <3>2. throws \in BOOLEAN
        BY Zenon
      <3> HIDE DEF throws, size, l
      <3>3. QED
        BY <3>1, <3>2 DEF EncryptSafe, EncryptFields
    <2>3. QED
      BY <1>1, <2>2 DEF KindSafe, EncryptSafe, Plain, Worker
  <1>2. CASE c.kind = "decrypt"
    <2>1. Create(c) = DecryptCreate
      BY <1>2, DecryptCalls
    <2>2. DecryptSafe(Create(c))
      BY <2>1 DEF DecryptSafe, DecryptFields, DecryptCreate
    <2>3. QED
      BY <1>2, <2>2 DEF KindSafe, DecryptSafe, Plain, Worker
  <1>3. CASE c.kind = "unpack"
    <2>1. Create(c) = UnpackCreate
      BY <1>3, UnpackCalls
    <2>2. FrameSafe(FrameLimitCreate)
      BY DEF FrameSafe, FrameFields, FrameLimitCreate, ScannerCreate
    <2>3. UnpackSafe(Create(c))
      BY <2>1, <2>2 DEF UnpackSafe, UnpackFields, UnpackCreate
    <2>4. QED
      BY <1>3, <2>3 DEF KindSafe, UnpackSafe, Plain, Worker
  <1>4. CASE c.kind \in Worker
    <2>1. Create(c) = WorkerCreate
      BY <1>4, EncodeCalls, DecodeCalls DEF Worker
    <2>2. WorkerSafe(WorkerCreate) /\ ~WorkerCreate.busy /\ ~WorkerCreate.failed /\ WorkerCreate.key = "none"
      BY DEF WorkerSafe, WorkerFields, WorkerCreate
    <2>3. DecodeSafe(WorkerCreate, Range(c.input))
      BY <2>2, EmptySeq DEF DecodeSafe, WorkerCreate
    <2>4. QED
      BY <1>4, <2>1, <2>2, <2>3 DEF KindSafe, Plain, Worker
  <1>5. CASE c.kind \in Plain
    <2>1. Keyless(Create(c))
      <3>1. Create(c) \in {SignCreate(PluginLimits(c.limits)), StreamCreate, FrameLimitCreate, PackCreate}
        BY <1>5, SignCalls, VerifyCalls, CompressCalls, DecompressCalls, FramesCalls, PackCalls DEF Plain
      <3>2. Keyless(SignCreate(PluginLimits(c.limits))) /\ Keyless(StreamCreate)
        BY DEF Keyless, SignCreate, StreamCreate
      <3>3. Keyless(FrameLimitCreate) /\ Keyless(PackCreate)
        BY DEF Keyless, FrameLimitCreate, PackCreate
      <3>4. QED
        BY <3>1, <3>2, <3>3
    <2>2. QED
      BY <1>5, <2>1 DEF KindSafe, Keyless, Plain, Worker
  <1>6. QED
    BY <1>1, <1>2, <1>3, <1>4, <1>5, CaseAssumption DEF Kinds, Plain, Worker

\* The plain Transforms never hold a key.
LEMMA PlainSafe ==
    ASSUME NEW c, NEW s, NEW x, c.kind \in Plain, Keyless(s)
    PROVE  Keyless(Transform(c, s, x)) /\ Keyless(Flush(c, s)) /\ Keyless(OnDestroy(c, s))
  <1> DEFINE l == PluginLimits(c.limits)
  <1>0. ASSUME NEW t, Keyless(t) PROVE Keyless(StreamError(t))
    BY <1>0 DEF Keyless, StreamError
  <1>1. CASE c.kind = "sign"
    <2>1. Keyless(SignTransform(s, x, l)) /\ Keyless(SignFlush(s))
      BY DEF Keyless, StreamError, SignTransform, SignFlush
    <2>2. QED
      BY <1>1, <2>1, SignCalls
  <1>2. CASE c.kind = "verify"
    <2>1. Keyless(VerifyTransform(s, x, l)) /\ Keyless(VerifyFlush(s, l)) /\ Keyless([s EXCEPT !.chunks = <<>>])
      BY DEF Keyless, StreamError, VerifyTransform, VerifyFlush
    <2>2. QED
      BY <1>2, <2>1, VerifyCalls
  <1>3. ASSUME NEW t, NEW bytes, Keyless(t) PROVE Keyless(PushWithin(t, bytes, l))
    BY <1>3 DEF Keyless, StreamError, PushWithin
  <1>4. CASE c.kind = "compress"
    <2>1. ASSUME NEW t, Keyless(t) PROVE Keyless(PrependHeader(t, c.option, l))
      BY <1>3, <2>1 DEF Keyless, PrependHeader
    <2> DEFINE read == [s EXCEPT !.total = s.total + Len(x)]
               kept == [read EXCEPT !.chunks = read.chunks \o x]
    <2>2. Keyless(read) /\ Keyless(kept)
      BY DEF Keyless
    <2>3. CompressTransform(s, x, c.option, l)
            \in {StreamError(s), read, PushWithin(PrependHeader(read, c.option, l), x, l), kept}
      BY Zenon DEF CompressTransform
    <2>4. CompressFlush(s, c.option, l)
            \in {PrependHeader(s, c.option, l),
                 PushWithin(PrependHeader(s, c.option, l), Deflate(s.chunks, c.option), l)}
      BY Zenon DEF CompressFlush
    <2> HIDE DEF read, kept
    <2>5. QED
      BY <1>0, <1>3, <1>4, <2>1, <2>2, <2>3, <2>4, CompressCalls
  <1>5. CASE c.kind = "decompress"
    <2> DEFINE read == [s EXCEPT !.total = s.total + Len(x), !.chunks = s.chunks \o x]
               all  == Inflated(SubSeq(read.chunks, 2, Len(read.chunks)), read.chunks[1].k)
               new  == SubSeq(all, Len(s.out) + 1, Len(all))
    <2>1. Keyless(read)
      BY DEF Keyless
    <2>2. DecompressTransform(s, x, l) \in {StreamError(s), read, StreamError(read), PushWithin(read, new, l)}
      BY Zenon DEF DecompressTransform
    <2> HIDE DEF read, new
    <2>3. QED
      BY <1>0, <1>3, <1>5, <2>1, <2>2, DecompressCalls DEF DecompressFlush
  <1>6. CASE c.kind = "frames"
    <2>1. DOMAIN FrameLimitTransform(s, x, c.limits) = DOMAIN s /\ FrameLimitTransform(s, x, c.limits).key = s.key
      BY DEF Keyless, FrameLimitTransform
    <2>2. Keyless(FrameLimitFlush(s))
      BY DEF Keyless, FrameLimitFlush
    <2>3. QED
      BY <1>6, <2>1, <2>2, FramesCalls DEF Keyless
  <1>7. CASE c.kind = "pack"
    <2>1. ASSUME NEW t, NEW bytes, Keyless(t) PROVE Keyless(PackBytes(t, bytes, c.limits))
      BY <1>0, <2>1 DEF Keyless, PackBytes, PackFrames
    <2>2. Keyless(PackManifest(s, c.limits))
      BY <2>1 DEF Keyless, PackManifest
    <2> DEFINE more == [PackManifest(s, c.limits) EXCEPT !.count = PackManifest(s, c.limits).count + 1]
    <2>3. Keyless(more)
      BY <2>2 DEF Keyless
    <2>4. PackTransform(s, x[1], c.limits) \in {StreamError(s), PackBytes(more, x[1], c.limits)}
      BY Zenon DEF PackTransform
    <2> HIDE DEF more
    <2>5. QED
      BY <1>0, <1>7, <2>1, <2>2, <2>3, <2>4, PackCalls DEF PackFlush
  <1>8. QED
    BY <1>1, <1>2, <1>4, <1>5, <1>6, <1>7 DEF Plain

\* Gone(c, s): no secret is left.
Gone(c, s) == s.key # "live" /\ (c.kind = "encrypt" => s.pending = <<>>)

\* transform() keeps every Transform safe, and so does flush(); one that has
\* failed, has ended or was destroyed has no secret left.
LEMMA CallsSafe ==
    ASSUME NEW c \in Cases, NEW s, NEW x \in Seq(Range(c.input)), KindSafe(c, s),
           c.kind \in Worker => ~s.busy
    PROVE  /\ KindSafe(c, Transform(c, s, x))
           /\ Transform(c, s, x).failed => Gone(c, Transform(c, s, x))
           /\ KindSafe(c, Flush(c, s)) /\ Gone(c, Flush(c, s))
  <1> DEFINE l == PluginLimits(c.limits)
  <1>0. Len(x) \in Nat /\ l.maxFrameBytes \in Nat
    BY PluginLimitsTyped
  <1>1. CASE c.kind = "encrypt"
    <2>1. KindSafe(c, s) => EncryptSafe(s)
      BY <1>1 DEF KindSafe
    <2>2. \A t : EncryptSafe(t) => KindSafe(c, t) /\ (t.failed => Gone(c, t))
      BY <1>1 DEF KindSafe, EncryptSafe, Gone, Plain
    <2>3. QED
      BY <1>0, <1>1, <2>1, <2>2, EncryptCalls, EncryptCallsSafe DEF Gone
  <1>2. CASE c.kind = "decrypt"
    <2>1. KindSafe(c, s) => DecryptSafe(s)
      BY <1>2 DEF KindSafe
    <2>2. \A t : DecryptSafe(t) => KindSafe(c, t) /\ (t.failed => Gone(c, t))
      BY <1>2 DEF KindSafe, DecryptSafe, Gone, Plain
    <2>3. QED
      BY <1>0, <1>2, <2>1, <2>2, DecryptCalls, DecryptCallsSafe DEF Gone
  <1>3. CASE c.kind = "unpack"
    <2>1. KindSafe(c, s) => UnpackSafe(s)
      BY <1>3 DEF KindSafe
    <2>2. \A t : UnpackSafe(t) => KindSafe(c, t) /\ Gone(c, t)
      BY <1>3 DEF KindSafe, UnpackSafe, Gone, Plain
    <2>3. QED
      BY <1>0, <1>3, <2>1, <2>2, UnpackCalls, UnpackCallsSafe
  <1>4. CASE c.kind = "encode"
    <2>1. KindSafe(c, s) => WorkerSafe(s) /\ ~s.busy
      BY <1>4 DEF KindSafe, Worker
    <2>2. \A t : WorkerSafe(t) => KindSafe(c, t) /\ Gone(c, t)
      BY <1>4 DEF KindSafe, WorkerSafe, Gone, Plain
    <2>3. WorkerSafe(EncodeTransform(s, x, l)) /\ WorkerSafe(EncodeFlush(s, l))
      BY <2>1, EncodeCallsSafe
    <2>4. QED
      BY <1>4, <2>2, <2>3, EncodeCalls
  <1>5. CASE c.kind = "decode"
    <2>1. KindSafe(c, s) => DecodeSafe(s, Range(c.input)) /\ ~s.busy
      BY <1>5 DEF KindSafe, Worker
    <2>2. \A t : DecodeSafe(t, Range(c.input)) => KindSafe(c, t) /\ Gone(c, t)
      BY <1>5 DEF KindSafe, DecodeSafe, WorkerSafe, Gone, Plain
    <2> HIDE DEF l
    <2>3. DecodeSafe(DecodeTransform(s, x, l), Range(c.input)) /\ DecodeSafe(DecodeFlush(s), Range(c.input))
      BY <1>0, <2>1, DecodeCallsSafe
    <2>4. QED
      BY <1>5, <2>2, <2>3, DecodeCalls DEF l
  <1>6. CASE c.kind \in Plain
    <2>1. KindSafe(c, s) => Keyless(s)
      BY <1>6 DEF KindSafe
    <2>2. \A t : Keyless(t) => KindSafe(c, t) /\ Gone(c, t)
      BY <1>6 DEF KindSafe, Keyless, Gone, Plain
    <2>3. QED
      BY <1>6, <2>1, <2>2, PlainSafe
  <1>7. QED
    BY <1>1, <1>2, <1>3, <1>4, <1>5, <1>6, CaseAssumption DEF Kinds, Plain

\* destroy() leaves no secret; the stream of a worker is aborted by it.
LEMMA DestroySafe ==
    ASSUME NEW c \in Cases, NEW s, KindSafe(c, s)
    PROVE  /\ KindSafe(c, OnDestroy(c, s)) /\ Gone(c, OnDestroy(c, s))
           /\ c.kind \in Worker => OnDestroy(c, s).aborted
  <1>1. CASE c.kind = "encrypt"
    <2>1. \A t : EncryptSafe(t) => KindSafe(c, t)
      BY <1>1 DEF KindSafe, Plain
    <2>2. OnDestroy(c, s) = EncryptCleanup(s) /\ EncryptSafe(s)
      BY <1>1, EncryptCalls DEF KindSafe
    <2>3. Len(<<>>) \in Nat
      BY EmptySeq
    <2>4. QED
      BY <1>1, <2>1, <2>2, <2>3, EncryptCallsSafe DEF Gone, Worker
  <1>2. CASE c.kind = "decrypt"
    <2>1. \A t : DecryptSafe(t) => KindSafe(c, t)
      BY <1>2 DEF KindSafe, Plain
    <2>2. OnDestroy(c, s) = DecryptCleanup(s) /\ DecryptSafe(s)
      BY <1>2, DecryptCalls DEF KindSafe
    <2>3. Len(<<>>) \in Nat
      BY EmptySeq
    <2>4. QED
      BY <1>2, <2>1, <2>2, <2>3, DecryptCallsSafe DEF Gone, Worker
  <1>3. CASE c.kind = "unpack"
    <2>1. OnDestroy(c, s) = s
      BY <1>3, UnpackCalls
    <2>2. QED
      BY <1>3, <2>1 DEF KindSafe, UnpackSafe, Gone, Worker
  <1>4. CASE c.kind \in Worker
    <2>1. OnDestroy(c, s) = WorkerDestroy(s) /\ WorkerSafe(s)
      BY <1>4, EncodeCalls, DecodeCalls DEF KindSafe, DecodeSafe, Worker
    <2>2. WorkerSafe(WorkerDestroy(s)) /\ WorkerDestroy(s).aborted /\ WorkerDestroy(s).key = "none"
      BY <2>1 DEF WorkerSafe, WorkerFields, WorkerDestroy
    <2>3. DecodeSafe(s, Range(c.input)) => DecodeSafe(WorkerDestroy(s), Range(c.input))
      BY <2>2, EmptySeq DEF DecodeSafe, WorkerSafe, WorkerFields, WorkerDestroy
    <2>4. QED
      BY <1>4, <2>1, <2>2, <2>3 DEF KindSafe, Gone, Worker, Plain
  <1>5. CASE c.kind \in Plain
    <2>1. Keyless(s)
      BY <1>5 DEF KindSafe
    <2>2. Keyless(OnDestroy(c, s))
      BY <1>5, <2>1, PlainSafe
    <2>3. QED
      BY <1>5, <2>2 DEF KindSafe, Keyless, Gone, Plain, Worker
  <1>6. QED
    BY <1>1, <1>2, <1>3, <1>4, <1>5, CaseAssumption DEF Kinds, Plain, Worker

\* A task settles.  On a stream that was aborted nothing is pushed.
LEMMA SettleSafe ==
    ASSUME NEW c \in Cases, NEW s, KindSafe(c, s), c.kind \in Worker, s.busy,
           NEW fulfilled \in BOOLEAN,
           NEW t, t = IF fulfilled THEN Resume(c, s) ELSE WorkerError([s EXCEPT !.busy = FALSE])
    PROVE  /\ KindSafe(c, t) /\ Gone(c, t)
           /\ s.aborted => t.aborted /\ t.out = s.out
           /\ t.failed => ~t.busy
  <1> DEFINE l == PluginLimits(c.limits)
             y == TaskResult(c, s.task)
  <1>1. WorkerSafe(s)
    BY DEF KindSafe, DecodeSafe, Worker
  <1>2. WorkerSafe(t) /\ KindSafe(c, t)
    <2>1. CASE c.kind = "encode"
      <3>1. t \in {EncodeResume(s, y, l), WorkerError([s EXCEPT !.busy = FALSE])}
        BY <2>1, Zenon DEF Resume
      <3> HIDE DEF l, y
      <3>2. WorkerSafe(EncodeResume(s, y, l)) /\ WorkerSafe(WorkerError([s EXCEPT !.busy = FALSE]))
        BY <1>1, EncodeCallsSafe
      <3>3. WorkerSafe(t)
        BY <3>1, <3>2, Zenon
      <3>4. QED
        BY <2>1, <3>3 DEF KindSafe, Plain
    <2>2. CASE c.kind = "decode"
      <3>1. t \in {DecodeResume(s, y, l), WorkerError([s EXCEPT !.busy = FALSE])}
        BY <2>2, Zenon DEF Resume
      <3>2. DecodeSafe(s, Range(c.input)) /\ <<>> \in Seq(Range(c.input)) /\ l.maxFrameBytes \in Nat
        BY <2>2, EmptySeq, PluginLimitsTyped DEF KindSafe
      <3> HIDE DEF l, y
      <3> DEFINE R == Range(c.input)
                 z == [s EXCEPT !.busy = FALSE]
      <3>5. /\ t \in {DecodeResume(s, y, l), WorkerError(z)}
            /\ DecodeSafe(s, R) /\ <<>> \in Seq(R) /\ l.maxFrameBytes \in Nat
        BY <3>1, <3>2
      <3>6. DecodeSafe(DecodeResume(s, y, l), R)
        <4> HIDE DEF R, z
        <4>1. QED
          BY <3>5, DecodeCallsSafe
      <3>7. DecodeSafe(WorkerError(z), R)
        <4> HIDE DEF R
        <4>1. QED
          BY <3>5, DecodeCallsSafe
      <3>3. DecodeSafe(t, Range(c.input))
        BY <3>5, <3>6, <3>7, Zenon
      <3>4. QED
        BY <2>2, <3>3 DEF KindSafe, DecodeSafe, Plain
    <2>3. QED
      BY <2>1, <2>2 DEF Worker
  <1>3. ASSUME s.aborted PROVE t.aborted /\ t.out = s.out
    <2> DEFINE one == [s EXCEPT !.busy = FALSE, !.task = <<>>]
               two == [s EXCEPT !.busy = FALSE, !.task = <<>>, !.hasPayload = FALSE, !.payload = <<>>]
    <2>1. t \in {WorkerError(one), WorkerError(two), WorkerError([s EXCEPT !.busy = FALSE])}
      BY <1>3, Zenon DEF Resume, EncodeResume, DecodeResume
    <2>2. /\ WorkerError(one).aborted = s.aborted /\ WorkerError(one).out = s.out
          /\ WorkerError(two).aborted = s.aborted /\ WorkerError(two).out = s.out
          /\ WorkerError([s EXCEPT !.busy = FALSE]).aborted = s.aborted
          /\ WorkerError([s EXCEPT !.busy = FALSE]).out = s.out
      BY <1>1 DEF WorkerSafe, WorkerFields, WorkerError
    <2> HIDE DEF one, two
    <2>3. QED
      BY <1>3, <2>1, <2>2
  <1>4. Gone(c, t) /\ (t.failed => ~t.busy)
    BY <1>2 DEF WorkerSafe, Gone, Worker
  <1>5. QED
    BY <1>2, <1>3, <1>4

(***************************************************************************)
(* The invariant: every Transform is safe, and one that is over holds no   *)
(* secret, runs no task if it failed, and is aborted if it was destroyed.  *)
(***************************************************************************)
SecretInv ==
    /\ case \in Cases
    /\ taken \in Nat
    /\ KindSafe(case, st)
    /\ phase # "open" => Gone(case, st)
    /\ phase = "failed" /\ case.kind \in Worker => ~st.busy
    /\ phase = "destroyed" /\ case.kind \in Worker => st.aborted

\* The secrets of a stream survive no end of it (cleanup).
LEMMA SecretInvariant ==
    Spec => []SecretInv
  <1>1. Init => SecretInv
    <2> SUFFICES ASSUME Init PROVE SecretInv
      OBVIOUS
    <2>1. case \in Cases /\ st = Create(case) /\ taken = 0 /\ phase = IF st.failed THEN "failed" ELSE "open"
      BY DEF Init
    <2>2. QED
      BY <2>1, CreateSafe DEF SecretInv, Gone
  <1>2. SecretInv /\ [Next]_vars => SecretInv'
    <2> SUFFICES ASSUME SecretInv, [Next]_vars PROVE SecretInv'
      OBVIOUS
    <2>1. ASSUME NEW n \in 0 .. Len(case.input), Write(n) PROVE SecretInv'
      <3> DEFINE chunk == SubSeq(case.input, taken + 1, taken + n)
      <3>1. n \in Nat /\ taken + n <= Len(case.input)
        BY <2>1 DEF Write
      <3>2. chunk \in Seq(Range(case.input))
        BY <3>1, NextChunk DEF SecretInv
      <3>3. case.kind \in Worker => ~st.busy
        BY <2>1 DEF Write, Busy
      <3>4. /\ st' = Transform(case, st, chunk) /\ case' = case /\ taken' = taken + n
            /\ phase' = IF st'.failed THEN "failed" ELSE "open"
        BY <2>1 DEF Write
      <3> HIDE DEF chunk
      <3>5. KindSafe(case, st') /\ (st'.failed => Gone(case, st'))
        BY <3>2, <3>3, <3>4, CallsSafe DEF SecretInv
      <3>6. case.kind \in Worker /\ st'.failed => ~st'.busy
        BY <3>5 DEF KindSafe, DecodeSafe, WorkerSafe, Worker
      <3>7. QED
        BY <3>1, <3>4, <3>5, <3>6 DEF SecretInv, KindSafe, Gone
    <2>2. ASSUME End PROVE SecretInv'
      <3>1. /\ st' = Flush(case, st) /\ case' = case /\ taken' = taken
            /\ phase' = IF st'.failed THEN "failed" ELSE "ok"
            /\ case.kind \in Worker => ~st.busy
        BY <2>2 DEF End, Busy
      <3>2. <<>> \in Seq(Range(case.input))
        BY EmptySeq
      <3>3. KindSafe(case, st') /\ Gone(case, st')
        BY <3>1, <3>2, CallsSafe DEF SecretInv
      <3>4. case.kind \in Worker /\ st'.failed => ~st'.busy
        BY <3>3 DEF KindSafe, DecodeSafe, WorkerSafe, Worker
      <3>5. QED
        BY <3>1, <3>3, <3>4 DEF SecretInv, KindSafe, Gone
    <2>3. ASSUME NEW fulfilled \in BOOLEAN, TaskSettles(fulfilled) PROVE SecretInv'
      <3>1. /\ st' = IF fulfilled THEN Resume(case, st) ELSE WorkerError([st EXCEPT !.busy = FALSE])
            /\ case' = case /\ taken' = taken /\ case.kind \in Worker /\ st.busy
            /\ phase' = IF phase = "open" /\ st'.failed THEN "failed" ELSE phase
        BY <2>3 DEF TaskSettles, Busy
      <3>2. /\ KindSafe(case, st') /\ Gone(case, st')
            /\ st.aborted => st'.aborted
            /\ st'.failed => ~st'.busy
        BY <3>1, SettleSafe DEF SecretInv
      <3>3. QED
        BY <3>1, <3>2 DEF SecretInv, KindSafe, Gone
    <2>4. ASSUME Destroy PROVE SecretInv'
      <3>1. st' = OnDestroy(case, st) /\ case' = case /\ taken' = taken /\ phase' = "destroyed"
        BY <2>4 DEF Destroy
      <3>2. KindSafe(case, st') /\ Gone(case, st') /\ (case.kind \in Worker => st'.aborted)
        BY <3>1, DestroySafe DEF SecretInv
      <3>3. QED
        BY <3>1, <3>2 DEF SecretInv, KindSafe, Gone
    <2>5. ASSUME Abort PROVE SecretInv'
      <3>1. /\ st' = [st EXCEPT !.aborted = TRUE] /\ case' = case /\ taken' = taken
            /\ phase' = phase /\ phase = "open" /\ case.kind \in Worker
        BY <2>5 DEF Abort
      <3>2. case.kind = "encode" => WorkerSafe(st')
        BY <3>1, EncodeCallsSafe DEF SecretInv, KindSafe
      <3>3. case.kind = "decode" => DecodeSafe(st', Range(case.input))
        <4>1. case.kind = "decode" => DecodeSafe(st, Range(case.input))
          BY DEF SecretInv, KindSafe
        <4>2. QED
          BY <3>1, <4>1 DEF DecodeSafe, WorkerSafe, WorkerFields
      <3>4. QED
        BY <3>1, <3>2, <3>3 DEF SecretInv, KindSafe, Worker, Plain
    <2>6. CASE UNCHANGED vars
      BY <2>6 DEF SecretInv, KindSafe, Gone, vars
    <2>7. QED
      BY <2>1, <2>2, <2>3, <2>4, <2>5, <2>6 DEF Next
  <1>3. QED
    BY <1>1, <1>2, PTL DEF Spec

\* Derived keys and waiting plaintext are overwritten on every way out of an
\* encryption stream, for every input, every fragmentation and every limit.
THEOREM SecretsAreErased ==
    Spec => []SecretsErased
  <1>1. SecretInv => SecretsErased
    BY DEF SecretInv, Gone, SecretsErased
  <1>2. QED
    BY <1>1, SecretInvariant, PTL

\* A stream that failed or was destroyed pushes nothing any more: a task that
\* settles late finds the signal aborted, and a failed stream has no task.
THEOREM NothingPushedAfterTheEnd ==
    Spec => NothingAfterDestroy
  <1>1. SecretInv /\ [Next]_vars => [(phase \in {"failed", "destroyed"}) => st'.out = st.out]_vars
    <2> SUFFICES ASSUME SecretInv, [Next]_vars, phase \in {"failed", "destroyed"} PROVE st'.out = st.out
      OBVIOUS
    <2>1. ASSUME NEW fulfilled \in BOOLEAN, TaskSettles(fulfilled) PROVE st'.out = st.out
      <3>1. /\ st' = IF fulfilled THEN Resume(case, st) ELSE WorkerError([st EXCEPT !.busy = FALSE])
            /\ case.kind \in Worker /\ st.busy
        BY <2>1 DEF TaskSettles, Busy
      <3>2. st.aborted
        BY <3>1 DEF SecretInv
      <3>3. QED
        BY <3>1, <3>2, SettleSafe DEF SecretInv
    <2>2. CASE UNCHANGED vars
      BY <2>2 DEF vars
    <2>3. QED
      BY <2>1, <2>2 DEF Next, Write, End, Destroy, Abort
  <1>2. QED
    BY <1>1, SecretInvariant, PTL DEF Spec, NothingAfterDestroy

(***************************************************************************)
(* Authenticity of decryption.  The reader is in the header, or behind it; *)
(* what it holds of a frame consists of bytes of the input, so the tag it  *)
(* compares is one of the tags of the input.                               *)
(***************************************************************************)

\* The first j frames of the original.
Whole(c, j) == SubSeq(c.original, 1, Min({Len(c.original), j * c.input[3].size}))

InHeader(c, s, rest, m) ==
    /\ Len(s.globalHeader) \in Nat /\ Len(s.globalHeader) <= 2 /\ Len(s.globalHeader) <= m
    /\ s.globalHeader = Window(c.input, 0, Len(s.globalHeader))
    /\ rest = Window(c.input, Len(s.globalHeader), m - Len(s.globalHeader))
    /\ s.frameHeader = <<>> /\ s.frameBody = <<>>
    /\ s.expected = 0 /\ s.out = <<>> /\ s.finalSeen = FALSE

InFrames(c, s, rest) ==
    /\ Len(c.input) >= 3
    /\ s.globalHeader = Window(c.input, 0, 3)
    /\ c.input[3].size \in Nat \ {0}
    /\ rest \in Seq(Range(c.input))
    /\ s.frameHeader \in Seq(Range(c.input)) /\ Len(s.frameHeader) <= 2
    /\ s.frameBody \in Seq(Range(c.input))
    /\ Len(s.frameHeader) = 2 => /\ s.frameHeader[1].type \in {DATA_FRAME, FINAL_FRAME}
                                 /\ s.frameHeader[2].sequence = s.expected
                                 /\ s.frameHeader[2].bytes \in Nat
                                 /\ Len(s.frameBody) <= s.frameHeader[2].bytes + TAG_LENGTH
    /\ Len(s.frameHeader) < 2 => s.frameBody = <<>>
    /\ s.expected \in Nat /\ s.finalSeen \in BOOLEAN
    /\ s.out = IF s.finalSeen THEN c.original ELSE Whole(c, s.expected)

\* What was released before an error is the beginning of the original.
Stopped(c, s) == s.failed /\ \E n \in 0 .. Len(c.original) : s.out = SubSeq(c.original, 1, n)

\* The original and the input are sequences.
LEMMA Sequences ==
    ASSUME NEW c \in Cases, c.kind \in {"decrypt", "verify"}
    PROVE  /\ c.input \in Seq(Range(c.input)) /\ Len(c.input) \in Nat
           /\ c.original \in Seq(Range(c.original)) /\ Len(c.original) \in Nat
           /\ Unforged(c)
  <1>1. c.input \in Seq(Range(c.input)) /\ c.original \in Seq(Range(c.original)) /\ Unforged(c)
    BY CaseAssumption
  <1>2. QED
    BY <1>1

\* An error keeps what was released.
LEMMA ErrorKeepsOutput ==
    ASSUME NEW s, DecryptSafe(s)
    PROVE  DecryptError(s).failed /\ DecryptError(s).out = s.out
  BY DEF DecryptSafe, DecryptFields, DecryptError, DecryptCleanup

\* So many frames of a size are enough for n bytes.
LEMMA FrameCount ==
    ASSUME NEW n \in Nat, NEW size \in Nat \ {0}
    PROVE  DataFrameCount(n, size) \in Nat /\ DataFrameCount(n, size) * size >= n
  BY DEF DataFrameCount

\* The frames of the original follow each other and are the whole of it.
LEMMA WholeFrames ==
    ASSUME NEW c \in Cases, c.kind = "decrypt", NEW j \in Nat, c.input[3].size \in Nat \ {0}
    PROVE  LET size == c.input[3].size
               n    == Len(c.original)
           IN  /\ Whole(c, 0) = <<>>
               /\ Whole(c, j) \o SubSeq(c.original, j * size + 1, Min({n, (j + 1) * size})) = Whole(c, j + 1)
               /\ j = DataFrameCount(n, size) => Whole(c, j) = c.original
               /\ \E i \in 0 .. n : Whole(c, j) = SubSeq(c.original, 1, i)
  <1> DEFINE o    == c.original
             R    == Range(c.original)
             n    == Len(c.original)
             size == c.input[3].size
             a    == j * size
             b    == (j + 1) * size
             x    == IF n <= a THEN n ELSE a
             y    == IF n <= b THEN n ELSE b
  <1>1. o \in Seq(R) /\ n = Len(o) /\ n \in Nat
    BY Sequences
  <1>2. size \in Nat \ {0} /\ a \in Nat /\ b \in Nat /\ b = a + size
    <2>1. size \in Nat \ {0} /\ j \in Nat
      OBVIOUS
    <2> HIDE DEF size
    <2>2. QED
      BY <2>1
  <1>3. j = DataFrameCount(n, size) => a >= n
    BY <1>1, <1>2, FrameCount
  <1>4. Whole(c, 0) = SubSeq(o, 1, Min({n, 0 * size})) /\ 0 * size = 0
    BY <1>2 DEF Whole
  <1>5. Whole(c, j) = SubSeq(o, 1, Min({n, a})) /\ Whole(c, j + 1) = SubSeq(o, 1, Min({n, b}))
    BY DEF Whole
  <1> HIDE DEF o, R, n, size, a, b
  <1>6. Min({n, 0}) = 0
    <2>1. n \in Int /\ 0 \in Int
      BY <1>1
    <2>2. QED
      BY <1>1, <2>1, MinMax
  <1>7. Min({n, a}) = x /\ Min({n, b}) = y
    <2>1. n \in Int /\ a \in Int /\ b \in Int
      BY <1>1, <1>2
    <2>2. QED
      BY <2>1, MinMax
  <1>8. Whole(c, 0) = <<>>
    <2>1. SubSeq(o, 1, 0) = <<>>
      BY <1>1
    <2>2. QED
      BY <1>4, <1>6, <2>1
  <1>9. SubSeq(o, 1, x) \o SubSeq(o, a + 1, y) = SubSeq(o, 1, y)
    <2>1. CASE n <= a
      <3>1. x = n /\ y = n /\ SubSeq(o, 1, n) = o /\ n < a + 1
        BY <1>1, <1>2, <2>1, SubSeqFull
      <3>4. SubSeq(o, a + 1, n) = <<>>
        BY <1>1, <1>2, <3>1, SubSeqEmpty
      <3>2. o \o <<>> = o
        BY <1>1
      <3>3. QED
        BY <3>1, <3>2, <3>4
    <2>2. CASE a < n
      <3>1. /\ x = a /\ y \in a .. n /\ 1 \in 1 .. n + 1 /\ a \in 1 - 1 .. n
        BY <1>1, <1>2, <2>2
      <3>2. QED
        BY <1>1, <3>1, ConcatAdjacentSubSeq
    <2>3. n <= a \/ a < n
      BY <1>1, <1>2
    <2>4. QED
      BY <2>1, <2>2, <2>3, Zenon
  <1>10. a >= n => SubSeq(o, 1, x) = o
    BY <1>1, <1>2, SubSeqFull
  <1>11. x \in 0 .. n
    BY <1>1, <1>2
  <1> HIDE DEF x, y
  <1>12. QED
    BY <1>3, <1>5, <1>7, <1>8, <1>9, <1>10, <1>11 DEF o, n, size, a, b

\* A tag seals the header and the frame header, in this order.
LEMMA SealedHeaders ==
    ASSUME NEW R, NEW g \in Seq(R), NEW h \in Seq(R), Len(g) = 3, Len(h) = 2
    PROVE  (g \o h)[4] = h[1] /\ (g \o h)[5] = h[2] /\ Take(g \o h, 3) = g
  <1> DEFINE aad == g \o h
  <1>0. /\ aad \in Seq(R) /\ Len(aad) = Len(g) + Len(h)
        /\ \A x \in 1 .. Len(g) + Len(h) : aad[x] = IF x <= Len(g) THEN g[x] ELSE h[x - Len(g)]
    BY ConcatProperties
  <1> HIDE DEF aad
  <1>1. aad \in Seq(R) /\ Len(aad) = 5
    BY <1>0
  <1>2. \A x \in 1 .. 5 : aad[x] = IF x <= 3 THEN g[x] ELSE h[x - 3]
    BY <1>0
  <1>3. aad[4] = h[1] /\ aad[5] = h[2]
    <2>1. aad[4] = h[4 - 3] /\ aad[5] = h[5 - 3]
      BY <1>2
    <2>2. 4 - 3 = 1 /\ 5 - 3 = 2
      OBVIOUS
    <2>3. QED
      BY <2>1, <2>2
  <1>4. Take(aad, 3) \in Seq(R) /\ Len(Take(aad, 3)) = 3 /\ \A x \in 1 .. 3 : Take(aad, 3)[x] = aad[x]
    <2>1. 3 \in 0 .. Len(aad)
      BY <1>1
    <2>2. QED
      BY <1>1, <2>1, Cut DEF Take
  <1>5. Take(aad, 3) = g
    <2>1. ASSUME NEW x \in 1 .. Len(g) PROVE Take(aad, 3)[x] = g[x]
      <3>1. x \in 1 .. 3 /\ x \in 1 .. 5 /\ x <= 3
        OBVIOUS
      <3>2. QED
        BY <1>2, <1>4, <3>1
    <2>2. QED
      BY <1>4, <2>1, SeqEqual
  <1>6. QED
    BY <1>3, <1>5 DEF aad

\* Plaintext that a frame releases is the frame of the original that the
\* reader expects: its tag is an element of the input, made under the same
\* header, and nobody else could make it (decryptFrame).
LEMMA AuthenticFrame ==
    ASSUME NEW c \in Cases, c.kind = "decrypt", NEW rest, NEW s, InFrames(c, s, rest),
           Len(s.frameHeader) = 2, NEW text,
           Drop(s.frameBody, s.frameHeader[2].bytes) = Seal(s.globalHeader, s.frameHeader, text),
           Len(s.frameBody) = s.frameHeader[2].bytes + TAG_LENGTH
    PROVE  LET size == c.input[3].size
               n    == Len(c.original)
           IN  \/ /\ s.frameHeader[1].type = DATA_FRAME
                  /\ text = SubSeq(c.original, s.expected * size + 1, Min({n, (s.expected + 1) * size}))
               \/ /\ s.frameHeader[1].type = FINAL_FRAME
                  /\ text = <<>> /\ s.expected = DataFrameCount(n, size)
  <1> DEFINE R     == Range(c.input)
             seq   == c.input
             g     == s.globalHeader
             h     == s.frameHeader
             bytes == h[2].bytes
             body  == s.frameBody
             tag   == [k |-> "tag", aad |-> g \o h, text |-> text]
  <1>1. /\ seq \in Seq(R) /\ Unforged(c) /\ g = Window(seq, 0, 3) /\ Len(seq) >= 3
        /\ h \in Seq(R) /\ Len(h) = 2 /\ body \in Seq(R) /\ bytes \in Nat /\ Len(body) = bytes + 2
        /\ h[2].sequence = s.expected
    BY Sequences DEF InFrames, TAG_LENGTH
  <1>2. Drop(body, bytes) = <<tag>> \o Pad
    BY DEF Seal
  <1> HIDE DEF R, seq, g, h, bytes, body
  <1>3. /\ g \in Seq(R) /\ Len(g) = 3 /\ g[3] = seq[3]
        /\ g = Take(seq, GLOBAL_HEADER_LENGTH)
    BY <1>1 DEF Window, Take, GLOBAL_HEADER_LENGTH
  <1>4. body[bytes + 1] = tag
    <2>1. (<<tag>> \o Pad)[1] = tag
      BY DEF Pad
    <2>2. Drop(body, bytes)[1] = body[bytes + 1]
      BY <1>1 DEF Drop
    <2>3. QED
      BY <1>2, <2>1, <2>2
  <1>5. tag \in R
    BY <1>1, <1>4
  <1>6. PICK i \in DOMAIN seq : seq[i] = tag
    BY <1>5 DEF R, seq, Range
  <1> DEFINE aad == g \o h
  <1>7. /\ tag.k = "tag" /\ tag.aad = aad /\ tag.text = text
    OBVIOUS
  <1> HIDE DEF tag
  <1>8. aad[4] = h[1] /\ aad[5] = h[2] /\ Take(aad, GLOBAL_HEADER_LENGTH) = g
    <2>1. Len(g) = 3 /\ Len(h) = 2
      BY <1>1, <1>3
    <2>2. QED
      BY <1>1, <1>3, <2>1, SealedHeaders DEF GLOBAL_HEADER_LENGTH
  <1> HIDE DEF aad
  <1>9. WrittenTag(tag, g, c.original)
    <2>1. /\ c.input[i].k = "tag"
          /\ Take(c.input[i].aad, GLOBAL_HEADER_LENGTH) = Take(c.input, GLOBAL_HEADER_LENGTH)
          /\ i \in DOMAIN c.input /\ c.input[i] = tag
      BY <1>3, <1>6, <1>7, <1>8 DEF seq
    <2>2. WrittenTag(c.input[i], Take(c.input, GLOBAL_HEADER_LENGTH), c.original)
      BY <1>1, <2>1 DEF Unforged
    <2>3. QED
      BY <1>3, <2>1, <2>2 DEF seq
  <1> DEFINE size == g[3].size
             e    == s.expected
             n    == Len(c.original)
  <1>10. \/ /\ h[1].type = DATA_FRAME /\ text = SubSeq(c.original, e * size + 1, Min({n, (e + 1) * size}))
         \/ /\ h[1].type = FINAL_FRAME /\ text = <<>> /\ e = DataFrameCount(n, size)
    BY <1>1, <1>7, <1>8, <1>9 DEF WrittenTag
  <1>11. QED
    BY <1>3, <1>10 DEF h, seq

\* A frame whose body is complete is released and counted, or it is an error.
LEMMA OpenedFrame ==
    ASSUME NEW c \in Cases, c.kind = "decrypt", NEW rest, NEW s, DecryptSafe(s), InFrames(c, s, rest),
           ~s.failed, ~s.finalSeen, Len(s.frameHeader) = 2,
           Len(s.frameBody) = s.frameHeader[2].bytes + TAG_LENGTH
    PROVE  \/ ~OpenFrame(s).failed /\ InFrames(c, OpenFrame(s), rest)
           \/ Stopped(c, OpenFrame(s))
  <1> DEFINE bytes    == s.frameHeader[2].bytes
             restored == DecryptFrame(Take(s.frameBody, bytes), Drop(s.frameBody, bytes),
                                      s.frameHeader, s.globalHeader)
             text     == restored.out
             final    == s.frameHeader[1].type = FINAL_FRAME
             t        == [s EXCEPT !.finalSeen = final, !.out = s.out \o text,
                                   !.dataFrames = IF final THEN s.dataFrames ELSE s.dataFrames + 1,
                                   !.expected = s.expected + 1, !.frameBody = <<>>, !.frameHeader = <<>>]
             size     == c.input[3].size
             n        == Len(c.original)
             e        == s.expected
  <1>1. OpenFrame(s) = IF ~restored.ok THEN DecryptError(s) ELSE t
    BY Zenon DEF OpenFrame
  <1>2. restored.ok => Drop(s.frameBody, bytes) = Seal(s.globalHeader, s.frameHeader, text)
    BY DEF DecryptFrame, Result, Failed
  <1>3. /\ t.finalSeen = final /\ t.out = s.out \o text /\ t.expected = e + 1 /\ t.failed = s.failed
        /\ t.frameBody = <<>> /\ t.frameHeader = <<>> /\ t.globalHeader = s.globalHeader
    BY Zenon DEF DecryptSafe, DecryptFields
  <1>4. size \in Nat \ {0} /\ e \in Nat /\ s.out = Whole(c, e)
    BY DEF InFrames
  <1>5. final \in BOOLEAN /\ (final <=> s.frameHeader[1].type = FINAL_FRAME)
    OBVIOUS
  <1> HIDE DEF restored, t, final
  <1>6. CASE restored.ok
    <2>1. \/ /\ s.frameHeader[1].type = DATA_FRAME
             /\ text = SubSeq(c.original, e * size + 1, Min({n, (e + 1) * size}))
          \/ /\ s.frameHeader[1].type = FINAL_FRAME
             /\ text = <<>> /\ e = DataFrameCount(n, size)
      BY <1>2, <1>6, AuthenticFrame
    <2> HIDE DEF text
    <2>2. t.out = IF t.finalSeen THEN c.original ELSE Whole(c, t.expected)
      <3>1. CASE ~final
        <4>1. s.out \o text = Whole(c, e + 1)
          BY <1>4, <1>5, <2>1, <3>1, WholeFrames
        <4>2. QED
          BY <1>3, <3>1, <4>1
      <3>2. CASE final
        <4>1. text = <<>> /\ e = DataFrameCount(n, size)
          BY <1>5, <2>1, <3>2 DEF DATA_FRAME, FINAL_FRAME
        <4>2. s.out = c.original
          BY <1>4, <4>1, WholeFrames
        <4>3. c.original \in Seq(Range(c.original))
          BY Sequences
        <4>4. s.out \o text = c.original
          BY <4>1, <4>2, <4>3
        <4>5. QED
          BY <1>3, <3>2, <4>4
      <3>3. QED
        BY <3>1, <3>2
    <2>3. <<>> \in Seq(Range(c.input)) /\ Len(<<>>) = 0
      BY EmptySeq
    <2>4. e + 1 \in Nat
      BY <1>4
    <2>5. InFrames(c, t, rest)
      <3>1. /\ Len(c.input) >= 3 /\ t.globalHeader = Window(c.input, 0, 3) /\ c.input[3].size \in Nat \ {0}
            /\ rest \in Seq(Range(c.input))
        BY <1>3 DEF InFrames
      <3>2. /\ t.frameHeader \in Seq(Range(c.input)) /\ Len(t.frameHeader) = 0
            /\ t.frameBody \in Seq(Range(c.input)) /\ t.frameBody = <<>>
        BY <1>3, <2>3
      <3>3. t.expected \in Nat /\ t.finalSeen \in BOOLEAN
        BY <1>3, <1>5, <2>4
      <3>4. QED
        BY <2>2, <3>1, <3>2, <3>3 DEF InFrames
    <2>6. QED
      BY <1>1, <1>3, <1>6, <2>5
  <1>7. CASE ~restored.ok
    <2>1. OpenFrame(s).failed /\ OpenFrame(s).out = s.out
      BY <1>1, <1>7, ErrorKeepsOutput
    <2>2. \E i \in 0 .. n : s.out = SubSeq(c.original, 1, i)
      BY <1>4, WholeFrames
    <2>3. QED
      BY <2>1, <2>2 DEF Stopped
  <1>8. QED
    BY <1>6, <1>7

\* A turn behind the header.
LEMMA FramesTurn ==
    ASSUME NEW c \in Cases, c.kind = "decrypt", NEW s, NEW rest, NEW limits,
           DecryptSafe(s), ~s.failed, InFrames(c, s, rest), rest # <<>>
    PROVE  LET t == FramedTurn(s, rest, limits)
           IN  \/ ~t.st.failed /\ InFrames(c, t.st, t.rest)
               \/ Stopped(c, t.st)
  <1> DEFINE R       == Range(c.input)
             t       == FramedTurn(s, rest, limits)
             headed  == Min({FRAME_HEADER_LENGTH - Len(s.frameHeader), Len(rest)})
             header  == s.frameHeader \o Take(rest, headed)
             after   == Drop(rest, headed)
             fresh   == Len(s.frameHeader) < FRAME_HEADER_LENGTH
             accepts == FrameAccepted(header, s.expected, s.dataFrames, Len(s.out),
                                      s.globalHeader[3].size, limits)
             length  == header[2].bytes + TAG_LENGTH
             copied  == Min({length - Len(s.frameBody), Len(after)})
             body    == s.frameBody \o Take(after, copied)
             named   == [s EXCEPT !.frameHeader = header]
             read    == [s EXCEPT !.frameHeader = header, !.frameBody = body]
             h       == Len(s.frameHeader)
             b       == Len(s.frameBody)
  <1>0. c.input \in Seq(R) /\ Len(c.input) \in Nat
    BY Sequences
  <1>1. /\ rest \in Seq(R) /\ s.frameHeader \in Seq(R) /\ s.frameBody \in Seq(R)
        /\ h \in Nat /\ h <= 2 /\ b \in Nat /\ Len(rest) \in Nat
        /\ h < 2 => s.frameBody = <<>> /\ b = 0
        /\ h = Len(s.frameHeader) /\ b = Len(s.frameBody)
    <2>1. rest \in Seq(R) /\ s.frameHeader \in Seq(R) /\ s.frameBody \in Seq(R) /\ h <= 2
      BY DEF InFrames
    <2>2. h < 2 => s.frameBody = <<>>
      BY DEF InFrames
    <2> HIDE DEF R
    <2>3. h \in Nat /\ b \in Nat /\ Len(rest) \in Nat
      BY <2>1
    <2>4. b = Len(s.frameBody) /\ h = Len(s.frameHeader)
      OBVIOUS
    <2> HIDE DEF h, b
    <2>5. h \in Nat /\ h <= 2
      BY <2>1, <2>3
    <2>6. h < 2 => s.frameBody = <<>> /\ b = 0
      BY <2>2, <2>4
    <2>7. QED
      BY <2>1, <2>3, <2>4, <2>5, <2>6
  <1> HIDE DEF R, h, b
  <1>8. h \in Nat /\ h <= 2 /\ Len(rest) \in Nat /\ b \in Nat
    BY <1>1
  <1>2. ~(Len(s.globalHeader) < GLOBAL_HEADER_LENGTH)
    BY <1>0 DEF InFrames, Window, GLOBAL_HEADER_LENGTH
  <1>3. \E i \in 0 .. Len(c.original) : s.out = SubSeq(c.original, 1, i)
    <2>1. CASE s.finalSeen
      <3>1. s.out = c.original
        BY <2>1 DEF InFrames
      <3>2. c.original \in Seq(Range(c.original)) /\ Len(c.original) \in Nat
        BY Sequences
      <3>3. SubSeq(c.original, 1, Len(c.original)) = c.original /\ Len(c.original) \in 0 .. Len(c.original)
        BY <3>2, SubSeqFull
      <3>4. QED
        BY <3>1, <3>3
    <2>2. CASE ~s.finalSeen
      BY <2>2, WholeFrames DEF InFrames
    <2>3. QED
      BY <2>1, <2>2
  <1>4. Stopped(c, DecryptError(s))
    BY <1>3, ErrorKeepsOutput DEF Stopped
  <1>5. CASE s.finalSeen
    <2>1. t.st = DecryptError(s)
      BY <1>5 DEF FramedTurn
    <2>2. QED
      BY <1>4, <2>1
  <1>6. CASE ~s.finalSeen
    <2>1. t = IF Len(header) < FRAME_HEADER_LENGTH THEN [st |-> named, rest |-> after]
              ELSE IF fresh /\ ~accepts THEN [st |-> DecryptError(s), rest |-> <<>>]
              ELSE [st |-> IF Len(body) < length THEN read ELSE OpenFrame(read), rest |-> Drop(after, copied)]
      BY <1>2, <1>6, Zenon DEF FramedTurn
    <2>2. /\ named.frameHeader = header /\ named.frameBody = s.frameBody /\ named.globalHeader = s.globalHeader
          /\ named.expected = s.expected /\ named.finalSeen = s.finalSeen /\ named.out = s.out
          /\ named.failed = s.failed
          /\ read.frameHeader = header /\ read.frameBody = body /\ read.globalHeader = s.globalHeader
          /\ read.expected = s.expected /\ read.finalSeen = s.finalSeen /\ read.out = s.out
          /\ read.failed = s.failed /\ DecryptSafe(read)
      BY DEF DecryptSafe, DecryptFields
    <2>3. accepts => /\ header[1].type \in {DATA_FRAME, FINAL_FRAME} /\ header[2].sequence = s.expected
                     /\ header[2].bytes \in Nat
      <3> HIDE DEF header
      <3>1. QED
        BY DEF FrameAccepted
    <2> HIDE DEF t, named, read, accepts
    <2>4. /\ headed \in 0 .. Len(rest) /\ headed = IF 2 - h <= Len(rest) THEN 2 - h ELSE Len(rest)
      <3>1. 2 - h \in Int /\ Len(rest) \in Int /\ 2 - h >= 0 /\ Len(rest) >= 0
        BY <1>8
      <3>2. headed = IF 2 - h <= Len(rest) THEN 2 - h ELSE Len(rest)
        BY <1>1, <3>1, MinMax DEF FRAME_HEADER_LENGTH
      <3> HIDE DEF headed
      <3>3. QED
        BY <3>1, <3>2
    <2> HIDE DEF headed
    <2>5. /\ Take(rest, headed) \in Seq(R) /\ Len(Take(rest, headed)) = headed
          /\ after \in Seq(R) /\ Len(after) = Len(rest) - headed
      <3>1. rest \in Seq(R) /\ headed \in 0 .. Len(rest)
        BY <1>1, <2>4
      <3>2. QED
        BY <3>1, Cut DEF Take, Drop
    <2> HIDE DEF after
    <2>6. header \in Seq(R) /\ Len(header) = h + headed
      <3>1. s.frameHeader \in Seq(R) /\ Take(rest, headed) \in Seq(R)
        BY <1>1, <2>5
      <3>2. header \in Seq(R) /\ Len(header) = Len(s.frameHeader) + Len(Take(rest, headed))
        BY <3>1, ConcatProperties
      <3> HIDE DEF header
      <3>3. QED
        BY <1>1, <2>5, <3>2
    <2>7. h = 2 => header = s.frameHeader
      <3>1. h = 2 => Take(rest, headed) = <<>>
        BY <1>1, <2>4 DEF Take
      <3>2. QED
        BY <1>1, <3>1, ConcatEmptySeq
    <2> HIDE DEF header, fresh, length, copied, body
    <2>12. (fresh <=> h < 2) /\ length = header[2].bytes + TAG_LENGTH
      BY <1>1 DEF fresh, length, FRAME_HEADER_LENGTH
    <2>8. CASE Len(header) < 2
      <3>1. t.st = named /\ t.rest = after
        BY <2>1, <2>8 DEF FRAME_HEADER_LENGTH
      <3>2. h < 2
        BY <1>8, <2>4, <2>6, <2>8
      <3>3. InFrames(c, named, after)
        <4>1. /\ Len(c.input) >= 3 /\ named.globalHeader = Window(c.input, 0, 3) /\ c.input[3].size \in Nat \ {0}
              /\ named.expected \in Nat /\ named.finalSeen \in BOOLEAN
              /\ named.out = IF named.finalSeen THEN c.original ELSE Whole(c, named.expected)
          BY <2>2 DEF InFrames
        <4>2. /\ named.frameHeader \in Seq(R) /\ Len(named.frameHeader) < 2 /\ named.frameBody \in Seq(R)
              /\ after \in Seq(R) /\ named.frameBody = <<>>
          BY <1>1, <2>2, <2>5, <2>6, <2>8, <3>2
        <4>3. Len(named.frameHeader) # 2 /\ Len(named.frameHeader) <= 2
          BY <1>8, <2>2, <2>4, <2>6, <4>2
        <4>4. QED
          BY <4>1, <4>2, <4>3 DEF InFrames, R
      <3>4. QED
        BY <2>2, <3>1, <3>3 DEF t
    <2>9. CASE Len(header) = 2 /\ fresh /\ ~accepts
      <3>1. t.st = DecryptError(s)
        BY <2>1, <2>9 DEF FRAME_HEADER_LENGTH
      <3>2. QED
        BY <1>4, <3>1 DEF t
    <2>10. CASE Len(header) = 2 /\ (~fresh \/ accepts)
      <3>1. /\ header[1].type \in {DATA_FRAME, FINAL_FRAME} /\ header[2].sequence = s.expected
            /\ header[2].bytes \in Nat /\ b <= length
        <4>1. CASE fresh
          <5>1. accepts /\ b = 0
            BY <1>1, <2>10, <2>12, <4>1
          <5>2. QED
            BY <2>3, <2>12, <5>1 DEF TAG_LENGTH
        <4>2. CASE ~fresh
          <5>1. h = 2
            BY <1>8, <2>12, <4>2
          <5>2. header = s.frameHeader
            BY <2>7, <5>1
          <5>3. /\ s.frameHeader[1].type \in {DATA_FRAME, FINAL_FRAME}
                /\ s.frameHeader[2].sequence = s.expected /\ s.frameHeader[2].bytes \in Nat
                /\ Len(s.frameBody) <= s.frameHeader[2].bytes + TAG_LENGTH
            BY <1>1, <5>1 DEF InFrames
          <5>4. QED
            BY <1>1, <2>12, <5>2, <5>3
        <4>3. QED
          BY <4>1, <4>2
      <3>2. length \in Nat /\ length = header[2].bytes + TAG_LENGTH
        BY <2>12, <3>1 DEF TAG_LENGTH
      <3>3. copied \in 0 .. Len(after) /\ copied <= length - b
        <4>1. length - b \in Int /\ Len(after) \in Int /\ length - b >= 0 /\ Len(after) >= 0
          <5>1. length \in Nat /\ b \in Nat /\ b <= length
            BY <1>1, <3>1, <3>2
          <5>2. Len(after) \in Nat
            BY <2>5
          <5>3. QED
            BY <5>1, <5>2
        <4>2. copied = IF length - b <= Len(after) THEN length - b ELSE Len(after)
          BY <1>1, <4>1, MinMax DEF copied
        <4>3. QED
          BY <4>1, <4>2
      <3>4. /\ Take(after, copied) \in Seq(R) /\ Len(Take(after, copied)) = copied
            /\ Drop(after, copied) \in Seq(R)
        BY <2>5, <3>3, Cut DEF Take, Drop
      <3>5. body \in Seq(R) /\ Len(body) = b + copied /\ Len(body) <= length
        <4>1. s.frameBody \in Seq(R) /\ Take(after, copied) \in Seq(R)
          BY <1>1, <3>4
        <4>2. body \in Seq(R) /\ Len(body) = Len(s.frameBody) + Len(Take(after, copied))
          BY <4>1, ConcatProperties DEF body
        <4>3. QED
          BY <1>1, <3>2, <3>3, <3>4, <4>2
      <3>6. InFrames(c, read, Drop(after, copied))
        <4>1. /\ Len(c.input) >= 3 /\ read.globalHeader = Window(c.input, 0, 3) /\ c.input[3].size \in Nat \ {0}
              /\ read.expected \in Nat /\ read.finalSeen \in BOOLEAN
              /\ read.out = IF read.finalSeen THEN c.original ELSE Whole(c, read.expected)
          BY <2>2 DEF InFrames
        <4>2. /\ read.frameHeader \in Seq(R) /\ Len(read.frameHeader) = 2 /\ read.frameBody \in Seq(R)
              /\ Drop(after, copied) \in Seq(R)
          BY <2>2, <2>6, <2>10, <3>4, <3>5
        <4>3. /\ read.frameHeader[1].type \in {DATA_FRAME, FINAL_FRAME}
              /\ read.frameHeader[2].sequence = read.expected
              /\ read.frameHeader[2].bytes \in Nat
              /\ Len(read.frameBody) <= read.frameHeader[2].bytes + TAG_LENGTH
          BY <2>2, <3>1, <3>2, <3>5
        <4>4. QED
          BY <4>1, <4>2, <4>3 DEF InFrames, R
      <3>7. t.st = (IF Len(body) < length THEN read ELSE OpenFrame(read)) /\ t.rest = Drop(after, copied)
        BY <2>1, <2>10 DEF FRAME_HEADER_LENGTH
      <3>8. CASE Len(body) < length
        BY <2>2, <3>6, <3>7, <3>8 DEF t
      <3>9. CASE ~(Len(body) < length)
        <4>1. Len(read.frameHeader) = 2 /\ Len(read.frameBody) = read.frameHeader[2].bytes + TAG_LENGTH
          <5>1. Len(body) = length
            BY <1>8, <3>2, <3>3, <3>5, <3>9
          <5>2. QED
            BY <2>2, <2>10, <3>2, <5>1
        <4>2. \/ ~OpenFrame(read).failed /\ InFrames(c, OpenFrame(read), Drop(after, copied))
              \/ Stopped(c, OpenFrame(read))
          BY <1>6, <2>2, <3>6, <4>1, OpenedFrame
        <4>3. QED
          BY <3>7, <3>9, <4>2 DEF t
      <3>10. QED
        BY <3>8, <3>9
    <2>11. Len(header) < 2 \/ Len(header) = 2
      BY <1>8, <2>4, <2>6
    <2>13. QED
      BY <2>8, <2>9, <2>10, <2>11
  <1>7. QED
    BY <1>5, <1>6 DEF InFrames

\* The header is complete and no frame has begun.
Headed(c, s, rest, m) ==
    /\ s.globalHeader = Window(c.input, 0, 3) /\ rest = Window(c.input, 3, m - 3)
    /\ s.frameHeader = <<>> /\ s.frameBody = <<>>
    /\ s.expected = 0 /\ s.out = <<>> /\ s.finalSeen = FALSE

\* A turn in the header reads what is left of it.
LEMMA HeaderRead ==
    ASSUME NEW c \in Cases, c.kind = "decrypt", NEW s, NEW rest, NEW m \in 0 .. Len(c.input), NEW limits,
           DecryptSafe(s), ~s.failed, InHeader(c, s, rest, m), rest # <<>>
    PROVE  LET t == FramedTurn(s, rest, limits)
           IN  /\ t.st.dataFrames = s.dataFrames
               /\ \/ m < 3 /\ ~t.st.failed /\ InHeader(c, t.st, t.rest, m) /\ t.rest = <<>>
                  \/ m >= 3 /\ ~t.st.failed /\ ValidHeader(Window(c.input, 0, 3), limits) /\ Headed(c, t.st, t.rest, m)
                  \/ m >= 3 /\ t.st.failed /\ ~ValidHeader(Window(c.input, 0, 3), limits) /\ t.st.out = <<>>
  <1> DEFINE R      == Range(c.input)
             seq    == c.input
             g      == s.globalHeader
             p      == Len(g)
             k      == IF m < 3 THEN m ELSE 3
             copied == Min({GLOBAL_HEADER_LENGTH - Len(s.globalHeader), Len(rest)})
             header == s.globalHeader \o Take(rest, copied)
             read   == [s EXCEPT !.globalHeader = header]
             live   == [read EXCEPT !.key = "live"]
             left   == Drop(rest, copied)
             t      == FramedTurn(s, rest, limits)
  <1>0. seq \in Seq(R) /\ Len(seq) \in Nat
    BY Sequences
  <1>1. /\ p \in Nat /\ p <= 2 /\ p <= m /\ g = Window(seq, 0, p) /\ rest = Window(seq, p, m - p)
    BY DEF InHeader
  <1>2. m \in Nat /\ m <= Len(seq) /\ p \in Nat /\ p <= 2 /\ p <= m
    <2>1. m \in Nat /\ m <= Len(seq)
      BY <1>0
    <2> HIDE DEF p, g
    <2>2. QED
      BY <1>1, <2>1
  <1>3. t = [st   |-> IF Len(header) < GLOBAL_HEADER_LENGTH THEN read
                      ELSE IF ValidHeader(header, limits) THEN live
                      ELSE DecryptError(read),
             rest |-> left]
    <2>1. Len(s.globalHeader) < GLOBAL_HEADER_LENGTH
      BY <1>2 DEF GLOBAL_HEADER_LENGTH
    <2>2. ~s.finalSeen
      BY DEF InHeader
    <2> HIDE DEF copied, g, p
    <2>3. QED
      BY <2>1, <2>2, Zenon DEF FramedTurn, copied
  <1>4. /\ read.dataFrames = s.dataFrames /\ live.dataFrames = s.dataFrames
        /\ DecryptSafe(read) /\ ~read.failed /\ read.globalHeader = header
        /\ read.frameHeader = <<>> /\ read.frameBody = <<>>
        /\ read.expected = 0 /\ read.out = <<>> /\ read.finalSeen = FALSE
        /\ ~live.failed /\ live.globalHeader = header
        /\ live.frameHeader = <<>> /\ live.frameBody = <<>>
        /\ live.expected = 0 /\ live.out = <<>> /\ live.finalSeen = FALSE
    <2> HIDE DEF header
    <2>1. QED
      BY DEF DecryptSafe, DecryptFields, InHeader
  <1> HIDE DEF R, seq, p, read, live, t
  <1>5. header = Window(seq, 0, k) /\ left = Window(seq, k, m - k) /\ Len(header) = k
    <2> DEFINE j == m - p
    <2>1. /\ j \in Nat /\ p \in Nat /\ p + j <= Len(seq) /\ p + j = m /\ k \in Nat /\ p <= k
          /\ k - p \in 0 .. j /\ p + (k - p) = k /\ j - (k - p) = m - k
          /\ k - p \in Nat /\ k <= Len(seq) /\ k - p = (IF 3 - p <= j THEN 3 - p ELSE j)
          /\ 3 - p \in Int /\ j \in Int
      <3> DEFINE n == Len(seq)
      <3>1. n \in Nat /\ m \in Nat /\ p \in Nat /\ p <= 2 /\ p <= m /\ m <= n
        BY <1>0, <1>2
      <3> HIDE DEF n
      <3>2. /\ j \in Nat /\ p + j <= n /\ p + j = m /\ k \in Nat /\ p <= k
            /\ k - p \in 0 .. j /\ p + (k - p) = k /\ j - (k - p) = m - k
            /\ k - p \in Nat /\ k <= n /\ 3 - p \in Int /\ j \in Int
        BY <3>1
      <3>3. k - p = IF 3 - p <= j THEN 3 - p ELSE j
        BY <3>1
      <3>4. QED
        BY <3>1, <3>2, <3>3 DEF n
    <2> HIDE DEF j, k
    <2>2. rest \in Seq(R) /\ Len(rest) = j
      <3>1. rest = Window(seq, p, j)
        BY <1>1 DEF j
      <3>2. seq \in Seq(R) /\ p \in Nat /\ j \in Nat /\ p + j <= Len(seq)
        BY <1>0, <2>1
      <3>3. Window(seq, p, j) \in Seq(R) /\ Len(Window(seq, p, j)) = j
        BY <3>2, WindowElements
      <3>4. QED
        BY <3>1, <3>3
    <2> DEFINE x == k - p
    <2>3. copied = x
      BY <2>1, <2>2, MinMax DEF GLOBAL_HEADER_LENGTH, p
    <2>4. x \in 0 .. j /\ x \in Nat /\ p + x = k /\ j - x = m - k
      BY <2>1
    <2> HIDE DEF x, copied
    <2>5. Take(rest, x) = Window(seq, p, x) /\ left = Window(seq, p + x, j - x)
      <3>1. rest = Window(seq, p, j)
        BY <1>1 DEF j
      <3>2. p \in Nat /\ j \in Nat /\ p + j <= Len(seq) /\ x \in 0 .. j
        BY <2>1, <2>4
      <3>3. Take(Window(seq, p, j), x) = Window(seq, p, x) /\ Drop(Window(seq, p, j), x) = Window(seq, p + x, j - x)
        BY <1>0, <3>2, WindowCut
      <3>4. QED
        BY <2>3, <3>1, <3>3
    <2>6. Window(seq, 0, p) \o Window(seq, p, x) = Window(seq, 0, k)
      <3>1. 1 \in 1 .. Len(seq) + 1 /\ p \in 1 - 1 .. Len(seq) /\ k \in p .. Len(seq)
        BY <1>0, <1>2, <2>1
      <3>2. SubSeq(seq, 1, p) \o SubSeq(seq, p + 1, k) = SubSeq(seq, 1, k)
        BY <1>0, <3>1, ConcatAdjacentSubSeq
      <3>3. 0 + 1 = 1 /\ 0 + p = p /\ 0 + k = k
        BY <1>2, <2>1
      <3>4. QED
        BY <2>4, <3>2, <3>3 DEF Window
    <2>7. Len(Window(seq, 0, k)) = k
      BY <1>0, <2>1 DEF Window
    <2>8. QED
      BY <1>1, <2>3, <2>4, <2>5, <2>6, <2>7
  <1> HIDE DEF header, left, copied
  <1>6. k \in Nat /\ k <= m /\ (m < 3 => k = m) /\ (m >= 3 => k = 3)
    BY <1>2
  <1> HIDE DEF k
  <1>7. CASE m < 3
    <2>1. t.st = read /\ t.rest = Window(seq, m, m - m) /\ header = Window(seq, 0, m) /\ Len(header) = m
      BY <1>3, <1>5, <1>6, <1>7 DEF GLOBAL_HEADER_LENGTH
    <2>2. InHeader(c, t.st, t.rest, m)
      <3>1. m \in 0 .. 2 /\ m <= m
        BY <1>2, <1>7
      <3>2. QED
        BY <1>4, <2>1, <3>1 DEF InHeader, seq
    <2>3. t.rest = <<>>
      <3>1. m - m = 0 /\ m \in 0 .. Len(seq)
        BY <1>0, <1>2
      <3>2. QED
        BY <1>0, <2>1, <3>1, WindowEnds
    <2>4. QED
      BY <1>4, <1>7, <2>1, <2>2, <2>3 DEF t
  <1>8. CASE m >= 3 /\ ValidHeader(header, limits)
    <2>1. header = Window(seq, 0, 3) /\ left = Window(seq, 3, m - 3) /\ ~(Len(header) < GLOBAL_HEADER_LENGTH)
      <3>1. k = 3
        BY <1>6, <1>8
      <3>2. header = Window(seq, 0, 3) /\ left = Window(seq, 3, m - 3) /\ Len(header) = 3
        BY <1>5, <3>1, Zenon
      <3>3. QED
        BY <3>2 DEF GLOBAL_HEADER_LENGTH
    <2>2. t.st = live /\ t.rest = Window(seq, 3, m - 3)
      BY <1>3, <1>8, <2>1
    <2>3. Headed(c, t.st, t.rest, m)
      BY <1>4, <2>1, <2>2, Zenon DEF Headed, seq
    <2>4. /\ t.st.dataFrames = s.dataFrames /\ ~t.st.failed /\ m >= 3
          /\ ValidHeader(Window(seq, 0, 3), limits)
      BY <1>4, <1>8, <2>1, <2>2
    <2>5. QED
      BY <2>3, <2>4, Zenon DEF t, seq
  <1>9. CASE m >= 3 /\ ~ValidHeader(header, limits)
    <2>1. t.st = DecryptError(read)
      <3>1. k = 3
        BY <1>6, <1>9
      <3>2. Len(header) = 3
        BY <1>5, <3>1, Zenon
      <3>3. ~(Len(header) < GLOBAL_HEADER_LENGTH)
        BY <3>2 DEF GLOBAL_HEADER_LENGTH
      <3>4. QED
        BY <1>3, <1>9, <3>3
    <2>2. t.st.failed /\ t.st.out = <<>> /\ t.st.dataFrames = s.dataFrames
      <3>1. DecryptError(read).failed /\ DecryptError(read).out = read.out
        BY <1>4, ErrorKeepsOutput
      <3>2. DecryptError(read).dataFrames = read.dataFrames
        BY <1>4 DEF DecryptSafe, DecryptFields, DecryptError, DecryptCleanup
      <3>3. QED
        BY <1>4, <2>1, <3>1, <3>2
    <2>3. header = Window(c.input, 0, 3)
      BY <1>5, <1>6, <1>9 DEF seq
    <2>4. QED
      BY <1>9, <2>2, <2>3 DEF t
  <1>10. m < 3 \/ m >= 3
    BY <1>2
  <1>11. QED
    BY <1>7, <1>8, <1>9, <1>10

\* A turn in the header.
LEMMA HeaderTurn ==
    ASSUME NEW c \in Cases, c.kind = "decrypt", NEW s, NEW rest, NEW m \in 0 .. Len(c.input), NEW limits,
           DecryptSafe(s), ~s.failed, InHeader(c, s, rest, m), rest # <<>>
    PROVE  LET t == FramedTurn(s, rest, limits)
           IN  \/ ~t.st.failed /\ InHeader(c, t.st, t.rest, m) /\ t.rest = <<>>
               \/ ~t.st.failed /\ InFrames(c, t.st, t.rest)
               \/ Stopped(c, t.st)
  <1> DEFINE R   == Range(c.input)
             seq == c.input
             t   == FramedTurn(s, rest, limits)
  <1>0. seq \in Seq(R) /\ Len(seq) \in Nat /\ m \in Nat /\ m <= Len(seq)
    <2>1. seq \in Seq(R) /\ Len(seq) \in Nat
      BY Sequences
    <2>2. QED
      BY <2>1
  <1>1. \/ m < 3 /\ ~t.st.failed /\ InHeader(c, t.st, t.rest, m) /\ t.rest = <<>>
        \/ m >= 3 /\ ~t.st.failed /\ ValidHeader(Window(seq, 0, 3), limits) /\ Headed(c, t.st, t.rest, m)
        \/ m >= 3 /\ t.st.failed /\ t.st.out = <<>>
    BY HeaderRead
  <1> HIDE DEF R, seq, t
  <1>2. CASE m >= 3 /\ ~t.st.failed /\ ValidHeader(Window(seq, 0, 3), limits) /\ Headed(c, t.st, t.rest, m)
    <2>1. Window(seq, 0, 3)[3] = seq[3] /\ Window(seq, 3, m - 3) \in Seq(R) /\ Len(seq) >= 3
      <3>1. Window(seq, 0, 3)[3] = seq[3]
        BY <1>0, <1>2 DEF Window
      <3>2. 3 \in Nat /\ m - 3 \in Nat /\ 3 + (m - 3) <= Len(seq)
        BY <1>0, <1>2
      <3>3. Window(seq, 3, m - 3) \in Seq(R)
        BY <1>0, <3>2, WindowElements
      <3>4. QED
        BY <1>0, <1>2, <3>1, <3>3
    <2>2. Window(seq, 0, 3)[3].size \in Nat \ {0}
      BY <1>2 DEF ValidHeader
    <2>3. Whole(c, 0) = <<>>
      BY <2>1, <2>2, WholeFrames DEF seq
    <2>4. <<>> \in Seq(R) /\ Len(<<>>) = 0
      BY EmptySeq
    <2>5. InFrames(c, t.st, t.rest)
      <3>1. /\ Len(c.input) >= 3 /\ t.st.globalHeader = Window(c.input, 0, 3) /\ c.input[3].size \in Nat \ {0}
            /\ t.rest \in Seq(R) /\ t.st.frameHeader \in Seq(R) /\ Len(t.st.frameHeader) = 0
            /\ t.st.frameBody \in Seq(R) /\ t.st.frameBody = <<>>
        BY <1>2, <2>1, <2>2, <2>4 DEF seq, Headed
      <3>2. /\ t.st.expected \in Nat /\ t.st.finalSeen \in BOOLEAN
            /\ t.st.out = IF t.st.finalSeen THEN c.original ELSE Whole(c, t.st.expected)
        <4>1. t.st.expected = 0 /\ t.st.finalSeen = FALSE /\ t.st.out = Whole(c, 0)
          BY <1>2, <2>3, Zenon DEF Headed
        <4>2. t.st.out = IF t.st.finalSeen THEN c.original ELSE Whole(c, t.st.expected)
          BY <4>1, Zenon
        <4>3. t.st.expected \in Nat
          BY <4>1
        <4>4. QED
          BY <4>1, <4>2, <4>3, Zenon
      <3>3. QED
        BY <3>1, <3>2 DEF InFrames, R
    <2>6. QED
      BY <1>2, <2>5 DEF t
  <1>3. CASE m >= 3 /\ t.st.failed /\ t.st.out = <<>>
    <2>1. SubSeq(c.original, 1, 0) = <<>> /\ 0 \in 0 .. Len(c.original)
      BY Sequences
    <2>2. QED
      BY <1>3, <2>1 DEF t, Stopped
  <1>4. QED
    BY <1>1, <1>2, <1>3 DEF t

\* The reader of m bytes that has used them all.
Reading(c, s, m) == InHeader(c, s, <<>>, m) \/ InFrames(c, s, <<>>)

\* A turn does not change the format.
LEMMA FormatKept ==
    ASSUME NEW s, NEW rest, NEW limits, DecryptSafe(s)
    PROVE  FramedTurn(s, rest, limits).st.format = s.format
  BY DEF DecryptSafe, DecryptFields, FramedTurn, OpenFrame, DecryptError, DecryptCleanup

\* The loop of consumeFramed over the next n bytes.
LEMMA ConsumeAuthentic ==
    ASSUME NEW c \in Cases, c.kind = "decrypt", NEW s, NEW limits, NEW m \in Nat, NEW n \in Nat \ {0},
           m + n <= Len(c.input), DecryptSafe(s), ~s.failed, Reading(c, s, m)
    PROVE  LET t == ConsumeFramed(s, Window(c.input, m, n), limits)
           IN  /\ t.format = s.format
               /\ Stopped(c, t) \/ (~t.failed /\ Reading(c, t, m + n))
  <1> DEFINE R == Range(c.input)
             seq == c.input
             chunk == Window(seq, m, n)
             e == m + n
             x == [st |-> s, rest |-> chunk]
  <1>0. seq \in Seq(R) /\ Len(seq) \in Nat
    BY Sequences
  <1>1. chunk \in Seq(R) /\ Len(chunk) = n /\ e \in Nat /\ e <= Len(seq)
    <2>1. m \in Nat /\ n \in Nat /\ m + n <= Len(seq)
      OBVIOUS
    <2>2. QED
      BY <1>0, <2>1, WindowElements
  <1>2. PICK turn : /\ IsRun(turn, "framed", x, limits, limits, n)
                    /\ ConsumeFramed(s, chunk, limits) = turn[n].st
    BY <1>1, FramedLoop
  <1> DEFINE Good(i) ==
               /\ DecryptSafe(turn[i].st) /\ turn[i].st.format = s.format
               /\ \/ Stopped(c, turn[i].st)
                  \/ ~turn[i].st.failed /\ InHeader(c, turn[i].st, turn[i].rest, e) /\ (i > 0 => turn[i].rest = <<>>)
                  \/ ~turn[i].st.failed /\ InFrames(c, turn[i].st, turn[i].rest)
             P == {i \in 0 .. n : Good(i)}
  <1>3. 0 \in P
    <2>1. turn[0] = x
      BY <1>2 DEF IsRun
    <2>2. turn[0].st = s /\ turn[0].rest = chunk
      BY <2>1
    <2>3. CASE InHeader(c, s, <<>>, m)
      <3> DEFINE p == Len(s.globalHeader)
      <3>1. /\ p \in Nat /\ p <= 2 /\ p <= m /\ <<>> = Window(seq, p, m - p)
        BY <2>3 DEF InHeader
      <3> HIDE DEF p
      <3>2. p = m
        <4> DEFINE j == m - p
        <4>1. p \in Nat /\ j \in Nat /\ p + j <= Len(seq) /\ <<>> = Window(seq, p, j)
          BY <1>0, <1>1, <3>1
        <4>2. m = p + j
          BY <3>1
        <4> HIDE DEF j, seq
        <4>3. Len(Window(seq, p, j)) = j
          BY <1>0, <4>1, WindowElements
        <4>4. j = 0
          BY <4>1, <4>3
        <4>5. QED
          BY <3>1, <4>2, <4>4
      <3>3. chunk = Window(seq, p, e - p) /\ p <= e
        <4>1. e - p = n /\ p <= e
          BY <3>1, <3>2
        <4>2. QED
          BY <3>2, <4>1
      <3>4. InHeader(c, s, chunk, e)
        BY <2>3, <3>3 DEF InHeader, p
      <3>5. QED
        BY <2>2, <3>4
    <2>4. CASE InFrames(c, s, <<>>)
      <3>1. InFrames(c, s, chunk)
        BY <1>1, <2>4 DEF InFrames
      <3>2. QED
        BY <2>2, <3>1
    <2>5. QED
      BY <2>3, <2>4 DEF Reading
  <1>4. ASSUME NEW i \in 1 .. n, i - 1 \in P PROVE i \in P
    <2> DEFINE u == turn[i - 1].st
               r == turn[i - 1].rest
    <2>1. turn[i] = FramedTurn(u, r, limits)
      BY <1>2 DEF IsRun, Turn
    <2>2. /\ DecryptSafe(u) /\ u.format = s.format
          /\ \/ Stopped(c, u)
             \/ ~u.failed /\ InHeader(c, u, r, e) /\ (i - 1 > 0 => r = <<>>)
             \/ ~u.failed /\ InFrames(c, u, r)
      BY <1>4
    <2> HIDE DEF u, r
    <2>3. DecryptSafe(turn[i].st) /\ turn[i].st.format = s.format
      BY <2>1, <2>2, FramedTurnSafe, FormatKept
    <2>4. CASE r = <<>> \/ u.failed
      <3>1. turn[i] = [st |-> u, rest |-> r]
        BY <2>1, <2>4, Zenon DEF FramedTurn
      <3>2. turn[i].st = u /\ turn[i].rest = r
        BY <3>1
      <3>3. ~Stopped(c, u) => ~u.failed /\ r = <<>>
        BY <2>2, <2>4
      <3>4. QED
        BY <2>2, <2>3, <3>2, <3>3
    <2>5. CASE r # <<>> /\ ~u.failed /\ InHeader(c, u, r, e)
      <3>1. e \in 0 .. Len(c.input)
        BY <1>0, <1>1
      <3> HIDE DEF e
      <3>2. \/ ~turn[i].st.failed /\ InHeader(c, turn[i].st, turn[i].rest, e) /\ turn[i].rest = <<>>
            \/ ~turn[i].st.failed /\ InFrames(c, turn[i].st, turn[i].rest)
            \/ Stopped(c, turn[i].st)
        BY <2>1, <2>2, <2>5, <3>1, HeaderTurn
      <3>3. QED
        BY <2>3, <3>2
    <2>6. CASE r # <<>> /\ ~u.failed /\ InFrames(c, u, r)
      <3>1. \/ ~turn[i].st.failed /\ InFrames(c, turn[i].st, turn[i].rest)
            \/ Stopped(c, turn[i].st)
        BY <2>1, <2>2, <2>6, FramesTurn
      <3>2. QED
        BY <2>3, <3>1
    <2>7. QED
      BY <2>2, <2>4, <2>5, <2>6 DEF Stopped
  <1> HIDE DEF P
  <1>5. n \in P
    BY <1>3, <1>4, UpTo
  <1>6. Good(n)
    BY <1>5 DEF P
  <1> DEFINE t == ConsumeFramed(s, chunk, limits)
  <1>7. t = turn[n].st
    BY <1>2
  <1>8. InFrames(c, t, turn[n].rest) => InFrames(c, t, <<>>)
    BY EmptySeq DEF InFrames
  <1>9. Stopped(c, t) \/ (~t.failed /\ Reading(c, t, e))
    BY <1>6, <1>7, <1>8 DEF Reading
  <1>10. QED
    BY <1>6, <1>7, <1>9

\* What a stream has pushed is the beginning of the original.
Begins(c, s) == \E n \in 0 .. Len(c.original) : s.out = SubSeq(c.original, 1, n)

\* A decrypting Transform that has got m bytes.
DecryptReader(c, s, m) ==
    /\ ~s.failed
    /\ \/ s.format = "unknown" /\ m = 0 /\ InHeader(c, s, <<>>, 0) /\ s.legacyChunks = <<>>
       \/ s.format = "framed" /\ Reading(c, s, m)
       \/ s.format = "legacy" /\ s.out = <<>> /\ s.legacyChunks \in Seq(Range(c.input))

\* It has released the beginning of the original.
LEMMA ReaderBegins ==
    ASSUME NEW c \in Cases, c.kind = "decrypt", NEW s, NEW m, DecryptReader(c, s, m)
    PROVE  Begins(c, s)
  <1>0. c.original \in Seq(Range(c.original)) /\ Len(c.original) \in Nat
    BY Sequences
  <1>1. CASE s.out = <<>>
    <2>1. SubSeq(c.original, 1, 0) = <<>> /\ 0 \in 0 .. Len(c.original)
      BY <1>0
    <2>2. QED
      BY <1>1, <2>1 DEF Begins
  <1>2. CASE InFrames(c, s, <<>>)
    <2>1. CASE s.finalSeen
      <3>1. s.out = c.original
        BY <1>2, <2>1 DEF InFrames
      <3>2. SubSeq(c.original, 1, Len(c.original)) = c.original /\ Len(c.original) \in 0 .. Len(c.original)
        BY <1>0, SubSeqFull
      <3>3. QED
        BY <3>1, <3>2 DEF Begins
    <2>2. CASE ~s.finalSeen
      BY <1>2, <2>2, WholeFrames DEF InFrames, Begins
    <2>3. QED
      BY <2>1, <2>2
  <1>3. QED
    BY <1>1, <1>2 DEF DecryptReader, Reading, InHeader

\* transform() with the next n bytes.
LEMMA DecryptTransformAuthentic ==
    ASSUME NEW c \in Cases, c.kind = "decrypt", NEW s, NEW allow, NEW limits, NEW m \in Nat, NEW n \in Nat,
           m + n <= Len(c.input), DecryptSafe(s), DecryptReader(c, s, m)
    PROVE  LET t == DecryptTransform(s, Window(c.input, m, n), allow, limits)
           IN  (t.failed /\ Begins(c, t)) \/ DecryptReader(c, t, m + n)
  <1> DEFINE chunk  == Window(c.input, m, n)
             R      == Range(c.input)
             format == IF s.format # "unknown" THEN s.format
                       ELSE IF chunk[1] = MAGIC[1] THEN "framed" ELSE "legacy"
             read   == [s EXCEPT !.totalInput = s.totalInput + Len(chunk)]
             kept   == [read EXCEPT !.format = format, !.legacyChunks = read.legacyChunks \o chunk]
             framed == [read EXCEPT !.format = format]
             t      == DecryptTransform(s, chunk, allow, limits)
             large  == Len(chunk) > limits.maxInputBytes - s.totalInput
             barred == s.format = "unknown" /\ format = "legacy" /\ allow = "false"
  <1>0. c.input \in Seq(R) /\ Len(c.input) \in Nat /\ chunk \in Seq(R) /\ Len(chunk) = n
    <2>1. c.input \in Seq(R) /\ Len(c.input) \in Nat
      BY Sequences
    <2>2. QED
      BY <2>1, WindowElements
  <1>1. t = IF large THEN DecryptError(s) ELSE IF chunk = <<>> THEN read
            ELSE IF barred THEN DecryptError(read)
            ELSE IF format = "legacy" THEN kept ELSE ConsumeFramed(framed, chunk, limits)
    BY Zenon DEF DecryptTransform
  <1>2. /\ DecryptSafe(read) /\ DecryptSafe(framed) /\ read.failed = s.failed /\ framed.failed = s.failed
        /\ read.out = s.out /\ read.format = s.format /\ read.legacyChunks = s.legacyChunks
        /\ read.globalHeader = s.globalHeader /\ read.frameHeader = s.frameHeader
        /\ read.frameBody = s.frameBody /\ read.expected = s.expected /\ read.finalSeen = s.finalSeen
        /\ framed.globalHeader = s.globalHeader /\ framed.frameHeader = s.frameHeader
        /\ framed.frameBody = s.frameBody /\ framed.expected = s.expected /\ framed.finalSeen = s.finalSeen
        /\ framed.out = s.out /\ framed.format = format
        /\ kept.failed = s.failed /\ kept.out = s.out /\ kept.format = format
        /\ kept.legacyChunks = s.legacyChunks \o chunk
    <2> HIDE DEF format, chunk
    <2>1. QED
      BY DEF DecryptSafe, DecryptFields
  <1>3. Begins(c, s)
    BY ReaderBegins
  <1>4. s.format \in {"unknown", "framed", "legacy"} /\ format \in {"framed", "legacy"} /\ ~s.failed
    BY DEF DecryptReader
  <1>5. s.format # "unknown" => format = s.format
    OBVIOUS
  <1> HIDE DEF format, read, kept, framed, t, large, barred
  <1>6. CASE t \in {DecryptError(s), DecryptError(read)}
    <2>1. t.failed /\ t.out = s.out
      BY <1>2, <1>6, ErrorKeepsOutput
    <2>2. QED
      BY <1>3, <2>1 DEF Begins, t
  <1>7. CASE chunk = <<>> /\ t = read
    <2>1. n = 0 /\ m + n = m
      BY <1>0, <1>7
    <2>2. DecryptReader(c, read, m)
      BY <1>2 DEF DecryptReader, Reading, InHeader, InFrames
    <2>3. QED
      BY <1>7, <2>1, <2>2 DEF t
  <1>8. CASE format = "legacy" /\ t = kept
    <2>1. s.out = <<>> /\ s.legacyChunks \in Seq(R)
      BY <1>4, <1>5, <1>8, EmptySeq DEF DecryptReader, InHeader
    <2>2. s.legacyChunks \o chunk \in Seq(R)
      BY <1>0, <2>1, ConcatProperties
    <2>3. DecryptReader(c, t, m + n)
      BY <1>2, <1>4, <1>8, <2>1, <2>2 DEF DecryptReader
    <2>4. QED
      BY <2>3 DEF t
  <1>9. CASE format = "framed" /\ chunk # <<>> /\ t = ConsumeFramed(framed, chunk, limits)
    <2>1. n \in Nat \ {0}
      BY <1>0, <1>9, EmptySeq
    <2>2. Reading(c, s, m)
      BY <1>4, <1>5, <1>9 DEF DecryptReader, Reading
    <2>3. Reading(c, framed, m)
      BY <1>2, <2>2 DEF Reading, InHeader, InFrames
    <2>4. /\ t.format = framed.format
          /\ Stopped(c, t) \/ (~t.failed /\ Reading(c, t, m + n))
      <3>1. DecryptSafe(framed) /\ ~framed.failed
        BY <1>2, <1>4
      <3> DEFINE u == ConsumeFramed(framed, Window(c.input, m, n), limits)
      <3>2. u.format = framed.format /\ (Stopped(c, u) \/ (~u.failed /\ Reading(c, u, m + n)))
        BY <2>1, <2>3, <3>1, ConsumeAuthentic
      <3>3. t = u
        BY <1>9
      <3> HIDE DEF u
      <3>4. QED
        BY <3>2, <3>3
    <2>5. QED
      BY <1>2, <1>9, <2>4 DEF DecryptReader, Stopped, Begins, t
  <1>10. QED
    BY <1>1, <1>4, <1>6, <1>7, <1>8, <1>9

\* flush(): a reader that succeeds has released the original.
LEMMA DecryptFlushAuthentic ==
    ASSUME NEW c \in Cases, c.kind = "decrypt", NEW s, NEW limits, NEW m, DecryptSafe(s), DecryptReader(c, s, m)
    PROVE  LET t == DecryptFlush(s, limits)
           IN  Begins(c, t) /\ (~t.failed => t.out = c.original)
  <1> DEFINE R        == Range(c.input)
             restored == DecryptLegacy(s.legacyChunks, limits)
             t        == DecryptFlush(s, limits)
             plain    == [DecryptCleanup(s) EXCEPT !.out = restored.out]
  <1>0. /\ c.original \in Seq(Range(c.original)) /\ Len(c.original) \in Nat
        /\ SubSeq(c.original, 1, Len(c.original)) = c.original /\ Len(c.original) \in 0 .. Len(c.original)
    <2>1. c.original \in Seq(Range(c.original)) /\ Len(c.original) \in Nat
      BY Sequences
    <2>2. QED
      BY <2>1, SubSeqFull
  <1>1. Begins(c, s)
    BY ReaderBegins
  <1>2. DecryptError(s).failed /\ Begins(c, DecryptError(s))
    BY <1>1, ErrorKeepsOutput DEF Begins
  <1>3. DecryptCleanup(s).out = s.out /\ plain.out = restored.out
    BY DEF DecryptSafe, DecryptFields, DecryptCleanup
  <1>4. CASE s.format = "legacy"
    <2>1. t = IF restored.ok THEN plain ELSE DecryptError(s)
      BY <1>4, Zenon DEF DecryptFlush
    <2>2. restored.ok => restored.out = c.original
      <3> DEFINE data == s.legacyChunks
                 text == [i \in 1 .. Len(data) - LEGACY_HEADER_LENGTH |-> data[LEGACY_HEADER_LENGTH + i].v]
                 tag  == [k |-> "legacy tag", text |-> text]
      <3> SUFFICES ASSUME restored.ok PROVE restored.out = c.original
        OBVIOUS
      <3>1. /\ restored.out = text /\ Len(data) >= LEGACY_HEADER_LENGTH
            /\ SubSeq(data, 3, LEGACY_HEADER_LENGTH) = LegacySeal(text)
        <4>1. data \in Seq(R)
          BY <1>4 DEF DecryptReader
        <4>2. Len(data) \in Nat
          BY <4>1
        <4> HIDE DEF data, text
        <4>3. DecryptLegacy(data, limits) =
                IF \/ Len(data) < LEGACY_HEADER_LENGTH
                   \/ Len(data) - LEGACY_HEADER_LENGTH > limits.maxOutputBytes
                   \/ data[1].k # "algorithm"
                   \/ SubSeq(data, 3, LEGACY_HEADER_LENGTH) # LegacySeal(text)
                THEN Failed ELSE Result(text)
          BY Zenon DEF DecryptLegacy, text
        <4>4. Failed.ok = FALSE /\ Result(text).out = text
          BY DEF Failed, Result
        <4>5. ~(Len(data) < LEGACY_HEADER_LENGTH) /\ SubSeq(data, 3, LEGACY_HEADER_LENGTH) = LegacySeal(text)
          BY <4>3, <4>4 DEF data
        <4>6. QED
          BY <4>2, <4>3, <4>4, <4>5 DEF data, LEGACY_HEADER_LENGTH, TAG_LENGTH
      <3>2. data \in Seq(R) /\ Unforged(c) /\ c.input \in Seq(R)
        BY <1>4, Sequences DEF DecryptReader
      <3>3. LegacySeal(text) = <<tag>> \o Pad
        BY DEF LegacySeal
      <3> HIDE DEF data, text
      <3>4. tag.k = "legacy tag" /\ tag.text = text
        OBVIOUS
      <3> HIDE DEF tag
      <3>5. data[3] = tag
        <4>1. SubSeq(data, 3, LEGACY_HEADER_LENGTH)[1] = data[3]
          BY <3>1, <3>2 DEF LEGACY_HEADER_LENGTH, TAG_LENGTH
        <4>2. (<<tag>> \o Pad)[1] = tag
          BY DEF Pad
        <4>3. QED
          BY <3>1, <3>3, <4>1, <4>2
      <3>6. tag \in R
        BY <3>1, <3>2, <3>5 DEF LEGACY_HEADER_LENGTH, TAG_LENGTH
      <3>7. PICK i \in DOMAIN c.input : c.input[i] = tag
        BY <3>6 DEF Range
      <3>8. QED
        BY <3>1, <3>2, <3>4, <3>7 DEF Unforged
    <2> HIDE DEF restored, plain
    <2>3. CASE restored.ok
      BY <1>0, <1>3, <2>1, <2>2, <2>3 DEF Begins
    <2>4. CASE ~restored.ok
      BY <1>2, <2>1, <2>4
    <2>5. QED
      BY <2>3, <2>4
  <1>5. CASE s.format # "legacy"
    <2> DEFINE done == /\ s.format = "framed" /\ Len(s.globalHeader) = GLOBAL_HEADER_LENGTH
                       /\ s.frameHeader = <<>> /\ s.finalSeen
    <2>1. t = IF done THEN DecryptCleanup(s) ELSE DecryptError(s)
      BY <1>5, Zenon DEF DecryptFlush
    <2>2. done => InFrames(c, s, <<>>)
      BY DEF DecryptReader, Reading, InHeader, GLOBAL_HEADER_LENGTH
    <2>3. done => s.out = c.original
      BY <2>2 DEF InFrames
    <2> HIDE DEF done, t
    <2>4. CASE done
      BY <1>0, <1>1, <1>3, <2>1, <2>3, <2>4 DEF Begins, t
    <2>5. CASE ~done
      BY <1>2, <2>1, <2>5 DEF t
    <2>6. QED
      BY <2>4, <2>5
  <1>6. QED
    BY <1>4, <1>5

(***************************************************************************)
(* Hashing and compression.  Between two calls the local variables are a   *)
(* function of the number of bytes that arrived, whatever the chunks were. *)
(***************************************************************************)

Buffering == {"sign", "verify", "compress"}

StreamFields == {"total", "chunks", "sent", "out", "key", "failed"}

Holds(s, total, chunks, sent, out) ==
    /\ DOMAIN s = StreamFields
    /\ s.total = total /\ s.chunks = chunks /\ s.sent = sent /\ s.out = out /\ s.failed = FALSE

\* The local variables behind the first m bytes.
Behind(c, s, m) ==
    LET read == SubSeq(c.input, 1, m)
    IN  IF c.kind = "compress" /\ c.option = "none"
        THEN IF m # 0 THEN Holds(s, m, <<>>, TRUE, TypeByte(c.option) \o read)
             ELSE Holds(s, m, <<>>, FALSE, <<>>)
        ELSE Holds(s, m, read, FALSE, IF c.kind = "sign" THEN read ELSE <<>>)

\* What m bytes need for the Transform to go on.
Fits(c, m) ==
    LET limits == PluginLimits(c.limits)
    IN  /\ m <= limits.maxInputBytes
        /\ c.kind = "sign" => m + DIGEST_LENGTH <= limits.maxOutputBytes
        /\ c.kind = "compress" /\ c.option = "none" => 1 + m <= limits.maxOutputBytes

\* The buffer form of each kind.
LEMMA BufferForms ==
    ASSUME NEW c
    PROVE  /\ c.kind = "sign" => Expected(c) = HashProcess(c.input, PluginLimits(c.limits))
           /\ c.kind = "verify" => Expected(c) = HashReverse(c.input, PluginLimits(c.limits))
           /\ c.kind = "compress" => Expected(c) = CompressProcess(c.input, c.option, PluginLimits(c.limits))
  BY Zenon DEF Expected

\* An input of which a part does not fit is refused by the buffer form too.
LEMMA UnfitRefused ==
    ASSUME NEW c \in Cases, c.kind \in Buffering, NEW m \in Nat, m <= Len(c.input), ~Fits(c, m)
    PROVE  ~Expected(c).ok
  <1> DEFINE limits == PluginLimits(c.limits)
             in  == limits.maxInputBytes
             max == limits.maxOutputBytes
             len == Len(c.input)
  <1>1. in \in Nat /\ max \in Nat /\ len \in Nat
    BY PluginLimitsTyped, CaseAssumption
  <1>2. Failure.ok = FALSE
    BY DEF Failure
  <1>3. CASE c.kind = "sign"
    <2>1. len > in \/ len > max - DIGEST_LENGTH
      <3>1. m > in \/ m + DIGEST_LENGTH > max
        BY <1>1, <1>3 DEF Fits, DIGEST_LENGTH
      <3> HIDE DEF in, max, len
      <3>2. m <= len
        BY DEF len
      <3>3. QED
        BY <1>1, <3>1, <3>2 DEF DIGEST_LENGTH
    <2>2. HashProcess(c.input, limits) = Failure
      BY <2>1, Zenon DEF HashProcess
    <2>3. QED
      BY <1>2, <1>3, <2>2, BufferForms
  <1>4. CASE c.kind = "verify"
    <2>1. len > in
      <3>1. m > in
        BY <1>1, <1>4 DEF Fits
      <3> HIDE DEF in, max, len
      <3>2. m <= len
        BY DEF len
      <3>3. QED
        BY <1>1, <3>1, <3>2
    <2>2. HashReverse(c.input, limits) = Failure
      BY <2>1, Zenon DEF HashReverse
    <2>3. QED
      BY <1>2, <1>4, <2>2, BufferForms
  <1>5. CASE c.kind = "compress"
    <2>1. len > in \/ (c.option = "none" /\ 1 + len > max)
      <3>1. m > in \/ (c.option = "none" /\ 1 + m > max)
        BY <1>1, <1>5 DEF Fits
      <3> HIDE DEF in, max, len
      <3>2. m <= len
        BY DEF len
      <3>3. QED
        BY <1>1, <3>1, <3>2
    <2>2. CompressProcess(c.input, c.option, limits) = Failure
      BY <2>1, Zenon DEF CompressProcess, Deflate
    <2>3. QED
      BY <1>2, <1>5, <2>2, BufferForms
  <1>6. QED
    BY <1>3, <1>4, <1>5 DEF Buffering

\* Updates of the local variables.
LEMMA Updates ==
    ASSUME NEW s, NEW total, NEW chunks, NEW sent, NEW out, Holds(s, total, chunks, sent, out)
    PROVE  /\ \A k : Holds([s EXCEPT !.total = k], k, chunks, sent, out)
           /\ \A b : Holds([s EXCEPT !.chunks = b], total, b, sent, out)
           /\ \A o : Holds([s EXCEPT !.out = o], total, chunks, sent, o)
           /\ Holds([s EXCEPT !.sent = TRUE], total, chunks, TRUE, out)
           /\ StreamError(s).failed /\ StreamError(s).out = out
           /\ ~s.failed
  BY DEF Holds, StreamFields, StreamError

\* A new Transform is behind no bytes, or nothing fits.
LEMMA CreateBuffering ==
    ASSUME NEW c \in Cases, c.kind \in Buffering
    PROVE  /\ c.kind = "verify" => Create(c).out = <<>>
           /\ IF Create(c).failed THEN ~Fits(c, 0) ELSE Behind(c, Create(c), 0) /\ Fits(c, 0)
  <1> DEFINE limits == PluginLimits(c.limits)
             in  == limits.maxInputBytes
             max == limits.maxOutputBytes
             s   == StreamCreate
  <1>1. in \in Nat \ {0} /\ max \in Nat \ {0}
    BY PluginLimitsTyped
  <1>2. SubSeq(c.input, 1, 0) = <<>>
    BY SubSeqEmpty
  <1>3. Holds(s, 0, <<>>, FALSE, <<>>)
    BY DEF Holds, StreamFields, StreamCreate
  <1>4. \A u : Holds(u, 0, <<>>, FALSE, <<>>) => Behind(c, u, 0)
    BY <1>2 DEF Behind
  <1>5. CASE c.kind = "sign"
    <2>1. Create(c) = [s EXCEPT !.failed = max < DIGEST_LENGTH]
      BY <1>5, SignCalls DEF SignCreate
    <2>2. Fits(c, 0) <=> ~(max < DIGEST_LENGTH)
      BY <1>1, <1>5 DEF Fits, DIGEST_LENGTH
    <2> HIDE DEF s, max
    <2>3. CASE max < DIGEST_LENGTH
      <3>1. Create(c).failed
        BY <1>3, <2>1, <2>3 DEF Holds, StreamFields
      <3>2. QED
        BY <1>5, <2>2, <2>3, <3>1
    <2>4. CASE ~(max < DIGEST_LENGTH)
      <3>3. (max < DIGEST_LENGTH) = FALSE
        BY <2>4
      <3>4. Create(c) = [s EXCEPT !.failed = FALSE]
        BY <2>1, <3>3, Zenon
      <3>1. Holds(Create(c), 0, <<>>, FALSE, <<>>)
        BY <1>3, <3>4 DEF Holds, StreamFields
      <3>2. QED
        BY <1>4, <1>5, <2>2, <2>4, <3>1 DEF Holds
    <2>5. QED
      BY <2>3, <2>4
  <1>6. CASE c.kind # "sign"
    <2>1. Create(c) = s
      BY <1>6, VerifyCalls, CompressCalls DEF Buffering
    <2> HIDE DEF s
    <2>2. Fits(c, 0)
      BY <1>1, <1>6 DEF Fits
    <2>3. QED
      BY <1>3, <1>4, <2>1, <2>2 DEF Holds
  <1>7. QED
    BY <1>5, <1>6

\* transform() with the next n bytes.
LEMMA TransformBuffering ==
    ASSUME NEW c \in Cases, c.kind \in Buffering, NEW m \in Nat, NEW n \in Nat, m + n <= Len(c.input),
           NEW s, Behind(c, s, m), Fits(c, m)
    PROVE  LET t == Transform(c, s, Window(c.input, m, n))
           IN  /\ c.kind = "verify" => t.out = <<>>
               /\ IF t.failed THEN ~Fits(c, m + n) ELSE Behind(c, t, m + n) /\ Fits(c, m + n)
  <1> DEFINE R      == Range(c.input)
             limits == PluginLimits(c.limits)
             in     == limits.maxInputBytes
             max    == limits.maxOutputBytes
             chunk  == Window(c.input, m, n)
             read   == SubSeq(c.input, 1, m)
             longer == SubSeq(c.input, 1, m + n)
             e      == m + n
             t      == Transform(c, s, chunk)
             plain  == c.kind = "compress" /\ c.option = "none"
             T      == TypeByte(c.option)
  <1>0. c.input \in Seq(R) /\ Len(c.input) \in Nat /\ in \in Nat \ {0} /\ max \in Nat \ {0}
    <2>1. c.input \in Seq(R)
      BY CaseAssumption
    <2>2. QED
      BY <2>1, PluginLimitsTyped
  <1>1. /\ chunk \in Seq(R) /\ Len(chunk) = n /\ read \in Seq(R) /\ Len(read) = m
        /\ longer \in Seq(R) /\ Len(longer) = e /\ e \in Nat
    <2>1. chunk \in Seq(R) /\ Len(chunk) = n
      BY <1>0, WindowElements
    <2>2. m \in 0 .. Len(c.input) /\ e \in 0 .. Len(c.input)
      BY <1>0
    <2>3. QED
      BY <1>0, <2>1, <2>2, Cut
  <1>2. read \o chunk = longer
    <2>1. 1 \in 1 .. Len(c.input) + 1 /\ m \in 1 - 1 .. Len(c.input) /\ e \in m .. Len(c.input)
      BY <1>0
    <2>2. QED
      BY <1>0, <2>1, ConcatAdjacentSubSeq DEF Window
  <1>3. n = 0 => longer = read /\ e = m
    OBVIOUS
  <1>4. /\ plain => IF m # 0 THEN Holds(s, m, <<>>, TRUE, T \o read) ELSE Holds(s, m, <<>>, FALSE, <<>>)
        /\ ~plain => Holds(s, m, read, FALSE, IF c.kind = "sign" THEN read ELSE <<>>)
    BY DEF Behind
  <1>5. \A u : Behind(c, u, e) <=>
            /\ plain => IF e # 0 THEN Holds(u, e, <<>>, TRUE, T \o longer) ELSE Holds(u, e, <<>>, FALSE, <<>>)
            /\ ~plain => Holds(u, e, longer, FALSE, IF c.kind = "sign" THEN longer ELSE <<>>)
    BY DEF Behind
  <1>6. Fits(c, e) <=> /\ e <= in
                       /\ c.kind = "sign" => e + DIGEST_LENGTH <= max
                       /\ plain => 1 + e <= max
    BY DEF Fits
  <1>7. e = m + n /\ Fits(c, m)
    OBVIOUS
  <1>8. s.total = m
    BY <1>4 DEF Holds
  <1> HIDE DEF in, max, chunk, read, longer, e, t, T, plain
  <1>9. SUFFICES /\ c.kind = "verify" => t.out = <<>>
                 /\ IF t.failed THEN ~Fits(c, e) ELSE Behind(c, t, e) /\ Fits(c, e)
    BY DEF t, e, chunk
  <1>10. CASE c.kind = "sign"
    <2>1. t = SignTransform(s, chunk, limits)
      BY <1>10, SignCalls DEF t
    <2>2. ~plain /\ Holds(s, m, read, FALSE, read)
      BY <1>4, <1>10 DEF plain
    <2>3. (Len(chunk) > in - s.total \/ Len(chunk) > max - DIGEST_LENGTH - s.total) <=> ~Fits(c, e)
      BY <1>0, <1>1, <1>6, <1>7, <1>8, <1>10, <2>2 DEF DIGEST_LENGTH
    <2>4. CASE Fits(c, e)
      <3>1. t = [s EXCEPT !.total = s.total + Len(chunk), !.chunks = s.chunks \o chunk, !.out = s.out \o chunk]
        BY <2>1, <2>3, <2>4 DEF SignTransform, in, max
      <3>2. t = [s EXCEPT !.total = e, !.chunks = longer, !.out = longer]
        BY <1>1, <1>2, <1>7, <2>2, <3>1 DEF Holds
      <3>3. Holds(t, e, longer, FALSE, longer)
        BY <2>2, <3>2 DEF Holds, StreamFields
      <3>4. QED
        BY <1>5, <1>10, <2>2, <2>4, <3>3, Updates
    <2>5. CASE ~Fits(c, e)
      <3>1. t = StreamError(s)
        BY <2>1, <2>3, <2>5 DEF SignTransform, in, max
      <3>2. QED
        BY <1>10, <2>2, <2>5, <3>1, Updates
    <2>6. QED
      BY <2>4, <2>5
  <1>11. CASE c.kind = "verify"
    <2>1. t = VerifyTransform(s, chunk, limits)
      BY <1>11, VerifyCalls DEF t
    <2>2. ~plain /\ Holds(s, m, read, FALSE, <<>>)
      BY <1>4, <1>11 DEF plain
    <2>3. Len(chunk) > in - s.total <=> ~Fits(c, e)
      BY <1>0, <1>1, <1>6, <1>7, <1>8, <1>11, <2>2
    <2>4. CASE Fits(c, e)
      <3>1. t = [s EXCEPT !.total = s.total + Len(chunk), !.chunks = s.chunks \o chunk]
        BY <2>1, <2>3, <2>4 DEF VerifyTransform, in
      <3>2. t = [s EXCEPT !.total = e, !.chunks = longer]
        BY <1>1, <1>2, <1>7, <2>2, <3>1 DEF Holds
      <3>3. Holds(t, e, longer, FALSE, <<>>)
        BY <2>2, <3>2 DEF Holds, StreamFields
      <3>4. QED
        BY <1>5, <1>11, <2>2, <2>4, <3>3, Updates DEF Holds
    <2>5. CASE ~Fits(c, e)
      <3>1. t = StreamError(s)
        BY <2>1, <2>3, <2>5 DEF VerifyTransform, in
      <3>2. QED
        BY <2>2, <2>5, <3>1, Updates
    <2>6. QED
      BY <2>4, <2>5
  <1>12. CASE c.kind = "compress"
    <2>1. t = CompressTransform(s, chunk, c.option, limits)
      BY <1>12, CompressCalls DEF t
    <2>2. plain <=> c.option = "none"
      BY <1>12 DEF plain
    <2>3. Len(chunk) > in - s.total <=> ~(e <= in)
      BY <1>0, <1>1, <1>7, <1>8
    <2>4. CASE ~(e <= in)
      <3>1. t = StreamError(s)
        BY <2>1, <2>3, <2>4 DEF CompressTransform, in
      <3>2. t.failed
        BY <1>4, <3>1, Updates
      <3>3. QED
        BY <1>6, <1>12, <2>4, <3>2
    <2> DEFINE q == [s EXCEPT !.total = s.total + Len(chunk)]
    <2>5. q = [s EXCEPT !.total = e]
      BY <1>1, <1>7, <1>8
    <2>6. CASE e <= in /\ c.option # "none"
      <3>1. Holds(s, m, read, FALSE, <<>>)
        BY <1>4, <1>12, <2>2, <2>6
      <3>2. Holds(q, e, read, FALSE, <<>>)
        BY <2>5, <3>1, Updates
      <3>3. t = [q EXCEPT !.chunks = q.chunks \o chunk]
        BY <2>1, <2>3, <2>6 DEF CompressTransform, in
      <3> HIDE DEF q
      <3>4. t = [q EXCEPT !.chunks = longer]
        BY <1>2, <3>2, <3>3 DEF Holds
      <3>5. Holds(t, e, longer, FALSE, <<>>)
        BY <3>2, <3>4, Updates
      <3>6. QED
        BY <1>5, <1>6, <1>12, <2>2, <2>6, <3>5, Updates
    <2>7. CASE e <= in /\ c.option = "none" /\ chunk = <<>>
      <3>1. t = q
        BY <2>1, <2>3, <2>7 DEF CompressTransform, in
      <3>2. n = 0
        BY <1>1, <2>7
      <3>3. e = m /\ longer = read
        BY <1>3, <3>2
      <3>4. IF m # 0 THEN Holds(q, e, <<>>, TRUE, T \o read) ELSE Holds(q, e, <<>>, FALSE, <<>>)
        <4>1. CASE m # 0
          <5>1. Holds(s, m, <<>>, TRUE, T \o read)
            BY <1>4, <2>2, <2>7, <4>1
          <5>2. QED
            BY <2>5, <4>1, <5>1, Updates
        <4>2. CASE m = 0
          <5>1. Holds(s, m, <<>>, FALSE, <<>>)
            BY <1>4, <2>2, <2>7, <4>2
          <5>2. QED
            BY <2>5, <4>2, <5>1, Updates
        <4>3. QED
          BY <4>1, <4>2
      <3> HIDE DEF q
      <3>5. Behind(c, t, e) /\ ~t.failed
        BY <1>5, <2>2, <2>7, <3>1, <3>3, <3>4, Updates
      <3>6. QED
        BY <1>7, <1>12, <3>3, <3>5
    <2>8. CASE e <= in /\ c.option = "none" /\ chunk # <<>>
      <3> DEFINE sent == PrependHeader(q, c.option, limits)
      <3>1. t = PushWithin(sent, chunk, limits)
        BY <2>1, <2>3, <2>8 DEF CompressTransform, in
      <3>2. T \in Seq({[k |-> c.option]}) /\ Len(T) = 1 /\ T \o <<>> = T /\ <<>> \o T = T
        BY DEF TypeByte, T
      <3>3. n # 0 /\ e # 0
        BY <1>1, <1>7, <2>8, EmptySeq
      <3>4. Holds(sent, e, <<>>, TRUE, T \o read)
        <4>1. CASE m # 0
          <5>1. Holds(q, e, <<>>, TRUE, T \o read)
            BY <1>4, <2>2, <2>5, <2>8, <4>1, Updates
          <5> HIDE DEF q
          <5>2. sent = q
            BY <5>1 DEF PrependHeader, Holds
          <5>3. QED
            BY <5>1, <5>2
        <4>2. CASE m = 0
          <5>1. Holds(q, e, <<>>, FALSE, <<>>)
            BY <1>4, <2>2, <2>5, <2>8, <4>2, Updates
          <5>2. read = <<>>
            BY <1>1, <4>2
          <5> HIDE DEF q
          <5>3. q.out = <<>> /\ q.failed = FALSE /\ q.sent = FALSE
            BY <5>1 DEF Holds
          <5>4. PushWithin(q, T, limits) = [q EXCEPT !.out = q.out \o T]
            BY <1>0, <3>2, <5>3 DEF PushWithin, max
          <5> DEFINE w == PushWithin(q, T, limits)
          <5>9. w = [q EXCEPT !.out = T]
            BY <3>2, <5>3, <5>4
          <5>6. sent = [w EXCEPT !.sent = TRUE]
            BY <5>3 DEF PrependHeader, T
          <5> HIDE DEF w, sent
          <5>5. Holds(w, e, <<>>, FALSE, T)
            BY <5>1, <5>9 DEF Holds, StreamFields
          <5>7. Holds(sent, e, <<>>, TRUE, T)
            BY <5>5, <5>6 DEF Holds, StreamFields
          <5>8. QED
            BY <3>2, <5>2, <5>7
        <4>3. QED
          BY <4>1, <4>2
      <3> HIDE DEF sent
      <3>5. Len(T \o read) = 1 + m /\ (T \o read) \o chunk = T \o longer
        <4> DEFINE U == R \cup {[k |-> c.option]}
        <4>1. T \in Seq(U) /\ read \in Seq(U) /\ chunk \in Seq(U)
          BY <1>1, <3>2
        <4> HIDE DEF U
        <4>2. Len(T \o read) = 1 + m
          <5>1. Len(T \o read) = Len(T) + Len(read)
            BY <4>1, ConcatProperties
          <5>2. QED
            BY <1>1, <3>2, <5>1
        <4>3. (T \o read) \o chunk = T \o (read \o chunk)
          BY <4>1, ConcatAssociative
        <4>4. QED
          BY <1>2, <4>2, <4>3
      <3>6. sent.out = T \o read /\ sent.failed = FALSE
        BY <3>4 DEF Holds
      <3>7. Len(chunk) > max - Len(sent.out) <=> ~Fits(c, e)
        BY <1>0, <1>1, <1>6, <1>7, <1>12, <2>2, <2>8, <3>5, <3>6
      <3>8. CASE Fits(c, e)
        <4>1. t = [sent EXCEPT !.out = T \o longer]
          BY <3>1, <3>5, <3>6, <3>7, <3>8 DEF PushWithin, max
        <4>2. Holds(t, e, <<>>, TRUE, T \o longer)
          BY <3>4, <4>1, Updates
        <4>3. QED
          BY <1>5, <1>12, <2>2, <2>8, <3>3, <3>8, <4>2, Updates
      <3>9. CASE ~Fits(c, e)
        <4>1. t = StreamError(sent)
          BY <3>1, <3>7, <3>9 DEF PushWithin, max
        <4>2. QED
          BY <1>12, <3>4, <3>9, <4>1, Updates
      <3>10. QED
        BY <3>8, <3>9
    <2>9. QED
      BY <2>4, <2>6, <2>7, <2>8
  <1>13. QED
    BY <1>10, <1>11, <1>12 DEF Buffering

\* flush() succeeds exactly when the buffer form does, and with its bytes.
LEMMA FlushBuffering ==
    ASSUME NEW c \in Cases, c.kind \in Buffering, NEW s, Behind(c, s, Len(c.input)), Fits(c, Len(c.input))
    PROVE  LET t == Flush(c, s)
           IN  /\ IF t.failed THEN ~Expected(c).ok ELSE Expected(c) = Success(t.out)
               /\ c.kind = "verify" => t.out = IF t.failed THEN <<>> ELSE c.original
  <1> DEFINE R      == Range(c.input)
             data   == c.input
             limits == PluginLimits(c.limits)
             in     == limits.maxInputBytes
             max    == limits.maxOutputBytes
             n      == Len(data)
             t      == Flush(c, s)
             T      == TypeByte(c.option)
  <1>0. data \in Seq(R) /\ n \in Nat /\ in \in Nat \ {0} /\ max \in Nat \ {0} /\ SubSeq(data, 1, n) = data
    <2>1. data \in Seq(R)
      BY CaseAssumption
    <2>2. SubSeq(data, 1, n) = data
      BY <2>1, SubSeqFull
    <2>3. QED
      BY <2>1, <2>2, PluginLimitsTyped
  <1>1. Failure.ok = FALSE
    BY DEF Failure
  <1>2. /\ n <= in
        /\ c.kind = "sign" => n + DIGEST_LENGTH <= max
        /\ c.kind = "compress" /\ c.option = "none" => 1 + n <= max
    BY DEF Fits
  <1>3. /\ c.kind = "sign" => Holds(s, n, data, FALSE, data)
        /\ c.kind = "verify" => Holds(s, n, data, FALSE, <<>>)
        /\ c.kind = "compress" /\ c.option # "none" => Holds(s, n, data, FALSE, <<>>)
        /\ c.kind = "compress" /\ c.option = "none" =>
              IF n # 0 THEN Holds(s, n, <<>>, TRUE, T \o data) ELSE Holds(s, n, <<>>, FALSE, <<>>)
    BY <1>0 DEF Behind
  <1> HIDE DEF data, in, max, n, t, T, R
  <1>4. SUFFICES /\ IF t.failed THEN ~Expected(c).ok ELSE Expected(c) = Success(t.out)
                 /\ c.kind = "verify" => t.out = IF t.failed THEN <<>> ELSE c.original
    BY DEF t
  <1>5. CASE c.kind = "sign"
    <2>1. t = [s EXCEPT !.out = s.out \o Digest(s.chunks), !.chunks = <<>>]
      BY <1>5, SignCalls DEF t, SignFlush
    <2>2. ~t.failed /\ t.out = data \o Digest(data)
      BY <1>3, <1>5, <2>1 DEF Holds, StreamFields
    <2>3. ~(n > in \/ n > max - DIGEST_LENGTH)
      BY <1>0, <1>2, <1>5 DEF DIGEST_LENGTH
    <2>4. HashProcess(data, limits) = Success(data \o Digest(data))
      BY <2>3, Zenon DEF HashProcess, n, in, max
    <2>5. QED
      BY <1>5, <2>2, <2>4, BufferForms DEF data
  <1>6. CASE c.kind = "verify"
    <2> DEFINE size == n - DIGEST_LENGTH
               text == SubSeq(data, 1, size)
               drop == [s EXCEPT !.chunks = <<>>]
               bad  == \/ size < 0 \/ size > max
                       \/ SubSeq(data, size + 1, n) # Digest(text)
    <2>1. s.chunks = data /\ Len(s.chunks) = n /\ s.out = <<>>
      BY <1>3, <1>6 DEF Holds, n
    <2>2. t = IF bad THEN StreamError(drop) ELSE [drop EXCEPT !.out = text]
      <3>1. t = VerifyFlush(s, limits)
        BY <1>6, VerifyCalls DEF t
      <3>2. QED
        BY <2>1, <3>1 DEF VerifyFlush, max
    <2>3. HashReverse(data, limits) = IF bad THEN Failure ELSE Success(text)
      <3>1. ~(n > in)
        BY <1>0, <1>2
      <3>2. QED
        BY <3>1 DEF HashReverse, n, in, max
    <2>4. Holds(drop, n, <<>>, FALSE, <<>>)
      BY <1>3, <1>6 DEF Holds, StreamFields
    <2> HIDE DEF drop, text, bad
    <2>5. CASE bad
      <3>1. t.failed /\ t.out = <<>>
        BY <2>2, <2>4, <2>5, Updates
      <3>2. QED
        BY <1>1, <1>6, <2>3, <2>5, <3>1, BufferForms DEF data
    <2>6. CASE ~bad
      <3>1. ~t.failed /\ t.out = text
        BY <2>2, <2>4, <2>6 DEF Holds, StreamFields
      <3>2. Expected(c) = Success(text)
        BY <1>6, <2>3, <2>6, BufferForms DEF data
      <3>3. text = c.original
        <4> DEFINE tag == [k |-> "hmac", text |-> text]
        <4>1. SubSeq(data, size + 1, n) = <<tag, [k |-> "pad"]>> /\ size >= 0
          BY <1>0, <2>6 DEF bad, Digest, DIGEST_LENGTH
        <4>2. tag.k = "hmac" /\ tag.text = text
          OBVIOUS
        <4> HIDE DEF tag
        <4>3. size \in Nat /\ size + 1 \in 1 .. n /\ n = Len(data)
          BY <1>0, <4>1 DEF DIGEST_LENGTH, n
        <4> HIDE DEF size
        <4>4. SubSeq(data, size + 1, n)[1] = data[size + 1]
          BY <1>0, <4>3
        <4>5. <<tag, [k |-> "pad"]>>[1] = tag
          OBVIOUS
        <4>6. data[size + 1] = tag
          BY <4>1, <4>4, <4>5
        <4>7. size + 1 \in DOMAIN data
          BY <1>0, <4>3
        <4>8. Unforged(c)
          BY <1>6, CaseAssumption
        <4>9. QED
          BY <4>2, <4>6, <4>7, <4>8 DEF Unforged, data
      <3>4. QED
        BY <1>6, <3>1, <3>2, <3>3
    <2>7. QED
      BY <2>5, <2>6
  <1>7. CASE c.kind = "compress"
    <2> DEFINE headed == PrependHeader(s, c.option, limits)
               D      == Deflate(data, c.option)
    <2>1. t = IF c.option = "none" THEN headed ELSE PushWithin(headed, Deflate(s.chunks, c.option), limits)
      BY <1>7, CompressCalls DEF t, CompressFlush
    <2>2. T \in Seq({[k |-> c.option]}) /\ Len(T) = 1 /\ T \o <<>> = T /\ <<>> \o T = T
      BY DEF TypeByte, T
    <2>3. ASSUME NEW b, Holds(s, n, b, FALSE, <<>>) PROVE Holds(headed, n, b, TRUE, T)
      <3>1. s.out = <<>> /\ s.failed = FALSE /\ s.sent = FALSE
        BY <2>3 DEF Holds
      <3> DEFINE w == PushWithin(s, T, limits)
      <3>2. w = [s EXCEPT !.out = s.out \o T]
        BY <1>0, <2>2, <3>1 DEF PushWithin, max
      <3>3. w = [s EXCEPT !.out = T]
        BY <2>2, <3>1, <3>2
      <3>4. headed = [w EXCEPT !.sent = TRUE]
        BY <3>1 DEF PrependHeader, T
      <3> HIDE DEF w, headed
      <3>5. Holds(w, n, b, FALSE, T)
        BY <2>3, <3>3 DEF Holds, StreamFields
      <3>6. QED
        BY <3>4, <3>5 DEF Holds, StreamFields
    <2>4. CompressProcess(data, c.option, limits) =
            IF n > in \/ 1 + Len(D) > max \/ (c.option # "none" /\ max <= 1) THEN Failure ELSE Success(T \o D)
      BY Zenon DEF CompressProcess, n, in, max, T
    <2>5. ~(n > in)
      BY <1>0, <1>2
    <2>6. CASE c.option = "none"
      <3>1. D = data
        BY <2>6 DEF Deflate
      <3>2. CompressProcess(data, c.option, limits) = Success(T \o data)
        <4>1. ~(1 + n > max)
          BY <1>0, <1>2, <1>7, <2>6
        <4>2. QED
          BY <2>4, <2>5, <2>6, <3>1, <4>1 DEF n
      <3>3. Holds(headed, n, <<>>, TRUE, T \o data)
        <4>1. CASE n # 0
          <5>1. Holds(s, n, <<>>, TRUE, T \o data)
            BY <1>3, <1>7, <2>6, <4>1
          <5>2. headed = s
            BY <5>1 DEF PrependHeader, Holds
          <5>3. QED
            BY <5>1, <5>2
        <4>2. CASE n = 0
          <5>1. Holds(s, n, <<>>, FALSE, <<>>)
            BY <1>3, <1>7, <2>6, <4>2
          <5>2. data = <<>>
            BY <1>0, <4>2 DEF n
          <5>3. Holds(headed, n, <<>>, TRUE, T)
            BY <2>3, <5>1
          <5>4. QED
            BY <2>2, <5>2, <5>3
        <4>3. QED
          BY <4>1, <4>2
      <3>4. ~t.failed /\ t.out = T \o data
        BY <2>1, <2>6, <3>3 DEF Holds
      <3>5. QED
        BY <1>7, <3>2, <3>4, BufferForms DEF data
    <2>7. CASE c.option # "none"
      <3>1. Holds(s, n, data, FALSE, <<>>)
        BY <1>3, <1>7, <2>7
      <3>2. Holds(headed, n, data, TRUE, T)
        BY <2>3, <3>1
      <3>3. t = PushWithin(headed, D, limits)
        BY <2>1, <2>7, <3>1 DEF Holds
      <3>4. Len(D) = n + 1
        <4> DEFINE U == {[k |-> "z", v |-> data[i]] : i \in 1 .. n} \cup {[k |-> "trailer"]}
                   z == [i \in 1 .. n |-> [k |-> "z", v |-> data[i]]]
                   y == <<[k |-> "trailer"]>>
        <4>1. D = z \o y
          BY <2>7 DEF Deflate, n
        <4>2. z \in Seq(U) /\ Len(z) = n /\ y \in Seq(U) /\ Len(y) = 1
          BY <1>0
        <4> HIDE DEF z, y, U
        <4>3. Len(z \o y) = Len(z) + Len(y)
          BY <4>2, ConcatProperties
        <4>4. QED
          BY <4>1, <4>2, <4>3
      <3> HIDE DEF D, headed
      <3>5. headed.out = T /\ headed.failed = FALSE
        BY <3>2 DEF Holds
      <3> DEFINE bad == 1 + Len(D) > max
      <3>6. /\ bad <=> Len(D) > max - Len(headed.out)
            /\ max <= 1 => bad
        <4>1. Len(headed.out) = 1
          BY <2>2, <3>5
        <4>2. max \in Nat /\ n \in Nat
          BY <1>0
        <4>3. QED
          BY <3>4, <4>1, <4>2
      <3>7. CompressProcess(data, c.option, limits) = IF bad THEN Failure ELSE Success(T \o D)
        BY <2>4, <2>5, <3>6
      <3>8. t = IF bad THEN StreamError(headed) ELSE [headed EXCEPT !.out = T \o D]
        BY <3>3, <3>5, <3>6 DEF PushWithin, max
      <3> HIDE DEF bad
      <3>9. CASE bad
        <4>1. t.failed
          BY <3>2, <3>8, <3>9, Updates
        <4>2. QED
          BY <1>1, <1>7, <3>7, <3>9, <4>1, BufferForms DEF data
      <3>10. CASE ~bad
        <4>1. ~t.failed /\ t.out = T \o D
          BY <3>2, <3>8, <3>10 DEF Holds, StreamFields
        <4>2. QED
          BY <1>7, <3>7, <3>10, <4>1, BufferForms DEF data
      <3>11. QED
        BY <3>9, <3>10
    <2>8. QED
      BY <2>6, <2>7
  <1>8. QED
    BY <1>5, <1>6, <1>7 DEF Buffering

(***************************************************************************)
(* The invariant of hashing and compression, and of decryption.            *)
(***************************************************************************)
BufferInv ==
    /\ case \in Cases /\ taken \in Nat /\ taken <= Len(case.input)
    /\ case.kind \in Buffering =>
          /\ phase = "open" => Behind(case, st, taken) /\ Fits(case, taken)
          /\ phase = "failed" => ~Expected(case).ok
          /\ phase = "ok" => Expected(case) = Success(st.out)
          /\ case.kind = "verify" => st.out = IF phase = "ok" THEN case.original ELSE <<>>

\* Hashing and compression give what the buffer form gives, and a verifying
\* stream releases the original or nothing.
LEMMA BufferInvariant ==
    Spec => []BufferInv
  <1>1. Init => BufferInv
    <2> SUFFICES ASSUME Init PROVE BufferInv
      OBVIOUS
    <2>1. case \in Cases /\ st = Create(case) /\ taken = 0 /\ phase = IF st.failed THEN "failed" ELSE "open"
      BY DEF Init
    <2>2. Len(case.input) \in Nat
      BY <2>1, CaseAssumption
    <2>3. ASSUME case.kind \in Buffering
          PROVE  /\ phase = "open" => Behind(case, st, taken) /\ Fits(case, taken)
                 /\ phase = "failed" => ~Expected(case).ok
                 /\ phase # "ok"
                 /\ case.kind = "verify" => st.out = <<>>
      <3>1. /\ case.kind = "verify" => st.out = <<>>
            /\ IF st.failed THEN ~Fits(case, 0) ELSE Behind(case, st, 0) /\ Fits(case, 0)
        BY <2>1, <2>3, CreateBuffering
      <3>2. st.failed => ~Expected(case).ok
        BY <2>1, <2>2, <2>3, <3>1, UnfitRefused
      <3>3. QED
        BY <2>1, <3>1, <3>2
    <2>4. QED
      BY <2>1, <2>2, <2>3 DEF BufferInv
  <1>2. BufferInv /\ [Next]_vars => BufferInv'
    <2> SUFFICES ASSUME BufferInv, [Next]_vars PROVE BufferInv'
      OBVIOUS
    <2>0. Len(case.input) \in Nat /\ case \in Cases /\ taken \in Nat /\ taken <= Len(case.input)
      BY CaseAssumption DEF BufferInv
    <2>1. ASSUME NEW n \in 0 .. Len(case.input), Write(n) PROVE BufferInv'
      <3>1. /\ st' = Transform(case, st, Window(case.input, taken, n)) /\ case' = case /\ taken' = taken + n
            /\ phase' = IF st'.failed THEN "failed" ELSE "open"
            /\ phase = "open"
            /\ taken + n <= Len(case.input) /\ n \in Nat
        BY <2>0, <2>1 DEF Write, Window
      <3>2. ASSUME case.kind \in Buffering
            PROVE  /\ phase' = "open" => Behind(case, st', taken + n) /\ Fits(case, taken + n)
                   /\ phase' = "failed" => ~Expected(case).ok
                   /\ phase' # "ok"
                   /\ case.kind = "verify" => st'.out = <<>>
        <4>1. Behind(case, st, taken) /\ Fits(case, taken)
          BY <3>1, <3>2 DEF BufferInv
        <4>2. /\ case.kind = "verify" => st'.out = <<>>
              /\ IF st'.failed THEN ~Fits(case, taken + n) ELSE Behind(case, st', taken + n) /\ Fits(case, taken + n)
          BY <2>0, <3>1, <3>2, <4>1, TransformBuffering
        <4>3. st'.failed => ~Expected(case).ok
          BY <2>0, <3>1, <3>2, <4>2, UnfitRefused
        <4>4. QED
          BY <3>1, <4>2, <4>3
      <3>3. QED
        BY <2>0, <3>1, <3>2 DEF BufferInv
    <2>2. ASSUME End PROVE BufferInv'
      <3>1. /\ st' = Flush(case, st) /\ case' = case /\ taken' = taken /\ taken = Len(case.input)
            /\ phase' = IF st'.failed THEN "failed" ELSE "ok"
            /\ phase = "open"
        BY <2>2 DEF End
      <3>2. ASSUME case.kind \in Buffering
            PROVE  /\ IF st'.failed THEN ~Expected(case).ok ELSE Expected(case) = Success(st'.out)
                   /\ case.kind = "verify" => st'.out = IF st'.failed THEN <<>> ELSE case.original
        <4>1. Behind(case, st, Len(case.input)) /\ Fits(case, Len(case.input))
          BY <3>1, <3>2 DEF BufferInv
        <4>2. QED
          BY <2>0, <3>1, <3>2, <4>1, FlushBuffering
      <3>3. QED
        BY <2>0, <3>1, <3>2 DEF BufferInv
    <2>3. ASSUME NEW fulfilled \in BOOLEAN, TaskSettles(fulfilled) PROVE BufferInv'
      BY <2>0, <2>3 DEF TaskSettles, Busy, BufferInv, Worker, Buffering
    <2>4. ASSUME Destroy PROVE BufferInv'
      <3>1. st' = OnDestroy(case, st) /\ case' = case /\ taken' = taken /\ phase' = "destroyed" /\ phase = "open"
        BY <2>4 DEF Destroy
      <3>2. case.kind = "verify" => st'.out = <<>>
        <4> SUFFICES ASSUME case.kind = "verify" PROVE st'.out = <<>>
          OBVIOUS
        <4>1. Holds(st, taken, SubSeq(case.input, 1, taken), FALSE, <<>>)
          BY <3>1 DEF BufferInv, Behind, Buffering
        <4>2. st' = [st EXCEPT !.chunks = <<>>]
          BY <3>1, VerifyCalls
        <4>3. QED
          BY <4>1, <4>2 DEF Holds, StreamFields
      <3>3. QED
        BY <2>0, <3>1, <3>2 DEF BufferInv
    <2>5. ASSUME Abort PROVE BufferInv'
      BY <2>0, <2>5 DEF Abort, BufferInv, Worker, Buffering
    <2>6. CASE UNCHANGED vars
      BY <2>0, <2>6 DEF BufferInv, vars
    <2>7. QED
      BY <2>1, <2>2, <2>3, <2>4, <2>5, <2>6 DEF Next
  <1>3. QED
    BY <1>1, <1>2, PTL DEF Spec

\* Signing, verifying and compressing streams: wherever the chunks end, the
\* stream succeeds exactly when the buffer form of the plugin does and with
\* the same bytes, for every input and every limit.
THEOREM BufferingFragmentation ==
    Spec => [](case.kind \in {"sign", "verify", "compress"} => FragmentationInvisible)
  <1>1. BufferInv => (case.kind \in {"sign", "verify", "compress"} => FragmentationInvisible)
    BY DEF BufferInv, Buffering, FragmentationInvisible
  <1>2. QED
    BY <1>1, BufferInvariant, PTL

\* A decrypting stream has released the beginning of the original, and when it
\* succeeds all of it.
DecryptInv ==
    case.kind = "decrypt" =>
        /\ phase = "open" => DecryptReader(case, st, taken)
        /\ Begins(case, st)
        /\ phase = "ok" => st.out = case.original

\* It holds at every moment.
LEMMA DecryptInvariant ==
    Spec => []DecryptInv
  <1>1. Init => DecryptInv
    <2> SUFFICES ASSUME Init, case.kind = "decrypt"
                 PROVE  /\ phase = "open" => DecryptReader(case, st, taken)
                        /\ Begins(case, st)
                        /\ phase = "ok" => st.out = case.original
      BY DEF DecryptInv
    <2>1. case \in Cases /\ st = DecryptCreate /\ taken = 0 /\ phase = IF st.failed THEN "failed" ELSE "open"
      BY DecryptCalls DEF Init
    <2>2. /\ st.failed = FALSE /\ st.format = "unknown" /\ st.legacyChunks = <<>> /\ st.globalHeader = <<>>
          /\ st.frameHeader = <<>> /\ st.frameBody = <<>> /\ st.expected = 0 /\ st.out = <<>>
          /\ st.finalSeen = FALSE
      BY <2>1 DEF DecryptCreate
    <2>3. Window(case.input, 0, 0) = <<>> /\ Len(<<>>) = 0
      BY SubSeqEmpty DEF Window
    <2>4. InHeader(case, st, <<>>, 0)
      <3>1. Len(st.globalHeader) = 0 /\ 0 - 0 = 0 /\ 0 \in Nat /\ 0 <= 2 /\ 0 <= 0
        BY <2>2, <2>3
      <3>2. QED
        BY <2>2, <2>3, <3>1 DEF InHeader
    <2>5. DecryptReader(case, st, 0)
      BY <2>2, <2>4 DEF DecryptReader
    <2>6. Begins(case, st)
      BY <2>1, <2>5, ReaderBegins
    <2>7. QED
      BY <2>1, <2>2, <2>5, <2>6
  <1>2. SecretInv /\ BufferInv /\ DecryptInv /\ [Next]_vars => DecryptInv'
    <2> SUFFICES ASSUME SecretInv, BufferInv, DecryptInv, [Next]_vars, case.kind = "decrypt"
                 PROVE  DecryptInv'
      BY DEF DecryptInv, Next, Write, End, TaskSettles, Destroy, Abort, vars
    <2>0. /\ case' = case /\ case.kind = "decrypt" /\ case \in Cases /\ taken \in Nat
          /\ DecryptSafe(st) /\ Begins(case, st)
          /\ phase = "open" => DecryptReader(case, st, taken)
      <3>1. case' = case
        BY DEF Next, Write, End, TaskSettles, Destroy, Abort, vars
      <3>2. DecryptSafe(st) /\ case \in Cases /\ taken \in Nat
        BY DEF SecretInv, KindSafe
      <3>3. QED
        BY <3>1, <3>2 DEF DecryptInv
    <2>1. ASSUME NEW n \in 0 .. Len(case.input), Write(n) PROVE DecryptInv'
      <3> DEFINE limits == PluginLimits(case.limits)
      <3>1. /\ st' = Transform(case, st, Window(case.input, taken, n)) /\ taken' = taken + n
            /\ phase' = IF st'.failed THEN "failed" ELSE "open"
            /\ phase = "open" /\ taken + n <= Len(case.input)
        BY <2>1 DEF Write, Window
      <3>2. st' = DecryptTransform(st, Window(case.input, taken, n), case.option, limits)
        BY <2>0, <3>1, DecryptCalls
      <3>3. n \in Nat
        OBVIOUS
      <3> HIDE DEF limits
      <3>4. (st'.failed /\ Begins(case, st')) \/ DecryptReader(case, st', taken + n)
        BY <2>0, <3>1, <3>2, <3>3, DecryptTransformAuthentic
      <3>5. Begins(case, st')
        BY <2>0, <3>4, ReaderBegins
      <3>6. DecryptReader(case, st', taken + n) => ~st'.failed
        BY DEF DecryptReader
      <3>7. QED
        BY <2>0, <3>1, <3>4, <3>5, <3>6 DEF DecryptInv
    <2>2. ASSUME End PROVE DecryptInv'
      <3> DEFINE limits == PluginLimits(case.limits)
      <3>1. /\ st' = Flush(case, st) /\ phase = "open"
            /\ phase' = IF st'.failed THEN "failed" ELSE "ok"
        BY <2>2 DEF End
      <3>2. st' = DecryptFlush(st, limits)
        BY <2>0, <3>1, DecryptCalls
      <3> HIDE DEF limits
      <3>3. Begins(case, st') /\ (~st'.failed => st'.out = case.original)
        BY <2>0, <3>1, <3>2, DecryptFlushAuthentic
      <3>4. QED
        BY <2>0, <3>1, <3>3 DEF DecryptInv
    <2>3. ASSUME Destroy PROVE DecryptInv'
      <3>1. st' = OnDestroy(case, st) /\ phase' = "destroyed"
        BY <2>3 DEF Destroy
      <3>2. st' = DecryptCleanup(st)
        BY <2>0, <3>1, DecryptCalls
      <3>3. st'.out = st.out
        BY <2>0, <3>2 DEF DecryptCleanup, DecryptSafe, DecryptFields
      <3>4. QED
        BY <2>0, <3>1, <3>3 DEF DecryptInv, Begins
    <2>4. CASE UNCHANGED vars
      BY <2>4 DEF DecryptInv, vars
    <2>5. ASSUME NEW fulfilled \in BOOLEAN PROVE ~TaskSettles(fulfilled) /\ ~Abort
      BY <2>0 DEF TaskSettles, Abort, Busy, Worker
    <2>6. QED
      BY <2>1, <2>2, <2>3, <2>4, <2>5 DEF Next
  <1>3. QED
    BY <1>1, <1>2, SecretInvariant, BufferInvariant, PTL DEF Spec

\* Plaintext of a decrypting stream, and the text of a verifying one, is at
\* every moment a prefix of what was written, and when the stream succeeds all
\* of it: for every input in which no tag is forged, whatever frames of it were
\* lost, repeated, exchanged or replaced, every fragmentation and every limit.
THEOREM ReleasesAreAuthentic ==
    Spec => [](case.kind \in {"decrypt", "verify"} => ReleasedIsAuthentic)
  <1>1. BufferInv /\ DecryptInv => (case.kind \in {"decrypt", "verify"} => ReleasedIsAuthentic)
    <2> SUFFICES ASSUME BufferInv, DecryptInv, case.kind \in {"decrypt", "verify"} PROVE ReleasedIsAuthentic
      OBVIOUS
    <2> DEFINE o == case.original
               out == st.out
    <2>1. o \in Seq(Range(o)) /\ Len(o) \in Nat
      BY Sequences DEF BufferInv
    <2>2. (\E n \in 0 .. Len(o) : out = SubSeq(o, 1, n)) /\ (phase = "ok" => out = o)
      <3>1. CASE case.kind = "decrypt"
        BY <3>1 DEF DecryptInv, Begins
      <3>2. CASE case.kind = "verify"
        <4>1. out = o \/ out = <<>>
          BY <3>2 DEF BufferInv, Buffering
        <4>2. phase = "ok" => out = o
          BY <3>2 DEF BufferInv, Buffering
        <4>3. SubSeq(o, 1, 0) = <<>> /\ SubSeq(o, 1, Len(o)) = o /\ 0 \in 0 .. Len(o) /\ Len(o) \in 0 .. Len(o)
          BY <2>1, SubSeqFull
        <4>4. QED
          BY <4>1, <4>2, <4>3
      <3>3. QED
        BY <3>1, <3>2
    <2>3. Released = out
      BY DEF Released
    <2> HIDE DEF o, out
    <2>4. IsPrefix(out, o)
      <3>1. PICK n \in 0 .. Len(o) : out = SubSeq(o, 1, n)
        BY <2>2
      <3>2. out \in Seq(Range(o)) /\ Len(out) = n
        BY <2>1, <3>1, Cut
      <3>3. SubSeq(out, 1, n) = out
        BY <3>2, SubSeqFull
      <3>4. QED
        BY <2>1, <3>1, <3>2, <3>3 DEF IsPrefix
    <2>5. QED
      BY <2>2, <2>3, <2>4 DEF ReleasedIsAuthentic, o
  <1>2. QED
    BY <1>1, BufferInvariant, DecryptInvariant, PTL

(***************************************************************************)
(* Encryption.  What waits for its frame to fill is a window of the input. *)
(***************************************************************************)

\* Division by the frame size.
LEMMA FrameOf ==
    ASSUME NEW j \in Nat, NEW b \in Nat, NEW size \in Nat \ {0}, b < size
    PROVE  DataFrameCount(j * size + b, size) = IF b = 0 THEN j ELSE j + 1
  <1> DEFINE x == j * size + b + size - 1
             q == IF b = 0 THEN j ELSE j + 1
  <1>1. x \in Nat /\ q \in Nat
    OBVIOUS
  <1>2. q * size <= x /\ x < q * size + size
    OBVIOUS
  <1> HIDE DEF x, q
  <1>3. x \div size = q
    BY <1>1, <1>2
  <1>4. QED
    BY <1>3 DEF x, q, DataFrameCount

\* More bytes need no fewer frames and no less room.
LEMMA Monotone ==
    ASSUME NEW m \in Nat, NEW n \in Nat, m <= n, NEW size \in Nat \ {0}
    PROVE  /\ DataFrameCount(m, size) <= DataFrameCount(n, size)
           /\ EncodedLength(m, size) <= EncodedLength(n, size)
           /\ DataFrameCount(m, size) \in Nat /\ EncodedLength(m, size) \in Nat
  <1> DEFINE p == DataFrameCount(m, size)
             q == DataFrameCount(n, size)
  <1>1. p \in Nat /\ q \in Nat
    BY FrameCount
  <1>2. p <= q
    BY DEF DataFrameCount
  <1> HIDE DEF p, q
  <1>3. /\ EncodedLength(m, size) = 3 + m + (p + 1) * 4
        /\ EncodedLength(n, size) = 3 + n + (q + 1) * 4
    BY DEF EncodedLength, p, q, GLOBAL_HEADER_LENGTH, FRAME_OVERHEAD, FRAME_HEADER_LENGTH, TAG_LENGTH
  <1>4. QED
    BY <1>1, <1>2, <1>3 DEF p, q

FrameSize(c) == ResolveFrameSize(c.option, PluginLimits(c.limits))

Header(c) == BuildHeader(FrameSize(c), "salt")

FramesNeeded(c) == DataFrameCount(Len(c.input), FrameSize(c))

\* What m bytes need for the encrypting Transform to go on.
Room(c, m) ==
    LET limits == PluginLimits(c.limits)
    IN  /\ m <= limits.maxInputBytes
        /\ DataFrameCount(m, FrameSize(c)) <= limits.maxFrames
        /\ EncodedLength(m, FrameSize(c)) <= limits.maxOutputBytes

IsSealing(c, f) ==
    Seals(f, c.input, c.option, "salt", PluginLimits(c.limits), FrameSize(c), Header(c), FramesNeeded(c))

\* What encryptBuffer has written after each frame.
Sealed(c) == CHOOSE f : IsSealing(c, f)

\* The local variables in the middle of a chunk that ends behind e.
Filling(c, s, rest, e) ==
    LET p == s.dataFrames * FrameSize(c)
        n == Len(s.pending)
    IN  /\ DOMAIN s = EncryptFields /\ ~s.failed /\ s.failed \in BOOLEAN
        /\ s.size = FrameSize(c) /\ s.header = Header(c) /\ s.inputBytes = e
        /\ s.dataFrames \in Nat /\ n \in Nat /\ n < FrameSize(c) /\ p + n <= e
        /\ s.pending = Window(c.input, p, n)
        /\ rest = Window(c.input, p + n, e - (p + n))
        /\ s.headerSent = TRUE /\ s.out = Sealed(c)[s.dataFrames]

\* A positive frame size.
LEMMA EncryptSizes ==
    ASSUME NEW c \in Cases, c.kind = "encrypt"
    PROVE  /\ FrameSize(c) \in Nat
           /\ c.input \in Seq(Range(c.input)) /\ Len(c.input) \in Nat
           /\ PluginLimits(c.limits).maxInputBytes \in Nat /\ PluginLimits(c.limits).maxOutputBytes \in Nat
           /\ PluginLimits(c.limits).maxFrames \in Nat
  <1>1. c.option \in Nat \ {0} /\ c.input \in Seq(Range(c.input))
    BY CaseAssumption
  <1>2. FrameSize(c) \in {0, c.option}
    BY Zenon DEF FrameSize, ResolveFrameSize
  <1>3. QED
    BY <1>1, <1>2, PluginLimitsTyped

\* encryptBuffer as a run.
LEMMA SealedRuns ==
    ASSUME NEW c \in Cases, c.kind = "encrypt", FrameSize(c) # 0
    PROVE  IsSealing(c, Sealed(c)) /\ FramesNeeded(c) \in Nat
  <1>1. FrameSize(c) \in Nat \ {0} /\ Len(c.input) \in Nat
    BY EncryptSizes
  <1>2. FramesNeeded(c) \in Nat
    BY <1>1, FrameCount DEF FramesNeeded
  <1>3. \E f : IsSealing(c, f)
    <2>1. /\ FramesNeeded(c) \in Nat
          /\ FrameSize(c) = ResolveFrameSize(c.option, PluginLimits(c.limits))
          /\ Header(c) = BuildHeader(FrameSize(c), "salt")
          /\ FramesNeeded(c) = DataFrameCount(Len(c.input), FrameSize(c))
      BY <1>2, Zenon DEF FrameSize, Header, FramesNeeded
    <2>2. QED
      BY <2>1, SealLoop DEF IsSealing
  <1>4. QED
    BY <1>2, <1>3, Zenon DEF Sealed

\* One frame more.
LEMMA SealedFrame ==
    ASSUME NEW c \in Cases, c.kind = "encrypt", FrameSize(c) # 0, NEW j \in Nat, NEW e \in Nat,
           (j + 1) * FrameSize(c) <= e, e <= Len(c.input), Room(c, e)
    PROVE  /\ Sealed(c)[j + 1] = Sealed(c)[j]
                 \o EncryptFrame(Window(c.input, j * FrameSize(c), FrameSize(c)), DATA_FRAME, j, Header(c))
           /\ ~(j + 1 > PluginLimits(c.limits).maxFrames)
  <1> DEFINE size == FrameSize(c)
             max  == PluginLimits(c.limits).maxFrames
             N    == FramesNeeded(c)
             b    == [size |-> size, header |-> Header(c)]
  <1>1. size \in Nat \ {0} /\ Len(c.input) \in Nat /\ max \in Nat /\ N \in Nat
    BY EncryptSizes, SealedRuns
  <1>2. DataFrameCount(e, size) <= max
    BY DEF Room
  <1>3. DataFrameCount((j + 1) * size, size) = j + 1
    <2>1. j + 1 \in Nat /\ 0 \in Nat /\ 0 < size
      BY <1>1
    <2>2. DataFrameCount((j + 1) * size + 0, size) = j + 1
      BY <1>1, <2>1, FrameOf
    <2>3. (j + 1) * size + 0 = (j + 1) * size
      BY <1>1
    <2>4. QED
      BY <2>2, <2>3
  <1>4. j + 1 <= DataFrameCount(e, size) /\ DataFrameCount(e, size) <= N /\ DataFrameCount(e, size) \in Nat
    <2>1. (j + 1) * size \in Nat /\ (j + 1) * size <= e
      BY <1>1
    <2>2. DataFrameCount((j + 1) * size, size) <= DataFrameCount(e, size)
      BY <1>1, <2>1, Monotone
    <2>3. DataFrameCount(e, size) <= DataFrameCount(Len(c.input), size) /\ DataFrameCount(e, size) \in Nat
      BY <1>1, Monotone
    <2>4. QED
      BY <1>3, <2>2, <2>3 DEF FramesNeeded
  <1>5. IsRun(Sealed(c), "seal", Header(c), c.input, b, N)
    BY SealedRuns, Zenon DEF IsSealing, Seals
  <1>6. b.size = size /\ b.header = Header(c)
    OBVIOUS
  <1> HIDE DEF b, N, max
  <1>7. j + 1 \in 1 .. N /\ (j + 1) - 1 = j /\ j + 1 <= max
    BY <1>1, <1>2, <1>4
  <1> DEFINE n == j + 1
             len == Len(c.input)
  <1>8. Sealed(c)[n] = Turn("seal", n, Sealed(c)[j], c.input, b)
    BY <1>5, <1>7 DEF IsRun
  <1>9. Turn("seal", n, Sealed(c)[j], c.input, b) = Sealed(c)[j]
          \o EncryptFrame(SubSeq(c.input, (n - 1) * size + 1, Min({len, n * size})), DATA_FRAME, n - 1, Header(c))
    BY <1>6 DEF Turn
  <1>10. SubSeq(c.input, (n - 1) * size + 1, Min({len, n * size})) = Window(c.input, j * size, size) /\ n - 1 = j
    <2>1. n * size \in Int /\ len \in Int /\ n * size <= len
      BY <1>1
    <2>2. Min({len, n * size}) = n * size
      <3> DEFINE q == n * size
      <3> HIDE DEF q, len
      <3>1. q \in Int /\ len \in Int /\ q <= len
        BY <2>1 DEF q
      <3>2. Min({len, q}) = q
        BY <3>1, MinMax
      <3>3. QED
        BY <3>2 DEF q
    <2>3. n - 1 = j /\ n * size = j * size + size
      BY <1>1
    <2>4. QED
      BY <2>2, <2>3 DEF Window
  <1>11. Sealed(c)[j + 1] = Sealed(c)[j] \o EncryptFrame(Window(c.input, j * size, size), DATA_FRAME, j, Header(c))
    BY <1>8, <1>9, <1>10, Zenon
  <1>12. ~(j + 1 > PluginLimits(c.limits).maxFrames)
    BY <1>1, <1>7 DEF max
  <1>13. QED
    BY <1>11, <1>12, Zenon

\* One turn of the loop of transform() in the middle of a chunk.
LEMMA FillingTurn ==
    ASSUME NEW c \in Cases, c.kind = "encrypt", FrameSize(c) # 0, NEW e \in Nat, e <= Len(c.input), Room(c, e),
           NEW s, NEW rest, Filling(c, s, rest, e), rest # <<>>
    PROVE  LET t == FillTurn(s, rest, PluginLimits(c.limits))
           IN  /\ Filling(c, t.st, t.rest, e)
               /\ Len(t.rest) \in Nat /\ Len(rest) \in Nat /\ Len(t.rest) < Len(rest)
  <1> DEFINE R      == Range(c.input)
             seq    == c.input
             limits == PluginLimits(c.limits)
             size   == FrameSize(c)
             j      == s.dataFrames
             p      == j * size
             n      == Len(s.pending)
             k      == IF p + size <= e THEN size ELSE e - p
             copied == Min({size - n, Len(rest)})
             filled == s.pending \o Take(rest, copied)
             t      == FillTurn(s, rest, limits)
  <1>1. /\ size \in Nat \ {0} /\ seq \in Seq(R) /\ Len(seq) \in Nat /\ e <= Len(seq)
        /\ j \in Nat /\ n \in Nat /\ n < size /\ p + n <= e
        /\ s.pending = Window(seq, p, n) /\ rest = Window(seq, p + n, e - (p + n))
        /\ DOMAIN s = EncryptFields /\ ~s.failed /\ s.failed \in BOOLEAN /\ s.headerSent = TRUE
        /\ s.size = size /\ s.header = Header(c) /\ s.inputBytes = e /\ s.out = Sealed(c)[j]
    BY EncryptSizes DEF Filling
  <1>2. p \in Nat
    BY <1>1
  <1> HIDE DEF seq, R, size, j, n, limits
  <1>3. /\ filled = Window(seq, p, k)
        /\ Drop(rest, copied) = Window(seq, p + k, e - (p + k))
        /\ Len(filled) = k
        /\ Len(rest) = e - (p + n)
        /\ Len(Drop(rest, copied)) = e - (p + k)
    <2>1. /\ p \in Nat /\ n \in Nat /\ e \in Nat /\ size \in Nat /\ p + n <= e /\ e <= Len(seq) /\ n <= size
          /\ seq \in Seq(R)
      BY <1>1, <1>2
    <2> DEFINE P == p + n
               x == e - P
               i == k - n
               Q == p + k
               y == e - Q
    <2>2. s.pending = Window(seq, p, n) /\ rest = Window(seq, P, x)
      BY <1>1
    <2> HIDE DEF p
    <2>3. /\ P \in Nat /\ x \in Nat /\ P + x <= Len(seq)
          /\ i \in 0 .. x /\ P + i = Q /\ x - i = y
          /\ i \in Nat /\ p + n + i <= Len(seq) /\ n + i = k
          /\ Q \in Nat /\ y \in Nat /\ Q + y <= Len(seq) /\ k \in Nat /\ p + k <= Len(seq)
          /\ size - n \in Int /\ x \in Int /\ i = IF size - n <= x THEN size - n ELSE x
      BY <2>1, <1>1
    <2>4. P = p + n
      OBVIOUS
    <2> HIDE DEF P, x, i, Q, y, k
    <2>5. Len(rest) = x
      <3>1. P \in Nat /\ x \in Nat /\ P + x <= Len(seq)
        BY <2>3
      <3>2. QED
        BY <2>1, <2>2, <3>1, WindowElements
    <2>6. copied = i
      BY <2>3, <2>5, MinMax
    <2> HIDE DEF copied
    <2>7. Take(rest, i) = Window(seq, P, i) /\ Drop(rest, i) = Window(seq, Q, y)
      <3>1. P \in Nat /\ x \in Nat /\ P + x <= Len(seq) /\ i \in 0 .. x
        BY <2>3
      <3>2. Take(rest, i) = Window(seq, P, i) /\ Drop(rest, i) = Window(seq, P + i, x - i)
        BY <2>1, <2>2, <3>1, WindowCut
      <3>3. P + i = Q /\ x - i = y
        BY <2>3
      <3>4. QED
        BY <3>2, <3>3
    <2>8. Window(seq, p, n) \o Window(seq, P, i) = Window(seq, p, k)
      <3>1. i \in Nat /\ p + n + i <= Len(seq)
        BY <2>3
      <3>2. Window(seq, p, n) \o Window(seq, p + n, i) = Window(seq, p, n + i)
        BY <2>1, <3>1, WindowJoin
      <3>3. QED
        BY <2>3, <2>4, <3>2
    <2>9. Len(Window(seq, p, k)) = k
      <3>1. p \in Nat /\ k \in Nat /\ p + k <= Len(seq)
        BY <2>1, <2>3
      <3>2. QED
        BY <2>1, <3>1, WindowElements
    <2>10. Len(Window(seq, Q, y)) = y
      <3>1. Q \in Nat /\ y \in Nat /\ Q + y <= Len(seq)
        BY <2>3
      <3>2. QED
        BY <2>1, <3>1, WindowElements
    <2>11. /\ filled = Window(seq, p, k) /\ Drop(rest, copied) = Window(seq, Q, y)
           /\ Len(filled) = k /\ Len(rest) = x /\ Len(Drop(rest, copied)) = y
      BY <2>2, <2>5, <2>6, <2>7, <2>8, <2>9, <2>10, Zenon
    <2>12. QED
      BY <2>11, Zenon DEF P, x, Q, y
  <1> HIDE DEF copied, filled
  <1>4. e - (p + n) > 0
    <2>1. Len(rest) # 0
      <3> DEFINE x == p + n
                 y == e - x
      <3>0. rest = Window(seq, x, y)
        BY <1>1
      <3>1. x \in Nat /\ y \in Nat /\ x + y <= Len(seq)
        <4>1. p + n <= e /\ n \in Nat /\ e <= Len(seq) /\ Len(seq) \in Nat
          BY <1>1
        <4> HIDE DEF p
        <4>2. QED
          BY <1>2, <4>1
      <3> HIDE DEF x, y
      <3>2. rest \in Seq(R)
        BY <1>1, <3>0, <3>1, WindowElements
      <3>3. QED
        BY <3>2, EmptySeq
    <2>2. QED
      BY <1>1, <1>2, <1>3, <2>1
  <1>5. t = [st   |-> IF Len(filled) = s.size THEN PushData(s, filled, limits) ELSE [s EXCEPT !.pending = filled],
             rest |-> Drop(rest, copied)]
    <2>1. copied = Min({s.size - Len(s.pending), Len(rest)})
      BY <1>1 DEF copied, n
    <2>2. QED
      BY <1>1, <2>1, Zenon DEF FillTurn, filled
  <1>6. /\ t.rest = Window(seq, p + k, e - (p + k))
        /\ t.st = IF Len(filled) = s.size THEN PushData(s, filled, limits) ELSE [s EXCEPT !.pending = filled]
        /\ Len(t.rest) \in Nat /\ Len(rest) \in Nat /\ Len(t.rest) < Len(rest)
    <2>1. /\ t.rest = Drop(rest, copied)
          /\ t.st = IF Len(filled) = s.size THEN PushData(s, filled, limits) ELSE [s EXCEPT !.pending = filled]
      BY <1>5
    <2> HIDE DEF t
    <2>2. /\ e - (p + k) \in Nat /\ e - (p + n) \in Nat /\ e - (p + k) < e - (p + n)
      BY <1>1, <1>2, <1>4
    <2> HIDE DEF p, k
    <2>3. QED
      BY <1>3, <2>1, <2>2
  <1> HIDE DEF t
  <1>7. Filling(c, t.st, t.rest, e)
    <2>1. CASE p + size <= e
      <3> DEFINE q == (j + 1) * size
      <3>0. k = size /\ p + size = q /\ q <= e /\ q \in Nat
        BY <1>1, <1>2, <2>1
      <3>1. /\ Sealed(c)[j + 1] = Sealed(c)[j] \o EncryptFrame(Window(seq, p, size), DATA_FRAME, j, Header(c))
            /\ ~(j + 1 > limits.maxFrames)
        <4>1. j \in Nat /\ (j + 1) * FrameSize(c) <= e
          BY <1>1, <3>0 DEF size
        <4>2. QED
          BY <4>1, SealedFrame, Zenon DEF seq, size, limits
      <3>2. filled = Window(seq, p, size) /\ Len(filled) = s.size /\ t.rest = Window(seq, q, e - q)
        BY <1>1, <1>3, <1>6, <3>0
      <3> HIDE DEF p, q
      <3>3. t.st = [s EXCEPT !.dataFrames = j + 1, !.pending = <<>>,
                             !.out = s.out \o EncryptFrame(filled, DATA_FRAME, j, s.header)]
        BY <1>6, <3>1, <3>2, Zenon DEF PushData, j
      <3> DEFINE out == s.out \o EncryptFrame(filled, DATA_FRAME, j, s.header)
      <3>4. out = Sealed(c)[j + 1]
        BY <1>1, <3>1, <3>2, Zenon
      <3> HIDE DEF out
      <3>5. /\ DOMAIN t.st = EncryptFields /\ ~t.st.failed /\ t.st.failed \in BOOLEAN /\ t.st.headerSent = TRUE
            /\ t.st.size = size /\ t.st.header = Header(c) /\ t.st.inputBytes = e /\ t.st.out = out
            /\ t.st.dataFrames = j + 1 /\ t.st.pending = <<>>
        BY <1>1, <3>3 DEF EncryptFields, out
      <3>6. Window(seq, q, 0) = <<>> /\ q + 0 = q /\ Len(<<>>) = 0 /\ 0 < size /\ q + 0 <= e
        <4>1. q \in 0 .. Len(seq)
          BY <1>1, <3>0
        <4>2. QED
          BY <1>1, <3>0, <4>1, WindowEnds
      <3>7. (j + 1) * FrameSize(c) = q /\ j + 1 \in Nat
        BY <1>1 DEF q, size
      <3>8. QED
        BY <3>2, <3>4, <3>5, <3>6, <3>7 DEF Filling, seq, size
    <2>2. CASE ~(p + size <= e)
      <3>0. k = e - p /\ k \in Nat /\ k < size /\ p + k = e /\ k # s.size
        BY <1>1, <1>2, <2>2
      <3>1. t.st = [s EXCEPT !.pending = filled] /\ Len(filled) = k /\ filled = Window(seq, p, k)
        BY <1>3, <1>6, <3>0
      <3> HIDE DEF k
      <3>2. /\ DOMAIN t.st = EncryptFields /\ ~t.st.failed /\ t.st.failed \in BOOLEAN /\ t.st.headerSent = TRUE
            /\ t.st.size = size /\ t.st.header = Header(c) /\ t.st.inputBytes = e /\ t.st.out = Sealed(c)[j]
            /\ t.st.dataFrames = j /\ t.st.pending = filled
        BY <1>1, <3>1 DEF EncryptFields, j
      <3>3. j * FrameSize(c) = p
        BY DEF p, size
      <3> HIDE DEF p
      <3>4. p + k <= e /\ t.rest = Window(seq, p + k, e - (p + k))
        BY <1>6, <3>0
      <3>5. QED
        BY <1>1, <3>0, <3>1, <3>2, <3>3, <3>4 DEF Filling, seq, size
    <2>3. QED
      BY <2>1, <2>2
  <1>8. QED
    BY <1>6, <1>7 DEF t, limits

\* The local variables behind the first m bytes.
Filled(c, s, m) ==
    LET p == s.dataFrames * FrameSize(c)
        n == Len(s.pending)
    IN  /\ DOMAIN s = EncryptFields /\ ~s.failed /\ s.failed \in BOOLEAN
        /\ s.size = FrameSize(c) /\ s.header = Header(c) /\ s.inputBytes = m
        /\ s.dataFrames \in Nat /\ n \in Nat /\ n < FrameSize(c) /\ p + n = m
        /\ s.pending = Window(c.input, p, n)
        /\ \/ s.headerSent = TRUE /\ s.out = Sealed(c)[s.dataFrames]
           \/ s.headerSent = FALSE /\ s.out = <<>> /\ s.dataFrames = 0 /\ m = 0

\* The header comes first.
LEMMA HeaderFirst ==
    ASSUME NEW c \in Cases, c.kind = "encrypt", FrameSize(c) # 0
    PROVE  Sealed(c)[0] = Header(c) /\ <<>> \o Header(c) = Header(c)
  <1>1. Sealed(c)[0] = Header(c)
    BY SealedRuns, Zenon DEF IsSealing, Seals, IsRun
  <1>2. <<>> \o Header(c) = Header(c)
    <2> DEFINE x == [k |-> "fields", size |-> FrameSize(c), salt |-> "salt"]
               a == [k |-> "P"]
               b == [k |-> "XAE"]
    <2>1. Header(c) = <<a, b>> \o <<x>>
      BY DEF Header, BuildHeader, MAGIC
    <2> HIDE DEF x, a, b
    <2>2. <<a, b>> \in Seq({a, b, x}) /\ <<x>> \in Seq({a, b, x})
      OBVIOUS
    <2>3. Header(c) \in Seq({a, b, x})
      BY <2>1, <2>2, ConcatProperties
    <2>4. QED
      BY <2>3, ConcatEmptySeq
  <1>3. QED
    BY <1>1, <1>2

\* A chunk begins, with the header if it is the first.
LEMMA ChunkBegins ==
    ASSUME NEW c \in Cases, c.kind = "encrypt", FrameSize(c) # 0, NEW m \in Nat, NEW n \in Nat, m + n <= Len(c.input),
           NEW s, Filled(c, s, m)
    PROVE  Filling(c, SendHeader([s EXCEPT !.inputBytes = m + n]), Window(c.input, m, n), m + n)
  <1> DEFINE e == m + n
             r == [s EXCEPT !.inputBytes = e]
             t == SendHeader(r)
             p == s.dataFrames * FrameSize(c)
             k == Len(s.pending)
  <1>1. /\ DOMAIN r = EncryptFields /\ ~r.failed /\ r.failed \in BOOLEAN
        /\ r.size = FrameSize(c) /\ r.header = Header(c) /\ r.inputBytes = e
        /\ r.dataFrames = s.dataFrames /\ r.pending = s.pending /\ r.headerSent = s.headerSent /\ r.out = s.out
    BY DEF Filled, EncryptFields
  <1> HIDE DEF r, e
  <1>2. /\ t.dataFrames = s.dataFrames /\ t.pending = s.pending /\ t.inputBytes = e
        /\ DOMAIN t = EncryptFields /\ ~t.failed /\ t.failed \in BOOLEAN
        /\ t.size = FrameSize(c) /\ t.header = Header(c)
        /\ t.headerSent = TRUE /\ t.out = Sealed(c)[s.dataFrames]
    <2>1. CASE s.headerSent = TRUE /\ s.out = Sealed(c)[s.dataFrames]
      BY <1>1, <2>1, Zenon DEF SendHeader
    <2>2. CASE s.headerSent = FALSE /\ s.out = <<>> /\ s.dataFrames = 0
      <3>1. t = [r EXCEPT !.headerSent = TRUE, !.out = r.out \o r.header]
        BY <1>1, <2>2, Zenon DEF SendHeader
      <3>2. r.out \o r.header = Sealed(c)[s.dataFrames]
        BY <1>1, <2>2, HeaderFirst, Zenon
      <3> DEFINE o == r.out \o r.header
      <3> HIDE DEF o
      <3>3. t = [r EXCEPT !.headerSent = TRUE, !.out = o] /\ o = Sealed(c)[s.dataFrames]
        BY <3>1, <3>2 DEF o
      <3> HIDE DEF t
      <3>4. QED
        BY <1>1, <3>3 DEF EncryptFields
    <2>3. QED
      BY <2>1, <2>2 DEF Filled
  <1> HIDE DEF t
  <1>3. /\ s.dataFrames \in Nat /\ k \in Nat /\ k < FrameSize(c) /\ p + k = m
        /\ s.pending = Window(c.input, p, k)
    BY DEF Filled
  <1>4. p + k <= e /\ e - (p + k) = n
    <2> HIDE DEF p, k
    <2>1. QED
      BY <1>3 DEF e
  <1>5. QED
    BY <1>2, <1>3, <1>4 DEF Filling, t, r, e

\* The loop of transform() uses the whole chunk.
LEMMA ChunkFilled ==
    ASSUME NEW c \in Cases, c.kind = "encrypt", FrameSize(c) # 0, NEW m \in Nat, NEW n \in Nat, m + n <= Len(c.input),
           Room(c, m + n), NEW s, Filling(c, s, Window(c.input, m, n), m + n)
    PROVE  Filled(c, FillFrames(s, Window(c.input, m, n), PluginLimits(c.limits)), m + n)
  <1> DEFINE R == Range(c.input)
             limits == PluginLimits(c.limits)
             chunk == Window(c.input, m, n)
             e == m + n
             x == [st |-> s, rest |-> chunk]
  <1>0. c.input \in Seq(R) /\ Len(c.input) \in Nat
    BY EncryptSizes
  <1>1. chunk \in Seq(R) /\ Len(chunk) = n /\ e \in Nat /\ e <= Len(c.input)
    <2>1. m \in Nat /\ n \in Nat /\ m + n <= Len(c.input)
      OBVIOUS
    <2>2. QED
      BY <1>0, <2>1, WindowElements
  <1>2. PICK turn : /\ IsRun(turn, "fill", x, limits, limits, n)
                    /\ FillFrames(s, chunk, limits) = turn[n].st
    BY <1>1, FillLoop
  <1> DEFINE Good(i) == /\ Filling(c, turn[i].st, turn[i].rest, e)
                        /\ Len(turn[i].rest) \in Nat /\ Len(turn[i].rest) <= n - i
             P == {i \in 0 .. n : Good(i)}
  <1>3. 0 \in P
    <2>1. turn[0] = x
      BY <1>2 DEF IsRun
    <2>2. turn[0].st = s /\ turn[0].rest = chunk
      BY <2>1
    <2>3. QED
      BY <1>1, <2>2
  <1> HIDE DEF e
  <1>4. ASSUME NEW i \in 1 .. n, i - 1 \in P PROVE i \in P
    <2> DEFINE u == turn[i - 1].st
               r == turn[i - 1].rest
    <2>1. turn[i] = FillTurn(u, r, limits)
      BY <1>2 DEF IsRun, Turn
    <2>2. Filling(c, u, r, e) /\ Len(r) \in Nat /\ Len(r) <= n - (i - 1)
      BY <1>4
    <2> HIDE DEF u, r
    <2>3. CASE r = <<>>
      <3>1. turn[i] = [st |-> u, rest |-> r]
        BY <2>1, <2>3, Zenon DEF FillTurn
      <3>2. turn[i].st = u /\ turn[i].rest = r
        BY <3>1
      <3>3. Len(r) = 0
        BY <2>3
      <3>4. QED
        BY <2>2, <3>2, <3>3
    <2>4. CASE r # <<>>
      <3>1. /\ Filling(c, turn[i].st, turn[i].rest, e)
            /\ Len(turn[i].rest) \in Nat /\ Len(turn[i].rest) < Len(r)
        <4>1. e \in Nat /\ e <= Len(c.input) /\ Room(c, e)
          BY <1>1 DEF e
        <4>2. QED
          BY <2>1, <2>2, <2>4, <4>1, FillingTurn
      <3>2. QED
        BY <2>2, <3>1
    <2>5. QED
      BY <2>3, <2>4
  <1> HIDE DEF P
  <1>5. n \in P
    BY <1>3, <1>4, UpTo
  <1> DEFINE t == turn[n].st
             r == turn[n].rest
  <1>6. Filling(c, t, r, e) /\ Len(r) = 0
    BY <1>5 DEF P
  <1> HIDE DEF t, r
  <1>7. t.dataFrames * FrameSize(c) + Len(t.pending) = e
    <2> DEFINE q == t.dataFrames * FrameSize(c) + Len(t.pending)
               y == e - q
    <2>1. t.dataFrames \in Nat /\ FrameSize(c) \in Nat /\ Len(t.pending) \in Nat /\ q <= e /\ r = Window(c.input, q, y)
      BY <1>6, EncryptSizes DEF Filling
    <2>2. q \in Nat
      BY <2>1
    <2>3. y \in Nat /\ q + y <= Len(c.input)
      <3> HIDE DEF q
      <3>1. QED
        BY <1>1, <2>1, <2>2
    <2> HIDE DEF q, y
    <2>4. Len(r) = y
      BY <1>0, <2>1, <2>2, <2>3, WindowElements
    <2>5. y = 0
      BY <1>6, <2>4
    <2>6. e - q = 0
      BY <2>5 DEF y
    <2>7. QED
      BY <1>1, <2>2, <2>6 DEF q
  <1>8. Filled(c, t, e)
    BY <1>6, <1>7 DEF Filling, Filled
  <1>9. QED
    BY <1>2, <1>8 DEF t, e

\* An input of which a part finds no room is refused by encryptBuffer too.
LEMMA NoRoomRefused ==
    ASSUME NEW c \in Cases, c.kind = "encrypt", NEW m \in Nat, m <= Len(c.input),
           FrameSize(c) = 0 \/ ~Room(c, m)
    PROVE  ~Expected(c).ok
  <1> DEFINE limits == PluginLimits(c.limits)
             size   == FrameSize(c)
             len    == Len(c.input)
             frames == DataFrameCount(len, size)
             room   == EncodedLength(len, size)
  <1>1. size \in Nat /\ len \in Nat /\ limits.maxInputBytes \in Nat /\ limits.maxOutputBytes \in Nat /\ limits.maxFrames \in Nat
    BY EncryptSizes
  <1>2. len > limits.maxInputBytes \/ size = 0 \/ frames > limits.maxFrames \/ room > limits.maxOutputBytes
    <2> SUFFICES ASSUME size # 0
                 PROVE  len > limits.maxInputBytes \/ frames > limits.maxFrames \/ room > limits.maxOutputBytes
      OBVIOUS
    <2> DEFINE f == DataFrameCount(m, size)
               r == EncodedLength(m, size)
    <2>1. size \in Nat \ {0} /\ m \in Nat /\ len \in Nat /\ m <= len
      BY <1>1
    <2>2. ~(m <= limits.maxInputBytes /\ f <= limits.maxFrames /\ r <= limits.maxOutputBytes)
      BY DEF Room
    <2> HIDE DEF size, len, limits
    <2>3. f <= frames /\ r <= room /\ f \in Nat /\ r \in Nat
      BY <2>1, Monotone
    <2>4. frames \in Nat /\ room \in Nat
      <3>1. len <= len
        BY <1>1
      <3>2. QED
        BY <2>1, <3>1, Monotone
    <2> HIDE DEF f, r, frames, room
    <2>5. QED
      BY <1>1, <2>1, <2>2, <2>3, <2>4
  <1>3. EncryptBuffer(c.input, c.option, "salt", limits) = Failed
    BY <1>2, Zenon DEF EncryptBuffer, FrameSize
  <1>4. Expected(c) = Failed
    BY <1>3, Zenon DEF Expected
  <1>5. QED
    BY <1>4 DEF Failed

\* A new encrypting Transform.
LEMMA EncryptCreated ==
    ASSUME NEW c \in Cases, c.kind = "encrypt"
    PROVE  IF Create(c).failed THEN FrameSize(c) = 0 \/ ~Room(c, 0)
           ELSE FrameSize(c) # 0 /\ Filled(c, Create(c), 0) /\ Room(c, 0)
  <1> DEFINE limits == PluginLimits(c.limits)
             size   == FrameSize(c)
             s      == Create(c)
             throws == size = 0 \/ EncodedLength(0, size) > limits.maxOutputBytes
  <1>1. size \in Nat /\ limits.maxInputBytes \in Nat /\ limits.maxOutputBytes \in Nat /\ limits.maxFrames \in Nat
        /\ c.input \in Seq(Range(c.input))
    BY EncryptSizes
  <1>2. s = [header |-> Header(c), size |-> size, pending |-> <<>>, inputBytes |-> 0,
             dataFrames |-> 0, headerSent |-> FALSE, out |-> <<>>,
             key |-> IF throws THEN "none" ELSE "live", failed |-> throws]
    BY EncryptCalls, Zenon DEF EncryptCreate, FrameSize, Header
  <1>3. CASE throws
    <2>1. EncodedLength(0, size) > limits.maxOutputBytes => size = 0 \/ ~Room(c, 0)
      <3> SUFFICES ASSUME EncodedLength(0, size) > limits.maxOutputBytes, size # 0 PROVE ~Room(c, 0)
        OBVIOUS
      <3>1. EncodedLength(0, size) \in Nat
        <4>1. size \in Nat \ {0} /\ 0 \in Nat /\ 0 <= 0
          BY <1>1
        <4>2. QED
          BY <4>1, Monotone
      <3>2. ~(EncodedLength(0, size) <= limits.maxOutputBytes)
        <4> DEFINE r == EncodedLength(0, size)
        <4> HIDE DEF r, limits
        <4>1. QED
          BY <1>1, <3>1 DEF r
      <3>3. QED
        BY <3>2, Zenon DEF Room
    <2>2. throws = TRUE
      BY <1>3
    <2>3. s = [header |-> Header(c), size |-> size, pending |-> <<>>, inputBytes |-> 0,
               dataFrames |-> 0, headerSent |-> FALSE, out |-> <<>>, key |-> "none", failed |-> TRUE]
      BY <1>2, <1>3, <2>2, Zenon
    <2> HIDE DEF s
    <2>4. s.failed
      BY <2>3
    <2>5. QED
      BY <1>3, <2>1, <2>4 DEF s
  <1>4. CASE ~throws
    <2>1. throws = FALSE
      BY <1>4
    <2>2. s = [header |-> Header(c), size |-> size, pending |-> <<>>, inputBytes |-> 0,
               dataFrames |-> 0, headerSent |-> FALSE, out |-> <<>>, key |-> "live", failed |-> FALSE]
      BY <1>2, <1>4, <2>1, Zenon
    <2> HIDE DEF s
    <2>3. /\ DOMAIN s = EncryptFields /\ ~s.failed /\ s.failed \in BOOLEAN
          /\ s.size = size /\ s.header = Header(c) /\ s.inputBytes = 0 /\ s.dataFrames = 0 /\ s.pending = <<>>
          /\ s.headerSent = FALSE /\ s.out = <<>>
      BY <2>2 DEF EncryptFields
    <2>4. 0 * size + 0 = 0 /\ 0 * size = 0 /\ 0 < size /\ size # 0 /\ Len(<<>>) = 0
      BY <1>1, <1>4
    <2>5. Window(c.input, 0, 0) = <<>>
      BY DEF Window
    <2>6. Filled(c, s, 0)
      BY <2>3, <2>4, <2>5 DEF Filled
    <2>7. Room(c, 0)
      <3>1. DataFrameCount(0, size) = 0
        <4>1. DataFrameCount(0, size) = (size - 1) \div size
          BY <1>1 DEF DataFrameCount
        <4> HIDE DEF size
        <4>2. QED
          BY <1>1, <2>4, <4>1
      <3>2. EncodedLength(0, size) \in Nat
        <4>1. size \in Nat \ {0} /\ 0 \in Nat /\ 0 <= 0
          BY <1>1, <2>4
        <4>2. QED
          BY <4>1, Monotone
      <3> DEFINE r == EncodedLength(0, size)
      <3>3. ~(r > limits.maxOutputBytes) /\ r \in Nat
        BY <1>4, <3>2
      <3> HIDE DEF r, limits
      <3>4. 0 <= limits.maxInputBytes /\ 0 <= limits.maxFrames /\ r <= limits.maxOutputBytes
        BY <1>1, <3>3
      <3>5. QED
        BY <3>1, <3>4 DEF Room, r, limits
    <2>8. QED
      BY <2>3, <2>4, <2>6, <2>7 DEF s
  <1>5. QED
    BY <1>3, <1>4

\* transform() with the next n bytes.
LEMMA EncryptTransformed ==
    ASSUME NEW c \in Cases, c.kind = "encrypt", FrameSize(c) # 0, NEW m \in Nat, NEW n \in Nat, m + n <= Len(c.input),
           NEW s, Filled(c, s, m)
    PROVE  LET t == Transform(c, s, Window(c.input, m, n))
           IN  IF t.failed THEN ~Room(c, m + n) ELSE Filled(c, t, m + n) /\ Room(c, m + n)
  <1> DEFINE limits == PluginLimits(c.limits)
             size   == FrameSize(c)
             chunk  == Window(c.input, m, n)
             e      == m + n
             t      == Transform(c, s, chunk)
             read   == SendHeader([s EXCEPT !.inputBytes = e])
  <1>1. size \in Nat \ {0} /\ limits.maxInputBytes \in Nat /\ limits.maxOutputBytes \in Nat /\ limits.maxFrames \in Nat
        /\ e \in Nat
    BY EncryptSizes
  <1>2. s.inputBytes + Len(chunk) = e /\ s.size = size
    <2>1. Len(chunk) = n
      BY NextChunk DEF Window
    <2>2. s.inputBytes = m /\ s.size = size
      BY DEF Filled
    <2> HIDE DEF chunk
    <2>3. QED
      BY <2>1, <2>2
  <1>3. Room(c, e) <=> ~(e > limits.maxInputBytes \/ DataFrameCount(e, size) > limits.maxFrames
                         \/ EncodedLength(e, size) > limits.maxOutputBytes)
    <2> DEFINE f == DataFrameCount(e, size)
               r == EncodedLength(e, size)
    <2>1. f \in Nat /\ r \in Nat
      <3>1. e <= e
        BY <1>1
      <3> HIDE DEF e, size
      <3>2. QED
        BY <1>1, <3>1, Monotone
    <2>2. Room(c, e) <=> e <= limits.maxInputBytes /\ f <= limits.maxFrames /\ r <= limits.maxOutputBytes
      BY DEF Room
    <2> HIDE DEF f, r, limits, e
    <2>3. QED
      BY <1>1, <2>1, <2>2 DEF f, r
  <1>4. t = IF ~Room(c, e) THEN EncryptError(s) ELSE FillFrames(read, chunk, limits)
    <2>1. t = EncryptTransform(s, chunk, limits)
      BY EncryptCalls
    <2> HIDE DEF t, limits, chunk, e, size
    <2>2. QED
      BY <1>2, <1>3, <2>1, Zenon DEF EncryptTransform, read
  <1>5. CASE ~Room(c, e)
    <2>1. EncryptError(s).failed
      BY DEF Filled, EncryptFields, EncryptError, EncryptCleanup
    <2> HIDE DEF t, e
    <2>2. QED
      BY <1>4, <1>5, <2>1 DEF t, e
  <1>6. CASE Room(c, e)
    <2>1. Filled(c, FillFrames(read, chunk, limits), e)
      BY <1>6, ChunkBegins, ChunkFilled
    <2> HIDE DEF t, e, read, chunk, limits
    <2>2. t = FillFrames(read, chunk, limits)
      BY <1>4, <1>6, Zenon
    <2>3. Filled(c, t, e) /\ ~t.failed
      BY <2>1, <2>2 DEF Filled
    <2>4. QED
      BY <1>6, <2>3 DEF t, e, chunk
  <1>7. QED
    BY <1>5, <1>6

\* The frame that flush() pushes is the last one of encryptBuffer.
LEMMA LastFrame ==
    ASSUME NEW c \in Cases, c.kind = "encrypt", FrameSize(c) # 0, NEW j \in Nat, NEW n \in Nat, n < FrameSize(c),
           j * FrameSize(c) + n = Len(c.input)
    PROVE  /\ n = 0 => FramesNeeded(c) = j
           /\ n # 0 => /\ FramesNeeded(c) = j + 1
                       /\ Sealed(c)[j + 1] = Sealed(c)[j]
                             \o EncryptFrame(Window(c.input, j * FrameSize(c), n), DATA_FRAME, j, Header(c))
  <1> DEFINE size == FrameSize(c)
             len  == Len(c.input)
             N    == FramesNeeded(c)
             b    == [size |-> size, header |-> Header(c)]
  <1>1. size \in Nat \ {0} /\ len \in Nat /\ j * size \in Nat /\ j * size + n = len /\ n < size
    BY EncryptSizes
  <1>2. N = IF n = 0 THEN j ELSE j + 1
    <2>1. DataFrameCount(j * size + n, size) = IF n = 0 THEN j ELSE j + 1
      BY <1>1, FrameOf
    <2>2. QED
      BY <1>1, <2>1 DEF FramesNeeded
  <1>3. ASSUME n # 0
        PROVE  Sealed(c)[j + 1] = Sealed(c)[j] \o EncryptFrame(Window(c.input, j * size, n), DATA_FRAME, j, Header(c))
    <2>1. IsRun(Sealed(c), "seal", Header(c), c.input, b, N)
      BY SealedRuns, Zenon DEF IsSealing, Seals
    <2>2. b.size = size /\ b.header = Header(c)
      OBVIOUS
    <2> HIDE DEF b, N
    <2>3. j + 1 \in 1 .. N /\ (j + 1) - 1 = j
      BY <1>2, <1>3
    <2> DEFINE k == j + 1
    <2>4. Sealed(c)[k] = Turn("seal", k, Sealed(c)[j], c.input, b)
      BY <2>1, <2>3 DEF IsRun
    <2>5. Turn("seal", k, Sealed(c)[j], c.input, b) = Sealed(c)[j]
            \o EncryptFrame(SubSeq(c.input, (k - 1) * size + 1, Min({len, k * size})), DATA_FRAME, k - 1, Header(c))
      BY <2>2 DEF Turn
    <2>6. SubSeq(c.input, (k - 1) * size + 1, Min({len, k * size})) = Window(c.input, j * size, n) /\ k - 1 = j
      <3> DEFINE q == k * size
      <3>1. q \in Int /\ len \in Int /\ len < q /\ k - 1 = j
        BY <1>1
      <3> HIDE DEF q, len
      <3>2. Min({len, q}) = len
        BY <3>1, MinMax
      <3>3. QED
        BY <1>1, <3>1, <3>2 DEF Window, q
    <2>7. QED
      BY <2>4, <2>5, <2>6, Zenon
  <1>4. QED
    BY <1>2, <1>3

\* flush() behind the whole input.
LEMMA EncryptFlushed ==
    ASSUME NEW c \in Cases, c.kind = "encrypt", FrameSize(c) # 0, NEW s, Filled(c, s, Len(c.input)), Room(c, Len(c.input))
    PROVE  ~Flush(c, s).failed /\ Expected(c) = Success(Flush(c, s).out)
  <1> DEFINE limits == PluginLimits(c.limits)
             len    == Len(c.input)
             N      == FramesNeeded(c)
             sent   == SendHeader(s)
             j      == s.dataFrames
             n      == Len(s.pending)
             final  == EncryptFrame(<<>>, FINAL_FRAME, N, Header(c))
             last   == IF sent.pending = <<>> THEN sent ELSE PushData(sent, sent.pending, limits)
  <1>1. /\ FrameSize(c) \in Nat /\ len \in Nat /\ N \in Nat
        /\ limits.maxInputBytes \in Nat /\ limits.maxOutputBytes \in Nat /\ limits.maxFrames \in Nat
    BY EncryptSizes, SealedRuns
  <1>2. /\ j \in Nat /\ n \in Nat /\ n < FrameSize(c) /\ j * FrameSize(c) + n = len
        /\ s.pending = Window(c.input, j * FrameSize(c), n)
    BY DEF Filled
  <1>3. /\ n = 0 => N = j
        /\ n # 0 => /\ N = j + 1
                    /\ Sealed(c)[j + 1] = Sealed(c)[j]
                             \o EncryptFrame(s.pending, DATA_FRAME, j, Header(c))
    <2>1. j \in Nat /\ n \in Nat /\ n < FrameSize(c) /\ j * FrameSize(c) + n = Len(c.input)
      BY <1>2
    <2> HIDE DEF j, n
    <2>2. /\ n = 0 => FramesNeeded(c) = j
          /\ n # 0 => /\ FramesNeeded(c) = j + 1
                      /\ Sealed(c)[j + 1] = Sealed(c)[j]
                            \o EncryptFrame(Window(c.input, j * FrameSize(c), n), DATA_FRAME, j, Header(c))
      BY <2>1, LastFrame
    <2>3. QED
      BY <1>2, <2>2, Zenon
  <1>4. Expected(c) = Result(Sealed(c)[N] \o final)
    <2>1. N <= limits.maxFrames /\ len <= limits.maxInputBytes /\ EncodedLength(len, FrameSize(c)) <= limits.maxOutputBytes
      BY DEF Room, FramesNeeded
    <2>2. ~(len > limits.maxInputBytes \/ FrameSize(c) = 0 \/ N > limits.maxFrames
            \/ EncodedLength(len, FrameSize(c)) > limits.maxOutputBytes)
      <3> DEFINE r == EncodedLength(len, FrameSize(c))
      <3>1. r \in Nat
        <4>1. FrameSize(c) \in Nat \ {0} /\ len <= len
          BY <1>1
        <4>2. QED
          BY <1>1, <4>1, Monotone
      <3> HIDE DEF r, len, N, limits
      <3>2. QED
        BY <1>1, <2>1, <3>1 DEF r
    <2>3. EncryptBuffer(c.input, c.option, "salt", limits) = Result(Sealed(c)[N] \o final)
      BY <2>2, SealedRuns, Zenon DEF IsSealing, Seals
    <2>4. QED
      BY <2>3, Zenon DEF Expected
  <1>5. N <= limits.maxFrames
    BY DEF Room, FramesNeeded
  <1>6. /\ DOMAIN sent = EncryptFields /\ ~sent.failed /\ sent.failed \in BOOLEAN
        /\ sent.header = Header(c) /\ sent.dataFrames = j /\ sent.pending = s.pending /\ sent.out = Sealed(c)[j]
    <2>0. /\ DOMAIN s = EncryptFields /\ ~s.failed /\ s.failed \in BOOLEAN /\ s.header = Header(c)
      BY DEF Filled
    <2>1. CASE s.headerSent = TRUE /\ s.out = Sealed(c)[s.dataFrames]
      BY <2>0, <2>1, Zenon DEF SendHeader
    <2>2. CASE s.headerSent = FALSE /\ s.out = <<>> /\ s.dataFrames = 0
      <3> DEFINE o == s.out \o s.header
      <3>1. sent = [s EXCEPT !.headerSent = TRUE, !.out = o]
        BY <2>2, Zenon DEF SendHeader
      <3>2. o = Sealed(c)[j]
        BY <2>0, <2>2, HeaderFirst, Zenon
      <3> HIDE DEF o, sent
      <3>3. QED
        BY <2>0, <3>1, <3>2 DEF EncryptFields
    <2>3. QED
      BY <2>1, <2>2 DEF Filled
  <1>7. (s.pending = <<>>) <=> n = 0
    <2> DEFINE p == j * FrameSize(c)
    <2>1. p \in Nat /\ p + n <= Len(c.input) /\ c.input \in Seq(Range(c.input))
      BY <1>1, <1>2, EncryptSizes
    <2>2. n \in Nat /\ s.pending = Window(c.input, p, n)
      BY <1>2
    <2> HIDE DEF p, n, j
    <2>3. s.pending \in Seq(Range(c.input))
      BY <2>1, <2>2, WindowElements
    <2>4. QED
      BY <2>3, EmptySeq DEF n
  <1> HIDE DEF sent
  <1>8. /\ DOMAIN last = EncryptFields /\ ~last.failed /\ last.failed \in BOOLEAN
        /\ last.header = Header(c) /\ last.dataFrames = N /\ last.out = Sealed(c)[N]
    <2>1. CASE n = 0
      BY <1>3, <1>6, <1>7, <2>1, Zenon
    <2>2. CASE n # 0
      <3> DEFINE o == sent.out \o EncryptFrame(sent.pending, DATA_FRAME, sent.dataFrames, sent.header)
      <3>1. o = Sealed(c)[N]
        BY <1>3, <1>6, <2>2, Zenon
      <3>2. ~(j + 1 > limits.maxFrames)
        <4> HIDE DEF N, j, n, limits
        <4>1. QED
          BY <1>1, <1>2, <1>3, <1>5, <2>2
      <3>3. last = [sent EXCEPT !.dataFrames = j + 1, !.pending = <<>>, !.out = o]
        BY <1>6, <1>7, <2>2, <3>2, Zenon DEF PushData
      <3> HIDE DEF o, last, N, j
      <3>4. QED
        BY <1>3, <1>6, <2>2, <3>1, <3>3 DEF EncryptFields
    <2>3. QED
      BY <2>1, <2>2
  <1> DEFINE o == last.out \o EncryptFrame(<<>>, FINAL_FRAME, last.dataFrames, last.header)
  <1>9. Flush(c, s) = EncryptCleanup([last EXCEPT !.out = o])
    <2>1. Flush(c, s) = EncryptFlush(s, limits)
      BY EncryptCalls
    <2>2. QED
      BY <1>8, <2>1, Zenon DEF EncryptFlush, sent
  <1>10. o = Sealed(c)[N] \o final
    BY <1>8, Zenon
  <1> HIDE DEF last, o
  <1>11. Flush(c, s).out = o /\ ~Flush(c, s).failed
    <2> DEFINE u == [last EXCEPT !.out = o]
    <2>1. DOMAIN u = EncryptFields /\ u.out = o /\ ~u.failed /\ u.failed \in BOOLEAN
      BY <1>8 DEF EncryptFields
    <2> HIDE DEF u
    <2>2. EncryptCleanup(u).out = o /\ ~EncryptCleanup(u).failed
      BY <2>1 DEF EncryptCleanup, EncryptFields
    <2>3. QED
      BY <1>9, <2>2 DEF u
  <1>12. QED
    BY <1>4, <1>10, <1>11, Zenon DEF Success, Result

\* An encrypting stream gives what encryptBuffer gives.
EncryptInv ==
    case.kind = "encrypt" =>
        /\ phase = "open" => FrameSize(case) # 0 /\ Filled(case, st, taken) /\ Room(case, taken)
        /\ phase = "failed" => ~Expected(case).ok
        /\ phase = "ok" => Expected(case) = Success(st.out)

\* It holds at every moment.
LEMMA EncryptInvariant ==
    Spec => []EncryptInv
  <1> DEFINE Placed == case \in Cases /\ taken \in Nat /\ taken <= Len(case.input)
  <1>1. Init => EncryptInv
    <2> SUFFICES ASSUME Init, case.kind = "encrypt"
                 PROVE  /\ phase = "open" => FrameSize(case) # 0 /\ Filled(case, st, taken) /\ Room(case, taken)
                        /\ phase = "failed" => ~Expected(case).ok
                        /\ phase # "ok"
      BY DEF EncryptInv
    <2>1. case \in Cases /\ st = Create(case) /\ taken = 0 /\ phase = IF st.failed THEN "failed" ELSE "open"
      BY DEF Init
    <2>2. Len(case.input) \in Nat /\ 0 <= Len(case.input)
      BY <2>1, EncryptSizes
    <2>3. IF st.failed THEN FrameSize(case) = 0 \/ ~Room(case, 0)
          ELSE FrameSize(case) # 0 /\ Filled(case, st, 0) /\ Room(case, 0)
      BY <2>1, EncryptCreated
    <2>4. st.failed => ~Expected(case).ok
      BY <2>1, <2>2, <2>3, NoRoomRefused
    <2>5. QED
      BY <2>1, <2>3, <2>4
  <1>2. Placed /\ EncryptInv /\ [Next]_vars => EncryptInv'
    <2> SUFFICES ASSUME Placed, EncryptInv, [Next]_vars PROVE EncryptInv'
      OBVIOUS
    <2>0. case \in Cases /\ taken \in Nat /\ taken <= Len(case.input)
      OBVIOUS
    <2>1. ASSUME NEW n \in 0 .. Len(case.input), Write(n), case.kind = "encrypt" PROVE EncryptInv'
      <3>1. /\ st' = Transform(case, st, Window(case.input, taken, n)) /\ case' = case /\ taken' = taken + n
            /\ phase' = IF st'.failed THEN "failed" ELSE "open"
            /\ phase = "open"
            /\ taken + n <= Len(case.input) /\ n \in Nat /\ taken + n \in Nat
        BY <2>0, <2>1 DEF Write, Window
      <3>2. FrameSize(case) # 0 /\ Filled(case, st, taken)
        BY <2>1, <3>1 DEF EncryptInv
      <3>3. IF st'.failed THEN ~Room(case, taken + n) ELSE Filled(case, st', taken + n) /\ Room(case, taken + n)
        BY <2>0, <2>1, <3>1, <3>2, EncryptTransformed
      <3>4. st'.failed => ~Expected(case).ok
        BY <2>0, <2>1, <3>1, <3>3, NoRoomRefused
      <3>5. QED
        BY <3>1, <3>2, <3>3, <3>4 DEF EncryptInv
    <2>2. ASSUME End, case.kind = "encrypt" PROVE EncryptInv'
      <3>1. /\ st' = Flush(case, st) /\ case' = case /\ taken' = taken /\ taken = Len(case.input)
            /\ phase' = IF st'.failed THEN "failed" ELSE "ok"
            /\ phase = "open"
        BY <2>2 DEF End
      <3>2. FrameSize(case) # 0 /\ Filled(case, st, Len(case.input)) /\ Room(case, Len(case.input))
        BY <2>2, <3>1 DEF EncryptInv
      <3>3. ~st'.failed /\ Expected(case) = Success(st'.out)
        BY <2>0, <2>2, <3>1, <3>2, EncryptFlushed
      <3>4. QED
        BY <3>1, <3>3 DEF EncryptInv
    <2>3. ASSUME NEW fulfilled \in BOOLEAN, TaskSettles(fulfilled) PROVE EncryptInv'
      BY <2>3 DEF TaskSettles, Busy, EncryptInv, Worker
    <2>4. ASSUME Destroy PROVE EncryptInv'
      BY <2>4 DEF Destroy, EncryptInv
    <2>5. ASSUME Abort PROVE EncryptInv'
      BY <2>5 DEF Abort, EncryptInv, Worker
    <2>6. CASE UNCHANGED vars
      BY <2>6 DEF EncryptInv, vars
    <2>7. ASSUME case.kind # "encrypt" PROVE EncryptInv'
      <3>1. case' = case
        BY DEF Next, Write, End, TaskSettles, Destroy, Abort, vars
      <3>2. QED
        BY <2>7, <3>1 DEF EncryptInv
    <2>8. QED
      BY <2>1, <2>2, <2>3, <2>4, <2>5, <2>6, <2>7 DEF Next
  <1>3. BufferInv => Placed
    BY DEF BufferInv
  <1>4. QED
    BY <1>1, <1>2, <1>3, BufferInvariant, PTL DEF Spec

\* An encrypting stream: wherever the chunks end, the stream succeeds exactly
\* when encryptBuffer does and with the same bytes, for every input, frame
\* size and limit; the frames follow the input and not the chunks.
THEOREM EncryptionFragmentation ==
    Spec => [](case.kind = "encrypt" => FragmentationInvisible)
  <1>1. EncryptInv => (case.kind = "encrypt" => FragmentationInvisible)
    BY DEF EncryptInv, FragmentationInvisible
  <1>2. QED
    BY <1>1, EncryptInvariant, PTL

(***************************************************************************)
(* Decryption against decryptBuffer.  What waits for its frame is a window *)
(* of the input behind the frames that decryptBuffer has opened too.       *)
(***************************************************************************)

\* What the loop of decryptBuffer has after each frame.
Opened(c) == CHOOSE f : Opens(f, Window(c.input, 3, Len(c.input) - 3), Window(c.input, 0, 3), PluginLimits(c.limits))

BufferFields == {"data", "sequence", "finalSeen", "plaintext", "failed"}

\* Its j-th turn begins at the byte behind q.
At(c, j, q, out) ==
    LET b == Opened(c)[j]
    IN  /\ j \in Nat /\ q \in Nat /\ 3 + j <= q /\ q <= Len(c.input)
        /\ DOMAIN b = BufferFields
        /\ b.data = Window(c.input, q, Len(c.input) - q)
        /\ b.sequence = j /\ b.finalSeen \in BOOLEAN /\ b.plaintext = out /\ b.failed = FALSE

\* decryptBuffer refuses the frames.
FramesRefused(c) ==
    DecryptFrames(Window(c.input, 3, Len(c.input) - 3), Window(c.input, 0, 3), PluginLimits(c.limits)) = Failed

\* Once it has failed, or its input is used up, the loop only repeats itself.
LEMMA BufferStops ==
    ASSUME NEW f, NEW x, NEW header, NEW limits, NEW N \in Nat, IsRun(f, "buffer", x, header, limits, N),
           NEW j \in 0 .. N, f[j].failed \/ f[j].data = <<>>
    PROVE  f[N] = f[j]
  <1> DEFINE P == {i \in 0 .. N : i < j \/ f[i] = f[j]}
  <1>1. 0 \in P
    OBVIOUS
  <1>2. ASSUME NEW i \in 1 .. N, i - 1 \in P PROVE i \in P
    <2>1. f[i] = BufferTurn(f[i - 1], header, limits)
      BY DEF IsRun, Turn
    <2>2. f[i - 1] = f[j] => f[i] = f[j]
      BY <2>1, Zenon DEF BufferTurn
    <2>3. QED
      BY <1>2, <2>2
  <1> HIDE DEF P
  <1>3. N \in P
    BY <1>1, <1>2, UpTo
  <1>4. QED
    BY <1>3 DEF P

\* decryptBuffer as a run.
LEMMA OpenedRuns ==
    ASSUME NEW c \in Cases, c.kind = "decrypt", Len(c.input) >= 3
    PROVE  LET N == Len(c.input) - 3
           IN  /\ N \in Nat /\ Len(Window(c.input, 3, N)) = N
               /\ Opens(Opened(c), Window(c.input, 3, N), Window(c.input, 0, 3), PluginLimits(c.limits))
  <1> DEFINE N    == Len(c.input) - 3
             data == Window(c.input, 3, N)
  <1>1. c.input \in Seq(Range(c.input)) /\ Len(c.input) \in Nat
    BY Sequences
  <1>2. N \in Nat /\ 3 \in Nat /\ 3 + N <= Len(c.input)
    BY <1>1
  <1> HIDE DEF N
  <1>3. Len(data) = N
    BY <1>1, <1>2, WindowElements
  <1> HIDE DEF data
  <1>4. \E f : Opens(f, data, Window(c.input, 0, 3), PluginLimits(c.limits))
    BY <1>2, <1>3, BufferLoop
  <1>5. Opens(Opened(c), data, Window(c.input, 0, 3), PluginLimits(c.limits))
    BY <1>4, Zenon DEF Opened, data, N
  <1>6. QED
    BY <1>2, <1>3, <1>5 DEF data, N

\* The run begins behind the header.
LEMMA OpenedBegins ==
    ASSUME NEW c \in Cases, c.kind = "decrypt", Len(c.input) >= 3
    PROVE  At(c, 0, 3, <<>>) /\ Opened(c)[0].finalSeen = FALSE
  <1> DEFINE N == Len(c.input) - 3
             x == [data |-> Window(c.input, 3, N), sequence |-> 0, finalSeen |-> FALSE, plaintext |-> <<>>, failed |-> FALSE]
  <1>1. Opened(c)[0] = x
    BY OpenedRuns, Zenon DEF Opens, IsRun
  <1>2. Len(c.input) \in Nat
    BY Sequences
  <1>3. /\ DOMAIN x = BufferFields /\ x.data = Window(c.input, 3, N) /\ x.sequence = 0 /\ x.finalSeen = FALSE
        /\ x.plaintext = <<>> /\ x.failed = FALSE
    <2> HIDE DEF N
    <2>1. QED
      BY DEF BufferFields
  <1> HIDE DEF x
  <1>4. 0 \in Nat /\ 3 \in Nat /\ 3 + 0 <= 3 /\ 3 <= Len(c.input) /\ FALSE \in BOOLEAN
    BY <1>2
  <1>5. QED
    BY <1>1, <1>3, <1>4, Zenon DEF At

\* The next turn of the run.
LEMMA OpenedTurn ==
    ASSUME NEW c \in Cases, c.kind = "decrypt", Len(c.input) >= 3, NEW j, NEW q, NEW out, At(c, j, q, out), q < Len(c.input)
    PROVE  /\ Opened(c)[j + 1] = BufferTurn(Opened(c)[j], Window(c.input, 0, 3), PluginLimits(c.limits))
           /\ Opened(c)[j].data # <<>> /\ ~Opened(c)[j].failed
           /\ Opened(c)[j + 1].failed => FramesRefused(c)
  <1> DEFINE N == Len(c.input) - 3
             f == Opened(c)
             data == Window(c.input, 3, N)
             header == Window(c.input, 0, 3)
             limits == PluginLimits(c.limits)
  <1>1. j \in Nat /\ q \in Nat /\ 3 + j <= q /\ f[j].data = Window(c.input, q, Len(c.input) - q) /\ ~f[j].failed
    BY DEF At
  <1>2. c.input \in Seq(Range(c.input)) /\ Len(c.input) \in Nat
    BY Sequences
  <1>3. N \in Nat /\ j + 1 \in 1 .. N /\ (j + 1) - 1 = j /\ j + 1 \in 0 .. N
    BY <1>1, <1>2
  <1>4. Len(data) = N /\ Opens(f, data, header, limits)
    BY OpenedRuns
  <1>5. PICK x : IsRun(f, "buffer", x, header, limits, N)
    BY <1>4, Zenon DEF Opens
  <1>6. f[j + 1] = BufferTurn(f[j], header, limits)
    <2> HIDE DEF N, f, header, limits
    <2>1. f[j + 1] = Turn("buffer", j + 1, f[j], header, limits)
      BY <1>3, <1>5 DEF IsRun
    <2>2. QED
      BY <2>1 DEF Turn
  <1>7. f[j].data # <<>>
    <2> DEFINE n == Len(c.input) - q
    <2>1. n \in Nat /\ q + n <= Len(c.input) /\ n # 0
      BY <1>1, <1>2
    <2> HIDE DEF n
    <2>2. Len(Window(c.input, q, n)) = n
      <3> DEFINE seq == c.input
                 R   == Range(c.input)
      <3>1. seq \in Seq(R) /\ q \in Nat /\ n \in Nat /\ q + n <= Len(seq)
        BY <1>1, <1>2, <2>1
      <3> HIDE DEF seq, R
      <3>2. Len(Window(seq, q, n)) = n
        BY <3>1, WindowElements
      <3>3. QED
        BY <3>2 DEF seq
    <2>3. Window(c.input, q, n) # <<>>
      BY <2>1, <2>2
    <2>4. QED
      BY <1>1, <2>3 DEF n
  <1>8. f[j + 1].failed => FramesRefused(c)
    <2> SUFFICES ASSUME f[j + 1].failed PROVE FramesRefused(c)
      OBVIOUS
    <2>1. f[N] = f[j + 1]
      <3> DEFINE i == j + 1
      <3>1. i \in 0 .. N /\ f[i].failed
        BY <1>3
      <3> HIDE DEF i, f, N, header, limits
      <3>2. f[N] = f[i]
        BY <1>3, <1>5, <3>1, BufferStops
      <3>3. QED
        BY <3>2 DEF i
    <2>2. f[N].failed
      BY <2>1
    <2> HIDE DEF f, N
    <2>3. DecryptFrames(data, header, limits) = Failed
      BY <1>4, <2>2, Zenon DEF Opens
    <2>4. QED
      BY <2>3 DEF FramesRefused, N
  <1>9. QED
    BY <1>1, <1>6, <1>7, <1>8

\* decryptBuffer fails where no frame can begin.
LEMMA BufferRefuses ==
    ASSUME NEW c \in Cases, c.kind = "decrypt", Len(c.input) >= 3, NEW j, NEW q, NEW out, At(c, j, q, out), q < Len(c.input),
           \/ Opened(c)[j].finalSeen
           \/ Len(c.input) - q < 2
           \/ ~FrameAccepted(Window(c.input, q, 2), j, j, Len(out), Window(c.input, 0, 3)[3].size, PluginLimits(c.limits))
    PROVE  FramesRefused(c)
  <1> DEFINE b == Opened(c)[j]
             n == Len(c.input) - q
             header == Window(c.input, 0, 3)
             limits == PluginLimits(c.limits)
  <1>1. /\ DOMAIN b = BufferFields /\ b.data = Window(c.input, q, n) /\ b.sequence = j /\ b.plaintext = out
        /\ q \in Nat
    BY DEF At
  <1>2. c.input \in Seq(Range(c.input)) /\ Len(c.input) \in Nat
    BY Sequences
  <1>3. n \in Nat /\ q + n <= Len(c.input)
    BY <1>1, <1>2
  <1>4. /\ Opened(c)[j + 1] = BufferTurn(b, header, limits) /\ b.data # <<>> /\ ~b.failed
        /\ Opened(c)[j + 1].failed => FramesRefused(c)
    BY OpenedTurn
  <1> HIDE DEF n
  <1>5. Len(b.data) = n
    BY <1>1, <1>2, <1>3, WindowElements
  <1>6. \/ b.finalSeen \/ Len(b.data) < FRAME_HEADER_LENGTH
        \/ ~FrameAccepted(Take(b.data, FRAME_HEADER_LENGTH), b.sequence, b.sequence, Len(b.plaintext), header[3].size, limits)
    <2>1. CASE n < 2
      BY <1>5, <2>1 DEF FRAME_HEADER_LENGTH
    <2>2. CASE ~(n < 2)
      <3>1. 2 \in 0 .. n
        BY <1>3, <2>2
      <3>2. Take(Window(c.input, q, n), 2) = Window(c.input, q, 2)
        BY <1>1, <1>2, <1>3, <3>1, WindowCut
      <3>3. Take(b.data, FRAME_HEADER_LENGTH) = Window(c.input, q, 2)
        BY <1>1, <3>2 DEF FRAME_HEADER_LENGTH
      <3>4. b.finalSeen
             \/ ~FrameAccepted(Window(c.input, q, 2), j, j, Len(out), Window(c.input, 0, 3)[3].size, limits)
        BY <2>2 DEF n
      <3>5. QED
        BY <1>1, <3>3, <3>4, Zenon
    <2>3. QED
      BY <2>1, <2>2
  <1> HIDE DEF b, header, limits
  <1>7. BufferTurn(b, header, limits) = [b EXCEPT !.failed = TRUE]
    BY <1>4, <1>6, Zenon DEF BufferTurn
  <1>8. [b EXCEPT !.failed = TRUE].failed
    BY <1>1 DEF BufferFields
  <1>9. QED
    BY <1>4, <1>7, <1>8

\* The length that the frame header behind q announces.
BytesAt(c, q) == Window(c.input, q, 2)[2].bytes

\* decryptBuffer opens the frame that begins here, or fails.
LEMMA BufferOpens ==
    ASSUME NEW c \in Cases, c.kind = "decrypt", Len(c.input) >= 3, NEW j, NEW q, NEW out, At(c, j, q, out), q + 2 <= Len(c.input),
           ~Opened(c)[j].finalSeen, BytesAt(c, q) \in Nat,
           FrameAccepted(Window(c.input, q, 2), j, j, Len(out), Window(c.input, 0, 3)[3].size, PluginLimits(c.limits))
    PROVE  LET frameHeader == Window(c.input, q, 2)
               bytes == BytesAt(c, q)
               restored == DecryptFrame(Window(c.input, q + 2, bytes), Window(c.input, q + 2 + bytes, 2),
                                        frameHeader, Window(c.input, 0, 3))
           IN  IF q + 2 + bytes + 2 > Len(c.input) \/ ~restored.ok THEN FramesRefused(c)
               ELSE /\ At(c, j + 1, q + 2 + bytes + 2, out \o restored.out)
                    /\ Opened(c)[j + 1].finalSeen = (frameHeader[1].type = FINAL_FRAME)
  <1> DEFINE R == Range(c.input)
             seq == c.input
             L == Len(c.input)
             b == Opened(c)[j]
             bytes == BytesAt(c, q)
             n == L - q
             m == L - (q + 2)
             Q == q + 2
             T == Q + bytes
             E == T + 2
             header == Window(seq, 0, 3)
             limits == PluginLimits(c.limits)
             frameHeader == Window(seq, q, 2)
             body == Window(seq, Q, m)
             restored == DecryptFrame(Window(seq, Q, bytes), Window(seq, T, 2), frameHeader, header)
  <1>1. /\ DOMAIN b = BufferFields /\ b.data = Window(seq, q, n) /\ b.sequence = j /\ b.plaintext = out
        /\ q \in Nat /\ j \in Nat /\ 3 + j <= q
    BY DEF At
  <1>2. seq \in Seq(R) /\ L \in Nat /\ L = Len(seq)
    BY Sequences
  <1>3. /\ n \in Nat /\ q + n <= L /\ m \in Nat /\ Q \in Nat /\ Q + m <= L /\ 2 \in 0 .. n /\ n - 2 = m /\ q < L
        /\ T \in Nat /\ E \in Nat /\ Q + m = L /\ bytes \in Nat
    <2>1. q \in Nat /\ L \in Nat /\ q + 2 <= L /\ bytes \in Nat
      BY <1>1, <1>2
    <2> HIDE DEF L, seq, bytes
    <2>2. QED
      BY <2>1
  <1>4. /\ Opened(c)[j + 1] = BufferTurn(b, header, limits) /\ b.data # <<>> /\ ~b.failed
        /\ Opened(c)[j + 1].failed => FramesRefused(c)
    BY <1>3, OpenedTurn
  <1>5. FrameAccepted(frameHeader, j, j, Len(out), header[3].size, limits) /\ ~b.finalSeen /\ frameHeader[2].bytes = bytes
    BY DEF BytesAt
  <1> HIDE DEF bytes, seq, L, b, n, m, Q, T, E, R, header, limits
  <1>6. Len(b.data) = n /\ Take(b.data, 2) = frameHeader /\ Drop(b.data, 2) = body
    <2>1. Len(Window(seq, q, n)) = n
      <3>1. seq \in Seq(R) /\ q \in Nat /\ n \in Nat /\ q + n <= Len(seq)
        BY <1>1, <1>2, <1>3
      <3>2. QED
        BY <3>1, WindowElements
    <2>2. Take(Window(seq, q, n), 2) = Window(seq, q, 2) /\ Drop(Window(seq, q, n), 2) = Window(seq, q + 2, n - 2)
      <3>1. q \in Nat /\ n \in Nat /\ q + n <= Len(seq) /\ 2 \in 0 .. n
        BY <1>1, <1>2, <1>3
      <3>2. QED
        BY <1>2, <3>1, WindowCut
    <2>3. q + 2 = Q /\ n - 2 = m
      BY <1>3 DEF Q
    <2>4. QED
      BY <1>1, <2>1, <2>2, <2>3
  <1> HIDE DEF frameHeader, body
  <1>7. ~(n < 2)
    BY <1>3
  <1> DEFINE opened == DecryptFrame(Take(body, bytes), SubSeq(body, bytes + 1, bytes + 2), frameHeader, header)
  <1>8. BufferTurn(b, header, limits) =
          IF Len(body) < bytes + 2 \/ ~opened.ok THEN [b EXCEPT !.failed = TRUE]
          ELSE [b EXCEPT !.data = Drop(body, bytes + 2), !.sequence = b.sequence + 1,
                         !.finalSeen = (frameHeader[1].type = FINAL_FRAME),
                         !.plaintext = b.plaintext \o opened.out]
    <2>1. /\ FRAME_HEADER_LENGTH = 2 /\ TAG_LENGTH = 2
      BY DEF FRAME_HEADER_LENGTH, TAG_LENGTH
    <2>2. QED
      BY <1>1, <1>4, <1>5, <1>6, <1>7, <2>1, Zenon DEF BufferTurn
  <1>9. [b EXCEPT !.failed = TRUE].failed
    BY <1>1 DEF BufferFields
  <1>10. Len(body) = m
    BY <1>2, <1>3, WindowElements DEF body
  <1>11. CASE E > L
    <2>1. Len(body) < bytes + 2
      <3>1. m \in Nat /\ Q \in Nat /\ Q + m = L /\ bytes \in Nat /\ E > L /\ E = Q + bytes + 2
        BY <1>3, <1>11 DEF E, T
      <3>2. m < bytes + 2
        BY <3>1
      <3>3. QED
        BY <1>10, <3>2
    <2>2. FramesRefused(c)
      BY <1>4, <1>8, <1>9, <2>1
    <2>3. QED
      BY <1>11, <2>2 DEF E, T, Q, L, bytes
  <1>12. CASE ~(E > L)
    <2>1. /\ bytes \in 0 .. m /\ bytes + 2 \in 0 .. m /\ bytes + 2 \in Nat /\ bytes + 2 <= m /\ Q + (bytes + 2) = E
          /\ m - (bytes + 2) = L - E /\ ~(Len(body) < bytes + 2) /\ E <= L /\ 3 + (j + 1) <= E /\ j + 1 \in Nat /\ Q + bytes = T
      <3>1. /\ m \in Nat /\ Q \in Nat /\ Q + m = L /\ bytes \in Nat /\ ~(E > L) /\ T = Q + bytes /\ E = T + 2
            /\ T \in Nat /\ E \in Nat /\ L \in Nat /\ q \in Nat /\ Q = q + 2 /\ j \in Nat /\ 3 + j <= q
        BY <1>1, <1>2, <1>3, <1>12 DEF E, T, Q
      <3>2. E <= L /\ Q + (bytes + 2) = E
        BY <3>1
      <3>3. bytes + 2 <= m /\ m - (bytes + 2) = L - E
        BY <3>1, <3>2
      <3>4. 3 + (j + 1) <= E /\ j + 1 \in Nat
        BY <3>1
      <3>5. bytes \in 0 .. m /\ bytes + 2 \in 0 .. m /\ bytes + 2 \in Nat
        BY <3>1, <3>3
      <3>6. ~(Len(body) < bytes + 2)
        BY <1>10, <3>1, <3>3
      <3>7. Q + bytes = T
        BY <3>1
      <3>8. QED
        BY <3>2, <3>3, <3>4, <3>5, <3>6, <3>7, Zenon
    <2>2. Take(body, bytes) = Window(seq, Q, bytes)
      <3>1. Q \in Nat /\ m \in Nat /\ Q + m <= Len(seq) /\ bytes \in 0 .. m
        BY <1>2, <1>3, <2>1
      <3>2. QED
        BY <1>2, <3>1, WindowCut DEF body
    <2>3. SubSeq(body, bytes + 1, bytes + 2) = Window(seq, T, 2)
      <3> DEFINE w == Window(seq, Q, m)
                 u == Window(seq, T, 2)
                 v == SubSeq(w, bytes + 1, bytes + 2)
      <3>1. w \in Seq(R) /\ Len(w) = m /\ \A k \in 1 .. m : w[k] = seq[Q + k]
        <4>1. seq \in Seq(R) /\ Q \in Nat /\ m \in Nat /\ Q + m <= Len(seq)
          BY <1>2, <1>3
        <4>2. QED
          BY <4>1, WindowElements
      <3>2. T \in Nat /\ T + 2 <= Len(seq) /\ bytes \in Nat /\ bytes + 2 <= m /\ m \in Nat
        BY <1>2, <1>3, <2>1 DEF E
      <3>3. Q + (bytes + 1) = T + 1 /\ Q + (bytes + 2) = T + 2
        BY <1>3, <2>1 DEF T
      <3> HIDE DEF w
      <3>4. u \in Seq(R) /\ Len(u) = 2 /\ u[1] = seq[T + 1] /\ u[2] = seq[T + 2]
        BY <1>2, <3>2 DEF Window
      <3>5. v \in Seq(R) /\ Len(v) = 2 /\ v[1] = w[bytes + 1] /\ v[2] = w[bytes + 2]
        BY <3>1, <3>2
      <3>6. w[bytes + 1] = seq[Q + (bytes + 1)] /\ w[bytes + 2] = seq[Q + (bytes + 2)]
        BY <3>1, <3>2
      <3> HIDE DEF u, v
      <3>7. v[1] = u[1] /\ v[2] = u[2]
        BY <3>3, <3>4, <3>5, <3>6
      <3>8. \A k \in 1 .. Len(v) : v[k] = u[k]
        BY <3>5, <3>7
      <3>9. v = u
        BY <3>4, <3>5, <3>8, SeqEqual
      <3>10. QED
        BY <3>9 DEF body, u, v, w
    <2>4. Drop(body, bytes + 2) = Window(seq, E, L - E)
      <3> DEFINE k == bytes + 2
      <3>1. k \in 0 .. m
        BY <2>1
      <3> HIDE DEF k
      <3>2. Drop(Window(seq, Q, m), k) = Window(seq, Q + k, m - k)
        BY <1>2, <1>3, <3>1, WindowCut
      <3>3. Q + k = E /\ m - k = L - E
        BY <2>1 DEF k
      <3>4. QED
        BY <3>2, <3>3 DEF body, k
    <2>5. opened = restored
      BY <2>2, <2>3
    <2> HIDE DEF opened, restored
    <2>6. CASE ~restored.ok
      <3>1. FramesRefused(c)
        BY <1>4, <1>8, <1>9, <2>5, <2>6
      <3>2. QED
        BY <2>6, <3>1 DEF restored, frameHeader, header, seq, bytes, T, Q
    <2>7. CASE restored.ok
      <3> DEFINE final == (frameHeader[1].type = FINAL_FRAME)
                 text == out \o restored.out
                 left == Window(seq, E, L - E)
                 g == [b EXCEPT !.data = left, !.sequence = j + 1, !.finalSeen = final, !.plaintext = text]
      <3>1. Opened(c)[j + 1] = g
        BY <1>1, <1>4, <1>8, <2>1, <2>4, <2>5, <2>7, Zenon
      <3>2. final \in BOOLEAN
        OBVIOUS
      <3>3. b.failed = FALSE
        BY DEF At, b
      <3> HIDE DEF final, text, left
      <3>4. /\ DOMAIN g = BufferFields /\ g.data = left /\ g.sequence = j + 1 /\ g.finalSeen = final
            /\ g.plaintext = text /\ g.failed = FALSE
        BY <1>1, <3>3, Zenon DEF BufferFields
      <3> HIDE DEF g
      <3>5. At(c, j + 1, E, text) /\ Opened(c)[j + 1].finalSeen = final
        BY <1>3, <2>1, <3>1, <3>2, <3>4, Zenon DEF At, left, seq, L
      <3>6. ~(E > L)
        BY <1>12
      <3>7. QED
        BY <2>7, <3>5, <3>6, Zenon DEF restored, frameHeader, header, seq, bytes, T, Q, E, L, text, final
    <2>8. QED
      BY <2>6, <2>7
  <1>13. QED
    BY <1>11, <1>12

\* The stream and decryptBuffer are at the same frame, which begins behind q.
Abreast(c, s, q) ==
    /\ Len(c.input) >= 3 /\ s.globalHeader = Window(c.input, 0, 3)
    /\ At(c, s.expected, q, s.out) /\ s.finalSeen = Opened(c)[s.expected].finalSeen
    /\ ~s.finalSeen => s.dataFrames = s.expected

\* Both accept its header.
Announced(c, j, q, out) ==
    /\ BytesAt(c, q) \in Nat
    /\ FrameAccepted(Window(c.input, q, 2), j, j, Len(out), Window(c.input, 0, 3)[3].size, PluginLimits(c.limits))

\* What the stream holds of it, and what is left of the first e bytes.
Within(c, s, rest, e, q) ==
    LET h == Len(s.frameHeader)
        b == Len(s.frameBody)
    IN  /\ h \in Nat /\ h <= 2 /\ b \in Nat /\ q + h + b <= e
        /\ s.frameHeader = Window(c.input, q, h)
        /\ s.frameBody = Window(c.input, q + h, b)
        /\ rest = Window(c.input, q + h + b, e - (q + h + b))
        /\ h < 2 => b = 0
        /\ h = 2 => ~s.finalSeen /\ Announced(c, s.expected, q, s.out) /\ b < BytesAt(c, q) + 2
        /\ s.finalSeen => h = 0

\* A complete frame is opened by both or refused by both.
LEMMA FrameOpens ==
    ASSUME NEW c \in Cases, c.kind = "decrypt", NEW s, NEW q, NEW e \in 0 .. Len(c.input),
           DecryptSafe(s), ~s.failed, Abreast(c, s, q), ~s.finalSeen, Announced(c, s.expected, q, s.out),
           q + 2 + BytesAt(c, q) + 2 <= e,
           s.frameHeader = Window(c.input, q, 2),
           s.frameBody = Window(c.input, q + 2, BytesAt(c, q) + 2)
    PROVE  LET E == q + 2 + BytesAt(c, q) + 2
               t == OpenFrame(s)
           IN  \/ ~t.failed /\ Abreast(c, t, E) /\ Within(c, t, Window(c.input, E, e - E), e, E)
               \/ t.failed /\ FramesRefused(c)
  <1> DEFINE R == Range(c.input)
             seq == c.input
             j == s.expected
             bytes == BytesAt(c, q)
             Q == q + 2
             T == q + 2 + bytes
             E == q + 2 + bytes + 2
             frameHeader == Window(seq, q, 2)
             header == Window(seq, 0, 3)
             restored == DecryptFrame(Window(seq, Q, bytes), Window(seq, T, 2), frameHeader, header)
             final == (frameHeader[1].type = FINAL_FRAME)
             text == s.out \o restored.out
             count == IF final THEN s.dataFrames ELSE s.dataFrames + 1
             g == [s EXCEPT !.finalSeen = final, !.out = text, !.dataFrames = count,
                            !.expected = s.expected + 1, !.frameBody = <<>>, !.frameHeader = <<>>]
  <1>1. /\ seq \in Seq(R) /\ Len(seq) \in Nat /\ e \in Nat /\ e <= Len(seq)
        /\ q \in Nat /\ bytes \in Nat /\ j \in Nat /\ Len(seq) >= 3 /\ At(c, j, q, s.out)
        /\ E <= e /\ s.dataFrames = j /\ s.globalHeader = header
    <2>1. seq \in Seq(R) /\ Len(seq) \in Nat
      BY Sequences
    <2>2. Len(seq) >= 3 /\ At(c, j, q, s.out) /\ s.dataFrames = j /\ s.globalHeader = header
      BY DEF Abreast
    <2>3. q \in Nat /\ j \in Nat
      BY <2>2 DEF At
    <2>4. bytes \in Nat
      BY DEF Announced
    <2>5. E <= e
      OBVIOUS
    <2>6. QED
      BY <2>1, <2>2, <2>3, <2>4, <2>5
  <1>2. /\ Q \in Nat /\ T \in Nat /\ E \in Nat /\ bytes + 2 \in Nat /\ Q + (bytes + 2) <= Len(seq)
        /\ bytes \in 0 .. bytes + 2 /\ Q + bytes = T /\ (bytes + 2) - bytes = 2 /\ q + 2 <= Len(seq)
        /\ ~(E > Len(seq)) /\ E <= Len(seq)
    <2> HIDE DEF bytes, seq
    <2>1. QED
      BY <1>1
  <1>3. /\ frameHeader[2].bytes = bytes
        /\ IF E > Len(seq) \/ ~restored.ok THEN FramesRefused(c)
           ELSE /\ At(c, j + 1, E, text)
                /\ Opened(c)[j + 1].finalSeen = final
    <2>1. frameHeader[2].bytes = bytes
      BY DEF BytesAt
    <2>2. ~Opened(c)[j].finalSeen
      BY DEF Abreast
    <2>3. FrameAccepted(Window(c.input, q, 2), j, j, Len(s.out), Window(c.input, 0, 3)[3].size, PluginLimits(c.limits))
      BY DEF Announced
    <2>4. IF E > Len(seq) \/ ~restored.ok THEN FramesRefused(c)
          ELSE At(c, j + 1, E, text) /\ Opened(c)[j + 1].finalSeen = final
      BY <1>1, <1>2, <2>2, <2>3, BufferOpens, Zenon
    <2>5. QED
      BY <2>1, <2>4
  <1>4. /\ Take(s.frameBody, bytes) = Window(seq, Q, bytes)
        /\ Drop(s.frameBody, bytes) = Window(seq, T, 2)
    <2> DEFINE w == bytes + 2
    <2>1. seq \in Seq(R) /\ Q \in Nat /\ w \in Nat /\ Q + w <= Len(seq) /\ bytes \in 0 .. w
      BY <1>1, <1>2
    <2>5. s.frameBody = Window(seq, Q, w)
      OBVIOUS
    <2>2. Q + bytes = T /\ w - bytes = 2
      BY <1>2
    <2> HIDE DEF bytes, Q, w, T, seq, R
    <2>3. Take(Window(seq, Q, w), bytes) = Window(seq, Q, bytes) /\ Drop(Window(seq, Q, w), bytes) = Window(seq, Q + bytes, w - bytes)
      BY <2>1, WindowCut
    <2>4. QED
      BY <2>2, <2>3, <2>5
  <1>5. OpenFrame(s) = IF ~restored.ok THEN DecryptError(s) ELSE g
    <2>1. s.frameHeader = frameHeader /\ s.globalHeader = header
      BY <1>1
    <2> HIDE DEF bytes, frameHeader, header
    <2>2. QED
      BY <1>3, <1>4, <2>1, Zenon DEF OpenFrame
  <1>6. final \in BOOLEAN /\ (~final => count = j + 1)
    BY <1>1
  <1> HIDE DEF restored, final, text, count
  <1>7. /\ g.failed = s.failed /\ g.finalSeen = final /\ g.out = text /\ g.expected = j + 1 /\ g.dataFrames = count
        /\ g.frameBody = <<>> /\ g.frameHeader = <<>> /\ g.globalHeader = s.globalHeader
    BY DEF DecryptSafe, DecryptFields
  <1> HIDE DEF g
  <1>8. CASE ~restored.ok
    BY <1>3, <1>5, <1>8, ErrorKeepsOutput
  <1>9. CASE restored.ok
    <2>1. At(c, j + 1, E, text) /\ Opened(c)[j + 1].finalSeen = final /\ OpenFrame(s) = g
      BY <1>2, <1>3, <1>5, <1>9
    <2>2. Abreast(c, g, E)
      BY <1>1, <1>6, <1>7, <2>1 DEF Abreast
    <2>3. Within(c, g, Window(c.input, E, e - E), e, E)
      <3>1. Window(c.input, E, 0) = <<>> /\ Len(<<>>) = 0
        <4>1. seq \in Seq(R) /\ E \in 0 .. Len(seq)
          BY <1>1, <1>2
        <4> HIDE DEF E
        <4>2. QED
          BY <4>1, WindowEnds
      <3>2. E + 0 = E /\ E + 0 + 0 = E
        BY <1>2
      <3>3. /\ 0 \in Nat /\ 0 <= 2 /\ ~(0 = 2)
        OBVIOUS
      <3> HIDE DEF E
      <3>4. QED
        BY <1>1, <1>7, <3>1, <3>2, <3>3 DEF Within, E
    <2>4. QED
      BY <1>7, <2>1, <2>2, <2>3
  <1>10. QED
    BY <1>8, <1>9

\* A turn behind the header: the stream stays abreast of decryptBuffer, or
\* both refuse the input.
LEMMA AbreastTurn ==
    ASSUME NEW c \in Cases, c.kind = "decrypt", NEW s, NEW rest, NEW q, NEW e \in 0 .. Len(c.input),
           DecryptSafe(s), ~s.failed, Abreast(c, s, q), Within(c, s, rest, e, q), rest # <<>>
    PROVE  LET t == FramedTurn(s, rest, PluginLimits(c.limits))
           IN  \/ /\ ~t.st.failed /\ Len(t.rest) < Len(rest)
                  /\ \E p : Abreast(c, t.st, p) /\ Within(c, t.st, t.rest, e, p)
               \/ t.st.failed /\ FramesRefused(c)
  <1> DEFINE R       == Range(c.input)
             seq     == c.input
             limits  == PluginLimits(c.limits)
             t       == FramedTurn(s, rest, limits)
             headed  == Min({FRAME_HEADER_LENGTH - Len(s.frameHeader), Len(rest)})
             header  == s.frameHeader \o Take(rest, headed)
             after   == Drop(rest, headed)
             fresh   == Len(s.frameHeader) < FRAME_HEADER_LENGTH
             accepts == FrameAccepted(header, s.expected, s.dataFrames, Len(s.out),
                                      s.globalHeader[3].size, limits)
             length  == header[2].bytes + TAG_LENGTH
             copied  == Min({length - Len(s.frameBody), Len(after)})
             body    == s.frameBody \o Take(after, copied)
             named   == [s EXCEPT !.frameHeader = header]
             read    == [s EXCEPT !.frameHeader = header, !.frameBody = body]
             h       == Len(s.frameHeader)
             b       == Len(s.frameBody)
             n       == e - (q + h + b)
             j       == s.expected
             bytes   == BytesAt(c, q)
  <1>1. /\ seq \in Seq(R) /\ Len(seq) \in Nat /\ e \in Nat /\ e <= Len(seq) /\ Len(seq) >= 3
        /\ q \in Nat /\ j \in Nat /\ At(c, j, q, s.out) /\ s.globalHeader = Window(seq, 0, 3)
        /\ s.finalSeen = Opened(c)[j].finalSeen /\ s.finalSeen \in BOOLEAN
        /\ ~s.finalSeen => s.dataFrames = j
    <2>1. seq \in Seq(R) /\ Len(seq) \in Nat
      BY Sequences
    <2>2. /\ At(c, j, q, s.out) /\ s.globalHeader = Window(seq, 0, 3) /\ Len(seq) >= 3
          /\ s.finalSeen = Opened(c)[j].finalSeen /\ (~s.finalSeen => s.dataFrames = j)
      BY DEF Abreast
    <2>3. q \in Nat /\ j \in Nat /\ Opened(c)[j].finalSeen \in BOOLEAN
      BY <2>2 DEF At
    <2>4. QED
      BY <2>1, <2>2, <2>3
  <1>2. /\ h \in Nat /\ h <= 2 /\ b \in Nat /\ q + h + b <= e
        /\ s.frameHeader = Window(seq, q, h) /\ s.frameBody = Window(seq, q + h, b)
        /\ rest = Window(seq, q + h + b, n)
        /\ h < 2 => b = 0
        /\ h = 2 => ~s.finalSeen /\ Announced(c, j, q, s.out) /\ b < bytes + 2
        /\ s.finalSeen => h = 0
    BY DEF Within
  <1> HIDE DEF R, seq, h, b, j, bytes
  <1>3. n \in Nat /\ n # 0 /\ q + h + b + n = e /\ q < Len(seq) /\ Len(rest) = n
    <2>1. n \in Nat /\ q + h + b + n = e /\ q + h + b \in Nat /\ (q + h + b) + n <= Len(seq)
      BY <1>1, <1>2
    <2> DEFINE p == q + h + b
    <2>2. p \in Nat /\ p + n <= Len(seq)
      BY <2>1
    <2> HIDE DEF n, p
    <2>3. Len(Window(seq, p, n)) = n
      BY <1>1, <2>1, <2>2, WindowElements
    <2>4. Len(rest) = n
      BY <1>2, <2>3 DEF p
    <2>5. n # 0
      <3>1. p \in 0 .. Len(seq)
        BY <1>1, <2>1, <2>2
      <3>2. Window(seq, p, 0) = <<>>
        BY <1>1, <3>1, WindowEnds
      <3>3. QED
        BY <1>2, <3>2 DEF p
    <2>6. q < Len(seq)
      BY <1>1, <1>2, <2>1, <2>5
    <2>7. QED
      BY <2>1, <2>4, <2>5, <2>6
  <1> HIDE DEF n
  <1>4. ~(Len(s.globalHeader) < GLOBAL_HEADER_LENGTH)
    <2>1. Len(Window(seq, 0, 3)) = 3
      BY <1>1 DEF Window
    <2>2. s.globalHeader = Window(seq, 0, 3)
      BY <1>1
    <2>3. Len(s.globalHeader) = 3
      BY <2>1, <2>2, Zenon
    <2>4. QED
      BY <2>3 DEF GLOBAL_HEADER_LENGTH
  <1>5. DecryptError(s).failed
    BY ErrorKeepsOutput
  <1>6. CASE s.finalSeen
    <2>1. t.st = DecryptError(s)
      BY <1>6 DEF FramedTurn
    <2>2. FramesRefused(c)
      <3>1. Opened(c)[j].finalSeen /\ Len(c.input) >= 3 /\ q < Len(c.input)
        BY <1>1, <1>3, <1>6 DEF seq
      <3>2. QED
        BY <1>1, <3>1, BufferRefuses
    <2>3. QED
      BY <1>5, <2>1, <2>2
  <1>7. CASE ~s.finalSeen
    <2>1. t = IF Len(header) < FRAME_HEADER_LENGTH THEN [st |-> named, rest |-> after]
              ELSE IF fresh /\ ~accepts THEN [st |-> DecryptError(s), rest |-> <<>>]
              ELSE [st |-> IF Len(body) < length THEN read ELSE OpenFrame(read), rest |-> Drop(after, copied)]
      BY <1>4, <1>7, Zenon DEF FramedTurn
    <2>2. /\ named.frameHeader = header /\ named.frameBody = s.frameBody /\ named.globalHeader = s.globalHeader
          /\ named.expected = j /\ named.finalSeen = s.finalSeen /\ named.out = s.out
          /\ named.failed = s.failed /\ named.dataFrames = s.dataFrames
          /\ read.frameHeader = header /\ read.frameBody = body /\ read.globalHeader = s.globalHeader
          /\ read.expected = j /\ read.finalSeen = s.finalSeen /\ read.out = s.out
          /\ read.failed = s.failed /\ read.dataFrames = s.dataFrames /\ DecryptSafe(read)
      BY DEF DecryptSafe, DecryptFields, j
    <2>3. Abreast(c, named, q) /\ Abreast(c, read, q)
      BY <2>2 DEF Abreast, j
    <2> HIDE DEF t, named, read, accepts
    <2>4. /\ headed \in 0 .. n /\ headed = (IF 2 - h <= n THEN 2 - h ELSE n) /\ h + headed <= 2
          /\ h + headed = 2 \/ (headed = n /\ h + headed < 2)
      <3>1. 2 - h \in Int /\ n \in Int /\ 2 - h >= 0 /\ n >= 0
        BY <1>2, <1>3
      <3>2. headed = IF 2 - h <= n THEN 2 - h ELSE n
        BY <1>3, <3>1, MinMax DEF FRAME_HEADER_LENGTH, h
      <3> HIDE DEF headed
      <3>3. QED
        BY <1>2, <1>3, <3>1, <3>2
    <2> DEFINE k == h + headed
               p == q + h + b
               m == n - headed
    <2>5. k \in Nat /\ p \in Nat /\ m \in Nat /\ p + n <= Len(seq) /\ p + n = e /\ headed \in Nat
      BY <1>1, <1>2, <1>3, <2>4
    <2>6. header = Window(seq, q, k) /\ after = Window(seq, p + headed, m) /\ Len(header) = k /\ Len(after) = m
      <3> HIDE DEF headed
      <3>1. CASE h < 2
        <4>1. q + h = p /\ (q + h) + n <= Len(seq) /\ rest = Window(seq, q + h, n)
          BY <1>1, <1>2, <1>3, <2>5, <3>1
        <4>2. headed \in 0 .. n /\ q \in Nat /\ h \in Nat /\ n \in Nat
          BY <1>1, <1>2, <1>3, <2>4
        <4> HIDE DEF p
        <4>3. /\ Window(seq, q, h) \o Take(Window(seq, q + h, n), headed) = Window(seq, q, h + headed)
              /\ Drop(Window(seq, q + h, n), headed) = Window(seq, (q + h) + headed, n - headed)
          <5> DEFINE z == q + h
          <5>1. z \in Nat /\ z + n <= Len(seq) /\ headed \in Nat /\ q + h + headed <= Len(seq)
            BY <1>1, <4>1, <4>2
          <5>2. Window(seq, q, h) \o Window(seq, q + h, headed) = Window(seq, q, h + headed)
            <6>1. seq \in Seq(R) /\ q \in Nat /\ h \in Nat /\ headed \in Nat /\ q + h + headed <= Len(seq)
              BY <1>1, <4>2, <5>1
            <6>2. QED
              BY <6>1, WindowJoin
          <5> HIDE DEF z
          <5>3. Take(Window(seq, z, n), headed) = Window(seq, z, headed) /\ Drop(Window(seq, z, n), headed) = Window(seq, z + headed, n - headed)
            <6>1. seq \in Seq(R) /\ z \in Nat /\ n \in Nat /\ z + n <= Len(seq) /\ headed \in 0 .. n
              BY <1>1, <4>2, <5>1
            <6>2. QED
              BY <6>1, WindowCut
          <5>4. QED
            BY <5>2, <5>3 DEF z
        <4>4. header = Window(seq, q, k) /\ after = Window(seq, p + headed, m)
          BY <1>2, <4>1, <4>3
        <4>5. QED
          <5>1. q + k <= Len(seq) /\ (p + headed) + m <= Len(seq) /\ p + headed \in Nat
            <6> DEFINE z == Len(seq)
            <6>1. /\ z \in Nat /\ q \in Nat /\ h \in Nat /\ n \in Nat /\ p \in Nat /\ headed \in Nat /\ headed <= n
                  /\ q + h = p /\ p + n <= z
              BY <1>1, <1>2, <1>3, <2>4, <2>5, <4>1
            <6> HIDE DEF z, p
            <6>2. q + k = p + headed /\ p + headed <= p + n /\ (p + headed) + m = p + n
              BY <6>1
            <6>3. QED
              BY <6>1, <6>2 DEF z
          <5> DEFINE P == p + headed
          <5> HIDE DEF k, m, P
          <5>2. Len(Window(seq, q, k)) = k
            <6>1. q \in Nat /\ k \in Nat /\ q + k <= Len(seq) /\ seq \in Seq(R)
              BY <1>1, <2>5, <5>1
            <6>2. QED
              BY <6>1, WindowElements
          <5>3. Len(Window(seq, P, m)) = m
            <6>1. P \in Nat /\ m \in Nat /\ P + m <= Len(seq) /\ seq \in Seq(R)
              BY <1>1, <2>5, <5>1 DEF P
            <6>2. QED
              BY <6>1, WindowElements
          <5>4. QED
            BY <4>4, <5>2, <5>3 DEF P
      <3>2. CASE h = 2
        <4>1. headed = 0 /\ k = 2 /\ m = n /\ p + headed = p
          BY <1>3, <2>4, <2>5, <3>2
        <4>2. Take(rest, 0) = <<>> /\ Drop(rest, 0) = rest
          <5>1. rest \in Seq(R)
            <6>1. p \in Nat /\ n \in Nat /\ p + n <= Len(seq) /\ seq \in Seq(R)
              BY <1>1, <1>3, <2>5
            <6>2. rest = Window(seq, p, n)
              BY <1>2
            <6> HIDE DEF p
            <6>3. QED
              BY <6>1, <6>2, WindowElements
          <5>2. QED
            BY <5>1, SubSeqFull DEF Take, Drop
        <4>3. s.frameHeader \in Seq(R) /\ s.frameHeader = Window(seq, q, 2) /\ Len(s.frameHeader) = 2
          <5>1. q + 2 <= Len(seq) /\ q \in Nat /\ 2 \in Nat /\ seq \in Seq(R)
            BY <1>1, <1>2, <1>3, <3>2
          <5>2. Window(seq, q, 2) \in Seq(R) /\ Len(Window(seq, q, 2)) = 2
            BY <5>1, WindowElements
          <5>3. QED
            BY <1>2, <3>2, <5>2
        <4>4. s.frameHeader \o <<>> = s.frameHeader
          BY <4>3, ConcatEmptySeq
        <4>5. header = s.frameHeader /\ after = rest
          BY <4>1, <4>2, <4>4
        <4>6. QED
          BY <1>2, <1>3, <4>1, <4>3, <4>5
      <3>3. h < 2 \/ h = 2
        BY <1>2
      <3>4. QED
        BY <3>1, <3>2, <3>3, Zenon
    <2> HIDE DEF headed, header, after
    <2>7. CASE k < 2
      <3>1. t.st = named /\ t.rest = after /\ headed = n /\ h < 2 /\ b = 0 /\ m = 0 /\ p = q + h
        <4>1. headed = n /\ h < 2
          BY <1>2, <1>3, <2>4, <2>7
        <4>2. b = 0 /\ m = 0 /\ p = q + h
          BY <1>1, <1>2, <1>3, <4>1
        <4>3. t.st = named /\ t.rest = after
          BY <2>1, <2>6, <2>7 DEF FRAME_HEADER_LENGTH
        <4>4. QED
          BY <4>1, <4>2, <4>3
      <3>2. Within(c, named, after, e, q)
        <4>1. /\ Len(named.frameHeader) = k /\ Len(named.frameBody) = 0 /\ named.frameBody = <<>>
              /\ named.frameHeader = Window(seq, q, k)
          <5>1. s.frameBody = Window(seq, q + h, 0) /\ q + h \in 0 .. Len(seq)
            BY <1>1, <1>2, <3>1
          <5>2. s.frameBody = <<>>
            BY <1>1, <5>1, WindowEnds
          <5>3. QED
            BY <2>2, <2>6, <5>2
        <4>2. /\ q + k + 0 <= e /\ k \in Nat /\ k <= 2 /\ q + k + 0 = p + headed /\ e - (q + k + 0) = m /\ ~(k = 2) /\ 0 \in Nat
              /\ q + k \in 0 .. Len(seq)
          BY <1>1, <1>2, <1>3, <2>5, <2>7, <3>1
        <4>3. Window(seq, q + k, 0) = <<>>
          BY <1>1, <4>2, WindowEnds
        <4>4. ~named.finalSeen
          BY <1>7, <2>2
        <4> HIDE DEF k, m, p
        <4>5. after = Window(seq, q + k + 0, e - (q + k + 0))
          BY <2>6, <4>2
        <4>6. QED
          BY <4>1, <4>2, <4>3, <4>4, <4>5 DEF Within, seq
      <3>3. ~t.st.failed /\ Len(t.rest) < Len(rest)
        BY <1>3, <2>2, <2>6, <3>1
      <3>4. QED
        BY <2>3, <3>1, <3>2, <3>3 DEF t
    <2>8. CASE k = 2 /\ fresh /\ ~accepts
      <3>1. t.st = DecryptError(s)
        BY <2>1, <2>6, <2>8 DEF FRAME_HEADER_LENGTH
      <3>2. FramesRefused(c)
        <4>1. ~FrameAccepted(Window(c.input, q, 2), j, j, Len(s.out), Window(c.input, 0, 3)[3].size, PluginLimits(c.limits))
          BY <1>1, <1>7, <2>6, <2>8 DEF accepts, seq, j
        <4>2. Len(c.input) >= 3 /\ q < Len(c.input) /\ At(c, j, q, s.out)
          BY <1>1, <1>3 DEF seq
        <4>3. QED
          BY <4>1, <4>2, BufferRefuses
      <3>3. QED
        BY <1>5, <3>1, <3>2 DEF t
    <2>9. CASE k = 2 /\ (~fresh \/ accepts)
      <3>1. Announced(c, j, q, s.out) /\ bytes \in Nat /\ length = bytes + 2 /\ b < length
        <4>1. header = Window(seq, q, 2) /\ length = bytes + 2
          BY <2>6, <2>9 DEF length, bytes, BytesAt, seq, TAG_LENGTH
        <4>2. CASE h < 2
          <5>1. accepts
            BY <2>9, <4>2 DEF fresh, h, FRAME_HEADER_LENGTH
          <5>2. FrameAccepted(header, j, j, Len(s.out), Window(seq, 0, 3)[3].size, limits)
            BY <1>1, <1>7, <5>1 DEF accepts, j
          <5>3. header[2].bytes \in Nat
            BY <5>2 DEF FrameAccepted
          <5>4. Announced(c, j, q, s.out) /\ bytes \in Nat
            BY <4>1, <5>2, <5>3 DEF Announced, bytes, BytesAt, seq
          <5>5. QED
            BY <1>2, <4>1, <4>2, <5>4
        <4>3. CASE h = 2
          BY <1>2, <4>1, <4>3 DEF Announced, bytes
        <4>4. QED
          BY <1>2, <4>2, <4>3
      <3> HIDE DEF length, fresh, limits
      <3>2. /\ copied \in 0 .. m /\ b + copied <= length /\ p + headed = q + 2 + b
            /\ b + copied = length \/ (copied = m /\ b + copied < length)
            /\ headed + copied > 0
        <4>1. length - b \in Int /\ m \in Int /\ length - b > 0 /\ m >= 0
          BY <1>2, <2>5, <3>1
        <4>2. copied = IF length - b <= m THEN length - b ELSE m
          BY <2>6, <4>1, MinMax DEF copied, b
        <4> HIDE DEF copied
        <4>3. p + headed = q + 2 + b
          BY <1>1, <1>2, <1>3, <2>4, <2>5, <2>9
        <4>4. headed = 0 => m = n
          BY <1>3
        <4>5. copied \in 0 .. m /\ b + copied <= length /\ (b + copied = length \/ (copied = m /\ b + copied < length))
          <5> HIDE DEF m
          <5>1. QED
            BY <1>2, <3>1, <4>1, <4>2
        <4>6. headed + copied > 0
          BY <1>2, <1>3, <2>4, <2>5, <3>1, <4>1, <4>2, <4>4
        <4>7. QED
          BY <4>3, <4>5, <4>6
      <3> HIDE DEF copied
      <3> DEFINE Q == q + 2
                 i == b + copied
                 left == m - copied
      <3>3. /\ body = Window(seq, Q, i) /\ Len(body) = i /\ Q \in Nat /\ i \in Nat /\ left \in Nat
            /\ Drop(after, copied) = Window(seq, Q + i, left) /\ Q + i + left = e
            /\ Len(Drop(after, copied)) = left /\ Q + i <= e
        <4>1. s.frameBody = Window(seq, Q, b) /\ after = Window(seq, Q + b, m)
          <5>1. CASE h = 2
            BY <1>2, <2>6, <3>2, <5>1
          <5>2. CASE h < 2
            <6>1. b = 0 /\ q + h \in 0 .. Len(seq) /\ Q \in 0 .. Len(seq)
              BY <1>1, <1>2, <1>3, <2>4, <2>5, <2>9, <3>2, <5>2
            <6>2. Window(seq, q + h, 0) = <<>> /\ Window(seq, Q, 0) = <<>>
              BY <1>1, <6>1, WindowEnds
            <6>3. QED
              BY <1>2, <2>6, <3>2, <6>1, <6>2
          <5>3. QED
            BY <1>2, <5>1, <5>2
        <4>2. /\ seq \in Seq(R) /\ Q \in Nat /\ b \in Nat /\ m \in Nat /\ (Q + b) + m <= Len(seq) /\ copied \in 0 .. m
              /\ (Q + b) + m = e /\ copied \in Nat
          BY <1>1, <1>2, <1>3, <2>5, <3>2
        <4> HIDE DEF Q, m, k
        <4>3. /\ Window(seq, Q, b) \o Take(Window(seq, Q + b, m), copied) = Window(seq, Q, b + copied)
              /\ Drop(Window(seq, Q + b, m), copied) = Window(seq, (Q + b) + copied, m - copied)
          <5> DEFINE z == Q + b
          <5>1. z \in Nat /\ z + m <= Len(seq) /\ copied \in Nat /\ Q + b + copied <= Len(seq)
            BY <1>1, <4>2
          <5>2. Window(seq, Q, b) \o Window(seq, Q + b, copied) = Window(seq, Q, b + copied)
            <6>1. seq \in Seq(R) /\ Q \in Nat /\ b \in Nat /\ copied \in Nat /\ Q + b + copied <= Len(seq)
              BY <1>1, <4>2, <5>1
            <6> HIDE DEF z
            <6>2. QED
              BY <6>1, WindowJoin
          <5> HIDE DEF z
          <5>3. /\ seq \in Seq(R) /\ z \in Nat /\ m \in Nat /\ z + m <= Len(seq) /\ copied \in 0 .. m
            BY <4>2, <5>1
          <5>4. Take(Window(seq, z, m), copied) = Window(seq, z, copied) /\ Drop(Window(seq, z, m), copied) = Window(seq, z + copied, m - copied)
            BY <5>3, WindowCut
          <5>5. QED
            BY <5>2, <5>4 DEF z
        <4>4. /\ (Q + b) + copied = Q + i /\ i \in Nat /\ left \in Nat /\ Q + i + left = e /\ Q + i \in Nat
              /\ (Q + i) + left <= Len(seq) /\ Q + i <= Len(seq) /\ Q + i <= e
          BY <1>1, <4>2
        <4>5. body = Window(seq, Q, i) /\ Drop(after, copied) = Window(seq, Q + i, left)
          BY <4>1, <4>3, <4>4
        <4> DEFINE P == Q + i
        <4>6. /\ seq \in Seq(R) /\ Q \in Nat /\ i \in Nat /\ Q + i <= Len(seq) /\ P \in Nat /\ left \in Nat
              /\ P + left <= Len(seq)
          BY <4>2, <4>4
        <4> HIDE DEF i, left, P
        <4>7. Len(Window(seq, Q, i)) = i
          BY <4>6, WindowElements
        <4>8. Len(Window(seq, P, left)) = left
          <5>1. seq \in Seq(R) /\ P \in Nat /\ left \in Nat /\ P + left <= Len(seq)
            BY <4>6
          <5>2. QED
            BY <5>1, WindowElements
        <4>9. QED
          BY <4>2, <4>4, <4>5, <4>7, <4>8 DEF P
      <3>4. left < n
        BY <1>3, <2>4, <2>5, <3>2
      <3>5. t.st = (IF Len(body) < length THEN read ELSE OpenFrame(read)) /\ t.rest = Drop(after, copied)
        <4>1. ~(Len(header) < FRAME_HEADER_LENGTH)
          BY <2>6, <2>9 DEF FRAME_HEADER_LENGTH
        <4>2. t = [st |-> IF Len(body) < length THEN read ELSE OpenFrame(read), rest |-> Drop(after, copied)]
          BY <2>1, <2>9, <4>1, Zenon
        <4> HIDE DEF body
        <4>3. QED
          BY <4>2
      <3> HIDE DEF body
      <3>6. CASE i < length
        <4>1. Within(c, read, t.rest, e, q)
          <5>1. /\ Len(read.frameHeader) = 2 /\ Len(read.frameBody) = i
                /\ read.frameHeader = Window(seq, q, 2) /\ read.frameBody = Window(seq, q + 2, i)
            BY <2>2, <2>6, <2>9, <3>3
          <5>2. t.rest = Window(seq, q + 2 + i, e - (q + 2 + i))
            <6>1. Q + i = q + 2 + i /\ left = e - (q + 2 + i)
              BY <1>1, <3>3
            <6>2. QED
              BY <3>3, <3>5, <6>1
          <5>3. ~read.finalSeen /\ Announced(c, read.expected, q, read.out) /\ i < BytesAt(c, q) + 2
            BY <1>7, <2>2, <3>1, <3>6 DEF bytes
          <5>4. i \in Nat /\ q + 2 + i <= e /\ 2 \in Nat /\ 2 <= 2 /\ ~(2 < 2)
            BY <1>1, <3>3
          <5> HIDE DEF i
          <5>5. QED
            BY <5>1, <5>2, <5>3, <5>4 DEF Within, seq
        <4>2. t.st = read /\ ~t.st.failed /\ Len(t.rest) < Len(rest)
          BY <1>3, <2>2, <3>3, <3>4, <3>5, <3>6
        <4>3. Abreast(c, t.st, q) /\ Within(c, t.st, t.rest, e, q)
          BY <2>3, <4>1, <4>2
        <4>4. QED
          BY <4>2, <4>3, Zenon DEF t, limits
      <3>7. CASE i = length
        <4> DEFINE E == q + 2 + BytesAt(c, q) + 2
        <4>1. /\ t.st = OpenFrame(read)
              /\ t.rest = Window(seq, E, e - E) /\ E <= e /\ Len(t.rest) < Len(rest)
          <5>1. E = Q + i /\ left = e - E
            <6>1. E = q + 2 + bytes + 2
              BY DEF bytes
            <6> HIDE DEF E
            <6>2. i = bytes + 2 /\ q \in Nat /\ bytes \in Nat /\ left \in Nat /\ e \in Nat /\ Q + i + left = e
              BY <1>1, <3>1, <3>3, <3>7
            <6> HIDE DEF i, left
            <6>3. QED
              BY <6>1, <6>2
          <5>2. t.st = OpenFrame(read)
            <6>1. ~(Len(body) < length)
              BY <3>1, <3>3, <3>7
            <6>2. QED
              BY <3>5, <6>1
          <5>3. QED
            BY <1>3, <3>3, <3>4, <3>5, <5>1, <5>2
        <4>2. /\ DecryptSafe(read) /\ ~read.failed /\ Abreast(c, read, q) /\ ~read.finalSeen
              /\ Announced(c, read.expected, q, read.out)
              /\ read.frameHeader = Window(c.input, q, 2)
              /\ read.frameBody = Window(c.input, q + 2, BytesAt(c, q) + 2)
          <5>1. read.frameBody = Window(seq, q + 2, bytes + 2)
            BY <2>2, <3>1, <3>3, <3>7
          <5>2. QED
            BY <1>7, <2>2, <2>3, <2>6, <2>9, <3>1, <5>1 DEF seq, bytes
        <4>3. \/ ~t.st.failed /\ Abreast(c, t.st, E) /\ Within(c, t.st, t.rest, e, E)
              \/ t.st.failed /\ FramesRefused(c)
          BY <4>1, <4>2, FrameOpens DEF seq
        <4>4. QED
          BY <4>1, <4>3, Zenon DEF t, limits
      <3>8. QED
        BY <3>2, <3>6, <3>7
    <2>10. QED
      BY <2>4, <2>5, <2>7, <2>8, <2>9
  <1>8. QED
    BY <1>6, <1>7

\* A window is empty when it ends where it begins.
LEMMA EmptyWindow ==
    ASSUME NEW R, NEW s \in Seq(R), NEW p \in Nat, NEW e \in Nat, p <= e, e <= Len(s)
    PROVE  /\ Window(s, p, e - p) \in Seq(R) /\ Len(Window(s, p, e - p)) = e - p
           /\ Window(s, p, e - p) = <<>> <=> p = e
  <1> DEFINE n == e - p
  <1>1. n \in Nat /\ p + n <= Len(s) /\ (p = e <=> n = 0) /\ p \in 0 .. Len(s)
    OBVIOUS
  <1> HIDE DEF n
  <1>2. Window(s, p, n) \in Seq(R) /\ Len(Window(s, p, n)) = n
    BY <1>1, WindowElements
  <1>3. Window(s, p, 0) = <<>> /\ Len(<<>>) = 0
    BY <1>1, WindowEnds
  <1>4. Window(s, p, n) = <<>> <=> n = 0
    BY <1>2, <1>3
  <1>5. QED
    BY <1>1, <1>2, <1>4 DEF n

\* A framed stream that has used its first m bytes.
Follows(c, s, rest, m) ==
    \/ InHeader(c, s, rest, m) /\ s.dataFrames = 0
    \/ /\ \E q : Abreast(c, s, q) /\ Within(c, s, rest, m, q)
       /\ ValidHeader(Window(c.input, 0, 3), PluginLimits(c.limits))

\* decryptBuffer refuses the header or a frame behind it.
FormatRefused(c) ==
    /\ Len(c.input) >= 3
    /\ ~ValidHeader(Window(c.input, 0, 3), PluginLimits(c.limits)) \/ FramesRefused(c)

\* What is left is a sequence.
LEMMA LeftOver ==
    ASSUME NEW c \in Cases, c.kind = "decrypt", NEW s, NEW rest, NEW e \in 0 .. Len(c.input), Follows(c, s, rest, e)
    PROVE  rest \in Seq(Range(c.input)) /\ Len(rest) \in Nat
  <1> DEFINE R == Range(c.input)
             seq == c.input
  <1>1. seq \in Seq(R) /\ e \in Nat /\ e <= Len(seq)
    <2>1. seq \in Seq(R) /\ Len(seq) \in Nat
      BY Sequences
    <2>2. QED
      BY <2>1
  <1>2. PICK p \in Nat : p <= e /\ rest = Window(seq, p, e - p)
    <2>1. CASE InHeader(c, s, rest, e)
      BY <2>1 DEF InHeader
    <2>2. CASE \E q : Abreast(c, s, q) /\ Within(c, s, rest, e, q)
      <3>1. PICK q : Abreast(c, s, q) /\ Within(c, s, rest, e, q)
        BY <2>2
      <3> DEFINE h == Len(s.frameHeader)
                 b == Len(s.frameBody)
      <3>2. h \in Nat /\ b \in Nat /\ q + h + b <= e /\ rest = Window(seq, q + h + b, e - (q + h + b))
        BY <3>1 DEF Within
      <3>3. q \in Nat
        BY <3>1 DEF Abreast, At
      <3> HIDE DEF h, b
      <3>4. q + h + b \in Nat
        BY <3>2, <3>3
      <3>5. QED
        BY <3>2, <3>4
    <2>3. QED
      BY <2>1, <2>2 DEF Follows
  <1> HIDE DEF R, seq
  <1>3. Window(seq, p, e - p) \in Seq(R)
    BY <1>1, <1>2, EmptyWindow
  <1>4. rest \in Seq(R)
    BY <1>2, <1>3
  <1>5. Len(rest) \in Nat
    BY <1>4
  <1>6. QED
    BY <1>4, <1>5 DEF R, seq

\* A turn uses bytes and keeps up with decryptBuffer, or both refuse the input.
LEMMA FollowTurn ==
    ASSUME NEW c \in Cases, c.kind = "decrypt", NEW s, NEW rest, NEW e \in 0 .. Len(c.input),
           DecryptSafe(s), ~s.failed, Follows(c, s, rest, e), rest # <<>>
    PROVE  LET t == FramedTurn(s, rest, PluginLimits(c.limits))
           IN  \/ ~t.st.failed /\ Len(t.rest) < Len(rest) /\ Follows(c, t.st, t.rest, e)
               \/ t.st.failed /\ FormatRefused(c)
  <1> DEFINE R      == Range(c.input)
             seq    == c.input
             limits == PluginLimits(c.limits)
             t      == FramedTurn(s, rest, limits)
             opens  == ValidHeader(Window(seq, 0, 3), limits)
  <1>0. seq \in Seq(R) /\ e \in Nat /\ e <= Len(seq) /\ Len(seq) \in Nat
    <2>1. seq \in Seq(R) /\ Len(seq) \in Nat
      BY Sequences
    <2>2. QED
      BY <2>1
  <1>1. CASE InHeader(c, s, rest, e) /\ s.dataFrames = 0
    <2> DEFINE p == Len(s.globalHeader)
    <2>1. p \in Nat /\ p <= 2 /\ p <= e /\ rest = Window(seq, p, e - p)
      BY <1>1 DEF InHeader
    <2> HIDE DEF p, R
    <2>2. Len(rest) = e - p /\ e - p > 0
      <3>1. Len(Window(seq, p, e - p)) = e - p /\ (Window(seq, p, e - p) = <<>> => p = e)
        <4>1. seq \in Seq(R) /\ p \in Nat /\ e \in Nat /\ p <= e /\ e <= Len(seq)
          BY <1>0, <2>1
        <4> HIDE DEF seq
        <4>2. Len(Window(seq, p, e - p)) = e - p
          BY <4>1, EmptyWindow
        <4>3. Window(seq, p, e - p) = <<>> => p = e
          BY <4>1, EmptyWindow
        <4>4. QED
          BY <4>2, <4>3
      <3>2. Len(rest) = e - p /\ p # e
        BY <2>1, <3>1
      <3>3. QED
        BY <1>0, <2>1, <3>2
    <2>3. /\ t.st.dataFrames = 0
          /\ \/ e < 3 /\ ~t.st.failed /\ InHeader(c, t.st, t.rest, e) /\ t.rest = <<>>
             \/ e >= 3 /\ ~t.st.failed /\ opens /\ Headed(c, t.st, t.rest, e)
             \/ e >= 3 /\ t.st.failed /\ ~opens
      BY <1>1, HeaderRead
    <2> HIDE DEF t, opens
    <2>4. CASE e < 3 /\ ~t.st.failed /\ InHeader(c, t.st, t.rest, e) /\ t.rest = <<>>
      <3>1. Len(t.rest) < Len(rest)
        <4>1. Len(t.rest) = 0
          BY <2>4
        <4>2. QED
          BY <2>2, <4>1
      <3>2. Follows(c, t.st, t.rest, e)
        BY <2>3, <2>4 DEF Follows
      <3>3. QED
        BY <2>4, <3>1, <3>2 DEF t
    <2>5. CASE e >= 3 /\ ~t.st.failed /\ opens /\ Headed(c, t.st, t.rest, e)
      <3>1. /\ t.st.globalHeader = Window(seq, 0, 3) /\ t.rest = Window(seq, 3, e - 3)
            /\ t.st.frameHeader = <<>> /\ t.st.frameBody = <<>> /\ t.st.expected = 0 /\ t.st.out = <<>>
            /\ t.st.finalSeen = FALSE
        BY <2>5 DEF Headed
      <3>2. Len(seq) >= 3
        BY <1>0, <2>5
      <3>3. At(c, 0, 3, <<>>) /\ Opened(c)[0].finalSeen = FALSE
        BY <3>2, OpenedBegins
      <3>4. Abreast(c, t.st, 3)
        BY <2>3, <3>1, <3>2, <3>3 DEF Abreast
      <3>5. Within(c, t.st, t.rest, e, 3)
        <4>1. Window(seq, 3, 0) = <<>> /\ Len(<<>>) = 0
          <5>1. 3 \in 0 .. Len(seq)
            BY <1>0, <3>2
          <5>2. QED
            BY <1>0, <5>1, WindowEnds
        <4>2. 3 + 0 = 3 /\ 3 + 0 + 0 = 3 /\ 0 \in Nat /\ 0 <= 2 /\ ~(0 = 2) /\ 3 <= e
          BY <2>5
        <4>3. QED
          BY <3>1, <4>1, <4>2 DEF Within
      <3>6. Follows(c, t.st, t.rest, e)
        BY <2>5, <3>4, <3>5 DEF Follows, opens, limits
      <3>7. Len(t.rest) < Len(rest)
        <4>1. Len(Window(seq, 3, e - 3)) = e - 3
          <5>1. 3 \in Nat /\ 3 <= e
            BY <2>5
          <5>2. QED
            BY <1>0, <5>1, EmptyWindow
        <4>2. e - 3 < e - p
          BY <1>0, <2>1
        <4>3. QED
          BY <2>2, <3>1, <4>1, <4>2
      <3>8. QED
        BY <2>5, <3>6, <3>7 DEF t
    <2>6. CASE e >= 3 /\ t.st.failed /\ ~opens
      <3>1. FormatRefused(c)
        BY <1>0, <2>6 DEF FormatRefused, opens, limits
      <3>2. QED
        BY <2>6, <3>1 DEF t
    <2>7. QED
      BY <2>3, <2>4, <2>5, <2>6
  <1>2. CASE (\E q : Abreast(c, s, q) /\ Within(c, s, rest, e, q)) /\ opens
    <2>1. PICK q : Abreast(c, s, q) /\ Within(c, s, rest, e, q)
      BY <1>2
    <2>2. \/ /\ ~t.st.failed /\ Len(t.rest) < Len(rest)
             /\ \E p : Abreast(c, t.st, p) /\ Within(c, t.st, t.rest, e, p)
          \/ t.st.failed /\ FramesRefused(c)
      BY <2>1, AbreastTurn
    <2>3. Len(c.input) >= 3
      BY <2>1 DEF Abreast
    <2> HIDE DEF t
    <2>4. QED
      BY <1>2, <2>2, <2>3 DEF t, Follows, FormatRefused
  <1>3. QED
    BY <1>1, <1>2 DEF Follows

\* The first bytes of a chunk are those behind the last chunk.
LEMMA ChunkFollows ==
    ASSUME NEW c \in Cases, c.kind = "decrypt", NEW s, NEW m \in Nat, NEW n \in Nat, m + n <= Len(c.input),
           Follows(c, s, <<>>, m)
    PROVE  Follows(c, s, Window(c.input, m, n), m + n)
  <1> DEFINE R   == Range(c.input)
             seq == c.input
             e   == m + n
  <1>0. seq \in Seq(R) /\ e \in Nat /\ e <= Len(seq) /\ m <= Len(seq) /\ e - m = n /\ m <= e
    <2>1. seq \in Seq(R) /\ Len(seq) \in Nat
      BY Sequences
    <2>2. QED
      BY <2>1
  <1> HIDE DEF R, seq, e
  <1>1. CASE InHeader(c, s, <<>>, m) /\ s.dataFrames = 0
    <2> DEFINE p == Len(s.globalHeader)
    <2>1. p \in Nat /\ p <= 2 /\ p <= m /\ <<>> = Window(seq, p, m - p)
      BY <1>1 DEF InHeader, seq
    <2> HIDE DEF p
    <2>2. p = m
      BY <1>0, <2>1, EmptyWindow
    <2>3. Window(seq, m, n) = Window(seq, p, e - p) /\ p <= e
      BY <1>0, <2>2
    <2>4. InHeader(c, s, Window(seq, m, n), e)
      BY <1>1, <2>3 DEF InHeader, p, seq
    <2>5. QED
      BY <1>1, <2>4 DEF Follows, seq, e
  <1>2. CASE (\E q : Abreast(c, s, q) /\ Within(c, s, <<>>, m, q)) /\ ValidHeader(Window(c.input, 0, 3), PluginLimits(c.limits))
    <2>1. PICK q : Abreast(c, s, q) /\ Within(c, s, <<>>, m, q)
      BY <1>2
    <2> DEFINE h == Len(s.frameHeader)
               b == Len(s.frameBody)
               p == q + h + b
    <2>2. h \in Nat /\ b \in Nat /\ p <= m /\ <<>> = Window(seq, p, m - p)
      BY <2>1 DEF Within, seq
    <2>3. q \in Nat
      BY <2>1 DEF Abreast, At
    <2> HIDE DEF h, b
    <2>4. p \in Nat
      BY <2>2, <2>3
    <2> HIDE DEF p
    <2>5. p = m
      BY <1>0, <2>2, <2>4, EmptyWindow
    <2>6. Window(seq, m, n) = Window(seq, p, e - p) /\ p <= e
      BY <1>0, <2>5
    <2>7. Within(c, s, Window(seq, m, n), e, q)
      BY <2>1, <2>6 DEF Within, p, h, b, seq
    <2>8. QED
      BY <1>2, <2>1, <2>7 DEF Follows, seq, e
  <1>3. QED
    BY <1>1, <1>2 DEF Follows

\* A turn counts no bytes of the input.
LEMMA TotalKept ==
    ASSUME NEW s, NEW rest, NEW limits, DecryptSafe(s)
    PROVE  FramedTurn(s, rest, limits).st.totalInput = s.totalInput
  BY DEF DecryptSafe, DecryptFields, FramedTurn, OpenFrame, DecryptError, DecryptCleanup

\* The loop of consumeFramed over the next n bytes.
LEMMA ConsumeFollows ==
    ASSUME NEW c \in Cases, c.kind = "decrypt", NEW s, NEW m \in Nat, NEW n \in Nat,
           m + n <= Len(c.input), DecryptSafe(s), ~s.failed, Follows(c, s, <<>>, m)
    PROVE  LET t == ConsumeFramed(s, Window(c.input, m, n), PluginLimits(c.limits))
           IN  /\ t.format = s.format /\ t.totalInput = s.totalInput
               /\ (~t.failed /\ Follows(c, t, <<>>, m + n)) \/ (t.failed /\ FormatRefused(c))
  <1> DEFINE R == Range(c.input)
             seq == c.input
             limits == PluginLimits(c.limits)
             chunk == Window(seq, m, n)
             e == m + n
             x == [st |-> s, rest |-> chunk]
  <1>1. seq \in Seq(R) /\ e \in 0 .. Len(seq) /\ Len(chunk) = n
    <2>1. seq \in Seq(R) /\ Len(seq) \in Nat
      BY Sequences
    <2>2. Len(chunk) = n
      BY <2>1, WindowElements
    <2>3. QED
      BY <2>1, <2>2
  <1>2. PICK turn : /\ IsRun(turn, "framed", x, limits, limits, n)
                    /\ ConsumeFramed(s, chunk, limits) = turn[n].st
    BY <1>1, FramedLoop
  <1> DEFINE Good(i) ==
               /\ DecryptSafe(turn[i].st) /\ turn[i].st.format = s.format /\ turn[i].st.totalInput = s.totalInput
               /\ \/ turn[i].st.failed /\ FormatRefused(c)
                  \/ ~turn[i].st.failed /\ Follows(c, turn[i].st, turn[i].rest, e) /\ Len(turn[i].rest) <= n - i
             P == {i \in 0 .. n : Good(i)}
  <1>3. 0 \in P
    <2>1. turn[0] = x
      BY <1>2 DEF IsRun
    <2>2. turn[0].st = s /\ turn[0].rest = chunk
      BY <2>1
    <2>3. Follows(c, s, chunk, e)
      BY ChunkFollows
    <2>4. Len(chunk) <= n - 0
      BY <1>1
    <2>5. QED
      BY <2>2, <2>3, <2>4
  <1>4. ASSUME NEW i \in 1 .. n, i - 1 \in P PROVE i \in P
    <2> DEFINE u == turn[i - 1].st
               r == turn[i - 1].rest
    <2>1. turn[i] = FramedTurn(u, r, limits)
      BY <1>2 DEF IsRun, Turn
    <2>2. /\ DecryptSafe(u) /\ u.format = s.format /\ u.totalInput = s.totalInput
          /\ \/ u.failed /\ FormatRefused(c)
             \/ ~u.failed /\ Follows(c, u, r, e) /\ Len(r) <= n - (i - 1)
      BY <1>4
    <2> HIDE DEF u, r
    <2>3. DecryptSafe(turn[i].st) /\ turn[i].st.format = s.format /\ turn[i].st.totalInput = s.totalInput
      BY <2>1, <2>2, FramedTurnSafe, FormatKept, TotalKept
    <2>4. CASE r = <<>> \/ u.failed
      <3>1. turn[i] = [st |-> u, rest |-> r]
        BY <2>1, <2>4, Zenon DEF FramedTurn
      <3>2. turn[i].st = u /\ turn[i].rest = r
        BY <3>1
      <3>3. r = <<>> => Len(r) <= n - i
        OBVIOUS
      <3>4. QED
        BY <2>2, <2>3, <2>4, <3>2, <3>3
    <2>5. CASE r # <<>> /\ ~u.failed
      <3>1. Follows(c, u, r, e) /\ Len(r) <= n - (i - 1)
        BY <2>2, <2>5
      <3>2. \/ ~turn[i].st.failed /\ Len(turn[i].rest) < Len(r) /\ Follows(c, turn[i].st, turn[i].rest, e)
            \/ turn[i].st.failed /\ FormatRefused(c)
        BY <1>1, <2>1, <2>2, <2>5, <3>1, FollowTurn
      <3>3. Follows(c, turn[i].st, turn[i].rest, e) => Len(turn[i].rest) \in Nat
        BY <1>1, LeftOver
      <3>4. Len(r) \in Nat
        BY <1>1, <3>1, LeftOver
      <3>5. ~turn[i].st.failed => Len(turn[i].rest) <= n - i
        BY <3>1, <3>2, <3>3, <3>4
      <3>6. QED
        BY <2>3, <3>2, <3>5
    <2>6. QED
      BY <2>4, <2>5
  <1> HIDE DEF P
  <1>5. n \in P
    BY <1>3, <1>4, UpTo
  <1>6. Good(n)
    BY <1>5 DEF P
  <1> DEFINE t == ConsumeFramed(s, chunk, limits)
  <1>7. t = turn[n].st
    BY <1>2
  <1>8. ~t.failed => Follows(c, t, <<>>, e)
    <2> SUFFICES ASSUME ~t.failed PROVE Follows(c, t, <<>>, e)
      OBVIOUS
    <2>1. Follows(c, t, turn[n].rest, e) /\ Len(turn[n].rest) <= n - n
      BY <1>6, <1>7
    <2> HIDE DEF t
    <2>2. turn[n].rest \in Seq(R) /\ Len(turn[n].rest) \in Nat
      BY <1>1, <2>1, LeftOver
    <2>3. turn[n].rest = <<>>
      BY <2>1, <2>2, EmptySeq
    <2>4. QED
      BY <2>1, <2>3
  <1>9. QED
    BY <1>6, <1>7, <1>8

\* The option says whether a legacy packet may be read, or no such packet is
\* at hand.
Decided(c) == c.option \in {"true", "false"} \/ c.input = <<>> \/ c.input[1] = MAGIC[1]

\* The cases of decryptBuffer.
LEMMA DecryptForms ==
    ASSUME NEW c \in Cases, c.kind = "decrypt"
    PROVE  LET limits == PluginLimits(c.limits)
               L == Len(c.input)
               framed == c.input # <<>> /\ c.input[1] = MAGIC[1]
           IN  /\ L > limits.maxInputBytes => Expected(c) = Failed
               /\ framed /\ (L < 3 \/ FormatRefused(c)) => Expected(c) = Failed
               /\ framed /\ ~(L > limits.maxInputBytes) /\ L >= 3 /\ ValidHeader(Window(c.input, 0, 3), limits)
                     => Expected(c) = DecryptFrames(Window(c.input, 3, L - 3), Window(c.input, 0, 3), limits)
               /\ c.input = <<>> => Expected(c) = Failed
               /\ ~framed /\ c.option # "true" => Expected(c) = Failed
               /\ ~framed /\ c.option = "true" /\ ~(L > limits.maxInputBytes) => Expected(c) = DecryptLegacy(c.input, limits)
  <1> DEFINE limits == PluginLimits(c.limits)
             seq == c.input
             L == Len(c.input)
             framed == c.input # <<>> /\ c.input[1] = MAGIC[1]
             header == Window(seq, 0, 3)
             frames == DecryptFrames(Window(seq, 3, L - 3), header, limits)
             e == Expected(c)
  <1>1. e = DecryptBuffer(seq, c.option, limits)
    BY Zenon DEF Expected
  <1>2. seq \in Seq(Range(c.input)) /\ L \in Nat
    BY Sequences
  <1>3. Take(seq, 3) = header /\ Drop(seq, 3) = Window(seq, 3, L - 3)
    <2>1. 0 + 1 = 1 /\ 0 + 3 = 3 /\ 3 + (L - 3) = L
      BY <1>2
    <2>2. QED
      BY <2>1 DEF Take, Drop, Window
  <1>4. e = IF L > limits.maxInputBytes THEN Failed
            ELSE IF ~framed THEN IF c.option # "true" THEN Failed ELSE DecryptLegacy(seq, limits)
            ELSE IF L < 3 \/ ~ValidHeader(header, limits) THEN Failed
            ELSE frames
    <2>1. GLOBAL_HEADER_LENGTH = 3
      BY DEF GLOBAL_HEADER_LENGTH
    <2>2. QED
      BY <1>1, <1>3, <2>1, Zenon DEF DecryptBuffer
  <1>5. DecryptLegacy(<<>>, limits) = Failed
    BY DEF DecryptLegacy, LEGACY_HEADER_LENGTH, TAG_LENGTH
  <1>6. FormatRefused(c) => L >= 3 /\ (~ValidHeader(header, limits) \/ frames = Failed)
    BY DEF FormatRefused, FramesRefused
  <1> HIDE DEF frames, header, limits, e
  <1>7. L > limits.maxInputBytes => e = Failed
    BY <1>4
  <1>8. framed /\ (L < 3 \/ FormatRefused(c)) => e = Failed
    BY <1>4, <1>6
  <1>9. framed /\ ~(L > limits.maxInputBytes) /\ L >= 3 /\ ValidHeader(header, limits) => e = frames
    BY <1>2, <1>4
  <1>10. seq = <<>> => e = Failed
    BY <1>4, <1>5
  <1>11. ~framed /\ c.option # "true" => e = Failed
    BY <1>4
  <1>12. ~framed /\ c.option = "true" /\ ~(L > limits.maxInputBytes) => e = DecryptLegacy(seq, limits)
    BY <1>4
  <1>13. QED
    BY <1>7, <1>8, <1>9, <1>10, <1>11, <1>12, Zenon DEF frames, header, limits, e

\* The stream behind the first m bytes.
Pace(c, s, m) ==
    /\ s.totalInput = m /\ m <= PluginLimits(c.limits).maxInputBytes /\ ~s.failed
    /\ IF m = 0 THEN /\ s.format = "unknown" /\ InHeader(c, s, <<>>, 0) /\ s.dataFrames = 0 /\ s.legacyChunks = <<>>
       ELSE IF c.input[1] = MAGIC[1] THEN s.format = "framed" /\ Follows(c, s, <<>>, m)
       ELSE s.format = "legacy" /\ c.option # "false" /\ s.legacyChunks = Window(c.input, 0, m)

\* transform() with the next n bytes.
LEMMA DecryptTransformed ==
    ASSUME NEW c \in Cases, c.kind = "decrypt", Decided(c), NEW s, NEW m \in Nat, NEW n \in Nat,
           m + n <= Len(c.input), DecryptSafe(s), Pace(c, s, m)
    PROVE  LET t == DecryptTransform(s, Window(c.input, m, n), c.option, PluginLimits(c.limits))
           IN  (~t.failed /\ Pace(c, t, m + n)) \/ (t.failed /\ Expected(c) = Failed)
  <1> DEFINE chunk  == Window(c.input, m, n)
             R      == Range(c.input)
             seq    == c.input
             e      == m + n
             limits == PluginLimits(c.limits)
             allow  == c.option
             format == IF s.format # "unknown" THEN s.format
                       ELSE IF chunk[1] = MAGIC[1] THEN "framed" ELSE "legacy"
             read   == [s EXCEPT !.totalInput = s.totalInput + Len(chunk)]
             kept   == [read EXCEPT !.format = format, !.legacyChunks = read.legacyChunks \o chunk]
             framed == [read EXCEPT !.format = format]
             t      == DecryptTransform(s, chunk, allow, limits)
             large  == Len(chunk) > limits.maxInputBytes - s.totalInput
             barred == s.format = "unknown" /\ format = "legacy" /\ allow = "false"
  <1>0. /\ seq \in Seq(R) /\ Len(seq) \in Nat /\ chunk \in Seq(R) /\ Len(chunk) = n
        /\ n > 0 => chunk[1] = seq[m + 1]
        /\ e \in Nat /\ e <= Len(seq) /\ limits.maxInputBytes \in Nat
    <2>1. seq \in Seq(R) /\ Len(seq) \in Nat
      BY Sequences
    <2>2. chunk \in Seq(R) /\ Len(chunk) = n /\ \A i \in 1 .. n : chunk[i] = seq[m + i]
      <3>1. seq \in Seq(R) /\ m \in Nat /\ n \in Nat /\ m + n <= Len(seq)
        BY <2>1
      <3> HIDE DEF seq, R
      <3>2. Window(seq, m, n) \in Seq(R) /\ Len(Window(seq, m, n)) = n /\ \A i \in 1 .. n : Window(seq, m, n)[i] = seq[m + i]
        BY <3>1, WindowElements, Zenon
      <3>3. QED
        BY <3>2, Zenon DEF seq
    <2>3. limits.maxInputBytes \in Nat
      BY PluginLimitsTyped
    <2> HIDE DEF chunk, limits
    <2>4. n > 0 => chunk[1] = seq[m + 1]
      BY <2>2
    <2>5. e \in Nat /\ e <= Len(seq)
      OBVIOUS
    <2>6. QED
      BY <2>1, <2>2, <2>3, <2>4, <2>5
  <1>1. t = IF large THEN DecryptError(s) ELSE IF chunk = <<>> THEN read
            ELSE IF barred THEN DecryptError(read)
            ELSE IF format = "legacy" THEN kept ELSE ConsumeFramed(framed, chunk, limits)
    BY Zenon DEF DecryptTransform
  <1>2. /\ DecryptSafe(read) /\ DecryptSafe(framed) /\ read.failed = s.failed /\ framed.failed = s.failed
        /\ read.out = s.out /\ read.format = s.format /\ read.legacyChunks = s.legacyChunks
        /\ read.globalHeader = s.globalHeader /\ read.frameHeader = s.frameHeader
        /\ read.frameBody = s.frameBody /\ read.expected = s.expected /\ read.finalSeen = s.finalSeen
        /\ read.dataFrames = s.dataFrames /\ read.totalInput = s.totalInput + Len(chunk)
        /\ framed.globalHeader = s.globalHeader /\ framed.frameHeader = s.frameHeader
        /\ framed.frameBody = s.frameBody /\ framed.expected = s.expected /\ framed.finalSeen = s.finalSeen
        /\ framed.out = s.out /\ framed.format = format /\ framed.dataFrames = s.dataFrames
        /\ framed.totalInput = s.totalInput + Len(chunk)
        /\ kept.failed = s.failed /\ kept.format = format
        /\ kept.legacyChunks = s.legacyChunks \o chunk /\ kept.totalInput = s.totalInput + Len(chunk)
    <2> HIDE DEF format, chunk
    <2>1. QED
      BY DEF DecryptSafe, DecryptFields
  <1>3. s.totalInput = m /\ m <= limits.maxInputBytes /\ ~s.failed
    BY DEF Pace
  <1> HIDE DEF chunk, R, seq, limits
  <1>4. chunk = <<>> <=> n = 0
    BY <1>0, EmptySeq
  <1> HIDE DEF read, kept, framed, t
  <1>5. DecryptError(s).failed /\ DecryptError(read).failed
    BY <1>2, ErrorKeepsOutput
  <1>6. ~large => e <= limits.maxInputBytes
    BY <1>0, <1>3
  <1>7. CASE large
    <2>1. Len(seq) > limits.maxInputBytes
      BY <1>0, <1>3, <1>7
    <2>2. Expected(c) = Failed
      BY <2>1, DecryptForms DEF seq, limits
    <2>3. QED
      BY <1>1, <1>5, <1>7, <2>2 DEF t, chunk, limits
  <1>8. CASE ~large /\ chunk = <<>>
    <2>1. t = read /\ e = m
      BY <1>1, <1>4, <1>8
    <2>2. \A x, r, i : Abreast(c, s, i) /\ Within(c, s, r, x, i) => Abreast(c, read, i) /\ Within(c, read, r, x, i)
      BY <1>2 DEF Abreast, Within
    <2>3. \A x : InHeader(c, s, <<>>, x) => InHeader(c, read, <<>>, x)
      BY <1>2 DEF InHeader
    <2>4. \A x : Follows(c, s, <<>>, x) => Follows(c, read, <<>>, x)
      BY <1>2, <2>2, <2>3 DEF Follows
    <2>5. read.totalInput = e
      BY <1>0, <1>2, <1>3
    <2>6. Pace(c, read, e)
      <3>1. read.totalInput = m
        BY <2>1, <2>5
      <3>2. IF m = 0 THEN /\ read.format = "unknown" /\ InHeader(c, read, <<>>, 0) /\ read.dataFrames = 0 /\ read.legacyChunks = <<>>
            ELSE IF c.input[1] = MAGIC[1] THEN read.format = "framed" /\ Follows(c, read, <<>>, m)
            ELSE read.format = "legacy" /\ c.option # "false" /\ read.legacyChunks = Window(c.input, 0, m)
        BY <1>2, <2>3, <2>4 DEF Pace
      <3>3. Pace(c, read, m)
        BY <1>2, <1>3, <3>1, <3>2 DEF Pace, limits
      <3>4. QED
        BY <2>1, <3>3
    <2>7. QED
      BY <1>2, <1>3, <2>1, <2>6 DEF t, chunk, limits
  <1>9. CASE ~large /\ chunk # <<>>
    <2>1. n # 0 /\ e # 0 /\ n \in Nat
      BY <1>0, <1>4, <1>9
    <2>2. m = 0 => s.format = "unknown" /\ chunk[1] = seq[1]
      <3>1. n > 0
        BY <2>1
      <3>2. m = 0 => chunk[1] = seq[1]
        BY <1>0, <3>1
      <3>3. QED
        BY <3>2 DEF Pace
    <2>3. format = IF seq[1] = MAGIC[1] THEN "framed" ELSE "legacy"
      BY <2>2 DEF Pace, seq
    <2>4. seq # <<>>
      BY <1>0, <2>1, EmptySeq
    <2>5. CASE seq[1] = MAGIC[1]
      <3>1. format = "framed" /\ t = ConsumeFramed(framed, chunk, limits)
        BY <1>1, <1>9, <2>3, <2>5
      <3>2. Follows(c, s, <<>>, m)
        BY <2>5 DEF Pace, Follows, seq
      <3>3. Follows(c, framed, <<>>, m)
        <4>1. \A x, r, i : Abreast(c, s, i) /\ Within(c, s, r, x, i) => Abreast(c, framed, i) /\ Within(c, framed, r, x, i)
          BY <1>2 DEF Abreast, Within
        <4>2. \A x : InHeader(c, s, <<>>, x) => InHeader(c, framed, <<>>, x)
          BY <1>2 DEF InHeader
        <4>3. QED
          BY <1>2, <3>2, <4>1, <4>2 DEF Follows
      <3>4. /\ t.format = framed.format /\ t.totalInput = framed.totalInput
            /\ (~t.failed /\ Follows(c, t, <<>>, e)) \/ (t.failed /\ FormatRefused(c))
        <4>1. DecryptSafe(framed) /\ ~framed.failed
          BY <1>2, <1>3
        <4> DEFINE u == ConsumeFramed(framed, Window(c.input, m, n), PluginLimits(c.limits))
        <4>2. /\ u.format = framed.format /\ u.totalInput = framed.totalInput
              /\ (~u.failed /\ Follows(c, u, <<>>, m + n)) \/ (u.failed /\ FormatRefused(c))
          BY <3>3, <4>1, ConsumeFollows
        <4>3. t = u
          BY <3>1 DEF chunk, limits
        <4> HIDE DEF u
        <4>4. QED
          BY <4>2, <4>3
      <3>5. CASE ~t.failed /\ Follows(c, t, <<>>, e)
        <4>1. t.format = "framed" /\ t.totalInput = e
          BY <1>0, <1>2, <1>3, <3>1, <3>4
        <4>2. Pace(c, t, e)
          BY <1>6, <1>9, <2>1, <2>5, <3>5, <4>1 DEF Pace, limits, seq
        <4>3. QED
          BY <3>5, <4>2, Zenon DEF t, chunk, limits
      <3>6. CASE t.failed /\ FormatRefused(c)
        <4>1. Expected(c) = Failed
          BY <2>4, <2>5, <3>6, DecryptForms DEF seq
        <4>2. QED
          BY <3>6, <4>1, Zenon DEF t, chunk, limits
      <3>7. QED
        BY <3>4, <3>5, <3>6
    <2>6. CASE seq[1] # MAGIC[1]
      <3>1. format = "legacy" /\ t = IF barred THEN DecryptError(read) ELSE kept
        BY <1>1, <1>9, <2>3, <2>6
      <3>2. CASE barred
        <4>1. Expected(c) = Failed
          BY <2>6, <3>2, DecryptForms DEF seq
        <4>2. QED
          BY <1>5, <3>1, <3>2, <4>1, Zenon DEF t, chunk, limits
      <3>3. CASE ~barred
        <4>1. t = kept
          BY <3>1, <3>3
        <4>2. c.option # "false"
          BY <2>2, <2>6, <3>1, <3>3 DEF Pace, seq
        <4>3. s.legacyChunks = Window(seq, 0, m)
          <5>1. CASE m = 0
            <6>1. Window(seq, 0, 0) = <<>>
              BY <1>0, WindowEnds
            <6>2. QED
              BY <5>1, <6>1 DEF Pace
          <5>2. CASE m # 0
            BY <2>6, <5>2 DEF Pace, seq
          <5>3. QED
            BY <5>1, <5>2
        <4>4. Window(seq, 0, m) \o Window(seq, m, n) = Window(seq, 0, e)
          <5> DEFINE o == 0
          <5>1. seq \in Seq(R) /\ o \in Nat /\ m \in Nat /\ n \in Nat /\ o + m + n <= Len(seq) /\ o + m = m
            BY <1>0
          <5> HIDE DEF o, e
          <5>2. Window(seq, o, m) \o Window(seq, o + m, n) = Window(seq, o, m + n)
            BY <5>1, WindowJoin
          <5>3. QED
            BY <5>1, <5>2 DEF o, e
        <4>5. kept.legacyChunks = Window(seq, 0, e) /\ kept.format = "legacy" /\ kept.totalInput = e /\ ~kept.failed
          BY <1>0, <1>2, <1>3, <3>1, <4>3, <4>4 DEF chunk, seq
        <4>6. Pace(c, kept, e)
          BY <1>6, <1>9, <2>1, <2>6, <4>2, <4>5 DEF Pace, limits, seq
        <4>7. QED
          BY <4>1, <4>5, <4>6, Zenon DEF t, chunk, limits
      <3>4. QED
        BY <3>2, <3>3
    <2>7. QED
      BY <2>5, <2>6
  <1>10. QED
    BY <1>7, <1>8, <1>9

\* What decryptBuffer makes of the frames, when the stream has read them all.
LEMMA FramesRead ==
    ASSUME NEW c \in Cases, c.kind = "decrypt", NEW s, NEW q, Abreast(c, s, q), Within(c, s, <<>>, Len(c.input), q)
    PROVE  IF s.frameHeader = <<>> /\ s.finalSeen
           THEN DecryptFrames(Window(c.input, 3, Len(c.input) - 3), Window(c.input, 0, 3), PluginLimits(c.limits)) = Result(s.out)
           ELSE FramesRefused(c)
  <1> DEFINE R == Range(c.input)
             seq == c.input
             L == Len(c.input)
             N == L - 3
             f == Opened(c)
             j == s.expected
             h == Len(s.frameHeader)
             b == Len(s.frameBody)
             p == q + h + b
             data == Window(seq, 3, N)
             header == Window(seq, 0, 3)
             limits == PluginLimits(c.limits)
             frames == DecryptFrames(data, header, limits)
  <1>1. /\ At(c, j, q, s.out) /\ s.finalSeen = f[j].finalSeen /\ L >= 3
        /\ j \in Nat /\ q \in Nat /\ 3 + j <= q /\ q <= L
        /\ f[j].data = Window(seq, q, L - q) /\ f[j].finalSeen \in BOOLEAN /\ f[j].plaintext = s.out /\ f[j].failed = FALSE
    BY DEF Abreast, At
  <1>2. /\ h \in Nat /\ h <= 2 /\ b \in Nat /\ p <= L /\ <<>> = Window(seq, p, L - p)
        /\ s.frameHeader = Window(seq, q, h)
        /\ h < 2 => b = 0
        /\ h = 2 => ~s.finalSeen /\ Announced(c, j, q, s.out) /\ b < BytesAt(c, q) + 2
        /\ s.finalSeen => h = 0
    BY DEF Within
  <1>3. seq \in Seq(R) /\ L \in Nat /\ L = Len(seq)
    BY Sequences
  <1>4. N \in Nat /\ Opens(f, data, header, limits) /\ Len(data) = N
    BY <1>1, OpenedRuns
  <1> HIDE DEF R, seq, L, f, j, h, b, data, header, limits
  <1>5. p = L
    <2>1. p \in Nat
      BY <1>1, <1>2
    <2> HIDE DEF p
    <2>2. QED
      BY <1>2, <1>3, <2>1, EmptyWindow
  <1>6. s.frameHeader = <<>> <=> h = 0
    <2>1. h = 0 => s.frameHeader = <<>>
      <3>1. q \in 0 .. Len(seq)
        BY <1>1, <1>3
      <3>2. Window(seq, q, 0) = <<>>
        BY <1>3, <3>1, WindowEnds
      <3>3. QED
        BY <1>2, <3>2
    <2>2. s.frameHeader = <<>> => h = 0
      BY DEF h
    <2>3. QED
      BY <2>1, <2>2
  <1>7. CASE h = 0
    <2>1. q = L /\ j \in 0 .. N
      BY <1>1, <1>2, <1>3, <1>5, <1>7
    <2>2. f[j].data = <<>>
      <3>1. q \in 0 .. Len(seq) /\ L - q = 0
        BY <1>1, <1>3, <2>1
      <3>2. Window(seq, q, 0) = <<>>
        BY <1>3, <3>1, WindowEnds
      <3>3. QED
        BY <1>1, <3>1, <3>2
    <2> HIDE DEF N
    <2>3. PICK x : IsRun(f, "buffer", x, header, limits, N)
      BY <1>4, Zenon DEF Opens
    <2>4. f[N] = f[j]
      BY <1>4, <2>1, <2>2, <2>3, BufferStops
    <2>5. frames = IF f[N].failed \/ ~f[N].finalSeen THEN Failed ELSE Result(f[N].plaintext)
      BY <1>4, Zenon DEF Opens
    <2>6. frames = IF ~s.finalSeen THEN Failed ELSE Result(s.out)
      BY <1>1, <2>4, <2>5
    <2> HIDE DEF frames
    <2>7. CASE s.finalSeen
      BY <1>6, <1>7, <2>6, <2>7 DEF frames, data, header, limits, seq, N, L
    <2>8. CASE ~s.finalSeen
      <3>1. frames = Failed
        BY <2>6, <2>8
      <3>2. FramesRefused(c)
        BY <3>1 DEF frames, data, header, limits, seq, N, L, FramesRefused
      <3>3. QED
        BY <2>8, <3>2
    <2>9. QED
      BY <2>7, <2>8
  <1>8. CASE h = 1
    <2>1. b = 0 /\ q < L /\ L - q < 2
      BY <1>1, <1>2, <1>3, <1>5, <1>8
    <2>2. FramesRefused(c)
      <3>1. Len(c.input) >= 3 /\ q < Len(c.input) /\ Len(c.input) - q < 2
        BY <1>1, <2>1 DEF L
      <3>2. QED
        BY <1>1, <3>1, BufferRefuses
    <2>3. QED
      BY <1>6, <1>8, <2>2
  <1>9. CASE h = 2
    <2>1. ~s.finalSeen /\ Announced(c, j, q, s.out) /\ b < BytesAt(c, q) + 2
      BY <1>2, <1>9
    <2> DEFINE bytes == BytesAt(c, q)
    <2>2. bytes \in Nat
      BY <2>1 DEF Announced
    <2> HIDE DEF bytes
    <2>3. q + 2 <= L /\ q + 2 + bytes + 2 > L
      <3>1. b < bytes + 2
        BY <2>1 DEF bytes
      <3>2. QED
        BY <1>1, <1>2, <1>3, <1>5, <1>9, <2>2, <3>1
    <2>4. FramesRefused(c)
      <3>1. /\ Len(c.input) >= 3 /\ q + 2 <= Len(c.input) /\ ~Opened(c)[j].finalSeen /\ BytesAt(c, q) \in Nat
            /\ FrameAccepted(Window(c.input, q, 2), j, j, Len(s.out), Window(c.input, 0, 3)[3].size, PluginLimits(c.limits))
            /\ q + 2 + BytesAt(c, q) + 2 > Len(c.input)
        BY <1>1, <2>1, <2>2, <2>3 DEF Announced, L, f, bytes
      <3>2. QED
        BY <1>1, <3>1, BufferOpens, Zenon
    <2>5. QED
      BY <1>6, <1>9, <2>4
  <1>10. QED
    BY <1>2, <1>7, <1>8, <1>9

\* flush(): the stream and decryptBuffer agree.
LEMMA DecryptFlushed ==
    ASSUME NEW c \in Cases, c.kind = "decrypt", Decided(c), NEW s, DecryptSafe(s), Pace(c, s, Len(c.input))
    PROVE  LET t == DecryptFlush(s, PluginLimits(c.limits))
           IN  IF t.failed THEN Expected(c) = Failed ELSE Expected(c) = Success(t.out)
  <1> DEFINE R        == Range(c.input)
             seq      == c.input
             L        == Len(c.input)
             limits   == PluginLimits(c.limits)
             restored == DecryptLegacy(s.legacyChunks, limits)
             plain    == [DecryptCleanup(s) EXCEPT !.out = restored.out]
             done     == /\ s.format = "framed" /\ Len(s.globalHeader) = GLOBAL_HEADER_LENGTH
                         /\ s.frameHeader = <<>> /\ s.finalSeen
             t        == DecryptFlush(s, limits)
  <1>1. seq \in Seq(R) /\ L \in Nat /\ L = Len(seq)
    BY Sequences
  <1>2. L <= limits.maxInputBytes /\ ~s.failed /\ limits.maxInputBytes \in Nat
    BY PluginLimitsTyped DEF Pace
  <1>3. ~(L > limits.maxInputBytes)
    BY <1>1, <1>2
  <1>4. DecryptError(s).failed
    BY ErrorKeepsOutput
  <1>5. /\ DecryptCleanup(s).out = s.out /\ plain.out = restored.out
        /\ DecryptCleanup(s).failed = s.failed /\ plain.failed = s.failed
    BY DEF DecryptSafe, DecryptFields, DecryptCleanup
  <1>6. t = IF s.format = "legacy" THEN IF restored.ok THEN plain ELSE DecryptError(s)
            ELSE IF done THEN DecryptCleanup(s) ELSE DecryptError(s)
    BY Zenon DEF DecryptFlush
  <1> HIDE DEF restored, plain, t, limits
  <1>7. CASE L = 0
    <2>1. s.format = "unknown" /\ seq = <<>>
      BY <1>1, <1>7, EmptySeq DEF Pace
    <2>2. t = DecryptError(s)
      BY <1>6, <2>1
    <2>3. Expected(c) = Failed
      BY <2>1, DecryptForms
    <2>4. QED
      BY <1>4, <2>2, <2>3 DEF t, limits
  <1>8. CASE L # 0 /\ seq[1] = MAGIC[1]
    <2>1. s.format = "framed" /\ Follows(c, s, <<>>, L)
      BY <1>8 DEF Pace
    <2>2. seq # <<>>
      BY <1>8
    <2>3. CASE InHeader(c, s, <<>>, L)
      <3> DEFINE p == Len(s.globalHeader)
      <3>1. p \in Nat /\ p <= 2 /\ p <= L /\ <<>> = Window(seq, p, L - p)
        BY <2>3 DEF InHeader
      <3> HIDE DEF p, seq, R, L
      <3>2. p # 3
        BY <3>1
      <3>8. ~done
        BY <3>2, Zenon DEF GLOBAL_HEADER_LENGTH, p
      <3>3. p = L
        <4>1. seq \in Seq(R) /\ p \in Nat /\ L \in Nat /\ p <= L /\ L <= Len(seq)
          BY <1>1, <3>1
        <4>2. Window(seq, p, L - p) = <<>> => p = L
          BY <4>1, EmptyWindow
        <4>3. QED
          BY <3>1, <4>2
      <3>4. L < 3
        BY <3>1, <3>3
      <3>5. Expected(c) = Failed
        BY <1>8, <2>2, <3>4, DecryptForms DEF seq, L
      <3>6. t = DecryptError(s)
        BY <1>6, <2>1, <3>8
      <3>7. QED
        BY <1>4, <3>5, <3>6 DEF t, limits
    <2>4. CASE (\E q : Abreast(c, s, q) /\ Within(c, s, <<>>, L, q)) /\ ValidHeader(Window(c.input, 0, 3), PluginLimits(c.limits))
      <3>1. PICK q : Abreast(c, s, q) /\ Within(c, s, <<>>, L, q)
        BY <2>4
      <3> DEFINE frames == DecryptFrames(Window(c.input, 3, Len(c.input) - 3), Window(c.input, 0, 3), PluginLimits(c.limits))
      <3>2. IF s.frameHeader = <<>> /\ s.finalSeen THEN frames = Result(s.out) ELSE FramesRefused(c)
        BY <3>1, FramesRead
      <3>3. L >= 3 /\ s.globalHeader = Window(seq, 0, 3)
        BY <3>1 DEF Abreast
      <3>4. Len(s.globalHeader) = GLOBAL_HEADER_LENGTH
        <4>1. Len(Window(seq, 0, 3)) = 3
          BY <1>1, <3>3 DEF Window
        <4> HIDE DEF seq
        <4>2. Len(s.globalHeader) = 3
          BY <3>3, <4>1, Zenon
        <4>3. QED
          BY <4>2 DEF GLOBAL_HEADER_LENGTH
      <3> HIDE DEF frames
      <3>5. CASE s.frameHeader = <<>> /\ s.finalSeen
        <4>1. Expected(c) = frames
          BY <1>3, <1>8, <2>2, <2>4, <3>3, DecryptForms DEF frames, limits
        <4>2. frames = Result(s.out) /\ t = DecryptCleanup(s)
          BY <1>6, <2>1, <3>2, <3>4, <3>5
        <4>3. ~t.failed /\ t.out = s.out
          BY <1>2, <1>5, <4>2
        <4>4. Expected(c) = Success(t.out)
          BY <4>1, <4>2, <4>3 DEF Success, Result
        <4>5. QED
          BY <4>3, <4>4 DEF t, limits
      <3>6. CASE ~(s.frameHeader = <<>> /\ s.finalSeen)
        <4>1. FormatRefused(c)
          BY <3>2, <3>3, <3>6 DEF FormatRefused
        <4>2. Expected(c) = Failed
          BY <1>8, <2>2, <4>1, DecryptForms
        <4>3. t = DecryptError(s)
          BY <1>6, <2>1, <3>6
        <4>4. QED
          BY <1>4, <4>2, <4>3 DEF t, limits
      <3>7. QED
        BY <3>5, <3>6
    <2>5. QED
      BY <2>1, <2>3, <2>4 DEF Follows
  <1>9. CASE L # 0 /\ seq[1] # MAGIC[1]
    <2>1. s.format = "legacy" /\ c.option # "false" /\ s.legacyChunks = Window(seq, 0, L)
      BY <1>9 DEF Pace
    <2>2. c.option = "true" /\ s.legacyChunks = seq
      <3>1. seq # <<>> /\ Window(seq, 0, L) = seq
        <4>1. 0 \in 0 .. Len(seq)
          BY <1>1
        <4>2. QED
          BY <1>1, <1>9, <4>1, WindowEnds
      <3>2. QED
        BY <1>9, <2>1, <3>1 DEF Decided
    <2>3. Expected(c) = restored
      BY <1>3, <1>9, <2>2, DecryptForms DEF restored, limits
    <2>4. restored = Failed \/ \E x : restored = Result(x)
      BY Zenon DEF DecryptLegacy, restored
    <2>5. t = IF restored.ok THEN plain ELSE DecryptError(s)
      BY <1>6, <2>1
    <2>6. CASE restored = Failed
      <3>1. ~restored.ok
        BY <2>6 DEF Failed
      <3>2. QED
        BY <1>4, <2>3, <2>5, <2>6, <3>1 DEF t, limits
    <2>7. CASE \E x : restored = Result(x)
      <3>1. PICK x : restored = Result(x)
        BY <2>7
      <3>2. restored.ok /\ restored.out = x
        BY <3>1 DEF Result
      <3>3. t = plain /\ t.out = x /\ ~t.failed
        BY <1>2, <1>5, <2>5, <3>2
      <3>4. Expected(c) = Success(t.out)
        BY <2>3, <3>1, <3>3 DEF Success, Result
      <3>5. QED
        BY <3>3, <3>4 DEF t, limits
    <2>8. QED
      BY <2>4, <2>6, <2>7
  <1>10. QED
    BY <1>7, <1>8, <1>9

(***************************************************************************)
(* The invariant of decryption against decryptBuffer.                      *)
(***************************************************************************)
PaceInv ==
    case.kind = "decrypt" /\ Decided(case) =>
        /\ phase = "open" => Pace(case, st, taken)
        /\ phase = "failed" => Expected(case) = Failed
        /\ phase = "ok" => Expected(case) = Success(st.out)

\* It holds at every moment.
LEMMA PaceInvariant ==
    Spec => []PaceInv
  <1> DEFINE Placed == case \in Cases /\ taken \in Nat /\ taken <= Len(case.input)
             Safe   == case.kind = "decrypt" => DecryptSafe(st)
  <1>1. Init => PaceInv
    <2> SUFFICES ASSUME Init, case.kind = "decrypt", Decided(case)
                 PROVE  Pace(case, st, 0) /\ phase = "open" /\ taken = 0
      BY DEF PaceInv
    <2>1. case \in Cases /\ st = DecryptCreate /\ taken = 0 /\ phase = IF st.failed THEN "failed" ELSE "open"
      BY DecryptCalls DEF Init
    <2>2. /\ st.failed = FALSE /\ st.format = "unknown" /\ st.legacyChunks = <<>> /\ st.globalHeader = <<>>
          /\ st.frameHeader = <<>> /\ st.frameBody = <<>> /\ st.expected = 0 /\ st.out = <<>>
          /\ st.finalSeen = FALSE /\ st.totalInput = 0 /\ st.dataFrames = 0
      BY <2>1 DEF DecryptCreate
    <2>3. Window(case.input, 0, 0) = <<>> /\ Len(<<>>) = 0
      BY SubSeqEmpty DEF Window
    <2>4. InHeader(case, st, <<>>, 0)
      <3>1. Len(st.globalHeader) = 0 /\ 0 - 0 = 0 /\ 0 \in Nat /\ 0 <= 2 /\ 0 <= 0
        BY <2>2, <2>3
      <3>2. QED
        BY <2>2, <2>3, <3>1 DEF InHeader
    <2>5. 0 <= PluginLimits(case.limits).maxInputBytes
      BY <2>1, PluginLimitsTyped
    <2>6. Pace(case, st, 0)
      BY <2>2, <2>4, <2>5 DEF Pace
    <2>7. QED
      BY <2>1, <2>2, <2>6
  <1>2. Placed /\ Safe /\ PaceInv /\ [Next]_vars => PaceInv'
    <2> SUFFICES ASSUME Placed, Safe, PaceInv, [Next]_vars, case.kind = "decrypt", Decided(case)
                 PROVE  PaceInv'
      BY DEF PaceInv, Next, Write, End, TaskSettles, Destroy, Abort, vars
    <2>0. /\ case' = case /\ case \in Cases /\ taken \in Nat /\ taken <= Len(case.input) /\ DecryptSafe(st)
          /\ phase = "open" => Pace(case, st, taken)
      <3>1. case' = case
        BY DEF Next, Write, End, TaskSettles, Destroy, Abort, vars
      <3>2. QED
        BY <3>1 DEF PaceInv
    <2>1. ASSUME NEW n \in 0 .. Len(case.input), Write(n) PROVE PaceInv'
      <3> DEFINE limits == PluginLimits(case.limits)
      <3>1. /\ st' = Transform(case, st, Window(case.input, taken, n)) /\ taken' = taken + n
            /\ phase' = IF st'.failed THEN "failed" ELSE "open"
            /\ phase = "open" /\ taken + n <= Len(case.input) /\ n \in Nat
        BY <2>1 DEF Write, Window
      <3>2. st' = DecryptTransform(st, Window(case.input, taken, n), case.option, PluginLimits(case.limits))
        BY <2>0, <3>1, DecryptCalls
      <3>3. (~st'.failed /\ Pace(case, st', taken + n)) \/ (st'.failed /\ Expected(case) = Failed)
        BY <2>0, <3>1, <3>2, DecryptTransformed
      <3>4. QED
        BY <2>0, <3>1, <3>3 DEF PaceInv
    <2>2. ASSUME End PROVE PaceInv'
      <3>1. /\ st' = Flush(case, st) /\ phase = "open" /\ taken = Len(case.input)
            /\ phase' = IF st'.failed THEN "failed" ELSE "ok"
        BY <2>2 DEF End
      <3>2. st' = DecryptFlush(st, PluginLimits(case.limits))
        BY <2>0, <3>1, DecryptCalls
      <3>3. Pace(case, st, Len(case.input))
        BY <2>0, <3>1
      <3>4. IF st'.failed THEN Expected(case) = Failed ELSE Expected(case) = Success(st'.out)
        BY <2>0, <3>2, <3>3, DecryptFlushed
      <3>5. QED
        BY <2>0, <3>1, <3>4 DEF PaceInv
    <2>3. ASSUME Destroy PROVE PaceInv'
      BY <2>3 DEF Destroy, PaceInv
    <2>4. CASE UNCHANGED vars
      BY <2>4 DEF PaceInv, vars
    <2>5. ASSUME NEW fulfilled \in BOOLEAN PROVE ~TaskSettles(fulfilled) /\ ~Abort
      BY DEF TaskSettles, Abort, Busy, Worker
    <2>6. QED
      BY <2>1, <2>2, <2>3, <2>4, <2>5 DEF Next
  <1>3. SecretInv /\ BufferInv => Placed /\ Safe
    BY DEF SecretInv, BufferInv, KindSafe
  <1>4. QED
    BY <1>1, <1>2, <1>3, SecretInvariant, BufferInvariant, PTL DEF Spec

\* A decrypting stream: wherever the chunks end, the stream succeeds exactly
\* when decryptBuffer does and with the same bytes, for every input and limit,
\* damaged ones included.  Excepted is only a packet of the legacy format for
\* which the option was left out: there the two differ (LegacyNeedsConsent).
THEOREM DecryptionFragmentation ==
    Spec => [](case.kind = "decrypt" /\ Decided(case) => FragmentationInvisible)
  <1>1. PaceInv => (case.kind = "decrypt" /\ Decided(case) => FragmentationInvisible)
    <2>1. Failed.ok = FALSE
      BY DEF Failed
    <2>2. QED
      BY <2>1 DEF PaceInv, FragmentationInvisible
  <1>2. QED
    BY <1>1, PaceInvariant, PTL

(***************************************************************************)
(* Decompression.  What has been released is what the decompressor makes   *)
(* of the payload so far.                                                  *)
(***************************************************************************)

\* A decompressor takes one byte after the other.
LEMMA InflateLoop ==
    ASSUME NEW payload, NEW type, type # "none", Len(payload) \in Nat
    PROVE  \E f : /\ IsRun(f, "inflate", <<>>, payload, payload, Len(payload))
                  /\ Inflated(payload, type) = f[Len(payload)]
  <1> DEFINE N    == Len(payload)
             G(f) == [n \in 0 .. N |-> IF n = 0 THEN <<>> ELSE Inflate(f[n - 1], payload[n])]
  <1>1. Inflated(payload, type) = (CHOOSE f : f = G(f))[N]
    BY DEF Inflated
  <1>2. \A f : f = G(f) <=> IsRun(f, "inflate", <<>>, payload, payload, N)
    <2> TAKE f
    <2>1. \A n \in 1 .. N : Turn("inflate", n, f[n - 1], payload, payload) = Inflate(f[n - 1], payload[n])
      BY DEF Turn
    <2>2. ASSUME f = G(f) PROVE IsRun(f, "inflate", <<>>, payload, payload, N)
      <3>1. \A n \in 0 .. N : f[n] = IF n = 0 THEN <<>> ELSE Inflate(f[n - 1], payload[n])
        BY <2>2
      <3>2. f[0] = <<>> /\ \A n \in 1 .. N : f[n] = Inflate(f[n - 1], payload[n])
        BY <3>1
      <3>3. f = [n \in 0 .. N |-> f[n]]
        BY <2>2
      <3>4. QED
        BY <2>1, <3>2, <3>3 DEF IsRun
    <2>3. ASSUME IsRun(f, "inflate", <<>>, payload, payload, N) PROVE f = G(f)
      <3>1. f[0] = <<>> /\ \A n \in 1 .. N : f[n] = Inflate(f[n - 1], payload[n])
        BY <2>1, <2>3 DEF IsRun
      <3>2. \A n \in 0 .. N : f[n] = IF n = 0 THEN <<>> ELSE Inflate(f[n - 1], payload[n])
        BY <3>1
      <3>3. f = [n \in 0 .. N |-> f[n]]
        BY <2>3 DEF IsRun
      <3>4. QED
        BY <3>2, <3>3
    <2>4. QED
      BY <2>2, <2>3
  <1>3. \E f : f = G(f)
    BY <1>2, Iteration
  <1>4. PICK f : f = G(f) /\ Inflated(payload, type) = f[N]
    BY <1>1, <1>3
  <1>5. QED
    BY <1>2, <1>4

\* From a beginning of the payload it makes what it had after as many turns.
LEMMA InflatedBeginning ==
    ASSUME NEW R, NEW payload \in Seq(R), NEW type, type # "none", NEW m \in 0 .. Len(payload),
           NEW f, IsRun(f, "inflate", <<>>, payload, payload, Len(payload))
    PROVE  Inflated(Window(payload, 0, m), type) = f[m]
  <1> DEFINE part == Window(payload, 0, m)
  <1>1. /\ Len(part) = m /\ m \in Nat
        /\ \A i \in 1 .. m : part[i] = payload[i]
    BY WindowElements
  <1> HIDE DEF part
  <1>2. PICK g : IsRun(g, "inflate", <<>>, part, part, m) /\ Inflated(part, type) = g[m]
    BY <1>1, InflateLoop
  <1> DEFINE P == {n \in Nat : n <= m => g[n] = f[n]}
  <1>3. 0 \in P
    BY <1>2 DEF IsRun
  <1>4. ASSUME NEW n \in 1 .. m, n - 1 \in P PROVE n \in P
    <2>1. n - 1 <= m /\ n \in 1 .. Len(payload) /\ part[n] = payload[n]
      BY <1>1
    <2>2. g[n] = Inflate(g[n - 1], part[n])
      BY <1>2 DEF IsRun, Turn
    <2>3. f[n] = Inflate(f[n - 1], payload[n])
      BY <2>1 DEF IsRun, Turn
    <2>4. g[n - 1] = f[n - 1]
      BY <1>4, <2>1
    <2>5. QED
      BY <2>1, <2>2, <2>3, <2>4
  <1>5. m \in P
    <2> HIDE DEF P
    <2>1. QED
      BY <1>1, <1>3, <1>4, UpTo
  <1>6. QED
    BY <1>1, <1>2, <1>5 DEF part

\* What it makes of a longer beginning begins with what it made of a shorter.
LEMMA InflatedGrows ==
    ASSUME NEW R, NEW payload \in Seq(R), NEW type, NEW m \in Nat, NEW n \in Nat, m <= n, n <= Len(payload)
    PROVE  LET a == Inflated(Window(payload, 0, m), type)
               b == Inflated(Window(payload, 0, n), type)
           IN  /\ Len(a) \in Nat /\ Len(b) \in Nat /\ Len(a) <= Len(b)
               /\ a \o SubSeq(b, Len(a) + 1, Len(b)) = b
               /\ Len(SubSeq(b, Len(a) + 1, Len(b))) = Len(b) - Len(a)
  <1> DEFINE a == Inflated(Window(payload, 0, m), type)
             b == Inflated(Window(payload, 0, n), type)
  <1>1. SUFFICES \E S : b \in Seq(S) /\ Len(a) \in Nat /\ Len(a) <= Len(b) /\ a = SubSeq(b, 1, Len(a))
    <2> HIDE DEF a, b
    <2>1. PICK S : b \in Seq(S) /\ Len(a) \in Nat /\ Len(a) <= Len(b) /\ a = SubSeq(b, 1, Len(a))
      BY <1>1
    <2> DEFINE l == Len(a)
    <2>2. b \in Seq(S) /\ l \in Nat /\ l <= Len(b) /\ a = SubSeq(b, 1, l) /\ Len(b) \in Nat
      BY <2>1
    <2> HIDE DEF l
    <2>3. Len(SubSeq(b, l + 1, Len(b))) = Len(b) - l
      BY <2>2
    <2>4. SubSeq(b, 1, l) \o SubSeq(b, l + 1, Len(b)) = SubSeq(b, 1, Len(b))
      <3>1. 1 \in 1 .. Len(b) + 1 /\ l \in 1 - 1 .. Len(b) /\ Len(b) \in l .. Len(b)
        BY <2>2
      <3>2. QED
        BY <2>2, <3>1, ConcatAdjacentSubSeq
    <2>5. SubSeq(b, 1, Len(b)) = b
      BY <2>2, SubSeqFull
    <2>6. QED
      BY <2>2, <2>3, <2>4, <2>5 DEF l, a, b
  <1>2. CASE type = "none"
    <2>1. a = Window(payload, 0, m) /\ b = Window(payload, 0, n)
      BY <1>2 DEF Inflated
    <2>2. Window(payload, 0, n) \in Seq(R) /\ Len(Window(payload, 0, n)) = n /\ Len(Window(payload, 0, m)) = m
      BY WindowElements
    <2>3. SubSeq(Window(payload, 0, n), 1, m) = Window(payload, 0, m)
      BY DEF Window
    <2> HIDE DEF a, b
    <2>4. QED
      BY <2>1, <2>2, <2>3
  <1>3. CASE type # "none"
    <2> DEFINE N == Len(payload)
               S == {payload[i].v : i \in 1 .. N}
    <2>0. N \in Nat
      OBVIOUS
    <2>1. PICK f : IsRun(f, "inflate", <<>>, payload, payload, N)
      BY <2>0, Iteration
    <2>2. a = f[m] /\ b = f[n]
      <3>1. m \in 0 .. Len(payload) /\ n \in 0 .. Len(payload)
        OBVIOUS
      <3>2. IsRun(f, "inflate", <<>>, payload, payload, Len(payload))
        BY <2>1
      <3>3. a = f[m]
        BY <1>3, <3>1, <3>2, InflatedBeginning
      <3>4. b = f[n]
        BY <1>3, <3>1, <3>2, InflatedBeginning
      <3>5. QED
        BY <3>3, <3>4
    <2>3. /\ f[0] = <<>>
          /\ \A i \in 1 .. N : f[i] = Inflate(f[i - 1], payload[i]) /\ payload[i].v \in S
      BY <2>1 DEF IsRun, Turn
    <2> HIDE DEF a, b, N, S
    <2> DEFINE T == {i \in Nat : f[i] \in Seq(S)}
    <2>4. \A i \in 0 .. N : f[i] \in Seq(S)
      <3>1. 0 \in T
        <4>1. <<>> \in Seq(S)
          OBVIOUS
        <4>2. f[0] \in Seq(S)
          BY <2>3, <4>1
        <4>3. QED
          BY <4>2
      <3>2. ASSUME NEW i \in 1 .. N, i - 1 \in T PROVE i \in T
        <4>1. f[i] = f[i - 1] \/ f[i] = Append(f[i - 1], payload[i].v)
          BY <2>3 DEF Inflate
        <4>2. payload[i].v \in S /\ f[i - 1] \in Seq(S)
          BY <2>3, <3>2
        <4>3. Append(f[i - 1], payload[i].v) \in Seq(S)
          BY <4>2
        <4>4. f[i] \in Seq(S)
          BY <4>1, <4>2, <4>3
        <4>5. QED
          BY <4>4
      <3> HIDE DEF T
      <3>3. \A i \in 0 .. N : i \in T
        BY <2>0, <3>1, <3>2, UpTo DEF N
      <3>4. QED
        BY <3>3 DEF T
    <2> DEFINE l == Len(f[m])
               Q == {i \in Nat : i >= m => l <= Len(f[i]) /\ SubSeq(f[i], 1, l) = f[m]}
    <2>5. f[m] \in Seq(S) /\ l \in Nat /\ SubSeq(f[m], 1, l) = f[m]
      <3>1. f[m] \in Seq(S)
        BY <2>4 DEF N
      <3>2. QED
        BY <3>1, SubSeqFull
    <2> HIDE DEF l
    <2>6. 0 \in Q
      <3>1. 0 >= m => m = 0
        OBVIOUS
      <3>2. QED
        BY <2>5, <3>1 DEF l
    <2>7. ASSUME NEW i \in 1 .. N, i - 1 \in Q PROVE i \in Q
      <3>1. CASE i = m
        BY <2>5, <3>1 DEF l
      <3>2. CASE i < m
        BY <3>2
      <3>3. CASE i > m
        <4>0. i - 1 >= m /\ i - 1 \in 0 .. N
          BY <2>0, <3>3
        <4>1. l <= Len(f[i - 1]) /\ SubSeq(f[i - 1], 1, l) = f[m] /\ f[i - 1] \in Seq(S)
          BY <2>4, <2>7, <4>0
        <4>2. f[i] = f[i - 1] \/ f[i] = Append(f[i - 1], payload[i].v)
          BY <2>3 DEF Inflate
        <4>3. ASSUME NEW x \in Seq(S), NEW v \in S, l <= Len(x)
              PROVE  l <= Len(Append(x, v)) /\ SubSeq(Append(x, v), 1, l) = SubSeq(x, 1, l)
          BY <2>5, <4>3
        <4>4. payload[i].v \in S
          BY <2>3
        <4>5. l <= Len(f[i]) /\ SubSeq(f[i], 1, l) = f[m]
          <5> DEFINE x == f[i - 1]
                     v == payload[i].v
          <5>1. x \in Seq(S) /\ v \in S /\ l <= Len(x) /\ SubSeq(x, 1, l) = f[m] /\ (f[i] = x \/ f[i] = Append(x, v))
            BY <4>1, <4>2, <4>4
          <5> HIDE DEF x, v
          <5>2. QED
            BY <4>3, <5>1
        <4>6. QED
          BY <4>5
      <3>4. QED
        BY <3>1, <3>2, <3>3
    <2> HIDE DEF Q
    <2>8. n \in Q
      <3>1. \A i \in 0 .. N : i \in Q
        BY <2>0, <2>6, <2>7, UpTo DEF N
      <3>2. QED
        BY <3>1 DEF N
    <2>9. l <= Len(f[n]) /\ SubSeq(f[n], 1, l) = f[m] /\ f[n] \in Seq(S)
      BY <2>4, <2>8 DEF Q, N
    <2>10. QED
      BY <2>2, <2>5, <2>9 DEF l
  <1>4. QED
    BY <1>2, <1>3

Compressed(c) == Window(c.input, 1, Len(c.input) - 1)

\* What the first m bytes of a compressed input give.
Restored(c, m) ==
    IF m = 0 THEN <<>> ELSE Inflated(Window(Compressed(c), 0, m - 1), c.input[1].k)

\* The local variables behind the first m bytes.
Inflating(c, s, m) ==
    LET limits == PluginLimits(c.limits)
    IN  /\ DOMAIN s = StreamFields /\ s.failed = FALSE
        /\ s.total = m /\ m <= limits.maxInputBytes /\ s.chunks = Window(c.input, 0, m)
        /\ s.out = Restored(c, m) /\ Len(s.out) \in Nat
        /\ m # 0 => c.input[1].k \in {"none", "gzip"} /\ Len(s.out) <= limits.maxOutputBytes

\* Behind the type byte an input is a sequence.
LEMMA PayloadParts ==
    ASSUME NEW c \in Cases, c.input # <<>>
    PROVE  /\ c.input \in Seq(Range(c.input)) /\ Len(c.input) \in Nat \ {0}
           /\ Compressed(c) \in Seq(Range(c.input)) /\ Len(Compressed(c)) = Len(c.input) - 1
           /\ \A m \in 1 .. Len(c.input) :
                 /\ Window(c.input, 1, m - 1) = Window(Compressed(c), 0, m - 1)
                 /\ Window(c.input, 0, m)[1] = c.input[1]
                 /\ Len(Window(c.input, 0, m)) = m
                 /\ SubSeq(Window(c.input, 0, m), 2, m) = Window(Compressed(c), 0, m - 1)
  <1> DEFINE seq == c.input
             R   == Range(c.input)
  <1>1. seq \in Seq(R) /\ Len(seq) \in Nat
    <2>1. seq \in Seq(R)
      BY CaseAssumption
    <2>2. QED
      BY <2>1
  <1>2. seq # <<>>
    OBVIOUS
  <1> HIDE DEF seq, R
  <1>3. Len(seq) \in Nat \ {0}
    BY <1>1, <1>2
  <1> DEFINE n == Len(seq) - 1
             payload == Window(seq, 1, n)
  <1>4. n \in Nat /\ 1 + n = Len(seq) /\ 1 \in Nat
    BY <1>3
  <1>5. payload \in Seq(R) /\ Len(payload) = n
    <2> HIDE DEF n
    <2>1. 1 + n <= Len(seq)
      BY <1>3, <1>4
    <2>2. Window(seq, 1, n) \in Seq(R) /\ Len(Window(seq, 1, n)) = n
      BY <1>1, <1>4, <2>1, WindowElements
    <2>3. QED
      BY <2>2
  <1>6. ASSUME NEW m \in 1 .. Len(seq)
        PROVE  /\ Window(seq, 1, m - 1) = Window(payload, 0, m - 1)
               /\ Window(seq, 0, m)[1] = seq[1]
               /\ Len(Window(seq, 0, m)) = m
               /\ SubSeq(Window(seq, 0, m), 2, m) = Window(payload, 0, m - 1)
    <2>1. m \in Nat /\ m - 1 \in Nat /\ m - 1 <= n /\ 0 + m <= Len(seq) /\ 1 \in 1 .. m
      BY <1>3
    <2>2. Window(seq, 1, m - 1) = Window(payload, 0, m - 1)
      BY <1>1, <1>4, <2>1 DEF Window
    <2>3. Window(seq, 0, m)[1] = seq[1] /\ Len(Window(seq, 0, m)) = m
      <3>1. Len(Window(seq, 0, m)) = m /\ \A i \in 1 .. m : Window(seq, 0, m)[i] = seq[0 + i]
        BY <1>1, <2>1, WindowElements
      <3>2. QED
        BY <2>1, <3>1
    <2>4. SubSeq(Window(seq, 0, m), 2, m) = Window(seq, 1, m - 1)
      BY <1>1, <2>1 DEF Window
    <2>5. QED
      BY <2>2, <2>3, <2>4
  <1>7. QED
    BY <1>1, <1>3, <1>5, <1>6 DEF seq, R, Compressed

\* A longer beginning gives no less, and begins with the same.
LEMMA RestoredGrows ==
    ASSUME NEW c \in Cases, NEW m \in Nat, NEW n \in Nat, m <= n, n <= Len(c.input)
    PROVE  LET a == Restored(c, m)
               b == Restored(c, n)
           IN  /\ Len(a) \in Nat /\ Len(b) \in Nat /\ Len(a) <= Len(b)
               /\ a \o SubSeq(b, Len(a) + 1, Len(b)) = b
               /\ Len(SubSeq(b, Len(a) + 1, Len(b))) = Len(b) - Len(a)
  <1>1. CASE n = 0
    <2>1. m = 0
      BY <1>1
    <2>2. Restored(c, m) = <<>> /\ Restored(c, n) = <<>>
      BY <1>1, <2>1 DEF Restored
    <2>3. QED
      BY <2>2
  <1>2. CASE n # 0
    <2>1. c.input # <<>>
      <3>1. c.input = <<>> => Len(c.input) = 0
        OBVIOUS
      <3>2. QED
        BY <1>2, <3>1
    <2>2. Compressed(c) \in Seq(Range(c.input)) /\ Len(Compressed(c)) = Len(c.input) - 1 /\ Len(c.input) \in Nat
      BY <2>1, PayloadParts
    <2> DEFINE type    == c.input[1].k
               payload == Compressed(c)
               R       == Range(c.input)
               k       == n - 1
               l       == IF m = 0 THEN 0 ELSE m - 1
    <2>3. k \in Nat /\ l \in Nat /\ l <= k /\ k <= Len(payload) /\ payload \in Seq(R)
      BY <1>2, <2>2
    <2>4. Restored(c, n) = Inflated(Window(payload, 0, k), type)
      BY <1>2 DEF Restored
    <2>5. m # 0 => Restored(c, m) = Inflated(Window(payload, 0, l), type)
      BY DEF Restored
    <2>6. m = 0 => Restored(c, m) = <<>>
      BY DEF Restored
    <2> HIDE DEF k, l, payload, R, type
    <2> DEFINE x == Inflated(Window(payload, 0, l), type)
               y == Inflated(Window(payload, 0, k), type)
    <2>7. /\ Len(x) \in Nat /\ Len(y) \in Nat /\ Len(x) <= Len(y)
          /\ x \o SubSeq(y, Len(x) + 1, Len(y)) = y
          /\ Len(SubSeq(y, Len(x) + 1, Len(y))) = Len(y) - Len(x)
      BY <2>3, InflatedGrows
    <2> HIDE DEF x, y
    <2>8. CASE m # 0
      BY <2>4, <2>5, <2>7, <2>8 DEF x, y
    <2>9. CASE m = 0
      <3>1. l = 0 /\ Window(payload, 0, 0) = <<>>
        BY <2>3, <2>9, WindowEnds DEF l
      <3>2. x = <<>>
        <4>1. CASE type = "none"
          BY <3>1, <4>1 DEF x, Inflated
        <4>2. CASE type # "none"
          <5>1. Len(<<>>) = 0
            OBVIOUS
          <5>2. PICK f : IsRun(f, "inflate", <<>>, <<>>, <<>>, 0) /\ Inflated(<<>>, type) = f[0]
            BY <4>2, <5>1, InflateLoop
          <5>3. f[0] = <<>>
            BY <5>2 DEF IsRun
          <5>4. QED
            BY <3>1, <5>2, <5>3 DEF x
        <4>3. QED
          BY <4>1, <4>2
      <3>3. QED
        BY <2>4, <2>6, <2>7, <2>9, <3>2 DEF y
    <2>10. QED
      BY <2>8, <2>9
  <1>3. QED
    BY <1>1, <1>2

\* The buffer form of decompression, on the same terms.
LEMMA DecompressForm ==
    ASSUME NEW c \in Cases, c.kind = "decompress", c.input # <<>>
    PROVE  LET limits == PluginLimits(c.limits)
           IN  Expected(c) = IF \/ Len(c.input) > limits.maxInputBytes
                                \/ c.input[1].k \notin {"none", "gzip"}
                                \/ ~WholePayload(Compressed(c), c.input[1].k)
                                \/ Len(Restored(c, Len(c.input))) > limits.maxOutputBytes
                             THEN Failure ELSE Success(Restored(c, Len(c.input)))
  <1> DEFINE limits == PluginLimits(c.limits)
             L      == Len(c.input)
             out    == Restored(c, L)
             bad    == \/ L > limits.maxInputBytes \/ c.input[1].k \notin {"none", "gzip"}
                       \/ ~WholePayload(Compressed(c), c.input[1].k) \/ Len(out) > limits.maxOutputBytes
  <1>1. Expected(c) = CompressReverse(c.input, limits)
    BY Zenon DEF Expected
  <1>2. SubSeq(c.input, 2, L) = Compressed(c) /\ L \in Nat \ {0}
    <2>1. L \in Nat \ {0} /\ c.input \in Seq(Range(c.input))
      BY PayloadParts
    <2>2. 1 + 1 = 2 /\ 1 + (L - 1) = L
      BY <2>1
    <2>3. QED
      BY <2>1, <2>2 DEF Compressed, Window
  <1>3. Inflated(Compressed(c), c.input[1].k) = out
    <2>1. Compressed(c) \in Seq(Range(c.input)) /\ Len(Compressed(c)) = L - 1 /\ L # 0 /\ L - 1 \in Nat
      BY <1>2, PayloadParts
    <2>2. Window(Compressed(c), 0, L - 1) = Compressed(c)
      BY <2>1, WindowEnds
    <2>3. QED
      BY <2>1, <2>2 DEF Restored
  <1> HIDE DEF limits, L, out
  <1>4. CompressReverse(c.input, limits) = IF bad THEN Failure ELSE Success(out)
    BY <1>2, <1>3, Zenon DEF CompressReverse, L
  <1>5. QED
    BY <1>1, <1>4 DEF limits, L, out

\* transform() with the next n bytes.
LEMMA DecompressTransformed ==
    ASSUME NEW c \in Cases, c.kind = "decompress", NEW s, NEW m \in Nat, NEW n \in Nat, m + n <= Len(c.input),
           Inflating(c, s, m)
    PROVE  LET t == DecompressTransform(s, Window(c.input, m, n), PluginLimits(c.limits))
           IN  IF t.failed THEN ~Expected(c).ok ELSE Inflating(c, t, m + n)
  <1> DEFINE seq    == c.input
             R      == Range(c.input)
             limits == PluginLimits(c.limits)
             in     == limits.maxInputBytes
             max    == limits.maxOutputBytes
             L      == Len(seq)
             chunk  == Window(seq, m, n)
             e      == m + n
             t      == DecompressTransform(s, chunk, limits)
             type   == seq[1].k
             read   == [s EXCEPT !.total = s.total + Len(chunk), !.chunks = s.chunks \o chunk]
             all    == Inflated(SubSeq(read.chunks, 2, Len(read.chunks)), read.chunks[1].k)
  <1>1. seq \in Seq(R) /\ L \in Nat /\ in \in Nat \ {0} /\ max \in Nat \ {0}
    BY CaseAssumption, PluginLimitsTyped
  <1>2. e \in Nat /\ e <= L /\ m <= e /\ L = Len(seq)
    BY <1>1
  <1>3. /\ DOMAIN s = StreamFields /\ s.failed = FALSE /\ s.total = m /\ m <= in
        /\ s.chunks = Window(seq, 0, m) /\ s.out = Restored(c, m) /\ Len(s.out) \in Nat
        /\ m # 0 => type \in {"none", "gzip"} /\ Len(s.out) <= max
    BY DEF Inflating
  <1>4. Failure.ok = FALSE
    BY DEF Failure
  <1> HIDE DEF seq, R, in, max, L, e
  <1>5. Len(chunk) = n /\ Window(seq, 0, m) \o chunk = Window(seq, 0, e)
    <2>1. m + n <= Len(seq) /\ 0 + m + n <= Len(seq) /\ 0 + m = m /\ 0 \in Nat
      BY <1>2 DEF e
    <2>2. Len(Window(seq, m, n)) = n
      BY <1>1, <2>1, WindowElements
    <2>3. Window(seq, 0, m) \o Window(seq, 0 + m, n) = Window(seq, 0, m + n)
      BY <1>1, <2>1, WindowJoin
    <2>4. QED
      BY <2>1, <2>2, <2>3 DEF e
  <1> HIDE DEF chunk
  <1>6. /\ DOMAIN read = StreamFields /\ read.failed = FALSE /\ read.total = e /\ read.out = s.out
        /\ read.chunks = Window(seq, 0, e)
    BY <1>3, <1>5 DEF StreamFields, e
  <1>7. StreamError(s).failed /\ StreamError(read).failed
    BY <1>3, <1>6 DEF StreamFields, StreamError
  <1>8. t = IF n > in - m THEN StreamError(s)
            ELSE IF read.chunks = <<>> THEN read
            ELSE IF read.chunks[1].k \notin {"none", "gzip"} THEN StreamError(read)
            ELSE PushWithin(read, SubSeq(all, Len(s.out) + 1, Len(all)), limits)
    <2>1. t = IF Len(chunk) > in - s.total THEN StreamError(s)
              ELSE IF read.chunks = <<>> THEN read
              ELSE IF read.chunks[1].k \notin {"none", "gzip"} THEN StreamError(read)
              ELSE PushWithin(read, SubSeq(all, Len(s.out) + 1, Len(all)), limits)
      BY Zenon DEF DecompressTransform, in
    <2>2. Len(chunk) = n /\ s.total = m
      BY <1>3, <1>5
    <2> HIDE DEF t, read, all, in
    <2>3. QED
      BY <2>1, <2>2
  <1> HIDE DEF t, read, all
  <1>9. CASE n > in - m
    <2>1. L > in /\ L # 0
      BY <1>1, <1>2, <1>9 DEF e
    <2>2. seq # <<>>
      <3>1. seq = <<>> => L = 0
        BY DEF L
      <3>2. QED
        BY <2>1, <3>1
    <2>3. Expected(c) = Failure
      BY <2>1, <2>2, DecompressForm, Zenon DEF L, seq, in
    <2>4. t.failed /\ ~Expected(c).ok
      BY <1>4, <1>7, <1>8, <1>9, <2>3
    <2>5. QED
      BY <2>4 DEF t, chunk, seq
  <1>10. CASE ~(n > in - m) /\ e = 0
    <2>1. Window(seq, 0, e) = <<>>
      BY <1>1, <1>10, WindowEnds
    <2>2. t = read
      BY <1>6, <1>8, <1>10, <2>1
    <2>3. m = 0
      BY <1>2, <1>10
    <2>4. Inflating(c, t, e)
      BY <1>1, <1>3, <1>6, <1>10, <2>2, <2>3 DEF Inflating, seq
    <2>5. QED
      BY <1>6, <2>2, <2>4 DEF t, chunk, seq, e
  <1>11. CASE ~(n > in - m) /\ e # 0
    <2>1. e \in 1 .. L /\ e <= in /\ L # 0
      BY <1>1, <1>2, <1>3, <1>11 DEF e
    <2>2. seq # <<>>
      <3>1. seq = <<>> => L = 0
        BY DEF L
      <3>2. QED
        BY <2>1, <3>1
    <2>3. /\ Window(seq, 0, e)[1] = seq[1] /\ Len(Window(seq, 0, e)) = e
          /\ SubSeq(Window(seq, 0, e), 2, e) = Window(Compressed(c), 0, e - 1)
      BY <2>1, <2>2, PayloadParts DEF seq, L
    <2>4. read.chunks # <<>> /\ read.chunks[1].k = type /\ all = Restored(c, e)
      <3>1. Window(seq, 0, e) # <<>>
        <4>1. Window(seq, 0, e) = <<>> => e = 0
          BY <2>3
        <4>2. QED
          BY <1>11, <4>1
      <3>2. Restored(c, e) = Inflated(Window(Compressed(c), 0, e - 1), type)
        BY <1>11 DEF Restored, seq
      <3>3. QED
        BY <1>6, <2>3, <3>1, <3>2 DEF all
    <2>5. CASE type \notin {"none", "gzip"}
      <3>1. Expected(c) = Failure
        BY <2>2, <2>5, DecompressForm, Zenon DEF seq
      <3>2. t.failed /\ ~Expected(c).ok
        BY <1>4, <1>7, <1>8, <1>11, <2>4, <2>5, <3>1
      <3>3. QED
        BY <3>2 DEF t, chunk, seq
    <2>6. CASE type \in {"none", "gzip"}
      <3> DEFINE a    == s.out
                 b    == Restored(c, e)
                 more == SubSeq(b, Len(a) + 1, Len(b))
                 w    == Restored(c, L)
      <3>1. Len(a) \in Nat /\ Len(b) \in Nat /\ a \o more = b /\ Len(more) = Len(b) - Len(a)
        <4>1. LET x == Restored(c, m) IN Len(x) \in Nat /\ Len(b) \in Nat /\ x \o SubSeq(b, Len(x) + 1, Len(b)) = b
                                         /\ Len(SubSeq(b, Len(x) + 1, Len(b))) = Len(b) - Len(x)
          BY <1>2, RestoredGrows DEF seq
        <4>2. QED
          BY <1>3, <4>1
      <3>2. Len(w) \in Nat /\ Len(b) <= Len(w)
        BY <1>1, <1>2, RestoredGrows DEF seq
      <3>3. t = PushWithin(read, more, limits)
        BY <1>8, <1>11, <2>4, <2>6
      <3> HIDE DEF a, b, more, w
      <3>4. read.out = a /\ max = limits.maxOutputBytes
        BY <1>6 DEF a, max
      <3>5. CASE Len(b) > max
        <4>1. Len(more) > max - Len(a)
          BY <1>1, <3>1, <3>5
        <4>2. t = StreamError(read)
          BY <3>3, <3>4, <4>1 DEF PushWithin
        <4>3. Len(w) > max
          BY <1>1, <3>1, <3>2, <3>5
        <4>4. Expected(c) = Failure
          BY <2>2, <4>3, DecompressForm, Zenon DEF seq, w, L, max
        <4>5. t.failed /\ ~Expected(c).ok
          BY <1>4, <1>7, <4>2, <4>4
        <4>6. QED
          BY <4>5 DEF t, chunk, seq
      <3>6. CASE ~(Len(b) > max)
        <4>1. ~(Len(more) > max - Len(a)) /\ Len(b) <= max
          BY <1>1, <3>1, <3>6
        <4>2. t = [read EXCEPT !.out = a \o more]
          BY <1>6, <3>3, <3>4, <4>1 DEF PushWithin
        <4>3. /\ DOMAIN t = StreamFields /\ t.failed = FALSE /\ t.total = e /\ t.out = b
              /\ t.chunks = Window(seq, 0, e)
          BY <1>6, <3>1, <4>2 DEF StreamFields
        <4>4. Inflating(c, t, e)
          BY <2>1, <2>6, <3>1, <4>1, <4>3 DEF Inflating, seq, b, in, max
        <4>5. QED
          BY <4>3, <4>4 DEF t, chunk, seq, e
      <3>7. QED
        BY <3>5, <3>6
    <2>7. QED
      BY <2>5, <2>6
  <1>12. QED
    BY <1>9, <1>10, <1>11

\* flush() behind the last byte.
LEMMA DecompressFlushed ==
    ASSUME NEW c \in Cases, c.kind = "decompress", NEW s, Inflating(c, s, Len(c.input))
    PROVE  LET t == DecompressFlush(s)
           IN  IF t.failed THEN ~Expected(c).ok ELSE Expected(c) = Success(t.out)
  <1> DEFINE L == Len(c.input)
             t == DecompressFlush(s)
  <1>1. c.input \in Seq(Range(c.input)) /\ L \in Nat
    BY CaseAssumption
  <1>2. /\ DOMAIN s = StreamFields /\ s.failed = FALSE /\ s.chunks = c.input /\ s.out = Restored(c, L)
        /\ L <= PluginLimits(c.limits).maxInputBytes /\ Len(s.out) \in Nat
        /\ L # 0 => c.input[1].k \in {"none", "gzip"} /\ Len(s.out) <= PluginLimits(c.limits).maxOutputBytes
    <2>1. Window(c.input, 0, L) = c.input
      BY <1>1, WindowEnds
    <2>2. QED
      BY <2>1 DEF Inflating
  <1>3. StreamError(s).failed
    BY <1>2 DEF StreamFields, StreamError
  <1>4. Failure.ok = FALSE
    BY DEF Failure
  <1>5. CASE c.input = <<>>
    <2>1. t.failed
      BY <1>2, <1>3, <1>5 DEF DecompressFlush
    <2>2. Expected(c) = CompressReverse(c.input, PluginLimits(c.limits))
      BY Zenon DEF Expected
    <2>3. CompressReverse(c.input, PluginLimits(c.limits)) = Failure
      BY <1>5, Zenon DEF CompressReverse
    <2>4. QED
      BY <1>4, <2>1, <2>2, <2>3
  <1>6. CASE c.input # <<>>
    <2>1. L \in Nat \ {0}
      BY <1>6, PayloadParts
    <2>2. SubSeq(s.chunks, 2, Len(s.chunks)) = Compressed(c)
      <3>1. 1 + 1 = 2 /\ 1 + (L - 1) = L
        BY <2>1
      <3>2. QED
        BY <1>2, <3>1 DEF Compressed, Window
    <2>3. CASE ~WholePayload(Compressed(c), c.input[1].k)
      <3>1. t.failed
        BY <1>2, <1>3, <2>2, <2>3 DEF DecompressFlush
      <3>2. Expected(c) = Failure
        BY <1>6, <2>3, DecompressForm, Zenon
      <3>3. QED
        BY <1>4, <3>1, <3>2
    <2>4. CASE WholePayload(Compressed(c), c.input[1].k)
      <3>1. t = s
        BY <1>2, <1>6, <2>2, <2>4 DEF DecompressFlush
      <3> DEFINE in  == PluginLimits(c.limits).maxInputBytes
                 max == PluginLimits(c.limits).maxOutputBytes
                 l   == Len(Restored(c, L))
      <3>2. in \in Nat /\ max \in Nat /\ l \in Nat /\ l <= max /\ L <= in /\ c.input[1].k \in {"none", "gzip"}
        BY <1>2, <2>1, PluginLimitsTyped
      <3> HIDE DEF in, max, l, L
      <3>3. ~(L > in) /\ ~(l > max)
        BY <1>1, <3>2
      <3>4. Expected(c) = Success(Restored(c, L))
        BY <1>6, <2>4, <3>2, <3>3, DecompressForm, Zenon DEF in, max, l, L
      <3>5. QED
        BY <1>2, <3>1, <3>4
    <2>5. QED
      BY <2>3, <2>4
  <1>7. QED
    BY <1>5, <1>6

(***************************************************************************)
(* The invariant of decompression.                                         *)
(***************************************************************************)
InflateInv ==
    case.kind = "decompress" =>
        /\ phase = "open" => Inflating(case, st, taken)
        /\ phase = "failed" => ~Expected(case).ok
        /\ phase = "ok" => Expected(case) = Success(st.out)

\* It holds at every moment.
LEMMA InflateInvariant ==
    Spec => []InflateInv
  <1> DEFINE Placed == case \in Cases /\ taken \in Nat /\ taken <= Len(case.input)
  <1>1. Init => InflateInv
    <2> SUFFICES ASSUME Init, case.kind = "decompress"
                 PROVE  Inflating(case, st, 0) /\ phase = "open" /\ taken = 0
      BY DEF InflateInv
    <2>1. case \in Cases /\ st = StreamCreate /\ taken = 0 /\ phase = IF st.failed THEN "failed" ELSE "open"
      BY DecompressCalls DEF Init
    <2>2. /\ DOMAIN st = StreamFields /\ st.failed = FALSE /\ st.total = 0 /\ st.chunks = <<>> /\ st.out = <<>>
      BY <2>1 DEF StreamCreate, StreamFields
    <2>3. Window(case.input, 0, 0) = <<>> /\ Restored(case, 0) = <<>> /\ Len(<<>>) = 0
      BY SubSeqEmpty DEF Window, Restored
    <2>4. 0 <= PluginLimits(case.limits).maxInputBytes
      BY <2>1, PluginLimitsTyped
    <2>5. Inflating(case, st, 0)
      BY <2>2, <2>3, <2>4 DEF Inflating
    <2>6. QED
      BY <2>1, <2>2, <2>5
  <1>2. Placed /\ InflateInv /\ [Next]_vars => InflateInv'
    <2> SUFFICES ASSUME Placed, InflateInv, [Next]_vars, case.kind = "decompress"
                 PROVE  InflateInv'
      BY DEF InflateInv, Next, Write, End, TaskSettles, Destroy, Abort, vars
    <2>0. /\ case' = case /\ case \in Cases /\ taken \in Nat /\ taken <= Len(case.input)
          /\ phase = "open" => Inflating(case, st, taken)
      <3>1. case' = case
        BY DEF Next, Write, End, TaskSettles, Destroy, Abort, vars
      <3>2. QED
        BY <3>1 DEF InflateInv
    <2>1. ASSUME NEW n \in 0 .. Len(case.input), Write(n) PROVE InflateInv'
      <3>1. /\ st' = Transform(case, st, Window(case.input, taken, n)) /\ taken' = taken + n
            /\ phase' = IF st'.failed THEN "failed" ELSE "open"
            /\ phase = "open" /\ taken + n <= Len(case.input) /\ n \in Nat
        BY <2>1 DEF Write, Window
      <3>2. st' = DecompressTransform(st, Window(case.input, taken, n), PluginLimits(case.limits))
        BY <2>0, <3>1, DecompressCalls
      <3>3. IF st'.failed THEN ~Expected(case).ok ELSE Inflating(case, st', taken + n)
        BY <2>0, <3>1, <3>2, DecompressTransformed
      <3>4. QED
        BY <2>0, <3>1, <3>3 DEF InflateInv
    <2>2. ASSUME End PROVE InflateInv'
      <3>1. /\ st' = Flush(case, st) /\ phase = "open" /\ taken = Len(case.input)
            /\ phase' = IF st'.failed THEN "failed" ELSE "ok"
        BY <2>2 DEF End
      <3>2. st' = DecompressFlush(st)
        BY <2>0, <3>1, DecompressCalls
      <3>3. Inflating(case, st, Len(case.input))
        BY <2>0, <3>1
      <3>4. IF st'.failed THEN ~Expected(case).ok ELSE Expected(case) = Success(st'.out)
        BY <2>0, <3>2, <3>3, DecompressFlushed
      <3>5. QED
        BY <2>0, <3>1, <3>4 DEF InflateInv
    <2>3. ASSUME NEW fulfilled \in BOOLEAN, TaskSettles(fulfilled) PROVE InflateInv'
      BY <2>3 DEF TaskSettles, Busy, Worker
    <2>4. ASSUME Destroy PROVE InflateInv'
      BY <2>0, <2>4 DEF Destroy, InflateInv
    <2>5. ASSUME Abort PROVE InflateInv'
      BY <2>5 DEF Abort, Worker
    <2>6. CASE UNCHANGED vars
      BY <2>6 DEF InflateInv, vars
    <2>7. QED
      BY <2>1, <2>2, <2>3, <2>4, <2>5, <2>6 DEF Next
  <1>3. BufferInv => Placed
    BY DEF BufferInv
  <1>4. QED
    BY <1>1, <1>2, <1>3, BufferInvariant, PTL DEF Spec

\* A decompressing stream: wherever the chunks end, it succeeds exactly when
\* the buffer form of the plugin does and with the same bytes, for every input
\* and limit, whole or cut off (createStream of CompressionPlugin).
THEOREM DecompressionFragmentation ==
    Spec => [](case.kind = "decompress" => FragmentationInvisible)
  <1>1. InflateInv => (case.kind = "decompress" => FragmentationInvisible)
    BY DEF InflateInv, FragmentationInvisible
  <1>2. QED
    BY <1>1, InflateInvariant, PTL
=============================================================================
