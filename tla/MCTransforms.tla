---------------------------- MODULE MCTransforms ----------------------------
(* Cases for Transforms: small inputs of every kind, written by PipeX and   *)
(* damaged on the way, under limits that are just large enough, one too     *)
(* small, or ample.                                                         *)
EXTENDS Transforms

Case(kind, option, limits, input, original, honest) ==
    [kind |-> kind, option |-> option, limits |-> limits, input |-> input,
     original |-> original, honest |-> honest]

Limits(in, out, frame, frames) ==
    [maxInputBytes |-> in, maxOutputBytes |-> out, maxFrameBytes |-> frame, maxFrames |-> frames]

Ample == Limits(40, 40, 8, 8)

Text(n) == [i \in 1 .. n |-> [k |-> "data", i |-> i]]

(***************************************************************************)
(* Encryption: three bytes at frame sizes 1 and 2.  18 bytes hold exactly  *)
(* three bytes of text in two frames.                                      *)
(***************************************************************************)
AeadLimits == {Ample, Limits(40, 18, 6, 2), Limits(2, 17, 6, 8), Limits(40, 40, 5, 2), Limits(1, 6, 4, 1)}

EncryptCases ==
    {Case("encrypt", size, l, Text(n), <<>>, FALSE) : size \in 1 .. 2, l \in AeadLimits, n \in 0 .. 3}

\* The frames of a packet, one element each, behind the header.
Frames(n, salt) ==
    [i \in 1 .. n + 1 |-> IF i <= n THEN EncryptFrame(<<Text(n)[i]>>, DATA_FRAME, i - 1, BuildHeader(1, salt))
                          ELSE EncryptFrame(<<>>, FINAL_FRAME, n, BuildHeader(1, salt))]

Renumbered(frame, sequence) == [frame EXCEPT ![2].sequence = sequence]

\* A frame is lost, repeated, exchanged with its neighbour, replaced by one of
\* another packet, renumbered or retyped.
Damaged(f, g) ==
    {RemoveAt(f, i) : i \in DOMAIN f}
    \cup {InsertAt(f, i, f[i]) : i \in DOMAIN f}
    \cup {[f EXCEPT ![i] = f[i + 1], ![i + 1] = f[i]] : i \in 1 .. Len(f) - 1}
    \cup {[f EXCEPT ![i] = Renumbered(f[i + 1], i - 1), ![i + 1] = Renumbered(f[i], i)] : i \in 1 .. Len(f) - 1}
    \cup {ReplaceAt(f, i, g[i]) : i \in DOMAIN f}
    \cup {Append(SubSeq(f, 1, i), Renumbered(f[Len(f)], i)) : i \in 0 .. Len(f) - 2}
    \cup {[f EXCEPT ![i][1].type = 3 - @] : i \in DOMAIN f}

DamagedPackets(n) ==
    {BuildHeader(1, "salt") \o FlattenSeq(d) : d \in Damaged(Frames(n, "salt"), Frames(n, "other"))}
    \cup {SubSeq(p, 1, k) : k \in 0 .. GLOBAL_HEADER_LENGTH + 5 * n + 3,
                            p \in {BuildHeader(1, "salt") \o FlattenSeq(Frames(n, "salt"))}}
    \cup {BuildHeader(1, "other") \o FlattenSeq(Frames(n, "salt"))}

HonestPackets ==
    UNION {LET packet == EncryptBuffer(Text(n), size, "salt", PluginLimits(l))
           IN  {Case("decrypt", "false", l, packet.out, Text(n), TRUE) : x \in {y \in {1} : packet.ok}}
           : size \in 1 .. 2, l \in AeadLimits, n \in 0 .. 3}

DecryptCases ==
    HonestPackets
    \cup {Case("decrypt", "true", Ample, p, Text(2), FALSE) : p \in DamagedPackets(2)}
    \cup {Case("decrypt", "false", Limits(5, 14, 5, 1), p, Text(2), FALSE) : p \in DamagedPackets(2)}
    \cup {Case("decrypt", legacy, l, SubSeq(LegacyPacket(Text(2)), 1, k), Text(2), FALSE) :
            legacy \in {"true", "false"}, l \in {Ample, Limits(8, 1, 8, 8)}, k \in 0 .. 6}

(***************************************************************************)
(* MessagePack: every string of at most four of these bytes (values, array, *)
(* map, string, integer, bin, ext, fixext, array16, types with and without *)
(* a child), and some longer ones.                                         *)
(***************************************************************************)
Alphabet == {0, 1, 101, 129, 146, 161, 193, 196, 199, 205, 212, 220}

Messages ==
    BoundedSeq(Alphabet, 3)
    \cup {<<a>> \o s : a \in {129, 146, 196, 199, 212, 220}, s \in [1 .. 3 -> Alphabet]}
    \cup {<<199, 1, 101, 9, 161, 9>>, <<146, 212, 101, 9, 1, 1>>, <<222, 0, 1, 161, 9, 1, 1>>,
          <<146, 199, 0, 255, 205, 1, 2>>, <<217, 3, 9, 9, 9, 1>>}

FrameCases ==
    {Case("frames", "none", l, m, FramesOf(m), FALSE) :
        l \in {Limits(9, 9, 4, 2), Limits(9, 9, 7, 4)}, m \in Messages}

Values == {<<>>, <<<<1>>>>, <<<<1>>, <<161, 9>>>>, <<Manifest, <<1>>>>, <<<<1>>, <<161, 9>>, <<146, 1, 1>>>>}
PackLimits == {Ample, Limits(6, 6, 3, 2), Limits(40, 8, 3, 3), Limits(40, 40, 2, 8)}

PackCases == {Case("pack", "none", l, v, <<>>, FALSE) : l \in PackLimits, v \in Values}

UnpackCases ==
    {Case("unpack", "none", l, FlattenSeq(<<Manifest>> \o v), v,
          /\ Expected(Case("pack", "none", l, v, <<>>, FALSE)).ok
          /\ Len(FlattenSeq(<<Manifest>> \o v)) <= l.maxInputBytes) : l \in PackLimits, v \in Values}
    \cup {Case("unpack", "none", l, b, ValuesOf(FramesOf(b)), FALSE) :
            l \in PackLimits, b \in {<<1, 129, 2, 2>>, <<129, 2>>, <<1, 1, 1>>, <<193>>}}

(***************************************************************************)
(* Hashing and compression.                                                *)
(***************************************************************************)
HashLimits == {Ample, Limits(1, 4, 8, 8), Limits(1, 1, 8, 8)}

HashCases ==
    {Case("sign", "none", l, Text(n), <<>>, FALSE) : l \in HashLimits, n \in 0 .. 3}
    \cup {Case("verify", "none", l, Text(n) \o Digest(Text(n)), Text(n), HashProcess(Text(n), PluginLimits(l)).ok) :
            l \in HashLimits, n \in 0 .. 3}
    \cup {Case("verify", "none", Ample, w, Text(2), FALSE) :
            w \in {SubSeq(Text(2) \o Digest(Text(2)), 1, k) : k \in 0 .. 3} \cup {<<Text(2)[2], Text(2)[1]>> \o Digest(Text(2))}}

CompressCases ==
    {Case("compress", t, l, Text(n), <<>>, FALSE) : t \in {"none", "gzip"}, l \in HashLimits, n \in 0 .. 3}
    \cup {Case("decompress", "none", l, TypeByte(t) \o Deflate(Text(n), t), Text(n),
               CompressProcess(Text(n), t, PluginLimits(l)).ok) :
            t \in {"none", "gzip"}, l \in HashLimits, n \in 0 .. 3}
    \cup {Case("decompress", "none", Ample, SubSeq(TypeByte("gzip") \o Deflate(Text(2), "gzip"), 1, k), Text(2), FALSE) :
            k \in 0 .. 3}
    \cup {Case("decompress", "none", Ample, TypeByte("other"), <<>>, FALSE)}

(***************************************************************************)
(* Worker streams.                                                         *)
(***************************************************************************)
WorkerLimits == {Ample, Limits(9, 12, 2, 2), Limits(3, 40, 1, 4)}

Wire(records) ==
    WorkerMagic \o FlattenSeq([i \in DOMAIN records |-> LengthField(Len(records[i])) \o records[i]]) \o EndMarker

Records == {<<>>, <<Text(2)>>, <<Text(1), <<>>, Text(2)>>, <<<<>>>>}

EncodeCases ==
    {Case("encode", f, l, Text(n), <<>>, FALSE) :
        f \in {"same", "grow", "empty"}, l \in WorkerLimits, n \in 0 .. 3}

DecodeCases ==
    {Case("decode", "same", Ample, Wire(r), r, TRUE) : r \in Records}
    \cup {Case("decode", "same", l, Wire(r), r, FALSE) : l \in WorkerLimits, r \in Records}
    \cup {Case("decode", "same", Ample, w, <<Text(2)>>, FALSE) :
            w \in {SubSeq(Wire(<<Text(2)>>), 1, k) : k \in 0 .. 7}
                  \cup {Wire(<<Text(2)>>) \o Text(1), Text(2)}}

MCCases ==
    EncryptCases \cup DecryptCases \cup FrameCases \cup PackCases \cup UnpackCases
    \cup HashCases \cup CompressCases \cup EncodeCases \cup DecodeCases

\* A plugin configured without the option reads a legacy packet.
MCLegacyCases ==
    {Case("decrypt", o, Ample, LegacyPacket(Text(n)), Text(n), FALSE) :
        o \in {"undefined", "false"}, n \in 1 .. 2}
=============================================================================
