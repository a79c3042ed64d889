------------------------------ MODULE ProtoWire ------------------------------
(***************************************************************************)
(* Marshal and Size of the generated protobuf codec beside its Unmarshal   *)
(* (ProtoDecode): a message that was accepted is encoded, and what was     *)
(* encoded is decoded again.                                               *)
(***************************************************************************)
EXTENDS ProtoDecode, SequencesExt

\* encodeVarint and sov: seven bits to a byte, the lowest first.
Sov(x) == CHOOSE n \in 1..IntBits : x < Pow2(7 * n) /\ (n > 1 => x >= Pow2(7 * (n - 1)))

\* Mutated form: the loop runs while v > 1<<7.
EncodeVarintOffByOne(x) ==
    LET n == IF x = 128 THEN 1 ELSE Sov(x)
    IN  [i \in 1..n |-> ((x \div Pow2(7 * (i - 1))) % 128) + (IF i < n THEN 128 ELSE 0)]

EncodeVarint(x) ==
    [i \in 1..Sov(x) |->
        ((x \div Pow2(7 * (i - 1))) % 128) + (IF i < Sov(x) THEN 128 ELSE 0)]

Tag(f, kind) == EncodeVarint(f * 8 + WireType(kind))
Delimited(f, kind, bytes) == Tag(f, kind) \o EncodeVarint(Len(bytes)) \o bytes

RECURSIVE Marshal(_, _)

\* MarshalToSizedBuffer of one field: a zero value is not written, but an
\* embedded message that is no pointer always is.
MarshalField(f, k, v) ==
    CASE k.kind = "bool" -> IF v THEN Tag(f, k.kind) \o <<1>> ELSE <<>>
      [] k.kind = "uint64" -> IF v = 0 THEN <<>> ELSE Tag(f, k.kind) \o EncodeVarint(v)
      [] k.kind = "string" -> IF v = <<>> THEN <<>> ELSE Delimited(f, k.kind, v)
      [] k.kind = "strings" -> FlattenSeq([i \in 1..Len(v) |-> Delimited(f, k.kind, v[i])])
      [] k.kind = "message" -> Delimited(f, k.kind, Marshal(k.of, v))
      [] OTHER -> FlattenSeq([i \in 1..Len(v) |->
                                  Delimited(f, k.kind, Marshal(k.of, v[i]))])

Marshal(d, m) ==
    FlattenSeq([f \in 1..Max(DOMAIN d \cup {0}) |->
        IF f \in DOMAIN d THEN MarshalField(f, d[f], m[f]) ELSE <<>>])

RECURSIVE Size(_, _)

\* Size: the length of the buffer that MarshalToSizedBuffer fills from its end.
SizeField(f, k, v) ==
    LET key == Sov(f * 8)
        delimited(n) == key + Sov(n) + n
        total(n(_)) == FoldSeq(LAMBDA x, sum : sum + delimited(n(x)), 0, v)
    IN  CASE k.kind = "bool" -> IF v THEN key + 1 ELSE 0
          [] k.kind = "uint64" -> IF v = 0 THEN 0 ELSE key + Sov(v)
          [] k.kind = "string" -> IF v = <<>> THEN 0 ELSE delimited(Len(v))
          [] k.kind = "strings" -> total(Len)
          [] k.kind = "message" -> delimited(Size(k.of, v))
          [] OTHER -> total(LAMBDA x : Size(k.of, x))

Size(d, m) ==
    MapThenSumSet(LAMBDA f : SizeField(f, d[f], m[f]), DOMAIN d)

\* The accepted message is encoded, and decoded by whoever reads it.
Reencode ==
    /\ sent = <<>>
    /\ Redecode(Marshal(desc, stack[1].msg))
    /\ sent' = <<stack[1].msg>>

WireNext == Unmarshal \/ Return \/ Accept \/ Reencode

(***************************************************************************)
(* Properties.                                                             *)
(***************************************************************************)

\* A message that Unmarshal accepted survives the way through a store or
\* over the wire: Size is exactly what Marshal writes, and Unmarshal of what
\* Marshal wrote accepts it and yields the same message.
EncodingIsFaithful ==
    sent # <<>> /\ err # Running =>
        err = "nil" /\ stack[1].msg = sent[1] /\ Size(desc, sent[1]) = length

\* Whatever bytes arrive, Unmarshal returns: no turn of its loop or of skip's
\* leaves iNdEx where an earlier turn found it.
DecodingEnds == <>[](err # Running)
=============================================================================
