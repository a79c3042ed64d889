----------------------------- MODULE ProtoDecode -----------------------------
(***************************************************************************)
(* Unmarshal of the generated protobuf codec, which is the same in every   *)
(* *.pb.go file but for the fields of the message (ProtoMessages).  A step *)
(* is one turn of the loop of Unmarshal or of the loop of skip; an         *)
(* embedded message is a frame on a stack, as its Unmarshal is a call.     *)
(*                                                                         *)
(* The bytes of a request are supplied as the decoder reaches them, which  *)
(* enumerates all inputs and stops enumerating where the decoder stops     *)
(* reading.  The bytes of an accepted message that was encoded again       *)
(* (ProtoWire) are all there from the start.                               *)
(*                                                                         *)
(* Go's int has IntBits bits (64 in the code) and a field number FieldBits *)
(* (int32): the instance narrows both so that a varint of three bytes      *)
(* overflows.                                                              *)
(***************************************************************************)
EXTENDS ProtoKinds

CONSTANTS
    IntBits, FieldBits,
    Requests,     \* the requests, <<message, length>> each
    Octets,       \* the bytes a request is made of, the text of strings aside
    Letter        \* the byte that strings are written with

\* 1 << n.
Pow2(n) == LET power[i \in 0..n] == IF i = 0 THEN 1 ELSE 2 * power[i - 1] IN power[n]

\* An int holds the length of every slice, and the size of a fixed64.
ASSUME WireAssumption ==
    /\ IntBits \in Nat /\ IntBits >= 4 /\ FieldBits \in 1..IntBits
    /\ Octets \subseteq 0..255 /\ Letter \in 0..255
    /\ \A r \in Requests : r[2] \in 0..(Pow2(IntBits - 1) - 1)

VARIABLES
    desc,      \* the message being decoded
    wire,      \* dAtA, as far as it is known
    length,    \* its length
    index,     \* iNdEx, counted from the start of wire
    stack,     \* the calls of Unmarshal, the outermost first
    skip,      \* the loop of skip: where it started and its group depth
    err,       \* why Unmarshal returned, or Running
    sent       \* <<m>> once the accepted message m was encoded again

wireVars == <<desc, wire, length, index, stack, skip, err, sent>>

Running == "running"
NotSkipping == [from |-> 0, depth |-> -1]

Kinds == {"bool", "uint64", "string", "strings", "message", "pointer", "messages"}
WireType(kind) == IF kind \in {"bool", "uint64"} THEN 0 ELSE 2

(***************************************************************************)
(* Reading.                                                                *)
(***************************************************************************)

\* An int of the given width, from its low bits.
Signed(x, bits) ==
    LET low == x % Pow2(bits) IN IF low >= Pow2(bits - 1) THEN low - Pow2(bits) ELSE low

\* The seven low bits of the bytes from at to at + n, the lowest first.
Bits(at, n) ==
    LET sum[i \in 0..n] ==
            (wire[at + i + 1] % 128) * Pow2(7 * i) + (IF i = 0 THEN 0 ELSE sum[i - 1])
    IN  sum[n]

\* The loop over shift: it gives up when shift >= IntBits, then when the
\* buffer is at its end, and stops at the first byte below 0x80.  "supply"
\* is no outcome of the code: the byte has not been supplied yet.
Varint(at, limit) ==
    LET full == (IntBits + 6) \div 7
        stops(n) == n = full \/ at + n >= limit \/ at + n >= Len(wire) \/ wire[at + n + 1] < 128
        n == CHOOSE i \in 0..full : stops(i) /\ \A j \in 0..(i - 1) : ~stops(j)
    IN  CASE n = full -> [end |-> "ErrIntOverflow", val |-> 0, next |-> at + n]
          [] at + n >= limit -> [end |-> "ErrUnexpectedEOF", val |-> 0, next |-> at + n]
          [] at + n >= Len(wire) -> [end |-> "supply", val |-> 0, next |-> at + n]
          [] OTHER -> [end |-> "nil", val |-> Bits(at, n) % Pow2(IntBits), next |-> at + n + 1]

top == stack[Len(stack)]

\* A turn of a loop: the tag it reads, and the varint after the tag, which
\* is the value of the field or the length of what follows.
Turn ==
    LET tag == Varint(index, top.limit)
    IN  [end |-> tag.end, next |-> tag.next, wireType |-> tag.val % 8,
         fieldNum |-> Signed(tag.val \div 8, FieldBits),
         payload |-> Varint(tag.next, top.limit)]

InLoop == err = Running /\ skip = NotSkipping /\ index < top.limit
Skipping == err = Running /\ skip # NotSkipping

\* A tag that the switch of Unmarshal is reached with, and one of a field
\* of the given kinds.
GoodTag(t) == InLoop /\ t.end = "nil" /\ t.wireType # 4 /\ t.fieldNum > 0
Known(t, kinds) ==
    /\ GoodTag(t) /\ t.fieldNum \in DOMAIN top.desc
    /\ top.desc[t.fieldNum].kind \in kinds
    /\ t.wireType = WireType(top.desc[t.fieldNum].kind)

Fail(e) == err' = e /\ UNCHANGED <<desc, wire, length, index, stack, skip, sent>>

\* The bytes up to n are of no further interest, or the text of a string.
Through(n) == wire \o [i \in 1..(n - Len(wire)) |-> Letter]

SetField(f, v) == [stack EXCEPT ![Len(stack)].msg[f] = v]

(***************************************************************************)
(* One turn of the loop of Unmarshal.                                      *)
(***************************************************************************)

\* The next byte of the request.
Supply(t) ==
    /\ \/ (InLoop \/ Skipping) /\ t.end = "supply"
       \/ Known(t, Kinds) /\ t.payload.end = "supply"
       \/ Skipping /\ t.end = "nil" /\ t.wireType \in {0, 2} /\ t.payload.end = "supply"
    /\ \E b \in Octets : wire' = Append(wire, b)
    /\ UNCHANGED <<desc, length, index, stack, skip, err, sent>>

\* The tag cannot be read, ends a group that was never opened, or has a
\* field number that is not positive as an int32.
BadTag(t) ==
    /\ InLoop /\ t.end # "supply"
    /\ \/ t.end # "nil" /\ Fail(t.end)
       \/ t.end = "nil" /\ (t.wireType = 4 \/ t.fieldNum <= 0) /\ Fail("illegal tag")

WrongWireType(t) ==
    /\ GoodTag(t) /\ t.fieldNum \in DOMAIN top.desc
    /\ t.wireType # WireType(top.desc[t.fieldNum].kind)
    /\ Fail("wrong wireType")

\* case fieldNum of a bool or a uint64.
ScalarField(t) ==
    /\ Known(t, {"bool", "uint64"}) /\ t.payload.end # "supply"
    /\ \/ t.payload.end # "nil" /\ Fail(t.payload.end)
       \/ /\ t.payload.end = "nil"
          /\ stack' = SetField(t.fieldNum, IF top.desc[t.fieldNum].kind = "bool"
                                         THEN t.payload.val # 0 ELSE t.payload.val)
          /\ index' = t.payload.next
          /\ UNCHANGED <<desc, wire, length, skip, err, sent>>

\* postIndex: where the n bytes after the length end, in the frame.
postIndex(t) == Signed(t.payload.next - top.base + Signed(t.payload.val, IntBits), IntBits)

\* Mutated form: the sum that gives postIndex is not checked for overflow.
LengthErrorNoOverflow(t) ==
    CASE t.payload.end # "nil" -> t.payload.end
      [] Signed(t.payload.val, IntBits) < 0 -> "ErrInvalidLength"
      [] postIndex(t) > top.limit - top.base -> "ErrUnexpectedEOF"
      [] OTHER -> "nil"

\* The checks of a length before the buffer is sliced with it.
LengthError(t) ==
    CASE t.payload.end # "nil" -> t.payload.end
      [] Signed(t.payload.val, IntBits) < 0 -> "ErrInvalidLength"
      [] postIndex(t) < 0 -> "ErrInvalidLength"
      [] postIndex(t) > top.limit - top.base -> "ErrUnexpectedEOF"
      [] OTHER -> "nil"

\* The slice dAtA[iNdEx:postIndex], from the start of wire.
SliceEnd(t) == top.base + postIndex(t)

BadLength(t) ==
    /\ Known(t, {"string", "strings", "message", "pointer", "messages"}) /\ t.payload.end # "supply" /\ LengthError(t) # "nil"
    /\ Fail(LengthError(t))

\* case fieldNum of a string, which is set, or of strings, which grow.
StringField(t) ==
    /\ Known(t, {"string", "strings"})
    /\ t.payload.end # "supply" /\ LengthError(t) = "nil"
    /\ wire' = Through(SliceEnd(t))
    /\ LET text == SubSeq(wire', t.payload.next + 1, SliceEnd(t))
       IN  stack' = SetField(t.fieldNum, IF top.desc[t.fieldNum].kind = "string" THEN text
                                       ELSE Append(top.msg[t.fieldNum], text))
    /\ index' = SliceEnd(t)
    /\ UNCHANGED <<desc, length, skip, err, sent>>

\* What the Unmarshal of an embedded message starts from: a value and a
\* pointer that is not nil keep what an earlier occurrence of the field
\* decoded, and a repeated field gets a new element.
Started(k, v) ==
    CASE k.kind = "message" -> v
      [] k.kind = "pointer" /\ v # <<>> -> v[1]
      [] OTHER -> Zero(k.of)

MessageField(t) ==
    /\ Known(t, {"message", "pointer", "messages"})
    /\ t.payload.end # "supply" /\ LengthError(t) = "nil"
    /\ LET k == top.desc[t.fieldNum]
       IN  stack' = Append(stack, [desc |-> k.of, field |-> t.fieldNum,
                                   msg |-> Started(k, top.msg[t.fieldNum]),
                                   base |-> t.payload.next, limit |-> SliceEnd(t)])
    /\ index' = t.payload.next
    /\ UNCHANGED <<desc, wire, length, skip, err, sent>>

\* The Unmarshal of an embedded message returns nil, and iNdEx = postIndex.
Return ==
    /\ err = Running /\ skip = NotSkipping /\ index = top.limit /\ Len(stack) > 1
    /\ LET parent == stack[Len(stack) - 1]
           kind == parent.desc[top.field].kind
           old == parent.msg[top.field]
           new == CASE kind = "message" -> top.msg
                    [] kind = "pointer" -> <<top.msg>>
                    [] OTHER -> Append(old, top.msg)
       IN  stack' = [SubSeq(stack, 1, Len(stack) - 1) EXCEPT ![Len(stack) - 1].msg[top.field] = new]
    /\ UNCHANGED <<desc, wire, length, index, skip, err, sent>>

\* default: iNdEx = preIndex and the loop of skip is entered.
UnknownField(t) ==
    /\ GoodTag(t) /\ t.fieldNum \notin DOMAIN top.desc
    /\ skip' = [from |-> index, depth |-> 0]
    /\ UNCHANGED <<desc, wire, length, index, stack, err, sent>>

(***************************************************************************)
(* One turn of the loop of skip, whose buffer starts at skip.from.         *)
(***************************************************************************)

\* The group depth after the record, and the bytes it takes past SkipAfter.
SkipDepth(t) == skip.depth + (CASE t.wireType = 3 -> 1 [] t.wireType = 4 -> -1 [] OTHER -> 0)
SkipAfter(t) == IF t.wireType \in {0, 2} THEN t.payload.next ELSE t.next
SkipBytes(t) ==
    CASE t.wireType = 1 -> 8
      [] t.wireType = 5 -> 4
      [] t.wireType = 2 -> Signed(t.payload.val, IntBits)
      [] OTHER -> 0

\* Mutated form: what was skipped is not counted.
SkippyZero(t) == 0

skippy(t) == Signed(SkipAfter(t) - skip.from + SkipBytes(t), IntBits)

\* The errors of skip, then those of its caller once the depth is 0.
SkipError(t) ==
    CASE index >= top.limit -> "ErrUnexpectedEOF"
      [] t.end # "nil" -> t.end
      [] t.wireType \in {0, 2} /\ t.payload.end # "nil" -> t.payload.end
      [] t.wireType = 2 /\ SkipBytes(t) < 0 -> "ErrInvalidLength"
      [] t.wireType = 4 /\ skip.depth = 0 -> "ErrUnexpectedEndOfGroup"
      [] t.wireType \in {6, 7} -> "illegal tag"
      [] skippy(t) < 0 -> "ErrInvalidLength"
      [] SkipDepth(t) = 0 /\ Signed(skip.from - top.base + skippy(t), IntBits) < 0 -> "ErrInvalidLength"
      [] skip.from + skippy(t) > top.limit -> "ErrUnexpectedEOF"
      [] OTHER -> "nil"

SkipRecord(t) ==
    /\ Skipping /\ SkipError(t) # "supply"
    /\ \/ SkipError(t) # "nil" /\ Fail(SkipError(t))
       \/ /\ SkipError(t) = "nil"
          /\ index' = skip.from + skippy(t)
          /\ wire' = Through(index')
          /\ skip' = IF SkipDepth(t) = 0 THEN NotSkipping ELSE [skip EXCEPT !.depth = SkipDepth(t)]
          /\ UNCHANGED <<desc, length, stack, err, sent>>

(***************************************************************************)
(* The end of Unmarshal, and its next call.                                *)
(***************************************************************************)

Accept ==
    /\ err = Running /\ skip = NotSkipping /\ index = top.limit /\ Len(stack) = 1
    /\ err' = "nil"
    /\ UNCHANGED <<desc, wire, length, index, stack, skip, sent>>

Frame(d, n) == [desc |-> d, field |-> 0, msg |-> Zero(d), base |-> 0, limit |-> n]

Unmarshal ==
    \E t \in {Turn} :
        \/ Supply(t) \/ BadTag(t) \/ WrongWireType(t) \/ ScalarField(t) \/ BadLength(t)
        \/ StringField(t) \/ MessageField(t) \/ UnknownField(t) \/ SkipRecord(t)

\* Whoever reads an accepted message that was written out decodes the bytes.
Redecode(bytes) ==
    /\ err = "nil"
    /\ wire' = bytes /\ length' = Len(wire') /\ length' < Pow2(IntBits - 1)
    /\ index' = 0 /\ stack' = <<Frame(desc, length')>> /\ skip' = NotSkipping /\ err' = Running
    /\ UNCHANGED desc

\* A request arrives.
WireInit ==
    /\ \E r \in Requests : desc = r[1] /\ length = r[2]
    /\ wire = <<>> /\ index = 0
    /\ stack = <<Frame(desc, length)>> /\ skip = NotSkipping /\ err = Running /\ sent = <<>>

\* Unmarshal on any request, and on whatever bytes an encoder wrote for a
\* message it accepted.
DecodeNext ==
    \/ Unmarshal \/ Return \/ Accept
    \/ \E bytes \in Seq(0..255) : Redecode(bytes)

DecodeSpec == WireInit /\ [][DecodeNext]_wireVars

\* The buffers of a decoder that has nothing to decode.
NoBuffers ==
    /\ desc = <<>> /\ length = 0 /\ wire = <<>> /\ index = 0 /\ stack = <<Frame(<<>>, 0)>>
    /\ skip = NotSkipping /\ err = "nil" /\ sent = <<>>

DropBuffers ==
    /\ desc' = <<>> /\ length' = 0 /\ wire' = <<>> /\ index' = 0 /\ stack' = <<Frame(<<>>, 0)>>
    /\ skip' = NotSkipping /\ err' = "nil" /\ sent' = <<>>

(***************************************************************************)
(* Properties.                                                             *)
(***************************************************************************)

\* The loops of Unmarshal and skip never read or slice outside the buffer:
\* every frame lies inside the one that called it and iNdEx inside the
\* innermost one, whatever lengths the request announces.
SlicesStayInside ==
    /\ length >= 0
    /\ \A i \in 1..Len(stack) :
          /\ stack[i].base \in 0..length /\ stack[i].limit \in stack[i].base..length
          /\ i > 1 => stack[i].limit <= stack[i - 1].limit
    /\ index \in top.base..top.limit
=============================================================================
