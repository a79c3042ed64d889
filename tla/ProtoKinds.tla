----------------------------- MODULE ProtoKinds -----------------------------
(***************************************************************************)
(* The kinds of field that a generated protobuf codec knows: what a field  *)
(* holds, for a message which one, and the zero value.  A pointer is the   *)
(* sequence of the message it points to, empty for nil.  The codec that    *)
(* the kinds select is in ProtoDecode and ProtoWire.                       *)
(***************************************************************************)
EXTENDS Integers, Sequences

\* The zero value of a message, which Unmarshal starts from.
Zero(m) == [f \in DOMAIN m |-> m[f].zero]

Str == [kind |-> "string", of |-> <<>>, zero |-> <<>>]
Strs == [kind |-> "strings", of |-> <<>>, zero |-> <<>>]
Bool == [kind |-> "bool", of |-> <<>>, zero |-> FALSE]
Uint64 == [kind |-> "uint64", of |-> <<>>, zero |-> 0]
Msg(m) == [kind |-> "message", of |-> m, zero |-> Zero(m)]     \* gogoproto.nullable = false
Ptr(m) == [kind |-> "pointer", of |-> m, zero |-> <<>>]        \* nil until decoded
Msgs(m) == [kind |-> "messages", of |-> m, zero |-> <<>>]

=============================================================================
