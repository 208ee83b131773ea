------------------------------ MODULE Protobuf ------------------------------
(***************************************************************************)
(* What the generated message classes (include/*.pb.cc, include/protos)    *)
(* have in common.                                                         *)
(*                                                                         *)
(* A message is the set of fields whose has bit is set, the value stored   *)
(* for every field, has bit or not, and the unknown fields it keeps.  A    *)
(* number stands for itself, a string for its length.  Bytes on the wire   *)
(* are a sequence of entries: a tag (8 * field number + wire type), the    *)
(* value, and for a nested message its own entries.                        *)
(***************************************************************************)
EXTENDS Integers, Sequences, SequencesExt

Entry(tag, v) == [tag |-> tag, v |-> v, sub |-> <<>>]
Nested(tag, w) == [tag |-> tag, v |-> 0, sub |-> w]

\* What op makes of s, one element of the sequence w after the other.
Through(op(_, _), s, w) ==
    LET after[i \in 0..Len(w)] == IF i = 0 THEN s ELSE op(after[i - 1], w[i])
    IN  after[Len(w)]

\* A schema is a sequence of fields in the order of their numbers.
Field(name, tag) == [name |-> name, tag |-> tag]
Names(schema) == {schema[i].name : i \in 1..Len(schema)}
Tags(schema)  == {schema[i].tag : i \in 1..Len(schema)}
NameOf(schema, tag) == (CHOOSE f \in Range(schema) : f.tag = tag).name

\* A message as its constructor leaves it.
Fresh(schema) == [has |-> {}, val |-> [f \in Names(schema) |-> 0], unknown |-> <<>>]

\* Set a field and its has bit, reset a field and its has bit.
Put(m, f, v) == [m EXCEPT !.has = @ \cup {f}, !.val[f] = v]
Drop(m, f)   == [m EXCEPT !.has = @ \ {f}, !.val[f] = 0]

\* Reset the values of a group of fields if the has bit of any is set.
ClearGroup(m, group) ==
    IF m.has \cap group = {} THEN m
    ELSE [m EXCEPT !.val = [f \in DOMAIN @ |-> IF f \in group THEN 0 ELSE @[f]]]
ClearBits(m) == [m EXCEPT !.has = {}, !.unknown = <<>>]

\* Take over the fields of a group that are set in from.
MergeGroup(to, from, group) ==
    IF from.has \cap group = {} THEN to
    ELSE [to EXCEPT !.has = @ \cup from.has,
                    !.val = [f \in DOMAIN @ |-> IF f \in from.has \cap group THEN from.val[f] ELSE @[f]]]
MergeUnknown(to, from) == [to EXCEPT !.unknown = @ \o from.unknown]

\* The entries of the fields that are set, in the order of their numbers.
Written(schema, m) ==
    Through(LAMBDA out, f : IF f.name \in m.has THEN Append(out, Entry(f.tag, m.val[f.name])) ELSE out,
            <<>>, schema) \o m.unknown

\* A zero tag or an end-group tag ends the message.
EndsMessage(e) == e.tag = 0 \/ e.tag % 8 = 4
UpToEnd(w) ==
    LET ends == {i \in 1..Len(w) : EndsMessage(w[i])}
    IN  IF ends = {} THEN w ELSE SubSeq(w, 1, Min(ends) - 1)

\* One field read from the wire: a tag that is not exactly the one of a field
\* is kept as an unknown field.
ReadField(schema, m, e) ==
    IF e.tag \in Tags(schema) THEN Put(m, NameOf(schema, e.tag), e.v)
    ELSE [m EXCEPT !.unknown = Append(@, e)]
ReadFields(schema, m, w) == Through(LAMBDA acc, e : ReadField(schema, acc, e), m, UpToEnd(w))

-----------------------------------------------------------------------------
(* Sizes.  All field numbers of this code are below 16: a tag is one byte. *)

\* A varint has a byte for every seven bits; numbers here are below 2^21.
VarintSize(n) == IF n < 128 THEN 1 ELSE IF n < 16384 THEN 2 ELSE 3
LengthDelimited(n) == VarintSize(n) + n

FlatSize(e) == 1 + (CASE e.tag % 8 = 0 -> VarintSize(e.v)
                      [] e.tag % 8 = 1 -> 8
                      [] e.tag % 8 = 2 -> LengthDelimited(e.v))
FlatSizes(w) == Through(LAMBDA n, e : n + FlatSize(e), 0, w)

\* The bytes a sequence of entries takes.
WireSize(w) ==
    Through(LAMBDA n, e : n + (IF e.sub = <<>> THEN FlatSize(e)
                                ELSE 1 + LengthDelimited(FlatSizes(e.sub))), 0, w)

\* What ByteSizeLong counts for a field.
StringSize(m, f) == IF f \in m.has THEN 1 + LengthDelimited(m.val[f]) ELSE 0
UIntSize(m, f)   == IF f \in m.has THEN 1 + VarintSize(m.val[f]) ELSE 0
=============================================================================
