---------------------------- MODULE CounterProto ----------------------------
(* rome.metrics.CounterProto: the methods generated in include/metrics.pb.cc *)
(* and the accessors of include/protos/metrics.pb.h.                          *)
EXTENDS Protobuf

Schema == << Field("count", 8) >>
New == Fresh(Schema)

set_count(m, v) == Put(m, "count", v)
clear_count(m)  == Drop(m, "count")

\* Clear resets the value whatever the has bit says.
Clear(m) == ClearBits([m EXCEPT !.val["count"] = 0])

InternalParse(m, w) == ReadFields(Schema, m, w)
InternalSerialize(m) == Written(Schema, m)
ByteSizeLong(m) == UIntSize(m, "count") + FlatSizes(m.unknown)

MergeFrom(to, from) ==
    MergeUnknown(IF "count" \in from.has THEN set_count(to, from.val["count"]) ELSE to, from)
CopyFrom(to, from) == MergeFrom(Clear(to), from)

\* The copy constructor.
Copy(from) == [MergeUnknown(New, from) EXCEPT !.has = from.has, !.val = from.val]

\* What InternalSwap makes of x when the other message is y.
InternalSwap(x, y) == [x EXCEPT !.has = y.has, !.val = y.val, !.unknown = y.unknown]
=============================================================================
