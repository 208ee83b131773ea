--------------------------- MODULE StopwatchProto ---------------------------
(* rome.metrics.StopwatchProto: the methods generated in                     *)
(* include/metrics.pb.cc and the accessors of include/protos/metrics.pb.h.   *)
EXTENDS Protobuf

Schema == << Field("runtime_ns", 8) >>
New == Fresh(Schema)

set_runtime_ns(m, v) == Put(m, "runtime_ns", v)
clear_runtime_ns(m)  == Drop(m, "runtime_ns")

\* Clear resets the value whatever the has bit says.
Clear(m) == ClearBits([m EXCEPT !.val["runtime_ns"] = 0])

InternalParse(m, w) == ReadFields(Schema, m, w)
InternalSerialize(m) == Written(Schema, m)
ByteSizeLong(m) == UIntSize(m, "runtime_ns") + FlatSizes(m.unknown)

MergeFrom(to, from) ==
    MergeUnknown(IF "runtime_ns" \in from.has THEN set_runtime_ns(to, from.val["runtime_ns"]) ELSE to,
                 from)
CopyFrom(to, from) == MergeFrom(Clear(to), from)

\* The copy constructor.
Copy(from) == [MergeUnknown(New, from) EXCEPT !.has = from.has, !.val = from.val]

\* What InternalSwap makes of x when the other message is y.
InternalSwap(x, y) == [x EXCEPT !.has = y.has, !.val = y.val, !.unknown = y.unknown]
=============================================================================
