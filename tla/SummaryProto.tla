---------------------------- MODULE SummaryProto ----------------------------
(* rome.metrics.SummaryProto: the methods generated in include/metrics.pb.cc *)
(* and the accessors of include/protos/metrics.pb.h.                          *)
EXTENDS Protobuf

\* The fields with their tags, in the order of their numbers, of their has
\* bits and of the members of Impl_.
Schema == << Field("units", 10), Field("mean", 17), Field("stddev", 25), Field("min", 33),
             Field("p50", 49), Field("p90", 57), Field("p95", 65), Field("p99", 73),
             Field("p999", 81), Field("max", 89), Field("count", 96) >>
New == Fresh(Schema)

\* The has bits 0xfe and 0x700, and the members that memset and memcpy cover.
Low   == {"mean", "stddev", "min", "p50", "p90", "p95", "p99"}
High  == {"p999", "max", "count"}
Plain == Low \cup High

\* units, with the string handed over by set_allocated (-1: a null pointer).
set_units(m, v) == Put(m, "units", v)
clear_units(m)  == Drop(m, "units")
release_units(m) == IF "units" \in m.has THEN Drop(m, "units") ELSE m
set_allocated_units(m, v) == IF v = -1 THEN Drop(m, "units") ELSE Put(m, "units", v)

\* The numbers.
set(m, f, v) == Put(m, f, v)
clear(m, f)  == Drop(m, f)

\* Mutation: the has bits of the second byte are not looked at.
ClearLow(m) == ClearBits(ClearGroup(ClearGroup(m, {"units"}), Low))

Clear(m) == ClearBits(ClearGroup(ClearGroup(ClearGroup(m, {"units"}), Low), High))

InternalParse(m, w) == ReadFields(Schema, m, w)
InternalSerialize(m) == Written(Schema, m)

\* Mutation: the size of a double is counted without its tag.
ByteSizeNoTag(m) ==
    StringSize(m, "units") + 8 * Cardinality(m.has \cap (Plain \ {"count"}))
      + UIntSize(m, "count") + FlatSizes(m.unknown)

ByteSizeLong(m) ==
    StringSize(m, "units") + 9 * Cardinality(m.has \cap (Plain \ {"count"}))
      + UIntSize(m, "count") + FlatSizes(m.unknown)

\* Mutation: fields of the second byte are only merged with one of the first.
MergeNested(to, from) ==
    MergeUnknown(IF from.has \cap (Low \cup {"units"}) = {} THEN to
                 ELSE MergeGroup(to, from, Plain \cup {"units"}), from)

MergeFrom(to, from) ==
    MergeUnknown(MergeGroup(MergeGroup(to, from, Low \cup {"units"}), from, High), from)
CopyFrom(to, from) == MergeFrom(Clear(to), from)

\* The copy constructor: units if its bit is set, the others in one memcpy.
Copy(from) ==
    [MergeUnknown(New, from) EXCEPT
        !.has = from.has,
        !.val = [f \in DOMAIN @ |-> IF f \in Plain \/ "units" \in from.has THEN from.val[f] ELSE 0]]

\* What InternalSwap makes of x when the other message is y.
InternalSwap(x, y) ==
    [has |-> y.has, unknown |-> y.unknown,
     val |-> [f \in DOMAIN x.val |-> IF f \in Plain \cup {"units"} THEN y.val[f] ELSE x.val[f]]]
=============================================================================
