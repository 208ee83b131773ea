----------------------------- MODULE MetricProto -----------------------------
(***************************************************************************)
(* rome.metrics.MetricProto: a name and a oneof that owns, on the heap, a  *)
(* counter, a stopwatch or a summary.  The methods generated in            *)
(* include/metrics.pb.cc and the accessors of include/protos/metrics.pb.h. *)
(* No message lives on an arena.                                           *)
(*                                                                         *)
(* A metric is a message with the case of its oneof and the pointer in it. *)
(* Methods that allocate or free take and return s = [m, h]: the metric    *)
(* and the heap, a function from the addresses in use to what is there.    *)
(***************************************************************************)
EXTENDS Classes

Cases  == {"counter", "stopwatch", "summary"}
NotSet == "METRIC_NOT_SET"
Null   == 0

Schema == << Field("name", 10) >>
TagOf  == [counter |-> 18, stopwatch |-> 26, summary |-> 34]
CaseOf(tag) == CHOOSE c \in Cases : TagOf[c] = tag

New == [has |-> {}, val |-> [f \in {"name"} |-> 0], unknown |-> <<>>, case |-> NotSet, ref |-> Null]

\* new and delete.
FreeAddress(h)  == Min((1..(Cardinality(DOMAIN h) + 1)) \ DOMAIN h)
Allocate(h, x)  == [p \in DOMAIN h \cup {FreeAddress(h)} |-> IF p \in DOMAIN h THEN h[p] ELSE x]
Delete(h, p)    == [q \in DOMAIN h \ {p} |-> h[q]]

-----------------------------------------------------------------------------
(* name *)

set_name(m, v)     == Put(m, "name", v)
clear_name(m)      == Drop(m, "name")
release_name(m)    == IF "name" \in m.has THEN Drop(m, "name") ELSE m
set_allocated_name(m, v) == IF v = -1 THEN Drop(m, "name") ELSE Put(m, "name", v)

-----------------------------------------------------------------------------
(* The oneof.  The pointer clear_metric and clear leave behind is dangling  *)
(* and is not read again before it is set: it is null here.                 *)

clear_has_metric(m) == [m EXCEPT !.case = NotSet, !.ref = Null]
set_has(m, c, p)    == [m EXCEPT !.case = c, !.ref = p]

clear_metric(s) ==
    [m |-> clear_has_metric(s.m),
     h |-> IF s.m.case = NotSet THEN s.h ELSE Delete(s.h, s.m.ref)]

clear_case(s, c) == IF s.m.case = c THEN clear_metric(s) ELSE s

\* Mutation: what the oneof held before is not freed.
MutableLeaks(s, c) ==
    IF s.m.case = c THEN s
    ELSE [m |-> set_has(s.m, c, FreeAddress(s.h)), h |-> Allocate(s.h, ClassNew(c))]

\* _internal_mutable_counter, _stopwatch, _summary.
mutable(s, c) ==
    LET d == clear_metric(s)
    IN  IF s.m.case = c THEN s
        ELSE [m |-> set_has(d.m, c, FreeAddress(d.h)), h |-> Allocate(d.h, ClassNew(c))]

\* release gives up the pointer, released is what it returns.
release(s, c)  == IF s.m.case = c THEN [s EXCEPT !.m = clear_has_metric(@)] ELSE s
released(s, c) == IF s.m.case = c THEN s.m.ref ELSE Null

set_allocated(s, c, p) ==
    LET d == clear_metric(s)
    IN  IF p = Null THEN d ELSE [d EXCEPT !.m = set_has(@, c, p)]

-----------------------------------------------------------------------------
(* Message methods. *)

Clear(s) ==
    LET d == clear_metric([s EXCEPT !.m = ClearGroup(@, {"name"})])
    IN  [d EXCEPT !.m = ClearBits(@)]

\* Mutation: a nested message is always read into a new one.
ReadFreshSub(s, c, w) ==
    LET d == mutable(clear_metric(s), c) IN [d EXCEPT !.h[d.m.ref] = ClassParse(c, @, w)]

\* A nested message is parsed into the one the oneof holds, if it is of the same case.
ReadSub(s, c, w) ==
    LET d == mutable(s, c) IN [d EXCEPT !.h[d.m.ref] = ClassParse(c, @, w)]

ReadEntry(s, e) ==
    IF e.tag \in {TagOf[c] : c \in Cases} THEN ReadSub(s, CaseOf(e.tag), e.sub)
    ELSE [s EXCEPT !.m = ReadField(Schema, @, e)]
InternalParse(s, w) == Through(ReadEntry, s, UpToEnd(w))

\* Mutation: the oneof is written in the place of its first case.
SerializeWrongTag(m, h) ==
    Written(Schema, [m EXCEPT !.unknown = <<>>])
      \o (IF m.case = NotSet THEN <<>> ELSE << Nested(TagOf["counter"], ClassSerialize(m.case, h[m.ref])) >>)
      \o m.unknown

InternalSerialize(m, h) ==
    Written(Schema, [m EXCEPT !.unknown = <<>>])
      \o (IF m.case = NotSet THEN <<>> ELSE << Nested(TagOf[m.case], ClassSerialize(m.case, h[m.ref])) >>)
      \o m.unknown

ByteSizeLong(m, h) ==
    StringSize(m, "name")
      + (IF m.case = NotSet THEN 0 ELSE 1 + LengthDelimited(ClassSize(m.case, h[m.ref])))
      + FlatSizes(m.unknown)

\* Merge the case that from holds into the same case of s.m.
MergeMetric(s, from) ==
    IF from.case = NotSet THEN s
    ELSE LET d == mutable(s, from.case)
         IN  [d EXCEPT !.h[d.m.ref] = ClassMerge(from.case, @, d.h[from.ref])]

MergeFrom(s, from) ==
    LET d == MergeMetric([s EXCEPT !.m = MergeGroup(@, from, {"name"})], from)
    IN  [d EXCEPT !.m = MergeUnknown(@, from)]

CopyFrom(s, from) == MergeFrom(Clear(s), from)

\* Mutation: the copy takes the pointer of its source instead of a new message.
CopyShares(from, h) ==
    [m |-> [from EXCEPT !.val["name"] = IF "name" \in from.has THEN @ ELSE 0], h |-> h]

\* The copy constructor, for a metric that is not yet one of the heap's owners.
Copy(from, h) ==
    MergeMetric([m |-> [MergeUnknown(New, from) EXCEPT
                           !.has = from.has, !.val["name"] = IF "name" \in from.has THEN from.val["name"] ELSE 0],
                 h |-> h], from)

\* What InternalSwap makes of x when the other message is y.
InternalSwap(x, y) ==
    [x EXCEPT !.unknown = y.unknown, !.has = y.has, !.val = y.val, !.ref = y.ref, !.case = y.case]
=============================================================================
