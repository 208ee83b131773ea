------------------------- MODULE RemoteObjectProto -------------------------
(* rome.rdma.RemoteObjectProto, the message in which Hashtable::Init sends   *)
(* the address of the root: the methods generated in include/rdma.pb.cc and  *)
(* the accessors of include/protos/rdma.pb.h.                                *)
EXTENDS Protobuf

Schema == << Field("id", 10), Field("raddr", 16), Field("size", 24),
             Field("lkey", 32), Field("rkey", 40) >>
New == Fresh(Schema)

\* The has bits 0x1e and the members that memset and memcpy cover.
Plain == {"raddr", "size", "lkey", "rkey"}

set_id(m, v) == Put(m, "id", v)
clear_id(m)  == Drop(m, "id")
release_id(m) == IF "id" \in m.has THEN Drop(m, "id") ELSE m
set_allocated_id(m, v) == IF v = -1 THEN Drop(m, "id") ELSE Put(m, "id", v)

set(m, f, v) == Put(m, f, v)
clear(m, f)  == Drop(m, f)

Clear(m) == ClearBits(ClearGroup(ClearGroup(m, {"id"}), Plain))

InternalParse(m, w) == ReadFields(Schema, m, w)
InternalSerialize(m) == Written(Schema, m)

ByteSizeLong(m) ==
    StringSize(m, "id") + UIntSize(m, "raddr") + UIntSize(m, "size") + UIntSize(m, "lkey")
      + UIntSize(m, "rkey") + FlatSizes(m.unknown)

MergeFrom(to, from) == MergeUnknown(MergeGroup(to, from, Plain \cup {"id"}), from)
CopyFrom(to, from) == MergeFrom(Clear(to), from)

\* The copy constructor: id if its bit is set, the others in one memcpy.
Copy(from) ==
    [MergeUnknown(New, from) EXCEPT
        !.has = from.has,
        !.val = [f \in DOMAIN @ |-> IF f \in Plain \/ "id" \in from.has THEN from.val[f] ELSE 0]]

\* What InternalSwap makes of x when the other message is y.
InternalSwap(x, y) ==
    [has |-> y.has, unknown |-> y.unknown,
     val |-> [f \in DOMAIN x.val |-> IF f \in Plain \cup {"id"} THEN y.val[f] ELSE x.val[f]]]
=============================================================================
