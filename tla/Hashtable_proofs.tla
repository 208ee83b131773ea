-------------------------- MODULE Hashtable_proofs --------------------------
(***************************************************************************)
(* Proofs about Hashtable: TableInv is inductive, and what follows from it *)
(* for every number of clients, sets and rehashes and every bundle size.   *)
(***************************************************************************)
EXTENDS Hashtable, FiniteSetTheorems, SequenceTheorems, WellFoundedInduction, TLAPS

-----------------------------------------------------------------------------
(* The root on its way to the clients *)

\* The message as Hashtable::Init sends it: the address is set, nothing else.
LEMMA ProtoIs ==
  /\ proto.has = {"raddr"}
  /\ proto.val["raddr"] = RootPtr.address
  /\ proto.unknown = <<>>
<1> DEFINE N == {"id", "raddr", "size", "lkey", "rkey"}
           new == [has |-> {}, val |-> [f \in N |-> 0], unknown |-> <<>>]
<1>1. RemoteObject!Names(RemoteObject!Schema) = N
  BY DEF RemoteObject!Names, RemoteObject!Schema, RemoteObject!Field
<1>2. RemoteObject!New = new
  BY <1>1 DEF RemoteObject!New, RemoteObject!Fresh
<1>3. proto = [new EXCEPT !.has = @ \cup {"raddr"}, !.val["raddr"] = RootPtr.address]
  BY <1>2 DEF proto, RemoteObject!set, RemoteObject!Put
<1>4. new.has = {} /\ new.unknown = <<>> /\ new.val = [f \in N |-> 0] /\ DOMAIN new = {"has", "val", "unknown"}
  OBVIOUS
<1> HIDE DEF new
<1>5. proto.has = new.has \cup {"raddr"} /\ proto.unknown = new.unknown /\ proto.val = [new.val EXCEPT !["raddr"] = RootPtr.address]
  BY <1>3, <1>4
<1> QED BY <1>4, <1>5

\* The serializer writes it as one entry.
LEMMA WireIs == Wire = <<RemoteObject!Entry(16, RootPtr.address)>>
<1> DEFINE e == RemoteObject!Entry(16, RootPtr.address)
           schema == RemoteObject!Schema
           n == Len(schema)
           F(f) == [i \in 0..n |-> IF i = 0 THEN <<>>
                      ELSE IF schema[i].name \in proto.has
                           THEN Append(f[i - 1], RemoteObject!Entry(schema[i].tag, proto.val[schema[i].name]))
                           ELSE f[i - 1]]
           P(f) == f = F(f)
           after == CHOOSE f : P(f)
           g == [i \in 0..5 |-> IF i < 2 THEN <<>> ELSE <<e>>]
<1>1. /\ n = 5
      /\ schema[1].name = "id" /\ schema[2].name = "raddr" /\ schema[3].name = "size"
      /\ schema[4].name = "lkey" /\ schema[5].name = "rkey"
      /\ schema[2].tag = 16
  BY DEF RemoteObject!Schema, RemoteObject!Field
<1>2. Wire = after[n] \o <<>>
  BY ProtoIs DEF Wire, RemoteObject!InternalSerialize, RemoteObject!Written, RemoteObject!Through
<1> HIDE DEF schema, n
<1> DEFINE G(f) == [i \in 0..5 |-> IF i = 0 THEN <<>> ELSE IF i = 2 THEN Append(f[i - 1], e) ELSE f[i - 1]]
<1>f. ASSUME NEW f PROVE F(f) = G(f)
  <2>1. \A i \in 1..5 : i \in {1, 2, 3, 4, 5}
    OBVIOUS
  <2>2. \A i \in 1..5 : schema[i].name \in proto.has <=> i = 2
    BY <1>1, <2>1, ProtoIs
  <2>3. e = RemoteObject!Entry(schema[2].tag, proto.val[schema[2].name])
    BY <1>1, ProtoIs
  <2> HIDE DEF e
  <2>4. ASSUME NEW i \in 1..5
        PROVE  (IF schema[i].name \in proto.has
                THEN Append(f[i - 1], RemoteObject!Entry(schema[i].tag, proto.val[schema[i].name]))
                ELSE f[i - 1])
               = IF i = 2 THEN Append(f[i - 1], e) ELSE f[i - 1]
    BY <2>2, <2>3
  <2> QED BY <1>1, <2>4
<1>3. P(g)
  <2>1. g[0] = <<>> /\ g[1] = g[0] /\ g[2] = Append(g[1], e) /\ g[3] = g[2] /\ g[4] = g[3] /\ g[5] = g[4]
    <3> HIDE DEF e
    <3> QED OBVIOUS
  <2> HIDE DEF g, e
  <2>2. \A i \in 0..5 : i \in {0, 1, 2, 3, 4, 5}
    OBVIOUS
  <2>3. ASSUME NEW i \in 0..5 PROVE g[i] = IF i = 0 THEN <<>> ELSE IF i = 2 THEN Append(g[i - 1], e) ELSE g[i - 1]
    <3>1. CASE i = 0
      BY <2>1, <3>1
    <3>2. CASE i = 1
      BY <2>1, <3>2
    <3>3. CASE i = 2
      <4>1. g[i] = g[2] /\ g[i - 1] = g[1] /\ i # 0
        BY <3>3
      <4> QED BY <2>1, <3>3, <4>1
    <3>4. CASE i = 3
      BY <2>1, <3>4
    <3>5. CASE i = 4
      BY <2>1, <3>5
    <3>6. CASE i = 5
      BY <2>1, <3>6
    <3> QED BY <2>2, <3>1, <3>2, <3>3, <3>4, <3>5, <3>6
  <2>4. g = [i \in 0..5 |-> g[i]]
    BY DEF g
  <2>5. g = G(g)
    BY <2>3, <2>4
  <2> HIDE DEF F, G
  <2> QED BY <2>5, <1>f
<1>4. P(after)
  <2> HIDE DEF P
  <2> QED BY <1>3
<1> HIDE DEF after
<1>5. after[5] = <<e>>
  <2>1. after = G(after)
    <3> HIDE DEF F, G
    <3> QED BY <1>4, <1>f
  <2> HIDE DEF e
  <2>2. after[0] = <<>> /\ after[1] = after[0] /\ after[2] = Append(after[1], e)
    BY <2>1
  <2>3. after[3] = after[2] /\ after[4] = after[3] /\ after[5] = after[4]
    BY <2>1
  <2> QED BY <2>2, <2>3
<1> HIDE DEF e
<1> QED BY <1>1, <1>2, <1>5 DEF e

\* The parser finds the address in that entry: what Hashtable::Init sends is
\* what every client receives.
LEMMA RootTravels == RemoteObject!InternalParse(RemoteObject!New, Wire).val["raddr"] = RootPtr.address
<1> DEFINE a == RootPtr.address
           e == RemoteObject!Entry(16, a)
           schema == RemoteObject!Schema
           w == <<e>>
           F(f) == [i \in 0..Len(w) |-> IF i = 0 THEN RemoteObject!New
                                       ELSE RemoteObject!ReadField(schema, f[i - 1], w[i])]
           P(f) == f = F(f)
           after == CHOOSE f : P(f)
           G(f) == [i \in 0..1 |-> IF i = 0 THEN RemoteObject!New ELSE RemoteObject!ReadField(schema, f[i - 1], e)]
           g == [i \in 0..1 |-> IF i = 0 THEN RemoteObject!New
                               ELSE RemoteObject!ReadField(schema, RemoteObject!New, e)]
<1>1. e.tag = 16 /\ e.v = a
  BY DEF RemoteObject!Entry
<1>2. Len(w) = 1 /\ w[1] = e
  OBVIOUS
<1>3. RemoteObject!UpToEnd(w) = w
  <2>1. ~RemoteObject!EndsMessage(w[1])
    BY <1>1, <1>2 DEF RemoteObject!EndsMessage
  <2>2. {i \in 1..Len(w) : RemoteObject!EndsMessage(w[i])} = {}
    BY <1>2, <2>1
  <2> HIDE DEF w
  <2> QED BY <2>2 DEF RemoteObject!UpToEnd
<1>4. RemoteObject!InternalParse(RemoteObject!New, w) = after[Len(w)]
  BY <1>3 DEF RemoteObject!InternalParse, RemoteObject!ReadFields, RemoteObject!Through
<1> HIDE DEF e, schema, w
<1>5. ASSUME NEW f PROVE F(f) = G(f)
  BY <1>2
<1>6. P(g)
  <2>1. g[0] = RemoteObject!New /\ g[1] = RemoteObject!ReadField(schema, g[0], e)
    OBVIOUS
  <2>2. g = [i \in 0..1 |-> g[i]]
    OBVIOUS
  <2> HIDE DEF g
  <2>3. ASSUME NEW i \in 0..1
        PROVE  g[i] = IF i = 0 THEN RemoteObject!New ELSE RemoteObject!ReadField(schema, g[i - 1], e)
    <3>1. CASE i = 0
      BY <2>1, <3>1
    <3>2. CASE i = 1
      BY <2>1, <3>2
    <3> QED BY <3>1, <3>2
  <2>4. g = G(g)
    BY <2>2, <2>3
  <2> HIDE DEF F, G
  <2> QED BY <1>5, <2>4
<1>7. after[1] = RemoteObject!ReadField(schema, RemoteObject!New, e)
  <2>1. P(after)
    <3> HIDE DEF P
    <3> QED BY <1>6
  <2> HIDE DEF after
  <2>2. after = G(after)
    <3> HIDE DEF F, G
    <3> QED BY <1>5, <2>1
  <2> QED BY <2>2
<1>8. RemoteObject!ReadField(schema, RemoteObject!New, e) = RemoteObject!Put(RemoteObject!New, "raddr", a)
  <2>1. /\ Len(schema) = 5 /\ DOMAIN schema = {1, 2, 3, 4, 5}
        /\ schema[1].tag = 10 /\ schema[2].tag = 16 /\ schema[3].tag = 24
        /\ schema[4].tag = 32 /\ schema[5].tag = 40 /\ schema[2].name = "raddr"
    BY DEF schema, RemoteObject!Schema, RemoteObject!Field
  <2>2. e.tag \in RemoteObject!Tags(schema)
    BY <1>1, <2>1 DEF RemoteObject!Tags
  <2>3. \A f \in RemoteObject!Range(schema) : f.tag = 16 => f = schema[2]
    BY <2>1 DEF RemoteObject!Range
  <2>4. schema[2] \in RemoteObject!Range(schema)
    BY <2>1 DEF RemoteObject!Range
  <2>5. RemoteObject!NameOf(schema, 16) = "raddr"
    BY <2>1, <2>3, <2>4 DEF RemoteObject!NameOf
  <2> QED BY <1>1, <2>2, <2>5 DEF RemoteObject!ReadField
<1>9. RemoteObject!Put(RemoteObject!New, "raddr", a) = proto
  BY DEF proto, RemoteObject!set
<1>10. Wire = w
  BY WireIs DEF w, e
<1> QED BY <1>2, <1>4, <1>7, <1>8, <1>9, <1>10, ProtoIs

-----------------------------------------------------------------------------
(* Frames *)

\* A process that is in no set operation.
LEMMA OutType ==
  ASSUME NEW res \in Res
  PROVE  OutFrame(res) \in Frames
<1>1. 0 \in Lists
  BY TableAssumption
<1>2. <<>> \in Seq(Node)
  OBVIOUS
<1> DEFINE SN == Seq(Node)
<1> HIDE DEF SN
<1>3. Frames = [at : Inside \cup {"out", "acquire"}, op : OpKinds \cup {"none"}, list : Lists,
                key : Keys \cup {0}, val : Vals \cup {0}, node : Nat \ {0}, buf : SN, total : Int, res : Res]
  BY DEF Frames, SN
<1>4. <<>> \in SN
  BY <1>2 DEF SN
<1> QED BY <1>1, <1>3, <1>4 DEF OutFrame

\* The frame of a process that enters a set operation.
LEMMA EnterType ==
  ASSUME NEW op \in OpKinds, NEW l \in Lists, NEW key \in Keys, NEW val \in Vals \cup {0}
  PROVE  NewFrame(op, l, key, val) \in Frames
<1>1. Nothing \in Res
  BY DEF Nothing, Res
<1>2. <<>> \in Seq(Node)
  OBVIOUS
<1> DEFINE SN == Seq(Node)
<1> HIDE DEF SN
<1>3. Frames = [at : Inside \cup {"out", "acquire"}, op : OpKinds \cup {"none"}, list : Lists,
                key : Keys \cup {0}, val : Vals \cup {0}, node : Nat \ {0}, buf : SN, total : Int, res : Res]
  BY DEF Frames, SN
<1>4. <<>> \in SN
  BY <1>2 DEF SN
<1> QED BY <1>1, <1>3, <1>4 DEF NewFrame

\* The frame of a process that goes on in its set operation.
LEMMA StepType ==
  ASSUME NEW f \in Frames, NEW at \in Inside, NEW node \in Nat \ {0}, NEW buf \in Seq(Node),
         NEW tot \in Int, NEW res \in Res
  PROVE  /\ [f EXCEPT !.at = at, !.node = node, !.buf = buf, !.total = tot, !.res = res] \in Frames
         /\ [f EXCEPT !.at = at, !.buf = buf, !.total = tot] \in Frames
         /\ [f EXCEPT !.at = at] \in Frames
<1> DEFINE SN == Seq(Node)
<1>1. buf \in SN
  OBVIOUS
<1>2. Frames = [at : Inside \cup {"out", "acquire"}, op : OpKinds \cup {"none"}, list : Lists,
                key : Keys \cup {0}, val : Vals \cup {0}, node : Nat \ {0}, buf : SN, total : Int, res : Res]
  BY DEF Frames, SN
<1> HIDE DEF SN
<1> QED BY <1>1, <1>2

-----------------------------------------------------------------------------
(* Steps of a process in a set: the table does not change *)

\* Who owns what depends on rh, the locks and the frames.
LEMMA SameTable ==
  ASSUME UNCHANGED tvars
  PROVE  /\ Frozen' = Frozen /\ Top' = Top /\ newStart' = newStart /\ newCount' = newCount
         /\ UNCHANGED <<root, call, pc, ret, todo, rh, chan, own>>
<1>1. UNCHANGED <<root, call, pc, ret, todo, rh, chan, own>>
  BY DEF tvars, xvars
<1> QED BY <1>1 DEF Frozen, FrozenFrom, FrozenTo, Top, newStart, newCount, oldList, rhAt, indexAt

\* A step inside a set changes at most the chain of that set and the frame.
LEMMA InsideStep ==
  ASSUME TableInv, NEW p \in Procs, UNCHANGED tvars, UNCHANGED lock, SetTypes',
         frame[p].at \in Inside, frame'[p].at \in Inside,
         frame'[p].list = frame[p].list, frame'[p].op = frame[p].op,
         frame'[p].key = frame[p].key, frame'[p].val = frame[p].val,
         frame'[p].node \in 1..Len(nodes'[frame[p].list]),
         frame'[p].at \in {"write", "add"} => frame'[p].buf # <<>>,
         \A q \in Procs \ {p} : frame'[q] = frame[q],
         \A l \in Lists \ {frame[p].list} : nodes'[l] = nodes[l],
         nodes'[frame[p].list] # <<>>
  PROVE  TableInv'
<1>1. /\ Frozen' = Frozen /\ Top' = Top /\ newStart' = newStart /\ newCount' = newCount
      /\ UNCHANGED <<root, call, pc, ret, todo, rh, chan, own>>
  BY SameTable
<1>2. TableTypes'
  BY <1>1 DEF TableInv, TableTypes, Wire
<1>3. RehashInv'
  BY <1>1 DEF TableInv, RehashInv, Exists, ArrayAt, SizeAt
<1>4. ArrayInv'
  BY <1>1 DEF TableInv, ArrayInv, Exists, ArrayAt, SizeAt
<1>5. \A q \in Procs : frame'[q].at \in Inside <=> frame[q].at \in Inside
  OBVIOUS
<1>6. \A q \in Procs : frame'[q].list = frame[q].list
  OBVIOUS
<1>7. \A l : Holders(l)' = Holders(l)
  BY <1>5, <1>6 DEF Holders
<1>8. OwnerInv'
  BY <1>1, <1>5, <1>6, <1>7 DEF TableInv, OwnerInv
<1>9. ASSUME NEW q \in Procs PROVE FrameInv(q)'
  <2>1. CASE q = p
    BY <2>1 DEF TableInv, FrameInv, Inside
  <2>2. CASE q # p
    <3>1. frame[q].at \in Inside => frame[q].list # frame[p].list
      BY <2>2 DEF TableInv, OwnerInv
    <3>2. frame'[q] = frame[q] /\ FrameInv(q) /\ UNCHANGED lock
      BY <2>2 DEF TableInv
    <3>3. frame[q].list \in Lists
      BY DEF TableInv, SetTypes, Frames
    <3>4. frame[q].at \in Inside => nodes'[frame[q].list] = nodes[frame[q].list]
      BY <3>1, <3>3
    <3> QED BY <3>2, <3>4 DEF FrameInv
  <2> QED BY <2>1, <2>2
<1>10. ASSUME NEW t \in Threads PROVE CallInv(t)'
  <2>1. frame[t].at # "out" \/ t # p
    BY DEF Inside
  <2> QED BY <1>1, <2>1, TableAssumption DEF TableInv, CallInv
<1> QED BY <1>2, <1>3, <1>4, <1>8, <1>9, <1>10 DEF TableInv

\* What is known of a process inside a set.
LEMMA InsideFacts ==
  ASSUME TableInv, NEW p \in Procs, frame[p].at \in Inside
  PROVE  /\ frame[p] \in Frames /\ frame[p].list \in Lists /\ frame[p].node \in Nat \ {0}
         /\ frame[p].buf \in Seq(Node) /\ frame[p].total \in Int /\ frame[p].res \in Res
         /\ nodes[frame[p].list] \in Seq(Node) /\ nodes[frame[p].list] # <<>>
         /\ frame[p].node \in 1..Len(nodes[frame[p].list]) /\ Node_(p) \in Node
         /\ lock[frame[p].list] = LOCKED /\ frame[p].list \notin Frozen
         /\ total[frame[p].list] \in Int
         /\ frame[p].key \in Keys /\ (frame[p].op = "insert" => frame[p].val \in Vals)
         /\ frame[p].at \in {"write", "add"} => frame[p].buf # <<>>
<1>1. frame[p] \in Frames
  BY DEF TableInv, SetTypes
<1>2. /\ frame[p].list \in Lists /\ frame[p].node \in Nat \ {0} /\ frame[p].buf \in Seq(Node)
      /\ frame[p].total \in Int /\ frame[p].res \in Res
  BY <1>1 DEF Frames
<1>3. nodes[frame[p].list] \in Seq(Node) /\ total[frame[p].list] \in Int
  BY <1>2 DEF TableInv, SetTypes
<1>4. lock[frame[p].list] = LOCKED /\ frame[p].list \notin Frozen
  BY DEF TableInv, OwnerInv
<1>5. nodes[frame[p].list] # <<>>
  BY <1>2, <1>4 DEF TableInv, ArrayInv, LOCKED, RAW
<1>6. /\ frame[p].node \in 1..Len(nodes[frame[p].list])
      /\ frame[p].key \in Keys /\ (frame[p].op = "insert" => frame[p].val \in Vals)
      /\ frame[p].at \in {"write", "add"} => frame[p].buf # <<>>
  BY DEF TableInv, FrameInv, Inside
<1>7. Node_(p) \in Node
  BY <1>3, <1>6 DEF Node_
<1> QED BY <1>1, <1>2, <1>3, <1>4, <1>5, <1>6, <1>7

\* A read of a node on the way along the chain.
LEMMA ReadStep ==
  ASSUME TableInv, NEW p \in Procs, UNCHANGED tvars, frame[p].at \in Inside,
         NEW at \in Inside, NEW node \in 1..Len(nodes[frame[p].list]),
         NEW buf \in Seq(Node), NEW res \in Res, Step(p, at, node, buf, res),
         at \in {"write", "add"} => buf # <<>>
  PROVE  TableInv'
<1> DEFINE l == frame[p].list
           g == [frame[p] EXCEPT !.at = at, !.node = node, !.buf = buf, !.total = total[l], !.res = res]
<1>1. frame[p] \in Frames /\ nodes[l] \in Seq(Node) /\ nodes[l] # <<>> /\ total[l] \in Int /\ l \in Lists
  BY InsideFacts
<1>2. frame' = [frame EXCEPT ![p] = g] /\ UNCHANGED <<lock, nodes, total>>
  BY DEF Step
<1>3. node \in Nat \ {0}
  BY <1>1
<1>4. g \in Frames
  BY <1>1, <1>3, StepType
<1>5. frame \in [Procs -> Frames]
  BY DEF TableInv, SetTypes
<1>6. SetTypes'
  BY <1>2, <1>4, <1>5 DEF TableInv, SetTypes
<1>7. frame'[p] = g /\ \A q \in Procs \ {p} : frame'[q] = frame[q]
  BY <1>2, <1>5
<1>8. /\ g.at = at /\ g.list = l /\ g.op = frame[p].op /\ g.key = frame[p].key
      /\ g.val = frame[p].val /\ g.node = node /\ g.buf = buf
  BY <1>1 DEF Frames
<1> HIDE DEF g
<1> QED BY <1>1, <1>2, <1>6, <1>7, <1>8, InsideStep

-----------------------------------------------------------------------------
(* The operators of a set *)

\* A set of natural numbers has a smallest one.
LEMMA MinIn ==
  ASSUME NEW T, T \subseteq Nat, T # {}
  PROVE  Min(T) \in T /\ \A y \in T : Min(T) <= y
<1> DEFINE R == OpToRel(<, Nat)
<1>1. IsWellFoundedOn(R, Nat)
  BY NatLessThanWellFounded
<1>2. \A x, y \in Nat : y < x => <<y, x>> \in R
  BY DEF OpToRel
<1> HIDE DEF R
<1>3. PICK x \in T : \A y \in T : ~(<<y, x>> \in R)
  BY <1>1, WFMin
<1>4. \A y \in T : x <= y
  <2> SUFFICES ASSUME NEW y \in T PROVE x <= y
    OBVIOUS
  <2>1. x \in Nat /\ y \in Nat
    BY <1>3
  <2>2. ~(y < x)
    BY <2>1, <1>2, <1>3
  <2> QED BY <2>1, <2>2
<1> QED BY <1>3, <1>4 DEF Min

\* The search in a node finds a pair of the node.
LEMMA FoundInNode ==
  ASSUME NEW s \in Node, NEW key, Hits(s, key) # {}
  PROVE  /\ Min(Hits(s, key)) \in 1..Len(s)
         /\ s[Min(Hits(s, key))] \in Pair
         /\ s[Min(Hits(s, key))].key = key
         /\ s[Min(Hits(s, key))].val \in Vals
<1>1. s \in Seq(Pair)
  BY DEF Node
<1>2. Hits(s, key) \subseteq Nat
  BY <1>1 DEF Hits
<1>3. Min(Hits(s, key)) \in Hits(s, key)
  BY <1>2, MinIn
<1>4. Min(Hits(s, key)) \in 1..Len(s) /\ s[Min(Hits(s, key))].key = key
  BY <1>3 DEF Hits
<1>5. s[Min(Hits(s, key))] \in Pair
  BY <1>1, <1>4
<1> QED BY <1>4, <1>5 DEF Pair

\* remove's node: one pair less, the last one moved to the place of the hit.
LEMMA WithoutNode ==
  ASSUME NEW s \in Node, NEW i \in 1..Len(s)
  PROVE  /\ Without(s, i) \in Node
         /\ Len(Without(s, i)) = Len(s) - 1
         /\ \A j \in 1..(Len(s) - 1) : Without(s, i)[j] = IF j = i THEN s[Len(s)] ELSE s[j]
<1> DEFINE e == [s EXCEPT ![i] = s[Len(s)]]
<1>1. s \in Seq(Pair) /\ Len(s) \in Nat /\ Len(s) <= NODE_BUNDLE_SIZE
  BY DEF Node
<1>2. s[Len(s)] \in Pair
  BY <1>1
<1>3. e \in Seq(Pair) /\ Len(e) = Len(s) /\ \A j \in 1..Len(s) : e[j] = IF j = i THEN s[Len(s)] ELSE s[j]
  BY <1>1, <1>2
<1> HIDE DEF e
<1>4. /\ SubSeq(e, 1, Len(s) - 1) \in Seq(Pair)
      /\ Len(SubSeq(e, 1, Len(s) - 1)) = Len(s) - 1
      /\ \A j \in 1..(Len(s) - 1) : SubSeq(e, 1, Len(s) - 1)[j] = e[j]
  BY <1>1, <1>3
<1>5. Without(s, i) = SubSeq(e, 1, Len(s) - 1)
  BY DEF Without, e
<1> QED BY <1>1, <1>3, <1>4, <1>5, SetAssumption DEF Node

\* insert's node: one pair more, if there is room.
LEMMA AppendNode ==
  ASSUME NEW s \in Node, NEW kv \in Pair
  PROVE  /\ Len(s) # NODE_BUNDLE_SIZE => Append(s, kv) \in Node
         /\ <<kv>> \in Node
<1>1. s \in Seq(Pair) /\ Len(s) <= NODE_BUNDLE_SIZE
  BY DEF Node
<1>2. Append(s, kv) \in Seq(Pair) /\ Len(Append(s, kv)) = Len(s) + 1
  BY <1>1
<1>3. <<kv>> \in Seq(Pair) /\ Len(<<kv>>) = 1
  OBVIOUS
<1> QED BY <1>1, <1>2, <1>3, SetAssumption DEF Node

-----------------------------------------------------------------------------
(* Every step of a process in a set preserves TableInv *)

LEMMA GoOnInv ==
  ASSUME TableInv, NEW p \in Procs, UNCHANGED tvars, frame[p].at = "walk", GoOn(p)
  PROVE  TableInv'
<1>1. /\ frame[p].node \in 1..Len(nodes[frame[p].list]) /\ frame[p].res \in Res
      /\ nodes[frame[p].list] \in Seq(Node)
  BY InsideFacts DEF Inside
<1>2. frame[p].node + 1 \in 1..Len(nodes[frame[p].list])
  BY <1>1 DEF GoOn, IsLast
<1>3. <<>> \in Seq(Node)
  OBVIOUS
<1>4. Step(p, "walk", frame[p].node + 1, <<>>, frame[p].res)
  BY DEF GoOn
<1>5. frame[p].at \in Inside /\ "walk" \in Inside
  BY DEF Inside
<1> QED BY <1>1, <1>2, <1>3, <1>4, <1>5, ReadStep

LEMMA AnswerInv ==
  ASSUME TableInv, NEW p \in Procs, UNCHANGED tvars, frame[p].at = "walk",
         NEW s \in {"true", "false"}, NEW v \in Vals \cup {0}, Answer(p, s, v)
  PROVE  TableInv'
<1>1. frame[p].node \in 1..Len(nodes[frame[p].list])
  BY InsideFacts DEF Inside
<1>2. <<>> \in Seq(Node)
  OBVIOUS
<1>3. [status |-> s, result |-> v] \in Res
  BY DEF Res
<1>4. Step(p, "unlock", frame[p].node, <<>>, [status |-> s, result |-> v])
  BY DEF Answer
<1>5. frame[p].at \in Inside /\ "unlock" \in Inside
  BY DEF Inside
<1> QED BY <1>1, <1>2, <1>3, <1>4, <1>5, ReadStep

\* The value of a pair that was found.
LEMMA FoundValType ==
  ASSUME TableInv, NEW p \in Procs, frame[p].at = "walk", Found(p)
  PROVE  FoundVal(p) \in Vals /\ FoundAt(p) \in 1..Len(Node_(p))
<1>1. Node_(p) \in Node
  BY InsideFacts DEF Inside
<1> QED BY <1>1, FoundInNode DEF Found, FoundVal, FoundAt

LEMMA ContainsInv ==
  ASSUME TableInv, NEW p \in Procs, UNCHANGED tvars, contains(p)
  PROVE  TableInv'
<1>1. frame[p].at = "walk"
  BY DEF contains, Walking
<1>2. CASE Found(p) /\ Answer(p, "true", FoundVal(p))
  BY <1>1, <1>2, FoundValType, AnswerInv
<1>3. CASE GoOn(p)
  BY <1>1, <1>3, GoOnInv
<1>4. CASE Answer(p, "false", 0)
  BY <1>1, <1>4, AnswerInv
<1> QED BY <1>2, <1>3, <1>4 DEF contains

\* A walk that ends in a write.
LEMMA ToWriteInv ==
  ASSUME TableInv, NEW p \in Procs, UNCHANGED tvars, frame[p].at = "walk",
         NEW buf \in Seq(Node), buf # <<>>, NEW v \in Vals \cup {0},
         Step(p, "write", frame[p].node, buf, [status |-> "true", result |-> v])
  PROVE  TableInv'
<1>1. frame[p].node \in 1..Len(nodes[frame[p].list])
  BY InsideFacts DEF Inside
<1>2. [status |-> "true", result |-> v] \in Res
  BY DEF Res
<1>3. frame[p].at \in Inside /\ "write" \in Inside
  BY DEF Inside
<1> QED BY <1>1, <1>2, <1>3, ReadStep

LEMMA RemoveInv ==
  ASSUME TableInv, NEW p \in Procs, UNCHANGED tvars, remove(p)
  PROVE  TableInv'
<1>1. frame[p].at = "walk"
  BY DEF remove, Walking
<1>2. CASE Found(p) /\ Step(p, "write", frame[p].node, << Without(Node_(p), FoundAt(p)) >>,
                            [status |-> "true", result |-> FoundVal(p)])
  <2>1. FoundVal(p) \in Vals /\ FoundAt(p) \in 1..Len(Node_(p))
    BY <1>1, <1>2, FoundValType
  <2>2. Node_(p) \in Node
    BY <1>1, InsideFacts DEF Inside
  <2>3. Without(Node_(p), FoundAt(p)) \in Node
    BY <2>1, <2>2, WithoutNode
  <2>4. << Without(Node_(p), FoundAt(p)) >> \in Seq(Node)
    BY <2>3
  <2> QED BY <1>1, <1>2, <2>1, <2>4, ToWriteInv
<1>3. CASE GoOn(p)
  BY <1>1, <1>3, GoOnInv
<1>4. CASE Answer(p, "false", 0)
  BY <1>1, <1>4, AnswerInv
<1> QED BY <1>2, <1>3, <1>4 DEF remove

LEMMA InsertInv ==
  ASSUME TableInv, NEW p \in Procs, UNCHANGED tvars, insert(p)
  PROVE  TableInv'
<1> DEFINE kv   == [key |-> frame[p].key, val |-> frame[p].val]
           done == [status |-> "true", result |-> 0]
<1>1. frame[p].at = "walk" /\ frame[p].op = "insert"
  BY DEF insert, Walking
<1>2. Node_(p) \in Node /\ frame[p].key \in Keys /\ frame[p].val \in Vals
  BY <1>1, InsideFacts DEF Inside
<1>3. kv \in Pair
  BY <1>2 DEF Pair
<1> HIDE DEF kv
<1>4. <<kv>> \in Node /\ (Len(Node_(p)) # NODE_BUNDLE_SIZE => Append(Node_(p), kv) \in Node)
  BY <1>2, <1>3, AppendNode
<1>5. CASE Found(p) /\ Answer(p, "false", FoundVal(p))
  BY <1>1, <1>5, FoundValType, AnswerInv
<1>6. CASE GoOn(p)
  BY <1>1, <1>6, GoOnInv
<1>7. CASE Step(p, "write", frame[p].node, << Node_(p), <<kv>> >>, done)
  <2>1. << Node_(p), <<kv>> >> \in Seq(Node)
    BY <1>2, <1>4
  <2> QED BY <1>1, <1>7, <2>1, ToWriteInv
<1>8. CASE Len(Node_(p)) # NODE_BUNDLE_SIZE
             /\ Step(p, "write", frame[p].node, << Append(Node_(p), kv) >>, done)
  <2>1. << Append(Node_(p), kv) >> \in Seq(Node)
    BY <1>4, <1>8
  <2> QED BY <1>1, <1>8, <2>1, ToWriteInv
<1> QED BY <1>5, <1>6, <1>7, <1>8 DEF insert, kv

-----------------------------------------------------------------------------
(* The writes *)

\* What Splice does to a chain.
LEMMA SpliceChain ==
  ASSUME NEW S, NEW c \in Seq(S), NEW n \in 1..Len(c), NEW b \in Seq(S)
  PROVE  /\ Splice(c, n, b) \in Seq(S)
         /\ Len(Splice(c, n, b)) = Len(c) - 1 + Len(b)
         /\ \A i \in 1..(n - 1) : Splice(c, n, b)[i] = c[i]
         /\ \A i \in n..(n - 1 + Len(b)) : Splice(c, n, b)[i] = b[i - n + 1]
         /\ \A i \in (n + Len(b))..(Len(c) - 1 + Len(b)) : Splice(c, n, b)[i] = c[i - Len(b) + 1]
<1> DEFINE x == SubSeq(c, 1, n - 1)
           y == SubSeq(c, n + 1, Len(c))
           xb == x \o b
<1>0. Len(c) \in Nat /\ Len(b) \in Nat /\ n \in Nat
  OBVIOUS
<1>1. x \in Seq(S) /\ Len(x) = n - 1 /\ \A i \in 1..(n - 1) : x[i] = c[i]
  <2>1. \A i \in 1..(n - 1) : c[i] \in S
    BY <1>0
  <2>2. 1 \in Int /\ n - 1 \in Int
    BY <1>0
  <2>3. /\ x \in Seq(S) /\ Len(x) = IF 1 <= n - 1 THEN n - 1 - 1 + 1 ELSE 0
        /\ \A i \in 1..(n - 1 - 1 + 1) : x[i] = c[1 + i - 1]
    BY <2>1, <2>2, SubSeqProperties
  <2> HIDE DEF x
  <2>4. Len(x) = n - 1 /\ n - 1 - 1 + 1 = n - 1
    BY <1>0, <2>3
  <2>5. \A i \in 1..(n - 1) : 1 + i - 1 = i
    BY <1>0
  <2> QED BY <2>3, <2>4, <2>5
<1>2. y \in Seq(S) /\ Len(y) = Len(c) - n /\ \A i \in 1..(Len(c) - n) : y[i] = c[i + n]
  <2>1. \A i \in (n + 1)..Len(c) : c[i] \in S
    BY <1>0
  <2>2. n + 1 \in Int /\ Len(c) \in Int
    BY <1>0
  <2>3. /\ y \in Seq(S) /\ Len(y) = IF n + 1 <= Len(c) THEN Len(c) - (n + 1) + 1 ELSE 0
        /\ \A i \in 1..(Len(c) - (n + 1) + 1) : y[i] = c[(n + 1) + i - 1]
    BY <2>1, <2>2, SubSeqProperties
  <2> HIDE DEF y
  <2>4. Len(y) = Len(c) - n /\ Len(c) - (n + 1) + 1 = Len(c) - n
    BY <1>0, <2>3
  <2>5. \A i \in 1..(Len(c) - n) : (n + 1) + i - 1 = i + n
    BY <1>0
  <2> QED BY <2>3, <2>4, <2>5
<1>3. Splice(c, n, b) = xb \o y
  BY DEF Splice
<1> HIDE DEF x, y
<1>4. /\ xb \in Seq(S) /\ Len(xb) = n - 1 + Len(b)
      /\ \A i \in 1..(n - 1 + Len(b)) : xb[i] = IF i <= n - 1 THEN x[i] ELSE b[i - (n - 1)]
  <2>1. /\ xb \in Seq(S) /\ Len(xb) = Len(x) + Len(b)
        /\ \A i \in 1..(Len(x) + Len(b)) : xb[i] = IF i <= Len(x) THEN x[i] ELSE b[i - Len(x)]
    BY <1>1, ConcatProperties
  <2> QED BY <1>1, <2>1
<1> HIDE DEF xb
<1>5. /\ xb \o y \in Seq(S) /\ Len(xb \o y) = Len(c) - 1 + Len(b)
      /\ \A i \in 1..(Len(c) - 1 + Len(b)) :
            (xb \o y)[i] = IF i <= n - 1 + Len(b) THEN xb[i] ELSE y[i - (n - 1 + Len(b))]
  <2>1. /\ xb \o y \in Seq(S) /\ Len(xb \o y) = Len(xb) + Len(y)
        /\ \A i \in 1..(Len(xb) + Len(y)) :
              (xb \o y)[i] = IF i <= Len(xb) THEN xb[i] ELSE y[i - Len(xb)]
    BY <1>2, <1>4, ConcatProperties
  <2>2. Len(xb) + Len(y) = Len(c) - 1 + Len(b)
    BY <1>0, <1>2, <1>4
  <2> QED BY <1>4, <2>1, <2>2
<1> DEFINE z == xb \o y
<1> HIDE DEF z
<1>51. \A i \in 1..(Len(c) - 1 + Len(b)) :
            z[i] = IF i <= n - 1 + Len(b) THEN xb[i] ELSE y[i - (n - 1 + Len(b))]
  BY <1>5 DEF z
<1>6. \A i \in 1..(n - 1) : z[i] = c[i]
  <2> SUFFICES ASSUME NEW i \in 1..(n - 1) PROVE z[i] = c[i]
    OBVIOUS
  <2>1. z[i] = xb[i]
    BY <1>0, <1>51
  <2>2. xb[i] = x[i]
    BY <1>0, <1>4
  <2> QED BY <1>1, <2>1, <2>2
<1>7. \A i \in n..(n - 1 + Len(b)) : z[i] = b[i - n + 1]
  <2> SUFFICES ASSUME NEW i \in n..(n - 1 + Len(b)) PROVE z[i] = b[i - n + 1]
    OBVIOUS
  <2>1. z[i] = xb[i]
    BY <1>0, <1>51
  <2>2. xb[i] = b[i - (n - 1)] /\ i - (n - 1) = i - n + 1
    BY <1>0, <1>4
  <2> QED BY <2>1, <2>2
<1>8. \A i \in (n + Len(b))..(Len(c) - 1 + Len(b)) : z[i] = c[i - Len(b) + 1]
  <2> SUFFICES ASSUME NEW i \in (n + Len(b))..(Len(c) - 1 + Len(b)) PROVE z[i] = c[i - Len(b) + 1]
    OBVIOUS
  <2>1. z[i] = y[i - (n - 1 + Len(b))]
    BY <1>0, <1>51
  <2>2. i - (n - 1 + Len(b)) \in 1..(Len(c) - n) /\ i - (n - 1 + Len(b)) + n = i - Len(b) + 1
    BY <1>0
  <2> QED BY <1>2, <2>1, <2>2
<1> QED BY <1>3, <1>5, <1>6, <1>7, <1>8 DEF z

\* A write of the set p is in, by which the chain does not get shorter.
LEMMA WriteStep ==
  ASSUME TableInv, NEW p \in Procs, UNCHANGED tvars, UNCHANGED lock,
         frame[p].at \in {"write", "add"},
         NEW n \in 1..Len(nodes[frame[p].list]),
         nodes' = [nodes EXCEPT ![frame[p].list] = Splice(@, n, frame[p].buf)],
         total' \in [Lists -> Int],
         NEW at \in Inside \ {"write", "add"}, frame' = [frame EXCEPT ![p].at = at]
  PROVE  TableInv'
<1> DEFINE l == frame[p].list
           c == Splice(nodes[l], n, frame[p].buf)
           g == [frame[p] EXCEPT !.at = at]
<1>0. frame[p].at \in Inside
  BY DEF Inside
<1>1. /\ frame[p] \in Frames /\ l \in Lists /\ nodes[l] \in Seq(Node) /\ frame[p].buf \in Seq(Node)
      /\ frame[p].buf # <<>> /\ frame[p].node \in 1..Len(nodes[l])
      /\ frame[p].node \in Nat \ {0} /\ frame[p].total \in Int /\ frame[p].res \in Res
  BY <1>0, InsideFacts
<1>2. c \in Seq(Node) /\ Len(c) = Len(nodes[l]) - 1 + Len(frame[p].buf)
  <2> DEFINE d == nodes[l]
             b == frame[p].buf
  <2>1. d \in Seq(Node) /\ b \in Seq(Node) /\ n \in 1..Len(d)
    BY <1>1
  <2> HIDE DEF d, b
  <2>2. Splice(d, n, b) \in Seq(Node) /\ Len(Splice(d, n, b)) = Len(d) - 1 + Len(b)
    BY ONLY <2>1, SpliceChain
  <2> QED BY <2>2 DEF d, b
<1>3. Len(c) >= Len(nodes[l])
  BY <1>1, <1>2
<1>4. nodes \in [Lists -> Seq(Node)] /\ frame \in [Procs -> Frames]
  BY DEF TableInv, SetTypes
<1>5. nodes'[l] = c /\ \A m \in Lists \ {l} : nodes'[m] = nodes[m]
  BY <1>1, <1>4
<1>6. frame'[p] = g /\ \A q \in Procs \ {p} : frame'[q] = frame[q]
  BY <1>4
<1>7. g \in Frames
  BY <1>1, StepType
<1>8. nodes' \in [Lists -> Seq(Node)]
  <2> HIDE DEF c
  <2>1. nodes' = [nodes EXCEPT ![l] = c]
    BY DEF c
  <2> QED BY <1>2, <1>4, <2>1
<1>9. frame' \in [Procs -> Frames]
  BY <1>4, <1>6, <1>7
<1>10. SetTypes'
  BY <1>8, <1>9 DEF TableInv, SetTypes
<1>11. /\ g.at = at /\ g.list = l /\ g.op = frame[p].op /\ g.key = frame[p].key
       /\ g.val = frame[p].val /\ g.node = frame[p].node
  BY <1>1 DEF Frames
<1> HIDE DEF g, c
<1>12. c # <<>> /\ frame[p].node \in 1..Len(c)
  <2> DEFINE k == frame[p].node
             m == Len(nodes[l])
  <2>1. Len(c) \in Nat /\ m \in Nat /\ k \in 1..m /\ Len(c) >= m
    BY <1>1, <1>2, <1>3, LenProperties
  <2> HIDE DEF k, m
  <2>2. k \in 1..Len(c)
    BY <2>1
  <2>3. Len(c) # 0
    BY <2>1, <2>2
  <2> QED BY <2>2, <2>3 DEF k
<1> QED BY <1>0, <1>5, <1>6, <1>10, <1>11, <1>12, InsideStep

LEMMA WriteInv ==
  ASSUME TableInv, NEW p \in Procs, UNCHANGED tvars, write(p)
  PROVE  TableInv'
<1>1. frame[p].at = "write" /\ frame[p].at \in Inside
  BY DEF write, Inside
<1>2. frame[p].node \in 1..Len(nodes[frame[p].list]) /\ frame[p].total \in Int /\ frame[p].list \in Lists
  BY <1>1, InsideFacts
<1>3. total \in [Lists -> Int]
  BY DEF TableInv, SetTypes
<1>4. total' \in [Lists -> Int]
  BY <1>2, <1>3 DEF write
<1>5. "count" \in Inside \ {"write", "add"}
  BY DEF Inside
<1> QED BY <1>1, <1>2, <1>4, <1>5, WriteStep DEF write

LEMMA ChangeCountWriteInv ==
  ASSUME TableInv, NEW p \in Procs, UNCHANGED tvars, changeCountWrite(p)
  PROVE  TableInv'
<1>1. frame[p].at = "add" /\ frame[p].at \in Inside
  BY DEF changeCountWrite, Inside
<1>2. /\ nodes[frame[p].list] \in Seq(Node) /\ frame[p].total \in Int /\ frame[p].list \in Lists
      /\ nodes[frame[p].list] # <<>>
  BY <1>1, InsideFacts
<1>3. 1 \in 1..Len(nodes[frame[p].list])
  BY <1>2
<1>4. total \in [Lists -> Int]
  BY DEF TableInv, SetTypes
<1>5. frame[p].total + Increment(frame[p].op) \in Int
  BY <1>2 DEF Increment
<1>6. total' \in [Lists -> Int]
  BY <1>2, <1>4, <1>5 DEF changeCountWrite
<1>7. "unlock" \in Inside \ {"write", "add"}
  BY DEF Inside
<1> QED BY <1>1, <1>3, <1>6, <1>7, WriteStep DEF changeCountWrite

LEMMA ChangeCountInv ==
  ASSUME TableInv, NEW p \in Procs, UNCHANGED tvars, changeCount(p)
  PROVE  TableInv'
<1> DEFINE l == frame[p].list
           b == << nodes[l][1] >>
           g == [frame[p] EXCEPT !.at = "add", !.buf = b, !.total = total[l]]
<1>0. frame[p].at \in Inside /\ "add" \in Inside
  BY DEF changeCount, Inside
<1>1. /\ frame[p] \in Frames /\ l \in Lists /\ nodes[l] \in Seq(Node) /\ nodes[l] # <<>>
      /\ frame[p].node \in 1..Len(nodes[l]) /\ total[l] \in Int
      /\ frame[p].node \in Nat \ {0} /\ frame[p].res \in Res
  BY <1>0, InsideFacts
<1>2. b \in Seq(Node) /\ b # <<>>
  BY <1>1
<1> HIDE DEF b
<1>3. g \in Frames
  BY <1>0, <1>1, <1>2, StepType
<1>4. nodes \in [Lists -> Seq(Node)] /\ frame \in [Procs -> Frames]
  BY DEF TableInv, SetTypes
<1>5. frame' = [frame EXCEPT ![p] = g] /\ UNCHANGED <<lock, nodes, total>>
  BY DEF changeCount, b
<1>6. frame'[p] = g /\ \A q \in Procs \ {p} : frame'[q] = frame[q]
  BY <1>4, <1>5
<1>7. SetTypes'
  BY <1>3, <1>4, <1>5 DEF TableInv, SetTypes
<1>8. /\ g.at = "add" /\ g.list = l /\ g.op = frame[p].op /\ g.key = frame[p].key
      /\ g.val = frame[p].val /\ g.node = frame[p].node /\ g.buf = b
  BY <1>1 DEF Frames
<1> HIDE DEF g
<1> QED BY <1>0, <1>1, <1>2, <1>5, <1>6, <1>7, <1>8, InsideStep

\* acquire and unlock change the lock of a set of the current array.
LEMMA LockStep ==
  ASSUME TableInv, UNCHANGED tvars, UNCHANGED nodes,
         NEW l \in Lists, NEW v \in {LOCKED, UNLOCKED},
         lock[l] \in {LOCKED, UNLOCKED}, l \notin Frozen,
         lock' = [lock EXCEPT ![l] = v]
  PROVE  TableTypes' /\ RehashInv' /\ ArrayInv'
<1>1. /\ Frozen' = Frozen /\ Top' = Top /\ newStart' = newStart /\ newCount' = newCount
      /\ UNCHANGED <<root, call, pc, ret, todo, rh, chan, own>>
  BY SameTable
<1>2. TableTypes'
  BY <1>1 DEF TableInv, TableTypes, Wire
<1>3. lock \in [Lists -> {RAW, LOCKED, UNLOCKED, DELETED}]
  BY DEF TableInv, SetTypes
<1>4. \A m \in Lists : lock'[m] = RAW <=> lock[m] = RAW
  BY <1>3 DEF RAW, LOCKED, UNLOCKED
<1>5. \A start : Exists(start) => Exists(start)'
  BY <1>1, <1>4 DEF Exists, ArrayAt, SizeAt
<1>6. RehashInv'
  BY <1>1, <1>5 DEF TableInv, RehashInv, ArrayAt, SizeAt
<1>7. ~(l < root.start)
  BY DEF TableInv, ArrayInv, LOCKED, UNLOCKED, DELETED
<1>8. Exists(root.start)' /\ \A m \in Lists : m >= Top' => lock'[m] = RAW
  BY <1>1, <1>4, <1>5 DEF TableInv, ArrayInv
<1>9. \A m \in Lists : m < root.start' => lock'[m] = DELETED \/ m \in Frozen'
  BY <1>1, <1>3, <1>7 DEF TableInv, ArrayInv
<1>10. \A m \in Lists : lock'[m] # RAW => nodes'[m] # <<>>
  BY <1>4 DEF TableInv, ArrayInv
<1> QED BY <1>2, <1>6, <1>8, <1>9, <1>10 DEF ArrayInv

LEMMA AcquireInv ==
  ASSUME TableInv, NEW p \in Procs, UNCHANGED tvars, acquire(p)
  PROVE  TableInv'
<1> DEFINE l == frame[p].list
<1>1. /\ Frozen' = Frozen /\ UNCHANGED <<root, call, pc, ret, todo, rh, chan, own>>
  BY SameTable
<1>2. /\ frame \in [Procs -> Frames] /\ frame[p] \in Frames /\ l \in Lists
      /\ lock \in [Lists -> {RAW, LOCKED, UNLOCKED, DELETED}]
  BY DEF TableInv, SetTypes, Frames
<1>3. frame[p].at = "acquire" /\ frame[p].at \notin Inside /\ frame[p].at # "out" /\ UNCHANGED <<nodes, total>>
  BY DEF acquire, Inside
<1>4. FrameInv(p)
  BY DEF TableInv
<1>5. CASE lock[l] = UNLOCKED /\ lock' = [lock EXCEPT ![l] = LOCKED] /\ frame' = [frame EXCEPT ![p].at = "walk"]
  <2> DEFINE g == [frame[p] EXCEPT !.at = "walk"]
  <2>1. l \notin Frozen
    BY <1>5 DEF TableInv, OwnerInv, UNLOCKED, LOCKED
  <2>2. TableTypes' /\ RehashInv' /\ ArrayInv'
    BY <1>2, <1>3, <1>5, <2>1, LockStep
  <2>3. /\ frame[p].node \in Nat \ {0} /\ frame[p].buf \in Seq(Node) /\ frame[p].total \in Int
        /\ frame[p].res \in Res /\ "walk" \in Inside
    BY <1>2 DEF Frames, Inside
  <2>4. g \in Frames
    BY <1>2, <2>3, StepType
  <2>5. frame' = [frame EXCEPT ![p] = g]
    BY <1>5
  <2>6. g.at = "walk" /\ g.list = l /\ g.op = frame[p].op /\ g.key = frame[p].key
        /\ g.val = frame[p].val /\ g.node = frame[p].node
    BY <1>2 DEF Frames
  <2> HIDE DEF g
  <2>7. frame'[p] = g /\ \A q \in Procs \ {p} : frame'[q] = frame[q]
    BY <1>2, <2>5
  <2>8. SetTypes'
    BY <1>2, <1>3, <1>5, <2>4, <2>5 DEF TableInv, SetTypes
  <2>9. \A q \in Procs : frame[q].at \in Inside => frame[q].list # l
    BY <1>5 DEF TableInv, OwnerInv, UNLOCKED, LOCKED
  <2>10. ASSUME NEW q \in Procs PROVE FrameInv(q)'
    <3>1. CASE q = p
      <4>1. nodes[l] \in Seq(Node) /\ nodes[l] # <<>>
        BY <1>2, <1>5 DEF TableInv, SetTypes, ArrayInv, UNLOCKED, RAW
      <4>2. frame[p].node \in 1..Len(nodes[l])
        BY <1>3, <1>4, <4>1 DEF FrameInv
      <4>3. lock'[l] # RAW
        BY <1>2, <1>5 DEF LOCKED, RAW
      <4> QED BY <1>3, <1>4, <2>6, <2>7, <3>1, <4>2, <4>3 DEF FrameInv
    <3>2. CASE q # p
      <4>1. frame'[q] = frame[q] /\ FrameInv(q) /\ frame[q].list \in Lists
        BY <1>2, <2>7, <3>2 DEF TableInv, Frames
      <4>2. lock[frame[q].list] # RAW => lock'[frame[q].list] # RAW
        BY <1>2, <1>5, <4>1 DEF LOCKED, RAW
      <4> QED BY <1>3, <4>1, <4>2 DEF FrameInv
    <3> QED BY <3>1, <3>2
  <2>11. ASSUME NEW t \in Threads PROVE CallInv(t)'
    BY <1>1, <1>3, <2>7, TableAssumption DEF TableInv, CallInv
  <2>12. OwnerInv'
    <3>1. \A q, r \in Procs : frame'[q].at \in Inside /\ frame'[r].at \in Inside
                             /\ frame'[q].list = frame'[r].list => q = r
      BY <2>6, <2>7, <2>9 DEF TableInv, OwnerInv
    <3>2. \A q \in Procs : frame'[q].at \in Inside =>
                             lock'[frame'[q].list] = LOCKED /\ frame'[q].list \notin Frozen
      BY <1>2, <1>5, <2>1, <2>6, <2>7, <2>9 DEF TableInv, OwnerInv
    <3>3. \A m \in Frozen : lock'[m] = LOCKED
      BY <1>2, <1>5, <2>1 DEF TableInv, OwnerInv
    <3>4. ASSUME NEW m \in Lists, lock'[m] = LOCKED PROVE m \in Frozen \/ Holders(m)' # {}
      <4>1. CASE m = l
        BY <4>1, <2>3, <2>6, <2>7 DEF Holders
      <4>2. CASE m # l
        <5>1. m \in Frozen \/ Holders(m) # {}
          BY <1>2, <1>5, <3>4, <4>2 DEF TableInv, OwnerInv
        <5>2. Holders(m) \subseteq Holders(m)'
          BY <1>3, <2>7 DEF Holders
        <5> QED BY <5>1, <5>2
      <4> QED BY <4>1, <4>2
    <3> QED BY <1>1, <3>1, <3>2, <3>3, <3>4 DEF OwnerInv
  <2> QED BY <2>2, <2>8, <2>10, <2>11, <2>12 DEF TableInv
<1>6. CASE /\ lock[l] = DELETED /\ UNCHANGED lock
           /\ Leave(p, [status |-> "rehash_deleted", result |-> frame[p].val])
  <2> DEFINE g == OutFrame([status |-> "rehash_deleted", result |-> frame[p].val])
  <2>1. [status |-> "rehash_deleted", result |-> frame[p].val] \in Res
    BY <1>2 DEF Res, Frames
  <2>2. g \in Frames
    BY <2>1, OutType
  <2>3. g.at = "out" /\ g.at \notin Inside
    BY DEF OutFrame, Inside
  <2>4. frame' = [frame EXCEPT ![p] = g]
    BY <1>6 DEF Leave
  <2> HIDE DEF g
  <2>5. frame'[p] = g /\ \A q \in Procs \ {p} : frame'[q] = frame[q]
    BY <1>2, <2>4
  <2>6. SetTypes'
    BY <1>2, <1>3, <1>6, <2>2, <2>4 DEF TableInv, SetTypes
  <2>7. TableTypes' /\ RehashInv' /\ ArrayInv'
    <3>1. Top' = Top /\ newStart' = newStart /\ newCount' = newCount
      BY SameTable
    <3> QED BY <1>1, <1>3, <1>6, <3>1
            DEF TableInv, TableTypes, Wire, RehashInv, ArrayInv, Exists, ArrayAt, SizeAt
  <2>8. \A m : Holders(m)' = Holders(m)
    BY <1>3, <2>3, <2>5 DEF Holders
  <2>9. \A q \in Procs : frame'[q].at \in Inside => frame'[q] = frame[q]
    BY <2>3, <2>5
  <2>10. OwnerInv'
    BY <1>1, <1>6, <2>8, <2>9 DEF TableInv, OwnerInv
  <2>11. ASSUME NEW q \in Procs PROVE FrameInv(q)'
    <3>1. CASE q = p
      BY <2>3, <2>5, <3>1 DEF FrameInv, Inside
    <3>2. CASE q # p
      BY <1>3, <1>6, <2>5, <3>2 DEF TableInv, FrameInv
    <3> QED BY <3>1, <3>2
  <2>12. ASSUME NEW t \in Threads PROVE CallInv(t)'
    BY <1>1, <2>3, <2>5, TableAssumption DEF TableInv, CallInv
  <2> QED BY <2>6, <2>7, <2>10, <2>11, <2>12 DEF TableInv
<1> QED BY <1>5, <1>6 DEF acquire

LEMMA UnlockInv ==
  ASSUME TableInv, NEW p \in Procs, UNCHANGED tvars, unlock(p)
  PROVE  TableInv'
<1> DEFINE l == frame[p].list
           g == OutFrame(frame[p].res)
<1>0. frame[p].at \in Inside
  BY DEF unlock, Inside
<1>1. /\ Frozen' = Frozen /\ UNCHANGED <<root, call, pc, ret, todo, rh, chan, own>>
  BY SameTable
<1>2. /\ frame \in [Procs -> Frames] /\ lock \in [Lists -> {RAW, LOCKED, UNLOCKED, DELETED}]
  BY DEF TableInv, SetTypes
<1>3. l \in Lists /\ frame[p].res \in Res /\ lock[l] = LOCKED /\ l \notin Frozen
  BY <1>0, InsideFacts
<1>4. lock' = [lock EXCEPT ![l] = UNLOCKED] /\ frame' = [frame EXCEPT ![p] = g] /\ UNCHANGED <<nodes, total>>
  BY DEF unlock, Leave
<1>5. g \in Frames
  BY <1>3, OutType
<1>6. g.at = "out" /\ g.at \notin Inside
  BY DEF OutFrame, Inside
<1> HIDE DEF g
<1>7. frame'[p] = g /\ \A q \in Procs \ {p} : frame'[q] = frame[q]
  BY <1>2, <1>4
<1>8. TableTypes' /\ RehashInv' /\ ArrayInv'
  BY <1>3, <1>4, LockStep
<1>9. SetTypes'
  BY <1>2, <1>4, <1>5 DEF TableInv, SetTypes
<1>10. \A q \in Procs : frame'[q].at \in Inside => frame'[q] = frame[q] /\ frame[q].list # l
  BY <1>0, <1>6, <1>7 DEF TableInv, OwnerInv
<1>11. OwnerInv'
  <2>1. \A q, r \in Procs : frame'[q].at \in Inside /\ frame'[r].at \in Inside
                             /\ frame'[q].list = frame'[r].list => q = r
    BY <1>10 DEF TableInv, OwnerInv
  <2>2. \A q \in Procs : frame'[q].at \in Inside =>
                             lock'[frame'[q].list] = LOCKED /\ frame'[q].list \notin Frozen
    BY <1>2, <1>3, <1>4, <1>10 DEF TableInv, OwnerInv
  <2>3. \A m \in Frozen : lock'[m] = LOCKED
    BY <1>2, <1>3, <1>4 DEF TableInv, OwnerInv
  <2>4. ASSUME NEW m \in Lists, lock'[m] = LOCKED PROVE m \in Frozen \/ Holders(m)' # {}
    <3>1. m # l
      BY <1>2, <1>3, <1>4, <2>4 DEF LOCKED, UNLOCKED
    <3>2. m \in Frozen \/ Holders(m) # {}
      BY <1>2, <1>4, <2>4, <3>1 DEF TableInv, OwnerInv
    <3>3. Holders(m) \subseteq Holders(m)'
      BY <1>7, <3>1 DEF Holders
    <3> QED BY <3>2, <3>3
  <2> QED BY <1>1, <2>1, <2>2, <2>3, <2>4 DEF OwnerInv
<1>12. ASSUME NEW q \in Procs PROVE FrameInv(q)'
  <2>1. CASE q = p
    BY <1>6, <1>7, <2>1 DEF FrameInv, Inside
  <2>2. CASE q # p
    <3>1. frame'[q] = frame[q] /\ FrameInv(q) /\ frame[q].list \in Lists
      BY <1>2, <1>7, <2>2 DEF TableInv, Frames
    <3>2. lock[frame[q].list] # RAW => lock'[frame[q].list] # RAW
      BY <1>2, <1>4, <3>1 DEF UNLOCKED, RAW
    <3> QED BY <1>4, <3>1, <3>2 DEF FrameInv
  <2> QED BY <2>1, <2>2
<1>13. ASSUME NEW t \in Threads PROVE CallInv(t)'
  BY <1>1, <1>6, <1>7, TableAssumption DEF TableInv, CallInv
<1> QED BY <1>8, <1>9, <1>11, <1>12, <1>13 DEF TableInv

\* A step of a process in its set operation, a client or the rehash.
LEMMA SetStepInv ==
  ASSUME TableInv, NEW p \in Procs, UNCHANGED tvars, SetStep(p)
  PROVE  TableInv'
BY AcquireInv, ContainsInv, InsertInv, RemoveInv, WriteInv, ChangeCountInv, ChangeCountWriteInv,
   UnlockInv DEF SetStep

-----------------------------------------------------------------------------
(* The steps of a client in the table *)

\* A step that leaves the sets and the rehash alone.
LEMMA ClientStep ==
  ASSUME TableInv, UNCHANGED <<svars, root, rh>>, TableTypes', \A t \in Threads : CallInv(t)'
  PROVE  TableInv'
<1>1. UNCHANGED <<lock, nodes, total, frame, root, rh>>
  BY DEF svars
<1>2. /\ Frozen' = Frozen /\ Top' = Top /\ newStart' = newStart /\ newCount' = newCount
  BY <1>1 DEF Frozen, FrozenFrom, FrozenTo, Top, newStart, newCount, oldList, rhAt, indexAt
<1>3. SetTypes'
  BY <1>1 DEF TableInv, SetTypes
<1>4. RehashInv' /\ ArrayInv'
  BY <1>1, <1>2 DEF TableInv, RehashInv, ArrayInv, Exists, ArrayAt, SizeAt
<1>5. \A l : Holders(l)' = Holders(l)
  BY <1>1 DEF Holders
<1>6. OwnerInv'
  BY <1>1, <1>2, <1>5 DEF TableInv, OwnerInv
<1>7. \A p \in Procs : FrameInv(p)'
  BY <1>1 DEF TableInv, FrameInv
<1> QED BY <1>3, <1>4, <1>6, <1>7 DEF TableInv

LEMMA TryDeliverInv ==
  ASSUME TableInv, NEW t \in Threads, TryDeliver(t)
  PROVE  TableInv'
<1>1. CASE UNCHANGED vars
  <2>1. UNCHANGED <<svars, root, call, pc, ret, todo, rh, chan, own>>
    BY <1>1 DEF vars, tvars, xvars
  <2>2. TableTypes'
    BY <2>1 DEF TableInv, TableTypes, Wire
  <2>3. \A u \in Threads : CallInv(u)'
    BY <2>1 DEF TableInv, CallInv, svars
  <2> QED BY <2>1, <2>2, <2>3, ClientStep
<1>2. CASE chan[t] # <<>> /\ ~UNCHANGED vars
  <2> DEFINE W == {Wire}
  <2>1. chan \in [Threads -> Seq(W)] /\ own \in [Procs -> {NoPtr, RootPtr}]
        /\ pc \in [Threads -> {"join", "idle", "start", "set", "wild"}]
    BY DEF TableInv, TableTypes
  <2>2. chan[t] \in Seq(W) /\ chan[t] # <<>>
    BY <1>2, <2>1
  <2>3. Head(chan[t]) = Wire
    <3>1. Head(chan[t]) \in W
      BY <2>2, HeadTailProperties
    <3> QED BY <3>1
  <2>4. RemoteObject!InternalParse(RemoteObject!New, Head(chan[t])).val["raddr"] = RootPtr.address
    BY <2>3, RootTravels
  <2> HIDE DEF W
  <2>5. Tail(chan[t]) \in Seq(W)
    BY <2>2, HeadTailProperties
  <2>6. /\ own' = [own EXCEPT ![t] = [id |-> Server, address |-> 
                        RemoteObject!InternalParse(RemoteObject!New, Head(chan[t])).val["raddr"]]]
        /\ chan' = [chan EXCEPT ![t] = Tail(@)]
        /\ pc' = [pc EXCEPT ![t] = "idle"]
        /\ UNCHANGED <<svars, root, call, ret, todo, rh>>
    BY <1>2 DEF TryDeliver
  <2>7. own' = [own EXCEPT ![t] = RootPtr]
    <3>1. [id |-> Server, address |-> RootPtr.address] = RootPtr
      BY DEF RootPtr
    <3> QED BY <2>4, <2>6, <3>1
  <2>8. TableTypes'
    <3>1. own' \in [Procs -> {NoPtr, RootPtr}]
      BY <2>1, <2>7
    <3>2. chan' \in [Threads -> Seq(W)]
      BY <2>1, <2>5, <2>6
    <3>3. pc' \in [Threads -> {"join", "idle", "start", "set", "wild"}]
      BY <2>1, <2>6
    <3>4. UNCHANGED <<root, call, todo, rh>>
      BY <2>6
    <3>5. Wire' = Wire
      BY DEF Wire
    <3> QED BY <3>1, <3>2, <3>3, <3>4, <3>5 DEF TableInv, TableTypes, W
  <2>9. ASSUME NEW u \in Threads PROVE CallInv(u)'
    <3>1. pc'[u] = IF u = t THEN "idle" ELSE pc[u]
      BY <2>1, <2>6
    <3>2. pc[t] = "join" /\ UNCHANGED <<frame, call>>
      BY <2>6 DEF TryDeliver, svars
    <3> QED BY <3>1, <3>2 DEF TableInv, CallInv
  <2> QED BY <2>6, <2>8, <2>9, ClientStep
<1> QED BY <1>1, <1>2 DEF TryDeliver

LEMMA InvokeInv ==
  ASSUME TableInv, NEW t \in Threads, Invoke(t)
  PROVE  TableInv'
<1> DEFINE CallType == [op : OpKinds \cup {"none"}, key : Keys \cup {0}, val : Vals \cup {0}]
<1>1. PICK c \in Calls(t) : call' = [call EXCEPT ![t] = c]
  BY DEF Invoke
<1>2. c \in [op : Mix[t], key : Keys, val : Vals \cup {0}] /\ c.val = IF c.op = "insert" THEN c.key ELSE 0
  BY <1>1 DEF Calls
<1>3. Mix[t] \subseteq OpKinds /\ Vals = Keys
  BY TableAssumption
<1>4. c \in CallType /\ c.op \in OpKinds /\ c.key \in Keys /\ (c.op = "insert" => c.val \in Vals)
  BY <1>2, <1>3
<1>5. /\ call \in [Threads -> CallType] /\ todo \in [Threads -> Nat]
      /\ pc \in [Threads -> {"join", "idle", "start", "set", "wild"}]
  BY DEF TableInv, TableTypes
<1>6. /\ pc[t] = "idle" /\ todo[t] > 0 /\ pc' = [pc EXCEPT ![t] = "start"]
      /\ todo' = [todo EXCEPT ![t] = @ - 1] /\ UNCHANGED <<svars, root, rh, chan, own>>
  BY DEF Invoke, xvars
<1>7. TableTypes'
  <2>1. call' \in [Threads -> CallType]
    BY <1>1, <1>4, <1>5
  <2>2. todo' \in [Threads -> Nat]
    BY <1>5, <1>6
  <2>3. pc' \in [Threads -> {"join", "idle", "start", "set", "wild"}]
    BY <1>5, <1>6
  <2> QED BY <1>6, <2>1, <2>2, <2>3 DEF TableInv, TableTypes, Wire
<1>8. ASSUME NEW u \in Threads PROVE CallInv(u)'
  <2>1. CASE u = t
    <3>1. pc'[t] = "start" /\ call'[t] = c /\ frame' = frame
      BY <1>1, <1>5, <1>6 DEF svars
    <3> QED BY <1>4, <1>6, <2>1, <3>1 DEF TableInv, CallInv
  <2>2. CASE u # t
    <3>1. pc'[u] = pc[u] /\ call'[u] = call[u] /\ frame' = frame
      BY <1>1, <1>5, <1>6, <2>2 DEF svars
    <3> QED BY <3>1 DEF TableInv, CallInv
  <2> QED BY <2>1, <2>2
<1> QED BY <1>6, <1>7, <1>8, ClientStep

\* A process that is in no set operation enters one of a set that exists.
LEMMA EnterStep ==
  ASSUME TableInv, NEW p \in Procs, frame[p].at = "out", UNCHANGED <<lock, nodes, total>>, Frozen' = Frozen,
         NEW op \in OpKinds, NEW l \in Lists, NEW key \in Keys, NEW val \in Vals \cup {0},
         lock[l] # RAW, op = "insert" => val \in Vals, Enter(p, op, l, key, val)
  PROVE  /\ SetTypes' /\ OwnerInv' /\ \A q \in Procs : FrameInv(q)'
         /\ frame'[p].at # "out" /\ \A q \in Procs \ {p} : frame'[q] = frame[q]
<1> DEFINE g == NewFrame(op, l, key, val)
<1>1. frame \in [Procs -> Frames] /\ g \in Frames
  BY EnterType DEF TableInv, SetTypes
<1>2. frame' = [frame EXCEPT ![p] = g]
  BY DEF Enter
<1>3. /\ g.at = "acquire" /\ g.at \notin Inside /\ g.at # "out" /\ g.op = op /\ g.list = l
      /\ g.key = key /\ g.val = val /\ g.node = 1
  BY DEF NewFrame, Inside
<1> HIDE DEF g
<1>4. frame'[p] = g /\ \A q \in Procs \ {p} : frame'[q] = frame[q]
  BY <1>1, <1>2
<1>5. SetTypes'
  BY <1>1, <1>2 DEF TableInv, SetTypes
<1>6. \A q \in Procs : frame'[q].at \in Inside => frame'[q] = frame[q]
  BY <1>3, <1>4
<1>7. \A m : Holders(m)' = Holders(m)
  BY <1>3, <1>4 DEF Holders, Inside
<1>8. OwnerInv'
  BY <1>6, <1>7 DEF TableInv, OwnerInv
<1>9. ASSUME NEW q \in Procs PROVE FrameInv(q)'
  <2>1. CASE q = p
    BY <1>3, <1>4, <2>1 DEF FrameInv
  <2>2. CASE q # p
    BY <1>4, <2>2 DEF TableInv, FrameInv
  <2> QED BY <2>1, <2>2
<1> QED BY <1>3, <1>4, <1>5, <1>8, <1>9

LEMMA ReadRootInv ==
  ASSUME TableInv, NEW t \in Threads, readRoot(t)
  PROVE  TableInv'
<1> DEFINE index == keyhash(call[t].key, root.count)
           l == indexAt(root.start, index)
<1>1. /\ pc[t] = "start" /\ UNCHANGED <<lock, nodes, total, root, call, ret, todo, rh, chan, own>>
  BY DEF readRoot, xvars
<1>2. /\ Frozen' = Frozen /\ Top' = Top /\ newStart' = newStart /\ newCount' = newCount
  BY <1>1 DEF Frozen, FrozenFrom, FrozenTo, Top, newStart, newCount, oldList, rhAt, indexAt
<1>3. pc \in [Threads -> {"join", "idle", "start", "set", "wild"}] /\ t \in Procs
  BY TableAssumption DEF TableInv, TableTypes
<1>4. /\ call[t].key \in Keys /\ call[t].op \in OpKinds /\ (call[t].op = "insert" => call[t].val \in Vals)
      /\ frame[t].at = "out"
  BY <1>1 DEF TableInv, CallInv
<1>5. call[t].val \in Vals \cup {0}
  BY DEF TableInv, TableTypes
<1>6. CASE index < SizeAt(root.start) /\ pc' = [pc EXCEPT ![t] = "set"]
             /\ Enter(t, call[t].op, l, call[t].key, call[t].val)
  <2>1. /\ root.count \in Nat \ {0} /\ root.start \in Nat /\ call[t].key \in Nat /\ INITIAL_SIZE \in Nat
    BY <1>4, SetAssumption, TableAssumption DEF TableInv, TableTypes
  <2>2. index \in Nat
    BY <2>1 DEF keyhash
  <2>3. l \in ArrayAt(root.start)
    BY <1>6, <2>1, <2>2 DEF ArrayAt, SizeAt, indexAt
  <2>4. l \in Lists /\ lock[l] # RAW
    BY <2>3 DEF TableInv, ArrayInv, Exists
  <2>5. /\ SetTypes' /\ OwnerInv' /\ \A q \in Procs : FrameInv(q)'
        /\ frame'[t].at # "out" /\ \A q \in Procs \ {t} : frame'[q] = frame[q]
    BY <1>1, <1>2, <1>3, <1>4, <1>5, <1>6, <2>4, EnterStep
  <2>6. TableTypes'
    BY <1>1, <1>3, <1>6 DEF TableInv, TableTypes, Wire
  <2>7. RehashInv' /\ ArrayInv'
    BY <1>1, <1>2 DEF TableInv, RehashInv, ArrayInv, Exists, ArrayAt, SizeAt
  <2>8. ASSUME NEW u \in Threads PROVE CallInv(u)'
    <3>1. pc'[u] = IF u = t THEN "set" ELSE pc[u]
      BY <1>3, <1>6
    <3>2. u \in Procs /\ (u # t => frame'[u] = frame[u])
      BY <2>5, TableAssumption
    <3> QED BY <1>1, <1>4, <3>1, <3>2 DEF TableInv, CallInv
  <2> QED BY <2>5, <2>6, <2>7, <2>8 DEF TableInv
<1>7. CASE pc' = [pc EXCEPT ![t] = "wild"] /\ UNCHANGED frame
  <2>1. TableTypes'
    BY <1>1, <1>3, <1>7 DEF TableInv, TableTypes, Wire
  <2>2. ASSUME NEW u \in Threads PROVE CallInv(u)'
    <3>1. pc'[u] = IF u = t THEN "wild" ELSE pc[u]
      BY <1>3, <1>7
    <3> QED BY <1>1, <1>4, <1>7, <3>1 DEF TableInv, CallInv
  <2>3. UNCHANGED <<svars, root, rh>>
    BY <1>1, <1>7 DEF svars
  <2> QED BY <2>1, <2>2, <2>3, ClientStep
<1> QED BY <1>6, <1>7 DEF readRoot

LEMMA FinishInv ==
  ASSUME TableInv, NEW t \in Threads, finish(t)
  PROVE  TableInv'
<1> DEFINE CallType == [op : OpKinds \cup {"none"}, key : Keys \cup {0}, val : Vals \cup {0}]
<1>1. /\ pc[t] = "set" /\ frame[t].at = "out" /\ UNCHANGED <<svars, root, todo, rh, chan, own>>
      /\ UNCHANGED frame
  BY DEF finish, xvars, svars
<1>2. pc \in [Threads -> {"join", "idle", "start", "set", "wild"}] /\ call \in [Threads -> CallType]
  BY DEF TableInv, TableTypes
<1>3. NoCall \in CallType
  BY DEF NoCall
<1>4. \/ pc' = [pc EXCEPT ![t] = "start"] /\ call' = call
      \/ pc' = [pc EXCEPT ![t] = "idle"] /\ call' = [call EXCEPT ![t] = NoCall]
  BY DEF finish
<1>5. TableTypes'
  <2>1. call' \in [Threads -> CallType]
    BY <1>2, <1>3, <1>4
  <2>2. pc' \in [Threads -> {"join", "idle", "start", "set", "wild"}]
    BY <1>2, <1>4
  <2> QED BY <1>1, <2>1, <2>2 DEF TableInv, TableTypes, Wire
<1>6. ASSUME NEW u \in Threads PROVE CallInv(u)'
  <2>1. CASE u # t
    <3>1. pc'[u] = pc[u] /\ call'[u] = call[u]
      BY <1>2, <1>4, <2>1
    <3> QED BY <1>1, <3>1 DEF TableInv, CallInv
  <2>2. CASE u = t
    <3>1. pc'[t] = "idle" \/ (pc'[t] = "start" /\ call'[t] = call[t])
      BY <1>2, <1>4
    <3> QED BY <1>1, <2>2, <3>1 DEF TableInv, CallInv
  <2> QED BY <2>1, <2>2
<1> QED BY <1>1, <1>5, <1>6, ClientStep

-----------------------------------------------------------------------------
(* The steps of the rehash *)

\* An interval of indices is an interval of addresses.
LEMMA Shift ==
  ASSUME NEW s \in Nat, NEW a \in Int, NEW b \in Int
  PROVE  {indexAt(s, i) : i \in a..b} = (s + a)..(s + b)
<1>1. ASSUME NEW x \in (s + a)..(s + b) PROVE x \in {indexAt(s, i) : i \in a..b}
  <2>1. x - s \in a..b /\ x = s + (x - s)
    OBVIOUS
  <2> QED BY <2>1 DEF indexAt
<1>2. ASSUME NEW i \in a..b PROVE indexAt(s, i) \in (s + a)..(s + b)
  BY DEF indexAt
<1> QED BY <1>1, <1>2

\* The frozen sets are a part of the old array, from its first set on until
\* the rehash melts them.
LEMMA FrozenRange ==
  ASSUME NEW r \in Locals, NEW F,
         F = {indexAt(r.old.start, i) : i \in (IF r.at = "melt" THEN r.i ELSE 0)..
               ((CASE r.at = "freeze" -> r.i
                  [] r.at \in {"allocate", "publish", "foreach", "readd", "melt"} -> r.old.count
                  [] OTHER -> 0) - 1)}
  PROVE  /\ r.at \in {"send", "idle", "sum"} => F = {}
         /\ r.at = "freeze" => F = r.old.start..(r.old.start + r.i - 1)
         /\ r.at \in {"allocate", "publish", "foreach", "readd"} =>
                F = r.old.start..(r.old.start + r.old.count - 1)
         /\ r.at = "melt" => F = (r.old.start + r.i)..(r.old.start + r.old.count - 1)
<1>1. r.old.start \in Nat /\ r.old.count \in Nat /\ r.i \in Nat
  BY DEF Locals
<1>11. 0 \in Int /\ r.i \in Int /\ r.i - 1 \in Int /\ r.old.count - 1 \in Int
  BY <1>1
<1>2. CASE r.at \in {"send", "idle", "sum"}
  <2>1. F = {indexAt(r.old.start, i) : i \in 0..(0 - 1)}
    BY <1>2
  <2> QED BY <1>2, <2>1
<1>3. CASE r.at = "freeze"
  <2>1. F = {indexAt(r.old.start, i) : i \in 0..(r.i - 1)}
    BY <1>3
  <2>2. F = (r.old.start + 0)..(r.old.start + (r.i - 1))
    BY <1>1, <1>11, <2>1, Shift, Zenon
  <2> QED BY <1>1, <1>3, <2>2
<1>4. CASE r.at \in {"allocate", "publish", "foreach", "readd"}
  <2>1. F = {indexAt(r.old.start, i) : i \in 0..(r.old.count - 1)}
    BY <1>4
  <2>2. F = (r.old.start + 0)..(r.old.start + (r.old.count - 1))
    BY <1>1, <1>11, <2>1, Shift, Zenon
  <2> QED BY <1>1, <1>4, <2>2
<1>5. CASE r.at = "melt"
  <2>1. F = {indexAt(r.old.start, i) : i \in r.i..(r.old.count - 1)}
    BY <1>5
  <2>2. F = (r.old.start + r.i)..(r.old.start + (r.old.count - 1))
    BY <1>1, <1>11, <2>1, Shift, Zenon
  <2> QED BY <1>1, <1>5, <2>2
<1> QED BY <1>2, <1>3, <1>4, <1>5 DEF Locals

LEMMA FrozenNow ==
  ASSUME TableTypes
  PROVE  /\ rh.at \in {"send", "idle", "sum"} => Frozen = {}
         /\ rh.at = "freeze" => Frozen = rh.old.start..(rh.old.start + rh.i - 1)
         /\ rh.at \in {"allocate", "publish", "foreach", "readd"} =>
                Frozen = rh.old.start..(rh.old.start + rh.old.count - 1)
         /\ rh.at = "melt" => Frozen = (rh.old.start + rh.i)..(rh.old.start + rh.old.count - 1)
<1>1. rh \in Locals
  BY DEF TableTypes
<1> HIDE DEF Locals
<1> QED BY <1>1, FrozenRange DEF Frozen, FrozenFrom, FrozenTo, oldList, rhAt

LEMMA FrozenNext ==
  ASSUME TableTypes'
  PROVE  /\ rh'.at \in {"send", "idle", "sum"} => Frozen' = {}
         /\ rh'.at = "freeze" => Frozen' = rh'.old.start..(rh'.old.start + rh'.i - 1)
         /\ rh'.at \in {"allocate", "publish", "foreach", "readd"} =>
                Frozen' = rh'.old.start..(rh'.old.start + rh'.old.count - 1)
         /\ rh'.at = "melt" => Frozen' = (rh'.old.start + rh'.i)..(rh'.old.start + rh'.old.count - 1)
<1>1. rh' \in Locals
  BY DEF TableTypes
<1> HIDE DEF Locals
<1> QED BY <1>1, FrozenRange DEF Frozen, FrozenFrom, FrozenTo, oldList, rhAt

\* What try_rehash does to its locals keeps their types.
Stages == {"send", "idle", "sum", "freeze", "allocate", "publish", "foreach", "readd", "melt"}

LEMMA LocalsType ==
  /\ Idle \in Locals
  /\ \A n \in Nat : [Idle EXCEPT !.calls = n] \in Locals
  /\ \A at \in Stages, old \in [count : Nat, start : Nat], n \in Nat :
        [Idle EXCEPT !.at = at, !.old = old, !.calls = n] \in Locals
  /\ \A r \in Locals, i \in Nat : [r EXCEPT !.i = i] \in Locals
  /\ \A r \in Locals, i \in Nat, sum \in Int : [r EXCEPT !.i = i, !.sum = sum] \in Locals
  /\ \A r \in Locals, at \in Stages : [r EXCEPT !.at = at] \in Locals
  /\ \A r \in Locals, at \in Stages, i \in Nat : [r EXCEPT !.at = at, !.i = i] \in Locals
  /\ \A r \in Locals, at \in Stages, i \in Nat, sum \in Int :
        [r EXCEPT !.at = at, !.i = i, !.sum = sum] \in Locals
  /\ \A r \in Locals, i \in Nat, node \in Nat \ {0} : [r EXCEPT !.i = i, !.node = node] \in Locals
  /\ \A r \in Locals, at \in Stages, i \in Nat, node \in Nat \ {0} :
        [r EXCEPT !.at = at, !.i = i, !.node = node] \in Locals
  /\ \A r \in Locals, at \in Stages, ps \in Seq(Pair), node \in Nat \ {0} :
        [r EXCEPT !.at = at, !.todo = ps, !.node = node] \in Locals
  /\ \A r \in Locals, ps \in Seq(Pair) : [r EXCEPT !.todo = ps] \in Locals
<1> DEFINE SP == Seq(Pair)
<1>1. <<>> \in SP
  OBVIOUS
<1>2. Locals = [at : Stages, old : [count : Nat, start : Nat], i : Nat, sum : Int, node : Nat \ {0},
                todo : SP, calls : Nat]
  BY DEF Locals, Stages
<1> HIDE DEF SP
<1>3. Idle \in Locals
  BY <1>1, <1>2 DEF Idle, Stages
<1>4. \A r \in Locals, ps \in SP : [r EXCEPT !.todo = ps] \in Locals
  BY <1>2
<1>5. \A r \in Locals, at \in Stages, ps \in SP, node \in Nat \ {0} :
        [r EXCEPT !.at = at, !.todo = ps, !.node = node] \in Locals
  BY <1>2
<1> QED BY <1>2, <1>3, <1>4, <1>5, ZenonT(60) DEF SP

\* A step that leaves the sets alone and freezes or melts none.
LEMMA TableStep ==
  ASSUME TableInv, UNCHANGED <<svars, call, pc>>, TableTypes', RehashInv', ArrayInv', Frozen' = Frozen
  PROVE  TableInv'
<1>1. UNCHANGED <<lock, nodes, total, frame, call, pc>>
  BY DEF svars
<1>2. SetTypes'
  BY <1>1 DEF TableInv, SetTypes
<1>3. \A l : Holders(l)' = Holders(l)
  BY <1>1 DEF Holders
<1>4. OwnerInv'
  BY <1>1, <1>3 DEF TableInv, OwnerInv
<1>5. \A p \in Procs : FrameInv(p)'
  BY <1>1 DEF TableInv, FrameInv
<1>6. \A t \in Threads : CallInv(t)'
  BY <1>1 DEF TableInv, CallInv
<1> QED BY <1>2, <1>4, <1>5, <1>6 DEF TableInv

\* Numbers and locals that every step of the rehash starts from.
LEMMA RehashFacts ==
  ASSUME TableInv
  PROVE  /\ rh \in Locals /\ rh.i \in Nat /\ rh.node \in Nat \ {0} /\ rh.sum \in Int /\ rh.calls \in Nat
         /\ rh.todo \in Seq(Pair) /\ rh.old.count \in Nat /\ rh.old.start \in Nat
         /\ root \in [count : Nat \ {0}, start : Lists]
         /\ root.count \in Nat \ {0} /\ root.start \in Lists /\ root.start \in Nat
         /\ INITIAL_SIZE \in Nat \ {0}
<1>1. rh \in Locals /\ root \in [count : Nat \ {0}, start : Lists]
  BY DEF TableInv, TableTypes
<1>2. /\ rh.i \in Nat /\ rh.node \in Nat \ {0} /\ rh.sum \in Int /\ rh.calls \in Nat
      /\ rh.todo \in Seq(Pair) /\ rh.old.count \in Nat /\ rh.old.start \in Nat
  BY <1>1 DEF Locals
<1> QED BY <1>1, <1>2, SetAssumption, TableAssumption

LEMMA SendRootInv ==
  ASSUME TableInv, sendRoot
  PROVE  TableInv'
<1>1. PICK t \in Threads : /\ chan' = [chan EXCEPT ![t] = Append(@, Wire)]
                           /\ rh' \in {Idle, rh}
  BY DEF sendRoot
<1>2. rh.at = "send" /\ UNCHANGED <<svars, root, call, pc, ret, todo, own>>
  BY DEF sendRoot, rhAt
<1>3. rh' \in Locals /\ rh'.at \in {"send", "idle"}
  <2>1. Idle \in Locals /\ Idle.at = "idle" /\ rh \in Locals
    BY LocalsType, RehashFacts DEF Idle
  <2> QED BY <1>1, <1>2, <2>1
<1> DEFINE W == {Wire}
<1>4. chan \in [Threads -> Seq(W)]
  BY DEF TableInv, TableTypes
<1>5. Append(chan[t], Wire) \in Seq(W)
  BY <1>4
<1>6. chan' \in [Threads -> Seq(W)]
  <2> HIDE DEF W
  <2> QED BY <1>1, <1>4, <1>5
<1>7. TableTypes'
  BY <1>2, <1>3, <1>6 DEF TableInv, TableTypes, Wire
<1>8. Frozen = {} /\ Frozen' = {}
  BY <1>2, <1>3, <1>7, FrozenNow, FrozenNext DEF TableInv
<1>9. RehashInv'
  BY <1>2, <1>3 DEF TableInv, RehashInv, SizeAt
<1>10. Top' = Top
  BY <1>2, <1>3 DEF Top
<1>11. ArrayInv'
  BY <1>2, <1>8, <1>10 DEF TableInv, ArrayInv, Exists, ArrayAt, SizeAt, svars
<1> QED BY <1>2, <1>7, <1>8, <1>9, <1>11, TableStep

LEMMA TryRehashInv ==
  ASSUME TableInv, try_rehash
  PROVE  TableInv'
<1>1. /\ rh.at = "idle" /\ UNCHANGED <<svars, root, call, pc, ret, todo, chan, own>>
      /\ rh' = [Idle EXCEPT !.at = "sum", !.old = root, !.calls = rh.calls + 1]
  BY DEF try_rehash, rhAt, xvars
<1>2. root \in [count : Nat, start : Nat] /\ rh.calls + 1 \in Nat /\ root.count \in Nat \ {0}
  BY RehashFacts, SetAssumption
<1>3. rh' \in Locals
  BY <1>1, <1>2, LocalsType DEF Stages
<1>4. rh'.at = "sum" /\ rh'.old = root /\ rh'.i = 0
  BY <1>1 DEF Idle
<1>5. TableTypes'
  BY <1>1, <1>3 DEF TableInv, TableTypes, Wire
<1>6. Frozen = {} /\ Frozen' = {}
  BY <1>1, <1>4, <1>5, FrozenNow, FrozenNext DEF TableInv
<1>7. RehashInv'
  BY <1>1, <1>2, <1>4 DEF TableInv, RehashInv, SizeAt
<1>8. Top' = Top
  BY <1>1, <1>4 DEF Top
<1>9. ArrayInv'
  BY <1>1, <1>6, <1>8 DEF TableInv, ArrayInv, Exists, ArrayAt, SizeAt, svars
<1> QED BY <1>1, <1>5, <1>6, <1>7, <1>9, TableStep

\* The set try_rehash has come to is a set of the old array.
LEMMA OldListExists ==
  ASSUME TableInv, rh.at \notin {"send", "idle"}
  PROVE  /\ oldList(rh.i) = rh.old.start + rh.i /\ oldList(rh.i) \in Lists /\ lock[oldList(rh.i)] # RAW
         /\ rh.i < rh.old.count /\ rh.old.count = SizeAt(rh.old.start)
         /\ ArrayAt(rh.old.start) = rh.old.start..(rh.old.start + rh.old.count - 1)
         /\ Exists(rh.old.start)
<1>1. rh.old.count = SizeAt(rh.old.start) /\ rh.i < rh.old.count
  BY DEF TableInv, RehashInv
<1>2. ArrayAt(rh.old.start) = rh.old.start..(rh.old.start + rh.old.count - 1)
  BY <1>1 DEF ArrayAt
<1>3. oldList(rh.i) = rh.old.start + rh.i
  BY DEF oldList, indexAt
<1>4. oldList(rh.i) \in ArrayAt(rh.old.start)
  BY <1>1, <1>2, <1>3, RehashFacts
<1>5. Exists(rh.old.start)
  BY RehashFacts DEF TableInv, RehashInv, ArrayInv, Locals
<1> QED BY <1>1, <1>2, <1>3, <1>4, <1>5 DEF Exists

LEMMA SumLengthsInv ==
  ASSUME TableInv, sumLengths
  PROVE  TableInv'
<1> DEFINE sum == rh.sum + list_length(oldList(rh.i))
<1>1. /\ rh.at = "sum" /\ UNCHANGED <<svars, root, call, pc, ret, todo, chan, own>>
      /\ rh' = IF rh.i + 1 < rh.old.count THEN [rh EXCEPT !.i = rh.i + 1, !.sum = sum]
               ELSE IF sum < rh.old.count * LOAD_FACTOR THEN [Idle EXCEPT !.calls = rh.calls]
               ELSE [rh EXCEPT !.at = "freeze", !.i = 0, !.sum = 0]
  BY DEF sumLengths, rhAt, xvars
<1>2. oldList(rh.i) \in Lists /\ rh.i < rh.old.count
  BY <1>1, OldListExists
<1>3. sum \in Int
  BY <1>2, RehashFacts DEF list_length, TableInv, SetTypes
<1>4. /\ rh \in Locals /\ rh.i \in Nat /\ rh.old.count \in Nat /\ rh.calls \in Nat
  BY RehashFacts
<1> HIDE DEF sum
<1>5. rh' \in Locals
  <2>1. rh.i + 1 \in Nat /\ 0 \in Nat /\ 0 \in Int /\ "freeze" \in Stages
    BY <1>4 DEF Stages
  <2>2. /\ [rh EXCEPT !.i = rh.i + 1, !.sum = sum] \in Locals
        /\ [Idle EXCEPT !.calls = rh.calls] \in Locals
        /\ [rh EXCEPT !.at = "freeze", !.i = 0, !.sum = 0] \in Locals
    BY <1>3, <1>4, <2>1, LocalsType
  <2> QED BY <1>1, <2>2
<1>6. \/ rh'.at = "idle"
      \/ rh'.at = "sum" /\ rh'.old = rh.old /\ rh'.i < rh.old.count
      \/ rh'.at = "freeze" /\ rh'.old = rh.old /\ rh'.i = 0
  BY <1>1, <1>4 DEF Locals, Idle
<1>7. TableTypes'
  BY <1>1, <1>5 DEF TableInv, TableTypes, Wire
<1>8. Frozen = {}
  BY <1>1, FrozenNow DEF TableInv
<1>9. Frozen' = {}
  <2>1. CASE rh'.at \in {"idle", "sum"}
    BY <1>7, <2>1, FrozenNext
  <2>2. CASE rh'.at = "freeze" /\ rh'.old = rh.old /\ rh'.i = 0
    <3>1. Frozen' = rh.old.start..(rh.old.start + 0 - 1)
      BY <1>7, <2>2, FrozenNext
    <3> QED BY <3>1, RehashFacts
  <2> QED BY <1>6, <2>1, <2>2
<1>10. RehashInv'
  BY <1>1, <1>2, <1>4, <1>6 DEF TableInv, RehashInv, SizeAt
<1>11. Top' = Top
  BY <1>1, <1>6 DEF Top
<1>12. ArrayInv'
  BY <1>1, <1>8, <1>9, <1>11 DEF TableInv, ArrayInv, Exists, ArrayAt, SizeAt, svars
<1> QED BY <1>1, <1>7, <1>8, <1>9, <1>10, <1>12, TableStep

\* freeze and melt: no process is inside the set whose lock they write.
LEMMA SeizeStep ==
  ASSUME TableInv, NEW l \in Lists, NEW v \in {LOCKED, DELETED}, lock[l] # RAW,
         lock' = [lock EXCEPT ![l] = v],
         UNCHANGED <<nodes, total, frame, call, pc>>, TableTypes', RehashInv', ArrayInv',
         \A p \in Procs : frame[p].at \in Inside => frame[p].list # l,
         v = LOCKED => Frozen' = Frozen \cup {l},
         v = DELETED => Frozen' = Frozen \ {l}
  PROVE  TableInv'
<1>1. lock \in [Lists -> {RAW, LOCKED, UNLOCKED, DELETED}]
  BY DEF TableInv, SetTypes
<1>2. lock'[l] = v /\ \A m \in Lists \ {l} : lock'[m] = lock[m]
  BY <1>1
<1>3. SetTypes'
  BY <1>1 DEF TableInv, SetTypes
<1>4. \A m : Holders(m)' = Holders(m)
  BY DEF Holders
<1>5. \A p \in Procs : frame[p].list \in Lists
  BY DEF TableInv, SetTypes, Frames
<1>6. OwnerInv'
  <2>1. \A p, q \in Procs : frame'[p].at \in Inside /\ frame'[q].at \in Inside
                             /\ frame'[p].list = frame'[q].list => p = q
    BY DEF TableInv, OwnerInv
  <2>2. \A p \in Procs : frame'[p].at \in Inside =>
                             lock'[frame'[p].list] = LOCKED /\ frame'[p].list \notin Frozen'
    BY <1>2, <1>5 DEF TableInv, OwnerInv
  <2>3. ASSUME NEW m \in Frozen' PROVE lock'[m] = LOCKED
    <3>1. CASE m = l
      BY <1>2, <2>3, <3>1
    <3>2. CASE m # l
      <4>1. m \in Frozen /\ lock[m] = LOCKED
        BY <2>3, <3>2 DEF TableInv, OwnerInv
      <4> QED BY <3>2, <4>1
    <3> QED BY <3>1, <3>2
  <2>4. \A m \in Lists : lock'[m] = LOCKED => m \in Frozen' \/ Holders(m)' # {}
    BY <1>2, <1>4 DEF TableInv, OwnerInv, LOCKED, DELETED
  <2> QED BY <2>1, <2>2, <2>3, <2>4 DEF OwnerInv
<1>7. \A p \in Procs : FrameInv(p)'
  <2>1. \A m \in Lists : lock[m] # RAW => lock'[m] # RAW
    BY <1>2 DEF LOCKED, DELETED, RAW
  <2> QED BY <1>5, <2>1 DEF TableInv, FrameInv
<1>8. \A t \in Threads : CallInv(t)'
  BY DEF TableInv, CallInv
<1> QED BY <1>3, <1>6, <1>7, <1>8 DEF TableInv

LEMMA FreezeSetsInv ==
  ASSUME TableInv, freezeSets
  PROVE  TableInv'
<1> DEFINE l == oldList(rh.i)
<1>1. /\ rh.at = "freeze" /\ UNCHANGED <<root, call, pc, ret, todo, chan, own, nodes, total, frame>>
      /\ lock[l] = UNLOCKED /\ lock' = [lock EXCEPT ![l] = LOCKED]
      /\ rh' = IF rh.i + 1 = rh.old.count THEN [rh EXCEPT !.at = "allocate", !.i = 0]
               ELSE [rh EXCEPT !.i = rh.i + 1]
  BY DEF freezeSets, freeze, advance, rhAt, xvars
<1>2. /\ l = rh.old.start + rh.i /\ l \in Lists /\ lock[l] # RAW /\ rh.i < rh.old.count
  BY <1>1, OldListExists
<1>3. /\ rh \in Locals /\ rh.i \in Nat /\ rh.old.count \in Nat /\ rh.old.start \in Nat
      /\ root.start \in Nat /\ root.count \in Nat
  BY RehashFacts
<1> HIDE DEF l
<1>4. rh' \in Locals
  <2>1. rh.i + 1 \in Nat /\ "allocate" \in Stages /\ 0 \in Nat
    BY <1>3 DEF Stages
  <2>2. [rh EXCEPT !.at = "allocate", !.i = 0] \in Locals /\ [rh EXCEPT !.i = rh.i + 1] \in Locals
    BY <1>3, <2>1, LocalsType
  <2> QED BY <1>1, <2>2
<1>5. \/ rh.i + 1 = rh.old.count /\ rh'.at = "allocate" /\ rh'.old = rh.old /\ rh'.i = 0
      \/ rh.i + 1 < rh.old.count /\ rh'.at = "freeze" /\ rh'.old = rh.old /\ rh'.i = rh.i + 1
  BY <1>1, <1>2, <1>3 DEF Locals
<1>6. TableTypes'
  BY <1>1, <1>4 DEF TableInv, TableTypes, Wire
<1>7. Frozen = rh.old.start..(rh.old.start + rh.i - 1)
  BY <1>1, FrozenNow DEF TableInv
<1>8. Frozen' = rh.old.start..(rh.old.start + rh.i)
  <2>1. CASE rh.i + 1 = rh.old.count /\ rh'.at = "allocate" /\ rh'.old = rh.old
    <3>1. Frozen' = rh.old.start..(rh.old.start + rh.old.count - 1)
      BY <1>6, <2>1, FrozenNext
    <3>2. rh.old.start + rh.old.count - 1 = rh.old.start + rh.i
      BY <1>3, <2>1
    <3> QED BY <3>1, <3>2
  <2>2. CASE rh'.at = "freeze" /\ rh'.old = rh.old /\ rh'.i = rh.i + 1
    <3>1. Frozen' = rh.old.start..(rh.old.start + (rh.i + 1) - 1)
      BY <1>6, <2>2, FrozenNext
    <3>2. rh.old.start + (rh.i + 1) - 1 = rh.old.start + rh.i
      BY <1>3
    <3> QED BY <3>1, <3>2
  <2> QED BY <1>5, <2>1, <2>2
<1>9. Frozen' = Frozen \cup {l}
  BY <1>2, <1>3, <1>7, <1>8
<1>10. lock \in [Lists -> {RAW, LOCKED, UNLOCKED, DELETED}]
  BY DEF TableInv, SetTypes
<1>11. \A m \in Lists : lock'[m] = RAW <=> lock[m] = RAW
  BY <1>1, <1>2, <1>10 DEF RAW, LOCKED
<1>12. RehashInv'
  BY <1>1, <1>3, <1>5, <1>2 DEF TableInv, RehashInv, SizeAt
<1>13. Top' = Top
  BY <1>1, <1>5 DEF Top
<1>14. ArrayInv'
  <2>1. Exists(root.start)'
    BY <1>1, <1>11 DEF TableInv, ArrayInv, Exists, ArrayAt, SizeAt
  <2>2. \A m \in Lists : m >= Top' => lock'[m] = RAW
    BY <1>11, <1>13 DEF TableInv, ArrayInv
  <2>3. ~(l < root.start)
    BY <1>1, <1>2, <1>3 DEF TableInv, RehashInv
  <2>4. \A m \in Lists : m < root.start' => lock'[m] = DELETED \/ m \in Frozen'
    BY <1>1, <1>9, <1>10, <2>3 DEF TableInv, ArrayInv
  <2>5. \A m \in Lists : lock'[m] # RAW => nodes'[m] # <<>>
    BY <1>1, <1>11 DEF TableInv, ArrayInv
  <2> QED BY <2>1, <2>2, <2>4, <2>5 DEF ArrayInv
<1>15. \A p \in Procs : frame[p].at \in Inside => frame[p].list # l
  BY <1>1 DEF TableInv, OwnerInv, LOCKED, UNLOCKED
<1>16. LOCKED # DELETED
  BY DEF LOCKED, DELETED
<1> QED BY <1>1, <1>2, <1>6, <1>9, <1>12, <1>14, <1>15, <1>16, SeizeStep

LEMMA MeltSetsInv ==
  ASSUME TableInv, meltSets
  PROVE  TableInv'
<1> DEFINE l == oldList(rh.i)
<1>1. /\ rh.at = "melt" /\ UNCHANGED <<root, call, pc, ret, todo, chan, own, nodes, total, frame>>
      /\ lock' = [lock EXCEPT ![l] = DELETED]
      /\ rh' = IF rh.i + 1 = rh.old.count THEN [Idle EXCEPT !.calls = rh.calls]
               ELSE [rh EXCEPT !.i = rh.i + 1]
  BY DEF meltSets, melt, rhAt, xvars
<1>2. /\ l = rh.old.start + rh.i /\ l \in Lists /\ lock[l] # RAW /\ rh.i < rh.old.count
      /\ rh.old.count = SizeAt(rh.old.start)
  BY <1>1, OldListExists
<1>3. /\ rh \in Locals /\ rh.i \in Nat /\ rh.old.count \in Nat /\ rh.old.start \in Nat
      /\ root.start \in Nat /\ root.count \in Nat /\ rh.calls \in Nat /\ INITIAL_SIZE \in Nat
  BY RehashFacts
<1> HIDE DEF l
<1>4. rh' \in Locals
  <2>1. rh.i + 1 \in Nat
    BY <1>3
  <2>2. [Idle EXCEPT !.calls = rh.calls] \in Locals /\ [rh EXCEPT !.i = rh.i + 1] \in Locals
    BY <1>3, <2>1, LocalsType
  <2> QED BY <1>1, <2>2
<1>5. \/ rh.i + 1 = rh.old.count /\ rh'.at = "idle"
      \/ rh.i + 1 < rh.old.count /\ rh'.at = "melt" /\ rh'.old = rh.old /\ rh'.i = rh.i + 1
  BY <1>1, <1>2, <1>3 DEF Locals, Idle
<1>6. TableTypes'
  BY <1>1, <1>4 DEF TableInv, TableTypes, Wire
<1>7. Frozen = (rh.old.start + rh.i)..(rh.old.start + rh.old.count - 1)
  BY <1>1, FrozenNow DEF TableInv
<1>8. Frozen' = (rh.old.start + rh.i + 1)..(rh.old.start + rh.old.count - 1)
  <2>1. CASE rh.i + 1 = rh.old.count /\ rh'.at = "idle"
    <3>1. Frozen' = {}
      BY <1>6, <2>1, FrozenNext
    <3>2. (rh.old.start + rh.i + 1)..(rh.old.start + rh.old.count - 1) = {}
      BY <1>3, <2>1
    <3> QED BY <3>1, <3>2
  <2>2. CASE rh'.at = "melt" /\ rh'.old = rh.old /\ rh'.i = rh.i + 1
    <3>1. Frozen' = (rh.old.start + (rh.i + 1))..(rh.old.start + rh.old.count - 1)
      BY <1>6, <2>2, FrozenNext
    <3>2. rh.old.start + (rh.i + 1) = rh.old.start + rh.i + 1
      BY <1>3
    <3> QED BY <3>1, <3>2
  <2> QED BY <1>5, <2>1, <2>2
<1>9. l \in Frozen /\ Frozen' = Frozen \ {l}
  BY <1>2, <1>3, <1>7, <1>8, SMTT(30)
<1>10. lock \in [Lists -> {RAW, LOCKED, UNLOCKED, DELETED}]
  BY DEF TableInv, SetTypes
<1>11. \A m \in Lists : lock'[m] = RAW <=> lock[m] = RAW
  BY <1>1, <1>2, <1>10 DEF RAW, DELETED
<1>12. \A start : Exists(start) => Exists(start)'
  BY <1>11 DEF Exists, ArrayAt, SizeAt
<1>13. root.count = newCount /\ root.start = newStart
  BY <1>1 DEF TableInv, RehashInv
<1>14. root.count = SizeAt(root.start)
  BY <1>2, <1>3, <1>13 DEF newCount, newStart, SizeAt
<1>15. RehashInv'
  <2>1. CASE rh'.at = "idle"
    BY <1>1, <1>14, <2>1 DEF RehashInv, SizeAt
  <2>2. CASE rh.i + 1 < rh.old.count /\ rh'.at = "melt" /\ rh'.old = rh.old /\ rh'.i = rh.i + 1
    <3>1. newStart' = newStart /\ newCount' = newCount
      BY <2>2 DEF newStart, newCount
    <3>2. Exists(rh.old.start)' /\ Exists(newStart)'
      BY <1>1, <1>12, <2>2, <3>1 DEF TableInv, RehashInv, Exists, ArrayAt, SizeAt
    <3> QED BY <1>1, <1>2, <1>13, <2>2, <3>1, <3>2 DEF RehashInv, SizeAt, Exists, ArrayAt
  <2> QED BY <1>5, <2>1, <2>2
<1>16. Top' = Top
  <2>1. CASE rh'.at = "idle"
    BY <1>1, <1>13, <2>1 DEF Top
  <2>2. CASE rh'.at = "melt" /\ rh'.old = rh.old
    BY <1>1, <2>2 DEF Top, newStart, newCount
  <2> QED BY <1>5, <2>1, <2>2
<1>17. ArrayInv'
  <2>1. Exists(root.start)'
    BY <1>1, <1>12 DEF TableInv, ArrayInv, Exists, ArrayAt, SizeAt
  <2>2. \A m \in Lists : m >= Top' => lock'[m] = RAW
    BY <1>11, <1>16 DEF TableInv, ArrayInv
  <2>3. \A m \in Lists : m < root.start' => lock'[m] = DELETED \/ m \in Frozen'
    BY <1>1, <1>9, <1>10 DEF TableInv, ArrayInv
  <2>4. \A m \in Lists : lock'[m] # RAW => nodes'[m] # <<>>
    BY <1>1, <1>11 DEF TableInv, ArrayInv
  <2> QED BY <2>1, <2>2, <2>3, <2>4 DEF ArrayInv
<1>18. \A p \in Procs : frame[p].at \in Inside => frame[p].list # l
  BY <1>9 DEF TableInv, OwnerInv
<1>19. LOCKED # DELETED
  BY DEF LOCKED, DELETED
<1> QED BY <1>1, <1>2, <1>6, <1>9, <1>15, <1>17, <1>18, <1>19, SeizeStep

\* The new array is as long as its address says.
LEMMA NewArray ==
  ASSUME TableInv, rh.at \notin {"send", "idle"}
  PROVE  /\ newStart \in Nat /\ newCount \in Nat \ {0} /\ newCount = SizeAt(newStart)
         /\ newStart = rh.old.start + rh.old.count
         /\ NewLists = newStart..(newStart + newCount - 1) /\ NewLists = ArrayAt(newStart)
<1>1. /\ rh.old.count \in Nat /\ rh.old.start \in Nat /\ INITIAL_SIZE \in Nat \ {0}
      /\ rh.old.count = SizeAt(rh.old.start)
  BY RehashFacts, OldListExists
<1>2. newStart \in Nat /\ newCount \in Nat \ {0} /\ newCount = SizeAt(newStart)
  BY <1>1 DEF newStart, newCount, SizeAt
<1>3. NewLists = (newStart + 0)..(newStart + (newCount - 1))
  <2>1. 0 \in Int /\ newCount - 1 \in Int
    BY <1>2
  <2> QED BY <1>2, <2>1, Shift, Zenon DEF NewLists
<1>4. NewLists = newStart..(newStart + newCount - 1)
  BY <1>2, <1>3
<1> QED BY <1>2, <1>4 DEF newStart, ArrayAt

LEMMA AllocateSetsInv ==
  ASSUME TableInv, allocateSets
  PROVE  TableInv'
<1>1. /\ rh.at = "allocate" /\ NewLists \subseteq Lists /\ rh' = [rh EXCEPT !.at = "publish"]
      /\ UNCHANGED <<frame, root, call, pc, ret, todo, chan, own>>
      /\ lock'  = [l \in Lists |-> IF l \in NewLists THEN UNLOCKED ELSE lock[l]]
      /\ nodes' = [l \in Lists |-> IF l \in NewLists THEN << <<>> >> ELSE nodes[l]]
      /\ total' = [l \in Lists |-> IF l \in NewLists THEN 0 ELSE total[l]]
  BY DEF allocateSets, rhAt, xvars, Construct
<1>2. /\ newStart \in Nat /\ newCount \in Nat \ {0} /\ newCount = SizeAt(newStart)
      /\ newStart = rh.old.start + rh.old.count
      /\ NewLists = newStart..(newStart + newCount - 1) /\ NewLists = ArrayAt(newStart)
  BY <1>1, NewArray
<1>3. root = rh.old /\ rh.i < rh.old.count /\ rh.old.count = SizeAt(rh.old.start)
  BY <1>1 DEF TableInv, RehashInv
<1>4. rh \in Locals /\ rh' \in Locals
  BY <1>1, RehashFacts, LocalsType DEF Stages
<1>5. rh'.at = "publish" /\ rh'.old = rh.old /\ rh'.i = rh.i
  BY <1>1, <1>4 DEF Locals
<1>6. newStart' = newStart /\ newCount' = newCount
  BY <1>5 DEF newStart, newCount
<1>7. Top = newStart /\ Top' = newStart + newCount
  BY <1>1, <1>2, <1>3, <1>5, <1>6 DEF Top
<1>8. \A l \in NewLists : l \in Lists /\ lock[l] = RAW
  BY <1>1, <1>2, <1>7, SetAssumption DEF TableInv, ArrayInv
<1>9. TableTypes'
  BY <1>1, <1>4 DEF TableInv, TableTypes, Wire
<1>10. Frozen' = Frozen
  <2>1. Frozen = rh.old.start..(rh.old.start + rh.old.count - 1)
    BY <1>1, FrozenNow DEF TableInv
  <2>2. Frozen' = rh.old.start..(rh.old.start + rh.old.count - 1)
    BY <1>5, <1>9, FrozenNext
  <2> QED BY <2>1, <2>2
<1>11. SetTypes'
  <2>1. << <<>> >> \in Seq(Node)
    <3>1. <<>> \in Seq(Pair) /\ Len(<<>>) = 0
      OBVIOUS
    <3>2. <<>> \in Node
      BY <3>1, SetAssumption DEF Node
    <3> QED BY <3>2
  <2>2. /\ lock \in [Lists -> {RAW, LOCKED, UNLOCKED, DELETED}] /\ nodes \in [Lists -> Seq(Node)]
        /\ total \in [Lists -> Int]
    BY DEF TableInv, SetTypes
  <2>3. lock' \in [Lists -> {RAW, LOCKED, UNLOCKED, DELETED}]
    BY <1>1, <2>2
  <2>4. nodes' \in [Lists -> Seq(Node)]
    BY <1>1, <2>1, <2>2
  <2>5. total' \in [Lists -> Int]
    BY <1>1, <2>2
  <2> QED BY <1>1, <2>3, <2>4, <2>5 DEF TableInv, SetTypes
<1>12. \A l \in Lists : lock[l] # RAW => lock'[l] = lock[l] /\ nodes'[l] = nodes[l]
  BY <1>1, <1>8
<1>13. \A start : Exists(start) => Exists(start)'
  BY <1>12 DEF Exists, ArrayAt, SizeAt
<1>14. Exists(newStart)'
  BY <1>1, <1>2, <1>6, <1>8 DEF Exists, ArrayAt, SizeAt, RAW, UNLOCKED
<1>15. Exists(root.start)'
  BY <1>1, <1>13 DEF TableInv, ArrayInv, Exists, ArrayAt, SizeAt
<1>16. RehashInv'
  <2>1. Exists(rh.old.start)'
    BY <1>1, <1>3, <1>5, <1>15 DEF Exists, ArrayAt, SizeAt
  <2> QED BY <1>1, <1>3, <1>5, <1>6, <1>14, <2>1 DEF RehashInv, SizeAt
<1>17. ArrayInv'
  <2>1. \A m \in Lists : m >= Top' => lock'[m] = RAW
    <3> SUFFICES ASSUME NEW m \in Lists, m >= Top' PROVE lock'[m] = RAW
      OBVIOUS
    <3>1. m \in Nat /\ m >= newStart + newCount
      BY <1>7, SetAssumption
    <3>2. m >= Top /\ m \notin NewLists
      BY <1>2, <1>7, <3>1
    <3> QED BY <1>1, <3>2 DEF TableInv, ArrayInv
  <2>2. \A m \in Lists : m < root.start' => lock'[m] = DELETED \/ m \in Frozen'
    BY <1>1, <1>10, <1>12 DEF TableInv, ArrayInv, DELETED, RAW
  <2>3. \A m \in Lists : lock'[m] # RAW => nodes'[m] # <<>>
    BY <1>1, <1>12 DEF TableInv, ArrayInv
  <2> QED BY <1>15, <2>1, <2>2, <2>3 DEF ArrayInv
<1>18. \A l : Holders(l)' = Holders(l)
  BY <1>1 DEF Holders
<1>19. OwnerInv'
  <2>1. \A p \in Procs : frame'[p].at \in Inside =>
                             lock'[frame'[p].list] = LOCKED /\ frame'[p].list \notin Frozen'
    <3> SUFFICES ASSUME NEW p \in Procs, frame[p].at \in Inside
                 PROVE  lock'[frame[p].list] = LOCKED /\ frame[p].list \notin Frozen
      BY <1>1, <1>10
    <3>1. lock[frame[p].list] = LOCKED /\ frame[p].list \in Lists /\ frame[p].list \notin Frozen
      BY InsideFacts
    <3> QED BY <1>12, <3>1 DEF LOCKED, RAW
  <2>2. \A m \in Frozen' : lock'[m] = LOCKED
    <3> SUFFICES ASSUME NEW m \in Frozen PROVE lock'[m] = LOCKED
      BY <1>10
    <3>1. lock[m] = LOCKED /\ m \in Lists
      <4>1. Frozen = ArrayAt(rh.old.start) /\ Exists(rh.old.start)
        BY <1>1, FrozenNow, OldListExists DEF TableInv
      <4> QED BY <4>1 DEF TableInv, OwnerInv, Exists
    <3> QED BY <1>12, <3>1 DEF LOCKED, RAW
  <2>3. \A m \in Lists : lock'[m] = LOCKED => m \in Frozen' \/ Holders(m)' # {}
    BY <1>1, <1>10, <1>18 DEF TableInv, OwnerInv, LOCKED, UNLOCKED
  <2> QED BY <1>1, <2>1, <2>2, <2>3 DEF TableInv, OwnerInv
<1>20. ASSUME NEW p \in Procs PROVE FrameInv(p)'
  <2>1. FrameInv(p) /\ frame'[p] = frame[p] /\ frame[p].list \in Lists
    BY <1>1 DEF TableInv, SetTypes, Frames
  <2>2. lock[frame[p].list] # RAW => lock'[frame[p].list] # RAW /\ nodes'[frame[p].list] = nodes[frame[p].list]
    BY <1>12, <2>1
  <2>3. frame[p].at \in Inside => frame[p].at # "out"
    BY DEF Inside
  <2> QED BY <2>1, <2>2, <2>3 DEF FrameInv
<1>21. \A t \in Threads : CallInv(t)'
  BY <1>1 DEF TableInv, CallInv
<1> QED BY <1>9, <1>11, <1>16, <1>17, <1>19, <1>20, <1>21 DEF TableInv

LEMMA PublishInv ==
  ASSUME TableInv, publish
  PROVE  TableInv'
<1>1. /\ rh.at = "publish" /\ UNCHANGED <<svars, call, pc, ret, todo, chan, own>>
      /\ \/ root.count # newCount /\ root' = [root EXCEPT !.count = newCount]
         \/ root.start # newStart /\ root' = [root EXCEPT !.start = newStart]
      /\ rh' = IF root' = [count |-> newCount, start |-> newStart]
               THEN [rh EXCEPT !.at = "foreach"] ELSE rh
  BY DEF publish, rhAt, xvars
<1>2. /\ newStart \in Nat /\ newCount \in Nat \ {0} /\ newCount = SizeAt(newStart)
      /\ newStart = rh.old.start + rh.old.count /\ NewLists = ArrayAt(newStart)
  BY <1>1, NewArray
<1>3. /\ rh \in Locals /\ rh.old.start \in Nat /\ rh.old.count \in Nat
      /\ root \in [count : Nat \ {0}, start : Lists] /\ INITIAL_SIZE \in Nat \ {0}
  BY RehashFacts
<1>4. rh' \in Locals /\ rh'.at \in {"publish", "foreach"} /\ rh'.old = rh.old /\ rh'.i = rh.i
  <2>1. [rh EXCEPT !.at = "foreach"] \in Locals
    BY <1>3, LocalsType DEF Stages
  <2> QED BY <1>1, <1>3, <2>1 DEF Locals
<1>5. newStart' = newStart /\ newCount' = newCount /\ Top' = Top
  BY <1>1, <1>4 DEF newStart, newCount, Top
<1>6. /\ rh.old.count = SizeAt(rh.old.start) /\ rh.i < rh.old.count
      /\ root.count \in {rh.old.count, newCount} /\ root.start \in {rh.old.start, newStart}
      /\ Exists(rh.old.start) /\ Exists(newStart)
  BY <1>1 DEF TableInv, RehashInv
<1>7. newStart \in Lists
  <2>1. newStart \in ArrayAt(newStart)
    <3>1. ArrayAt(newStart) = newStart..(newStart + newCount - 1)
      BY <1>2 DEF ArrayAt
    <3> QED BY <1>2, <3>1
  <2> QED BY <1>6, <2>1 DEF Exists
<1>8. /\ root' \in [count : Nat \ {0}, start : Lists]
      /\ root'.count \in {rh.old.count, newCount} /\ root'.start \in {rh.old.start, newStart}
      /\ root'.start \in {root.start, newStart}
  BY <1>1, <1>2, <1>3, <1>6, <1>7
<1>9. rh'.at = "foreach" => root'.count = newCount /\ root'.start = newStart
  BY <1>1, <1>3
<1>10. TableTypes'
  BY <1>1, <1>4, <1>8 DEF TableInv, TableTypes, Wire
<1>11. Frozen = rh.old.start..(rh.old.start + rh.old.count - 1) /\ Frozen' = Frozen
  <2>1. Frozen = rh.old.start..(rh.old.start + rh.old.count - 1)
    BY <1>1, FrozenNow DEF TableInv
  <2>2. Frozen' = rh.old.start..(rh.old.start + rh.old.count - 1)
    BY <1>4, <1>10, FrozenNext
  <2> QED BY <2>1, <2>2
<1>12. lock' = lock /\ nodes' = nodes
  BY <1>1 DEF svars
<1>13. RehashInv'
  <2>1. Exists(rh.old.start)' /\ Exists(newStart)'
    BY <1>4, <1>5, <1>6, <1>12 DEF Exists, ArrayAt, SizeAt
  <2> QED BY <1>4, <1>5, <1>6, <1>8, <1>9, <2>1 DEF RehashInv, SizeAt
<1>14. ArrayInv'
  <2>1. Exists(root.start)'
    <3>1. Exists(root'.start)
      BY <1>6, <1>8
    <3> QED BY <1>12, <3>1 DEF Exists, ArrayAt, SizeAt
  <2>2. ASSUME NEW m \in Lists, m < root'.start PROVE lock[m] = DELETED \/ m \in Frozen
    <3>1. m \in Nat
      BY SetAssumption
    <3>2. CASE root'.start = root.start
      BY <2>2, <3>2 DEF TableInv, ArrayInv
    <3>3. CASE root'.start = newStart
      <4>1. m < rh.old.start \/ m \in Frozen
        BY <1>2, <1>3, <1>11, <2>2, <3>1, <3>3
      <4>2. root.start >= rh.old.start /\ root.start \in Nat
        BY <1>2, <1>3, <1>6
      <4>3. m < rh.old.start => m < root.start
        BY <1>3, <3>1, <4>2
      <4> QED BY <4>1, <4>3 DEF TableInv, ArrayInv
    <3> QED BY <1>8, <3>2, <3>3
  <2> QED BY <1>5, <1>11, <1>12, <2>1, <2>2 DEF TableInv, ArrayInv
<1> QED BY <1>1, <1>10, <1>11, <1>13, <1>14, TableStep

LEMMA ForeachNodeInv ==
  ASSUME TableInv, foreachNode
  PROVE  TableInv'
<1> DEFINE chain == nodes[oldList(rh.i)]
<1>1. /\ rh.at = "foreach" /\ UNCHANGED <<svars, root, call, pc, ret, todo, chan, own>>
      /\ IF rh.node <= Len(chain)
         THEN rh' = [rh EXCEPT !.at = "readd", !.todo = chain[rh.node], !.node = rh.node + 1]
         ELSE rh' = IF rh.i + 1 = rh.old.count THEN [rh EXCEPT !.at = "melt", !.i = 0, !.node = 1]
                    ELSE [rh EXCEPT !.i = rh.i + 1, !.node = 1]
  BY DEF foreachNode, rhAt, xvars
<1>2. oldList(rh.i) \in Lists /\ rh.i < rh.old.count /\ rh.old.count = SizeAt(rh.old.start)
  BY <1>1, OldListExists
<1>3. /\ rh \in Locals /\ rh.i \in Nat /\ rh.old.count \in Nat /\ rh.old.start \in Nat
      /\ rh.node \in Nat \ {0}
  BY RehashFacts
<1>4. chain \in Seq(Node)
  BY <1>2 DEF TableInv, SetTypes
<1> HIDE DEF chain
<1>5. rh.node <= Len(chain) => chain[rh.node] \in Seq(Pair)
  BY <1>3, <1>4 DEF Node
<1>6. rh' \in Locals
  <2>1. /\ rh.i + 1 \in Nat /\ rh.node + 1 \in Nat \ {0} /\ 0 \in Nat /\ 1 \in Nat \ {0}
        /\ "readd" \in Stages /\ "melt" \in Stages
    BY <1>3 DEF Stages
  <2>2. CASE rh.node <= Len(chain)
    <3>1. [rh EXCEPT !.at = "readd", !.todo = chain[rh.node], !.node = rh.node + 1] \in Locals
      BY <1>3, <1>5, <2>1, <2>2, LocalsType
    <3> QED BY <1>1, <2>2, <3>1
  <2>3. CASE ~(rh.node <= Len(chain))
    <3>1. /\ [rh EXCEPT !.at = "melt", !.i = 0, !.node = 1] \in Locals
          /\ [rh EXCEPT !.i = rh.i + 1, !.node = 1] \in Locals
      BY <1>3, <2>1, LocalsType
    <3> QED BY <1>1, <2>3, <3>1
  <2> QED BY <2>2, <2>3
<1>7. /\ rh'.at \in {"readd", "melt", "foreach"} /\ rh'.old = rh.old /\ rh'.i < rh.old.count
      /\ rh'.at = "melt" => rh'.i = 0
  <2>1. CASE rh.node <= Len(chain)
    BY <1>1, <1>2, <1>3, <2>1 DEF Locals
  <2>2. CASE ~(rh.node <= Len(chain))
    <3>1. \/ rh' = [rh EXCEPT !.at = "melt", !.i = 0, !.node = 1]
          \/ rh.i + 1 # rh.old.count /\ rh' = [rh EXCEPT !.i = rh.i + 1, !.node = 1]
      BY <1>1, <2>2
    <3>2. rh.at = "foreach" /\ 0 < rh.old.count
      BY <1>1, <1>2, <1>3
    <3>3. CASE rh' = [rh EXCEPT !.at = "melt", !.i = 0, !.node = 1]
      BY <1>3, <3>2, <3>3 DEF Locals
    <3>4. CASE rh.i + 1 # rh.old.count /\ rh' = [rh EXCEPT !.i = rh.i + 1, !.node = 1]
      BY <1>2, <1>3, <3>2, <3>4 DEF Locals
    <3> QED BY <3>1, <3>3, <3>4
  <2> QED BY <2>1, <2>2
<1>8. TableTypes'
  BY <1>1, <1>6 DEF TableInv, TableTypes, Wire
<1>9. Frozen' = Frozen
  <2>1. Frozen = rh.old.start..(rh.old.start + rh.old.count - 1)
    BY <1>1, FrozenNow DEF TableInv
  <2>2. CASE rh'.at \in {"readd", "foreach"}
    BY <1>7, <1>8, <2>1, <2>2, FrozenNext
  <2>3. CASE rh'.at = "melt"
    <3>1. Frozen' = (rh.old.start + 0)..(rh.old.start + rh.old.count - 1)
      BY <1>7, <1>8, <2>3, FrozenNext
    <3> QED BY <1>3, <2>1, <3>1
  <2> QED BY <1>7, <2>2, <2>3
<1>10. newStart' = newStart /\ newCount' = newCount /\ Top' = Top
  BY <1>1, <1>7 DEF newStart, newCount, Top
<1>11. lock' = lock /\ nodes' = nodes
  BY <1>1 DEF svars
<1>12. RehashInv'
  <2>1. Exists(rh.old.start) /\ Exists(newStart) /\ root.count = newCount /\ root.start = newStart
    BY <1>1 DEF TableInv, RehashInv
  <2>2. Exists(rh.old.start)' /\ Exists(newStart)'
    BY <1>7, <1>10, <1>11, <2>1 DEF Exists, ArrayAt, SizeAt
  <2> QED BY <1>1, <1>2, <1>7, <1>10, <2>1, <2>2 DEF RehashInv, SizeAt
<1>13. ArrayInv'
  BY <1>1, <1>9, <1>10, <1>11 DEF TableInv, ArrayInv, Exists, ArrayAt, SizeAt
<1> QED BY <1>1, <1>8, <1>9, <1>12, <1>13, TableStep

LEMMA ReaddInv ==
  ASSUME TableInv, readd
  PROVE  TableInv'
<1>1. /\ rh.at = "readd" /\ frame[Server].at = "out"
      /\ UNCHANGED <<lock, nodes, total, root, call, pc, ret, todo, chan, own>>
  BY DEF readd, rhAt, xvars
<1>2. /\ rh \in Locals /\ rh.todo \in Seq(Pair)
  BY RehashFacts
<1>3. /\ rh' \in Locals /\ rh'.at \in {"readd", "foreach"} /\ rh'.old = rh.old /\ rh'.i = rh.i
  <2>1. CASE rh.todo = <<>>
    <3>1. rh' = [rh EXCEPT !.at = "foreach"]
      BY <2>1 DEF readd
    <3>2. [rh EXCEPT !.at = "foreach"] \in Locals
      BY <1>2, LocalsType DEF Stages
    <3> QED BY <1>2, <3>1, <3>2 DEF Locals
  <2>2. CASE rh.todo # <<>>
    <3>1. rh' = [rh EXCEPT !.todo = Tail(rh.todo)] /\ Tail(rh.todo) \in Seq(Pair)
      BY <1>2, <2>2 DEF readd
    <3>2. rh' \in Locals
      BY <1>2, <3>1, LocalsType
    <3> QED BY <1>1, <1>2, <3>1, <3>2 DEF Locals
  <2> QED BY <2>1, <2>2
<1>4. TableTypes'
  BY <1>1, <1>3 DEF TableInv, TableTypes, Wire
<1>5. Frozen' = Frozen
  <2>1. Frozen = rh.old.start..(rh.old.start + rh.old.count - 1)
    BY <1>1, FrozenNow DEF TableInv
  <2> QED BY <1>3, <1>4, <2>1, FrozenNext
<1>6. newStart' = newStart /\ newCount' = newCount /\ Top' = Top
  BY <1>1, <1>3 DEF newStart, newCount, Top
<1>7. /\ Exists(rh.old.start) /\ Exists(newStart) /\ root.count = newCount /\ root.start = newStart
      /\ rh.old.count = SizeAt(rh.old.start) /\ rh.i < rh.old.count
  BY <1>1 DEF TableInv, RehashInv
<1>8. RehashInv'
  <2>1. Exists(rh.old.start)' /\ Exists(newStart)'
    BY <1>1, <1>3, <1>6, <1>7 DEF Exists, ArrayAt, SizeAt
  <2> QED BY <1>1, <1>3, <1>6, <1>7, <2>1 DEF RehashInv, SizeAt
<1>9. ArrayInv'
  BY <1>1, <1>5, <1>6 DEF TableInv, ArrayInv, Exists, ArrayAt, SizeAt
<1>10. CASE rh.todo = <<>>
  <2>1. UNCHANGED <<svars, call, pc>>
    BY <1>1, <1>10 DEF readd, svars
  <2> QED BY <1>4, <1>5, <1>8, <1>9, <2>1, TableStep
<1>11. CASE rh.todo # <<>>
  <2> DEFINE kv == Head(rh.todo)
             l  == indexAt(newStart, keyhash(kv.key, newCount))
  <2>1. Enter(Server, "insert", l, kv.key, kv.val)
    BY <1>11 DEF readd
  <2>2. kv \in Pair
    BY <1>2, <1>11
  <2>3. kv.key \in Keys /\ kv.val \in Vals /\ kv.key \in Nat
    BY <2>2, SetAssumption DEF Pair
  <2> HIDE DEF kv
  <2>4. /\ newStart \in Nat /\ newCount \in Nat \ {0}
        /\ ArrayAt(newStart) = newStart..(newStart + newCount - 1)
    BY <1>1, NewArray
  <2>5. keyhash(kv.key, newCount) \in 0..(newCount - 1)
    BY <2>3, <2>4 DEF keyhash
  <2>6. l \in ArrayAt(newStart)
    BY <2>4, <2>5 DEF indexAt
  <2>7. l \in Lists /\ lock[l] # RAW
    BY <1>7, <2>6 DEF Exists
  <2>8. Server \in Procs /\ "insert" \in OpKinds /\ kv.val \in Vals \cup {0}
    BY <2>3, TableAssumption DEF OpKinds
  <2> HIDE DEF l
  <2>9. /\ SetTypes' /\ OwnerInv' /\ \A q \in Procs : FrameInv(q)'
        /\ \A q \in Procs \ {Server} : frame'[q] = frame[q]
    BY <1>1, <1>5, <2>1, <2>3, <2>7, <2>8, EnterStep
  <2>10. ASSUME NEW t \in Threads PROVE CallInv(t)'
    <3>1. frame'[t] = frame[t]
      BY <2>9, TableAssumption
    <3> QED BY <1>1, <3>1 DEF TableInv, CallInv
  <2> QED BY <1>4, <1>8, <1>9, <2>9, <2>10 DEF TableInv
<1> QED BY <1>10, <1>11

-----------------------------------------------------------------------------
(* The initial state *)

LEMMA MulMono ==
  ASSUME NEW a \in Nat, NEW b \in Nat, NEW B \in Nat, a <= b
  PROVE  a * B <= b * B
<1>1. b * B = a * B + (b - a) * B
  OBVIOUS
<1>2. (b - a) * B \in Nat
  OBVIOUS
<1> QED BY <1>1, <1>2

LEMMA DivBounds ==
  ASSUME NEW a \in Nat, NEW B \in Nat \ {0}
  PROVE  a \div B \in Nat /\ B * (a \div B) <= a /\ a < B * (a \div B) + B
<1>1. a \div B \in Nat
  OBVIOUS
<1>2. B * (a \div B) <= a
  OBVIOUS
<1>3. a < B * (a \div B) + B
  OBVIOUS
<1> QED BY <1>1, <1>2, <1>3

LEMMA MinOfTwo ==
  ASSUME NEW a \in Nat, NEW b \in Nat
  PROVE  Min({a, b}) = IF a <= b THEN a ELSE b
<1>1. Min({a, b}) \in {a, b} /\ \A y \in {a, b} : Min({a, b}) <= y
  BY MinIn
<1> QED BY <1>1

\* The chain populate leaves: full nodes, and behind them the rest.
LEMMA ChainFacts ==
  ASSUME NEW ks \in Seq(Keys)
  PROVE  LET B == NODE_BUNDLE_SIZE
             n == IF ks = <<>> THEN 1 ELSE (Len(ks) + B - 1) \div B
         IN  /\ n \in Nat \ {0} /\ Chain(ks) \in Seq(Node) /\ Len(Chain(ks)) = n
             /\ Len(ks) <= n * B
             /\ \A j \in 1..n : /\ (j - 1) * B <= Len(ks)
                                /\ Len(Chain(ks)[j]) = IF B <= Len(ks) - (j - 1) * B THEN B
                                                       ELSE Len(ks) - (j - 1) * B
<1> DEFINE B == NODE_BUNDLE_SIZE
           L == Len(ks)
           n == IF ks = <<>> THEN 1 ELSE (Len(ks) + B - 1) \div B
           m(j) == Min({B, L - (j - 1) * B})
           nd(j) == [i \in 1..m(j) |-> [key |-> ks[(j - 1) * B + i], val |-> ks[(j - 1) * B + i]]]
<1>1. B \in Nat \ {0} /\ L \in Nat /\ (ks = <<>> <=> L = 0)
  BY SetAssumption
<1>2. /\ n \in Nat \ {0} /\ L <= n * B
      /\ \A j \in 1..n : (j - 1) * B <= L
  <2>1. CASE ks = <<>>
    BY <1>1, <2>1
  <2>2. CASE ks # <<>>
    <3> DEFINE a == L + B - 1
               q == a \div B
    <3>1. a \in Nat /\ a >= B /\ L > 0
      BY <1>1, <2>2
    <3> HIDE DEF a
    <3>2. q \in Nat /\ B * q <= a /\ a < B * q + B
      BY <1>1, <3>1, DivBounds
    <3>3. n = q
      BY <2>2 DEF a
    <3> HIDE DEF q
    <3>4. q # 0
      BY <1>1, <3>1, <3>2
    <3>5. L <= q * B
      <4>1. B * q = q * B /\ q * B \in Nat
        BY <1>1, <3>2
      <4> QED BY <1>1, <3>2, <4>1 DEF a
    <3>6. ASSUME NEW j \in 1..q PROVE (j - 1) * B <= L
      <4>1. j \in Nat /\ j <= q
        BY <3>2
      <4>2. j * B <= q * B
        BY <1>1, <3>2, <4>1, MulMono
      <4>3. (j - 1) * B = j * B - B /\ q * B = B * q /\ j * B \in Nat /\ q * B \in Nat
        BY <1>1, <3>2, <4>1
      <4> QED BY <1>1, <3>2, <4>2, <4>3 DEF a
    <3> QED BY <3>2, <3>3, <3>4, <3>5, <3>6
  <2> QED BY <2>1, <2>2
<1> HIDE DEF n
<1>3. ASSUME NEW j \in 1..n
      PROVE  /\ L - (j - 1) * B \in Nat
             /\ m(j) = IF B <= L - (j - 1) * B THEN B ELSE L - (j - 1) * B
             /\ m(j) \in Nat /\ m(j) <= B
  <2>1. (j - 1) * B \in Nat /\ (j - 1) * B <= L
    BY <1>1, <1>2
  <2>2. L - (j - 1) * B \in Nat
    BY <1>1, <2>1
  <2>3. m(j) = IF B <= L - (j - 1) * B THEN B ELSE L - (j - 1) * B
    BY <1>1, <2>2, MinOfTwo
  <2> QED BY <1>1, <2>2, <2>3
<1>4. ASSUME NEW j \in 1..n PROVE nd(j) \in Node /\ Len(nd(j)) = m(j)
  <2>0. /\ (j - 1) * B \in Nat /\ L - (j - 1) * B \in Nat /\ m(j) \in Nat /\ m(j) <= B
        /\ m(j) = IF B <= L - (j - 1) * B THEN B ELSE L - (j - 1) * B
    <3>1. j - 1 \in Nat
      BY <1>2
    <3>2. (j - 1) * B \in Nat
      BY <1>1, <3>1
    <3> QED BY <1>3, <3>2
  <2> HIDE DEF m
  <2>1. (j - 1) * B \in Nat /\ m(j) \in Nat /\ m(j) <= B /\ m(j) <= L - (j - 1) * B
    <3> DEFINE x == (j - 1) * B
               y == m(j)
    <3>1. x \in Nat /\ L - x \in Nat /\ y \in Nat /\ y <= B /\ y = IF B <= L - x THEN B ELSE L - x
      BY <2>0
    <3> HIDE DEF x, y
    <3>2. y <= L - x
      BY <1>1, <3>1
    <3> QED BY <3>1, <3>2 DEF x, y
  <2>2. ASSUME NEW i \in 1..m(j)
        PROVE [key |-> ks[(j - 1) * B + i], val |-> ks[(j - 1) * B + i]] \in Pair
    <3>1. (j - 1) * B + i \in 1..L
      BY <1>1, <2>1
    <3>2. ks[(j - 1) * B + i] \in Keys
      BY <3>1
    <3> QED BY <3>2, TableAssumption DEF Pair
  <2>3. nd(j) \in Seq(Pair) /\ Len(nd(j)) = m(j)
    <3> DEFINE k == m(j)
               e(i) == [key |-> ks[(j - 1) * B + i], val |-> ks[(j - 1) * B + i]]
               f == [i \in 1..k |-> e(i)]
    <3>1. \A i \in 1..k : e(i) \in Pair
      BY <2>2
    <3>2. k \in Nat
      BY <2>1
    <3> HIDE DEF k, e
    <3>3. f \in Seq(Pair) /\ Len(f) = k
      BY <3>1, <3>2
    <3> QED BY <3>3 DEF k, e
  <2> QED BY <2>1, <2>3 DEF Node
<1>5. Chain(ks) = [j \in 1..n |-> nd(j)]
  BY DEF Chain, n
<1> HIDE DEF nd, m
<1>6. Chain(ks) \in Seq(Node) /\ Len(Chain(ks)) = n
  BY <1>2, <1>4, <1>5, IsASeq
<1>7. \A j \in 1..n : Len(Chain(ks)[j]) = m(j)
  BY <1>4, <1>5
<1>8. \A j \in 1..n : /\ (j - 1) * B <= L
                      /\ Len(Chain(ks)[j]) = IF B <= L - (j - 1) * B THEN B ELSE L - (j - 1) * B
  BY <1>2, <1>3, <1>7
<1> QED BY <1>2, <1>6, <1>8 DEF n

LEMMA InitInv == Init => TableInv
<1> SUFFICES ASSUME Init PROVE TableInv
  OBVIOUS
<1>1. /\ root = [count |-> INITIAL_SIZE, start |-> 0]
      /\ lock = [l \in Lists |-> IF l < INITIAL_SIZE THEN UNLOCKED ELSE RAW]
      /\ frame = [p \in Procs |-> OutFrame(Nothing)] /\ call = [t \in Threads |-> NoCall]
      /\ pc = [t \in Threads |-> "join"] /\ todo = OpCount /\ rh = [Idle EXCEPT !.at = "send"]
      /\ chan = [t \in Threads |-> <<>>]
      /\ own = [p \in Procs |-> IF p = Server THEN RootPtr ELSE NoPtr]
  BY DEF Init, InitArray
<1>2. PICK pop \in Populations :
        /\ nodes = [l \in Lists |-> IF l < INITIAL_SIZE THEN Chain(pop[l]) ELSE <<>>]
        /\ total = [l \in Lists |-> IF l < INITIAL_SIZE THEN Len(pop[l]) ELSE 0]
  BY DEF Init, populate
<1>3. INITIAL_SIZE \in Nat \ {0} /\ \A l \in Lists : l \in Nat
  BY SetAssumption, TableAssumption
<1>4. ASSUME NEW l \in Lists, l < INITIAL_SIZE
      PROVE  Chain(pop[l]) \in Seq(Node) /\ Chain(pop[l]) # <<>> /\ Len(pop[l]) \in Int
  <2>1. pop \in [0..(INITIAL_SIZE - 1) -> Seq(Keys)]
    BY TableAssumption
  <2>2. l \in 0..(INITIAL_SIZE - 1)
    BY <1>3, <1>4
  <2>3. pop[l] \in Seq(Keys)
    BY <2>1, <2>2
  <2>4. Chain(pop[l]) \in Seq(Node) /\ Len(Chain(pop[l])) # 0
    BY <2>3, ChainFacts
  <2> QED BY <2>3, <2>4
<1>5. SetTypes
  <2>1. lock \in [Lists -> {RAW, LOCKED, UNLOCKED, DELETED}]
    BY <1>1
  <2>2. nodes \in [Lists -> Seq(Node)]
    BY <1>2, <1>4
  <2>3. total \in [Lists -> Int]
    BY <1>2, <1>4
  <2>4. OutFrame(Nothing) \in Frames
    <3>1. Nothing \in Res
      BY DEF Nothing, Res
    <3> QED BY <3>1, OutType
  <2>5. frame \in [Procs -> Frames]
    BY <1>1, <2>4
  <2> QED BY <2>1, <2>2, <2>3, <2>5 DEF SetTypes
<1>6. rh \in Locals /\ rh.at = "send"
  <2>1. Idle \in Locals /\ "send" \in Stages
    BY LocalsType DEF Stages
  <2>2. [Idle EXCEPT !.at = "send"] \in Locals
    BY <2>1, LocalsType
  <2> QED BY <1>1, <2>1, <2>2 DEF Locals
<1>7. TableTypes
  <2>1. root \in [count : Nat \ {0}, start : Lists]
    <3>1. 0 \in Lists
      BY <1>3, TableAssumption
    <3> QED BY <1>1, <1>3, <3>1
  <2>2. call \in [Threads -> [op : OpKinds \cup {"none"}, key : Keys \cup {0}, val : Vals \cup {0}]]
    BY <1>1 DEF NoCall
  <2>3. chan \in [Threads -> Seq({Wire})]
    <3>1. <<>> \in Seq({Wire})
      OBVIOUS
    <3> QED BY <1>1, <3>1
  <2>4. pc \in [Threads -> {"join", "idle", "start", "set", "wild"}] /\ todo \in [Threads -> Nat]
    BY <1>1, TableAssumption
  <2>5. own \in [Procs -> {NoPtr, RootPtr}]
    BY <1>1
  <2> QED BY <1>6, <2>1, <2>2, <2>3, <2>4, <2>5 DEF TableTypes
<1>8. root.count = INITIAL_SIZE /\ root.start = 0 /\ Top = INITIAL_SIZE
  BY <1>1, <1>3, <1>6 DEF Top
<1>9. RehashInv
  BY <1>3, <1>6, <1>8 DEF RehashInv, SizeAt
<1>10. Frozen = {}
  BY <1>6, <1>7, FrozenNow
<1>11. ArrayInv
  <2>1. Exists(root.start)
    <3>1. ArrayAt(0) = 0..(INITIAL_SIZE - 1)
      BY <1>3 DEF ArrayAt, SizeAt
    <3>2. \A l \in 0..(INITIAL_SIZE - 1) : l \in Lists /\ lock[l] # RAW
      BY <1>1, <1>3, TableAssumption DEF UNLOCKED, RAW
    <3> QED BY <1>8, <3>1, <3>2 DEF Exists
  <2>2. \A l \in Lists : l >= Top => lock[l] = RAW
    BY <1>1, <1>3, <1>8
  <2>3. \A l \in Lists : ~(l < root.start)
    BY <1>3, <1>8
  <2>4. \A l \in Lists : lock[l] # RAW => nodes[l] # <<>>
    BY <1>1, <1>2, <1>4
  <2> QED BY <2>1, <2>2, <2>3, <2>4 DEF ArrayInv
<1>12. \A p \in Procs : frame[p].at = "out" /\ frame[p].at \notin Inside
  BY <1>1 DEF OutFrame, Inside
<1>13. OwnerInv
  BY <1>1, <1>10, <1>12 DEF OwnerInv, UNLOCKED, RAW, LOCKED
<1>14. \A p \in Procs : FrameInv(p)
  BY <1>12 DEF FrameInv
<1>15. \A t \in Threads : CallInv(t)
  BY <1>1, <1>12, TableAssumption DEF CallInv
<1> QED BY <1>5, <1>7, <1>9, <1>11, <1>13, <1>14, <1>15 DEF TableInv

-----------------------------------------------------------------------------
(* The results *)

LEMMA NextInv == TableInv /\ [Next]_vars => TableInv'
<1> SUFFICES ASSUME TableInv, [Next]_vars PROVE TableInv'
  OBVIOUS
<1>1. CASE UNCHANGED vars
  <2>1. UNCHANGED <<svars, root, call, pc, ret, todo, rh, chan, own>>
    BY <1>1 DEF vars, tvars, xvars
  <2>2. TableTypes'
    BY <2>1 DEF TableInv, TableTypes, Wire
  <2>3. \A u \in Threads : CallInv(u)'
    BY <2>1 DEF TableInv, CallInv, svars
  <2> QED BY <2>1, <2>2, <2>3, ClientStep
<1>2. ASSUME NEW t \in Threads, Client(t) PROVE TableInv'
  <2>1. t \in Procs
    BY TableAssumption
  <2> QED BY <1>2, <2>1, TryDeliverInv, InvokeInv, ReadRootInv, SetStepInv, FinishInv
          DEF Client, setStep
<1>3. CASE Rehash
  <2>1. Server \in Procs
    BY TableAssumption
  <2> QED BY <1>3, <2>1, TryRehashInv, SumLengthsInv, FreezeSetsInv, AllocateSetsInv, PublishInv,
             ForeachNodeInv, ReaddInv, SetStepInv, MeltSetsInv DEF Rehash, readdStep
<1> QED BY <1>1, <1>2, <1>3, SendRootInv DEF Next, Finished

\* TableInv is an invariant: a set is constructed before anybody reaches it,
\* it has one owner at a time, and what lies behind the root is deleted or
\* frozen.
THEOREM TableInvariant == Spec => []TableInv
<1> QED BY InitInv, NextInv, PTL DEF Spec

\* The types: lock words, nodes no longer than a bundle, and frames that name
\* constructed sets only.  A client that a half-written root led to other memory
\* is in no frame: readRoot takes it to "wild".
THEOREM Typed == Spec => []TypeOK
<1>1. TableInv => TypeOK
  <2> SUFFICES ASSUME TableInv PROVE TypeOK
    OBVIOUS
  <2>1. \A l \in Lists : \A n \in 1..Len(nodes[l]) : nodes[l][n] \in Node
    <3> SUFFICES ASSUME NEW l \in Lists, NEW n \in 1..Len(nodes[l]) PROVE nodes[l][n] \in Node
      OBVIOUS
    <3>1. nodes[l] \in Seq(Node)
      BY DEF TableInv, SetTypes
    <3> QED BY <3>1
  <2>2. \A p \in Procs : own[p] \in {NoPtr, RootPtr}
    BY DEF TableInv, TableTypes
  <2>3. \A p \in Procs : frame[p].at # "out" => frame[p].list \in Lists /\ lock[frame[p].list] # RAW
    BY DEF TableInv, SetTypes, Frames, FrameInv
  <2>4. root.count \in Nat \ {0} /\ root.start \in Lists
    BY RehashFacts
  <2> QED BY <2>1, <2>2, <2>3, <2>4 DEF TypeOK, TableInv, SetTypes, TableTypes
<1> QED BY <1>1, TableInvariant, PTL

\* acquire, unlock, freeze and melt keep one owner per set: the compare and
\* swap of a client and that of the rehash never both succeed.
THEOREM Exclusive == Spec => []OneOwner
<1>1. TableInv => OneOwner
  <2> SUFFICES ASSUME TableInv, NEW l \in Lists
               PROVE  Cardinality(Holders(l)) + (IF l \in Frozen THEN 1 ELSE 0)
                         = IF lock[l] = LOCKED THEN 1 ELSE 0
    BY DEF OneOwner
  <2>1. CASE Holders(l) = {}
    <3>1. Cardinality(Holders(l)) = 0
      BY <2>1, FS_EmptySet
    <3>2. lock[l] = LOCKED <=> l \in Frozen
      BY <2>1 DEF TableInv, OwnerInv
    <3> QED BY <3>1, <3>2
  <2>2. CASE Holders(l) # {}
    <3>1. PICK p \in Holders(l) : TRUE
      BY <2>2
    <3>2. p \in Procs /\ frame[p].at \in Inside /\ frame[p].list = l
      BY <3>1 DEF Holders
    <3>3. Holders(l) = {p}
      BY <3>2 DEF Holders, TableInv, OwnerInv
    <3>4. Cardinality(Holders(l)) = 1
      BY <3>3, FS_Singleton
    <3>5. lock[l] = LOCKED /\ l \notin Frozen
      BY <3>2 DEF TableInv, OwnerInv
    <3> QED BY <3>4, <3>5
  <2> QED BY <2>1, <2>2
<1> QED BY <1>1, TableInvariant, PTL

\* A process writes only to the chain of a set it holds.
LEMMA WritesHeld ==
  ASSUME TableInv, NEW p \in Procs, SetStep(p), NEW l \in Lists, nodes'[l] # nodes[l]
  PROVE  l \notin Frozen /\ lock[l] = LOCKED
<1>1. \/ UNCHANGED nodes
      \/ /\ frame[p].at \in {"write", "add"}
         /\ \E c : nodes' = [nodes EXCEPT ![frame[p].list] = c]
  BY DEF SetStep, acquire, contains, insert, remove, GoOn, Answer, Step, write, changeCount,
         changeCountWrite, unlock
<1>2. /\ frame[p].at \in {"write", "add"} /\ frame[p].at \in Inside
      /\ \E c : nodes' = [nodes EXCEPT ![frame[p].list] = c]
  BY <1>1 DEF Inside
<1>3. nodes \in [Lists -> Seq(Node)]
  BY DEF TableInv, SetTypes
<1>4. l = frame[p].list
  BY <1>2, <1>3
<1> QED BY <1>2, <1>4, InsideFacts

\* What the rehash has frozen or left behind never changes again, so that the
\* copy it makes of a set is the set, and a late client cannot write to an
\* array nobody will read.
THEOREM FrozenStaysProved == Spec => FrozenStays
<1> DEFINE Kept == \A l \in Lists : (l \in Frozen \/ l < root.start) => nodes'[l] = nodes[l]
<1>1. TableInv /\ [Next]_vars => [Kept]_vars
  <2> SUFFICES ASSUME TableInv, Next, NEW l \in Lists, l \in Frozen \/ l < root.start
               PROVE  nodes'[l] = nodes[l]
    OBVIOUS
  <2>1. l \in Frozen \/ lock[l] = DELETED
    BY DEF TableInv, ArrayInv
  <2>2. ASSUME NEW p \in Procs, SetStep(p) PROVE nodes'[l] = nodes[l]
    BY <2>1, <2>2, WritesHeld DEF LOCKED, DELETED
  <2>3. CASE allocateSets
    <3>1. /\ rh.at = "allocate"
          /\ nodes' = [m \in Lists |-> IF m \in NewLists THEN << <<>> >> ELSE nodes[m]]
      BY <2>3 DEF allocateSets, Construct, rhAt
    <3>2. NewLists = newStart..(newStart + newCount - 1) /\ newStart \in Nat /\ newCount \in Nat
      BY <3>1, NewArray
    <3>3. \A m \in NewLists : m \in Lists => lock[m] = RAW
      <4>1. Top = newStart
        BY <3>1 DEF Top, TableInv, RehashInv, newStart
      <4> QED BY <3>2, <4>1, SetAssumption DEF TableInv, ArrayInv
    <3>4. lock[l] # RAW
      BY <2>1 DEF TableInv, OwnerInv, LOCKED, DELETED, RAW
    <3> QED BY <3>1, <3>3, <3>4
  <2>4. \/ \E p \in Procs : SetStep(p)
        \/ allocateSets
        \/ UNCHANGED nodes
    BY TableAssumption
       DEF Next, Client, TryDeliver, Invoke, readRoot, setStep, finish, sendRoot, Rehash, try_rehash,
           sumLengths, freezeSets, freeze, publish, foreachNode, readd, readdStep, meltSets, melt,
           Finished, vars, svars
  <2> QED BY <2>2, <2>3, <2>4
<1> QED BY <1>1, TableInvariant, PTL DEF Spec, FrozenStays

-----------------------------------------------------------------------------
(***************************************************************************)
(* The totals: CountInv is inductive on top of TableInv, and total_length  *)
(* is the number of pairs of a set that nobody is inside.                  *)
(***************************************************************************)

(* The number of pairs of a chain *)

\* A node replaced by another, and a node appended.
LEMMA SpliceOne ==
  ASSUME NEW c \in Seq(Node), NEW n \in 1..Len(c), NEW nd \in Node
  PROVE  /\ Splice(c, n, <<nd>>) \in Seq(Node) /\ Len(Splice(c, n, <<nd>>)) = Len(c)
         /\ Splice(c, n, <<nd>>)[n] = nd
         /\ \A i \in 1..Len(c) : i # n => Splice(c, n, <<nd>>)[i] = c[i]
<1> DEFINE b == <<nd>>
           d == Splice(c, n, b)
<1>1. b \in Seq(Node) /\ Len(b) = 1 /\ b[1] = nd /\ Len(c) \in Nat
  OBVIOUS
<1> HIDE DEF b
<1>2. /\ d \in Seq(Node)
      /\ Len(d) = Len(c) - 1 + Len(b)
      /\ \A i \in 1..(n - 1) : d[i] = c[i]
      /\ \A i \in n..(n - 1 + Len(b)) : d[i] = b[i - n + 1]
      /\ \A i \in (n + Len(b))..(Len(c) - 1 + Len(b)) : d[i] = c[i - Len(b) + 1]
  <2>1. c \in Seq(Node) /\ n \in 1..Len(c) /\ b \in Seq(Node)
    BY <1>1
  <2> QED BY ONLY <2>1, SpliceChain
<1> HIDE DEF d
<1>3. Len(d) = Len(c)
  BY <1>1, <1>2
<1>4. d[n] = nd
  <2>1. n \in n..(n - 1 + Len(b)) /\ n - n + 1 = 1
    BY <1>1
  <2> QED BY <1>1, <1>2, <2>1
<1>5. ASSUME NEW i \in 1..Len(c), i # n PROVE d[i] = c[i]
  <2>1. CASE i < n
    BY <1>2, <1>5, <2>1
  <2>2. CASE i > n
    <3>1. i \in (n + Len(b))..(Len(c) - 1 + Len(b)) /\ i - Len(b) + 1 = i
      BY <1>1, <2>2
    <3> QED BY <1>2, <3>1
  <2> QED BY <1>5, <2>1, <2>2
<1> QED BY <1>2, <1>3, <1>4, <1>5 DEF d, b

LEMMA SpliceBehind ==
  ASSUME NEW c \in Seq(Node), NEW nd \in Node, c # <<>>
  PROVE  /\ Splice(c, Len(c), << c[Len(c)], nd >>) \in Seq(Node)
         /\ Len(Splice(c, Len(c), << c[Len(c)], nd >>)) = Len(c) + 1
         /\ Splice(c, Len(c), << c[Len(c)], nd >>)[Len(c) + 1] = nd
         /\ \A i \in 1..Len(c) : Splice(c, Len(c), << c[Len(c)], nd >>)[i] = c[i]
<1> DEFINE n == Len(c)
           b == << c[n], nd >>
           d == Splice(c, n, b)
<1>1. n \in 1..Len(c) /\ n \in Nat
  OBVIOUS
<1>2. b \in Seq(Node) /\ Len(b) = 2 /\ b[1] = c[n] /\ b[2] = nd
  <2>1. c[n] \in Node
    BY <1>1
  <2> QED BY <2>1
<1> HIDE DEF b
<1>3. /\ d \in Seq(Node)
      /\ Len(d) = Len(c) - 1 + Len(b)
      /\ \A i \in 1..(n - 1) : d[i] = c[i]
      /\ \A i \in n..(n - 1 + Len(b)) : d[i] = b[i - n + 1]
  <2>1. c \in Seq(Node) /\ n \in 1..Len(c) /\ b \in Seq(Node)
    BY <1>1, <1>2
  <2> HIDE DEF n
  <2> QED BY ONLY <2>1, SpliceChain
<1> HIDE DEF d
<1>4. Len(d) = n + 1
  BY <1>1, <1>2, <1>3
<1>5. d[n] = c[n] /\ d[n + 1] = nd
  <2>1. n \in n..(n - 1 + Len(b)) /\ n - n + 1 = 1 /\ n + 1 \in n..(n - 1 + Len(b)) /\ (n + 1) - n + 1 = 2
    BY <1>1, <1>2
  <2>2. d[n] = b[n - n + 1] /\ d[n + 1] = b[(n + 1) - n + 1]
    BY <1>3, <2>1
  <2> QED BY <1>2, <2>1, <2>2
<1>6. ASSUME NEW i \in 1..n PROVE d[i] = c[i]
  <2>1. i = n \/ i \in 1..(n - 1)
    BY <1>1
  <2> QED BY <1>3, <1>5, <2>1
<1> QED BY <1>3, <1>4, <1>5, <1>6 DEF d, b

\* The places of a chain are finitely many.
LEMMA FilledFinite ==
  ASSUME NEW c \in Seq(Node)
  PROVE  IsFiniteSet(Filled(c)) /\ Pairs(c) \in Nat
<1>1. Len(c) \in Nat /\ NODE_BUNDLE_SIZE \in Nat
  BY SetAssumption
<1>2. IsFiniteSet(1..Len(c)) /\ IsFiniteSet(1..NODE_BUNDLE_SIZE)
  BY <1>1, FS_Interval
<1>3. IsFiniteSet((1..Len(c)) \X (1..NODE_BUNDLE_SIZE))
  BY <1>2, FS_Product
<1>4. Filled(c) \subseteq (1..Len(c)) \X (1..NODE_BUNDLE_SIZE)
  BY DEF Filled
<1>5. IsFiniteSet(Filled(c))
  BY <1>3, <1>4, FS_Subset
<1> QED BY <1>5, FS_CardinalityType DEF Pairs

\* Which places are filled depends on the lengths of the nodes.
LEMMA FilledAt ==
  ASSUME NEW c \in Seq(Node), NEW j, NEW i
  PROVE  <<j, i>> \in Filled(c) <=> j \in 1..Len(c) /\ i \in 1..Len(c[j])
<1>1. ASSUME j \in 1..Len(c) PROVE Len(c[j]) \in Nat /\ Len(c[j]) <= NODE_BUNDLE_SIZE
  BY <1>1 DEF Node
<1>2. <<j, i>> \in Filled(c) <=> j \in 1..Len(c) /\ i \in 1..NODE_BUNDLE_SIZE /\ i <= Len(c[j])
  BY DEF Filled
<1> QED BY <1>1, <1>2, SetAssumption

LEMMA FilledPairs ==
  ASSUME NEW c, NEW s \in Filled(c)
  PROVE  s = <<s[1], s[2]>>
BY DEF Filled

\* A node one pair longer, one pair shorter, and a new node with one pair.
LEMMA PairsLonger ==
  ASSUME NEW c \in Seq(Node), NEW n \in 1..Len(c), NEW nd \in Node, Len(nd) = Len(c[n]) + 1
  PROVE  Pairs(Splice(c, n, <<nd>>)) = Pairs(c) + 1
<1> DEFINE d == Splice(c, n, <<nd>>)
           m == Len(c[n])
<1>1. d \in Seq(Node) /\ Len(d) = Len(c) /\ d[n] = nd /\ \A i \in 1..Len(c) : i # n => d[i] = c[i]
  BY SpliceOne
<1> HIDE DEF d
<1>2. m \in Nat
  BY DEF Node
<1>3. Filled(d) = Filled(c) \cup {<<n, m + 1>>}
  <2>1. ASSUME NEW s \in Filled(d) PROVE s \in Filled(c) \cup {<<n, m + 1>>}
    <3>1. s = <<s[1], s[2]>>
      BY FilledPairs
    <3>2. s[1] \in 1..Len(d) /\ s[2] \in 1..Len(d[s[1]])
      BY <1>1, <3>1, FilledAt
    <3>3. CASE s[1] = n
      BY <1>1, <1>2, <3>1, <3>2, <3>3, FilledAt
    <3>4. CASE s[1] # n
      BY <1>1, <3>1, <3>2, <3>4, FilledAt
    <3> QED BY <3>3, <3>4
  <2>2. ASSUME NEW s \in Filled(c) PROVE s \in Filled(d)
    <3>1. s = <<s[1], s[2]>>
      BY FilledPairs
    <3>2. s[1] \in 1..Len(c) /\ s[2] \in 1..Len(c[s[1]])
      BY <3>1, FilledAt
    <3>3. s[2] \in 1..Len(d[s[1]])
      <4>1. CASE s[1] = n
        <5>1. d[s[1]] = nd /\ s[2] \in 1..m
          BY <1>1, <3>2, <4>1
        <5> QED BY <1>2, <5>1
      <4>2. CASE s[1] # n
        BY <1>1, <3>2, <4>2
      <4> QED BY <4>1, <4>2
    <3> QED BY <1>1, <3>1, <3>2, <3>3, FilledAt
  <2>3. <<n, m + 1>> \in Filled(d)
    BY <1>1, <1>2, FilledAt
  <2> QED BY <2>1, <2>2, <2>3
<1>4. <<n, m + 1>> \notin Filled(c)
  BY <1>2, FilledAt
<1>5. IsFiniteSet(Filled(c)) /\ Cardinality(Filled(c)) \in Nat
  BY FilledFinite DEF Pairs
<1>6. Cardinality(Filled(d)) = Cardinality(Filled(c)) + 1
  BY <1>3, <1>4, <1>5, FS_AddElement, ZenonT(60)
<1> QED BY <1>6 DEF Pairs, d

LEMMA PairsShorter ==
  ASSUME NEW c \in Seq(Node), NEW n \in 1..Len(c), NEW nd \in Node, Len(nd) = Len(c[n]) - 1
  PROVE  Pairs(Splice(c, n, <<nd>>)) = Pairs(c) - 1
<1> DEFINE d == Splice(c, n, <<nd>>)
           m == Len(c[n])
<1>1. d \in Seq(Node) /\ Len(d) = Len(c) /\ d[n] = nd /\ \A i \in 1..Len(c) : i # n => d[i] = c[i]
  BY SpliceOne
<1> HIDE DEF d
<1>2. m \in Nat /\ Len(nd) \in Nat
  BY DEF Node
<1>3. Filled(d) = Filled(c) \ {<<n, m>>}
  <2>1. ASSUME NEW s \in Filled(d) PROVE s \in Filled(c) /\ s # <<n, m>>
    <3>1. s = <<s[1], s[2]>>
      BY FilledPairs
    <3>2. s[1] \in 1..Len(d) /\ s[2] \in 1..Len(d[s[1]])
      BY <1>1, <3>1, FilledAt
    <3>3. CASE s[1] = n
      BY <1>1, <1>2, <3>1, <3>2, <3>3, FilledAt
    <3>4. CASE s[1] # n
      BY <1>1, <3>1, <3>2, <3>4, FilledAt
    <3> QED BY <3>3, <3>4
  <2>2. ASSUME NEW s \in Filled(c), s # <<n, m>> PROVE s \in Filled(d)
    <3>1. s = <<s[1], s[2]>>
      BY FilledPairs
    <3>2. s[1] \in 1..Len(c) /\ s[2] \in 1..Len(c[s[1]])
      BY <3>1, FilledAt
    <3>3. s[2] \in 1..Len(d[s[1]])
      <4>1. CASE s[1] = n
        <5>1. d[s[1]] = nd /\ s[2] \in 1..m /\ s[2] # m
          BY <1>1, <2>2, <3>1, <3>2, <4>1
        <5> QED BY <1>2, <5>1
      <4>2. CASE s[1] # n
        BY <1>1, <3>2, <4>2
      <4> QED BY <4>1, <4>2
    <3> QED BY <1>1, <3>1, <3>2, <3>3, FilledAt
  <2> QED BY <2>1, <2>2
<1>4. <<n, m>> \in Filled(c)
  BY <1>2, FilledAt
<1>5. IsFiniteSet(Filled(c)) /\ Cardinality(Filled(c)) \in Nat
  BY FilledFinite DEF Pairs
<1>6. Cardinality(Filled(d)) = Cardinality(Filled(c)) - 1
  <2> DEFINE x == <<n, m>>
             F == Filled(c)
  <2>1. Cardinality(F \ {x}) = IF x \in F THEN Cardinality(F) - 1 ELSE Cardinality(F)
    <3> HIDE DEF x, F
    <3> QED BY <1>5, FS_RemoveElement DEF F
  <2> QED BY <1>3, <1>4, <2>1
<1> QED BY <1>6 DEF Pairs, d

LEMMA PairsBehind ==
  ASSUME NEW c \in Seq(Node), c # <<>>, NEW nd \in Node, Len(nd) = 1
  PROVE  Pairs(Splice(c, Len(c), << c[Len(c)], nd >>)) = Pairs(c) + 1
<1> DEFINE d == Splice(c, Len(c), << c[Len(c)], nd >>)
           m == Len(c) + 1
<1>0. /\ d \in Seq(Node) /\ Len(d) = Len(c) + 1 /\ d[Len(c) + 1] = nd
      /\ \A i \in 1..Len(c) : d[i] = c[i]
  <2>1. c \in Seq(Node) /\ nd \in Node /\ c # <<>>
    OBVIOUS
  <2> QED BY ONLY <2>1, SpliceBehind, Zenon
<1>1. d \in Seq(Node) /\ Len(d) = m /\ d[m] = nd /\ \A i \in 1..Len(c) : d[i] = c[i]
  BY <1>0
<1>2. Len(c) \in Nat /\ m = Len(c) + 1
  OBVIOUS
<1> HIDE DEF d, m
<1>3. Filled(d) = Filled(c) \cup {<<m, 1>>}
  <2>1. ASSUME NEW s \in Filled(d) PROVE s \in Filled(c) \cup {<<m, 1>>}
    <3>1. s = <<s[1], s[2]>>
      BY FilledPairs
    <3>2. s[1] \in 1..Len(d) /\ s[2] \in 1..Len(d[s[1]])
      BY <1>1, <3>1, FilledAt
    <3>3. CASE s[1] = m
      <4>1. Len(d[s[1]]) = 1
        BY <1>1, <3>3
      <4>2. s[2] = 1
        BY <3>2, <4>1
      <4> QED BY <3>1, <3>3, <4>2
    <3>4. CASE s[1] # m
      <4>1. s[1] \in 1..Len(c)
        BY <1>1, <1>2, <3>2, <3>4
      <4> QED BY <1>1, <3>1, <3>2, <4>1, FilledAt
    <3> QED BY <3>3, <3>4
  <2>2. ASSUME NEW s \in Filled(c) PROVE s \in Filled(d)
    <3>1. s = <<s[1], s[2]>>
      BY FilledPairs
    <3>2. s[1] \in 1..Len(c) /\ s[2] \in 1..Len(c[s[1]])
      BY <3>1, FilledAt
    <3>3. s[1] \in 1..Len(d) /\ s[2] \in 1..Len(d[s[1]])
      BY <1>1, <1>2, <3>2
    <3> QED BY <1>1, <3>1, <3>3, FilledAt
  <2>3. <<m, 1>> \in Filled(d)
    <3>1. m \in 1..Len(d) /\ 1 \in 1..Len(d[m])
      <4>1. Len(d[m]) = 1
        BY <1>1
      <4>2. m \in 1..Len(d)
        BY <1>1, <1>2
      <4> QED BY <4>1, <4>2
    <3> QED BY <1>1, <3>1, FilledAt
  <2> QED BY <2>1, <2>2, <2>3
<1>4. <<m, 1>> \notin Filled(c)
  <2>1. m \notin 1..Len(c)
    BY <1>2
  <2> QED BY <2>1, FilledAt
<1>5. IsFiniteSet(Filled(c)) /\ Cardinality(Filled(c)) \in Nat
  BY FilledFinite DEF Pairs
<1>6. Cardinality(Filled(d)) = Cardinality(Filled(c)) + 1
  BY <1>3, <1>4, <1>5, FS_AddElement
<1> QED BY <1>6 DEF Pairs, d

\* Writing back the node that was read changes nothing.
LEMMA SpliceSame ==
  ASSUME NEW c \in Seq(Node), c # <<>>
  PROVE  Splice(c, 1, << c[1] >>) = c
<1> DEFINE d == Splice(c, 1, << c[1] >>)
<1>1. 1 \in 1..Len(c) /\ c[1] \in Node
  OBVIOUS
<1>2. d \in Seq(Node) /\ Len(d) = Len(c) /\ d[1] = c[1] /\ \A i \in 1..Len(c) : i # 1 => d[i] = c[i]
  BY <1>1, SpliceOne
<1> HIDE DEF d
<1>3. \A i \in 1..Len(c) : d[i] = c[i]
  BY <1>2
<1>4. d = c
  BY <1>2, <1>3, SeqEqual
<1> QED BY <1>4 DEF d

\* No pairs in memory no set has been constructed in, nor in a new set.
LEMMA PairsNone == Pairs(<<>>) = 0 /\ Pairs(<< <<>> >>) = 0
<1>1. Filled(<<>>) = {}
  BY DEF Filled
<1>2. Filled(<< <<>> >>) = {}
  <2> SUFFICES ASSUME NEW s \in Filled(<< <<>> >>) PROVE FALSE
    OBVIOUS
  <2>1. s[1] \in 1..1 /\ s[2] \in 1..NODE_BUNDLE_SIZE /\ s[2] <= Len(<< <<>> >>[s[1]])
    BY DEF Filled
  <2>2. s[1] = 1 /\ Len(<< <<>> >>[1]) = 0
    BY <2>1
  <2> QED BY <2>1, <2>2
<1> QED BY <1>1, <1>2, FS_EmptySet DEF Pairs

-----------------------------------------------------------------------------
(* The steps of a process in a set *)

\* A step of p that changes at most the set l0, which no other is inside.
LEMMA CountOthers ==
  ASSUME TableInv, CountInv, NEW p \in Procs, NEW l0 \in Lists,
         \A q \in Procs \ {p} : frame'[q] = frame[q],
         \A q \in Procs \ {p} : frame[q].at \in Inside => frame[q].list # l0,
         \A l \in Lists \ {l0} : nodes'[l] = nodes[l] /\ total'[l] = total[l],
         \A l \in Lists \ {l0} : Holders(l)' = {} => Holders(l) = {},
         Holders(l0)' = {} => total'[l0] = Pairs(nodes'[l0]),
         CountFrame(p)'
  PROVE  CountInv'
<1>1. ASSUME NEW q \in Procs, q # p PROVE CountFrame(q)'
  <2>1. CountFrame(q) /\ frame'[q] = frame[q] /\ frame[q].list \in Lists
    BY <1>1 DEF CountInv, TableInv, SetTypes, Frames
  <2>2. frame[q].at \in Inside =>
          nodes'[frame[q].list] = nodes[frame[q].list] /\ total'[frame[q].list] = total[frame[q].list]
    BY <1>1, <2>1
  <2>3. CASE frame[q].at \in Inside
    BY <2>1, <2>2, <2>3 DEF CountFrame
  <2>4. CASE frame[q].at \notin Inside
    BY <2>1, <2>4 DEF CountFrame, Inside
  <2> QED BY <2>3, <2>4
<1>2. CountMatches'
  <2> SUFFICES ASSUME NEW l \in Lists, Holders(l)' = {} PROVE total'[l] = Pairs(nodes'[l])
    BY DEF CountMatches
  <2>1. CASE l = l0
    BY <2>1
  <2>2. CASE l # l0
    BY <2>2 DEF CountInv, CountMatches
  <2> QED BY <2>1, <2>2
<1> QED BY <1>1, <1>2 DEF CountInv

\* A step of p inside its set.
LEMMA InsideCount ==
  ASSUME TableInv, CountInv, NEW p \in Procs, frame[p].at \in Inside, frame'[p].at \in Inside,
         frame'[p].list = frame[p].list,
         \A q \in Procs \ {p} : frame'[q] = frame[q],
         \A l \in Lists \ {frame[p].list} : nodes'[l] = nodes[l] /\ total'[l] = total[l],
         CountFrame(p)'
  PROVE  CountInv'
<1> DEFINE l0 == frame[p].list
<1>1. l0 \in Lists
  BY InsideFacts
<1>2. \A q \in Procs \ {p} : frame[q].at \in Inside => frame[q].list # l0
  BY DEF TableInv, OwnerInv
<1>3. \A l : Holders(l)' = Holders(l)
  BY DEF Holders
<1>4. p \in Holders(l0)
  BY DEF Holders
<1> HIDE DEF l0
<1>5. \A l \in Lists \ {l0} : nodes'[l] = nodes[l] /\ total'[l] = total[l]
  BY DEF l0
<1> QED BY <1>1, <1>2, <1>3, <1>4, <1>5, CountOthers

\* A read of a node: nothing but the frame changes.
LEMMA ReadCount ==
  ASSUME TableInv, CountInv, NEW p \in Procs, frame[p].at = "walk",
         NEW at \in {"walk", "write", "unlock"}, NEW node, NEW buf, NEW res, Step(p, at, node, buf, res),
         at = "write" => Pairs(Splice(nodes[frame[p].list], node, buf))
                            = Pairs(nodes[frame[p].list]) + Increment(frame[p].op)
  PROVE  CountInv'
<1> DEFINE l == frame[p].list
           g == [frame[p] EXCEPT !.at = at, !.node = node, !.buf = buf, !.total = total[l], !.res = res]
<1>1. frame \in [Procs -> Frames] /\ frame[p] \in Frames /\ frame[p].at \in Inside
  BY DEF TableInv, SetTypes, Inside
<1>2. frame' = [frame EXCEPT ![p] = g] /\ UNCHANGED <<lock, nodes, total>>
  BY DEF Step
<1>3. frame'[p] = g /\ \A q \in Procs \ {p} : frame'[q] = frame[q]
  BY <1>1, <1>2
<1>4. g.at = at /\ g.list = l /\ g.op = frame[p].op /\ g.node = node /\ g.buf = buf /\ g.total = total[l]
  BY <1>1 DEF Frames
<1> HIDE DEF g
<1>5. total[l] = Pairs(nodes[l])
  BY DEF CountInv, CountFrame
<1>6. CountFrame(p)'
  BY <1>2, <1>3, <1>4, <1>5 DEF CountFrame
<1>7. g.at \in Inside
  BY <1>4 DEF Inside
<1> QED BY <1>1, <1>2, <1>3, <1>4, <1>6, <1>7, InsideCount

LEMMA ContainsCount ==
  ASSUME TableInv, CountInv, NEW p \in Procs, contains(p)
  PROVE  CountInv'
BY ReadCount DEF contains, Walking, GoOn, Answer

LEMMA RemoveCount ==
  ASSUME TableInv, CountInv, NEW p \in Procs, remove(p)
  PROVE  CountInv'
<1>1. frame[p].at = "walk" /\ frame[p].op = "remove"
  BY DEF remove, Walking
<1>2. CASE Found(p) /\ Step(p, "write", frame[p].node, << Without(Node_(p), FoundAt(p)) >>,
                            [status |-> "true", result |-> FoundVal(p)])
  <2> DEFINE c  == nodes[frame[p].list]
             n  == frame[p].node
             nd == Without(Node_(p), FoundAt(p))
  <2>1. FoundAt(p) \in 1..Len(Node_(p))
    BY <1>1, <1>2, FoundValType
  <2>2. Node_(p) \in Node /\ c \in Seq(Node) /\ n \in 1..Len(c) /\ Node_(p) = c[n]
    BY <1>1, InsideFacts DEF Inside, Node_
  <2>3. nd \in Node /\ Len(nd) = Len(c[n]) - 1
    BY <2>1, <2>2, WithoutNode
  <2> HIDE DEF nd
  <2>4. Pairs(Splice(c, n, <<nd>>)) = Pairs(c) - 1
    <3> HIDE DEF c, n
    <3> QED BY <2>2, <2>3, PairsShorter
  <2>5. Pairs(c) \in Nat
    BY <2>2, FilledFinite
  <2>6. Pairs(Splice(c, n, <<nd>>)) = Pairs(c) + Increment(frame[p].op)
    BY <1>1, <2>4, <2>5 DEF Increment
  <2> QED BY <1>1, <1>2, <2>6, ReadCount DEF nd
<1>3. CASE GoOn(p)
  BY <1>1, <1>3, ReadCount DEF GoOn
<1>4. CASE Answer(p, "false", 0)
  BY <1>1, <1>4, ReadCount DEF Answer
<1> QED BY <1>2, <1>3, <1>4 DEF remove

LEMMA InsertCount ==
  ASSUME TableInv, CountInv, NEW p \in Procs, insert(p)
  PROVE  CountInv'
<1> DEFINE kv   == [key |-> frame[p].key, val |-> frame[p].val]
           done == [status |-> "true", result |-> 0]
           c    == nodes[frame[p].list]
           n    == frame[p].node
<1>1. frame[p].at = "walk" /\ frame[p].op = "insert"
  BY DEF insert, Walking
<1>2. /\ Node_(p) \in Node /\ frame[p].key \in Keys /\ frame[p].val \in Vals
      /\ c \in Seq(Node) /\ n \in 1..Len(c) /\ Node_(p) = c[n] /\ c # <<>>
  BY <1>1, InsideFacts DEF Inside, Node_
<1>3. kv \in Pair
  BY <1>2 DEF Pair
<1> HIDE DEF kv
<1>4. <<kv>> \in Node /\ (Len(Node_(p)) # NODE_BUNDLE_SIZE => Append(Node_(p), kv) \in Node)
  BY <1>2, <1>3, AppendNode
<1>5. Pairs(c) + 1 = Pairs(c) + Increment(frame[p].op)
  BY <1>1 DEF Increment
<1>6. CASE Found(p) /\ Answer(p, "false", FoundVal(p))
  BY <1>1, <1>6, ReadCount DEF Answer
<1>7. CASE GoOn(p)
  BY <1>1, <1>7, ReadCount DEF GoOn
<1>8. CASE IsLast(p) /\ Step(p, "write", n, << Node_(p), <<kv>> >>, done)
  <2>1. n = Len(c)
    BY <1>8 DEF IsLast
  <2>2. Len(<<kv>>) = 1
    OBVIOUS
  <2>3. Pairs(Splice(c, Len(c), << c[Len(c)], <<kv>> >>)) = Pairs(c) + 1
    <3> DEFINE nd == <<kv>>
    <3>1. nd \in Node /\ Len(nd) = 1 /\ c \in Seq(Node) /\ c # <<>>
      BY <1>2, <1>4, <2>2
    <3> HIDE DEF nd, c
    <3>2. Pairs(Splice(c, Len(c), << c[Len(c)], nd >>)) = Pairs(c) + 1
      BY ONLY <3>1, PairsBehind
    <3> QED BY <3>2 DEF nd
  <2>4. Pairs(Splice(c, n, << Node_(p), <<kv>> >>)) = Pairs(c) + Increment(frame[p].op)
    BY <1>2, <1>5, <2>1, <2>3
  <2> HIDE DEF done
  <2> QED BY <1>1, <1>8, <2>4, ReadCount
<1>9. CASE Len(Node_(p)) # NODE_BUNDLE_SIZE
             /\ Step(p, "write", n, << Append(Node_(p), kv) >>, done)
  <2> DEFINE nd == Append(Node_(p), kv)
  <2>1. nd \in Node /\ Len(nd) = Len(c[n]) + 1
    <3>1. Node_(p) \in Seq(Pair)
      BY <1>2 DEF Node
    <3> QED BY <1>2, <1>3, <1>4, <1>9, <3>1
  <2> HIDE DEF nd
  <2>2. Pairs(Splice(c, n, <<nd>>)) = Pairs(c) + 1
    <3> HIDE DEF c, n
    <3> QED BY <1>2, <2>1, PairsLonger
  <2>3. Pairs(Splice(c, n, <<nd>>)) = Pairs(c) + Increment(frame[p].op)
    BY <1>5, <2>2
  <2> QED BY <1>1, <1>9, <2>3, ReadCount DEF nd
<1> QED BY <1>6, <1>7, <1>8, <1>9 DEF insert, kv

LEMMA WriteCount ==
  ASSUME TableInv, CountInv, NEW p \in Procs, write(p)
  PROVE  CountInv'
<1> DEFINE l == frame[p].list
           c == Splice(nodes[l], frame[p].node, frame[p].buf)
           g == [frame[p] EXCEPT !.at = "count"]
<1>1. /\ frame \in [Procs -> Frames] /\ nodes \in [Lists -> Seq(Node)] /\ total \in [Lists -> Int]
      /\ frame[p] \in Frames
  BY DEF TableInv, SetTypes
<1>2. frame[p].at = "write" /\ frame[p].at \in Inside
  BY DEF write, Inside
<1>3. l \in Lists
  BY <1>2, InsideFacts
<1>4. frame[p].total = total[l] /\ total[l] = Pairs(nodes[l]) /\ Pairs(c) = Pairs(nodes[l]) + Increment(frame[p].op)
  BY <1>2 DEF CountInv, CountFrame
<1>5. nodes'[l] = c /\ \A m \in Lists \ {l} : nodes'[m] = nodes[m]
  BY <1>1, <1>3 DEF write
<1>6. total' = total
  BY <1>1, <1>3, <1>4 DEF write
<1>7. frame'[p] = g /\ \A q \in Procs \ {p} : frame'[q] = frame[q]
  BY <1>1 DEF write
<1>8. g.at = "count" /\ g.at \in Inside /\ g.list = l /\ g.op = frame[p].op
  BY <1>1 DEF Frames, Inside
<1> HIDE DEF g, c
<1>9. CountFrame(p)'
  BY <1>4, <1>5, <1>6, <1>7, <1>8 DEF CountFrame
<1> QED BY <1>2, <1>5, <1>6, <1>7, <1>8, <1>9, InsideCount

LEMMA ChangeCountCount ==
  ASSUME TableInv, CountInv, NEW p \in Procs, changeCount(p)
  PROVE  CountInv'
<1> DEFINE l == frame[p].list
           g == [frame[p] EXCEPT !.at = "add", !.buf = << nodes[l][1] >>, !.total = total[l]]
<1>1. frame \in [Procs -> Frames] /\ frame[p] \in Frames
  BY DEF TableInv, SetTypes
<1>2. frame[p].at = "count" /\ frame[p].at \in Inside
  BY DEF changeCount, Inside
<1>3. total[l] + Increment(frame[p].op) = Pairs(nodes[l])
  BY <1>2 DEF CountInv, CountFrame
<1>4. frame' = [frame EXCEPT ![p] = g] /\ UNCHANGED <<lock, nodes, total>>
  BY DEF changeCount
<1>5. frame'[p] = g /\ \A q \in Procs \ {p} : frame'[q] = frame[q]
  BY <1>1, <1>4
<1>6. /\ g.at = "add" /\ g.at \in Inside /\ g.list = l /\ g.op = frame[p].op
      /\ g.buf = << nodes[l][1] >> /\ g.total = total[l]
  BY <1>1 DEF Frames, Inside
<1> HIDE DEF g
<1>7. CountFrame(p)'
  BY <1>3, <1>4, <1>5, <1>6 DEF CountFrame
<1> QED BY <1>2, <1>4, <1>5, <1>6, <1>7, InsideCount

LEMMA ChangeCountWriteCount ==
  ASSUME TableInv, CountInv, NEW p \in Procs, changeCountWrite(p)
  PROVE  CountInv'
<1> DEFINE l == frame[p].list
           g == [frame[p] EXCEPT !.at = "unlock"]
<1>1. /\ frame \in [Procs -> Frames] /\ nodes \in [Lists -> Seq(Node)] /\ total \in [Lists -> Int]
      /\ frame[p] \in Frames
  BY DEF TableInv, SetTypes
<1>2. frame[p].at = "add" /\ frame[p].at \in Inside
  BY DEF changeCountWrite, Inside
<1>3. l \in Lists /\ nodes[l] \in Seq(Node) /\ nodes[l] # <<>>
  BY <1>2, InsideFacts
<1>4. /\ frame[p].total = total[l] /\ total[l] + Increment(frame[p].op) = Pairs(nodes[l])
      /\ frame[p].buf = << nodes[l][1] >>
  BY <1>2 DEF CountInv, CountFrame
<1>5. Splice(nodes[l], 1, frame[p].buf) = nodes[l]
  BY <1>3, <1>4, SpliceSame
<1>6. nodes' = nodes
  BY <1>1, <1>5 DEF changeCountWrite
<1>7. total'[l] = Pairs(nodes[l]) /\ \A m \in Lists \ {l} : total'[m] = total[m]
  BY <1>1, <1>3, <1>4 DEF changeCountWrite
<1>8. frame'[p] = g /\ \A q \in Procs \ {p} : frame'[q] = frame[q]
  BY <1>1 DEF changeCountWrite
<1>9. g.at = "unlock" /\ g.at \in Inside /\ g.list = l
  BY <1>1 DEF Frames, Inside
<1> HIDE DEF g
<1>10. CountFrame(p)'
  BY <1>6, <1>7, <1>8, <1>9 DEF CountFrame
<1> QED BY <1>2, <1>6, <1>7, <1>8, <1>9, <1>10, InsideCount

LEMMA AcquireCount ==
  ASSUME TableInv, CountInv, NEW p \in Procs, acquire(p)
  PROVE  CountInv'
<1> DEFINE l == frame[p].list
<1>1. frame \in [Procs -> Frames] /\ frame[p] \in Frames /\ l \in Lists
  BY DEF TableInv, SetTypes, Frames
<1>2. frame[p].at = "acquire" /\ frame[p].at \notin Inside /\ UNCHANGED <<nodes, total>>
  BY DEF acquire, Inside
<1>3. lock[l] # LOCKED
  BY DEF acquire, LOCKED, UNLOCKED, DELETED
<1>4. \A q \in Procs : frame[q].at \in Inside => frame[q].list # l
  BY <1>3 DEF TableInv, OwnerInv
<1>5. Holders(l) = {}
  BY <1>4 DEF Holders
<1>6. total[l] = Pairs(nodes[l])
  BY <1>1, <1>5 DEF CountInv, CountMatches
<1>7. \E g : /\ frame' = [frame EXCEPT ![p] = g]
             /\ g.at = "out" \/ (g.at = "walk" /\ g.list = l)
  <2>1. CASE frame' = [frame EXCEPT ![p].at = "walk"]
    <3> DEFINE g == [frame[p] EXCEPT !.at = "walk"]
    <3>1. g.at = "walk" /\ g.list = l
      BY <1>1 DEF Frames
    <3>2. frame' = [frame EXCEPT ![p] = g]
      BY <2>1
    <3> HIDE DEF g
    <3> QED BY <3>1, <3>2
  <2>2. CASE Leave(p, [status |-> "rehash_deleted", result |-> frame[p].val])
    <3> DEFINE g == OutFrame([status |-> "rehash_deleted", result |-> frame[p].val])
    <3>1. g.at = "out"
      BY DEF OutFrame
    <3>2. frame' = [frame EXCEPT ![p] = g]
      BY <2>2 DEF Leave
    <3> HIDE DEF g
    <3> QED BY <3>1, <3>2
  <2> QED BY <2>1, <2>2 DEF acquire
<1>8. PICK g : /\ frame' = [frame EXCEPT ![p] = g]
               /\ g.at = "out" \/ (g.at = "walk" /\ g.list = l)
  BY <1>7
<1>9. frame'[p] = g /\ \A q \in Procs \ {p} : frame'[q] = frame[q]
  BY <1>1, <1>8
<1>10. CountFrame(p)'
  BY <1>2, <1>6, <1>8, <1>9 DEF CountFrame
<1>11. \A m \in Lists \ {l} : Holders(m)' = {} => Holders(m) = {}
  BY <1>2, <1>9 DEF Holders
<1> QED BY <1>1, <1>2, <1>4, <1>6, <1>9, <1>10, <1>11, CountOthers

LEMMA UnlockCount ==
  ASSUME TableInv, CountInv, NEW p \in Procs, unlock(p)
  PROVE  CountInv'
<1> DEFINE l == frame[p].list
           g == OutFrame(frame[p].res)
<1>1. frame \in [Procs -> Frames]
  BY DEF TableInv, SetTypes
<1>2. frame[p].at = "unlock" /\ frame[p].at \in Inside /\ UNCHANGED <<nodes, total>>
  BY DEF unlock, Inside
<1>3. l \in Lists
  BY <1>2, InsideFacts
<1>4. total[l] = Pairs(nodes[l])
  BY <1>2 DEF CountInv, CountFrame
<1>5. \A q \in Procs \ {p} : frame[q].at \in Inside => frame[q].list # l
  BY <1>2 DEF TableInv, OwnerInv
<1>6. g.at = "out"
  BY DEF OutFrame
<1>7. frame' = [frame EXCEPT ![p] = g]
  BY DEF unlock, Leave
<1> HIDE DEF g
<1>8. frame'[p] = g /\ \A q \in Procs \ {p} : frame'[q] = frame[q]
  BY <1>1, <1>7
<1>9. CountFrame(p)'
  BY <1>6, <1>8 DEF CountFrame
<1>10. \A m \in Lists \ {l} : Holders(m)' = {} => Holders(m) = {}
  BY <1>8 DEF Holders
<1> QED BY <1>2, <1>3, <1>4, <1>5, <1>8, <1>9, <1>10, CountOthers

LEMMA SetStepCount ==
  ASSUME TableInv, CountInv, NEW p \in Procs, SetStep(p)
  PROVE  CountInv'
BY AcquireCount, ContainsCount, InsertCount, RemoveCount, WriteCount, ChangeCountCount,
   ChangeCountWriteCount, UnlockCount DEF SetStep

-----------------------------------------------------------------------------
(* The other steps *)

\* A process that is in no set operation enters one.
LEMMA EnterCount ==
  ASSUME TableInv, CountInv, NEW p \in Procs, frame[p].at = "out", UNCHANGED <<nodes, total>>,
         NEW op, NEW l, NEW key, NEW val, Enter(p, op, l, key, val)
  PROVE  CountInv'
<1> DEFINE g == NewFrame(op, l, key, val)
<1>1. frame \in [Procs -> Frames]
  BY DEF TableInv, SetTypes
<1>2. frame' = [frame EXCEPT ![p] = g] /\ g.at = "acquire"
  BY DEF Enter, NewFrame
<1> HIDE DEF g
<1>3. frame'[p] = g /\ \A q \in Procs \ {p} : frame'[q] = frame[q]
  BY <1>1, <1>2
<1>4. \A m : Holders(m)' = Holders(m)
  BY <1>2, <1>3 DEF Holders, Inside
<1>5. CountMatches'
  BY <1>4 DEF CountInv, CountMatches
<1>6. ASSUME NEW q \in Procs PROVE CountFrame(q)'
  <2>1. CASE q = p
    BY <1>2, <1>3, <2>1 DEF CountFrame
  <2>2. CASE q # p
    BY <1>3, <2>2 DEF CountInv, CountFrame
  <2> QED BY <2>1, <2>2
<1> QED BY <1>5, <1>6 DEF CountInv

LEMMA SameCount ==
  ASSUME CountInv, UNCHANGED <<nodes, total, frame>>
  PROVE  CountInv'
<1>1. \A m : Holders(m)' = Holders(m)
  BY DEF Holders
<1>2. CountMatches'
  BY <1>1 DEF CountInv, CountMatches
<1>3. \A q \in Procs : CountFrame(q)'
  BY DEF CountInv, CountFrame
<1> QED BY <1>2, <1>3 DEF CountInv

LEMMA AllocateCount ==
  ASSUME TableInv, CountInv, allocateSets
  PROVE  CountInv'
<1>1. /\ rh.at = "allocate" /\ UNCHANGED frame
      /\ nodes' = [l \in Lists |-> IF l \in NewLists THEN << <<>> >> ELSE nodes[l]]
      /\ total' = [l \in Lists |-> IF l \in NewLists THEN 0 ELSE total[l]]
  BY DEF allocateSets, rhAt, Construct
<1>2. NewLists = newStart..(newStart + newCount - 1) /\ newStart \in Nat /\ newCount \in Nat
  BY <1>1, NewArray
<1>3. \A m \in NewLists : m \in Lists => lock[m] = RAW
  <2>1. Top = newStart
    BY <1>1 DEF Top, TableInv, RehashInv, newStart
  <2> QED BY <1>2, <2>1, SetAssumption DEF TableInv, ArrayInv
<1>4. CountMatches'
  <2> SUFFICES ASSUME NEW l \in Lists, Holders(l)' = {} PROVE total'[l] = Pairs(nodes'[l])
    BY DEF CountMatches
  <2>1. Holders(l) = {}
    BY <1>1 DEF Holders
  <2>2. CASE l \in NewLists
    <3>1. total'[l] = 0 /\ nodes'[l] = << <<>> >>
      BY <1>1, <2>2
    <3> QED BY <3>1, PairsNone
  <2>3. CASE l \notin NewLists
    BY <1>1, <2>1, <2>3 DEF CountInv, CountMatches
  <2> QED BY <2>2, <2>3
<1>5. ASSUME NEW q \in Procs PROVE CountFrame(q)'
  <2>1. CountFrame(q) /\ frame'[q] = frame[q]
    BY <1>1 DEF CountInv
  <2>2. CASE frame[q].at \in Inside
    <3>1. frame[q].list \in Lists /\ lock[frame[q].list] = LOCKED
      BY <2>2, InsideFacts
    <3>2. nodes'[frame[q].list] = nodes[frame[q].list] /\ total'[frame[q].list] = total[frame[q].list]
      BY <1>1, <1>3, <3>1 DEF LOCKED, RAW
    <3> QED BY <2>1, <3>2 DEF CountFrame
  <2>3. CASE frame[q].at \notin Inside
    BY <2>1, <2>3 DEF CountFrame, Inside
  <2> QED BY <2>2, <2>3
<1> QED BY <1>4, <1>5 DEF CountInv

LEMMA NextCount == TableInv /\ CountInv /\ [Next]_vars => CountInv'
<1> SUFFICES ASSUME TableInv, CountInv, [Next]_vars PROVE CountInv'
  OBVIOUS
<1>1. CASE \E p \in Procs : SetStep(p)
  BY <1>1, SetStepCount
<1>2. CASE allocateSets
  BY <1>2, AllocateCount
<1>3. CASE \E t \in Threads : readRoot(t)
  <2>1. PICK t \in Threads : readRoot(t)
    BY <1>3
  <2>2. pc[t] = "start" /\ UNCHANGED <<nodes, total>>
    BY <2>1 DEF readRoot
  <2>3. frame[t].at = "out" /\ t \in Procs
    BY <2>2, TableAssumption DEF TableInv, CallInv
  <2>4. CASE UNCHANGED frame
    BY <2>2, <2>4, SameCount
  <2>5. CASE Enter(t, call[t].op, indexAt(root.start, keyhash(call[t].key, root.count)),
                   call[t].key, call[t].val)
    BY <2>2, <2>3, <2>5, EnterCount
  <2> QED BY <2>1, <2>4, <2>5 DEF readRoot
<1>4. CASE readd
  <2>1. frame[Server].at = "out" /\ Server \in Procs /\ UNCHANGED <<nodes, total>>
    BY <1>4, TableAssumption DEF readd
  <2>2. CASE UNCHANGED frame
    BY <2>1, <2>2, SameCount
  <2>3. CASE Enter(Server, "insert", indexAt(newStart, keyhash(Head(rh.todo).key, newCount)),
                   Head(rh.todo).key, Head(rh.todo).val)
    BY <2>1, <2>3, EnterCount
  <2> QED BY <1>4, <2>2, <2>3 DEF readd
<1>5. CASE UNCHANGED <<nodes, total, frame>>
  BY <1>5, SameCount
<1>6. \/ \E p \in Procs : SetStep(p)
      \/ allocateSets \/ readd
      \/ \E t \in Threads : readRoot(t)
      \/ UNCHANGED <<nodes, total, frame>>
  BY TableAssumption
     DEF Next, Client, TryDeliver, Invoke, setStep, finish, sendRoot, Rehash, try_rehash,
         sumLengths, freezeSets, freeze, publish, foreachNode, readdStep, meltSets, melt,
         Finished, vars, svars
<1> QED BY <1>1, <1>2, <1>3, <1>4, <1>5, <1>6

-----------------------------------------------------------------------------
(* The initial state and the result *)

\* Counting on from node to node numbers the places.
LEMMA PlaceNumbers ==
  ASSUME NEW B \in Nat \ {0}, NEW a \in Nat, NEW b \in Nat, NEW i \in 1..B, NEW j \in 1..B,
         a * B + i = b * B + j
  PROVE  a = b /\ i = j
<1>1. a * B \in Nat /\ b * B \in Nat /\ (a + 1) * B = a * B + B /\ (b + 1) * B = b * B + B
  OBVIOUS
<1>2. ~(a < b)
  <2> SUFFICES ASSUME a < b PROVE FALSE
    OBVIOUS
  <2>1. a + 1 \in Nat /\ a + 1 <= b
    OBVIOUS
  <2>2. (a + 1) * B <= b * B
    BY <2>1, MulMono
  <2> DEFINE x == a * B
             y == b * B
  <2>3. x \in Nat /\ y \in Nat /\ x + i = y + j /\ x + B <= y
    BY <1>1, <2>2
  <2> HIDE DEF x, y
  <2> QED BY <2>3
<1>3. ~(b < a)
  <2> SUFFICES ASSUME b < a PROVE FALSE
    OBVIOUS
  <2>1. b + 1 \in Nat /\ b + 1 <= a
    OBVIOUS
  <2>2. (b + 1) * B <= a * B
    BY <2>1, MulMono
  <2> DEFINE x == a * B
             y == b * B
  <2>3. x \in Nat /\ y \in Nat /\ x + i = y + j /\ y + B <= x
    BY <1>1, <2>2
  <2> HIDE DEF x, y
  <2> QED BY <2>3
<1>4. a = b
  BY <1>2, <1>3
<1> QED BY <1>1, <1>4

\* The places of the chain that populate leaves are numbered by its keys.
LEMMA PairsOfChain ==
  ASSUME NEW ks \in Seq(Keys)
  PROVE  Pairs(Chain(ks)) = Len(ks)
<1> DEFINE B == NODE_BUNDLE_SIZE
           L == Len(ks)
           c == Chain(ks)
           n == Len(c)
           F == Filled(c)
           num == [s \in F |-> (s[1] - 1) * B + s[2]]
<1>1. B \in Nat \ {0} /\ L \in Nat
  BY SetAssumption
<1>2. /\ n \in Nat \ {0} /\ c \in Seq(Node) /\ L <= n * B
      /\ \A j \in 1..n : /\ (j - 1) * B <= L
                         /\ Len(c[j]) = IF B <= L - (j - 1) * B THEN B ELSE L - (j - 1) * B
  BY ChainFacts
<1> HIDE DEF c, L
<1>3. ASSUME NEW j \in 1..n, NEW i \in 1..B
      PROVE  /\ (j - 1) * B \in Nat
             /\ <<j, i>> \in F <=> (j - 1) * B + i <= L
  <2> DEFINE x == (j - 1) * B
  <2>1. j - 1 \in Nat
    BY <1>2
  <2>2. x \in Nat
    BY <1>1, <2>1
  <2>3. Len(c[j]) = IF B <= L - x THEN B ELSE L - x
    BY <1>2
  <2>4. <<j, i>> \in F <=> i \in 1..Len(c[j])
    BY <1>2, FilledAt
  <2> HIDE DEF x, F
  <2>5. i \in 1..Len(c[j]) <=> x + i <= L
    BY <1>1, <2>2, <2>3
  <2> QED BY <2>2, <2>4, <2>5 DEF x
<1>4. ASSUME NEW s \in F
      PROVE  s = <<s[1], s[2]>> /\ s[1] \in 1..n /\ s[2] \in 1..B
  BY DEF Filled
<1>5. num \in [F -> 1..L]
  <2> SUFFICES ASSUME NEW s \in F PROVE (s[1] - 1) * B + s[2] \in 1..L
    OBVIOUS
  <2>1. s = <<s[1], s[2]>> /\ s[1] \in 1..n /\ s[2] \in 1..B
    BY <1>4
  <2> DEFINE x == (s[1] - 1) * B
  <2>2. x \in Nat /\ x + s[2] <= L
    BY <1>3, <2>1
  <2> HIDE DEF x
  <2>3. x + s[2] \in 1..L
    BY <1>1, <2>1, <2>2
  <2> QED BY <2>3 DEF x
<1>6. ASSUME NEW s \in F, NEW r \in F, num[s] = num[r] PROVE s = r
  <2>1. /\ s = <<s[1], s[2]>> /\ s[1] \in 1..n /\ s[2] \in 1..B
        /\ r = <<r[1], r[2]>> /\ r[1] \in 1..n /\ r[2] \in 1..B
    BY <1>4
  <2> DEFINE a == s[1] - 1
             b == r[1] - 1
  <2>2. a \in Nat /\ b \in Nat /\ a * B + s[2] = b * B + r[2]
    BY <1>2, <1>6, <2>1
  <2> HIDE DEF a, b
  <2>3. a = b /\ s[2] = r[2]
    BY <1>1, <2>1, <2>2, PlaceNumbers
  <2>4. s[1] = r[1]
    BY <1>2, <2>1, <2>3 DEF a, b
  <2> QED BY <2>1, <2>3, <2>4
<1>7. ASSUME NEW y \in 1..L PROVE \E s \in F : num[s] = y
  <2> DEFINE z == y - 1
             q == z \div B
             i == z - B * q + 1
  <2>1. z \in Nat /\ z < L /\ y = z + 1
    BY <1>1
  <2> HIDE DEF z
  <2>2. q \in Nat /\ B * q <= z /\ z < B * q + B
    BY <1>1, <2>1, DivBounds
  <2> HIDE DEF q
  <2>3. B * q \in Nat /\ B * q = q * B
    BY <1>1, <2>2
  <2>4. i \in 1..B /\ q * B + i = y
    BY <1>1, <2>1, <2>2, <2>3
  <2> HIDE DEF i
  <2>5. q < n
    <3> SUFFICES ASSUME n <= q PROVE FALSE
      BY <1>2, <2>2
    <3>1. n * B <= q * B
      BY <1>1, <1>2, <2>2, MulMono
    <3>2. n * B \in Nat
      BY <1>1, <1>2
    <3> QED BY <1>1, <1>2, <2>1, <2>2, <2>3, <3>1, <3>2
  <2>6. q + 1 \in 1..n /\ (q + 1) - 1 = q
    BY <1>2, <2>2, <2>5
  <2>7. <<q + 1, i>> \in F
    <3>1. ((q + 1) - 1) * B + i <= L
      BY <1>1, <2>4, <2>6
    <3> QED BY <1>3, <2>4, <2>6, <3>1
  <2>8. num[<<q + 1, i>>] = y
    BY <2>4, <2>6, <2>7
  <2> QED BY <2>7, <2>8
<1>8. num \in Bijection(F, 1..L)
  <2> HIDE DEF F, num
  <2> QED BY <1>5, <1>6, <1>7 DEF Bijection, Injection, Surjection, IsInjective
<1>9. ExistsBijection(F, 1..L)
  BY <1>8 DEF ExistsBijection
<1>10. IsFiniteSet(F)
  BY <1>2, FilledFinite
<1>11. Cardinality(1..L) = Cardinality(F)
  BY <1>9, <1>10, FS_Bijection
<1>12. Cardinality(1..L) = L
  BY <1>1, FS_Interval
<1> QED BY <1>11, <1>12 DEF Pairs, c, L

LEMMA InitCount == Init => CountInv
<1> SUFFICES ASSUME Init PROVE CountInv
  OBVIOUS
<1>1. PICK pop \in Populations :
        /\ nodes = [l \in Lists |-> IF l < INITIAL_SIZE THEN Chain(pop[l]) ELSE <<>>]
        /\ total = [l \in Lists |-> IF l < INITIAL_SIZE THEN Len(pop[l]) ELSE 0]
  BY DEF Init, populate
<1>2. CountMatches
  <2> SUFFICES ASSUME NEW l \in Lists PROVE total[l] = Pairs(nodes[l])
    BY DEF CountMatches
  <2>1. CASE l < INITIAL_SIZE
    <3>1. pop \in [0..(INITIAL_SIZE - 1) -> Seq(Keys)]
      BY TableAssumption
    <3>2. l \in 0..(INITIAL_SIZE - 1)
      BY <2>1, SetAssumption, TableAssumption
    <3>3. pop[l] \in Seq(Keys)
      BY <3>1, <3>2
    <3>4. Pairs(Chain(pop[l])) = Len(pop[l])
      BY <3>3, PairsOfChain
    <3> QED BY <1>1, <2>1, <3>4
  <2>2. CASE ~(l < INITIAL_SIZE)
    BY <1>1, <2>2, PairsNone
  <2> QED BY <2>1, <2>2
<1>3. \A p \in Procs : frame[p].at = "out"
  BY DEF Init, OutFrame
<1>4. \A p \in Procs : CountFrame(p)
  BY <1>3 DEF CountFrame
<1> QED BY <1>2, <1>4 DEF CountInv

\* CountInv is an invariant: the two writes of an insert or a remove, of the
\* node and of the total in the first node, never lose one another's effect.
THEOREM CountInvariant == Spec => []CountInv
<1> QED BY InitCount, NextCount, TableInvariant, PTL DEF Spec

\* total_length is the number of pairs of every set that nobody is inside.
THEOREM CountMatchesProved == Spec => []CountMatches
<1>1. CountInv => CountMatches
  BY DEF CountInv
<1> QED BY <1>1, CountInvariant, PTL
=============================================================================
