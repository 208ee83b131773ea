-------------------------- MODULE Messages_proofs --------------------------
(***************************************************************************)
(* Proofs about the generated message classes: an inductive invariant Inv, *)
(* which says what the messages and the heap may be like, and, from it and *)
(* the lemmas of MessageMethods_proofs, that every property of Messages    *)
(* holds for all values of the fields, all lengths of messages and all     *)
(* sequences of calls.                                                     *)
(***************************************************************************)
EXTENDS MessageMethods_proofs

-----------------------------------------------------------------------------
(* The invariant *)

\* The addresses a metric owns, and what it owns in the heap h.
Refs(m) == IF m.case = NotSet THEN {} ELSE {m.ref}
HeldRefs == IF held = Null THEN {} ELSE {held}

Metric(m, h) ==
    \/ \E b \in Named : m = Whole(b, NotSet, Null)
    \/ \E b \in Named, c \in Cases, p \in DOMAIN h : m = Whole(b, c, p) /\ h[p] \in Sane(Own(c))

Holds(h, p, c) == p # Null => c \in Cases /\ p \in DOMAIN h /\ h[p] \in Sane(Own(c))

\* Two messages of a class without nested messages ...
FlatInv ==
    /\ kind \in FlatClasses
    /\ fields \subseteq Own(kind)
    /\ msg \in [Mine -> Sane(Own(kind))]
    /\ DOMAIN heap = {}
    /\ held = Null

\* ... or two metrics: what they own, and what the program took out of them, is all there is on the heap.
MetricInv ==
    /\ kind = "metric"
    /\ DOMAIN msg = Mine
    /\ HeapOK(heap)
    /\ DOMAIN heap = Refs(msg["a"]) \cup Refs(msg["b"]) \cup HeldRefs
    /\ \A x \in Mine : Metric(msg[x], heap) /\ Refs(msg[x]) \cap HeldRefs = {}
    /\ Refs(msg["a"]) \cap Refs(msg["b"]) = {}
    /\ Holds(heap, held, heldCase)

Inv == FlatInv \/ MetricInv

-----------------------------------------------------------------------------
(* What a metric owns, and the rest of the heap *)

\* The two messages.
LEMMA Others ==
    ASSUME NEW x \in Mine
    PROVE  Other(x) \in Mine /\ Other(x) # x /\ Other(Other(x)) = x /\ Mine = {x, Other(x)}
BY DEF Mine, Other

\* What delete removes, new can add.
LEMMA DeleteBack ==
    ASSUME NEW h, HeapOK(h), NEW p \in DOMAIN h
    PROVE  /\ HeapOK(Delete(h, p)) /\ p \in Unused(Delete(h, p))
           /\ Plus(Delete(h, p), p, h[p]) = h
<1> DEFINE d == Delete(h, p)
<1>1. DOMAIN d = DOMAIN h \ {p} /\ \A q \in DOMAIN d : d[q] = h[q]
    BY DEF Delete
<1>2. IsFiniteSet(DOMAIN d)
    BY <1>1, FS_Subset DEF HeapOK
<1>3. d = [q \in DOMAIN d |-> d[q]]
    BY DEF Delete
<1>4. HeapOK(d)
    <2> HIDE DEF d
    <2> QED BY <1>1, <1>2, <1>3 DEF HeapOK
<1>5. p \in Unused(d)
    <2> HIDE DEF d
    <2> QED BY <1>1 DEF HeapOK, Unused
<1>6. Plus(d, p, h[p]) = h
    <2> HIDE DEF d
    <2>1. DOMAIN d \cup {p} = DOMAIN h
        BY <1>1
    <2>2. Plus(d, p, h[p]) = [q \in DOMAIN h |-> h[q]]
        BY <1>1, <2>1 DEF Plus
    <2> QED BY <2>2 DEF HeapOK
<1> QED BY <1>4, <1>5, <1>6

\* The case and the pointer of a metric say what it owns.
LEMMA MetricParts ==
    ASSUME NEW m, NEW h, Metric(m, h)
    PROVE  /\ m.case = NotSet => \E b \in Named : m = Whole(b, NotSet, Null)
           /\ m.case # NotSet => /\ m.case \in Cases /\ m.ref \in DOMAIN h /\ h[m.ref] \in Sane(Own(m.case))
                                 /\ \E b \in Named : m = Whole(b, m.case, m.ref)
<1>1. CASE \E b \in Named : m = Whole(b, NotSet, Null)
    BY <1>1, WholeParts
<1>2. CASE \E b \in Named, c \in Cases, p \in DOMAIN h : m = Whole(b, c, p) /\ h[p] \in Sane(Own(c))
    <2>1. PICK b \in Named, c \in Cases, p \in DOMAIN h : m = Whole(b, c, p) /\ h[p] \in Sane(Own(c))
        BY <1>2
    <2>2. m.case = c /\ m.ref = p
        BY <2>1, WholeParts
    <2> QED BY <2>1, <2>2, CasesAre
<1> QED BY <1>1, <1>2 DEF Metric

\* A metric and the rest of the heap.
Rest(x) == IF msg[x].case = NotSet THEN heap ELSE Delete(heap, msg[x].ref)

\* The rest of the heap belongs to the other metric and the program.
LEMMA RestIs ==
    ASSUME NEW x \in Mine, MetricInv
    PROVE  /\ HeapOK(Rest(x))
           /\ DOMAIN Rest(x) = Refs(msg[Other(x)]) \cup HeldRefs
           /\ \A p \in DOMAIN Rest(x) : p \in DOMAIN heap /\ Rest(x)[p] = heap[p]
<1> DEFINE y == Other(x)
<1>1. DOMAIN heap = Refs(msg[x]) \cup Refs(msg[y]) \cup HeldRefs
      /\ Refs(msg[x]) \cap Refs(msg[y]) = {} /\ Refs(msg[x]) \cap HeldRefs = {}
    <2>1. DOMAIN heap = Refs(msg["a"]) \cup Refs(msg["b"]) \cup HeldRefs
          /\ Refs(msg["a"]) \cap Refs(msg["b"]) = {} /\ Refs(msg[x]) \cap HeldRefs = {}
        BY DEF MetricInv
    <2>2. (x = "a" /\ y = "b") \/ (x = "b" /\ y = "a")
        BY DEF Mine, Other
    <2> QED BY <2>1, <2>2
<1>2. HeapOK(heap) /\ Metric(msg[x], heap)
    BY DEF MetricInv
<1> HIDE DEF y
<1>3. CASE msg[x].case = NotSet
    BY <1>1, <1>2, <1>3 DEF Rest, Refs, y
<1>4. CASE msg[x].case # NotSet
    <2> DEFINE p == msg[x].ref
    <2>1. Refs(msg[x]) = {p} /\ Rest(x) = Delete(heap, p) /\ p \in DOMAIN heap
        BY <1>2, <1>4, MetricParts DEF Refs, Rest
    <2> HIDE DEF p
    <2>2. HeapOK(Delete(heap, p))
        BY <1>2, <2>1, DeleteBack
    <2>3. DOMAIN Delete(heap, p) = DOMAIN heap \ {p} /\ \A q \in DOMAIN heap \ {p} : Delete(heap, p)[q] = heap[q]
        BY DEF Delete
    <2>4. DOMAIN heap \ {p} = Refs(msg[y]) \cup HeldRefs
        BY <1>1, <2>1
    <2> QED BY <2>1, <2>2, <2>3, <2>4 DEF y
<1> QED BY <1>3, <1>4

\* A metric and what it owns, next to the rest of the heap.
LEMMA RestState ==
    ASSUME NEW x \in Mine, MetricInv
    PROVE  With(x) \in States(Rest(x))
<1>1. HeapOK(heap) /\ Metric(msg[x], heap) /\ HeapOK(Rest(x))
    BY RestIs DEF MetricInv
<1>2. CASE msg[x].case = NotSet
    <2>1. PICK b \in Named : msg[x] = Whole(b, NotSet, Null)
        BY <1>1, <1>2, MetricParts
    <2>2. With(x) = Empty(b, Rest(x))
        BY <1>2, <2>1 DEF With, Empty, Rest
    <2> QED BY <2>2, EmptyState
<1>3. CASE msg[x].case # NotSet
    <2> DEFINE c == msg[x].case
               p == msg[x].ref
               d == Delete(heap, p)
    <2>1. c \in Cases /\ p \in DOMAIN heap /\ heap[p] \in Sane(Own(c)) /\ \E b \in Named : msg[x] = Whole(b, c, p)
        BY <1>1, <1>3, MetricParts
    <2>2. PICK b \in Named : msg[x] = Whole(b, c, p)
        BY <2>1
    <2>3. Rest(x) = d
        BY <1>3 DEF Rest
    <2>4. p \in Unused(d) /\ Plus(d, p, heap[p]) = heap
        BY <1>1, <2>1, DeleteBack
    <2>5. With(x) = [m |-> msg[x], h |-> heap]
        BY DEF With
    <2> HIDE DEF d, c, p
    <2>6. With(x) = Full(b, c, p, heap[p], d)
        BY <2>2, <2>4, <2>5 DEF Full
    <2> QED BY <2>1, <2>3, <2>4, <2>6, FullState
<1> QED BY <1>2, <1>3

\* The rest of the heap holds what the others own.
LEMMA RestOthers ==
    ASSUME NEW x \in Mine, MetricInv
    PROVE  /\ Metric(msg[Other(x)], Rest(x))
           /\ Refs(msg[Other(x)]) \cap HeldRefs = {}
           /\ Holds(Rest(x), held, heldCase)
<1> DEFINE y == Other(x)
           H == Rest(x)
<1>1. y \in Mine /\ Metric(msg[y], heap) /\ Refs(msg[y]) \cap HeldRefs = {}
    BY Others DEF MetricInv
<1>2. DOMAIN H = Refs(msg[y]) \cup HeldRefs /\ \A p \in DOMAIN H : H[p] = heap[p]
    BY RestIs
<1> HIDE DEF y, H
<1>3. Metric(msg[y], H)
    <2>1. CASE msg[y].case = NotSet
        <3>1. PICK b \in Named : msg[y] = Whole(b, NotSet, Null)
            BY <1>1, <2>1, MetricParts
        <3> QED BY <3>1 DEF Metric
    <2>2. CASE msg[y].case # NotSet
        <3>1. msg[y].ref \in DOMAIN H
            BY <1>2, <2>2 DEF Refs
        <3>2. msg[y].case \in Cases /\ H[msg[y].ref] \in Sane(Own(msg[y].case))
            BY <1>1, <1>2, <2>2, <3>1, MetricParts
        <3>3. PICK b \in Named : msg[y] = Whole(b, msg[y].case, msg[y].ref)
            BY <1>1, <2>2, MetricParts
        <3> QED BY <3>1, <3>2, <3>3 DEF Metric
    <2> QED BY <2>1, <2>2
<1>4. Holds(H, held, heldCase)
    BY <1>2 DEF Holds, HeldRefs, MetricInv
<1> QED BY <1>1, <1>3, <1>4 DEF y, H
-----------------------------------------------------------------------------
(* A step on a metric keeps the invariant *)

\* What a metric owns is not part of the rest.
LEMMA StateParts ==
    ASSUME NEW H, HeapOK(H), NEW s \in States(H)
    PROVE  /\ HeapOK(s.h) /\ Metric(s.m, s.h)
           /\ DOMAIN s.h = DOMAIN H \cup Refs(s.m)
           /\ Refs(s.m) \cap DOMAIN H = {}
           /\ \A q \in DOMAIN H : s.h[q] = H[q]
<1>1. CASE \E b \in Named : s = Empty(b, H)
    <2>1. PICK b \in Named : s = Empty(b, H)
        BY <1>1
    <2>2. s.m = Whole(b, NotSet, Null) /\ s.h = H /\ s.m.case = NotSet
        BY <2>1, EmptyParts, WholeParts
    <2>3. Metric(s.m, s.h)
        BY <2>2 DEF Metric
    <2> QED BY <2>2, <2>3 DEF Refs
<1>2. CASE \E b \in Named, c \in Cases, p \in Unused(H) : \E x \in Sane(Own(c)) : s = Full(b, c, p, x, H)
    <2>1. PICK b \in Named, c \in Cases, p \in Unused(H) : \E x \in Sane(Own(c)) : s = Full(b, c, p, x, H)
        BY <1>2
    <2>2. PICK x \in Sane(Own(c)) : s = Full(b, c, p, x, H)
        BY <2>1
    <2>3. s.m = Whole(b, c, p) /\ s.h = Plus(H, p, x)
        BY <2>2, FullParts
    <2>4. s.m.case = c /\ s.m.ref = p
        BY <2>3, WholeParts
    <2>5. Refs(s.m) = {p} /\ p \notin DOMAIN H
        BY <2>4, CasesAre DEF Refs, Unused
    <2>6. HeapOK(Plus(H, p, x))
        BY PlusOK
    <2>7. DOMAIN Plus(H, p, x) = DOMAIN H \cup {p}
        BY PlusDomain
    <2>8. Plus(H, p, x)[p] = x
        BY PlusIs
    <2>9. \A q \in DOMAIN H : Plus(H, p, x)[q] = H[q]
        BY PlusAt
    <2>10. Metric(s.m, s.h)
        <3>1. p \in DOMAIN s.h /\ s.h[p] \in Sane(Own(c))
            BY <2>3, <2>7, <2>8
        <3> QED BY <2>3, <3>1 DEF Metric
    <2> QED BY <2>3, <2>5, <2>6, <2>7, <2>9, <2>10
<1> QED BY <1>1, <1>2, StateIs

\* H is what neither message x nor its nested message is, after the step.
LEMMA MetricJoin ==
    ASSUME NEW x \in Mine, kind = "metric", DOMAIN msg = Mine, NEW H, HeapOK(H), NEW s \in States(H),
           Metric(msg[Other(x)], H), DOMAIN H = Refs(msg[Other(x)]) \cup HeldRefs',
           Refs(msg[Other(x)]) \cap HeldRefs' = {}, Holds(H, held', heldCase'),
           Becomes(x, s)
    PROVE  MetricInv'
<1> DEFINE y == Other(x)
           h == s.h
<1>1. /\ HeapOK(h) /\ Metric(s.m, h)
      /\ DOMAIN h = DOMAIN H \cup Refs(s.m)
      /\ Refs(s.m) \cap DOMAIN H = {}
      /\ \A q \in DOMAIN H : h[q] = H[q]
    BY StateParts
<1>2. y \in Mine /\ y # x /\ Mine = {x, y} /\ ((x = "a" /\ y = "b") \/ (x = "b" /\ y = "a"))
    BY Others DEF Mine, Other
<1>3. msg' = [msg EXCEPT ![x] = s.m] /\ heap' = h /\ kind' = "metric"
    BY DEF Becomes
<1> HIDE DEF y, h
<1>4. DOMAIN msg' = Mine /\ msg'[x] = s.m /\ msg'[y] = msg[y]
    BY <1>2, <1>3
<1>5. Metric(msg[y], h)
    <2>1. CASE msg[y].case = NotSet
        <3>1. PICK b \in Named : msg[y] = Whole(b, NotSet, Null)
            BY <2>1, MetricParts DEF y
        <3> QED BY <3>1 DEF Metric
    <2>2. CASE msg[y].case # NotSet
        <3>1. msg[y].case \in Cases /\ msg[y].ref \in DOMAIN H /\ H[msg[y].ref] \in Sane(Own(msg[y].case))
            BY <2>2, MetricParts DEF y
        <3>2. msg[y].ref \in DOMAIN h /\ h[msg[y].ref] \in Sane(Own(msg[y].case))
            BY <1>1, <3>1
        <3>3. PICK b \in Named : msg[y] = Whole(b, msg[y].case, msg[y].ref)
            BY <2>2, MetricParts DEF y
        <3> QED BY <3>1, <3>2, <3>3 DEF Metric
    <2> QED BY <2>1, <2>2
<1> DEFINE R == HeldRefs'
<1>6. DOMAIN H = Refs(msg[y]) \cup R /\ Refs(msg[y]) \cap R = {}
    BY DEF y
<1>7. Holds(h, held', heldCase')
    <2>1. held' # Null => heldCase' \in Cases /\ held' \in DOMAIN H /\ H[held'] \in Sane(Own(heldCase'))
        BY DEF Holds
    <2>2. held' # Null => held' \in DOMAIN h /\ h[held'] = H[held']
        BY <1>1, <2>1
    <2> QED BY <2>1, <2>2 DEF Holds
<1> HIDE DEF R
<1>8. DOMAIN h = Refs(msg[y]) \cup R \cup Refs(s.m) /\ Refs(s.m) \cap Refs(msg[y]) = {} /\ Refs(s.m) \cap R = {}
    BY <1>1, <1>6
<1>9. /\ DOMAIN heap' = Refs(msg'["a"]) \cup Refs(msg'["b"]) \cup R
      /\ Refs(msg'["a"]) \cap Refs(msg'["b"]) = {}
    BY <1>2, <1>3, <1>4, <1>8
<1>10. \A z \in Mine : Metric(msg'[z], heap') /\ Refs(msg'[z]) \cap R = {}
    BY <1>1, <1>2, <1>3, <1>4, <1>5, <1>6, <1>8
<1>11. HeapOK(heap') /\ Holds(heap', held', heldCase')
    BY <1>1, <1>3, <1>7
<1> QED BY <1>3, <1>4, <1>9, <1>10, <1>11 DEF MetricInv, R

\* A method that leaves a metric and what it owns, and the rest of the heap, keeps the invariant.
LEMMA MetricStep ==
    ASSUME NEW x \in Mine, MetricInv, NEW s \in States(Rest(x)), Becomes(x, s), KeepsHeld
    PROVE  MetricInv'
<1>1. kind = "metric" /\ DOMAIN msg = Mine
    BY DEF MetricInv
<1>2. held' = held /\ heldCase' = heldCase /\ HeldRefs' = HeldRefs
    BY DEF KeepsHeld, HeldRefs
<1>3. HeapOK(Rest(x)) /\ DOMAIN Rest(x) = Refs(msg[Other(x)]) \cup HeldRefs
    BY RestIs
<1>4. /\ Metric(msg[Other(x)], Rest(x)) /\ Refs(msg[Other(x)]) \cap HeldRefs = {}
      /\ Holds(Rest(x), held, heldCase)
    BY RestOthers
<1> DEFINE H == Rest(x)
<1> HIDE DEF H
<1>5. /\ HeapOK(H) /\ DOMAIN H = Refs(msg[Other(x)]) \cup HeldRefs' /\ Metric(msg[Other(x)], H)
      /\ Refs(msg[Other(x)]) \cap HeldRefs' = {} /\ Holds(H, held', heldCase') /\ s \in States(H)
    BY <1>2, <1>3, <1>4 DEF H
<1> QED BY <1>1, <1>5, MetricJoin

\* A method on a message of another class keeps the invariant if it leaves a sane message.
LEMMA FlatStep ==
    ASSUME NEW x \in Mine, FlatInv, NEW s, s.m \in Sane(Own(kind)), s.h = heap, Becomes(x, s), KeepsHeld
    PROVE  FlatInv'
<1>1. msg' = [msg EXCEPT ![x] = s.m] /\ heap' = heap /\ kind' = kind /\ fields' = fields /\ held' = held
    BY DEF Becomes, KeepsHeld
<1>2. msg' \in [Mine -> Sane(Own(kind))]
    <2> DEFINE S == Sane(Own(kind))
    <2>1. msg \in [Mine -> S]
        BY DEF FlatInv
    <2> HIDE DEF S
    <2>2. [msg EXCEPT ![x] = s.m] \in [Mine -> S]
        BY <2>1 DEF S
    <2> QED BY <1>1, <2>2 DEF S
<1>3. Sane(Own(kind))' = Sane(Own(kind')) /\ Own(kind)' = Own(kind')
    BY DEF Sane, Own, Msgs, Unstale, ClassSchema, Names, Foreign, Entry
<1> QED BY <1>1, <1>2, <1>3 DEF FlatInv
-----------------------------------------------------------------------------
(* The methods of a metric and the heap *)

\* The accessors of the name leave what is owned.
LEMMA OwnFieldState ==
    ASSUME NEW H, NEW s \in States(H), NEW v \in Nat
    PROVE  SetMetric(s, Put(s.m, "name", v)) \in States(H) /\ SetMetric(s, Drop(s.m, "name")) \in States(H)
<1>1. CASE \E b \in Named : s = Empty(b, H)
    <2>1. PICK b \in Named : s = Empty(b, H)
        BY <1>1
    <2>2. s.m = Whole(b, NotSet, Null)
        BY <2>1, EmptyParts
    <2>3. Put(b, "name", v) \in Named /\ Drop(b, "name") \in Named
        BY PutSane, DropSane DEF Named
    <2>4. /\ Put(Whole(b, NotSet, Null), "name", v) = Whole(Put(b, "name", v), NotSet, Null)
          /\ Drop(Whole(b, NotSet, Null), "name") = Whole(Drop(b, "name"), NotSet, Null)
        BY WholePut DEF Named
    <2>5. SetMetric(s, Put(s.m, "name", v)) = Empty(Put(b, "name", v), H)
        BY <2>1, <2>2, <2>4, OnEmpty
    <2>6. SetMetric(s, Drop(s.m, "name")) = Empty(Drop(b, "name"), H)
        <3>1. Drop(s.m, "name") = Whole(Drop(b, "name"), NotSet, Null)
            BY <2>2, <2>4
        <3> QED BY <2>1, <3>1, OnEmpty
    <2> QED BY <2>3, <2>5, <2>6, EmptyState
<1>2. CASE \E b \in Named, c \in Cases, p \in Unused(H) : \E x \in Sane(Own(c)) : s = Full(b, c, p, x, H)
    <2>1. PICK b \in Named, c \in Cases, p \in Unused(H) : \E x \in Sane(Own(c)) : s = Full(b, c, p, x, H)
        BY <1>2
    <2>2. PICK x \in Sane(Own(c)) : s = Full(b, c, p, x, H)
        BY <2>1
    <2>3. s.m = Whole(b, c, p)
        BY <2>2, FullParts
    <2>4. Put(b, "name", v) \in Named /\ Drop(b, "name") \in Named
        BY PutSane, DropSane DEF Named
    <2>5. /\ Put(Whole(b, c, p), "name", v) = Whole(Put(b, "name", v), c, p)
          /\ Drop(Whole(b, c, p), "name") = Whole(Drop(b, "name"), c, p)
        BY WholePut DEF Named
    <2>6. SetMetric(s, Put(s.m, "name", v)) = Full(Put(b, "name", v), c, p, x, H)
        BY <2>2, <2>3, <2>5, OnFull
    <2>7. SetMetric(s, Drop(s.m, "name")) = Full(Drop(b, "name"), c, p, x, H)
        <3>1. Drop(s.m, "name") = Whole(Drop(b, "name"), c, p)
            BY <2>3, <2>5
        <3> QED BY <2>2, <3>1, OnFull
    <2>8. Full(Put(b, "name", v), c, p, x, H) \in States(H)
        BY <2>4, FullState
    <2>9. Full(Drop(b, "name"), c, p, x, H) \in States(H)
        BY <2>4, FullState
    <2> QED BY <2>6, <2>7, <2>8, <2>9
<1> QED BY <1>1, <1>2, StateIs

\* mutable_<case> leaves a metric that owns one message.
LEMMA MutableKeeps ==
    ASSUME NEW H, HeapOK(H), NEW s \in States(H), NEW c \in Cases
    PROVE  mutable(s, c) \in States(H)
<1>1. PICK b \in Named, r \in Unused(H) : \E y \in Sane(Own(c)) : mutable(s, c) = Full(b, c, r, y, H)
    BY MutableState
<1>2. PICK y \in Sane(Own(c)) : mutable(s, c) = Full(b, c, r, y, H)
    BY <1>1
<1> QED BY <1>2, FullState

\* A field of the nested message is set.
LEMMA NestedSetKeeps ==
    ASSUME NEW H, HeapOK(H), NEW s \in States(H), NEW c \in Cases, NEW f \in Own(c), NEW v \in Nat
    PROVE  [mutable(s, c) EXCEPT !.h[mutable(s, c).m.ref] = ClassSet(c, @, f, v)] \in States(H)
<1>1. PICK b \in Named, r \in Unused(H) : \E y \in Sane(Own(c)) : mutable(s, c) = Full(b, c, r, y, H)
    BY MutableState
<1>2. PICK y \in Sane(Own(c)) : mutable(s, c) = Full(b, c, r, y, H)
    BY <1>1
<1> DEFINE d == Full(b, c, r, y, H)
           z == ClassSet(c, y, f, v)
<1>3. z \in Sane(Own(c))
    BY CasesAre, ClassSetSane
<1>4. d.h = Plus(H, r, y) /\ d.m.ref = r
    BY FullParts, WholeParts
<1>5. d.h[d.m.ref] = y
    <2>1. Plus(H, r, y)[r] = y
        BY PlusIs
    <2> HIDE DEF d
    <2> QED BY <1>4, <2>1
<1>6. SetSub(d, z) = Full(b, c, r, z, H)
    BY SetSubIs
<1> HIDE DEF z, d
<1>7. Full(b, c, r, z, H) \in States(H)
    BY <1>3, FullState
<1>8. [d EXCEPT !.h[d.m.ref] = ClassSet(c, @, f, v)] = SetSub(d, ClassSet(c, d.h[d.m.ref], f, v))
    BY DEF SetSub
<1>9. mutable(s, c) = d
    BY <1>2 DEF d
<1> QED BY <1>5, <1>6, <1>7, <1>8, <1>9 DEF z

\* clear_metric leaves one that owns none.
LEMMA ClearMetricKeeps ==
    ASSUME NEW H, HeapOK(H), NEW s \in States(H)
    PROVE  /\ \E b \in Named : clear_metric(s) = Empty(b, H)
           /\ clear_metric(s) \in States(H)
<1>1. ASSUME NEW b \in Named, s = Empty(b, H) PROVE clear_metric(s) = Empty(b, H)
    <2>1. FreeAddress(H) \in Unused(H) /\ "counter" \in Cases
        BY FreeAddressUnused DEF Cases
    <2> QED BY <1>1, <2>1, ClearMetricIs
<1>2. ASSUME NEW b \in Named, NEW c \in Cases, NEW p \in Unused(H), NEW x \in Sane(Own(c)), s = Full(b, c, p, x, H)
      PROVE  clear_metric(s) = Empty(b, H)
    <2>1. clear_metric(Full(b, c, p, x, H)) = Empty(b, H)
        BY ClearMetricIs
    <2> QED BY <1>2, <2>1
<1>3. \E b \in Named : clear_metric(s) = Empty(b, H)
    BY <1>1, <1>2, StateIs
<1> QED BY <1>3, EmptyState

\* So does Clear.
LEMMA ClearKeeps ==
    ASSUME NEW H, HeapOK(H), NEW s \in States(H)
    PROVE  Clear(s) = Empty(Fresh(Schema), H) /\ Clear(s) \in States(H)
<1>1. ASSUME NEW b \in Named, s = Empty(b, H) PROVE Clear(s) = Empty(Fresh(Schema), H)
    <2>1. FreeAddress(H) \in Unused(H) /\ "counter" \in Cases
        BY FreeAddressUnused DEF Cases
    <2>2. Clear(Empty(b, H)) = Empty(Fresh(Schema), H)
        BY <2>1, ClearIs
    <2> QED BY <1>1, <2>2
<1>2. ASSUME NEW b \in Named, NEW c \in Cases, NEW p \in Unused(H), NEW x \in Sane(Own(c)), s = Full(b, c, p, x, H)
      PROVE  Clear(s) = Empty(Fresh(Schema), H)
    <2>1. Clear(Full(b, c, p, x, H)) = Empty(Fresh(Schema), H)
        BY ClearIs
    <2> QED BY <1>2, <2>1
<1>3. Clear(s) = Empty(Fresh(Schema), H)
    BY <1>1, <1>2, StateIs
<1> QED BY <1>3, FreshNamed, EmptyState

\* Two names merged.
LEMMA JoinedNamed ==
    ASSUME NEW b \in Named, NEW e \in Named
    PROVE  Joined(b, e) \in Named
BY JoinedSane DEF Named

\* MergeFrom leaves a metric and what it owns.
LEMMA MergeKeeps ==
    ASSUME NEW H, HeapOK(H), NEW s \in States(H), NEW m, Metric(m, H)
    PROVE  MergeFrom(s, m) \in States(H)
<1> DEFINE k == m.case
           q == m.ref
<1>1. /\ k = NotSet \/ (k \in Cases /\ q \in DOMAIN H /\ H[q] \in Sane(Own(k)))
      /\ \E e \in Named : \E r : m = Whole(e, k, r) /\ (k # NotSet => r = q)
    <2>1. CASE k = NotSet
        BY <2>1, MetricParts
    <2>2. CASE k # NotSet
        BY <2>2, MetricParts
    <2> QED BY <2>1, <2>2
<1>2. PICK e \in Named : \E r : m = Whole(e, k, r) /\ (k # NotSet => r = q)
    BY <1>1
<1>r. PICK r : m = Whole(e, k, r) /\ (k # NotSet => r = q)
    BY <1>2
<1> HIDE DEF k, q
<1>3. k = NotSet \/ (k \in Cases /\ r \in DOMAIN H /\ H[r] \in Sane(Own(k)))
    BY <1>1, <1>r
<1>4. FreeAddress(H) \in Unused(H)
    BY FreeAddressUnused
<1>5. ASSUME NEW b \in Named, s = Empty(b, H) PROVE MergeFrom(s, m) \in States(H)
    <2>1. Joined(b, e) \in Named
        BY JoinedNamed
    <2>2. CASE k = NotSet
        <3>1. MergeFrom(Empty(b, H), Whole(e, k, r)) = Empty(Joined(b, e), H)
            BY <2>2, MergeEmpty
        <3> QED BY <1>r, <1>5, <2>1, <3>1, EmptyState
    <2>3. CASE k \in Cases /\ r \in DOMAIN H /\ H[r] \in Sane(Own(k))
        <3>1. MergeFrom(Empty(b, H), Whole(e, k, r)) = Full(Joined(b, e), k, FreeAddress(H), H[r], H)
            BY <2>3, MergeEmpty
        <3>2. Full(Joined(b, e), k, FreeAddress(H), H[r], H) \in States(H)
            BY <1>4, <2>1, <2>3, FullState
        <3> QED BY <1>r, <1>5, <3>1, <3>2
    <2> QED BY <1>3, <2>2, <2>3
<1>6. ASSUME NEW b \in Named, NEW c \in Cases, NEW p \in Unused(H), NEW x \in Sane(Own(c)), s = Full(b, c, p, x, H)
      PROVE  MergeFrom(s, m) \in States(H)
    <2>1. Joined(b, e) \in Named
        BY JoinedNamed
    <2>2. CASE k = NotSet
        <3>1. MergeFrom(Full(b, c, p, x, H), Whole(e, k, r)) = Full(Joined(b, e), c, p, x, H)
            BY <2>2, MergeFull
        <3>2. Full(Joined(b, e), c, p, x, H) \in States(H)
            BY <2>1, FullState
        <3> QED BY <1>r, <1>6, <3>1, <3>2
    <2>3. CASE k \in Cases /\ r \in DOMAIN H /\ H[r] \in Sane(Own(k))
        <3> DEFINE j == Joined(b, e)
                   z == Joined(x, H[r])
        <3>1. MergeFrom(Full(b, c, p, x, H), Whole(e, k, r))
                = IF k = c THEN Full(j, k, p, z, H) ELSE Full(j, k, FreeAddress(H), H[r], H)
            BY <2>3, MergeFull
        <3>2. Full(j, k, FreeAddress(H), H[r], H) \in States(H)
            BY <1>4, <2>1, <2>3, FullState
        <3>3. k = c => z \in Sane(Own(k))
            BY <2>3, JoinedSane
        <3> HIDE DEF j, z
        <3>4. j \in Named
            BY <2>1 DEF j
        <3>5. k = c => Full(j, k, p, z, H) \in States(H)
            BY <2>3, <3>3, <3>4, FullState
        <3> QED BY <1>r, <1>6, <3>1, <3>2, <3>5
    <2> QED BY <1>3, <2>2, <2>3
<1> QED BY <1>5, <1>6, StateIs

\* CopyFrom leaves a metric and what it owns.
LEMMA CopyKeeps ==
    ASSUME NEW H, HeapOK(H), NEW s \in States(H), NEW m, Metric(m, H)
    PROVE  CopyFrom(s, m) \in States(H)
<1>1. Clear(s) \in States(H)
    BY ClearKeeps
<1>2. MergeFrom(Clear(s), m) \in States(H)
    BY <1>1, MergeKeeps
<1> QED BY <1>2 DEF CopyFrom

\* What a metric is written as can be read.
LEMMA SerializeReads ==
    ASSUME NEW m, NEW h, Metric(m, h)
    PROVE  InternalSerialize(m, h) \in Seq(MetricReadable)
<1>1. ASSUME NEW b \in Named, m = Whole(b, NotSet, Null) PROVE InternalSerialize(m, h) \in Seq(MetricReadable)
    <2>1. /\ InternalSerialize(Whole(b, NotSet, Null), h) = OwnWritten(b) \o b.unknown
          /\ OwnWritten(b) \o b.unknown \in Seq(MetricReadable)
        BY SerializeEmpty
    <2> QED BY <1>1, <2>1
<1>2. ASSUME NEW b \in Named, NEW c \in Cases, NEW p \in DOMAIN h, m = Whole(b, c, p), h[p] \in Sane(Own(c))
      PROVE  InternalSerialize(m, h) \in Seq(MetricReadable)
    <2> DEFINE x == h[p]
    <2>1. InternalSerialize(Whole(b, c, p), h) = OwnWritten(b) \o SubWritten(c, x) \o b.unknown
        BY <1>2, SerializeFull
    <2>2. x \in Sane(Own(c))
        BY <1>2
    <2> HIDE DEF x
    <2>3. OwnWritten(b) \o SubWritten(c, x) \o b.unknown \in Seq(MetricReadable)
        BY <2>2, FullReads
    <2> QED BY <1>2, <2>1, <2>3
<1> QED BY <1>1, <1>2 DEF Metric
-----------------------------------------------------------------------------
(* Every step keeps the invariant *)

\* Two new messages.
LEMMA InitInv == ASSUME MessagesAssumption, Init PROVE Inv
<1>1. CASE kind = "metric"
    <2>1. /\ msg = [x \in Mine |-> New] /\ DOMAIN heap = {} /\ held = Null
          /\ heap = [p \in {} |-> 0]
        BY <1>1 DEF Init, Blank, IsMetric
    <2>2. New = Whole(Fresh(Schema), NotSet, Null) /\ Fresh(Schema) \in Named
        BY NewIs, FreshNamed
    <2>3. New.case = NotSet /\ Metric(New, heap)
        <3> DEFINE z == Fresh(Schema)
        <3> HIDE DEF z
        <3> QED BY <2>2, WholeParts DEF z, Metric
    <2>4. Refs(New) = {} /\ HeldRefs = {}
        BY <2>1, <2>3 DEF Refs, HeldRefs
    <2>5. HeapOK(heap)
        BY <2>1, FS_EmptySet DEF HeapOK
    <2>6. \A x \in Mine : msg[x] = New
        BY <2>1
    <2>7. "a" \in Mine /\ "b" \in Mine
        BY DEF Mine
    <2>8. Holds(heap, held, heldCase)
        BY <2>1 DEF Holds
    <2>9. MetricInv
        BY <1>1, <2>1, <2>3, <2>4, <2>5, <2>6, <2>7, <2>8 DEF MetricInv
    <2> QED BY <2>9 DEF Inv
<1>2. CASE kind # "metric"
    <2>1. kind \in FlatClasses /\ msg = [x \in Mine |-> ClassNew(kind)] /\ DOMAIN heap = {} /\ held = Null
        BY <1>2 DEF Init, Blank, IsMetric, Kinds
    <2>2. ClassNew(kind) \in Sane(Own(kind))
        BY <2>1, ClassNewIs, FreshSane DEF Own
    <2>3. fields \subseteq Own(kind)
        BY <1>2 DEF Init, FieldsOf, kSubset, Own
    <2>4. msg \in [Mine -> Sane(Own(kind))]
        BY <2>1, <2>2
    <2> QED BY <2>1, <2>3, <2>4 DEF Inv, FlatInv
<1> QED BY <1>1, <1>2

\* The class of the messages is one or the other.
LEMMA KindIs ==
    /\ FlatInv => ~IsMetric /\ kind \in FlatClasses
    /\ MetricInv => IsMetric
BY DEF FlatInv, MetricInv, IsMetric, FlatClasses

\* The fields of a message of the other classes.
LEMMA FlatMsg ==
    ASSUME NEW x \in Mine, FlatInv
    PROVE  msg[x] \in Sane(Own(kind))
BY DEF FlatInv

\* A message that owns nothing, with the heap.
LEMMA FlatParts ==
    ASSUME NEW m
    PROVE  Flat(m).m = m /\ Flat(m).h = heap
BY DEF Flat

\* A message, with the heap.
LEMMA WithParts ==
    ASSUME NEW x
    PROVE  With(x).m = msg[x] /\ With(x).h = heap
BY DEF With

\* The accessors of a message.
LEMMA AccessorsFlat ==
    ASSUME MessagesAssumption, FlatInv, NEW x \in Mine,
           \/ SetField(x) \/ ClearField(x) \/ ReleaseString(x) \/ \E v \in Values \cup {-1} : AllocatedString(x, v)
    PROVE  FlatInv'
<1>1. /\ ~IsMetric /\ kind # "metric" /\ kind \in FlatClasses /\ msg[x] \in Sane(Own(kind))
      /\ fields \subseteq Own(kind) /\ Values \subseteq Nat
    BY KindIs, FlatMsg DEF IsMetric, FlatInv, MessagesAssumption
<1>2. \A n \in Sane(Own(kind)) : Becomes(x, Flat(n)) /\ KeepsHeld => FlatInv'
    BY FlatParts, FlatStep
<1>3. HasString => kind \in {"summary", "remote"}
    <2>1. kind = "counter" => Own(kind) = {"count"}
        BY OwnNames
    <2>2. kind = "stopwatch" => Own(kind) = {"runtime_ns"}
        BY OwnNames
    <2> QED BY <1>1, <2>1, <2>2 DEF HasString, FlatClasses
<1>4. CASE SetField(x)
    <2>1. PICK f \in fields, v \in Values : Becomes(x, Flat(ClassSet(kind, msg[x], f, v))) /\ KeepsHeld
        BY <1>1, <1>4 DEF SetField
    <2>2. ClassSet(kind, msg[x], f, v) \in Sane(Own(kind))
        BY <1>1, ClassSetSane
    <2> QED BY <1>2, <2>1, <2>2
<1>5. CASE ClearField(x)
    <2>1. PICK f \in fields : Becomes(x, Flat(ClassUnset(kind, msg[x], f))) /\ KeepsHeld
        BY <1>1, <1>5 DEF ClearField
    <2>2. 0 \in Nat /\ f \in Own(kind)
        BY <1>1
    <2>3. ClassUnset(kind, msg[x], f) \in Sane(Own(kind))
        BY <1>1, <2>2, ClassSetSane
    <2> QED BY <1>2, <2>1, <2>3
<1>6. CASE ReleaseString(x)
    <2>1. Becomes(x, Flat(ClassRelease(kind, msg[x]))) /\ KeepsHeld /\ kind \in {"summary", "remote"}
        BY <1>1, <1>3, <1>6 DEF ReleaseString
    <2>2. -1 \in Nat \cup {-1}
        OBVIOUS
    <2>3. ClassRelease(kind, msg[x]) \in Sane(Own(kind))
        BY <1>1, <2>1, <2>2, ClassStringSane
    <2> QED BY <1>2, <2>1, <2>3
<1>7. CASE \E v \in Values \cup {-1} : AllocatedString(x, v)
    <2>1. PICK v \in Values \cup {-1} : AllocatedString(x, v)
        BY <1>7
    <2>2. Becomes(x, Flat(ClassSetAllocated(kind, msg[x], v))) /\ KeepsHeld /\ kind \in {"summary", "remote"}
        BY <1>1, <1>3, <2>1 DEF AllocatedString
    <2>3. v \in Nat \cup {-1}
        BY <1>1
    <2>4. ClassSetAllocated(kind, msg[x], v) \in Sane(Own(kind))
        BY <1>1, <2>2, <2>3, ClassStringSane
    <2> QED BY <1>2, <2>2, <2>4
<1> QED BY <1>4, <1>5, <1>6, <1>7

\* The same of metrics.
LEMMA AccessorsMetric ==
    ASSUME MessagesAssumption, MetricInv, NEW x \in Mine,
           \/ SetField(x) \/ ClearField(x) \/ ReleaseString(x) \/ \E v \in Values \cup {-1} : AllocatedString(x, v)
    PROVE  MetricInv'
<1> DEFINE s == With(x)
           H == Rest(x)
<1>1. IsMetric /\ Values \subseteq Nat /\ s \in States(H) /\ s.m = msg[x]
    BY KindIs, RestState, WithParts DEF MessagesAssumption
<1>2. \A n : Flat(n) = SetMetric(s, n)
    BY DEF Flat, With, SetMetric
<1>3. \A t \in States(H) : Becomes(x, t) /\ KeepsHeld => MetricInv'
    BY MetricStep
<1> HIDE DEF s, H
<1>4. \A v \in Nat : SetMetric(s, Put(msg[x], "name", v)) \in States(H) /\ SetMetric(s, Drop(msg[x], "name")) \in States(H)
    BY <1>1, OwnFieldState
<1>5. SetMetric(s, msg[x]) = s
    BY <1>2 DEF s, Flat, With
<1>6. CASE SetField(x)
    <2>1. PICK v \in Values : Becomes(x, Flat(Put(msg[x], "name", v))) /\ KeepsHeld
        BY <1>1, <1>6 DEF SetField, set_name
    <2> QED BY <1>1, <1>2, <1>3, <1>4, <2>1
<1>7. CASE ClearField(x)
    <2>1. Becomes(x, Flat(Drop(msg[x], "name"))) /\ KeepsHeld
        BY <1>1, <1>7 DEF ClearField, clear_name
    <2>2. 0 \in Nat
        OBVIOUS
    <2>3. SetMetric(s, Drop(msg[x], "name")) \in States(H)
        BY <1>4, <2>2
    <2> QED BY <1>2, <1>3, <2>1, <2>3
<1>8. CASE ReleaseString(x)
    <2>1. Becomes(x, Flat(release_name(msg[x]))) /\ KeepsHeld
        BY <1>1, <1>8 DEF ReleaseString
    <2>2. 0 \in Nat
        OBVIOUS
    <2>3. SetMetric(s, Drop(msg[x], "name")) \in States(H)
        BY <1>4, <2>2
    <2>4. SetMetric(s, release_name(msg[x])) \in States(H)
        BY <1>1, <1>5, <2>3 DEF release_name
    <2> QED BY <1>2, <1>3, <2>1, <2>4
<1>9. CASE \E v \in Values \cup {-1} : AllocatedString(x, v)
    <2>1. PICK v \in Values \cup {-1} : AllocatedString(x, v)
        BY <1>9
    <2>2. Becomes(x, Flat(set_allocated_name(msg[x], v))) /\ KeepsHeld
        BY <1>1, <2>1 DEF AllocatedString
    <2>3. 0 \in Nat /\ (v # -1 => v \in Nat)
        BY <1>1
    <2>4. SetMetric(s, Drop(msg[x], "name")) \in States(H)
        BY <1>4, <2>3
    <2>5. v # -1 => SetMetric(s, Put(msg[x], "name", v)) \in States(H)
        BY <1>4, <2>3
    <2>6. SetMetric(s, set_allocated_name(msg[x], v)) \in States(H)
        BY <2>4, <2>5 DEF set_allocated_name
    <2> QED BY <1>2, <1>3, <2>2, <2>6
<1> QED BY <1>6, <1>7, <1>8, <1>9

\* The oneof.
LEMMA NestedMetric ==
    ASSUME MessagesAssumption, MetricInv, NEW x \in Mine, SetNested(x) \/ Mutable(x) \/ ClearNested(x)
    PROVE  MetricInv'
<1> DEFINE s == With(x)
           H == Rest(x)
<1>1. s \in States(H) /\ HeapOK(H) /\ NestedValues \subseteq Nat
    BY RestState, RestIs DEF MessagesAssumption
<1>2. \A t \in States(H) : Becomes(x, t) /\ KeepsHeld => MetricInv'
    BY MetricStep
<1>3. CASE SetNested(x)
    <2>1. PICK c \in Cases, v \in NestedValues :
            \E f \in fields \cap Names(ClassSchema(c)) :
                Becomes(x, [mutable(With(x), c) EXCEPT !.h[mutable(With(x), c).m.ref] = ClassSet(c, @, f, v)])
        BY <1>3 DEF SetNested
    <2>2. PICK f \in fields \cap Names(ClassSchema(c)) :
                Becomes(x, [mutable(s, c) EXCEPT !.h[mutable(s, c).m.ref] = ClassSet(c, @, f, v)])
        BY <2>1
    <2>3. KeepsHeld
        BY <1>3 DEF SetNested
    <2>4. f \in Own(c) /\ v \in Nat
        BY <1>1 DEF Own
    <2> HIDE DEF s, H
    <2> DEFINE t == [mutable(s, c) EXCEPT !.h[mutable(s, c).m.ref] = ClassSet(c, @, f, v)]
    <2>5. t \in States(H)
        BY <1>1, <2>4, NestedSetKeeps
    <2>6. Becomes(x, t)
        BY <2>2
    <2> HIDE DEF t
    <2> QED BY <1>2, <2>3, <2>5, <2>6
<1>4. CASE Mutable(x)
    <2>1. PICK c \in Cases : Becomes(x, mutable(s, c)) /\ KeepsHeld
        BY <1>4 DEF Mutable
    <2> HIDE DEF s, H
    <2> QED BY <1>1, <1>2, <2>1, MutableKeeps
<1>5. CASE ClearNested(x)
    <2>1. PICK c \in Cases : Becomes(x, clear_case(s, c)) /\ KeepsHeld
        BY <1>5 DEF ClearNested
    <2> HIDE DEF s, H
    <2>2. clear_metric(s) \in States(H)
        BY <1>1, ClearMetricKeeps
    <2>3. clear_case(s, c) \in States(H)
        BY <1>1, <2>2 DEF clear_case
    <2> QED BY <1>2, <2>1, <2>3
<1> QED BY <1>3, <1>4, <1>5

\* The nested message is taken out of the metric: the program owns it.
LEMMA ReleaseMetric ==
    ASSUME MetricInv, NEW x \in Mine, Release(x)
    PROVE  MetricInv'
<1> DEFINE y == Other(x)
<1>1. PICK c \in Cases : /\ Becomes(x, release(With(x), c))
                         /\ held' = released(With(x), c)
                         /\ heldCase' = IF held' = Null THEN NotSet ELSE c
    BY DEF Release
<1>2. held = Null /\ HeldRefs = {}
    BY DEF Release, HeldRefs
<1>3. With(x).m = msg[x] /\ With(x).h = heap
    BY WithParts
<1>4. kind = "metric" /\ DOMAIN msg = Mine /\ HeapOK(heap) /\ Metric(msg[x], heap) /\ y \in Mine /\ Metric(msg[y], heap)
    BY Others DEF MetricInv
<1>5. CASE msg[x].case # c
    <2>1. release(With(x), c) = With(x) /\ released(With(x), c) = Null
        BY <1>3, <1>5 DEF release, released
    <2> DEFINE H == Rest(x)
    <2>2. HeldRefs' = HeldRefs /\ held' = held
        BY <1>1, <1>2, <2>1 DEF HeldRefs
    <2>3. HeapOK(H) /\ With(x) \in States(H) /\ DOMAIN H = Refs(msg[y]) \cup HeldRefs'
        BY <2>2, RestIs, RestState
    <2>4. Metric(msg[y], H) /\ Refs(msg[y]) \cap HeldRefs' = {}
        BY <2>2, RestOthers
    <2>5. Holds(H, held', heldCase')
        BY <1>2, <2>2 DEF Holds
    <2> HIDE DEF H
    <2>6. Becomes(x, With(x))
        BY <1>1, <2>1
    <2> QED BY <1>4, <2>3, <2>4, <2>5, <2>6, MetricJoin DEF y
<1>6. CASE msg[x].case = c
    <2> DEFINE p == msg[x].ref
    <2>1. msg[x].case # NotSet
        BY <1>6, CasesAre
    <2>2. p \in DOMAIN heap /\ heap[p] \in Sane(Own(c)) /\ \E b \in Named : msg[x] = Whole(b, c, p)
        BY <1>4, <1>6, <2>1, MetricParts
    <2>3. PICK b \in Named : msg[x] = Whole(b, c, p)
        BY <2>2
    <2>4. release(With(x), c) = Empty(b, heap)
        <3>1. clear_has_metric(Whole(b, c, p)) = Whole(b, NotSet, Null)
            BY WholeClearHas
        <3>2. release(With(x), c) = SetMetric(With(x), clear_has_metric(msg[x]))
            BY <1>3, <1>6 DEF release, SetMetric
        <3>3. With(x) = [m |-> msg[x], h |-> heap]
            BY DEF With
        <3>4. SetMetric([m |-> msg[x], h |-> heap], Whole(b, NotSet, Null)) = [m |-> Whole(b, NotSet, Null), h |-> heap]
            BY SetMetricIs
        <3> HIDE DEF p
        <3> QED BY <2>3, <3>1, <3>2, <3>3, <3>4 DEF Empty
    <2>5. held' = p /\ p # Null
        BY <1>1, <1>3, <1>4, <1>6, <2>2 DEF released, HeapOK
    <2>6. HeldRefs' = {p} /\ heldCase' = c
        BY <1>1, <2>5 DEF HeldRefs
    <2>7. Empty(b, heap) \in States(heap)
        BY EmptyState
    <2>8. Refs(msg[x]) = {p}
        BY <2>1 DEF Refs
    <2> HIDE DEF p
    <2>9. DOMAIN heap = Refs(msg[y]) \cup HeldRefs' /\ Refs(msg[y]) \cap HeldRefs' = {}
        <3>1. DOMAIN heap = Refs(msg["a"]) \cup Refs(msg["b"]) \cup HeldRefs /\ Refs(msg["a"]) \cap Refs(msg["b"]) = {}
            BY DEF MetricInv
        <3>2. (x = "a" /\ y = "b") \/ (x = "b" /\ y = "a")
            BY DEF Mine, Other
        <3> QED BY <1>2, <2>6, <2>8, <3>1, <3>2
    <2>10. Holds(heap, held', heldCase')
        BY <2>2, <2>5, <2>6 DEF Holds
    <2>11. Becomes(x, Empty(b, heap))
        BY <1>1, <2>4
    <2> QED BY <1>4, <2>7, <2>9, <2>10, <2>11, MetricJoin DEF y
<1> QED BY <1>5, <1>6

\* The nested message the program owns is given to a metric, or the null pointer is.
LEMMA HandOverMetric ==
    ASSUME MetricInv, NEW x \in Mine, HandOver(x)
    PROVE  MetricInv'
<1> DEFINE y == Other(x)
           R == Rest(x)
           s == With(x)
<1>1. PICK c \in (IF held = Null THEN Cases ELSE {heldCase}) : Becomes(x, set_allocated(s, c, held))
    BY DEF HandOver
<1>2. held' = Null /\ HeldRefs' = {} /\ \A h : Holds(h, held', heldCase')
    BY DEF HandOver, HeldRefs, Holds
<1>3. kind = "metric" /\ DOMAIN msg = Mine
    BY DEF MetricInv
<1>4. /\ HeapOK(R) /\ s \in States(R) /\ DOMAIN R = Refs(msg[y]) \cup HeldRefs
      /\ Metric(msg[y], R) /\ Refs(msg[y]) \cap HeldRefs = {} /\ Holds(R, held, heldCase)
    BY RestIs, RestState, RestOthers
<1> HIDE DEF R, s, y
<1>5. PICK b \in Named : clear_metric(s) = Empty(b, R)
    BY <1>4, ClearMetricKeeps
<1>6. CASE held = Null
    <2>1. set_allocated(s, c, held) = Empty(b, R)
        BY <1>5, <1>6 DEF set_allocated
    <2>2. Empty(b, R) \in States(R) /\ DOMAIN R = Refs(msg[y]) \cup HeldRefs' /\ Refs(msg[y]) \cap HeldRefs' = {}
        BY <1>2, <1>4, <1>6, EmptyState DEF HeldRefs
    <2>3. Becomes(x, Empty(b, R))
        BY <1>1, <2>1
    <2> QED BY <1>2, <1>3, <1>4, <2>2, <2>3, MetricJoin DEF y
<1>7. CASE held # Null
    <2> DEFINE H == Delete(R, held)
               e == R[held]
               t == Full(b, c, held, e, H)
    <2>1. c = heldCase /\ c \in Cases /\ held \in DOMAIN R /\ e \in Sane(Own(c)) /\ HeldRefs = {held}
        BY <1>1, <1>4, <1>7 DEF Holds, HeldRefs
    <2>2. HeapOK(H) /\ held \in Unused(H) /\ Plus(H, held, e) = R
        BY <1>4, <2>1, DeleteBack
    <2>3. set_allocated(s, c, held) = t
        <3>1. set_allocated(s, c, held) = SetMetric(Empty(b, R), set_has(Empty(b, R).m, c, held))
            BY <1>5, <1>7 DEF set_allocated, SetMetric
        <3>2. Empty(b, R).m = Whole(b, NotSet, Null) /\ set_has(Whole(b, NotSet, Null), c, held) = Whole(b, c, held)
            BY EmptyParts, WholeSetHas
        <3>3. SetMetric([m |-> Whole(b, NotSet, Null), h |-> R], Whole(b, c, held)) = [m |-> Whole(b, c, held), h |-> R]
            BY SetMetricIs
        <3> HIDE DEF H, e
        <3> QED BY <2>2, <3>1, <3>2, <3>3 DEF Empty, Full
    <2>4. DOMAIN H = DOMAIN R \ {held} /\ \A q \in DOMAIN H : H[q] = R[q]
        BY DEF Delete
    <2> HIDE DEF H, e
    <2>5. t \in States(H)
        BY <2>1, <2>2, FullState
    <2> HIDE DEF t
    <2>6. DOMAIN H = Refs(msg[y]) \cup HeldRefs' /\ Refs(msg[y]) \cap HeldRefs' = {}
        BY <1>2, <1>4, <2>1, <2>4
    <2>7. Metric(msg[y], H)
        <3>1. CASE msg[y].case = NotSet
            <4>1. PICK a \in Named : msg[y] = Whole(a, NotSet, Null)
                BY <1>4, <3>1, MetricParts
            <4> QED BY <4>1 DEF Metric
        <3>2. CASE msg[y].case # NotSet
            <4>1. msg[y].ref \in DOMAIN H
                BY <1>2, <2>6, <3>2 DEF Refs
            <4>2. msg[y].case \in Cases /\ H[msg[y].ref] \in Sane(Own(msg[y].case))
                BY <1>4, <2>4, <3>2, <4>1, MetricParts
            <4>3. PICK a \in Named : msg[y] = Whole(a, msg[y].case, msg[y].ref)
                BY <1>4, <3>2, MetricParts
            <4> QED BY <4>1, <4>2, <4>3 DEF Metric
        <3> QED BY <3>1, <3>2
    <2>8. Becomes(x, t)
        BY <1>1, <2>3
    <2> QED BY <1>2, <1>3, <2>2, <2>5, <2>6, <2>7, <2>8, MetricJoin DEF y
<1> QED BY <1>6, <1>7
\* The methods on whole messages.
LEMMA WholeFlat ==
    ASSUME FlatInv, NEW x \in Mine, ClearMessage(x) \/ Merge(x) \/ Assign(x)
    PROVE  FlatInv'
<1> DEFINE m == msg[x]
           from == msg[Other(x)]
           S == Sane(Own(kind))
<1>1. ~IsMetric /\ kind \in FlatClasses /\ m \in S /\ from \in S
    BY KindIs, FlatMsg, Others
<1> HIDE DEF m, from
<1>2. ClassClear(kind, m) \in S
    BY <1>1, ClassClearIs, FreshSane DEF Own
<1>3. ClassMerge(kind, m, from) \in S
    BY <1>1, ClassMergeIs, JoinedSane
<1>4. ClassCopyFrom(kind, m, from) \in S
    BY <1>1, ClassCopyFromIs
<1> HIDE DEF S
<1>5. \A n \in S : Becomes(x, Flat(n)) /\ KeepsHeld => FlatInv'
    BY FlatParts, FlatStep DEF S
<1>6. \A n : [With(x) EXCEPT !.m = n] = Flat(n)
    BY DEF With, Flat
<1>7. With(x).m = m
    BY WithParts DEF m
<1>8. CASE ClearMessage(x)
    <2>1. Becomes(x, Flat(ClassClear(kind, m))) /\ KeepsHeld
        BY <1>1, <1>8 DEF ClearMessage, m
    <2> QED BY <1>2, <1>5, <2>1
<1>9. CASE Merge(x)
    <2>1. Merged(With(x), from) = Flat(ClassMerge(kind, m, from))
        BY <1>1, <1>6, <1>7 DEF Merged
    <2>2. Becomes(x, Flat(ClassMerge(kind, m, from))) /\ KeepsHeld
        BY <1>9, <2>1 DEF Merge, from
    <2> QED BY <1>3, <1>5, <2>2
<1>10. CASE Assign(x)
    <2>1. Assigned(With(x), from) = Flat(ClassCopyFrom(kind, m, from))
        BY <1>1, <1>6, <1>7 DEF Assigned
    <2>2. Becomes(x, Flat(ClassCopyFrom(kind, m, from))) /\ KeepsHeld
        BY <1>10, <2>1 DEF Assign, from
    <2> QED BY <1>4, <1>5, <2>2
<1> QED BY <1>8, <1>9, <1>10

\* Clear, MergeFrom and CopyFrom of metrics.
LEMMA WholeMetric ==
    ASSUME MetricInv, NEW x \in Mine, ClearMessage(x) \/ Merge(x) \/ Assign(x)
    PROVE  MetricInv'
<1> DEFINE s == With(x)
           H == Rest(x)
           from == msg[Other(x)]
<1>1. IsMetric /\ s \in States(H) /\ HeapOK(H) /\ Metric(from, H)
    BY KindIs, RestState, RestIs, RestOthers
<1>2. \A t \in States(H) : Becomes(x, t) /\ KeepsHeld => MetricInv'
    BY MetricStep
<1> HIDE DEF s, H, from
<1>3. Clear(s) \in States(H)
    BY <1>1, ClearKeeps
<1>4. MergeFrom(s, from) \in States(H)
    BY <1>1, MergeKeeps
<1>5. CopyFrom(s, from) \in States(H)
    BY <1>1, CopyKeeps
<1>6. CASE ClearMessage(x)
    <2>1. Becomes(x, Clear(s)) /\ KeepsHeld
        BY <1>1, <1>6 DEF ClearMessage, s
    <2> QED BY <1>2, <1>3, <2>1
<1>7. CASE Merge(x)
    <2>1. Becomes(x, MergeFrom(s, from)) /\ KeepsHeld
        BY <1>1, <1>7 DEF Merge, Merged, s, from
    <2> QED BY <1>2, <1>4, <2>1
<1>8. CASE Assign(x)
    <2>1. Becomes(x, CopyFrom(s, from)) /\ KeepsHeld
        BY <1>1, <1>8 DEF Assign, Assigned, s, from
    <2> QED BY <1>2, <1>5, <2>1
<1> QED BY <1>6, <1>7, <1>8

\* What arrives.
LEMMA ReceiveFlat ==
    ASSUME FlatInv, NEW x \in Mine, Receive(x)
    PROVE  FlatInv'
<1> DEFINE S == Sane(Own(kind))
           schema == ClassSchema(kind)
           E == Readable(schema) \cup {EndGroup}
<1>1. ~IsMetric /\ kind \in FlatClasses /\ msg[x] \in S /\ msg[Other(x)] \in S
    BY KindIs, FlatMsg, Others
<1>2. With(x).m = msg[x] /\ With(Other(x)).m = msg[Other(x)]
    BY WithParts
<1>3. PICK w \in {Serialized(With(Other(x))), <<Foreign>>, <<EndGroup, Foreign>>} : Becomes(x, Parsed(With(x), w))
    BY DEF Receive
<1>4. Serialized(With(Other(x))) \in Seq(E)
    <2>1. Serialized(With(Other(x))) = ClassSerialize(kind, msg[Other(x)])
        BY <1>1, <1>2 DEF Serialized
    <2>2. ClassSerialize(kind, msg[Other(x)]) \in Seq(Readable(schema))
        BY <1>1, ClassWritten
    <2> DEFINE R == Readable(schema)
    <2> HIDE DEF R
    <2> QED BY <2>1, <2>2, SeqMonotonic DEF R
<1>5. Foreign \in E /\ EndGroup \in E
    BY DEF Readable
<1> HIDE DEF E
<1>6. w \in Seq(E)
    <2>1. <<Foreign>> \in Seq(E) /\ <<EndGroup, Foreign>> \in Seq(E)
        BY <1>5
    <2> QED BY <1>3, <1>4, <2>1
<1>7. ReadFields(schema, msg[x], w) \in S
    BY <1>1, <1>6, Schemas, ReadFieldsSane DEF Own, E
<1>8. ClassParse(kind, msg[x], w) \in S
    BY <1>1, <1>7, ClassParseIs
<1>9. Parsed(With(x), w) = Flat(ClassParse(kind, msg[x], w))
    BY <1>1, <1>2 DEF Parsed, With, Flat
<1>10. KeepsHeld
    BY DEF Receive
<1> DEFINE n == ClassParse(kind, msg[x], w)
<1> HIDE DEF n
<1>11. Becomes(x, Flat(n)) /\ Flat(n).m \in Sane(Own(kind)) /\ Flat(n).h = heap
    BY <1>3, <1>8, <1>9, FlatParts DEF n
<1> QED BY <1>10, <1>11, FlatStep

\* A metric that arrives.
LEMMA ReceiveMetric ==
    ASSUME MetricInv, NEW x \in Mine, Receive(x)
    PROVE  MetricInv'
<1> DEFINE s == With(x)
           H == Rest(x)
           E == MetricReadable \cup {EndGroup}
<1>1. IsMetric /\ s \in States(H) /\ HeapOK(H)
    BY KindIs, RestState, RestIs
<1>2. Metric(msg[Other(x)], heap)
    BY Others DEF MetricInv
<1>3. PICK w \in {Serialized(With(Other(x))), <<Foreign>>, <<EndGroup, Foreign>>} : Becomes(x, Parsed(s, w))
    BY DEF Receive
<1>4. Serialized(With(Other(x))) \in Seq(E)
    <2>1. Serialized(With(Other(x))) = InternalSerialize(msg[Other(x)], heap)
        BY <1>1, WithParts DEF Serialized
    <2>2. InternalSerialize(msg[Other(x)], heap) \in Seq(MetricReadable)
        BY <1>2, SerializeReads
    <2> QED BY <2>1, <2>2, SeqMonotonic
<1>5. Foreign \in E /\ EndGroup \in E
    BY DEF MetricReadable, Readable
<1> HIDE DEF E, s, H
<1>6. w \in Seq(E)
    <2>1. <<Foreign>> \in Seq(E) /\ <<EndGroup, Foreign>> \in Seq(E)
        BY <1>5
    <2> QED BY <1>3, <1>4, <2>1
<1>7. InternalParse(s, w) \in States(H)
    BY <1>1, <1>6, InternalParseState DEF E
<1>8. Becomes(x, InternalParse(s, w)) /\ KeepsHeld
    BY <1>1, <1>3 DEF Receive, Parsed
<1> QED BY <1>7, <1>8, MetricStep DEF H

\* The messages are swapped ...
LEMMA SwapFlat ==
    ASSUME FlatInv, Swap
    PROVE  FlatInv'
<1> DEFINE S == Sane(Own(kind))
<1>1. ~IsMetric /\ kind \in FlatClasses /\ msg \in [Mine -> S]
    BY KindIs DEF FlatInv
<1> HIDE DEF S
<1>2. ASSUME NEW x \in Mine PROVE Swapped(msg[x], msg[Other(x)]) = msg[Other(x)] /\ msg[Other(x)] \in S
    <2>1. Other(x) \in Mine
        BY Others
    <2>2. msg[x] \in S /\ msg[Other(x)] \in S
        BY <1>1, <2>1
    <2>3. ClassSwap(kind, msg[x], msg[Other(x)]) = msg[Other(x)]
        BY <1>1, <2>2, ClassSwapIs DEF S
    <2> QED BY <1>1, <2>2, <2>3 DEF Swapped
<1>3. msg' = [x \in Mine |-> Swapped(msg[x], msg[Other(x)])] /\ UNCHANGED <<kind, fields, heap, held>>
    BY DEF Swap, KeepsHeld
<1>4. msg' \in [Mine -> S]
    BY <1>2, <1>3
<1>5. Sane(Own(kind))' = Sane(Own(kind')) /\ Own(kind)' = Own(kind')
    BY DEF Sane, Own, Msgs, Unstale, ClassSchema, Names, Foreign, Entry
<1> QED BY <1>3, <1>4, <1>5 DEF FlatInv, S

\* ... with what they own, when they are metrics.
LEMMA SwapMetric ==
    ASSUME MetricInv, Swap
    PROVE  MetricInv'
<1>1. IsMetric /\ \A x \in Mine : Metric(msg[x], heap) /\ Refs(msg[x]) \cap HeldRefs = {}
    BY KindIs DEF MetricInv
<1>2. \A x \in Mine : \E b, c, p : msg[x] = Whole(b, c, p)
    BY <1>1 DEF Metric
<1>3. ASSUME NEW x \in Mine PROVE Swapped(msg[x], msg[Other(x)]) = msg[Other(x)]
    <2>1. Other(x) \in Mine
        BY Others
    <2>2. PICK b, c, p : msg[x] = Whole(b, c, p)
        BY <1>2
    <2>3. PICK e, k, q : msg[Other(x)] = Whole(e, k, q)
        BY <1>2, <2>1
    <2> QED BY <1>1, <2>2, <2>3, SwapIs DEF Swapped
<1>4. msg' = [x \in Mine |-> Swapped(msg[x], msg[Other(x)])] /\ UNCHANGED <<kind, heap, held, heldCase>>
    BY DEF Swap, KeepsHeld
<1>5. DOMAIN msg' = Mine /\ \A x \in Mine : msg'[x] = msg[Other(x)]
    BY <1>3, <1>4
<1>6. msg'["a"] = msg["b"] /\ msg'["b"] = msg["a"]
    BY <1>5 DEF Mine, Other
<1>7. HeldRefs' = HeldRefs
    BY <1>4 DEF HeldRefs
<1>8. \A x \in Mine : Metric(msg'[x], heap) /\ Refs(msg'[x]) \cap HeldRefs = {}
    BY <1>1, <1>5, Others
<1>9. /\ kind = "metric" /\ HeapOK(heap) /\ DOMAIN heap = Refs(msg["a"]) \cup Refs(msg["b"]) \cup HeldRefs
      /\ Refs(msg["a"]) \cap Refs(msg["b"]) = {} /\ Holds(heap, held, heldCase)
    BY DEF MetricInv
<1> DEFINE R == HeldRefs
<1> HIDE DEF R
<1>10. /\ DOMAIN heap = Refs(msg'["a"]) \cup Refs(msg'["b"]) \cup R
       /\ Refs(msg'["a"]) \cap Refs(msg'["b"]) = {}
    BY <1>6, <1>9 DEF R
<1> QED BY <1>4, <1>5, <1>7, <1>8, <1>9, <1>10 DEF MetricInv, R

\* Every method of the classes without nested messages keeps the invariant.
LEMMA NextFlat ==
    ASSUME MessagesAssumption, FlatInv, Next
    PROVE  FlatInv'
<1>1. ~IsMetric
    BY KindIs
<1>2. ASSUME NEW x \in Mine, SetNested(x) \/ Mutable(x) \/ ClearNested(x) \/ Release(x) \/ HandOver(x) PROVE FALSE
    BY <1>1, <1>2 DEF SetNested, Mutable, ClearNested, Release, HandOver
<1>3. CASE Swap
    BY <1>3, SwapFlat
<1>4. ASSUME NEW x \in Mine,
             \/ SetField(x) \/ ClearField(x) \/ ReleaseString(x) \/ \E v \in Values \cup {-1} : AllocatedString(x, v)
      PROVE  FlatInv'
    BY <1>4, AccessorsFlat
<1>5. ASSUME NEW x \in Mine, ClearMessage(x) \/ Merge(x) \/ Assign(x) PROVE FlatInv'
    BY <1>5, WholeFlat
<1>6. ASSUME NEW x \in Mine, Receive(x) PROVE FlatInv'
    BY <1>6, ReceiveFlat
<1> QED BY <1>2, <1>3, <1>4, <1>5, <1>6 DEF Next

\* Every method of the metrics keeps the invariant.
LEMMA NextMetric ==
    ASSUME MessagesAssumption, MetricInv, Next
    PROVE  MetricInv'
<1>1. CASE Swap
    BY <1>1, SwapMetric
<1>2. ASSUME NEW x \in Mine,
             \/ SetField(x) \/ ClearField(x) \/ ReleaseString(x) \/ \E v \in Values \cup {-1} : AllocatedString(x, v)
      PROVE  MetricInv'
    BY <1>2, AccessorsMetric
<1>3. ASSUME NEW x \in Mine, SetNested(x) \/ Mutable(x) \/ ClearNested(x) PROVE MetricInv'
    BY <1>3, NestedMetric
<1>4. ASSUME NEW x \in Mine, Release(x) PROVE MetricInv'
    BY <1>4, ReleaseMetric
<1>5. ASSUME NEW x \in Mine, HandOver(x) PROVE MetricInv'
    BY <1>5, HandOverMetric
<1>6. ASSUME NEW x \in Mine, ClearMessage(x) \/ Merge(x) \/ Assign(x) PROVE MetricInv'
    BY <1>6, WholeMetric
<1>7. ASSUME NEW x \in Mine, Receive(x) PROVE MetricInv'
    BY <1>7, ReceiveMetric
<1> QED BY <1>1, <1>2, <1>3, <1>4, <1>5, <1>6, <1>7 DEF Next

\* Nothing happens.
LEMMA StutterInv ==
    ASSUME Inv, UNCHANGED vars
    PROVE  Inv'
<1>1. CASE FlatInv
    <2>1. UNCHANGED <<kind, fields, msg, heap, held>>
        BY DEF vars
    <2>2. Sane(Own(kind))' = Sane(Own(kind')) /\ Own(kind)' = Own(kind')
        BY DEF Sane, Own, Msgs, Unstale, ClassSchema, Names, Foreign, Entry
    <2> QED BY <1>1, <2>1, <2>2 DEF FlatInv, Inv
<1>2. CASE MetricInv
    <2>1. UNCHANGED <<kind, msg, heap, held, heldCase>> /\ HeldRefs' = HeldRefs
        BY DEF vars, HeldRefs
    <2> QED BY <1>2, <2>1 DEF MetricInv, Inv
<1> QED BY <1>1, <1>2 DEF Inv

\* The messages of a class hold its fields, a field that is not set has its
\* default value, and the metrics and the program share the heap among them,
\* whatever methods are called in whatever order.
THEOREM MessageInvariant == Spec => []Inv
<1>1. MessagesAssumption
    BY MessagesAssumption
<1>2. Init => Inv
    BY <1>1, InitInv
<1>3. Inv /\ [Next]_vars => Inv'
    <2> SUFFICES ASSUME Inv, [Next]_vars PROVE Inv'
        OBVIOUS
    <2>1. CASE Next
        BY <1>1, <2>1, NextFlat, NextMetric DEF Inv
    <2>2. CASE UNCHANGED vars
        BY <2>2, StutterInv
    <2> QED BY <2>1, <2>2
<1> QED BY <1>2, <1>3, PTL DEF Spec
-----------------------------------------------------------------------------
(* What follows from the invariant *)

\* What is on the heap is a nested message of a class.
LEMMA HeapSane ==
    ASSUME MetricInv, NEW p \in DOMAIN heap
    PROVE  \E c \in Cases : heap[p] \in Sane(Own(c))
<1>1. p \in Refs(msg["a"]) \cup Refs(msg["b"]) \cup HeldRefs
    BY DEF MetricInv
<1>2. ASSUME NEW x \in Mine, p \in Refs(msg[x]) PROVE \E c \in Cases : heap[p] \in Sane(Own(c))
    <2>1. Metric(msg[x], heap)
        BY DEF MetricInv
    <2>2. msg[x].case # NotSet /\ p = msg[x].ref
        BY <1>2 DEF Refs
    <2> QED BY <2>1, <2>2, MetricParts
<1>3. ASSUME p \in HeldRefs PROVE \E c \in Cases : heap[p] \in Sane(Own(c))
    BY <1>3 DEF HeldRefs, MetricInv, Holds
<1>4. "a" \in Mine /\ "b" \in Mine
    BY DEF Mine
<1> QED BY <1>1, <1>2, <1>3, <1>4

\* A metric that owns a message or none has its name at the default unless it is set.
LEMMA WholeUnstale ==
    ASSUME NEW b \in Named, NEW c, NEW p
    PROVE  Unstale(Whole(b, c, p))
<1>1. Unstale(b)
    BY DEF Named, Sane
<1> QED BY <1>1, WholeParts DEF Unstale

\* What the getters return of a field that is not set.
LEMMA InvUnset ==
    ASSUME Inv
    PROVE  UnsetIsDefault
<1>1. CASE FlatInv
    <2>1. \A x \in Mine : Unstale(msg[x])
        BY <1>1, FlatMsg DEF Sane
    <2>2. DOMAIN heap = {}
        BY <1>1 DEF FlatInv
    <2> QED BY <2>1, <2>2 DEF UnsetIsDefault
<1>2. CASE MetricInv
    <2>1. ASSUME NEW x \in Mine PROVE Unstale(msg[x])
        <3>1. Metric(msg[x], heap)
            BY <1>2 DEF MetricInv
        <3>2. \E b \in Named : \E c, p : msg[x] = Whole(b, c, p)
            BY <3>1 DEF Metric
        <3> QED BY <3>2, WholeUnstale
    <2>2. \A p \in DOMAIN heap : Unstale(heap[p])
        BY <1>2, HeapSane DEF Sane
    <2> QED BY <2>1, <2>2 DEF UnsetIsDefault
<1> QED BY <1>1, <1>2 DEF Inv

\* A field that is not set reads as its default, in a message and in what a
\* metric owns, whatever was set, cleared, merged, copied, parsed or swapped
\* before: the getters of the classes do not look at the has bit.
THEOREM UnsetDefaultProved == Spec => []UnsetIsDefault
BY MessageInvariant, InvUnset, PTL

\* The owners of two metrics own one nested message each.
LEMMA MetricOwners ==
    ASSUME MetricInv
    PROVE  /\ \A o \in Owners : o[2] \in DOMAIN heap
           /\ \A p \in DOMAIN heap : \E o \in Owners : o[2] = p
           /\ \A o, r \in Owners : o[2] = r[2] => o = r
<1> DEFINE A == {<<x, msg[x].ref>> : x \in {y \in Mine : IsMetric /\ msg[y].case # NotSet}}
           B == IF held = Null THEN {} ELSE {<<"program", held>>}
<1>1. Owners = A \cup B
    BY DEF Owners
<1>2. IsMetric
    BY KindIs
<1>3. /\ DOMAIN heap = Refs(msg["a"]) \cup Refs(msg["b"]) \cup HeldRefs
      /\ Refs(msg["a"]) \cap Refs(msg["b"]) = {}
      /\ \A x \in Mine : Refs(msg[x]) \cap HeldRefs = {}
    BY DEF MetricInv
<1>4. \A x \in Mine : x = "a" \/ x = "b"
    BY DEF Mine
<1>5. "a" \in Mine /\ "b" \in Mine
    BY DEF Mine
<1>6. ASSUME NEW o \in A PROVE \E x \in Mine : o = <<x, msg[x].ref>> /\ o[2] \in Refs(msg[x])
    BY DEF Refs
<1>7. ASSUME NEW o \in B PROVE o = <<"program", held>> /\ o[2] \in HeldRefs
    BY DEF HeldRefs
<1>8. ASSUME NEW x \in Mine, NEW p \in Refs(msg[x]) PROVE <<x, p>> \in A
    BY <1>2 DEF Refs
<1>9. ASSUME NEW p \in HeldRefs PROVE <<"program", p>> \in B
    BY DEF HeldRefs
<1> HIDE DEF A, B
<1>10. ASSUME NEW o \in Owners PROVE o[2] \in DOMAIN heap
    BY <1>1, <1>3, <1>4, <1>6, <1>7
<1>11. ASSUME NEW p \in DOMAIN heap PROVE \E o \in Owners : o[2] = p
    <2>1. CASE p \in HeldRefs
        <3>1. <<"program", p>> \in Owners
            BY <1>1, <1>9, <2>1
        <3> QED BY <3>1
    <2>2. ASSUME NEW x \in Mine, p \in Refs(msg[x]) PROVE \E o \in Owners : o[2] = p
        <3>1. <<x, p>> \in Owners
            BY <1>1, <1>8, <2>2
        <3> QED BY <3>1
    <2> QED BY <1>3, <1>5, <2>1, <2>2
<1>12. ASSUME NEW o \in Owners, NEW r \in Owners, o[2] = r[2] PROVE o = r
    <2>1. CASE o \in A /\ r \in A
        <3>1. PICK x \in Mine : o = <<x, msg[x].ref>> /\ o[2] \in Refs(msg[x])
            BY <1>6, <2>1
        <3>2. PICK y \in Mine : r = <<y, msg[y].ref>> /\ r[2] \in Refs(msg[y])
            BY <1>6, <2>1
        <3>3. x = y
            BY <1>3, <1>4, <1>12, <3>1, <3>2
        <3> QED BY <3>1, <3>2, <3>3
    <2>2. CASE o \in B /\ r \in B
        BY <1>7, <2>2
    <2>3. ASSUME NEW s \in A, NEW t \in B, s[2] = t[2] PROVE FALSE
        BY <1>3, <1>6, <1>7, <2>3
    <2> QED BY <1>1, <1>12, <2>1, <2>2, <2>3
<1> QED BY <1>10, <1>11, <1>12

\* No nested message leaks, none is freed twice.
LEMMA InvOwned ==
    ASSUME Inv
    PROVE  OwnedOnce
<1>1. CASE FlatInv
    <2>1. ~IsMetric /\ DOMAIN heap = {} /\ held = Null
        BY <1>1, KindIs DEF FlatInv
    <2>2. Owners = {}
        BY <2>1 DEF Owners
    <2> QED BY <2>1, <2>2 DEF OwnedOnce
<1>2. CASE MetricInv
    <2> DEFINE D == DOMAIN heap
               O == Owners
               g == [p \in D |-> CHOOSE o \in O : o[2] = p]
    <2>1. /\ \A o \in O : o[2] \in D
          /\ \A p \in D : \E o \in O : o[2] = p
          /\ \A o, r \in O : o[2] = r[2] => o = r
        BY <1>2, MetricOwners
    <2>2. IsFiniteSet(D)
        BY <1>2 DEF MetricInv, HeapOK
    <2> HIDE DEF D, O
    <2>3. \A p \in D : g[p] \in O /\ g[p][2] = p
        BY <2>1
    <2>4. g \in [D -> O]
        BY <2>3
    <2>5. \A p, q \in D : g[p] = g[q] => p = q
        BY <2>3
    <2>6. ASSUME NEW o \in O PROVE \E p \in D : g[p] = o
        <3>1. o[2] \in D
            BY <2>1
        <3>2. g[o[2]] \in O /\ g[o[2]][2] = o[2]
            BY <2>3, <3>1
        <3>3. g[o[2]] = o
            BY <2>1, <3>2
        <3> QED BY <3>1, <3>3
    <2> HIDE DEF g
    <2>7. g \in Bijection(D, O)
        BY <2>4, <2>5, <2>6 DEF Bijection, Injection, Surjection, IsInjective
    <2>8. Cardinality(O) = Cardinality(D)
        BY <2>2, <2>7, FS_Bijection DEF ExistsBijection
    <2>9. D = {o[2] : o \in O}
        BY <2>1
    <2> QED BY <2>8, <2>9 DEF D, O, OwnedOnce
<1> QED BY <1>1, <1>2 DEF Inv

\* Every nested message on the heap belongs to one metric or to the program:
\* the accessors of the oneof, Clear, MergeFrom, _InternalParse and
\* InternalSwap neither leak one nor free one twice.
THEOREM OwnedOnceProved == Spec => []OwnedOnce
BY MessageInvariant, InvOwned, PTL

\* The value of a metric.
Seen(b, u) == [has |-> b.has, val |-> b.val, unknown |-> b.unknown, sub |-> u]

\* The value of a metric that owns nothing ...
LEMMA SeenEmpty ==
    ASSUME NEW b, NEW s, s.m = Whole(b, NotSet, Null)
    PROVE  Value(s) = Seen(b, <<>>)
<1>1. ~(s.m.case # NotSet) /\ s.m.has = b.has /\ s.m.val = b.val /\ s.m.unknown = b.unknown
    BY WholeParts
<1> QED BY <1>1 DEF Value, Seen

\* ... and of one that owns a message.
LEMMA SeenFull ==
    ASSUME IsMetric, NEW b, NEW c \in Cases, NEW p, NEW s, s.m = Whole(b, c, p)
    PROVE  Value(s) = Seen(b, <<c, s.h[p]>>)
<1>1. s.m.case = c /\ s.m.ref = p /\ s.m.has = b.has /\ s.m.val = b.val /\ s.m.unknown = b.unknown
    BY WholeParts
<1>2. s.m.case # NotSet
    BY <1>1, CasesAre
<1> QED BY <1>1, <1>2 DEF Value, Seen

\* CopyFrom and the copy constructor.
LEMMA InvCopy ==
    ASSUME Inv
    PROVE  CopyIsEqual
<1> SUFFICES ASSUME NEW x \in Mine
             PROVE  LET y == Other(x)
                        copied == Copied(msg[y])
                    IN  /\ IsCopy(Assigned(With(x), msg[y]), y)
                        /\ IsCopy(copied, y)
                        /\ IsMetric /\ copied.m.case # NotSet => copied.m.ref \notin DOMAIN heap
    BY DEF CopyIsEqual
<1> DEFINE y == Other(x)
           from == msg[y]
           assigned == Assigned(With(x), from)
           copied == Copied(from)
           source == [m |-> from, h |-> assigned.h]
           origin == [m |-> from, h |-> copied.h]
           Equal == /\ Value(assigned) = Value(With(y)) /\ Value(copied) = Value(With(y))
                    /\ Value(source) = Value(With(y)) /\ Value(origin) = Value(With(y))
           Apart == IsMetric => /\ assigned.m.case # NotSet => assigned.m.ref # from.ref
                                /\ copied.m.case # NotSet =>
                                     copied.m.ref # from.ref /\ copied.m.ref \notin DOMAIN heap
<1> SUFFICES Equal /\ Apart
    BY DEF IsCopy
<1>1. y \in Mine
    BY Others
<1>2. source.m = from /\ source.h = assigned.h /\ origin.m = from /\ origin.h = copied.h
    OBVIOUS
<1>3. With(y).m = from /\ With(y).h = heap
    BY WithParts
<1> HIDE DEF y
<1>4. CASE FlatInv
    <2>1. ~IsMetric /\ kind \in FlatClasses /\ from \in Sane(Own(kind)) /\ msg[x] \in Sane(Own(kind))
        BY <1>1, <1>4, KindIs, FlatMsg
    <2>2. ClassCopyFrom(kind, msg[x], from) = from
        BY <2>1, ClassCopyFromIs
    <2>3. assigned = Flat(from)
        <3>1. [With(x) EXCEPT !.m = ClassCopyFrom(kind, @, from)] = Flat(ClassCopyFrom(kind, msg[x], from))
            BY DEF With, Flat
        <3> QED BY <2>1, <2>2, <3>1 DEF Assigned
    <2>4. copied = Flat(from)
        BY <2>1, ClassCopyIs DEF Copied
    <2>5. assigned.m = from /\ copied.m = from
        BY <2>3, <2>4, FlatParts
    <2> HIDE DEF from, assigned, copied, source, origin
    <2>6. \A s, t : s.m = t.m => Value(s) = Value(t)
        BY <2>1 DEF Value
    <2> QED BY <1>2, <1>3, <2>1, <2>5, <2>6
<1>5. CASE MetricInv
    <2> DEFINE H == Rest(x)
    <2>1. IsMetric /\ HeapOK(H) /\ With(x) \in States(H) /\ Metric(from, H) /\ HeapOK(heap)
        BY <1>5, KindIs, RestIs, RestState, RestOthers DEF y, MetricInv
    <2>2. Clear(With(x)) = Empty(Fresh(Schema), H)
        BY <2>1, ClearKeeps
    <2>3. \A q \in DOMAIN H : q \in DOMAIN heap /\ H[q] = heap[q]
        BY <1>5, RestIs
    <2>4. assigned = CopyFrom(With(x), from) /\ copied = Copy(from, heap)
        BY <2>1 DEF Assigned, Copied
    <2>5. FreeAddress(H) \in Unused(H)
        BY <2>1, FreeAddressUnused
    <2> HIDE DEF from, assigned, copied, source, origin, H
    <2>6. ASSUME NEW e \in Named, from = Whole(e, NotSet, Null)
          PROVE  Equal /\ Apart
        <3>1. assigned = Empty(e, H)
            BY <2>1, <2>2, <2>4, <2>6, CopyFromIs
        <3>2. copied = Empty(e, heap)
            BY <2>1, <2>4, <2>6, CopyIs
        <3>3. assigned.m = Whole(e, NotSet, Null) /\ copied.m = Whole(e, NotSet, Null)
            BY <3>1, <3>2, EmptyParts
        <3> DEFINE nil == <<>>
        <3>4. \A s : s.m = Whole(e, NotSet, Null) => Value(s) = Seen(e, nil)
            BY SeenEmpty
        <3> HIDE DEF nil
        <3>5. assigned.m.case = NotSet /\ copied.m.case = NotSet
            BY <3>3, WholeParts
        <3> QED BY <1>2, <1>3, <2>6, <3>3, <3>4, <3>5
    <2>7. ASSUME NEW e \in Named, NEW k \in Cases, NEW q \in DOMAIN H, from = Whole(e, k, q), H[q] \in Sane(Own(k))
          PROVE  Equal /\ Apart
        <3> DEFINE p == FreeAddress(H)
                   r == FreeAddress(heap)
                   z == H[q]
        <3>0. heap[q] = z /\ q \in DOMAIN heap
            BY <2>3
        <3>1. assigned = Full(e, k, p, z, H)
            BY <2>1, <2>2, <2>4, <2>7, CopyFromIs
        <3>2. copied = Full(e, k, r, z, heap)
            <4>1. heap[q] \in Sane(Own(k))
                BY <2>7, <3>0
            <4>2. Copy(Whole(e, k, q), heap) = Full(e, k, r, heap[q], heap)
                BY <2>1, <3>0, <4>1, CopyIs
            <4> QED BY <2>4, <2>7, <3>0, <4>2
        <3> HIDE DEF p, r, z
        <3>3. assigned.m = Whole(e, k, p) /\ copied.m = Whole(e, k, r)
            BY <3>1, <3>2, FullParts
        <3>4. assigned.h = Plus(H, p, z) /\ copied.h = Plus(heap, r, z)
            BY <3>1, <3>2, FullParts
        <3>5. assigned.h[p] = z /\ copied.h[r] = z
            BY <3>4, PlusIs
        <3>6. assigned.h[q] = z
            <4>1. p \in Unused(H)
                BY <2>5 DEF p
            <4>2. Plus(H, p, z)[q] = H[q]
                BY <4>1, PlusAt
            <4> QED BY <3>4, <4>2 DEF z
        <3>12. copied.h[q] = z
            <4>1. r \in Unused(heap)
                BY <2>1, FreeAddressUnused DEF r
            <4>2. Plus(heap, r, z)[q] = heap[q]
                BY <3>0, <4>1, PlusAt
            <4> QED BY <3>0, <3>4, <4>2
        <3>13. p # q /\ r # q /\ r \notin DOMAIN heap
            <4>1. p \in Unused(H) /\ r \in Unused(heap)
                BY <2>1, FreeAddressUnused DEF p, r
            <4> QED BY <3>0, <4>1 DEF Unused
        <3>14. Apart
            <4>1. from.ref = q /\ assigned.m.ref = p /\ copied.m.ref = r
                BY <2>7, <3>3, WholeParts
            <4> QED BY <3>13, <4>1
        <3> DEFINE u == <<k, z>>
        <3>7. \A s, g : s.m = Whole(e, k, g) /\ s.h[g] = z => Value(s) = Seen(e, u)
            BY <2>1, SeenFull
        <3> HIDE DEF u
        <3>8. Value(assigned) = Seen(e, u)
            BY <3>3, <3>5, <3>7
        <3>9. Value(copied) = Seen(e, u)
            BY <3>3, <3>5, <3>7
        <3>10. Value(source) = Seen(e, u)
            BY <1>2, <2>7, <3>6, <3>7
        <3>11. Value(With(y)) = Seen(e, u)
            BY <1>3, <2>7, <3>0, <3>7
        <3>15. Value(origin) = Seen(e, u)
            BY <1>2, <2>7, <3>12, <3>7
        <3> QED BY <3>8, <3>9, <3>10, <3>11, <3>14, <3>15
    <2> QED BY <2>1, <2>6, <2>7 DEF Metric
<1> QED BY <1>4, <1>5 DEF Inv

\* CopyFrom and the copy constructor make a message equal to their source, with
\* a nested message that is not the source's, and leave the source as it was.
THEOREM CopyIsEqualProved == Spec => []CopyIsEqual
BY MessageInvariant, InvCopy, PTL
-----------------------------------------------------------------------------
(* Reading back what was written: a message without nested messages *)

\* The first k elements of a sequence.
First(u, k) == SubSeq(u, 1, k)

\* The first k elements are the first k - 1 and the k-th.
LEMMA FirstSnoc ==
    ASSUME NEW E, NEW u \in Seq(E), NEW k \in 1..Len(u)
    PROVE  /\ First(u, k) = Append(First(u, k - 1), u[k])
           /\ First(u, k - 1) \in Seq(E) /\ u[k] \in E
<1>1. First(u, k) = First(u, k - 1) \o <<u[k]>>
    BY SubSeqRecursiveSecond, 1 \in 1..Len(u) DEF First
<1>2. First(u, k - 1) \in Seq(E) /\ u[k] \in E
    <2>1. \A j \in 1..(k - 1) : u[j] \in E
        OBVIOUS
    <2> QED BY <2>1, SubSeqProperties DEF First
<1> QED BY <1>1, <1>2, AppendIsConcat

\* None and all of them.
LEMMA FirstEnds ==
    ASSUME NEW E, NEW u \in Seq(E)
    PROVE  First(u, 0) = <<>> /\ First(u, Len(u)) = u /\ Len(u) \in Nat
BY SubSeqEmpty, SubSeqFull DEF First

\* One element more at the end of a concatenation.
LEMMA ConcatSnoc ==
    ASSUME NEW E, NEW u \in Seq(E), NEW v \in Seq(E), NEW e \in E
    PROVE  u \o Append(v, e) = Append(u \o v, e)
<1>1. <<e>> \in Seq(E) /\ u \o v \in Seq(E)
    BY ConcatProperties
<1>2. u \o (v \o <<e>>) = (u \o v) \o <<e>>
    BY <1>1, ConcatAssociative
<1> QED BY <1>1, <1>2, AppendIsConcat

\* Reading two sequences of entries, one after the other.
LEMMA ReadConcat ==
    ASSUME NEW T, NEW schema, NEW E, Closed(T, schema, E), NEW m \in T, NEW u \in Seq(E), NEW v \in Seq(E)
    PROVE  ReadAll(schema, m, u \o v) = ReadAll(schema, ReadAll(schema, m, u), v)
<1> DEFINE S == {k \in 0..Len(v) : ReadAll(schema, m, u \o First(v, k)) = ReadAll(schema, ReadAll(schema, m, u), First(v, k))}
           n == Len(v)
           a == ReadAll(schema, m, u)
           nil == <<>>
<1>0. n \in Nat /\ First(v, 0) = nil /\ First(v, n) = v
    BY FirstEnds
<1>1. 0 \in S
    <2>1. u \o nil = u
        BY ConcatEmptySeq
    <2>2. ReadAll(schema, a, nil) = a
        BY ReadNil
    <2> HIDE DEF a, nil
    <2>3. ReadAll(schema, m, u \o First(v, 0)) = ReadAll(schema, a, First(v, 0))
        BY <1>0, <2>1, <2>2 DEF a
    <2> QED BY <1>0, <2>3 DEF a
<1>2. ASSUME NEW k \in 1..n, k - 1 \in S PROVE k \in S
    <2> DEFINE f == First(v, k - 1)
               e == v[k]
    <2>1. First(v, k) = Append(f, e) /\ f \in Seq(E) /\ e \in E
        BY FirstSnoc
    <2>2. ReadAll(schema, m, u \o f) = ReadAll(schema, a, f)
        BY <1>2
    <2>3. a \in T
        BY ReadStays
    <2>a. \A y \in T : \A x \in Seq(E) : \A d \in E :
            ReadAll(schema, y, Append(x, d)) = ReadField(schema, ReadAll(schema, y, x), d)
        BY ReadSnoc
    <2> HIDE DEF f, e, a
    <2>4. u \o f \in Seq(E)
        BY <2>1, ConcatProperties
    <2>5. u \o Append(f, e) = Append(u \o f, e)
        BY <2>1, ConcatSnoc
    <2>6. ReadAll(schema, m, Append(u \o f, e)) = ReadField(schema, ReadAll(schema, m, u \o f), e)
        BY <2>1, <2>4, <2>a
    <2>7. ReadAll(schema, a, Append(f, e)) = ReadField(schema, ReadAll(schema, a, f), e)
        BY <2>1, <2>3, <2>a
    <2>8. ReadAll(schema, m, u \o First(v, k)) = ReadAll(schema, a, First(v, k))
        BY <2>1, <2>2, <2>5, <2>6, <2>7
    <2>9. k \in 0..n
        BY <1>2
    <2> QED BY <2>8, <2>9 DEF a
<1>3. n \in S
    <2>1. 0..n \subseteq S
        <3> HIDE DEF S, n
        <3> QED BY <1>0, <1>1, <1>2, Induct
    <2> QED BY <1>0, <2>1
<1>4. ReadAll(schema, m, u \o First(v, n)) = ReadAll(schema, a, First(v, n))
    BY <1>3
<1> HIDE DEF n, a
<1> QED BY <1>0, <1>4 DEF a

\* One more entry of a class is read.
LEMMA ReadOneMore ==
    ASSUME NEW schema, SchemaOK(schema), NEW m \in Sane(Names(schema)),
           NEW u \in Seq(Readable(schema)), NEW e \in Readable(schema)
    PROVE  ReadAll(schema, m, Append(u, e)) = ReadField(schema, ReadAll(schema, m, u), e)
<1> DEFINE T == Sane(Names(schema))
           E == Readable(schema)
<1>1. Closed(T, schema, E)
    BY ReadFieldSane
<1> HIDE DEF T, E
<1>2. \A y \in T : \A x \in Seq(E) : \A d \in E :
         ReadAll(schema, y, Append(x, d)) = ReadField(schema, ReadAll(schema, y, x), d)
    BY <1>1, ReadSnoc
<1> QED BY <1>2 DEF T, E

\* A message into which the fields of G were taken over from another one.
Partly(to, from, G) == Rec(to.has \cup (from.has \cap G), Overlaid(to.val, from, G), to.unknown)

\* Without a field that was read, nothing has changed.
LEMMA PartlyNone ==
    ASSUME NEW N, NEW to \in Sane(N), NEW from
    PROVE  Partly(to, from, {}) = to
<1>1. to = Rec(to.has, to.val, to.unknown) /\ to.val \in [N -> Nat]
    BY Sanely
<1>2. Overlaid(to.val, from, {}) = to.val
    BY <1>1 DEF Overlaid
<1>3. to.has \cup (from.has \cap {}) = to.has
    OBVIOUS
<1> QED BY <1>1, <1>2, <1>3 DEF Partly

\* A field that is set is read ...
LEMMA PartlyPut ==
    ASSUME NEW N, NEW to \in Sane(N), NEW from, NEW G, NEW f \in N, f \in from.has
    PROVE  Put(Partly(to, from, G), f, from.val[f]) = Partly(to, from, G \cup {f})
<1> DEFINE h == to.has \cup (from.has \cap G)
           v == Overlaid(to.val, from, G)
<1>1. to.val \in [N -> Nat]
    BY Sanely
<1>2. Put(Rec(h, v, to.unknown), f, from.val[f]) = Rec(h \cup {f}, With1(v, f, from.val[f]), to.unknown)
    BY PutIs
<1>3. With1(v, f, from.val[f]) = Overlaid(to.val, from, G \cup {f})
    BY <1>1 DEF With1, Overlaid
<1>4. h \cup {f} = to.has \cup (from.has \cap (G \cup {f}))
    OBVIOUS
<1> HIDE DEF h, v
<1> QED BY <1>2, <1>3, <1>4 DEF Partly, h, v

\* ... and one that is not is not on the wire.
LEMMA PartlySkip ==
    ASSUME NEW N, NEW to \in Sane(N), NEW from, NEW G, NEW f \in N, f \notin from.has
    PROVE  Partly(to, from, G \cup {f}) = Partly(to, from, G)
<1>1. to.val \in [N -> Nat]
    BY Sanely
<1>2. /\ Overlaid(to.val, from, G \cup {f}) = Overlaid(to.val, from, G)
      /\ to.has \cup (from.has \cap (G \cup {f})) = to.has \cup (from.has \cap G)
    BY <1>1 DEF Overlaid
<1> QED BY <1>2 DEF Partly

\* The names of the first k fields.
Named1(schema, k) == {schema[i].name : i \in 1..k}

\* The names of the first k fields.
LEMMA NamesSnoc ==
    ASSUME NEW schema, NEW k \in Nat \ {0}
    PROVE  Named1(schema, k) = Named1(schema, k - 1) \cup {schema[k].name}
BY DEF Named1

\* Reading the fields that are set of another message.
LEMMA ReadWrittenFields ==
    ASSUME NEW schema, SchemaOK(schema), NEW to \in Sane(Names(schema)), NEW from \in Sane(Names(schema))
    PROVE  ReadAll(schema, to, WriteAll(from, <<>>, schema)) = Partly(to, from, Names(schema))
<1> DEFINE N == Names(schema)
           n == Len(schema)
           nil == <<>>
           W(k) == WriteAll(from, nil, First(schema, k))
           F == Fields(schema)
           S == {k \in 0..n : W(k) \in Seq(F) /\ ReadAll(schema, to, W(k)) = Partly(to, from, Named1(schema, k))}
<1>0. /\ schema \in Seq(Range(schema)) /\ n \in Nat
      /\ First(schema, 0) = nil /\ First(schema, n) = schema
    <2>1. schema \in Seq(Range(schema))
        BY DEF SchemaOK, Range
    <2> DEFINE R == Range(schema)
    <2> HIDE DEF R
    <2> QED BY <2>1, FirstEnds DEF R
<1>1. 0 \in S
    <2>1. W(0) = nil
        BY <1>0, WriteNil
    <2>2. ReadAll(schema, to, nil) = to
        BY ReadNil
    <2>3. Named1(schema, 0) = {}
        BY DEF Named1
    <2>4. Partly(to, from, {}) = to
        BY PartlyNone
    <2>5. nil \in Seq(F)
        OBVIOUS
    <2> DEFINE none == {}
    <2>6. Named1(schema, 0) = none /\ Partly(to, from, none) = to
        BY <2>3, <2>4
    <2> HIDE DEF nil, W, F, none
    <2>7. W(0) \in Seq(F) /\ ReadAll(schema, to, W(0)) = Partly(to, from, Named1(schema, 0))
        BY <2>1, <2>2, <2>5, <2>6
    <2>8. 0 \in 0..n
        BY <1>0
    <2> QED BY <2>7, <2>8
<1>2. ASSUME NEW k \in 1..n, k - 1 \in S PROVE k \in S
    <2> DEFINE f == schema[k]
               u == W(k - 1)
               e == Entry(f.tag, from.val[f.name])
               G == Named1(schema, k - 1)
    <2>1. /\ First(schema, k) = Append(First(schema, k - 1), f)
          /\ First(schema, k - 1) \in Seq(Range(schema)) /\ f \in Range(schema)
        <3> DEFINE R == Range(schema)
        <3> HIDE DEF R
        <3> QED BY <1>0, FirstSnoc DEF R
    <2>2. from.has \subseteq N /\ from.val \in [N -> Nat]
        BY Sanely
    <2>3. WriteClosed(Seq(F), from, Range(schema))
        BY <2>2, WriteStays
    <2>4. W(k) = WriteField(from, u, f)
        <3> DEFINE p == First(schema, k - 1)
                   R == Range(schema)
        <3>1. nil \in Seq(F)
            OBVIOUS
        <3> HIDE DEF p, R, f, nil, F
        <3>a. \A s \in Seq(F) : \A x \in Seq(R) : \A d \in R :
                WriteAll(from, s, Append(x, d)) = WriteField(from, WriteAll(from, s, x), d)
            BY <2>3, WriteSnoc DEF R
        <3>2. WriteAll(from, nil, Append(p, f)) = WriteField(from, WriteAll(from, nil, p), f)
            BY <2>1, <3>1, <3>a DEF p, R
        <3> QED BY <2>1, <3>2 DEF p
    <2>5. u \in Seq(F) /\ ReadAll(schema, to, u) = Partly(to, from, G)
        BY <1>2
    <2>6. /\ NameOf(schema, f.tag) = f.name /\ f.tag \in Tags(schema) /\ f.name \in N
        BY NameOfField
    <2>7. Named1(schema, k) = G \cup {f.name}
        BY NamesSnoc
    <2> DEFINE nm == f.name
    <2>8a. nm \in N
        BY <2>6
    <2> HIDE DEF nm
    <2>8b. nm \in from.has => Put(Partly(to, from, G), nm, from.val[nm]) = Partly(to, from, G \cup {nm})
        BY <2>8a, PartlyPut
    <2>8c. nm \notin from.has => Partly(to, from, G \cup {nm}) = Partly(to, from, G)
        BY <2>8a, PartlySkip
    <2>8. /\ f.name \in from.has => Put(Partly(to, from, G), f.name, from.val[f.name]) = Partly(to, from, G \cup {f.name})
          /\ f.name \notin from.has => Partly(to, from, G \cup {f.name}) = Partly(to, from, G)
        BY <2>8b, <2>8c DEF nm
    <2>9. e \in F /\ e.tag = f.tag /\ e.v = from.val[f.name]
        BY <2>2, <2>6 DEF Fields, Entry
    <2>10. k \in 0..n
        BY <1>2
    <2> HIDE DEF u, e, G, f, W, F
    <2>11. CASE f.name \in from.has
        <3>1. W(k) = Append(u, e)
            BY <2>4, <2>11 DEF WriteField, e
        <3>2. Append(u, e) \in Seq(F)
            BY <2>5, <2>9
        <3>3. ReadAll(schema, to, Append(u, e)) = ReadField(schema, ReadAll(schema, to, u), e)
            <4>1. F \subseteq Readable(schema)
                BY DEF Readable, F
            <4>2. u \in Seq(Readable(schema)) /\ e \in Readable(schema)
                BY <2>5, <2>9, <4>1, SeqMonotonic
            <4> QED BY <4>2, ReadOneMore
        <3>4. ReadField(schema, Partly(to, from, G), e) = Put(Partly(to, from, G), f.name, from.val[f.name])
            BY <2>6, <2>9 DEF ReadField
        <3> QED BY <2>5, <2>7, <2>8, <2>10, <2>11, <3>1, <3>2, <3>3, <3>4
    <2>12. CASE f.name \notin from.has
        <3>1. W(k) = u
            BY <2>4, <2>12 DEF WriteField
        <3> QED BY <2>5, <2>7, <2>8, <2>10, <2>12, <3>1
    <2> QED BY <2>11, <2>12
<1>3. n \in S
    <2>1. 0..n \subseteq S
        <3> HIDE DEF S, n
        <3> QED BY <1>0, <1>1, <1>2, Induct
    <2> QED BY <1>0, <2>1
<1>4. ReadAll(schema, to, W(n)) = Partly(to, from, Named1(schema, n))
    BY <1>3
<1>5. Named1(schema, n) = N
    BY DEF Named1, Names
<1>6. W(n) = WriteAll(from, nil, schema)
    BY <1>0
<1> HIDE DEF W, n
<1> QED BY <1>4, <1>5, <1>6

\* Reading fields nobody knows.
LEMMA ReadForeign ==
    ASSUME NEW schema, SchemaOK(schema), NEW m \in Sane(Names(schema)), NEW u \in Seq({Foreign})
    PROVE  ReadAll(schema, m, u) = Rec(m.has, m.val, m.unknown \o u)
<1> DEFINE n == Len(u)
           nil == <<>>
           R(k) == Rec(m.has, m.val, m.unknown \o First(u, k))
           S == {k \in 0..n : ReadAll(schema, m, First(u, k)) = R(k)}
           E == {Foreign}
<1>0. n \in Nat /\ First(u, 0) = nil /\ First(u, n) = u
    BY FirstEnds
<1>a. m = Rec(m.has, m.val, m.unknown) /\ m.unknown \in Seq(E)
    BY Sanely
<1>1. 0 \in S
    <2>1. m.unknown \o nil = m.unknown
        BY <1>a, ConcatEmptySeq
    <2>2. ReadAll(schema, m, nil) = m
        BY ReadNil
    <2> HIDE DEF nil
    <2>3. Rec(m.has, m.val, m.unknown \o First(u, 0)) = Rec(m.has, m.val, m.unknown)
        BY <1>0, <2>1
    <2>4. ReadAll(schema, m, First(u, 0)) = R(0)
        BY <1>0, <1>a, <2>2, <2>3
    <2>5. 0 \in 0..n
        BY <1>0
    <2> HIDE DEF R
    <2> QED BY <2>4, <2>5
<1>2. ASSUME NEW k \in 1..n, k - 1 \in S PROVE k \in S
    <2> DEFINE f == First(u, k - 1)
               e == u[k]
    <2>1. First(u, k) = Append(f, e) /\ f \in Seq(E) /\ e \in E
        BY FirstSnoc
    <2>2. ReadAll(schema, m, f) = Rec(m.has, m.val, m.unknown \o f)
        BY <1>2
    <2> HIDE DEF f, e
    <2>3. m.unknown \o Append(f, e) = Append(m.unknown \o f, e)
        <3> DEFINE a == m.unknown
        <3>1. a \in Seq(E)
            BY <1>a
        <3> HIDE DEF E, a
        <3>2. a \o Append(f, e) = Append(a \o f, e)
            BY <2>1, <3>1, ConcatSnoc
        <3> QED BY <3>2 DEF a
    <2>4. ReadAll(schema, m, Append(f, e)) = ReadField(schema, ReadAll(schema, m, f), e)
        <3>1. E \subseteq Readable(schema)
            BY DEF Readable
        <3>2. f \in Seq(Readable(schema)) /\ e \in Readable(schema)
            BY <2>1, <3>1, SeqMonotonic
        <3> QED BY <3>2, ReadOneMore
    <2>5. \A a : ReadField(schema, a, e) = SetUnknown(a, Append(a.unknown, e))
        <3>1. e.tag \notin Tags(schema)
            BY <2>1, TagsOf DEF Foreign, Entry
        <3> QED BY <3>1 DEF ReadField, SetUnknown
    <2>6. ReadField(schema, Rec(m.has, m.val, m.unknown \o f), e) = Rec(m.has, m.val, Append(m.unknown \o f, e))
        BY <2>5, Parts, Assigns
    <2>7. k \in 0..n
        BY <1>2
    <2> QED BY <2>1, <2>2, <2>3, <2>4, <2>6, <2>7
<1>3. n \in S
    <2>1. 0..n \subseteq S
        <3> HIDE DEF S, n
        <3> QED BY <1>0, <1>1, <1>2, Induct
    <2> QED BY <1>0, <2>1
<1>4. ReadAll(schema, m, First(u, n)) = R(n)
    BY <1>3
<1> HIDE DEF n
<1> QED BY <1>0, <1>4

\* Reading what a message is written as merges it.
LEMMA ReadWritten ==
    ASSUME NEW schema, SchemaOK(schema), NEW to \in Sane(Names(schema)), NEW from \in Sane(Names(schema))
    PROVE  ReadAll(schema, to, Written(schema, from)) = Joined(to, from)
<1> DEFINE N == Names(schema)
           w == WriteAll(from, <<>>, schema)
           p == Partly(to, from, N)
           v == Overlaid(to.val, from, N)
           h == to.has \cup from.has
<1>1. from.has \subseteq N /\ from.val \in [N -> Nat] /\ from.unknown \in Seq({Foreign})
    BY Sanely
<1>2. w \in Seq(Fields(schema)) /\ Written(schema, from) = w \o from.unknown
    BY <1>1, WrittenReads
<1>3. ReadAll(schema, to, w) = p
    BY ReadWrittenFields
<1>4. w \in Seq(Readable(schema)) /\ from.unknown \in Seq(Readable(schema))
    <2> HIDE DEF w
    <2>1. Fields(schema) \subseteq Readable(schema) /\ {Foreign} \subseteq Readable(schema)
        BY DEF Readable
    <2> QED BY <1>1, <1>2, <2>1, SeqMonotonic
<1> HIDE DEF w, p
<1>5. ReadAll(schema, to, w \o from.unknown) = ReadAll(schema, p, from.unknown)
    BY <1>3, <1>4, ReadFieldSane, ReadConcat
<1>6. p \in Sane(N)
    BY <1>3, <1>4, ReadAllSane
<1>7. ReadAll(schema, p, from.unknown) = Rec(p.has, p.val, p.unknown \o from.unknown)
    BY <1>1, <1>6, ReadForeign
<1>8. p = Rec(h, v, to.unknown)
    <2>1. from.has \cap N = from.has
        BY <1>1
    <2> QED BY <2>1 DEF Partly, p
<1>9. p.has = h /\ p.val = v /\ p.unknown = to.unknown
    BY <1>8, Parts
<1>10. Joined(to, from) = Rec(h, v, to.unknown \o from.unknown)
    BY <1>1, JoinedIs
<1> QED BY <1>2, <1>5, <1>7, <1>9, <1>10

\* Nothing a message is written as ends it, so it is read as a whole.
LEMMA ReadableGoesOn ==
    ASSUME NEW schema, SchemaOK(schema)
    PROVE  \A e \in Readable(schema) : ~EndsMessage(e)
<1>1. ASSUME NEW e \in Fields(schema) PROVE ~EndsMessage(e)
    <2>1. e.tag \in Tags(schema)
        BY DEF Fields
    <2>2. e.tag \in 1..127 /\ e.tag % 8 # 4
        BY <2>1, TagsOf
    <2> QED BY <2>2 DEF EndsMessage
<1>2. ~EndsMessage(Foreign)
    BY DEF EndsMessage, Foreign, Entry
<1> QED BY <1>1, <1>2 DEF Readable

\* What a message is written as is read to its end.
LEMMA ReadFieldsIs ==
    ASSUME NEW schema, SchemaOK(schema), NEW m, NEW w \in Seq(Readable(schema))
    PROVE  ReadFields(schema, m, w) = ReadAll(schema, m, w)
<1>1. UpToEnd(w) = w
    BY ReadableGoesOn, UpToEndAll
<1> QED BY <1>1 DEF ReadFields, ReadAll

\* _InternalParse of what _InternalSerialize writes is MergeFrom.
LEMMA ReadBack ==
    ASSUME NEW schema, SchemaOK(schema), NEW to \in Sane(Names(schema)), NEW from \in Sane(Names(schema))
    PROVE  ReadFields(schema, to, Written(schema, from)) = Joined(to, from)
<1>1. from.has \subseteq Names(schema) /\ from.val \in [Names(schema) -> Nat] /\ from.unknown \in Seq({Foreign})
    BY Sanely
<1>2. Written(schema, from) \in Seq(Readable(schema))
    BY <1>1, WrittenReads
<1> DEFINE w == Written(schema, from)
<1> HIDE DEF w
<1>3. ReadFields(schema, to, w) = ReadAll(schema, to, w)
    BY <1>2, ReadFieldsIs DEF w
<1> QED BY <1>3, ReadWritten DEF w
-----------------------------------------------------------------------------
(* Reading back what was written: a metric *)

\* The metric that was parsed is one of T.
LEMMA ParseStays ==
    ASSUME NEW T, NEW s \in T, NEW E, NEW u \in Seq(E), ParseClosed(T, E)
    PROVE  ParseAll(s, u) \in T
<1>1. PICK g : ParseRun(g, T, s, u)
    BY ParseUnroll
<1> QED BY <1>1 DEF ParseRun

\* Parsing one sequence after another.
LEMMA ParseConcat ==
    ASSUME NEW T, NEW E, ParseClosed(T, E), NEW s \in T, NEW u \in Seq(E), NEW v \in Seq(E)
    PROVE  ParseAll(s, u \o v) = ParseAll(ParseAll(s, u), v)
<1> DEFINE S == {k \in 0..Len(v) : ParseAll(s, u \o First(v, k)) = ParseAll(ParseAll(s, u), First(v, k))}
           n == Len(v)
           a == ParseAll(s, u)
           nil == <<>>
<1>0. n \in Nat /\ First(v, 0) = nil /\ First(v, n) = v
    BY FirstEnds
<1>1. 0 \in S
    <2>1. u \o nil = u
        BY ConcatEmptySeq
    <2>2. ParseAll(a, nil) = a
        BY ParseNil
    <2> HIDE DEF a, nil
    <2>3. ParseAll(s, u \o First(v, 0)) = ParseAll(a, First(v, 0))
        BY <1>0, <2>1, <2>2 DEF a
    <2> QED BY <1>0, <2>3 DEF a
<1>2. ASSUME NEW k \in 1..n, k - 1 \in S PROVE k \in S
    <2> DEFINE f == First(v, k - 1)
               e == v[k]
    <2>1. First(v, k) = Append(f, e) /\ f \in Seq(E) /\ e \in E
        BY FirstSnoc
    <2>2. ParseAll(s, u \o f) = ParseAll(a, f)
        BY <1>2
    <2>3. a \in T
        BY ParseStays
    <2>a. \A y \in T : \A x \in Seq(E) : \A d \in E : ParseAll(y, Append(x, d)) = ReadEntry(ParseAll(y, x), d)
        BY ParseSnoc
    <2> HIDE DEF f, e, a
    <2>4. u \o f \in Seq(E)
        BY <2>1, ConcatProperties
    <2>5. u \o Append(f, e) = Append(u \o f, e)
        BY <2>1, ConcatSnoc
    <2>6. ParseAll(s, Append(u \o f, e)) = ReadEntry(ParseAll(s, u \o f), e)
        BY <2>1, <2>4, <2>a
    <2>7. ParseAll(a, Append(f, e)) = ReadEntry(ParseAll(a, f), e)
        BY <2>1, <2>3, <2>a
    <2>8. ParseAll(s, u \o First(v, k)) = ParseAll(a, First(v, k))
        BY <2>1, <2>2, <2>5, <2>6, <2>7
    <2>9. k \in 0..n
        BY <1>2
    <2> QED BY <2>8, <2>9 DEF a
<1>3. n \in S
    <2>1. 0..n \subseteq S
        <3> HIDE DEF S, n
        <3> QED BY <1>0, <1>1, <1>2, Induct
    <2> QED BY <1>0, <2>1
<1>4. ParseAll(s, u \o First(v, n)) = ParseAll(a, First(v, n))
    BY <1>3
<1> HIDE DEF n, a
<1> QED BY <1>0, <1>4 DEF a

\* One more entry of a metric is parsed.
LEMMA ParseOneMore ==
    ASSUME NEW H, HeapOK(H), NEW s \in States(H), NEW u \in Seq(MetricReadable), NEW e \in MetricReadable
    PROVE  ParseAll(s, Append(u, e)) = ReadEntry(ParseAll(s, u), e)
<1> DEFINE T == States(H)
           E == MetricReadable
<1>1. ParseClosed(T, E)
    BY ReadEntryState DEF ParseClosed
<1> HIDE DEF T, E
<1>2. \A y \in T : \A x \in Seq(E) : \A d \in E : ParseAll(y, Append(x, d)) = ReadEntry(ParseAll(y, x), d)
    BY <1>1, ParseSnoc
<1> QED BY <1>2 DEF T, E

\* The same for the entries of a metric.
LEMMA ParseBoth ==
    ASSUME NEW H, HeapOK(H), NEW s \in States(H), NEW u \in Seq(MetricReadable), NEW v \in Seq(MetricReadable)
    PROVE  ParseAll(s, u \o v) = ParseAll(ParseAll(s, u), v)
<1>1. ParseClosed(States(H), MetricReadable)
    BY ReadEntryState DEF ParseClosed
<1> QED BY <1>1, ParseConcat

\* Fields of its own and unknown fields, whatever the metric owns.
LEMMA ReadEntryEmpty ==
    ASSUME NEW b \in Named, NEW H, NEW e \in Readable(Schema)
    PROVE  ReadEntry(Empty(b, H), e) = Empty(ReadField(Schema, b, e), H)
<1>1. Empty(b, H).m = Whole(b, NotSet, Null)
    BY EmptyParts
<1> QED BY <1>1, ReadOwn, ReadOwnEntry, OnEmpty

\* ... or into one that owns a message, which stays.
LEMMA ReadEntryFull ==
    ASSUME NEW b \in Named, NEW c, NEW p, NEW x, NEW H, NEW e \in Readable(Schema)
    PROVE  ReadEntry(Full(b, c, p, x, H), e) = Full(ReadField(Schema, b, e), c, p, x, H)
<1> DEFINE s == Full(b, c, p, x, H)
<1>1. s.m = Whole(b, c, p)
    BY FullParts
<1>2. SetMetric(s, Whole(ReadField(Schema, b, e), c, p)) = Full(ReadField(Schema, b, e), c, p, x, H)
    BY OnFull
<1> HIDE DEF s
<1>3. ReadEntry(s, e) = SetMetric(s, Whole(ReadField(Schema, b, e), c, p))
    BY <1>1, ReadOwn, ReadOwnEntry
<1> QED BY <1>2, <1>3 DEF s

\* One more entry for the name, or unknown.
LEMMA ReadOwnMore ==
    ASSUME NEW b \in Named, NEW u \in Seq(Readable(Schema)), NEW e \in Readable(Schema)
    PROVE  /\ ReadAll(Schema, b, u) \in Named
           /\ ReadAll(Schema, b, Append(u, e)) = ReadField(Schema, ReadAll(Schema, b, u), e)
<1>1. SchemaOK(Schema) /\ Named = Sane(Names(Schema))
    BY MetricSchema DEF Named
<1> QED BY <1>1, ReadAllSane, ReadOneMore

\* All entries for a metric that owns nothing ...
LEMMA ParseOwnEmpty ==
    ASSUME NEW H, HeapOK(H), NEW b \in Named, NEW u \in Seq(Readable(Schema))
    PROVE  ParseAll(Empty(b, H), u) = Empty(ReadAll(Schema, b, u), H)
<1> DEFINE n == Len(u)
           nil == <<>>
           s == Empty(b, H)
           R(k) == Empty(ReadAll(Schema, b, First(u, k)), H)
           S == {k \in 0..n : ParseAll(s, First(u, k)) = R(k)}
           E == Readable(Schema)
<1>0. n \in Nat /\ First(u, 0) = nil /\ First(u, n) = u
    BY FirstEnds
<1>a. s \in States(H)
    BY EmptyState
<1>1. 0 \in S
    <2>1. ParseAll(s, nil) = s /\ ReadAll(Schema, b, nil) = b
        BY ParseNil, ReadNil
    <2> HIDE DEF nil
    <2>2. ParseAll(s, First(u, 0)) = R(0)
        BY <1>0, <2>1
    <2>3. 0 \in 0..n
        BY <1>0
    <2> HIDE DEF R, s
    <2> QED BY <2>2, <2>3
<1>2. ASSUME NEW k \in 1..n, k - 1 \in S PROVE k \in S
    <2> DEFINE f == First(u, k - 1)
               e == u[k]
               d == ReadAll(Schema, b, f)
    <2>1. First(u, k) = Append(f, e) /\ f \in Seq(E) /\ e \in E
        BY FirstSnoc
    <2>2. ParseAll(s, f) = Empty(d, H)
        BY <1>2
    <2> HIDE DEF f, e, s
    <2>3. ParseAll(s, Append(f, e)) = ReadEntry(ParseAll(s, f), e)
        <3>1. E \subseteq MetricReadable
            BY DEF MetricReadable
        <3>2. f \in Seq(MetricReadable) /\ e \in MetricReadable
            BY <2>1, <3>1, SeqMonotonic
        <3> QED BY <1>a, <3>2, ParseOneMore
    <2>4. d \in Named /\ ReadAll(Schema, b, Append(f, e)) = ReadField(Schema, d, e)
        BY <2>1, ReadOwnMore
    <2> HIDE DEF d
    <2>5. ReadEntry(Empty(d, H), e) = Empty(ReadField(Schema, d, e), H)
        BY <2>1, <2>4, ReadEntryEmpty
    <2>6. ParseAll(s, First(u, k)) = R(k)
        BY <2>1, <2>2, <2>3, <2>4, <2>5
    <2>7. k \in 0..n
        BY <1>2
    <2> HIDE DEF R
    <2> QED BY <2>6, <2>7
<1>3. n \in S
    <2>1. 0..n \subseteq S
        <3> HIDE DEF S, n
        <3> QED BY <1>0, <1>1, <1>2, Induct
    <2> QED BY <1>0, <2>1
<1>4. ParseAll(s, First(u, n)) = R(n)
    BY <1>3
<1> HIDE DEF n, s
<1> QED BY <1>0, <1>4 DEF s

\* ... and for one that owns a message.
LEMMA ParseOwnFull ==
    ASSUME NEW H, HeapOK(H), NEW b \in Named, NEW c \in Cases, NEW p \in Unused(H), NEW x \in Sane(Own(c)),
           NEW u \in Seq(Readable(Schema))
    PROVE  ParseAll(Full(b, c, p, x, H), u) = Full(ReadAll(Schema, b, u), c, p, x, H)
<1> DEFINE n == Len(u)
           nil == <<>>
           s == Full(b, c, p, x, H)
           R(k) == Full(ReadAll(Schema, b, First(u, k)), c, p, x, H)
           S == {k \in 0..n : ParseAll(s, First(u, k)) = R(k)}
           E == Readable(Schema)
<1>0. n \in Nat /\ First(u, 0) = nil /\ First(u, n) = u
    BY FirstEnds
<1>a. s \in States(H)
    BY FullState
<1>1. 0 \in S
    <2>1. ParseAll(s, nil) = s /\ ReadAll(Schema, b, nil) = b
        BY ParseNil, ReadNil
    <2> HIDE DEF nil
    <2>2. ParseAll(s, First(u, 0)) = R(0)
        BY <1>0, <2>1
    <2>3. 0 \in 0..n
        BY <1>0
    <2> HIDE DEF R, s
    <2> QED BY <2>2, <2>3
<1>2. ASSUME NEW k \in 1..n, k - 1 \in S PROVE k \in S
    <2> DEFINE f == First(u, k - 1)
               e == u[k]
               d == ReadAll(Schema, b, f)
    <2>1. First(u, k) = Append(f, e) /\ f \in Seq(E) /\ e \in E
        BY FirstSnoc
    <2>2. ParseAll(s, f) = Full(d, c, p, x, H)
        BY <1>2
    <2> HIDE DEF f, e, s
    <2>3. ParseAll(s, Append(f, e)) = ReadEntry(ParseAll(s, f), e)
        <3>1. E \subseteq MetricReadable
            BY DEF MetricReadable
        <3>2. f \in Seq(MetricReadable) /\ e \in MetricReadable
            BY <2>1, <3>1, SeqMonotonic
        <3> QED BY <1>a, <3>2, ParseOneMore
    <2>4. d \in Named /\ ReadAll(Schema, b, Append(f, e)) = ReadField(Schema, d, e)
        BY <2>1, ReadOwnMore
    <2> HIDE DEF d
    <2>5. ReadEntry(Full(d, c, p, x, H), e) = Full(ReadField(Schema, d, e), c, p, x, H)
        BY <2>1, <2>4, ReadEntryFull
    <2>6. ParseAll(s, First(u, k)) = R(k)
        BY <2>1, <2>2, <2>3, <2>4, <2>5
    <2>7. k \in 0..n
        BY <1>2
    <2> HIDE DEF R
    <2> QED BY <2>6, <2>7
<1>3. n \in S
    <2>1. 0..n \subseteq S
        <3> HIDE DEF S, n
        <3> QED BY <1>0, <1>1, <1>2, Induct
    <2> QED BY <1>0, <2>1
<1>4. ParseAll(s, First(u, n)) = R(n)
    BY <1>3
<1> HIDE DEF n, s
<1> QED BY <1>0, <1>4 DEF s

\* The own fields of e, and its unknown ones, read into b.
LEMMA OwnReadBack ==
    ASSUME NEW b \in Named, NEW e \in Named
    PROVE  /\ OwnWritten(e) \in Seq(Readable(Schema)) /\ e.unknown \in Seq(Readable(Schema))
           /\ OwnWritten(e) \o e.unknown \in Seq(Readable(Schema))
           /\ ReadAll(Schema, b, OwnWritten(e) \o e.unknown) = Joined(b, e)
           /\ ReadAll(Schema, b, OwnWritten(e)) \in Named
           /\ ReadAll(Schema, ReadAll(Schema, b, OwnWritten(e)), e.unknown) = Joined(b, e)
<1> DEFINE o == OwnWritten(e)
           E == Readable(Schema)
<1>1. SchemaOK(Schema) /\ Named = Sane(Names(Schema)) /\ Names(Schema) = {"name"}
    BY MetricSchema DEF Named
<1>2. e.has \subseteq {"name"} /\ e.val \in [{"name"} -> Nat] /\ e.unknown \in Seq({Foreign})
    BY Sanely DEF Named
<1>3. o \in Seq(Fields(Schema)) /\ Written(Schema, e) = o \o e.unknown
    BY <1>1, <1>2, WrittenReads DEF OwnWritten
<1> HIDE DEF o
<1>4. o \in Seq(E) /\ e.unknown \in Seq(E)
    <2>1. Fields(Schema) \subseteq E /\ {Foreign} \subseteq E
        BY DEF Readable
    <2> HIDE DEF E
    <2> QED BY <1>2, <1>3, <2>1, SeqMonotonic
<1>5. ReadAll(Schema, b, Written(Schema, e)) = Joined(b, e)
    BY <1>1, ReadWritten
<1>6. ReadAll(Schema, b, o) \in Named
    BY <1>1, <1>4, ReadAllSane
<1>7. Closed(Named, Schema, E)
    BY <1>1, ReadFieldSane
<1> HIDE DEF E
<1>8. ReadAll(Schema, b, o \o e.unknown) = ReadAll(Schema, ReadAll(Schema, b, o), e.unknown)
    BY <1>4, <1>7, ReadConcat
<1>9. o \o e.unknown \in Seq(E)
    BY <1>4, ConcatProperties
<1> QED BY <1>3, <1>4, <1>5, <1>6, <1>8, <1>9 DEF o, E
-----------------------------------------------------------------------------
(* Parsing what a metric is written as is merging the metric *)

\* The nested message.
LEMMA SubReadBack ==
    ASSUME NEW H, HeapOK(H), NEW b, NEW c \in Cases, NEW r \in Unused(H), NEW y \in Sane(Own(c)),
           NEW x \in Sane(Own(c)), NEW s, mutable(s, c) = Full(b, c, r, y, H)
    PROVE  ReadEntry(s, Nested(TagOf[c], Written(ClassSchema(c), x))) = Full(b, c, r, Joined(y, x), H)
<1> DEFINE w == Written(ClassSchema(c), x)
<1>1. ReadFields(ClassSchema(c), y, w) = Joined(y, x)
    BY CasesAre, Schemas, ReadBack DEF Own
<1> HIDE DEF w
<1>2. ReadSub(s, c, w) = Full(b, c, r, ReadFields(ClassSchema(c), y, w), H)
    BY ReadInto
<1>3. ReadEntry(s, Nested(TagOf[c], w)) = ReadSub(s, c, w)
    BY ReadNest
<1> QED BY <1>1, <1>2, <1>3 DEF w

\* The name, the nested message and the unknown fields, one after the other.
LEMMA ParseOwnSubEmpty ==
    ASSUME NEW H, HeapOK(H), NEW b \in Named, NEW e \in Named, NEW c \in Cases, NEW x \in Sane(Own(c)),
           NEW s \in States(H), NEW d \in Named, NEW r \in Unused(H), NEW y \in Sane(Own(c)),
           ParseAll(s, OwnWritten(e)) \in States(H),
           mutable(ParseAll(s, OwnWritten(e)), c) = Full(d, c, r, y, H),
           ReadAll(Schema, d, e.unknown) = Joined(b, e)
    PROVE  ParseAll(s, OwnWritten(e) \o SubWritten(c, x) \o e.unknown) = Full(Joined(b, e), c, r, Joined(y, x), H)
<1> DEFINE o == OwnWritten(e)
           t == Nested(TagOf[c], Written(ClassSchema(c), x))
           u == e.unknown
           E == MetricReadable
           R == Readable(Schema)
           z == Joined(y, x)
<1>1. o \in Seq(R) /\ u \in Seq(R)
    BY OwnReadBack
<1>2. o \in Seq(E) /\ u \in Seq(E)
    <2>1. R \subseteq E
        BY DEF MetricReadable
    <2> HIDE DEF o, u, R, E
    <2> QED BY <1>1, <2>1, SeqMonotonic
<1>3. t \in E
    <2>1. ClassSerialize(c, x) \in Seq(Readable(ClassSchema(c))) /\ ClassSerialize(c, x) = Written(ClassSchema(c), x)
        BY CasesAre, ClassWritten, ClassSerializeIs
    <2>2. t \in Nests
        BY <2>1, IsNest
    <2> HIDE DEF t
    <2> QED BY <2>2 DEF MetricReadable
<1>4. z \in Sane(Own(c))
    BY JoinedSane
<1>5. \A a : mutable(a, c) = Full(d, c, r, y, H) => ReadEntry(a, t) = Full(d, c, r, z, H)
    BY SubReadBack
<1>6. SubWritten(c, x) = <<t>>
    BY DEF SubWritten
<1> HIDE DEF t, z, o, u, E
<1>7. ParseAll(s, Append(o, t)) = Full(d, c, r, z, H)
    <2>1. ParseAll(s, Append(o, t)) = ReadEntry(ParseAll(s, o), t)
        BY <1>2, <1>3, ParseOneMore DEF E
    <2> QED BY <1>5, <2>1 DEF o
<1>8. Append(o, t) = o \o <<t>> /\ Append(o, t) \in Seq(E)
    BY <1>2, <1>3, AppendIsConcat
<1>9. ParseAll(s, Append(o, t) \o u) = ParseAll(ParseAll(s, Append(o, t)), u)
    BY <1>2, <1>8, ParseBoth DEF E
<1>10. ParseAll(Full(d, c, r, z, H), u) = Full(ReadAll(Schema, d, u), c, r, z, H)
    BY <1>1, <1>4, ParseOwnFull
<1>11. ReadAll(Schema, d, u) = Joined(b, e)
    BY DEF u
<1>12. ParseAll(s, Append(o, t) \o u) = Full(Joined(b, e), c, r, z, H)
    BY <1>7, <1>9, <1>10, <1>11
<1>13. OwnWritten(e) \o SubWritten(c, x) \o e.unknown = Append(o, t) \o u
    BY <1>6, <1>8 DEF o, u
<1> QED BY <1>12, <1>13 DEF z

\* Into a metric that owns nothing ...
LEMMA ParseEmptyIs ==
    ASSUME NEW H, HeapOK(H), NEW b \in Named, NEW e \in Named
    PROVE  /\ ParseAll(Empty(b, H), OwnWritten(e) \o e.unknown) = Empty(Joined(b, e), H)
           /\ \A c \in Cases : \A x \in Sane(Own(c)) :
                ParseAll(Empty(b, H), OwnWritten(e) \o SubWritten(c, x) \o e.unknown)
                  = Full(Joined(b, e), c, FreeAddress(H), x, H)
<1>1. ParseAll(Empty(b, H), OwnWritten(e) \o e.unknown) = Empty(Joined(b, e), H)
    <2> DEFINE w == OwnWritten(e) \o e.unknown
    <2>1. w \in Seq(Readable(Schema)) /\ ReadAll(Schema, b, w) = Joined(b, e)
        BY OwnReadBack
    <2> HIDE DEF w
    <2>2. ParseAll(Empty(b, H), w) = Empty(ReadAll(Schema, b, w), H)
        BY <2>1, ParseOwnEmpty
    <2> QED BY <2>1, <2>2 DEF w
<1>2. ASSUME NEW c \in Cases, NEW x \in Sane(Own(c))
      PROVE  ParseAll(Empty(b, H), OwnWritten(e) \o SubWritten(c, x) \o e.unknown)
               = Full(Joined(b, e), c, FreeAddress(H), x, H)
    <2> DEFINE o == OwnWritten(e)
               d == ReadAll(Schema, b, o)
               a == FreeAddress(H)
               new == Fresh(ClassSchema(c))
               s == Empty(b, H)
    <2>1. d \in Named /\ o \in Seq(Readable(Schema)) /\ ReadAll(Schema, d, e.unknown) = Joined(b, e)
        BY OwnReadBack
    <2>2. a \in Unused(H) /\ new \in Sane(Own(c)) /\ Joined(new, x) = x
        BY FreeAddressUnused, FreshNamed, JoinedFresh DEF Own
    <2>3. s \in States(H)
        BY EmptyState
    <2> HIDE DEF o
    <2>4. ParseAll(s, o) = Empty(d, H)
        BY <2>1, ParseOwnEmpty
    <2>5. Empty(d, H) \in States(H)
        BY <2>1, EmptyState
    <2>6. mutable(Empty(d, H), c) = Full(d, c, a, new, H)
        BY <2>2, MutableIs
    <2> HIDE DEF d, a, new, s
    <2>7. ParseAll(s, OwnWritten(e) \o SubWritten(c, x) \o e.unknown) = Full(Joined(b, e), c, a, Joined(new, x), H)
        BY <2>1, <2>2, <2>3, <2>4, <2>5, <2>6, ParseOwnSubEmpty DEF o
    <2> QED BY <2>2, <2>7 DEF s, a
<1> QED BY <1>1, <1>2

\* ... or into one that owns a nested message.
LEMMA ParseFullIs ==
    ASSUME NEW H, HeapOK(H), NEW b \in Named, NEW e \in Named,
           NEW k \in Cases, NEW p \in Unused(H), NEW z \in Sane(Own(k))
    PROVE  /\ ParseAll(Full(b, k, p, z, H), OwnWritten(e) \o e.unknown) = Full(Joined(b, e), k, p, z, H)
           /\ \A c \in Cases : \A x \in Sane(Own(c)) :
                ParseAll(Full(b, k, p, z, H), OwnWritten(e) \o SubWritten(c, x) \o e.unknown)
                  = IF c = k THEN Full(Joined(b, e), c, p, Joined(z, x), H)
                    ELSE Full(Joined(b, e), c, FreeAddress(H), x, H)
<1> DEFINE s == Full(b, k, p, z, H)
<1>1. ParseAll(s, OwnWritten(e) \o e.unknown) = Full(Joined(b, e), k, p, z, H)
    <2> DEFINE w == OwnWritten(e) \o e.unknown
    <2>1. w \in Seq(Readable(Schema)) /\ ReadAll(Schema, b, w) = Joined(b, e)
        BY OwnReadBack
    <2> HIDE DEF w
    <2>2. ParseAll(s, w) = Full(ReadAll(Schema, b, w), k, p, z, H)
        BY <2>1, ParseOwnFull
    <2> QED BY <2>1, <2>2 DEF w
<1>2. ASSUME NEW c \in Cases, NEW x \in Sane(Own(c))
      PROVE  ParseAll(s, OwnWritten(e) \o SubWritten(c, x) \o e.unknown)
               = IF c = k THEN Full(Joined(b, e), c, p, Joined(z, x), H)
                 ELSE Full(Joined(b, e), c, FreeAddress(H), x, H)
    <2> DEFINE o == OwnWritten(e)
               d == ReadAll(Schema, b, o)
               a == FreeAddress(H)
               new == Fresh(ClassSchema(c))
               f == Full(d, k, p, z, H)
    <2>1. d \in Named /\ o \in Seq(Readable(Schema)) /\ ReadAll(Schema, d, e.unknown) = Joined(b, e)
        BY OwnReadBack
    <2>2. a \in Unused(H) /\ new \in Sane(Own(c)) /\ Joined(new, x) = x
        BY FreeAddressUnused, FreshNamed, JoinedFresh DEF Own
    <2>3. s \in States(H)
        BY FullState
    <2> HIDE DEF o
    <2>4. ParseAll(s, o) = f
        BY <2>1, ParseOwnFull
    <2>5. f \in States(H)
        BY <2>1, FullState
    <2>6. c = k => mutable(f, c) = Full(d, c, p, z, H)
        BY MutableIs
    <2>7. c # k => mutable(f, c) = Full(d, c, a, new, H)
        BY MutableIs
    <2>8. c = k => z \in Sane(Own(c))
        OBVIOUS
    <2> HIDE DEF d, a, new, s, f
    <2>9. CASE c = k
        <3>1. mutable(f, c) = Full(d, c, p, z, H) /\ z \in Sane(Own(c))
            BY <2>6, <2>8, <2>9
        <3>2. ParseAll(s, OwnWritten(e) \o SubWritten(c, x) \o e.unknown) = Full(Joined(b, e), c, p, Joined(z, x), H)
            BY <2>1, <2>3, <2>4, <2>5, <3>1, ParseOwnSubEmpty DEF o
        <3> QED BY <2>9, <3>2
    <2>10. CASE c # k
        <3>1. mutable(f, c) = Full(d, c, a, new, H)
            BY <2>7, <2>10
        <3>2. ParseAll(s, OwnWritten(e) \o SubWritten(c, x) \o e.unknown) = Full(Joined(b, e), c, a, Joined(new, x), H)
            BY <2>1, <2>2, <2>3, <2>4, <2>5, <3>1, ParseOwnSubEmpty DEF o
        <3> QED BY <2>2, <2>10, <3>2 DEF a
    <2> QED BY <2>9, <2>10
<1> QED BY <1>1, <1>2

\* What is written as a metric is read as a whole.
LEMMA MetricGoesOn == \A e \in MetricReadable : ~EndsMessage(e)
<1>1. \A e \in Readable(Schema) : ~EndsMessage(e)
    BY MetricSchema, ReadableGoesOn
<1>2. ASSUME NEW e \in Nests PROVE ~EndsMessage(e)
    <2>1. PICK c \in Cases : \E w \in Seq(Readable(ClassSchema(c))) : e = Nested(TagOf[c], w)
        BY NestIs
    <2>2. e.tag = TagOf[c]
        BY <2>1 DEF Nested
    <2>3. e.tag \in {18, 26, 34}
        BY <2>2, TagOfIs
    <2> QED BY <2>3 DEF EndsMessage
<1> QED BY <1>1, <1>2 DEF MetricReadable

\* What a metric is written as is parsed to its end.
LEMMA InternalParseIs ==
    ASSUME NEW s, NEW w \in Seq(MetricReadable)
    PROVE  InternalParse(s, w) = ParseAll(s, w)
<1>1. UpToEnd(w) = w
    BY MetricGoesOn, UpToEndAll
<1> QED BY <1>1 DEF InternalParse, ParseAll

\* _InternalParse of what _InternalSerialize writes is MergeFrom, heap and all.
LEMMA ParseMerges ==
    ASSUME NEW H, HeapOK(H), NEW s \in States(H), NEW m, Metric(m, H)
    PROVE  /\ InternalSerialize(m, H) \in Seq(MetricReadable)
           /\ ParseAll(s, InternalSerialize(m, H)) = MergeFrom(s, m)
<1>0. InternalSerialize(m, H) \in Seq(MetricReadable)
    BY SerializeReads
<1>1. ASSUME NEW e \in Named, m = Whole(e, NotSet, Null)
      PROVE  ParseAll(s, InternalSerialize(m, H)) = MergeFrom(s, m)
    <2>1. InternalSerialize(m, H) = OwnWritten(e) \o e.unknown
        BY <1>1, SerializeEmpty
    <2>2. ASSUME NEW b \in Named, s = Empty(b, H) PROVE ParseAll(s, InternalSerialize(m, H)) = MergeFrom(s, m)
        <3>1. MergeFrom(Empty(b, H), Whole(e, NotSet, Null)) = Empty(Joined(b, e), H)
            BY MergeEmpty
        <3>2. ParseAll(Empty(b, H), OwnWritten(e) \o e.unknown) = Empty(Joined(b, e), H)
            BY ParseEmptyIs
        <3> QED BY <1>1, <2>1, <2>2, <3>1, <3>2
    <2>3. ASSUME NEW b \in Named, NEW c \in Cases, NEW p \in Unused(H), NEW x \in Sane(Own(c)), s = Full(b, c, p, x, H)
          PROVE  ParseAll(s, InternalSerialize(m, H)) = MergeFrom(s, m)
        <3>1. MergeFrom(Full(b, c, p, x, H), Whole(e, NotSet, Null)) = Full(Joined(b, e), c, p, x, H)
            BY MergeFull
        <3>2. ParseAll(Full(b, c, p, x, H), OwnWritten(e) \o e.unknown) = Full(Joined(b, e), c, p, x, H)
            BY ParseFullIs
        <3> QED BY <1>1, <2>1, <2>3, <3>1, <3>2
    <2> QED BY <2>2, <2>3, StateIs
<1>2. ASSUME NEW e \in Named, NEW k \in Cases, NEW q \in DOMAIN H, m = Whole(e, k, q), H[q] \in Sane(Own(k))
      PROVE  ParseAll(s, InternalSerialize(m, H)) = MergeFrom(s, m)
    <2> DEFINE y == H[q]
               w == OwnWritten(e) \o SubWritten(k, y) \o e.unknown
    <2>1. InternalSerialize(m, H) = w
        BY <1>2, SerializeFull
    <2>2. ASSUME NEW b \in Named, s = Empty(b, H) PROVE ParseAll(s, InternalSerialize(m, H)) = MergeFrom(s, m)
        <3>1. MergeFrom(Empty(b, H), Whole(e, k, q)) = Full(Joined(b, e), k, FreeAddress(H), y, H)
            BY <1>2, MergeEmpty
        <3>2. y \in Sane(Own(k))
            BY <1>2
        <3> HIDE DEF y
        <3>3. ParseAll(Empty(b, H), w) = Full(Joined(b, e), k, FreeAddress(H), y, H)
            BY <3>2, ParseEmptyIs
        <3> QED BY <1>2, <2>1, <2>2, <3>1, <3>3
    <2>3. ASSUME NEW b \in Named, NEW c \in Cases, NEW p \in Unused(H), NEW x \in Sane(Own(c)), s = Full(b, c, p, x, H)
          PROVE  ParseAll(s, InternalSerialize(m, H)) = MergeFrom(s, m)
        <3>1. MergeFrom(Full(b, c, p, x, H), Whole(e, k, q))
                  = IF k = c THEN Full(Joined(b, e), k, p, Joined(x, y), H)
                    ELSE Full(Joined(b, e), k, FreeAddress(H), y, H)
            BY <1>2, MergeFull
        <3>2. y \in Sane(Own(k))
            BY <1>2
        <3> HIDE DEF y
        <3>3. ParseAll(Full(b, c, p, x, H), w)
                  = IF k = c THEN Full(Joined(b, e), k, p, Joined(x, y), H)
                    ELSE Full(Joined(b, e), k, FreeAddress(H), y, H)
            BY <3>2, ParseFullIs
        <3> HIDE DEF w
        <3> QED BY <1>2, <2>1, <2>3, <3>1, <3>3
    <2> QED BY <2>2, <2>3, StateIs
<1> QED BY <1>0, <1>1, <1>2 DEF Metric

\* Two metrics written one after the other.
LEMMA ParseTwo ==
    ASSUME NEW H, HeapOK(H), NEW s \in States(H), NEW m, Metric(m, H), NEW n, Metric(n, H)
    PROVE  /\ InternalParse(s, InternalSerialize(m, H)) = MergeFrom(s, m)
           /\ InternalParse(s, InternalSerialize(m, H) \o InternalSerialize(n, H)) = MergeFrom(MergeFrom(s, m), n)
<1> DEFINE u == InternalSerialize(m, H)
           v == InternalSerialize(n, H)
<1>1. u \in Seq(MetricReadable) /\ ParseAll(s, u) = MergeFrom(s, m)
    BY ParseMerges
<1>2. MergeFrom(s, m) \in States(H)
    BY MergeKeeps
<1>3. v \in Seq(MetricReadable) /\ ParseAll(MergeFrom(s, m), v) = MergeFrom(MergeFrom(s, m), n)
    BY <1>2, ParseMerges
<1> HIDE DEF u, v
<1>4. u \o v \in Seq(MetricReadable)
    BY <1>1, <1>3, ConcatProperties
<1>5. ParseAll(s, u \o v) = ParseAll(ParseAll(s, u), v)
    BY <1>1, <1>3, ParseBoth
<1> QED BY <1>1, <1>3, <1>4, <1>5, InternalParseIs DEF u, v
-----------------------------------------------------------------------------
(* Written and read again *)

\* A message that starts blank and reads what another is written as is a copy
\* of that one; reading on merges what follows.  First the metrics.
LEMMA BlankMetric ==
    ASSUME MetricInv
    PROVE  Flat(Blank) = Empty(Fresh(Schema), heap)
<1>1. Blank = Whole(Fresh(Schema), NotSet, Null)
    BY KindIs, NewIs DEF Blank
<1> QED BY <1>1 DEF Flat, Empty

\* MergeFrom into a new metric is the copy constructor.
LEMMA MergeBlank ==
    ASSUME MetricInv, NEW m, Metric(m, heap)
    PROVE  MergeFrom(Empty(Fresh(Schema), heap), m) = Copy(m, heap)
<1> DEFINE z == Fresh(Schema)
<1>1. HeapOK(heap)
    BY DEF MetricInv
<1>2. z \in Named
    BY FreshNamed
<1>3. \A e \in Named : Joined(z, e) = e
    BY MetricSchema, JoinedFresh DEF Named
<1> HIDE DEF z
<1>4. ASSUME NEW e \in Named, m = Whole(e, NotSet, Null)
      PROVE  MergeFrom(Empty(z, heap), m) = Copy(m, heap)
    <2>1. MergeFrom(Empty(z, heap), Whole(e, NotSet, Null)) = Empty(Joined(z, e), heap)
        BY <1>1, <1>2, MergeEmpty
    <2>2. Copy(Whole(e, NotSet, Null), heap) = Empty(e, heap)
        BY <1>1, CopyIs
    <2> QED BY <1>3, <1>4, <2>1, <2>2
<1>5. ASSUME NEW e \in Named, NEW k \in Cases, NEW q \in DOMAIN heap, m = Whole(e, k, q), heap[q] \in Sane(Own(k))
      PROVE  MergeFrom(Empty(z, heap), m) = Copy(m, heap)
    <2>1. MergeFrom(Empty(z, heap), Whole(e, k, q)) = Full(Joined(z, e), k, FreeAddress(heap), heap[q], heap)
        BY <1>1, <1>2, <1>5, MergeEmpty
    <2>2. Copy(Whole(e, k, q), heap) = Full(e, k, FreeAddress(heap), heap[q], heap)
        BY <1>1, <1>5, CopyIs
    <2> QED BY <1>3, <1>5, <2>1, <2>2
<1> QED BY <1>4, <1>5 DEF Metric, z

\* So a metric is read as a copy, and what follows is merged into it.
LEMMA ParsedMetric ==
    ASSUME MetricInv, NEW x \in Mine, NEW y \in Mine
    PROVE  /\ Parsed(Flat(Blank), Serialized(With(x))) = Copied(msg[x])
           /\ Parsed(Flat(Blank), Serialized(With(x)) \o Serialized(With(y))) = Merged(Copied(msg[x]), msg[y])
<1> DEFINE m == msg[x]
           n == msg[y]
           s == Empty(Fresh(Schema), heap)
<1>1. IsMetric /\ HeapOK(heap) /\ Metric(m, heap) /\ Metric(n, heap)
    BY KindIs DEF MetricInv
<1>2. s \in States(heap)
    BY FreshNamed, EmptyState
<1>3. Flat(Blank) = s
    BY BlankMetric
<1>4. Serialized(With(x)) = InternalSerialize(m, heap) /\ Serialized(With(y)) = InternalSerialize(n, heap)
    BY <1>1, WithParts DEF Serialized
<1>5. MergeFrom(s, m) = Copy(m, heap)
    BY <1>1, MergeBlank
<1> HIDE DEF s, m, n
<1>6. /\ InternalParse(s, InternalSerialize(m, heap)) = MergeFrom(s, m)
      /\ InternalParse(s, InternalSerialize(m, heap) \o InternalSerialize(n, heap)) = MergeFrom(MergeFrom(s, m), n)
    BY <1>1, <1>2, ParseTwo
<1>7. Copied(m) = Copy(m, heap) /\ Merged(Copied(m), n) = MergeFrom(Copied(m), n)
    BY <1>1 DEF Copied, Merged
<1>8. \A w : Parsed(s, w) = InternalParse(s, w)
    BY <1>1 DEF Parsed
<1> QED BY <1>3, <1>4, <1>5, <1>6, <1>7, <1>8 DEF m, n

\* The other classes.
LEMMA ReadTwo ==
    ASSUME NEW schema, SchemaOK(schema), NEW to \in Sane(Names(schema)), NEW m \in Sane(Names(schema)),
           NEW n \in Sane(Names(schema))
    PROVE  ReadFields(schema, to, Written(schema, m) \o Written(schema, n)) = Joined(Joined(to, m), n)
<1> DEFINE R == Readable(schema)
           u == Written(schema, m)
           v == Written(schema, n)
           j == Joined(to, m)
<1>1. u \in Seq(R) /\ v \in Seq(R)
    BY Sanely, WrittenReads
<1>2. ReadAll(schema, to, u) = j /\ j \in Sane(Names(schema))
    BY ReadWritten, JoinedSane
<1> HIDE DEF j
<1>3. ReadAll(schema, j, v) = Joined(j, n)
    BY <1>2, ReadWritten
<1>4. Closed(Sane(Names(schema)), schema, R)
    BY ReadFieldSane
<1> HIDE DEF u, v, R
<1>5. ReadAll(schema, to, u \o v) = ReadAll(schema, ReadAll(schema, to, u), v)
    BY <1>1, <1>4, ReadConcat
<1>6. u \o v \in Seq(R)
    BY <1>1, ConcatProperties
<1>7. ReadFields(schema, to, u \o v) = ReadAll(schema, to, u \o v)
    BY <1>6, ReadFieldsIs DEF R
<1> QED BY <1>2, <1>3, <1>5, <1>7 DEF u, v, j

\* The same of the other classes.
LEMMA ParsedFlat ==
    ASSUME FlatInv, NEW x \in Mine, NEW y \in Mine
    PROVE  /\ Parsed(Flat(Blank), Serialized(With(x))) = Copied(msg[x])
           /\ Parsed(Flat(Blank), Serialized(With(x)) \o Serialized(With(y))) = Merged(Copied(msg[x]), msg[y])
<1> DEFINE m == msg[x]
           n == msg[y]
           schema == ClassSchema(kind)
           z == Fresh(schema)
           u == Written(schema, m)
           v == Written(schema, n)
<1>1. ~IsMetric /\ kind \in FlatClasses /\ m \in Sane(Own(kind)) /\ n \in Sane(Own(kind))
    BY KindIs, FlatMsg
<1>2. SchemaOK(schema) /\ Own(kind) = Names(schema)
    BY <1>1, Schemas DEF Own
<1>3. z \in Sane(Names(schema))
    BY FreshSane
<1>4. Joined(z, m) = m
    BY <1>1, <1>2, JoinedFresh
<1>5. Blank = z
    BY <1>1, ClassNewIs DEF Blank
<1>6. Serialized(With(x)) = u /\ Serialized(With(y)) = v
    BY <1>1, WithParts, ClassSerializeIs DEF Serialized
<1> HIDE DEF m, n, z, schema
<1>7. ReadFields(schema, z, u) = m
    BY <1>1, <1>2, <1>3, <1>4, ReadBack
<1>8. ReadFields(schema, z, u \o v) = Joined(m, n)
    BY <1>1, <1>2, <1>3, <1>4, ReadTwo
<1> HIDE DEF u, v
<1>9. \A k, l : [Flat(k) EXCEPT !.m = l] = Flat(l)
    BY DEF Flat
<1>10. \A w : Parsed(Flat(z), w) = Flat(ReadFields(schema, z, w))
    <2> TAKE w
    <2>1. Parsed(Flat(z), w) = [Flat(z) EXCEPT !.m = ClassParse(kind, Flat(z).m, w)]
        BY <1>1 DEF Parsed
    <2>2. Flat(z).m = z
        BY FlatParts
    <2>3. ClassParse(kind, z, w) = ReadFields(schema, z, w)
        BY <1>1, ClassParseIs DEF schema
    <2> QED BY <1>9, <2>1, <2>2, <2>3
<1>11. Copied(m) = Flat(m)
    BY <1>1, ClassCopyIs DEF Copied
<1>12. Merged(Flat(m), n) = Flat(Joined(m, n))
    <2>1. Merged(Flat(m), n) = [Flat(m) EXCEPT !.m = ClassMerge(kind, Flat(m).m, n)]
        BY <1>1 DEF Merged
    <2>2. Flat(m).m = m
        BY FlatParts
    <2>3. ClassMerge(kind, m, n) = Joined(m, n)
        BY <1>1, ClassMergeIs
    <2> QED BY <1>9, <2>1, <2>2, <2>3
<1> QED BY <1>5, <1>6, <1>7, <1>8, <1>10, <1>11, <1>12 DEF m, n

\* And so of all.
LEMMA ParsedIs ==
    ASSUME Inv, NEW x \in Mine, NEW y \in Mine
    PROVE  /\ Parsed(Flat(Blank), Serialized(With(x))) = Copied(msg[x])
           /\ Parsed(Flat(Blank), Serialized(With(x)) \o Serialized(With(y))) = Merged(Copied(msg[x]), msg[y])
BY ParsedFlat, ParsedMetric DEF Inv

\* Written and read, a message is as it was.
LEMMA InvRoundTrip ==
    ASSUME Inv
    PROVE  RoundTrip
<1> SUFFICES ASSUME NEW x \in Mine
             PROVE  Value(Parsed(Flat(Blank), Serialized(With(x)))) = Value(With(x))
    BY DEF RoundTrip
<1>1. Other(x) \in Mine /\ Other(Other(x)) = x
    BY Others
<1>2. Value(Copied(msg[Other(Other(x))])) = Value(With(Other(Other(x))))
    BY <1>1, InvCopy DEF CopyIsEqual, IsCopy
<1> QED BY <1>1, <1>2, ParsedIs

\* _InternalParse makes of what _InternalSerialize wrote the message that was
\* written, fields set to their default and unknown fields included.
THEOREM RoundTripProved == Spec => []RoundTrip
BY MessageInvariant, InvRoundTrip, PTL

\* Two messages written one after the other are read as the merged one.
LEMMA InvConcat ==
    ASSUME Inv
    PROVE  ConcatMerges
<1> SUFFICES ASSUME NEW x \in Mine
             PROVE  Parsed(Flat(Blank), Serialized(With(x)) \o Serialized(With(Other(x))))
                      = Merged(Copied(msg[x]), msg[Other(x)])
    BY DEF ConcatMerges
<1>1. Other(x) \in Mine
    BY Others
<1> QED BY <1>1, ParsedIs

\* Parsing the bytes of two messages one after the other is MergeFrom, whatever
\* the cases of their oneofs are.
THEOREM ConcatMergesProved == Spec => []ConcatMerges
BY MessageInvariant, InvConcat, PTL
-----------------------------------------------------------------------------
(* The size of what is written *)

\* The sizes of the elements of a sequence, added up.
SumOf(g, w) == Through(LAMBDA n, e : n + g[e], 0, w)

SumRun(f, g, u) ==
    /\ f \in [0..Len(u) -> Nat]
    /\ f[0] = 0
    /\ \A i \in 1..Len(u) : f[i] = f[i - 1] + g[u[i]]
    /\ f[Len(u)] = SumOf(g, u)

\* Every sum is made one element after the other.
LEMMA SumUnroll ==
    ASSUME NEW E, NEW g \in [E -> Nat], NEW u \in Seq(E)
    PROVE  \E f : SumRun(f, g, u)
<1> DEFINE n == Len(u)
           F(f) == [i \in 0..n |-> IF i = 0 THEN 0 ELSE f[i - 1] + g[u[i]]]
           P(f) == f = F(f)
           after == CHOOSE f : P(f)
           step == [i \in 1..n |-> [x \in Nat |-> x + g[u[i]]]]
<1>1. n \in Nat /\ \A i \in 1..n : g[u[i]] \in Nat
    OBVIOUS
<1>2. step \in [1..n -> [Nat -> Nat]]
    <2> HIDE DEF n
    <2> QED BY <1>1
<1>3. PICK r \in [0..n -> Nat] : IsRun(r, 0, n, step)
    <2> HIDE DEF step, n
    <2> QED BY <1>1, <1>2, Runs
<1>4. P(r)
    <2>1. ASSUME NEW i \in 0..n PROVE r[i] = IF i = 0 THEN 0 ELSE r[i - 1] + g[u[i]]
        <3>1. CASE i = 0
            BY <1>3, <3>1 DEF IsRun
        <3>2. CASE i # 0
            <4>1. i \in 1..n /\ i - 1 \in 0..n
                BY <1>1, <3>2
            <4>2. r[i - 1] \in Nat
                BY <4>1
            <4>3. r[i] = step[i][r[i - 1]]
                BY <1>3, <3>2 DEF IsRun
            <4>4. step[i][r[i - 1]] = r[i - 1] + g[u[i]]
                BY <4>1, <4>2
            <4> QED BY <3>2, <4>3, <4>4
        <3> QED BY <3>1, <3>2
    <2> QED BY <1>3, <2>1 DEF IsRun
<1>5. P(after)
    <2> HIDE DEF P
    <2> QED BY <1>4
<1>6. after[n] = SumOf(g, u)
    BY DEF SumOf, Through
<1> HIDE DEF after
<1>7. /\ after[0] = 0
      /\ \A i \in 1..n : after[i] = after[i - 1] + g[u[i]]
      /\ DOMAIN after = 0..n
    BY <1>1, <1>5
<1>8. \A i \in 0..n : after[i] \in Nat
    <2>1. \A i \in 1..n : after[i - 1] \in Nat => after[i] \in Nat
        <3> SUFFICES ASSUME NEW i \in 1..n, after[i - 1] \in Nat PROVE after[i] \in Nat
            OBVIOUS
        <3>1. after[i] = after[i - 1] + g[u[i]] /\ g[u[i]] \in Nat
            BY <1>1, <1>7
        <3> QED BY <3>1
    <2>2. after[0] \in Nat
        BY <1>7
    <2> DEFINE T == Nat
    <2> HIDE DEF n, T
    <2>3. \A i \in 0..n : after[i] \in T
        BY <1>1, <2>1, <2>2, Stays DEF T
    <2> QED BY <2>3 DEF T
<1>9. after \in [0..n -> Nat]
    BY <1>5, <1>8
<1>10. SumRun(after, g, u)
    BY <1>6, <1>7, <1>9 DEF SumRun
<1> QED BY <1>10

\* Nothing, one element more, one sequence after another.
LEMMA SumNil == \A g : SumOf(g, <<>>) = 0
<1> TAKE g
<1> DEFINE F(f) == [i \in 0..0 |-> IF i = 0 THEN 0 ELSE f[i - 1] + g[<<>>[i]]]
           z == [i \in 0..0 |-> 0]
           after == CHOOSE f : f = F(f)
<1>1. z = F(z)
    OBVIOUS
<1>2. after = F(after)
    <2> HIDE DEF F, z
    <2> QED BY <1>1
<1>3. after[0] = 0
    <2> HIDE DEF after
    <2> QED BY <1>2
<1> QED BY <1>3 DEF SumOf, Through

\* A sum of sizes is a size.
LEMMA SumNat ==
    ASSUME NEW E, NEW g \in [E -> Nat], NEW u \in Seq(E)
    PROVE  SumOf(g, u) \in Nat
<1>1. PICK f : SumRun(f, g, u)
    BY SumUnroll
<1> QED BY <1>1 DEF SumRun

\* One element more.
LEMMA SumSnoc ==
    ASSUME NEW E, NEW g \in [E -> Nat], NEW u \in Seq(E), NEW e \in E
    PROVE  SumOf(g, Append(u, e)) = SumOf(g, u) + g[e]
<1> DEFINE n == Len(u)
           v == Append(u, e)
<1>1. n \in Nat /\ v \in Seq(E) /\ Len(v) = n + 1 /\ v[n + 1] = e /\ \A i \in 1..n : v[i] = u[i]
    OBVIOUS
<1> HIDE DEF v
<1>2. PICK f : SumRun(f, g, u)
    BY SumUnroll
<1>3. PICK h : SumRun(h, g, v)
    BY <1>1, SumUnroll
<1>4. /\ f[0] = 0 /\ \A i \in 1..n : f[i] = f[i - 1] + g[u[i]]
      /\ f[n] = SumOf(g, u)
    BY <1>1, <1>2 DEF SumRun
<1>5. /\ h[0] = 0 /\ \A i \in 1..(n + 1) : h[i] = h[i - 1] + g[v[i]]
      /\ h[n + 1] = SumOf(g, v)
    BY <1>1, <1>3 DEF SumRun
<1> HIDE DEF n
<1>6. \A i \in 1..n : f[i - 1] = h[i - 1] => f[i] = h[i]
    <2> SUFFICES ASSUME NEW i \in 1..n, f[i - 1] = h[i - 1] PROVE f[i] = h[i]
        OBVIOUS
    <2>1. i \in 1..(n + 1) /\ v[i] = u[i]
        BY <1>1
    <2>2. f[i] = f[i - 1] + g[u[i]] /\ h[i] = h[i - 1] + g[v[i]]
        BY <1>4, <1>5, <2>1
    <2> QED BY <2>1, <2>2
<1>7. f[n] = h[n]
    <2>1. f[0] = h[0]
        BY <1>4, <1>5
    <2> QED BY <1>1, <1>6, <2>1, Agree
<1>8. h[n + 1] = h[n] + g[e]
    <2>1. n + 1 \in 1..(n + 1) /\ n + 1 - 1 = n
        BY <1>1
    <2> QED BY <1>1, <1>5, <2>1
<1> QED BY <1>4, <1>5, <1>7, <1>8 DEF v

\* One sequence after another.
LEMMA SumConcat ==
    ASSUME NEW E, NEW g \in [E -> Nat], NEW u \in Seq(E), NEW v \in Seq(E)
    PROVE  SumOf(g, u \o v) = SumOf(g, u) + SumOf(g, v)
<1> DEFINE S == {k \in 0..Len(v) : SumOf(g, u \o First(v, k)) = SumOf(g, u) + SumOf(g, First(v, k))}
           n == Len(v)
           a == SumOf(g, u)
           nil == <<>>
<1>0. n \in Nat /\ First(v, 0) = nil /\ First(v, n) = v
    BY FirstEnds
<1>a. a \in Nat
    BY SumNat
<1>b. \A x \in Seq(E) : \A d \in E : SumOf(g, Append(x, d)) = SumOf(g, x) + g[d]
    BY SumSnoc
<1>c. \A x \in Seq(E) : SumOf(g, x) \in Nat
    BY SumNat
<1>d. \A y \in Seq(E) : \A d \in E : u \o Append(y, d) = Append(u \o y, d)
    BY ConcatSnoc
<1>1. 0 \in S
    <2>1. u \o nil = u
        BY ConcatEmptySeq
    <2>2. SumOf(g, nil) = 0
        BY SumNil
    <2> HIDE DEF a, nil
    <2>a. SumOf(g, u \o First(v, 0)) = a /\ SumOf(g, First(v, 0)) = 0
        BY <1>0, <2>1, <2>2 DEF a
    <2>3. SumOf(g, u \o First(v, 0)) = a + SumOf(g, First(v, 0))
        BY <1>a, <2>a
    <2> QED BY <1>0, <2>3 DEF a
<1>2. ASSUME NEW k \in 1..n, k - 1 \in S PROVE k \in S
    <2> DEFINE f == First(v, k - 1)
               e == v[k]
    <2>1. First(v, k) = Append(f, e) /\ f \in Seq(E) /\ e \in E
        BY FirstSnoc
    <2>2. SumOf(g, u \o f) = a + SumOf(g, f)
        BY <1>2
    <2> HIDE DEF f, e, a
    <2>4. u \o f \in Seq(E)
        BY <2>1, ConcatProperties
    <2>5. u \o Append(f, e) = Append(u \o f, e)
        BY <1>d, <2>1
    <2>6. SumOf(g, Append(u \o f, e)) = SumOf(g, u \o f) + g[e]
        BY <1>b, <2>1, <2>4
    <2>7. SumOf(g, Append(f, e)) = SumOf(g, f) + g[e]
        BY <1>b, <2>1
    <2>8. g[e] \in Nat /\ SumOf(g, f) \in Nat
        BY <1>c, <2>1
    <2>9. SumOf(g, u \o First(v, k)) = a + SumOf(g, First(v, k))
        BY <1>a, <2>1, <2>2, <2>5, <2>6, <2>7, <2>8
    <2>10. k \in 0..n
        BY <1>2
    <2> QED BY <2>9, <2>10 DEF a
<1>3. n \in S
    <2>1. 0..n \subseteq S
        <3> HIDE DEF S, n
        <3> QED BY <1>0, <1>1, <1>2, Induct
    <2> QED BY <1>0, <2>1
<1>4. SumOf(g, u \o First(v, n)) = a + SumOf(g, First(v, n))
    BY <1>3
<1> HIDE DEF n, a
<1> QED BY <1>0, <1>4 DEF a

\* The size of one entry, nested or not.
Bytes(e) == IF e.sub = <<>> THEN FlatSize(e) ELSE 1 + LengthDelimited(FlatSizes(e.sub))

\* WireSize and FlatSizes are such sums.
LEMMA WireIsSum ==
    ASSUME NEW E, NEW g, \A e \in E : g[e] = Bytes(e), NEW w \in Seq(E)
    PROVE  WireSize(w) = SumOf(g, w)
<1> DEFINE n == Len(w)
<1>1. \A f : [i \in 0..n |-> IF i = 0 THEN 0 ELSE f[i - 1] + Bytes(w[i])]
             = [i \in 0..n |-> IF i = 0 THEN 0 ELSE f[i - 1] + g[w[i]]]
    OBVIOUS
<1>2. (CHOOSE f : f = [i \in 0..n |-> IF i = 0 THEN 0 ELSE f[i - 1] + Bytes(w[i])])
        = (CHOOSE f : f = [i \in 0..n |-> IF i = 0 THEN 0 ELSE f[i - 1] + g[w[i]]])
    BY <1>1
<1> QED BY <1>2 DEF WireSize, SumOf, Through, Bytes

\* FlatSizes is a sum of sizes too.
LEMMA FlatIsSum ==
    ASSUME NEW E, NEW g, \A e \in E : g[e] = FlatSize(e), NEW w \in Seq(E)
    PROVE  FlatSizes(w) = SumOf(g, w)
<1> DEFINE n == Len(w)
<1>1. \A f : [i \in 0..n |-> IF i = 0 THEN 0 ELSE f[i - 1] + FlatSize(w[i])]
             = [i \in 0..n |-> IF i = 0 THEN 0 ELSE f[i - 1] + g[w[i]]]
    OBVIOUS
<1>2. (CHOOSE f : f = [i \in 0..n |-> IF i = 0 THEN 0 ELSE f[i - 1] + FlatSize(w[i])])
        = (CHOOSE f : f = [i \in 0..n |-> IF i = 0 THEN 0 ELSE f[i - 1] + g[w[i]]])
    BY <1>1
<1> QED BY <1>2 DEF FlatSizes, SumOf, Through

\* An entry without entries of its own: a number or a string.
Sized == [tag : {t \in 0..127 : t % 8 \in {0, 1, 2}}, v : Nat, sub : {<<>>}]

\* The size of a varint, and of what has its length in front.
LEMMA Lengths == \A n \in Nat : VarintSize(n) \in Nat /\ LengthDelimited(n) \in Nat
BY DEF VarintSize, LengthDelimited

\* Without entries of its own, an entry has the size of its value and its tag.
LEMMA SizedBytes ==
    ASSUME NEW e \in Sized
    PROVE  FlatSize(e) \in Nat /\ Bytes(e) = FlatSize(e)
<1>1. e.tag % 8 \in {0, 1, 2} /\ e.v \in Nat /\ e.sub = <<>>
    BY DEF Sized
<1>2. VarintSize(e.v) \in Nat /\ LengthDelimited(e.v) \in Nat
    BY <1>1, Lengths
<1>3. FlatSize(e) \in Nat
    BY <1>1, <1>2 DEF FlatSize
<1> QED BY <1>1, <1>3 DEF Bytes

\* An empty message takes nothing.
LEMMA WireNil == WireSize(<<>>) = 0 /\ FlatSizes(<<>>) = 0
<1> DEFINE g == [e \in Sized |-> FlatSize(e)]
           nil == <<>>
           E == Sized
<1>1. \A e \in E : g[e] = FlatSize(e) /\ g[e] = Bytes(e)
    BY SizedBytes
<1>2. nil \in Seq(E)
    OBVIOUS
<1>3. SumOf(g, nil) = 0
    BY SumNil
<1> HIDE DEF g, nil, E
<1>4. WireSize(nil) = SumOf(g, nil)
    BY <1>1, <1>2, WireIsSum
<1>5. FlatSizes(nil) = SumOf(g, nil)
    BY <1>1, <1>2, FlatIsSum
<1> QED BY <1>3, <1>4, <1>5 DEF nil

\* The sizes of sequences of entries that have a size.
LEMMA WireParts ==
    ASSUME NEW E, \A e \in E : Bytes(e) \in Nat
    PROVE  /\ \A u \in Seq(E) : WireSize(u) \in Nat
           /\ \A u \in Seq(E) : \A e \in E : WireSize(Append(u, e)) = WireSize(u) + Bytes(e)
           /\ \A u \in Seq(E) : \A v \in Seq(E) : WireSize(u \o v) = WireSize(u) + WireSize(v)
<1> DEFINE g == [e \in E |-> Bytes(e)]
<1>1. g \in [E -> Nat] /\ \A e \in E : g[e] = Bytes(e)
    OBVIOUS
<1> HIDE DEF g
<1>2. \A w \in Seq(E) : WireSize(w) = SumOf(g, w)
    BY <1>1, WireIsSum
<1>4. \A u \in Seq(E) : WireSize(u) \in Nat
    <2>1. \A u \in Seq(E) : SumOf(g, u) \in Nat
        BY <1>1, SumNat
    <2> QED BY <1>2, <2>1
<1>5. \A u \in Seq(E) : \A e \in E : WireSize(Append(u, e)) = WireSize(u) + Bytes(e)
    <2> TAKE u \in Seq(E)
    <2> TAKE e \in E
    <2>1. SumOf(g, Append(u, e)) = SumOf(g, u) + g[e]
        BY <1>1, SumSnoc
    <2>2. Append(u, e) \in Seq(E)
        OBVIOUS
    <2> QED BY <1>1, <1>2, <2>1, <2>2
<1>6. \A u \in Seq(E) : \A v \in Seq(E) : WireSize(u \o v) = WireSize(u) + WireSize(v)
    <2> TAKE u \in Seq(E)
    <2> TAKE v \in Seq(E)
    <2>1. SumOf(g, u \o v) = SumOf(g, u) + SumOf(g, v)
        BY <1>1, SumConcat
    <2>2. u \o v \in Seq(E)
        BY ConcatProperties
    <2> QED BY <1>2, <2>1, <2>2
<1> QED BY <1>4, <1>5, <1>6

\* Without nested messages it is the size that is counted for a nested message.
LEMMA SizedWire ==
    ASSUME NEW w \in Seq(Sized)
    PROVE  WireSize(w) = FlatSizes(w) /\ WireSize(w) \in Nat
<1> DEFINE g == [e \in Sized |-> FlatSize(e)]
           E == Sized
<1>1. \A e \in E : g[e] = FlatSize(e) /\ g[e] = Bytes(e) /\ Bytes(e) \in Nat
    BY SizedBytes
<1> HIDE DEF g, E
<1>2. w \in Seq(E)
    BY DEF E
<1>3. WireSize(w) = SumOf(g, w)
    BY <1>1, <1>2, WireIsSum
<1>4. FlatSizes(w) = SumOf(g, w)
    BY <1>1, <1>2, FlatIsSum
<1>5. WireSize(w) \in Nat
    BY <1>1, <1>2, WireParts
<1> QED BY <1>3, <1>4, <1>5

\* What the fields up to the k-th take.
FieldBytes(m, f) == IF f.name \in m.has THEN FlatSize(Entry(f.tag, m.val[f.name])) ELSE 0
BytesUpTo(m, schema, k) == WireSize(WriteAll(m, <<>>, Prefix(schema, k)))
SizedSchema(schema) == SchemaOK(schema) /\ \A t \in Tags(schema) : t % 8 \in {0, 1, 2}

\* The entries of a class, and the unknown one, are numbers and strings.
LEMMA SizedFields ==
    ASSUME NEW schema, SizedSchema(schema)
    PROVE  Fields(schema) \subseteq Sized /\ Foreign \in Sized /\ Readable(schema) \subseteq Sized
<1>1. \A t \in Tags(schema) : t \in 1..127 /\ t % 8 \in {0, 1, 2}
    BY TagsOf DEF SizedSchema
<1>2. Fields(schema) \subseteq Sized
    BY <1>1 DEF Fields, Sized
<1>3. Foreign \in Sized
    BY DEF Foreign, Entry, Sized
<1> QED BY <1>2, <1>3 DEF Readable

\* Without fields nothing is counted.
LEMMA BytesNone ==
    ASSUME NEW m, NEW schema
    PROVE  BytesUpTo(m, schema, 0) = 0
<1> DEFINE nil == <<>>
<1>1. Prefix(schema, 0) = nil
    BY SubSeqEmpty DEF Prefix
<1>2. WriteAll(m, nil, nil) = nil
    BY WriteNil
<1>3. WireSize(nil) = 0
    BY WireNil
<1>4. BytesUpTo(m, schema, 0) = WireSize(WriteAll(m, nil, Prefix(schema, 0)))
    BY DEF BytesUpTo
<1> HIDE DEF nil
<1> QED BY <1>1, <1>2, <1>3, <1>4

\* One field more.
LEMMA BytesMore ==
    ASSUME NEW schema, SizedSchema(schema), NEW m \in Sane(Names(schema)), NEW k \in 1..Len(schema)
    PROVE  /\ BytesUpTo(m, schema, k) = BytesUpTo(m, schema, k - 1) + FieldBytes(m, schema[k])
           /\ BytesUpTo(m, schema, k - 1) \in Nat
<1> DEFINE T == Seq(Fields(schema))
           I == Range(schema)
           p == Prefix(schema, k - 1)
           f == schema[k]
           nil == <<>>
           w == WriteAll(m, nil, p)
           e == Entry(f.tag, m.val[f.name])
<1>0. SchemaOK(schema) /\ m.has \subseteq Names(schema) /\ m.val \in [Names(schema) -> Nat]
    BY Sanely DEF SizedSchema
<1>1. Prefix(schema, k) = Append(p, f) /\ p \in Seq(I) /\ f \in I
    BY <1>0, PrefixSnoc
<1>2. WriteClosed(T, m, I)
    BY <1>0, WriteStays
<1>3. nil \in T
    OBVIOUS
<1>4. Fields(schema) \subseteq Sized
    BY SizedFields
<1>5. f.name \in m.has => e \in Fields(schema)
    <2>1. f.name \in Names(schema) /\ f.tag \in Tags(schema)
        BY <1>0, NameOfField
    <2>2. m.val[f.name] \in Nat
        BY <1>0, <2>1
    <2> QED BY <2>1, <2>2 DEF Entry, Fields
<1>6. \A s \in T : \A u \in Seq(I) : \A d \in I :
         WriteAll(m, s, Append(u, d)) = WriteField(m, WriteAll(m, s, u), d)
    <2> HIDE DEF T, I
    <2> QED BY <1>2, WriteSnoc
<1> HIDE DEF nil, I, p, f
<1>7. w \in T
    <2> HIDE DEF w, T
    <2>1. PICK g : WriteRun(g, T, m, nil, p)
        BY <1>1, <1>2, <1>3, WriteUnroll
    <2>2. w = WriteAll(m, nil, p) /\ Len(p) \in Nat
        BY <1>1 DEF w
    <2> QED BY <2>1, <2>2 DEF WriteRun
<1>8. WriteAll(m, nil, Append(p, f)) = WriteField(m, w, f)
    <2> HIDE DEF T
    <2> QED BY <1>1, <1>3, <1>6
<1> HIDE DEF w
<1>9. w \in Seq(Sized)
    BY <1>4, <1>7, SeqMonotonic
<1>10. /\ \A u \in Seq(Sized) : WireSize(u) \in Nat
       /\ \A u \in Seq(Sized) : \A d \in Sized : WireSize(Append(u, d)) = WireSize(u) + Bytes(d)
    <2> DEFINE E == Sized
    <2>1. \A d \in E : Bytes(d) \in Nat
        BY SizedBytes
    <2> HIDE DEF E
    <2>2. /\ \A u \in Seq(E) : WireSize(u) \in Nat
          /\ \A u \in Seq(E) : \A d \in E : WireSize(Append(u, d)) = WireSize(u) + Bytes(d)
        BY <2>1, WireParts
    <2> QED BY <2>2 DEF E
<1>11. WireSize(WriteField(m, w, f)) = WireSize(w) + FieldBytes(m, f)
    <2>1. CASE f.name \in m.has
        <3>1. e \in Sized
            BY <1>4, <1>5, <2>1
        <3>2. WriteField(m, w, f) = Append(w, e) /\ FieldBytes(m, f) = FlatSize(e)
            BY <2>1 DEF WriteField, FieldBytes
        <3> HIDE DEF e
        <3>3. WireSize(Append(w, e)) = WireSize(w) + Bytes(e)
            BY <1>9, <1>10, <3>1
        <3>4. Bytes(e) = FlatSize(e)
            BY <3>1, SizedBytes
        <3> QED BY <3>2, <3>3, <3>4
    <2>2. CASE f.name \notin m.has
        <3>1. WriteField(m, w, f) = w /\ FieldBytes(m, f) = 0
            BY <2>2 DEF WriteField, FieldBytes
        <3>2. WireSize(w) \in Nat
            BY <1>9, <1>10
        <3> QED BY <3>1, <3>2
    <2> QED BY <2>1, <2>2
<1>12. BytesUpTo(m, schema, k - 1) = WireSize(w) /\ BytesUpTo(m, schema, k) = WireSize(WriteField(m, w, f))
    <2>1. BytesUpTo(m, schema, k - 1) = WireSize(WriteAll(m, nil, p))
        BY DEF BytesUpTo, nil, p
    <2>2. BytesUpTo(m, schema, k) = WireSize(WriteAll(m, nil, Prefix(schema, k)))
        BY DEF BytesUpTo, nil
    <2>3. w = WriteAll(m, nil, p)
        BY DEF w
    <2> QED BY <1>1, <1>8, <2>1, <2>2, <2>3
<1>13. WireSize(w) \in Nat
    BY <1>9, <1>10
<1> QED BY <1>11, <1>12, <1>13 DEF f

\* The unknown fields come last.
LEMMA BytesAll ==
    ASSUME NEW schema, SizedSchema(schema), NEW m \in Sane(Names(schema)), NEW n, n = Len(schema)
    PROVE  /\ WireSize(WriteAll(m, <<>>, schema)) = BytesUpTo(m, schema, n)
           /\ WireSize(WriteAll(m, <<>>, schema)) \in Nat
           /\ WireSize(Written(schema, m)) = BytesUpTo(m, schema, n) + FlatSizes(m.unknown)
           /\ WireSize(Written(schema, m)) = FlatSizes(Written(schema, m))
           /\ WireSize(m.unknown) = FlatSizes(m.unknown) /\ FlatSizes(m.unknown) \in Nat
<1> DEFINE nil == <<>>
           w == WriteAll(m, nil, schema)
           u == m.unknown
<1>1. SchemaOK(schema) /\ m.has \subseteq Names(schema) /\ m.val \in [Names(schema) -> Nat] /\ u \in Seq({Foreign})
    BY Sanely DEF SizedSchema
<1>2. w \in Seq(Fields(schema)) /\ Written(schema, m) = w \o u
    BY <1>1, WrittenReads
<1>3. Fields(schema) \subseteq Sized /\ {Foreign} \subseteq Sized
    BY SizedFields
<1> HIDE DEF w, u
<1>4. w \in Seq(Sized) /\ u \in Seq(Sized)
    BY <1>1, <1>2, <1>3, SeqMonotonic
<1>5. w \o u \in Seq(Sized)
    BY <1>4, ConcatProperties
<1>6. WireSize(w \o u) = WireSize(w) + WireSize(u)
    <2> DEFINE E == Sized
    <2>1. \A d \in E : Bytes(d) \in Nat
        BY SizedBytes
    <2> HIDE DEF E
    <2>2. \A x \in Seq(E) : \A y \in Seq(E) : WireSize(x \o y) = WireSize(x) + WireSize(y)
        BY <2>1, WireParts
    <2> QED BY <1>4, <2>2 DEF E
<1>7. WireSize(u) = FlatSizes(u) /\ WireSize(u) \in Nat
    BY <1>4, SizedWire
<1>8. WireSize(w \o u) = FlatSizes(w \o u)
    BY <1>5, SizedWire
<1>9. WireSize(w) \in Nat
    BY <1>4, SizedWire
<1>10. WireSize(w) = BytesUpTo(m, schema, n)
    <2>1. schema \in Seq([name : Names(schema), tag : 1..127])
        BY <1>1 DEF SchemaOK
    <2>2. Prefix(schema, n) = schema
        BY <2>1, SubSeqFull DEF Prefix
    <2>3. BytesUpTo(m, schema, n) = WireSize(WriteAll(m, nil, Prefix(schema, n)))
        BY DEF BytesUpTo
    <2> QED BY <2>2, <2>3 DEF w
<1> QED BY <1>2, <1>6, <1>7, <1>8, <1>9, <1>10 DEF w, u, nil

-----------------------------------------------------------------------------
(* ByteSizeLong counts what is written *)

\* What one field takes, by the kind of its tag.
LEMMA FieldKinds ==
    ASSUME NEW N, NEW m \in Sane(N), NEW f, f.name \in N
    PROVE  /\ f.tag % 8 = 0 => FieldBytes(m, f) = UIntSize(m, f.name) /\ UIntSize(m, f.name) \in Nat
           /\ f.tag % 8 = 1 => FieldBytes(m, f) = IF f.name \in m.has THEN 9 ELSE 0
           /\ f.tag % 8 = 2 => FieldBytes(m, f) = StringSize(m, f.name) /\ StringSize(m, f.name) \in Nat
<1> DEFINE n == f.name
           e == Entry(f.tag, m.val[n])
<1>1. m.val[n] \in Nat
    BY Sanely
<1>2. VarintSize(m.val[n]) \in Nat /\ LengthDelimited(m.val[n]) \in Nat
    BY <1>1, Lengths
<1>3. e.tag = f.tag /\ e.v = m.val[n]
    BY DEF Entry
<1>4. FieldBytes(m, f) = IF n \in m.has THEN FlatSize(e) ELSE 0
    BY DEF FieldBytes
<1> HIDE DEF e, n
<1>5. f.tag % 8 = 0 => FlatSize(e) = 1 + VarintSize(m.val[n])
    BY <1>3 DEF FlatSize
<1>6. f.tag % 8 = 1 => FlatSize(e) = 9
    BY <1>3 DEF FlatSize
<1>7. f.tag % 8 = 2 => FlatSize(e) = 1 + LengthDelimited(m.val[n])
    BY <1>3 DEF FlatSize
<1>8. f.tag % 8 = 0 => FieldBytes(m, f) = UIntSize(m, n) /\ UIntSize(m, n) \in Nat
    BY <1>2, <1>4, <1>5 DEF UIntSize
<1>9. f.tag % 8 = 2 => FieldBytes(m, f) = StringSize(m, n) /\ StringSize(m, n) \in Nat
    BY <1>2, <1>4, <1>7 DEF StringSize
<1> QED BY <1>4, <1>6, <1>8, <1>9 DEF n

\* How many fields of a group are set.
Ind(h, f) == IF f \in h THEN 1 ELSE 0

\* One more field of a group.
LEMMA CardMore ==
    ASSUME NEW h, NEW S, IsFiniteSet(S), NEW f, f \notin S
    PROVE  /\ Cardinality(h \cap (S \cup {f})) = Cardinality(h \cap S) + Ind(h, f)
           /\ Cardinality(h \cap S) \in Nat
           /\ IsFiniteSet(S \cup {f})
<1> DEFINE A == h \cap S
<1>1. IsFiniteSet(A)
    BY FS_Subset
<1>2. Cardinality(A) \in Nat /\ f \notin A
    BY <1>1, FS_CardinalityType
<1>3. IsFiniteSet(S \cup {f})
    BY FS_AddElement
<1>4. Cardinality(A \cup {f}) = Cardinality(A) + 1
    BY <1>1, <1>2, FS_AddElement
<1>5. f \in h => h \cap (S \cup {f}) = A \cup {f}
    OBVIOUS
<1>6. f \notin h => h \cap (S \cup {f}) = A
    OBVIOUS
<1> HIDE DEF A
<1>7. Cardinality(h \cap (S \cup {f})) = Cardinality(A) + Ind(h, f)
    BY <1>2, <1>4, <1>5, <1>6 DEF Ind
<1> QED BY <1>2, <1>3, <1>7 DEF A

\* The fields of a counter, and of what kind they are.
LEMMA CounterFields ==
    ASSUME NEW s, s = Counter!Schema
    PROVE  /\ SizedSchema(s) /\ Len(s) = 1 /\ 1..Len(s) = {1}
           /\ s[1].name = "count" /\ s[1].tag = 8
<1>1. Len(s) = 1
    BY DEF Counter!Schema, Counter!Field
<1>2. 1..1 = {1}
    OBVIOUS
<1>3. /\ s[1].name = "count" /\ s[1].tag = 8
    BY DEF Counter!Schema, Counter!Field
<1>4. SchemaOK(s)
    BY Schemas DEF FlatClasses, ClassSchema
<1>5. Tags(s) = {s[i].tag : i \in 1..1}
    BY <1>1 DEF Tags
<1>6. \A i \in 1..1 : s[i].tag % 8 \in {0, 1, 2}
    BY <1>2, <1>3
<1>7. \A t \in Tags(s) : t % 8 \in {0, 1, 2}
    BY <1>5, <1>6
<1> QED BY <1>1, <1>2, <1>3, <1>4, <1>7 DEF SizedSchema

\* What the fields of a counter take.
LEMMA CounterBytes ==
    ASSUME NEW s, s = Counter!Schema, NEW m \in Sane(Names(s))
    PROVE  /\ BytesUpTo(m, s, 1)
                = UIntSize(m, "count")
           /\ UIntSize(m, "count") \in Nat
<1>1. SizedSchema(s) /\ SchemaOK(s) /\ 1..Len(s) = {1}
    BY CounterFields DEF SizedSchema
<1>0. BytesUpTo(m, s, 0) = 0
    BY BytesNone
<1>a. \A k \in 1..Len(s) : s[k].name \in Names(s)
    BY DEF Names
<1>2. BytesUpTo(m, s, 1) = BytesUpTo(m, s, 0) + UIntSize(m, "count") /\ UIntSize(m, "count") \in Nat
    <2>1. s[1].name = "count" /\ s[1].tag % 8 = 0 /\ 1 \in 1..Len(s) /\ s[1].name \in Names(s)
        BY <1>1, <1>a, CounterFields
    <2>2. FieldBytes(m, s[1]) = UIntSize(m, "count") /\ UIntSize(m, "count") \in Nat
        BY <2>1, FieldKinds
    <2>3. BytesUpTo(m, s, 1) = BytesUpTo(m, s, 1 - 1) + FieldBytes(m, s[1])
        BY <1>1, <2>1, BytesMore
    <2> QED BY <2>2, <2>3
<1> QED BY <1>0, <1>2

\* The fields of a stopwatch.
LEMMA StopwatchFields ==
    ASSUME NEW s, s = Stopwatch!Schema
    PROVE  /\ SizedSchema(s) /\ Len(s) = 1 /\ 1..Len(s) = {1}
           /\ s[1].name = "runtime_ns" /\ s[1].tag = 8
<1>1. Len(s) = 1
    BY DEF Stopwatch!Schema, Stopwatch!Field
<1>2. 1..1 = {1}
    OBVIOUS
<1>3. /\ s[1].name = "runtime_ns" /\ s[1].tag = 8
    BY DEF Stopwatch!Schema, Stopwatch!Field
<1>4. SchemaOK(s)
    BY Schemas DEF FlatClasses, ClassSchema
<1>5. Tags(s) = {s[i].tag : i \in 1..1}
    BY <1>1 DEF Tags
<1>6. \A i \in 1..1 : s[i].tag % 8 \in {0, 1, 2}
    BY <1>2, <1>3
<1>7. \A t \in Tags(s) : t % 8 \in {0, 1, 2}
    BY <1>5, <1>6
<1> QED BY <1>1, <1>2, <1>3, <1>4, <1>7 DEF SizedSchema

\* What they take.
LEMMA StopwatchBytes ==
    ASSUME NEW s, s = Stopwatch!Schema, NEW m \in Sane(Names(s))
    PROVE  /\ BytesUpTo(m, s, 1)
                = UIntSize(m, "runtime_ns")
           /\ UIntSize(m, "runtime_ns") \in Nat
<1>1. SizedSchema(s) /\ SchemaOK(s) /\ 1..Len(s) = {1}
    BY StopwatchFields DEF SizedSchema
<1>0. BytesUpTo(m, s, 0) = 0
    BY BytesNone
<1>a. \A k \in 1..Len(s) : s[k].name \in Names(s)
    BY DEF Names
<1>2. BytesUpTo(m, s, 1) = BytesUpTo(m, s, 0) + UIntSize(m, "runtime_ns") /\ UIntSize(m, "runtime_ns") \in Nat
    <2>1. s[1].name = "runtime_ns" /\ s[1].tag % 8 = 0 /\ 1 \in 1..Len(s) /\ s[1].name \in Names(s)
        BY <1>1, <1>a, StopwatchFields
    <2>2. FieldBytes(m, s[1]) = UIntSize(m, "runtime_ns") /\ UIntSize(m, "runtime_ns") \in Nat
        BY <2>1, FieldKinds
    <2>3. BytesUpTo(m, s, 1) = BytesUpTo(m, s, 1 - 1) + FieldBytes(m, s[1])
        BY <1>1, <2>1, BytesMore
    <2> QED BY <2>2, <2>3
<1> QED BY <1>0, <1>2

\* The fields of a remote object.
LEMMA RemoteFields ==
    ASSUME NEW s, s = Remote!Schema
    PROVE  /\ SizedSchema(s) /\ Len(s) = 5 /\ 1..Len(s) = {1, 2, 3, 4, 5}
           /\ s[1].name = "id" /\ s[1].tag = 10
           /\ s[2].name = "raddr" /\ s[2].tag = 16
           /\ s[3].name = "size" /\ s[3].tag = 24
           /\ s[4].name = "lkey" /\ s[4].tag = 32
           /\ s[5].name = "rkey" /\ s[5].tag = 40
<1>1. Len(s) = 5
    BY DEF Remote!Schema, Remote!Field
<1>2. 1..5 = {1, 2, 3, 4, 5}
    OBVIOUS
<1>3. /\ s[1].name = "id" /\ s[1].tag = 10
      /\ s[2].name = "raddr" /\ s[2].tag = 16
      /\ s[3].name = "size" /\ s[3].tag = 24
      /\ s[4].name = "lkey" /\ s[4].tag = 32
      /\ s[5].name = "rkey" /\ s[5].tag = 40
    BY DEF Remote!Schema, Remote!Field
<1>4. SchemaOK(s)
    BY Schemas DEF FlatClasses, ClassSchema
<1>5. Tags(s) = {s[i].tag : i \in 1..5}
    BY <1>1 DEF Tags
<1>6. \A i \in 1..5 : s[i].tag % 8 \in {0, 1, 2}
    BY <1>2, <1>3
<1>7. \A t \in Tags(s) : t % 8 \in {0, 1, 2}
    BY <1>5, <1>6
<1> QED BY <1>1, <1>2, <1>3, <1>4, <1>7 DEF SizedSchema

\* What they take.
LEMMA RemoteBytes ==
    ASSUME NEW s, s = Remote!Schema, NEW m \in Sane(Names(s))
    PROVE  /\ BytesUpTo(m, s, 5)
                = StringSize(m, "id")
                    + UIntSize(m, "raddr")
                    + UIntSize(m, "size")
                    + UIntSize(m, "lkey")
                    + UIntSize(m, "rkey")
           /\ StringSize(m, "id") \in Nat
           /\ UIntSize(m, "raddr") \in Nat
           /\ UIntSize(m, "size") \in Nat
           /\ UIntSize(m, "lkey") \in Nat
           /\ UIntSize(m, "rkey") \in Nat
<1>1. SizedSchema(s) /\ SchemaOK(s) /\ 1..Len(s) = {1, 2, 3, 4, 5}
    BY RemoteFields DEF SizedSchema
<1>0. BytesUpTo(m, s, 0) = 0
    BY BytesNone
<1>a. \A k \in 1..Len(s) : s[k].name \in Names(s)
    BY DEF Names
<1>2. BytesUpTo(m, s, 1) = BytesUpTo(m, s, 0) + StringSize(m, "id") /\ StringSize(m, "id") \in Nat
    <2>1. s[1].name = "id" /\ s[1].tag % 8 = 2 /\ 1 \in 1..Len(s) /\ s[1].name \in Names(s)
        BY <1>1, <1>a, RemoteFields
    <2>2. FieldBytes(m, s[1]) = StringSize(m, "id") /\ StringSize(m, "id") \in Nat
        BY <2>1, FieldKinds
    <2>3. BytesUpTo(m, s, 1) = BytesUpTo(m, s, 1 - 1) + FieldBytes(m, s[1])
        BY <1>1, <2>1, BytesMore
    <2> QED BY <2>2, <2>3
<1>3. BytesUpTo(m, s, 2) = BytesUpTo(m, s, 1) + UIntSize(m, "raddr") /\ UIntSize(m, "raddr") \in Nat
    <2>1. s[2].name = "raddr" /\ s[2].tag % 8 = 0 /\ 2 \in 1..Len(s) /\ s[2].name \in Names(s)
        BY <1>1, <1>a, RemoteFields
    <2>2. FieldBytes(m, s[2]) = UIntSize(m, "raddr") /\ UIntSize(m, "raddr") \in Nat
        BY <2>1, FieldKinds
    <2>3. BytesUpTo(m, s, 2) = BytesUpTo(m, s, 2 - 1) + FieldBytes(m, s[2])
        BY <1>1, <2>1, BytesMore
    <2> QED BY <2>2, <2>3
<1>4. BytesUpTo(m, s, 3) = BytesUpTo(m, s, 2) + UIntSize(m, "size") /\ UIntSize(m, "size") \in Nat
    <2>1. s[3].name = "size" /\ s[3].tag % 8 = 0 /\ 3 \in 1..Len(s) /\ s[3].name \in Names(s)
        BY <1>1, <1>a, RemoteFields
    <2>2. FieldBytes(m, s[3]) = UIntSize(m, "size") /\ UIntSize(m, "size") \in Nat
        BY <2>1, FieldKinds
    <2>3. BytesUpTo(m, s, 3) = BytesUpTo(m, s, 3 - 1) + FieldBytes(m, s[3])
        BY <1>1, <2>1, BytesMore
    <2> QED BY <2>2, <2>3
<1>5. BytesUpTo(m, s, 4) = BytesUpTo(m, s, 3) + UIntSize(m, "lkey") /\ UIntSize(m, "lkey") \in Nat
    <2>1. s[4].name = "lkey" /\ s[4].tag % 8 = 0 /\ 4 \in 1..Len(s) /\ s[4].name \in Names(s)
        BY <1>1, <1>a, RemoteFields
    <2>2. FieldBytes(m, s[4]) = UIntSize(m, "lkey") /\ UIntSize(m, "lkey") \in Nat
        BY <2>1, FieldKinds
    <2>3. BytesUpTo(m, s, 4) = BytesUpTo(m, s, 4 - 1) + FieldBytes(m, s[4])
        BY <1>1, <2>1, BytesMore
    <2> QED BY <2>2, <2>3
<1>6. BytesUpTo(m, s, 5) = BytesUpTo(m, s, 4) + UIntSize(m, "rkey") /\ UIntSize(m, "rkey") \in Nat
    <2>1. s[5].name = "rkey" /\ s[5].tag % 8 = 0 /\ 5 \in 1..Len(s) /\ s[5].name \in Names(s)
        BY <1>1, <1>a, RemoteFields
    <2>2. FieldBytes(m, s[5]) = UIntSize(m, "rkey") /\ UIntSize(m, "rkey") \in Nat
        BY <2>1, FieldKinds
    <2>3. BytesUpTo(m, s, 5) = BytesUpTo(m, s, 5 - 1) + FieldBytes(m, s[5])
        BY <1>1, <2>1, BytesMore
    <2> QED BY <2>2, <2>3
<1> QED BY <1>0, <1>2, <1>3, <1>4, <1>5, <1>6

\* The fields of a summary.
LEMMA SummaryFields ==
    ASSUME NEW s, s = Summary!Schema
    PROVE  /\ SizedSchema(s) /\ Len(s) = 11 /\ 1..Len(s) = {1, 2, 3, 4, 5, 6, 7, 8, 9, 10, 11}
           /\ s[1].name = "units" /\ s[1].tag = 10
           /\ s[2].name = "mean" /\ s[2].tag = 17
           /\ s[3].name = "stddev" /\ s[3].tag = 25
           /\ s[4].name = "min" /\ s[4].tag = 33
           /\ s[5].name = "p50" /\ s[5].tag = 49
           /\ s[6].name = "p90" /\ s[6].tag = 57
           /\ s[7].name = "p95" /\ s[7].tag = 65
           /\ s[8].name = "p99" /\ s[8].tag = 73
           /\ s[9].name = "p999" /\ s[9].tag = 81
           /\ s[10].name = "max" /\ s[10].tag = 89
           /\ s[11].name = "count" /\ s[11].tag = 96
<1>1. Len(s) = 11
    BY DEF Summary!Schema, Summary!Field
<1>2. 1..11 = {1, 2, 3, 4, 5, 6, 7, 8, 9, 10, 11}
    OBVIOUS
<1>3. /\ s[1].name = "units" /\ s[1].tag = 10
      /\ s[2].name = "mean" /\ s[2].tag = 17
      /\ s[3].name = "stddev" /\ s[3].tag = 25
      /\ s[4].name = "min" /\ s[4].tag = 33
      /\ s[5].name = "p50" /\ s[5].tag = 49
      /\ s[6].name = "p90" /\ s[6].tag = 57
      /\ s[7].name = "p95" /\ s[7].tag = 65
      /\ s[8].name = "p99" /\ s[8].tag = 73
      /\ s[9].name = "p999" /\ s[9].tag = 81
      /\ s[10].name = "max" /\ s[10].tag = 89
      /\ s[11].name = "count" /\ s[11].tag = 96
    BY DEF Summary!Schema, Summary!Field
<1>4. SchemaOK(s)
    BY Schemas DEF FlatClasses, ClassSchema
<1>5. Tags(s) = {s[i].tag : i \in 1..11}
    BY <1>1 DEF Tags
<1>6. \A i \in 1..11 : s[i].tag % 8 \in {0, 1, 2}
    BY <1>2, <1>3
<1>7. \A t \in Tags(s) : t % 8 \in {0, 1, 2}
    BY <1>5, <1>6
<1> QED BY <1>1, <1>2, <1>3, <1>4, <1>7 DEF SizedSchema

\* What they take, a double 9 bytes.
LEMMA SummaryBytes ==
    ASSUME NEW s, s = Summary!Schema, NEW m \in Sane(Names(s))
    PROVE  /\ BytesUpTo(m, s, 11)
                = StringSize(m, "units")
                    + 9 * Ind(m.has, "mean")
                    + 9 * Ind(m.has, "stddev")
                    + 9 * Ind(m.has, "min")
                    + 9 * Ind(m.has, "p50")
                    + 9 * Ind(m.has, "p90")
                    + 9 * Ind(m.has, "p95")
                    + 9 * Ind(m.has, "p99")
                    + 9 * Ind(m.has, "p999")
                    + 9 * Ind(m.has, "max")
                    + UIntSize(m, "count")
           /\ StringSize(m, "units") \in Nat
           /\ UIntSize(m, "count") \in Nat
<1>1. SizedSchema(s) /\ SchemaOK(s) /\ 1..Len(s) = {1, 2, 3, 4, 5, 6, 7, 8, 9, 10, 11}
    BY SummaryFields DEF SizedSchema
<1>0. BytesUpTo(m, s, 0) = 0
    BY BytesNone
<1>a. \A k \in 1..Len(s) : s[k].name \in Names(s)
    BY DEF Names
<1>2. BytesUpTo(m, s, 1) = BytesUpTo(m, s, 0) + StringSize(m, "units") /\ StringSize(m, "units") \in Nat
    <2>1. s[1].name = "units" /\ s[1].tag % 8 = 2 /\ 1 \in 1..Len(s) /\ s[1].name \in Names(s)
        BY <1>1, <1>a, SummaryFields
    <2>2. FieldBytes(m, s[1]) = StringSize(m, "units") /\ StringSize(m, "units") \in Nat
        BY <2>1, FieldKinds
    <2>3. BytesUpTo(m, s, 1) = BytesUpTo(m, s, 1 - 1) + FieldBytes(m, s[1])
        BY <1>1, <2>1, BytesMore
    <2> QED BY <2>2, <2>3
<1>3. BytesUpTo(m, s, 2) = BytesUpTo(m, s, 1) + 9 * Ind(m.has, "mean") /\ 9 * Ind(m.has, "mean") \in Nat
    <2>1. s[2].name = "mean" /\ s[2].tag % 8 = 1 /\ 2 \in 1..Len(s) /\ s[2].name \in Names(s)
        BY <1>1, <1>a, SummaryFields
    <2>2. FieldBytes(m, s[2]) = 9 * Ind(m.has, "mean") /\ 9 * Ind(m.has, "mean") \in Nat
        BY <2>1, FieldKinds DEF Ind
    <2>3. BytesUpTo(m, s, 2) = BytesUpTo(m, s, 2 - 1) + FieldBytes(m, s[2])
        BY <1>1, <2>1, BytesMore
    <2> QED BY <2>2, <2>3
<1>4. BytesUpTo(m, s, 3) = BytesUpTo(m, s, 2) + 9 * Ind(m.has, "stddev") /\ 9 * Ind(m.has, "stddev") \in Nat
    <2>1. s[3].name = "stddev" /\ s[3].tag % 8 = 1 /\ 3 \in 1..Len(s) /\ s[3].name \in Names(s)
        BY <1>1, <1>a, SummaryFields
    <2>2. FieldBytes(m, s[3]) = 9 * Ind(m.has, "stddev") /\ 9 * Ind(m.has, "stddev") \in Nat
        BY <2>1, FieldKinds DEF Ind
    <2>3. BytesUpTo(m, s, 3) = BytesUpTo(m, s, 3 - 1) + FieldBytes(m, s[3])
        BY <1>1, <2>1, BytesMore
    <2> QED BY <2>2, <2>3
<1>5. BytesUpTo(m, s, 4) = BytesUpTo(m, s, 3) + 9 * Ind(m.has, "min") /\ 9 * Ind(m.has, "min") \in Nat
    <2>1. s[4].name = "min" /\ s[4].tag % 8 = 1 /\ 4 \in 1..Len(s) /\ s[4].name \in Names(s)
        BY <1>1, <1>a, SummaryFields
    <2>2. FieldBytes(m, s[4]) = 9 * Ind(m.has, "min") /\ 9 * Ind(m.has, "min") \in Nat
        BY <2>1, FieldKinds DEF Ind
    <2>3. BytesUpTo(m, s, 4) = BytesUpTo(m, s, 4 - 1) + FieldBytes(m, s[4])
        BY <1>1, <2>1, BytesMore
    <2> QED BY <2>2, <2>3
<1>6. BytesUpTo(m, s, 5) = BytesUpTo(m, s, 4) + 9 * Ind(m.has, "p50") /\ 9 * Ind(m.has, "p50") \in Nat
    <2>1. s[5].name = "p50" /\ s[5].tag % 8 = 1 /\ 5 \in 1..Len(s) /\ s[5].name \in Names(s)
        BY <1>1, <1>a, SummaryFields
    <2>2. FieldBytes(m, s[5]) = 9 * Ind(m.has, "p50") /\ 9 * Ind(m.has, "p50") \in Nat
        BY <2>1, FieldKinds DEF Ind
    <2>3. BytesUpTo(m, s, 5) = BytesUpTo(m, s, 5 - 1) + FieldBytes(m, s[5])
        BY <1>1, <2>1, BytesMore
    <2> QED BY <2>2, <2>3
<1>7. BytesUpTo(m, s, 6) = BytesUpTo(m, s, 5) + 9 * Ind(m.has, "p90") /\ 9 * Ind(m.has, "p90") \in Nat
    <2>1. s[6].name = "p90" /\ s[6].tag % 8 = 1 /\ 6 \in 1..Len(s) /\ s[6].name \in Names(s)
        BY <1>1, <1>a, SummaryFields
    <2>2. FieldBytes(m, s[6]) = 9 * Ind(m.has, "p90") /\ 9 * Ind(m.has, "p90") \in Nat
        BY <2>1, FieldKinds DEF Ind
    <2>3. BytesUpTo(m, s, 6) = BytesUpTo(m, s, 6 - 1) + FieldBytes(m, s[6])
        BY <1>1, <2>1, BytesMore
    <2> QED BY <2>2, <2>3
<1>8. BytesUpTo(m, s, 7) = BytesUpTo(m, s, 6) + 9 * Ind(m.has, "p95") /\ 9 * Ind(m.has, "p95") \in Nat
    <2>1. s[7].name = "p95" /\ s[7].tag % 8 = 1 /\ 7 \in 1..Len(s) /\ s[7].name \in Names(s)
        BY <1>1, <1>a, SummaryFields
    <2>2. FieldBytes(m, s[7]) = 9 * Ind(m.has, "p95") /\ 9 * Ind(m.has, "p95") \in Nat
        BY <2>1, FieldKinds DEF Ind
    <2>3. BytesUpTo(m, s, 7) = BytesUpTo(m, s, 7 - 1) + FieldBytes(m, s[7])
        BY <1>1, <2>1, BytesMore
    <2> QED BY <2>2, <2>3
<1>9. BytesUpTo(m, s, 8) = BytesUpTo(m, s, 7) + 9 * Ind(m.has, "p99") /\ 9 * Ind(m.has, "p99") \in Nat
    <2>1. s[8].name = "p99" /\ s[8].tag % 8 = 1 /\ 8 \in 1..Len(s) /\ s[8].name \in Names(s)
        BY <1>1, <1>a, SummaryFields
    <2>2. FieldBytes(m, s[8]) = 9 * Ind(m.has, "p99") /\ 9 * Ind(m.has, "p99") \in Nat
        BY <2>1, FieldKinds DEF Ind
    <2>3. BytesUpTo(m, s, 8) = BytesUpTo(m, s, 8 - 1) + FieldBytes(m, s[8])
        BY <1>1, <2>1, BytesMore
    <2> QED BY <2>2, <2>3
<1>10. BytesUpTo(m, s, 9) = BytesUpTo(m, s, 8) + 9 * Ind(m.has, "p999") /\ 9 * Ind(m.has, "p999") \in Nat
    <2>1. s[9].name = "p999" /\ s[9].tag % 8 = 1 /\ 9 \in 1..Len(s) /\ s[9].name \in Names(s)
        BY <1>1, <1>a, SummaryFields
    <2>2. FieldBytes(m, s[9]) = 9 * Ind(m.has, "p999") /\ 9 * Ind(m.has, "p999") \in Nat
        BY <2>1, FieldKinds DEF Ind
    <2>3. BytesUpTo(m, s, 9) = BytesUpTo(m, s, 9 - 1) + FieldBytes(m, s[9])
        BY <1>1, <2>1, BytesMore
    <2> QED BY <2>2, <2>3
<1>11. BytesUpTo(m, s, 10) = BytesUpTo(m, s, 9) + 9 * Ind(m.has, "max") /\ 9 * Ind(m.has, "max") \in Nat
    <2>1. s[10].name = "max" /\ s[10].tag % 8 = 1 /\ 10 \in 1..Len(s) /\ s[10].name \in Names(s)
        BY <1>1, <1>a, SummaryFields
    <2>2. FieldBytes(m, s[10]) = 9 * Ind(m.has, "max") /\ 9 * Ind(m.has, "max") \in Nat
        BY <2>1, FieldKinds DEF Ind
    <2>3. BytesUpTo(m, s, 10) = BytesUpTo(m, s, 10 - 1) + FieldBytes(m, s[10])
        BY <1>1, <2>1, BytesMore
    <2> QED BY <2>2, <2>3
<1>12. BytesUpTo(m, s, 11) = BytesUpTo(m, s, 10) + UIntSize(m, "count") /\ UIntSize(m, "count") \in Nat
    <2>1. s[11].name = "count" /\ s[11].tag % 8 = 0 /\ 11 \in 1..Len(s) /\ s[11].name \in Names(s)
        BY <1>1, <1>a, SummaryFields
    <2>2. FieldBytes(m, s[11]) = UIntSize(m, "count") /\ UIntSize(m, "count") \in Nat
        BY <2>1, FieldKinds
    <2>3. BytesUpTo(m, s, 11) = BytesUpTo(m, s, 11 - 1) + FieldBytes(m, s[11])
        BY <1>1, <2>1, BytesMore
    <2> QED BY <2>2, <2>3
<1> QED BY <1>0, <1>2, <1>3, <1>4, <1>5, <1>6, <1>7, <1>8, <1>9, <1>10, <1>11, <1>12

\* The own field of a metric.
LEMMA OwnFields ==
    ASSUME NEW s, s = Schema
    PROVE  /\ SizedSchema(s) /\ Len(s) = 1 /\ 1..Len(s) = {1}
           /\ s[1].name = "name" /\ s[1].tag = 10
<1>1. Len(s) = 1
    BY DEF Schema, Field
<1>2. 1..1 = {1}
    OBVIOUS
<1>3. /\ s[1].name = "name" /\ s[1].tag = 10
    BY DEF Schema, Field
<1>4. SchemaOK(s)
    BY MetricSchema
<1>5. Tags(s) = {s[i].tag : i \in 1..1}
    BY <1>1 DEF Tags
<1>6. \A i \in 1..1 : s[i].tag % 8 \in {0, 1, 2}
    BY <1>2, <1>3
<1>7. \A t \in Tags(s) : t % 8 \in {0, 1, 2}
    BY <1>5, <1>6
<1> QED BY <1>1, <1>2, <1>3, <1>4, <1>7 DEF SizedSchema

\* What it takes.
LEMMA OwnBytes ==
    ASSUME NEW s, s = Schema, NEW m \in Sane(Names(s))
    PROVE  /\ BytesUpTo(m, s, 1)
                = StringSize(m, "name")
           /\ StringSize(m, "name") \in Nat
<1>1. SizedSchema(s) /\ SchemaOK(s) /\ 1..Len(s) = {1}
    BY OwnFields DEF SizedSchema
<1>0. BytesUpTo(m, s, 0) = 0
    BY BytesNone
<1>a. \A k \in 1..Len(s) : s[k].name \in Names(s)
    BY DEF Names
<1>2. BytesUpTo(m, s, 1) = BytesUpTo(m, s, 0) + StringSize(m, "name") /\ StringSize(m, "name") \in Nat
    <2>1. s[1].name = "name" /\ s[1].tag % 8 = 2 /\ 1 \in 1..Len(s) /\ s[1].name \in Names(s)
        BY <1>1, <1>a, OwnFields
    <2>2. FieldBytes(m, s[1]) = StringSize(m, "name") /\ StringSize(m, "name") \in Nat
        BY <2>1, FieldKinds
    <2>3. BytesUpTo(m, s, 1) = BytesUpTo(m, s, 1 - 1) + FieldBytes(m, s[1])
        BY <1>1, <2>1, BytesMore
    <2> QED BY <2>2, <2>3
<1> QED BY <1>0, <1>2

\* All classes count in the same way.
LEMMA CounterSize == \A m : Counter!ByteSizeLong(m) = UIntSize(m, "count") + FlatSizes(m.unknown)
BY DEF Counter!ByteSizeLong, Counter!UIntSize, Counter!FlatSizes, Counter!Through, Counter!FlatSize,
       Counter!VarintSize, Counter!LengthDelimited,
       UIntSize, FlatSizes, Through, FlatSize, VarintSize, LengthDelimited

\* ByteSizeLong of a stopwatch ...
LEMMA StopwatchSize == \A m : Stopwatch!ByteSizeLong(m) = UIntSize(m, "runtime_ns") + FlatSizes(m.unknown)
BY DEF Stopwatch!ByteSizeLong, Stopwatch!UIntSize, Stopwatch!FlatSizes, Stopwatch!Through, Stopwatch!FlatSize,
       Stopwatch!VarintSize, Stopwatch!LengthDelimited,
       UIntSize, FlatSizes, Through, FlatSize, VarintSize, LengthDelimited

\* ... of a remote object ...
LEMMA RemoteSize ==
    \A m : Remote!ByteSizeLong(m)
             = StringSize(m, "id") + UIntSize(m, "raddr") + UIntSize(m, "size") + UIntSize(m, "lkey")
                 + UIntSize(m, "rkey") + FlatSizes(m.unknown)
<1> TAKE m
<1>1. Remote!FlatSizes(m.unknown) = FlatSizes(m.unknown)
    BY DEF Remote!FlatSizes, Remote!Through, Remote!FlatSize, Remote!VarintSize, Remote!LengthDelimited,
           FlatSizes, Through, FlatSize, VarintSize, LengthDelimited
<1>2. \A f : Remote!UIntSize(m, f) = UIntSize(m, f)
    BY DEF Remote!UIntSize, Remote!VarintSize, UIntSize, VarintSize
<1>3. Remote!StringSize(m, "id") = StringSize(m, "id")
    BY DEF Remote!StringSize, Remote!LengthDelimited, Remote!VarintSize, StringSize, LengthDelimited, VarintSize
<1> QED BY <1>1, <1>2, <1>3 DEF Remote!ByteSizeLong

\* ... and of a summary, which multiplies the number of doubles that are set.
LEMMA SummarySize ==
    \A m : Summary!ByteSizeLong(m)
             = StringSize(m, "units") + 9 * Cardinality(m.has \cap (Summary!Plain \ {"count"}))
                 + UIntSize(m, "count") + FlatSizes(m.unknown)
<1> TAKE m
<1>1. Summary!FlatSizes(m.unknown) = FlatSizes(m.unknown)
    BY DEF Summary!FlatSizes, Summary!Through, Summary!FlatSize, Summary!VarintSize, Summary!LengthDelimited,
           FlatSizes, Through, FlatSize, VarintSize, LengthDelimited
<1>2. Summary!UIntSize(m, "count") = UIntSize(m, "count")
    BY DEF Summary!UIntSize, Summary!VarintSize, UIntSize, VarintSize
<1>3. Summary!StringSize(m, "units") = StringSize(m, "units")
    BY DEF Summary!StringSize, Summary!LengthDelimited, Summary!VarintSize, StringSize, LengthDelimited, VarintSize
<1>4. \A S : Summary!Cardinality(S) = Cardinality(S)
    BY DEF Summary!Cardinality, Cardinality
<1> QED BY <1>1, <1>2, <1>3, <1>4 DEF Summary!ByteSizeLong

\* The doubles of a summary that are set, counted one by one.
LEMMA Doubles ==
    ASSUME NEW h
    PROVE  /\ Cardinality(h \cap (Summary!Plain \ {"count"}))
                = Ind(h, "mean") + Ind(h, "stddev") + Ind(h, "min") + Ind(h, "p50") + Ind(h, "p90")
                    + Ind(h, "p95") + Ind(h, "p99") + Ind(h, "p999") + Ind(h, "max")
           /\ \A f : Ind(h, f) \in {0, 1}
<1> DEFINE S0 == {}
           S1 == S0 \cup {"mean"}
           S2 == S1 \cup {"stddev"}
           S3 == S2 \cup {"min"}
           S4 == S3 \cup {"p50"}
           S5 == S4 \cup {"p90"}
           S6 == S5 \cup {"p95"}
           S7 == S6 \cup {"p99"}
           S8 == S7 \cup {"p999"}
           S9 == S8 \cup {"max"}
<1>0. \A f : Ind(h, f) \in {0, 1}
    BY DEF Ind
<1>a. Summary!Plain \ {"count"} = S9
    BY DEF Summary!Plain, Summary!Low, Summary!High
<1>b. IsFiniteSet(S0) /\ Cardinality(h \cap S0) = 0
    <2>1. h \cap S0 = {}
        OBVIOUS
    <2> QED BY <2>1, FS_EmptySet
<1>c. /\ "mean" \notin S0 /\ "stddev" \notin S1 /\ "min" \notin S2 /\ "p50" \notin S3 /\ "p90" \notin S4
      /\ "p95" \notin S5 /\ "p99" \notin S6 /\ "p999" \notin S7 /\ "max" \notin S8
    OBVIOUS
<1> HIDE DEF S0
<1>1. Cardinality(h \cap S1) = Cardinality(h \cap S0) + Ind(h, "mean") /\ IsFiniteSet(S1)
    BY <1>b, <1>c, CardMore
<1> HIDE DEF S1
<1>2. Cardinality(h \cap S2) = Cardinality(h \cap S1) + Ind(h, "stddev") /\ IsFiniteSet(S2)
    BY <1>1, <1>c, CardMore
<1> HIDE DEF S2
<1>3. Cardinality(h \cap S3) = Cardinality(h \cap S2) + Ind(h, "min") /\ IsFiniteSet(S3)
    BY <1>2, <1>c, CardMore
<1> HIDE DEF S3
<1>4. Cardinality(h \cap S4) = Cardinality(h \cap S3) + Ind(h, "p50") /\ IsFiniteSet(S4)
    BY <1>3, <1>c, CardMore
<1> HIDE DEF S4
<1>5. Cardinality(h \cap S5) = Cardinality(h \cap S4) + Ind(h, "p90") /\ IsFiniteSet(S5)
    BY <1>4, <1>c, CardMore
<1> HIDE DEF S5
<1>6. Cardinality(h \cap S6) = Cardinality(h \cap S5) + Ind(h, "p95") /\ IsFiniteSet(S6)
    BY <1>5, <1>c, CardMore
<1> HIDE DEF S6
<1>7. Cardinality(h \cap S7) = Cardinality(h \cap S6) + Ind(h, "p99") /\ IsFiniteSet(S7)
    BY <1>6, <1>c, CardMore
<1> HIDE DEF S7
<1>8. Cardinality(h \cap S8) = Cardinality(h \cap S7) + Ind(h, "p999") /\ IsFiniteSet(S8)
    BY <1>7, <1>c, CardMore
<1> HIDE DEF S8
<1>9. Cardinality(h \cap S9) = Cardinality(h \cap S8) + Ind(h, "max") /\ IsFiniteSet(S9)
    BY <1>8, <1>c, CardMore
<1> HIDE DEF S9
<1>10. /\ Ind(h, "mean") \in Nat
       /\ Ind(h, "stddev") \in Nat
       /\ Ind(h, "min") \in Nat
       /\ Ind(h, "p50") \in Nat
       /\ Ind(h, "p90") \in Nat
       /\ Ind(h, "p95") \in Nat
       /\ Ind(h, "p99") \in Nat
       /\ Ind(h, "p999") \in Nat
       /\ Ind(h, "max") \in Nat
    BY <1>0
<1>11. Cardinality(h \cap S9)
         = Ind(h, "mean") + Ind(h, "stddev") + Ind(h, "min") + Ind(h, "p50") + Ind(h, "p90")
             + Ind(h, "p95") + Ind(h, "p99") + Ind(h, "p999") + Ind(h, "max")
    BY <1>b, <1>1, <1>2, <1>3, <1>4, <1>5, <1>6, <1>7, <1>8, <1>9, <1>10
<1> QED BY <1>0, <1>a, <1>11

\* ByteSizeLong of a class without nested messages is the size of what it writes.
LEMMA ClassSizeIs ==
    ASSUME NEW c \in FlatClasses, NEW m \in Sane(Own(c))
    PROVE  /\ ClassSize(c, m) = WireSize(Written(ClassSchema(c), m))
           /\ ClassSize(c, m) = FlatSizes(Written(ClassSchema(c), m))
<1> DEFINE w == WireSize(Written(ClassSchema(c), m))
<1>1. SizedSchema(ClassSchema(c)) /\ w = FlatSizes(Written(ClassSchema(c), m))
    <2>1. SizedSchema(ClassSchema(c))
        BY CounterFields, StopwatchFields, RemoteFields, SummaryFields DEF FlatClasses, ClassSchema
    <2> QED BY <2>1, BytesAll DEF Own
<1>2. ClassSize(c, m) = w
    <2>1. CASE c = "counter"
        <3> DEFINE s == Counter!Schema
        <3>1. ClassSchema(c) = s /\ ClassSize(c, m) = Counter!ByteSizeLong(m)
            BY <2>1 DEF ClassSchema, ClassSize
        <3>2. m \in Sane(Names(s)) /\ SizedSchema(s) /\ Len(s) = 1
            BY <3>1, CounterFields DEF Own
        <3>3. w = BytesUpTo(m, s, 1) + FlatSizes(m.unknown)
            BY <3>1, <3>2, BytesAll
        <3>4. BytesUpTo(m, s, 1) = UIntSize(m, "count")
            BY <3>2, CounterBytes
        <3> QED BY <3>1, <3>3, <3>4, CounterSize
    <2>2. CASE c = "stopwatch"
        <3> DEFINE s == Stopwatch!Schema
        <3>1. ClassSchema(c) = s /\ ClassSize(c, m) = Stopwatch!ByteSizeLong(m)
            BY <2>2 DEF ClassSchema, ClassSize
        <3>2. m \in Sane(Names(s)) /\ SizedSchema(s) /\ Len(s) = 1
            BY <3>1, StopwatchFields DEF Own
        <3>3. w = BytesUpTo(m, s, 1) + FlatSizes(m.unknown)
            BY <3>1, <3>2, BytesAll
        <3>4. BytesUpTo(m, s, 1) = UIntSize(m, "runtime_ns")
            BY <3>2, StopwatchBytes
        <3> QED BY <3>1, <3>3, <3>4, StopwatchSize
    <2>3. CASE c = "remote"
        <3> DEFINE s == Remote!Schema
        <3>1. ClassSchema(c) = s /\ ClassSize(c, m) = Remote!ByteSizeLong(m)
            BY <2>3 DEF ClassSchema, ClassSize
        <3>2. m \in Sane(Names(s)) /\ SizedSchema(s) /\ Len(s) = 5
            BY <3>1, RemoteFields DEF Own
        <3>3. w = BytesUpTo(m, s, 5) + FlatSizes(m.unknown)
            BY <3>1, <3>2, BytesAll
        <3>4. BytesUpTo(m, s, 5) = StringSize(m, "id") + UIntSize(m, "raddr") + UIntSize(m, "size")
                                     + UIntSize(m, "lkey") + UIntSize(m, "rkey")
            BY <3>2, RemoteBytes
        <3> QED BY <3>1, <3>3, <3>4, RemoteSize
    <2>4. CASE c = "summary"
        <3> DEFINE s == Summary!Schema
                   h == m.has
        <3>1. ClassSchema(c) = s /\ ClassSize(c, m) = Summary!ByteSizeLong(m)
            BY <2>4 DEF ClassSchema, ClassSize
        <3>2. m \in Sane(Names(s)) /\ SizedSchema(s) /\ Len(s) = 11
            BY <3>1, SummaryFields DEF Own
        <3>3. w = BytesUpTo(m, s, 11) + FlatSizes(m.unknown) /\ FlatSizes(m.unknown) \in Nat
            BY <3>1, <3>2, BytesAll
        <3>4. /\ BytesUpTo(m, s, 11)
                   = StringSize(m, "units") + 9 * Ind(h, "mean") + 9 * Ind(h, "stddev") + 9 * Ind(h, "min")
                       + 9 * Ind(h, "p50") + 9 * Ind(h, "p90") + 9 * Ind(h, "p95") + 9 * Ind(h, "p99")
                       + 9 * Ind(h, "p999") + 9 * Ind(h, "max") + UIntSize(m, "count")
              /\ StringSize(m, "units") \in Nat /\ UIntSize(m, "count") \in Nat
            BY <3>2, SummaryBytes
        <3> DEFINE k == Cardinality(h \cap (Summary!Plain \ {"count"}))
        <3>5. ClassSize(c, m) = StringSize(m, "units") + 9 * k + UIntSize(m, "count") + FlatSizes(m.unknown)
            BY <3>1, SummarySize
        <3>6. /\ k = Ind(h, "mean") + Ind(h, "stddev") + Ind(h, "min") + Ind(h, "p50") + Ind(h, "p90")
                       + Ind(h, "p95") + Ind(h, "p99") + Ind(h, "p999") + Ind(h, "max")
              /\ \A f : Ind(h, f) \in {0, 1}
            BY Doubles
        <3> HIDE DEF s, k, w, h
        <3> QED BY <3>3, <3>4, <3>5, <3>6
    <2> QED BY <2>1, <2>2, <2>3, <2>4 DEF FlatClasses
<1> QED BY <1>1, <1>2

\* An entry with entries of its own.
LEMMA NestBytes ==
    ASSUME NEW c \in Cases, NEW x \in Sane(Own(c))
    PROVE  /\ Bytes(Nested(TagOf[c], Written(ClassSchema(c), x))) = 1 + LengthDelimited(ClassSize(c, x))
           /\ Bytes(Nested(TagOf[c], Written(ClassSchema(c), x))) \in Nat
<1> DEFINE w == Written(ClassSchema(c), x)
           e == Nested(TagOf[c], w)
<1>1. ClassSize(c, x) = FlatSizes(w) /\ ClassSize(c, x) = WireSize(w)
    BY CasesAre, ClassSizeIs
<1>2. WireSize(w) \in Nat
    <2>1. w \in Seq(Readable(ClassSchema(c)))
        BY CasesAre, ClassWritten, ClassSerializeIs
    <2>2. SizedSchema(ClassSchema(c))
        BY CasesAre, CounterFields, StopwatchFields, RemoteFields, SummaryFields DEF FlatClasses, ClassSchema
    <2>3. Readable(ClassSchema(c)) \subseteq Sized
        BY <2>2, SizedFields
    <2> HIDE DEF w
    <2>4. w \in Seq(Sized)
        BY <2>1, <2>3, SeqMonotonic
    <2> QED BY <2>4, SizedWire
<1>3. e.tag % 8 = 2 /\ e.v = 0 /\ e.sub = w
    <2>1. e.tag = TagOf[c] /\ e.v = 0 /\ e.sub = w
        BY DEF Nested
    <2>2. TagOf[c] \in {18, 26, 34}
        BY TagOfIs
    <2> HIDE DEF e
    <2> QED BY <2>1, <2>2
<1> HIDE DEF e, w
<1>4. FlatSize(e) = 1 + LengthDelimited(0)
    BY <1>3 DEF FlatSize
<1>5. w = <<>> => FlatSizes(w) = 0
    BY WireNil
<1>6. Bytes(e) = 1 + LengthDelimited(FlatSizes(w))
    BY <1>3, <1>4, <1>5 DEF Bytes
<1>7. LengthDelimited(FlatSizes(w)) \in Nat
    BY <1>1, <1>2, Lengths
<1>8. Bytes(e) = 1 + LengthDelimited(ClassSize(c, x)) /\ Bytes(e) \in Nat
    <2>1. FlatSizes(w) = ClassSize(c, x)
        BY <1>1
    <2> DEFINE n == LengthDelimited(FlatSizes(w))
    <2>2. n = LengthDelimited(ClassSize(c, x))
        BY <2>1, Zenon
    <2>3. n \in Nat /\ Bytes(e) = 1 + n
        BY <1>6, <1>7
    <2> HIDE DEF n
    <2>4. Bytes(e) \in Nat
        BY <2>3
    <2> QED BY <2>2, <2>3, <2>4
<1> QED BY <1>8 DEF e, w

\* ByteSizeLong of a metric is the size of what it writes.
LEMMA MetricSizeIs ==
    ASSUME NEW m, NEW h, Metric(m, h)
    PROVE  ByteSizeLong(m, h) = WireSize(InternalSerialize(m, h))
<1>1. \A b \in Named : \A c, p : /\ StringSize(Whole(b, c, p), "name") = StringSize(b, "name")
                                  /\ Whole(b, c, p).unknown = b.unknown
    BY WholeParts DEF StringSize
<1>2. ASSUME NEW b \in Named
      PROVE  /\ WireSize(OwnWritten(b)) = StringSize(b, "name") /\ WireSize(OwnWritten(b)) \in Nat
             /\ WireSize(b.unknown) = FlatSizes(b.unknown) /\ FlatSizes(b.unknown) \in Nat
    <2> DEFINE s == Schema
    <2>1. SizedSchema(s) /\ Len(s) = 1 /\ b \in Sane(Names(s))
        BY OwnFields, MetricSchema DEF Named
    <2>2. WireSize(WriteAll(b, <<>>, s)) = BytesUpTo(b, s, 1)
        BY <2>1, BytesAll
    <2>3. WireSize(WriteAll(b, <<>>, s)) \in Nat /\ WireSize(b.unknown) = FlatSizes(b.unknown) /\ FlatSizes(b.unknown) \in Nat
        BY <2>1, BytesAll
    <2>4. BytesUpTo(b, s, 1) = StringSize(b, "name")
        BY <2>1, OwnBytes
    <2> QED BY <2>2, <2>3, <2>4 DEF OwnWritten
<1>3. ASSUME NEW b \in Named, m = Whole(b, NotSet, Null)
      PROVE  ByteSizeLong(m, h) = WireSize(InternalSerialize(m, h))
    <2> DEFINE o == OwnWritten(b)
               u == b.unknown
    <2>1. InternalSerialize(m, h) = o \o u
        BY <1>3, SerializeEmpty
    <2>2. m.case = NotSet /\ m.unknown = u /\ StringSize(m, "name") = StringSize(b, "name")
        BY <1>1, <1>3, WholeParts
    <2>3. ByteSizeLong(m, h) = StringSize(b, "name") + 0 + FlatSizes(u)
        BY <2>2 DEF ByteSizeLong
    <2>4. o \in Seq(Sized) /\ u \in Seq(Sized)
        <3>1. o \in Seq(Readable(Schema)) /\ u \in Seq(Readable(Schema))
            BY OwnReadBack
        <3>2. Readable(Schema) \subseteq Sized
            BY OwnFields, SizedFields
        <3> HIDE DEF o, u
        <3> QED BY <3>1, <3>2, SeqMonotonic
    <2>5. WireSize(o) = StringSize(b, "name") /\ WireSize(o) \in Nat /\ WireSize(u) = FlatSizes(u) /\ FlatSizes(u) \in Nat
        BY <1>2
    <2> HIDE DEF o, u
    <2>6. WireSize(o \o u) = WireSize(o) + WireSize(u)
        <3> DEFINE E == Sized
        <3>1. \A d \in E : Bytes(d) \in Nat
            BY SizedBytes
        <3> HIDE DEF E
        <3>2. \A x \in Seq(E) : \A y \in Seq(E) : WireSize(x \o y) = WireSize(x) + WireSize(y)
            BY <3>1, WireParts
        <3> QED BY <2>4, <3>2 DEF E
    <2> QED BY <2>1, <2>3, <2>5, <2>6
<1>4. ASSUME NEW b \in Named, NEW c \in Cases, NEW p \in DOMAIN h, m = Whole(b, c, p), h[p] \in Sane(Own(c))
      PROVE  ByteSizeLong(m, h) = WireSize(InternalSerialize(m, h))
    <2> DEFINE o == OwnWritten(b)
               u == b.unknown
               x == h[p]
               t == Nested(TagOf[c], Written(ClassSchema(c), x))
               E == Sized \cup {t}
               k == 1 + LengthDelimited(ClassSize(c, x))
    <2>0. x \in Sane(Own(c))
        BY <1>4
    <2>1. InternalSerialize(m, h) = o \o <<t>> \o u
        BY <1>4, SerializeFull DEF SubWritten
    <2>2. m.case = c /\ m.ref = p /\ m.unknown = u /\ StringSize(m, "name") = StringSize(b, "name") /\ c # NotSet
        BY <1>1, <1>4, WholeParts, CasesAre
    <2>3. ByteSizeLong(m, h) = StringSize(b, "name") + k + FlatSizes(u)
        BY <2>2 DEF ByteSizeLong
    <2> HIDE DEF x
    <2>4. Bytes(t) = k /\ k \in Nat
        <3>1. Bytes(t) = k
            BY <2>0, NestBytes
        <3>2. Bytes(t) \in Nat
            BY <2>0, NestBytes
        <3> QED BY <3>1, <3>2
    <2> HIDE DEF t, k
    <2>5. o \in Seq(E) /\ u \in Seq(E)
        <3>1. o \in Seq(Readable(Schema)) /\ u \in Seq(Readable(Schema))
            BY OwnReadBack
        <3>2. Readable(Schema) \subseteq E
            BY OwnFields, SizedFields
        <3> HIDE DEF o, u, E
        <3> QED BY <3>1, <3>2, SeqMonotonic
    <2>6. WireSize(o) = StringSize(b, "name") /\ WireSize(o) \in Nat /\ WireSize(u) = FlatSizes(u) /\ FlatSizes(u) \in Nat
        BY <1>2
    <2>7. \A d \in E : Bytes(d) \in Nat
        BY <2>4, SizedBytes
    <2>8. t \in E
        OBVIOUS
    <2> HIDE DEF o, u, E
    <2>9. Append(o, t) \in Seq(E) /\ Append(o, t) = o \o <<t>>
        BY <2>5, <2>8, AppendIsConcat
    <2>10. \A y \in Seq(E) : \A d \in E : WireSize(Append(y, d)) = WireSize(y) + Bytes(d)
        BY <2>7, WireParts
    <2>11. \A y \in Seq(E) : \A z \in Seq(E) : WireSize(y \o z) = WireSize(y) + WireSize(z)
        BY <2>7, WireParts
    <2>12. WireSize(Append(o, t)) = WireSize(o) + Bytes(t)
        BY <2>5, <2>8, <2>10
    <2>13. WireSize(Append(o, t) \o u) = WireSize(Append(o, t)) + WireSize(u)
        BY <2>5, <2>9, <2>11
    <2>14. InternalSerialize(m, h) = Append(o, t) \o u
        BY <2>1, <2>9
    <2> QED BY <2>3, <2>4, <2>6, <2>12, <2>13, <2>14
<1> QED BY <1>3, <1>4 DEF Metric

\* The buffer has the size of what is written into it.
LEMMA InvSizes ==
    ASSUME Inv
    PROVE  SizesAgree
<1> SUFFICES ASSUME NEW x \in Mine PROVE Size(With(x)) = WireSize(Serialized(With(x)))
    BY DEF SizesAgree
<1>1. With(x).m = msg[x] /\ With(x).h = heap
    BY WithParts
<1>2. CASE FlatInv
    <2>1. ~IsMetric /\ kind \in FlatClasses /\ msg[x] \in Sane(Own(kind))
        BY <1>2, KindIs, FlatMsg
    <2>2. ClassSize(kind, msg[x]) = WireSize(ClassSerialize(kind, msg[x]))
        BY <2>1, ClassSizeIs, ClassSerializeIs
    <2> QED BY <1>1, <2>1, <2>2 DEF Size, Serialized
<1>3. CASE MetricInv
    <2>1. IsMetric /\ Metric(msg[x], heap)
        BY <1>3, KindIs DEF MetricInv
    <2>2. ByteSizeLong(msg[x], heap) = WireSize(InternalSerialize(msg[x], heap))
        BY <2>1, MetricSizeIs
    <2> QED BY <1>1, <2>1, <2>2 DEF Size, Serialized
<1> QED BY <1>2, <1>3 DEF Inv

\* ByteSizeLong is the number of bytes that _InternalSerialize writes, for every
\* class, with unknown fields and with a nested message.
THEOREM SizesAgreeProved == Spec => []SizesAgree
BY MessageInvariant, InvSizes, PTL
=============================================================================
