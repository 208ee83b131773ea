----------------------- MODULE MessageMethods_proofs -----------------------
(***************************************************************************)
(* Lemmas about the methods of the generated message classes, as the       *)
(* modules Protobuf, MetricProto and those of the other classes model      *)
(* them: what setting, clearing, merging, writing and parsing do to the    *)
(* parts of a message and to the heap.                                     *)
(*                                                                         *)
(* A parse, a write and a count of bytes are runs of one step for every    *)
(* element of a sequence (Through): the first lemmas turn each of them     *)
(* into what one more element at the end does, by induction over a set of  *)
(* sequences (SeqInduct) or of lengths (Induct).                           *)
(***************************************************************************)
EXTENDS Messages, FiniteSetTheorems, SequenceTheorems, WellFoundedInduction, TLAPS

\* A set of natural numbers has a smallest one.
LEMMA MinIn ==
    ASSUME NEW S, S \subseteq Nat, S # {}
    PROVE  Min(S) \in S /\ \A y \in S : Min(S) <= y
<1> DEFINE R == OpToRel(<, Nat)
<1>1. IsWellFoundedOn(R, Nat)
    BY NatLessThanWellFounded
<1>2. \A x, y \in Nat : y < x => <<y, x>> \in R
    BY DEF OpToRel
<1> HIDE DEF R
<1>3. PICK x \in S : \A y \in S : ~(<<y, x>> \in R)
    BY <1>1, WFMin
<1>4. ASSUME NEW y \in S PROVE x <= y
    <2>1. x \in Nat /\ y \in Nat
        BY <1>3
    <2>2. ~(y < x)
        BY <2>1, <1>2, <1>3
    <2> QED BY <2>1, <2>2
<1> QED BY <1>3, <1>4 DEF Min

\* Induction over an interval, for a set in the place of a predicate.
LEMMA Induct ==
    ASSUME NEW S, NEW n \in Nat, 0 \in S,
           \A i \in 1..n : i - 1 \in S => i \in S
    PROVE  0..n \subseteq S
<1> SUFFICES ASSUME NEW j \in 0..n, j \notin S PROVE FALSE
    OBVIOUS
<1> DEFINE B == {i \in 0..n : i \notin S}
           x == Min(B)
<1>1. B \subseteq Nat /\ B # {}
    OBVIOUS
<1>2. x \in B /\ \A y \in B : x <= y
    <2> HIDE DEF B
    <2> QED BY <1>1, MinIn
<1> HIDE DEF x
<1>3. x \in 1..n /\ x \notin S
    BY <1>2
<1>4. x - 1 \in 0..n /\ x - 1 \notin B
    BY <1>2, <1>3
<1> QED BY <1>3, <1>4

\* A sequence of steps, each a function, has a run.
IsRun(f, s, n, step) == f = [i \in 0..n |-> IF i = 0 THEN s ELSE step[i][f[i - 1]]]

\* A run exists: one step after the other, from s.
LEMMA Runs ==
    ASSUME NEW T, NEW s \in T, NEW n \in Nat, NEW step \in [1..n -> [T -> T]]
    PROVE  \E f \in [0..n -> T] : IsRun(f, s, n, step)
<1> DEFINE Good(k, f) == IsRun(f, s, k, step)
           S == {k \in 0..n : \E f \in [0..k -> T] : Good(k, f)}
<1>1. 0 \in S
    <2> DEFINE g == [i \in 0..0 |-> s]
    <2>1. g \in [0..0 -> T] /\ Good(0, g)
        BY DEF IsRun
    <2> HIDE DEF Good, g
    <2> QED BY <2>1
<1>2. ASSUME NEW i \in 1..n, i - 1 \in S PROVE i \in S
    <2>1. PICK f \in [0..(i - 1) -> T] : Good(i - 1, f)
        BY <1>2
    <2> DEFINE g == [j \in 0..i |-> IF j = i THEN step[i][f[i - 1]] ELSE f[j]]
    <2>2. step[i][f[i - 1]] \in T
        OBVIOUS
    <2>3. g \in [0..i -> T]
        BY <2>2
    <2>4. ASSUME NEW j \in 0..i PROVE g[j] = IF j = 0 THEN s ELSE step[j][g[j - 1]]
        <3>1. CASE j = i
            BY <3>1
        <3>2. CASE j # i
            <4>1. j \in 0..(i - 1)
                BY <3>2
            <4>2. f[j] = IF j = 0 THEN s ELSE step[j][f[j - 1]]
                BY <2>1, <4>1 DEF IsRun
            <4>3. g[j] = f[j]
                BY <3>2
            <4>4. j # 0 => g[j - 1] = f[j - 1]
                BY <4>1
            <4> QED BY <4>2, <4>3, <4>4
        <3> QED BY <3>1, <3>2
    <2>5. Good(i, g)
        BY <2>3, <2>4 DEF IsRun
    <2> HIDE DEF Good, g
    <2> QED BY <2>3, <2>5
<1>3. n \in S
    <2>1. 0..n \subseteq S
        <3> HIDE DEF S
        <3> QED BY <1>1, <1>2, Induct
    <2> QED BY <2>1
<1> QED BY <1>3

\* ... and then each entry of an unrolled recursion is in T
LEMMA Stays ==
    ASSUME NEW T, NEW n \in Nat, NEW f, f[0] \in T,
           \A i \in 1..n : f[i - 1] \in T => f[i] \in T
    PROVE  \A i \in 0..n : f[i] \in T
<1> DEFINE S == {i \in 0..n : f[i] \in T}
<1>1. 0 \in S /\ \A i \in 1..n : i - 1 \in S => i \in S
    OBVIOUS
<1>2. 0..n \subseteq S
    <2> HIDE DEF S
    <2> QED BY <1>1, Induct
<1> QED BY <1>2

\* Induction over sequences, for a set in the place of a predicate.
LEMMA SeqInduct ==
    ASSUME NEW E, NEW S, <<>> \in S,
           \A w \in Seq(E), e \in E : w \in S => Append(w, e) \in S
    PROVE  Seq(E) \subseteq S
<1> SUFFICES ASSUME NEW w \in Seq(E) PROVE w \in S
    OBVIOUS
<1> DEFINE n == Len(w)
           I == {i \in 0..n : SubSeq(w, 1, i) \in S}
<1>1. n \in Nat
    OBVIOUS
<1>2. 0 \in I
    <2>1. SubSeq(w, 1, 0) = <<>>
        BY SubSeqEmpty
    <2>2. SubSeq(w, 1, 0) \in S
        BY <2>1
    <2> HIDE DEF n
    <2> QED BY <1>1, <2>2
<1>3. ASSUME NEW i \in 1..n, i - 1 \in I PROVE i \in I
    <2>1. SubSeq(w, 1, i) = SubSeq(w, 1, i - 1) \o <<w[i]>>
        BY SubSeqRecursiveSecond, 1 \in 1..n, i \in 1..n
    <2>2. SubSeq(w, 1, i - 1) \in Seq(E) /\ w[i] \in E
        <3>1. \A j \in 1..(i - 1) : w[j] \in E
            OBVIOUS
        <3> QED BY <3>1, SubSeqProperties
    <2>3. SubSeq(w, 1, i) = Append(SubSeq(w, 1, i - 1), w[i])
        BY <2>1, <2>2, AppendIsConcat
    <2>4. Append(SubSeq(w, 1, i - 1), w[i]) \in S
        BY <2>2, <1>3
    <2>5. SubSeq(w, 1, i) \in S
        BY <2>3, <2>4
    <2> HIDE DEF n
    <2> QED BY <1>1, <2>5
<1>4. n \in I
    <2>1. 0..n \subseteq I
        <3> HIDE DEF I, n
        <3> QED BY <1>1, <1>2, <1>3, Induct
    <2> QED BY <2>1, <1>1
<1>5. SubSeq(w, 1, n) = w
    BY SubSeqFull
<1> QED BY <1>4, <1>5

\* Two sequences of steps that agree up to n.
LEMMA Agree ==
    ASSUME NEW n \in Nat, NEW f, NEW g, f[0] = g[0],
           \A i \in 1..n : f[i - 1] = g[i - 1] => f[i] = g[i]
    PROVE  f[n] = g[n]
<1> DEFINE S == {i \in 0..n : f[i] = g[i]}
<1>1. 0 \in S /\ \A i \in 1..n : i - 1 \in S => i \in S
    OBVIOUS
<1>2. 0..n \subseteq S
    <2> HIDE DEF S
    <2> QED BY <1>1, Induct
<1> QED BY <1>2

-----------------------------------------------------------------------------
(* What the operators of Protobuf make of the parts of a message *)

Rec(h, v, u) == [has |-> h, val |-> v, unknown |-> u]

\* The parts of a message.
LEMMA Parts ==
    ASSUME NEW h, NEW v, NEW u
    PROVE  Rec(h, v, u).has = h /\ Rec(h, v, u).val = v /\ Rec(h, v, u).unknown = u
BY DEF Rec

\* Assignments to one part.
SetHas(m, x) == [m EXCEPT !.has = x]
SetVal(m, x) == [m EXCEPT !.val = x]
SetUnknown(m, x) == [m EXCEPT !.unknown = x]

\* An assignment to one part leaves the others.
LEMMA Assigns ==
    ASSUME NEW h, NEW v, NEW u, NEW x
    PROVE  /\ SetHas(Rec(h, v, u), x) = Rec(x, v, u)
           /\ SetVal(Rec(h, v, u), x) = Rec(h, x, u)
           /\ SetUnknown(Rec(h, v, u), x) = Rec(h, v, x)
<1>1. SetHas(Rec(h, v, u), x) = Rec(x, v, u)
    BY DEF Rec, SetHas
<1>2. SetVal(Rec(h, v, u), x) = Rec(h, x, u)
    BY DEF Rec, SetVal
<1>3. SetUnknown(Rec(h, v, u), x) = Rec(h, v, x)
    BY DEF Rec, SetUnknown
<1> QED BY <1>1, <1>2, <1>3

\* Values changed by an accessor, by a merge and by Clear.
With1(v, f, x)       == [v EXCEPT ![f] = x]
Overlaid(v, from, G) == [f \in DOMAIN v |-> IF f \in from.has \cap G THEN from.val[f] ELSE v[f]]
Zeroed(v, G)         == [f \in DOMAIN v |-> IF f \in G THEN 0 ELSE v[f]]

\* A setter stores the value and sets the has bit.
LEMMA PutIs ==
    ASSUME NEW h, NEW v, NEW u, NEW f, NEW x
    PROVE  Put(Rec(h, v, u), f, x) = Rec(h \cup {f}, With1(v, f, x), u)
<1> DEFINE add(s) == s \cup {f}
           in(g) == With1(g, f, x)
           r == Rec(h, v, u)
<1>1. Put(r, f, x) = SetVal(SetHas(r, add(r.has)), in(SetHas(r, add(r.has)).val))
    <2> HIDE DEF r
    <2> QED BY DEF Put, SetVal, SetHas, With1
<1> HIDE DEF add, in
<1>2. Put(r, f, x) = SetVal(SetHas(r, add(h)), in(SetHas(r, add(h)).val))
    <2>1. r.has = h
        BY Parts
    <2> HIDE DEF r
    <2> QED BY <1>1, <2>1
<1>3. SetHas(r, add(h)) = Rec(add(h), v, u)
    BY Assigns
<1>4. Put(r, f, x) = SetVal(Rec(add(h), v, u), in(v))
    BY <1>2, <1>3, Parts
<1>5. Put(r, f, x) = Rec(add(h), in(v), u)
    BY <1>4, Assigns
<1> QED BY <1>5 DEF add, in

\* clear_<field> stores the default and resets the has bit.
LEMMA DropIs ==
    ASSUME NEW h, NEW v, NEW u, NEW f
    PROVE  Drop(Rec(h, v, u), f) = Rec(h \ {f}, With1(v, f, 0), u)
<1> DEFINE cut(s) == s \ {f}
           in(g) == With1(g, f, 0)
           r == Rec(h, v, u)
<1>1. Drop(r, f) = SetVal(SetHas(r, cut(r.has)), in(SetHas(r, cut(r.has)).val))
    <2> HIDE DEF r
    <2> QED BY DEF Drop, SetVal, SetHas, With1
<1> HIDE DEF cut, in
<1>2. Drop(r, f) = SetVal(SetHas(r, cut(h)), in(SetHas(r, cut(h)).val))
    <2>1. r.has = h
        BY Parts
    <2> HIDE DEF r
    <2> QED BY <1>1, <2>1
<1>3. SetHas(r, cut(h)) = Rec(cut(h), v, u)
    BY Assigns
<1>4. Drop(r, f) = SetVal(Rec(cut(h), v, u), in(v))
    BY <1>2, <1>3, Parts
<1>5. Drop(r, f) = Rec(cut(h), in(v), u)
    BY <1>4, Assigns
<1> QED BY <1>5 DEF cut, in

\* The unknown fields of the other message are appended.
LEMMA MergeUnknownIs ==
    ASSUME NEW h, NEW v, NEW u, NEW from
    PROVE  MergeUnknown(Rec(h, v, u), from) = Rec(h, v, u \o from.unknown)
<1> DEFINE cat(s) == s \o from.unknown
<1>1. \A m : MergeUnknown(m, from) = SetUnknown(m, cat(m.unknown))
    BY DEF MergeUnknown, SetUnknown
<1> HIDE DEF cat
<1>2. MergeUnknown(Rec(h, v, u), from) = Rec(h, v, cat(u))
    BY <1>1, Parts, Assigns
<1> QED BY <1>2 DEF cat

\* If no has bit of a group is set, MergeFrom skips the group.
LEMMA MergeNothing ==
    ASSUME NEW m, NEW from, NEW G, from.has \cap G = {}
    PROVE  MergeGroup(m, from, G) = m
BY DEF MergeGroup

\* Otherwise it takes over the values whose has bit is set.
LEMMA MergeGroupIs ==
    ASSUME NEW h, NEW v, NEW u, NEW from, NEW G, from.has \cap G # {}
    PROVE  MergeGroup(Rec(h, v, u), from, G) = Rec(h \cup from.has, Overlaid(v, from, G), u)
<1> DEFINE add(s) == s \cup from.has
           w(x) == Overlaid(x, from, G)
           r == Rec(h, v, u)
<1>1. MergeGroup(r, from, G) = SetVal(SetHas(r, add(r.has)), w(SetHas(r, add(r.has)).val))
    <2> HIDE DEF r
    <2> QED BY DEF MergeGroup, SetVal, SetHas, Overlaid
<1> HIDE DEF add, w
<1>2. MergeGroup(r, from, G) = SetVal(SetHas(r, add(h)), w(SetHas(r, add(h)).val))
    <2>1. r.has = h
        BY Parts
    <2> HIDE DEF r
    <2> QED BY <1>1, <2>1
<1>3. SetHas(r, add(h)) = Rec(add(h), v, u)
    BY Assigns
<1>4. MergeGroup(r, from, G) = SetVal(Rec(add(h), v, u), w(v))
    BY <1>2, <1>3, Parts
<1>5. MergeGroup(r, from, G) = Rec(add(h), w(v), u)
    BY <1>4, Assigns
<1> QED BY <1>5 DEF add, w

\* The end of Clear: no has bit, no unknown field.
LEMMA ClearBitsIs ==
    ASSUME NEW h, NEW v, NEW u
    PROVE  ClearBits(Rec(h, v, u)) = Rec({}, v, <<>>)
<1> DEFINE none == {}
           nil == <<>>
<1>1. \A m : ClearBits(m) = SetUnknown(SetHas(m, none), nil)
    BY DEF ClearBits, SetUnknown, SetHas
<1> HIDE DEF none, nil
<1>2. ClearBits(Rec(h, v, u)) = Rec(none, v, nil)
    BY <1>1, Assigns
<1> QED BY <1>2 DEF none, nil

\* If no has bit of a group is set, Clear skips the group.
LEMMA ClearNothing ==
    ASSUME NEW m, NEW G, m.has \cap G = {}
    PROVE  ClearGroup(m, G) = m
BY DEF ClearGroup

\* Otherwise it resets all values of the group.
LEMMA ClearGroupIs ==
    ASSUME NEW h, NEW v, NEW u, NEW G, h \cap G # {}
    PROVE  ClearGroup(Rec(h, v, u), G) = Rec(h, Zeroed(v, G), u)
<1> DEFINE w(x) == Zeroed(x, G)
<1>1. ClearGroup(Rec(h, v, u), G) = SetVal(Rec(h, v, u), w(Rec(h, v, u).val))
    BY Parts DEF ClearGroup, SetVal, Zeroed
<1> HIDE DEF w
<1>2. ClearGroup(Rec(h, v, u), G) = Rec(h, w(v), u)
    BY <1>1, Parts, Assigns
<1> QED BY <1>2 DEF w

-----------------------------------------------------------------------------
(* Reading the fields of a message without nested messages *)

Msgs(N) == [has : SUBSET N, val : [N -> Nat], unknown : Seq({Foreign})]
Sane(N) == {m \in Msgs(N) : Unstale(m)}
ReadAll(schema, m, u) == Through(LAMBDA acc, e : ReadField(schema, acc, e), m, u)

\* The entries of the fields of a schema, and the one nobody knows.
Fields(schema) == [tag : Tags(schema), v : Nat, sub : {<<>>}]
Readable(schema) == Fields(schema) \cup {Foreign}

\* A schema whose tags tell its fields apart, and end no message.
SchemaOK(schema) ==
    /\ schema \in Seq([name : Names(schema), tag : 1..127])
    /\ \A i, j \in 1..Len(schema) :
         schema[i].name = schema[j].name \/ schema[i].tag = schema[j].tag => i = j
    /\ \A i \in 1..Len(schema) : schema[i].tag # 9 /\ schema[i].tag % 8 # 4

\* Reading an entry of E leaves a message of T in T.
Closed(T, schema, E) == \A m \in T, e \in E : ReadField(schema, m, e) \in T

\* The messages in the course of a parse.
ReadRun(g, T, schema, m, u) ==
    /\ g \in [0..Len(u) -> T]
    /\ g[0] = m
    /\ \A i \in 1..Len(u) : g[i] = ReadField(schema, g[i - 1], u[i])
    /\ g[Len(u)] = ReadAll(schema, m, u)

\* Every parse has such a course.
LEMMA ReadUnroll ==
    ASSUME NEW T, NEW schema, NEW m \in T, NEW E, NEW u \in Seq(E),
           Closed(T, schema, E)
    PROVE  \E g : ReadRun(g, T, schema, m, u)
<1> DEFINE n == Len(u)
           F(f) == [i \in 0..n |-> IF i = 0 THEN m ELSE ReadField(schema, f[i - 1], u[i])]
           P(f) == f = F(f)
           after == CHOOSE f : P(f)
           step == [i \in 1..n |-> [x \in T |-> ReadField(schema, x, u[i])]]
<1>1. n \in Nat
    OBVIOUS
<1>2. step \in [1..n -> [T -> T]]
    BY DEF Closed
<1>3. PICK g \in [0..n -> T] : IsRun(g, m, n, step)
    <2> HIDE DEF step, n
    <2> QED BY <1>1, <1>2, Runs
<1>4. P(g)
    <2>1. ASSUME NEW i \in 0..n PROVE g[i] = IF i = 0 THEN m ELSE ReadField(schema, g[i - 1], u[i])
        <3>1. CASE i = 0
            BY <1>3, <3>1 DEF IsRun
        <3>2. CASE i # 0
            <4>1. i \in 1..n /\ i - 1 \in 0..n
                BY <1>1, <3>2
            <4>2. g[i - 1] \in T
                BY <4>1
            <4>3. g[i] = step[i][g[i - 1]]
                BY <1>3, <3>2 DEF IsRun
            <4>4. step[i][g[i - 1]] = ReadField(schema, g[i - 1], u[i])
                BY <4>1, <4>2
            <4> QED BY <3>2, <4>3, <4>4
        <3> QED BY <3>1, <3>2
    <2> QED BY <1>3, <2>1 DEF IsRun
<1>5. P(after)
    <2> HIDE DEF P
    <2> QED BY <1>4
<1>6. after[n] = ReadAll(schema, m, u)
    BY DEF ReadAll, Through
<1> HIDE DEF after
<1>7. /\ after[0] = m
      /\ \A i \in 1..n : after[i] = ReadField(schema, after[i - 1], u[i])
      /\ DOMAIN after = 0..n
    BY <1>1, <1>5
<1>8. \A i \in 0..n : after[i] \in T
    <2>1. \A i \in 1..n : after[i - 1] \in T => after[i] \in T
        <3> SUFFICES ASSUME NEW i \in 1..n, after[i - 1] \in T PROVE after[i] \in T
            OBVIOUS
        <3>1. u[i] \in E
            OBVIOUS
        <3> HIDE DEF n
        <3> QED BY <1>7, <3>1 DEF Closed
    <2> HIDE DEF n
    <2> QED BY <1>1, <1>7, <2>1, Stays
<1>9. after \in [0..n -> T]
    BY <1>5, <1>8
<1>10. ReadRun(after, T, schema, m, u)
    BY <1>6, <1>7, <1>9 DEF ReadRun
<1> QED BY <1>10

\* Nothing read, and one more entry read.
LEMMA ReadNil ==
    ASSUME NEW schema, NEW m
    PROVE  ReadAll(schema, m, <<>>) = m
<1>1. m \in {m} /\ <<>> \in Seq({}) /\ Closed({m}, schema, {})
    BY DEF Closed
<1>2. PICK g : ReadRun(g, {m}, schema, m, <<>>)
    BY <1>1, ReadUnroll
<1> QED BY <1>2 DEF ReadRun

\* The message that was read is one of T.
LEMMA ReadStays ==
    ASSUME NEW T, NEW schema, NEW m \in T, NEW E, NEW u \in Seq(E), Closed(T, schema, E)
    PROVE  ReadAll(schema, m, u) \in T
<1>1. PICK g : ReadRun(g, T, schema, m, u)
    BY ReadUnroll
<1> QED BY <1>1 DEF ReadRun

\* One more entry is read after the others.
LEMMA ReadSnoc ==
    ASSUME NEW T, NEW schema, NEW E, Closed(T, schema, E)
    PROVE  \A m \in T : \A u \in Seq(E) : \A e \in E :
              ReadAll(schema, m, Append(u, e)) = ReadField(schema, ReadAll(schema, m, u), e)
<1> SUFFICES ASSUME NEW m \in T, NEW u \in Seq(E), NEW e \in E
             PROVE  ReadAll(schema, m, Append(u, e)) = ReadField(schema, ReadAll(schema, m, u), e)
    OBVIOUS
<1> DEFINE n == Len(u)
           v == Append(u, e)
<1>1. n \in Nat /\ v \in Seq(E) /\ Len(v) = n + 1 /\ v[n + 1] = e /\ \A i \in 1..n : v[i] = u[i]
    OBVIOUS
<1> HIDE DEF v
<1>2. PICK f : ReadRun(f, T, schema, m, u)
    BY ReadUnroll
<1>3. PICK g : ReadRun(g, T, schema, m, v)
    BY <1>1, ReadUnroll
<1>4. /\ f[0] = m /\ \A i \in 1..n : f[i] = ReadField(schema, f[i - 1], u[i])
      /\ f[n] = ReadAll(schema, m, u) /\ f[n] \in T
    BY <1>1, <1>2 DEF ReadRun
<1>5. /\ g[0] = m /\ \A i \in 1..(n + 1) : g[i] = ReadField(schema, g[i - 1], v[i])
      /\ g[n + 1] = ReadAll(schema, m, v)
    BY <1>1, <1>3 DEF ReadRun
<1> HIDE DEF n
<1>6. \A i \in 1..n : f[i - 1] = g[i - 1] => f[i] = g[i]
    BY <1>1, <1>4, <1>5
<1>7. f[n] = g[n]
    BY <1>1, <1>4, <1>5, <1>6, Agree
<1>8. g[n + 1] = ReadField(schema, g[n], e)
    BY <1>1, <1>5
<1> QED BY <1>4, <1>5, <1>7, <1>8 DEF v

\* A zero or an end-group tag is not read, nor what follows it.
LEMMA UpToEndReads ==
    ASSUME NEW E, NEW w \in Seq(E)
    PROVE  UpToEnd(w) \in Seq({e \in E : ~EndsMessage(e)})
<1> DEFINE ends == {i \in 1..Len(w) : EndsMessage(w[i])}
           F == {e \in E : ~EndsMessage(e)}
           n == Len(w)
<1>0. n \in Nat
    OBVIOUS
<1>1. CASE ends = {}
    <2>1. \A i \in 1..n : w[i] \in F
        BY <1>1
    <2>2. SubSeq(w, 1, n) \in Seq(F)
        <3> HIDE DEF F, n
        <3> QED BY <1>0, <2>1, SubSeqProperties
    <2>3. SubSeq(w, 1, n) = w
        BY SubSeqFull
    <2> QED BY <1>1, <2>2, <2>3 DEF UpToEnd
<1>2. CASE ends # {}
    <2> DEFINE k == Min(ends)
               j == k - 1
    <2>1. ends \subseteq Nat
        OBVIOUS
    <2>2. k \in ends /\ \A i \in ends : k <= i
        <3> HIDE DEF ends
        <3> QED BY <1>2, <2>1, MinIn
    <2>3. UpToEnd(w) = SubSeq(w, 1, j)
        BY <1>2 DEF UpToEnd
    <2>4. k \in 1..n
        BY <2>2
    <2> HIDE DEF k
    <2>5. j \in Int /\ \A i \in 1..j : w[i] \in F
        BY <1>0, <2>2, <2>4
    <2> HIDE DEF F, j
    <2>6. SubSeq(w, 1, j) \in Seq(F)
        BY <2>5, SubSeqProperties
    <2> QED BY <2>3, <2>6 DEF F
<1> QED BY <1>1, <1>2

\* A message in which nothing ends it is read as a whole.
LEMMA UpToEndAll ==
    ASSUME NEW E, NEW w \in Seq(E), \A e \in E : ~EndsMessage(e)
    PROVE  UpToEnd(w) = w
<1>1. {i \in 1..Len(w) : EndsMessage(w[i])} = {}
    OBVIOUS
<1> QED BY <1>1 DEF UpToEnd

\* The name that goes with a tag.
LEMMA NameOfField ==
    ASSUME NEW schema, SchemaOK(schema), NEW i \in 1..Len(schema)
    PROVE  /\ NameOf(schema, schema[i].tag) = schema[i].name
           /\ schema[i].tag \in Tags(schema) /\ schema[i].name \in Names(schema)
           /\ schema[i].tag \in 1..127 /\ schema[i].tag # 9 /\ schema[i].tag % 8 # 4
<1>1. schema[i] \in Range(schema)
    BY DEF Range, SchemaOK
<1>2. \A f \in Range(schema) : f.tag = schema[i].tag => f = schema[i]
    BY DEF Range, SchemaOK
<1>3. (CHOOSE f \in Range(schema) : f.tag = schema[i].tag) = schema[i]
    BY <1>1, <1>2
<1>4. schema[i].tag \in Tags(schema) /\ schema[i].name \in Names(schema)
    BY DEF Tags, Names
<1>5. schema[i] \in [name : Names(schema), tag : 1..127]
    <2> DEFINE R == [name : Names(schema), tag : 1..127]
    <2>1. schema \in Seq(R)
        BY DEF SchemaOK
    <2> HIDE DEF R
    <2>2. schema[i] \in R
        BY <2>1, ElementOfSeq
    <2> QED BY <2>2 DEF R
<1>6. schema[i].tag \in 1..127
    BY <1>5
<1>7. schema[i].tag # 9 /\ schema[i].tag % 8 # 4
    BY DEF SchemaOK
<1> QED BY <1>3, <1>4, <1>6, <1>7 DEF NameOf

\* The same for a tag of the schema.
LEMMA TagsOf ==
    ASSUME NEW schema, SchemaOK(schema), NEW t \in Tags(schema)
    PROVE  /\ NameOf(schema, t) \in Names(schema)
           /\ t \in 1..127 /\ t # 9 /\ t % 8 # 4
BY NameOfField DEF Tags

\* One entry read, of a field or unknown.
LEMMA ReadFieldSane ==
    ASSUME NEW schema, SchemaOK(schema)
    PROVE  Closed(Sane(Names(schema)), schema, Readable(schema))
<1> SUFFICES ASSUME NEW m \in Sane(Names(schema)), NEW e \in Readable(schema)
             PROVE  ReadField(schema, m, e) \in Sane(Names(schema))
    BY DEF Closed
<1> DEFINE N == Names(schema)
<1>1. CASE e \in Fields(schema)
    <2> DEFINE f == NameOf(schema, e.tag)
    <2>1. f \in N /\ e.tag \in Tags(schema) /\ e.v \in Nat
        BY <1>1, TagsOf DEF Fields
    <2>2. ReadField(schema, m, e) = Put(m, f, e.v)
        BY <2>1 DEF ReadField
    <2> HIDE DEF f, N
    <2>3. m.has \cup {f} \subseteq N /\ [m.val EXCEPT ![f] = e.v] \in [N -> Nat]
        BY <2>1 DEF Sane, Msgs, N
    <2>4. Put(m, f, e.v) \in Msgs(N)
        BY <2>3 DEF Put, Sane, Msgs, N
    <2>5. Unstale(Put(m, f, e.v))
        BY <2>1 DEF Put, Sane, Msgs, Unstale, N
    <2> QED BY <2>2, <2>4, <2>5 DEF Sane, N
<1>2. CASE e = Foreign
    <2>1. e.tag \notin Tags(schema)
        BY <1>2, TagsOf DEF Foreign, Entry
    <2>2. ReadField(schema, m, e) = [m EXCEPT !.unknown = Append(@, e)]
        BY <2>1 DEF ReadField
    <2>3. Append(m.unknown, e) \in Seq({Foreign})
        BY <1>2 DEF Sane, Msgs
    <2> HIDE DEF N
    <2> QED BY <2>2, <2>3 DEF Sane, Msgs, Unstale, N
<1> QED BY <1>1, <1>2 DEF Readable

\* A message read from whatever arrives is a sane one.
LEMMA ReadAllSane ==
    ASSUME NEW schema, SchemaOK(schema), NEW m \in Sane(Names(schema)), NEW u \in Seq(Readable(schema))
    PROVE  ReadAll(schema, m, u) \in Sane(Names(schema))
<1>1. Foreign \in Readable(schema)
    BY DEF Readable
<1> QED BY <1>1, ReadFieldSane, ReadStays

\* _InternalParse leaves a field that is not set at its default.
LEMMA ReadFieldsSane ==
    ASSUME NEW schema, SchemaOK(schema), NEW m \in Sane(Names(schema)),
           NEW w \in Seq(Readable(schema) \cup {EndGroup})
    PROVE  ReadFields(schema, m, w) \in Sane(Names(schema))
<1>1. EndsMessage(EndGroup)
    BY DEF EndsMessage, EndGroup, Entry
<1>2. {e \in Readable(schema) \cup {EndGroup} : ~EndsMessage(e)} \subseteq Readable(schema)
    BY <1>1
<1>3. UpToEnd(w) \in Seq({e \in Readable(schema) \cup {EndGroup} : ~EndsMessage(e)})
    BY UpToEndReads
<1>4. UpToEnd(w) \in Seq(Readable(schema))
    BY <1>2, <1>3, SeqMonotonic
<1> QED BY <1>4, ReadAllSane DEF ReadFields, ReadAll

-----------------------------------------------------------------------------
(* The classes *)

Own(c) == Names(ClassSchema(c))

\* The tags in the parse loops of the classes are distinct, and none ends a message.
LEMMA Schemas == \A c \in FlatClasses : SchemaOK(ClassSchema(c))
<1>1. SchemaOK(Counter!Schema)
    <2> DEFINE s == Counter!Schema
    <2> DEFINE R == [name : Names(s), tag : 1..127]
    <2>1. s \in Seq(R)
        <3>1. \A a \in Names(s), t \in 1..127 : Counter!Field(a, t) \in R
            BY DEF Counter!Field
        <3>2. {"count"} \subseteq Names(s)
            BY DEF Names, Counter!Schema, Counter!Field
        <3> HIDE DEF R
        <3> QED BY <3>1, <3>2 DEF Counter!Schema
    <2>2. Len(s) = 1
        BY DEF Counter!Schema
    <2>3. /\ s[1].name = "count" /\ s[1].tag = 8
        BY DEF Counter!Schema, Counter!Field
    <2> HIDE DEF s
    <2>4. 1..1 = {1}
        OBVIOUS
    <2>5. \A i, j \in 1..1 : s[i].name = s[j].name \/ s[i].tag = s[j].tag => i = j
        BY <2>3, <2>4
    <2>6. \A i \in 1..1 : s[i].tag # 9 /\ s[i].tag % 8 # 4
        BY <2>3, <2>4
    <2> HIDE DEF R
    <2>7. SchemaOK(s)
        BY <2>1, <2>2, <2>5, <2>6 DEF SchemaOK, R
    <2> QED BY <2>7 DEF s
<1>2. SchemaOK(Stopwatch!Schema)
    <2> DEFINE s == Stopwatch!Schema
    <2> DEFINE R == [name : Names(s), tag : 1..127]
    <2>1. s \in Seq(R)
        <3>1. \A a \in Names(s), t \in 1..127 : Stopwatch!Field(a, t) \in R
            BY DEF Stopwatch!Field
        <3>2. {"runtime_ns"} \subseteq Names(s)
            BY DEF Names, Stopwatch!Schema, Stopwatch!Field
        <3> HIDE DEF R
        <3> QED BY <3>1, <3>2 DEF Stopwatch!Schema
    <2>2. Len(s) = 1
        BY DEF Stopwatch!Schema
    <2>3. /\ s[1].name = "runtime_ns" /\ s[1].tag = 8
        BY DEF Stopwatch!Schema, Stopwatch!Field
    <2> HIDE DEF s
    <2>4. 1..1 = {1}
        OBVIOUS
    <2>5. \A i, j \in 1..1 : s[i].name = s[j].name \/ s[i].tag = s[j].tag => i = j
        BY <2>3, <2>4
    <2>6. \A i \in 1..1 : s[i].tag # 9 /\ s[i].tag % 8 # 4
        BY <2>3, <2>4
    <2> HIDE DEF R
    <2>7. SchemaOK(s)
        BY <2>1, <2>2, <2>5, <2>6 DEF SchemaOK, R
    <2> QED BY <2>7 DEF s
<1>3. SchemaOK(Remote!Schema)
    <2> DEFINE s == Remote!Schema
    <2> DEFINE R == [name : Names(s), tag : 1..127]
    <2>1. s \in Seq(R)
        <3>1. \A a \in Names(s), t \in 1..127 : Remote!Field(a, t) \in R
            BY DEF Remote!Field
        <3>2. {"id", "raddr", "size", "lkey", "rkey"} \subseteq Names(s)
            BY DEF Names, Remote!Schema, Remote!Field
        <3> HIDE DEF R
        <3> QED BY <3>1, <3>2 DEF Remote!Schema
    <2>2. Len(s) = 5
        BY DEF Remote!Schema
    <2>3. /\ s[1].name = "id" /\ s[1].tag = 10
          /\ s[2].name = "raddr" /\ s[2].tag = 16
          /\ s[3].name = "size" /\ s[3].tag = 24
          /\ s[4].name = "lkey" /\ s[4].tag = 32
          /\ s[5].name = "rkey" /\ s[5].tag = 40
        BY DEF Remote!Schema, Remote!Field
    <2> HIDE DEF s
    <2>4. 1..5 = {1, 2, 3, 4, 5}
        OBVIOUS
    <2>5. \A i, j \in 1..5 : s[i].name = s[j].name \/ s[i].tag = s[j].tag => i = j
        BY <2>3, <2>4
    <2>6. \A i \in 1..5 : s[i].tag # 9 /\ s[i].tag % 8 # 4
        BY <2>3, <2>4
    <2> HIDE DEF R
    <2>7. SchemaOK(s)
        BY <2>1, <2>2, <2>5, <2>6 DEF SchemaOK, R
    <2> QED BY <2>7 DEF s
<1>4. SchemaOK(Summary!Schema)
    <2> DEFINE s == Summary!Schema
    <2> DEFINE R == [name : Names(s), tag : 1..127]
    <2>1. s \in Seq(R)
        <3>1. \A a \in Names(s), t \in 1..127 : Summary!Field(a, t) \in R
            BY DEF Summary!Field
        <3>2. {"units", "mean", "stddev", "min", "p50", "p90", "p95", "p99", "p999", "max", "count"} \subseteq Names(s)
            BY DEF Names, Summary!Schema, Summary!Field
        <3> HIDE DEF R
        <3> QED BY <3>1, <3>2 DEF Summary!Schema
    <2>2. Len(s) = 11
        BY DEF Summary!Schema
    <2>3. /\ s[1].name = "units" /\ s[1].tag = 10
          /\ s[2].name = "mean" /\ s[2].tag = 17
          /\ s[3].name = "stddev" /\ s[3].tag = 25
          /\ s[4].name = "min" /\ s[4].tag = 33
          /\ s[5].name = "p50" /\ s[5].tag = 49
          /\ s[6].name = "p90" /\ s[6].tag = 57
          /\ s[7].name = "p95" /\ s[7].tag = 65
          /\ s[8].name = "p99" /\ s[8].tag = 73
          /\ s[9].name = "p999" /\ s[9].tag = 81
          /\ s[10].name = "max" /\ s[10].tag = 89
          /\ s[11].name = "count" /\ s[11].tag = 96
        BY DEF Summary!Schema, Summary!Field
    <2> HIDE DEF s
    <2>4. 1..11 = {1, 2, 3, 4, 5, 6, 7, 8, 9, 10, 11}
        OBVIOUS
    <2>5. \A i, j \in 1..11 : s[i].name = s[j].name \/ s[i].tag = s[j].tag => i = j
        BY <2>3, <2>4
    <2>6. \A i \in 1..11 : s[i].tag # 9 /\ s[i].tag % 8 # 4
        BY <2>3, <2>4
    <2> HIDE DEF R
    <2>7. SchemaOK(s)
        BY <2>1, <2>2, <2>5, <2>6 DEF SchemaOK, R
    <2> QED BY <2>7 DEF s
<1> QED BY <1>1, <1>2, <1>3, <1>4 DEF FlatClasses, ClassSchema

\* The names of the fields.
LEMMA OwnNames ==
    /\ Own("counter") = {"count"}
    /\ Own("stopwatch") = {"runtime_ns"}
    /\ Own("remote") = {"id", "raddr", "size", "lkey", "rkey"}
    /\ Own("summary") = {"units", "mean", "stddev", "min", "p50", "p90", "p95", "p99", "p999", "max", "count"}
<1>1. Own("counter") = {"count"}
    BY DEF Own, ClassSchema, Names, Counter!Schema, Counter!Field
<1>2. Own("stopwatch") = {"runtime_ns"}
    BY DEF Own, ClassSchema, Names, Stopwatch!Schema, Stopwatch!Field
<1>3. Own("remote") = {"id", "raddr", "size", "lkey", "rkey"}
    BY DEF Own, ClassSchema, Names, Remote!Schema, Remote!Field
<1>4. Own("summary") = {"units", "mean", "stddev", "min", "p50", "p90", "p95", "p99", "p999", "max", "count"}
    BY DEF Own, ClassSchema, Names, Summary!Schema, Summary!Field
<1> QED BY <1>1, <1>2, <1>3, <1>4

\* All classes read and write their fields in the same way.
LEMMA ClassParseIs ==
    ASSUME NEW c \in FlatClasses, NEW m, NEW w
    PROVE  ClassParse(c, m, w) = ReadFields(ClassSchema(c), m, w)
<1>1. Counter!InternalParse(m, w) = ReadFields(Counter!Schema, m, w)
    BY DEF Counter!InternalParse, Counter!ReadFields, Counter!Through, Counter!ReadField, Counter!UpToEnd,
           Counter!EndsMessage, Counter!Min, Counter!Tags, Counter!NameOf, Counter!Put, Counter!Range,
           ReadFields, Through, ReadField, UpToEnd, EndsMessage, Min, Tags, NameOf, Put, Range
<1>2. Stopwatch!InternalParse(m, w) = ReadFields(Stopwatch!Schema, m, w)
    BY DEF Stopwatch!InternalParse, Stopwatch!ReadFields, Stopwatch!Through, Stopwatch!ReadField,
           Stopwatch!UpToEnd, Stopwatch!EndsMessage, Stopwatch!Min, Stopwatch!Tags, Stopwatch!NameOf,
           Stopwatch!Put, Stopwatch!Range,
           ReadFields, Through, ReadField, UpToEnd, EndsMessage, Min, Tags, NameOf, Put, Range
<1>3. Summary!InternalParse(m, w) = ReadFields(Summary!Schema, m, w)
    BY DEF Summary!InternalParse, Summary!ReadFields, Summary!Through, Summary!ReadField, Summary!UpToEnd,
           Summary!EndsMessage, Summary!Min, Summary!Tags, Summary!NameOf, Summary!Put, Summary!Range,
           ReadFields, Through, ReadField, UpToEnd, EndsMessage, Min, Tags, NameOf, Put, Range
<1>4. Remote!InternalParse(m, w) = ReadFields(Remote!Schema, m, w)
    BY DEF Remote!InternalParse, Remote!ReadFields, Remote!Through, Remote!ReadField, Remote!UpToEnd,
           Remote!EndsMessage, Remote!Min, Remote!Tags, Remote!NameOf, Remote!Put, Remote!Range,
           ReadFields, Through, ReadField, UpToEnd, EndsMessage, Min, Tags, NameOf, Put, Range
<1> QED BY <1>1, <1>2, <1>3, <1>4 DEF FlatClasses, ClassParse, ClassSchema

\* All classes write the fields of their schema in order, then the unknown ones.
LEMMA ClassSerializeIs ==
    ASSUME NEW c \in FlatClasses, NEW m
    PROVE  ClassSerialize(c, m) = Written(ClassSchema(c), m)
<1>1. Counter!InternalSerialize(m) = Written(Counter!Schema, m)
    BY DEF Counter!InternalSerialize, Counter!Written, Counter!Through, Counter!Entry, Written, Through, Entry
<1>2. Stopwatch!InternalSerialize(m) = Written(Stopwatch!Schema, m)
    BY DEF Stopwatch!InternalSerialize, Stopwatch!Written, Stopwatch!Through, Stopwatch!Entry,
           Written, Through, Entry
<1>3. Summary!InternalSerialize(m) = Written(Summary!Schema, m)
    BY DEF Summary!InternalSerialize, Summary!Written, Summary!Through, Summary!Entry, Written, Through, Entry
<1>4. Remote!InternalSerialize(m) = Written(Remote!Schema, m)
    BY DEF Remote!InternalSerialize, Remote!Written, Remote!Through, Remote!Entry, Written, Through, Entry
<1> QED BY <1>1, <1>2, <1>3, <1>4 DEF FlatClasses, ClassSerialize, ClassSchema

\* A constructor sets nothing.
LEMMA ClassNewIs ==
    ASSUME NEW c \in FlatClasses
    PROVE  ClassNew(c) = Fresh(ClassSchema(c))
BY DEF FlatClasses, ClassNew, ClassSchema, Counter!New, Stopwatch!New, Summary!New, Remote!New, Fresh, Names,
       Counter!Fresh, Stopwatch!Fresh, Summary!Fresh, Remote!Fresh,
       Counter!Names, Stopwatch!Names, Summary!Names, Remote!Names

\* What is not set of a new message has its default.
LEMMA FreshSane ==
    ASSUME NEW schema
    PROVE  Fresh(schema) \in Sane(Names(schema))
<1>1. <<>> \in Seq({Foreign})
    OBVIOUS
<1>2. [f \in Names(schema) |-> 0] \in [Names(schema) -> Nat]
    OBVIOUS
<1> QED BY <1>1, <1>2 DEF Fresh, Sane, Msgs, Unstale

\* Two messages with the same fields are the same message.
LEMMA MsgEqual ==
    ASSUME NEW N, NEW a \in Msgs(N), NEW b \in Msgs(N), a.has = b.has, a.unknown = b.unknown,
           \A f \in N : a.val[f] = b.val[f]
    PROVE  a = b
<1>1. a.val \in [N -> Nat] /\ b.val \in [N -> Nat]
    BY DEF Msgs
<1>2. a.val = b.val
    BY <1>1
<1> QED BY <1>2 DEF Msgs

\* A message is put together of its parts.
LEMMA RecOf ==
    ASSUME NEW N, NEW m \in Msgs(N)
    PROVE  m = Rec(m.has, m.val, m.unknown)
BY DEF Msgs, Rec

\* What a merge amounts to.
Joined(to, from) ==
    [has |-> to.has \cup from.has,
     val |-> [f \in DOMAIN to.val |-> IF f \in from.has THEN from.val[f] ELSE to.val[f]],
     unknown |-> to.unknown \o from.unknown]

\* A merge leaves a field that is not set at its default.
LEMMA JoinedSane ==
    ASSUME NEW N, NEW to \in Sane(N), NEW from \in Sane(N)
    PROVE  Joined(to, from) \in Sane(N)
<1> DEFINE U == Seq({Foreign})
           v == [f \in DOMAIN to.val |-> IF f \in from.has THEN from.val[f] ELSE to.val[f]]
<1>1. to.unknown \in U /\ from.unknown \in U
    BY DEF Sane, Msgs
<1>2. to.unknown \o from.unknown \in U
    BY <1>1, ConcatProperties
<1>3. to.val \in [N -> Nat] /\ from.val \in [N -> Nat] /\ to.has \subseteq N /\ from.has \subseteq N
    BY DEF Sane, Msgs
<1>4. v \in [N -> Nat] /\ \A f \in N : v[f] = IF f \in from.has THEN from.val[f] ELSE to.val[f]
    BY <1>3
<1>5. Unstale(to)
    BY DEF Sane
<1>6. Joined(to, from) = [has |-> to.has \cup from.has, val |-> v, unknown |-> to.unknown \o from.unknown]
    BY DEF Joined
<1> HIDE DEF U, v
<1>7. Joined(to, from) \in Msgs(N)
    BY <1>2, <1>3, <1>4, <1>6 DEF Msgs, U
<1>8. Unstale(Joined(to, from))
    BY <1>3, <1>4, <1>5, <1>6 DEF Unstale
<1> QED BY <1>7, <1>8 DEF Sane

\* A merge into a message that is empty.
LEMMA JoinedFresh ==
    ASSUME NEW schema, NEW from \in Sane(Names(schema))
    PROVE  Joined(Fresh(schema), from) = from
<1> DEFINE N == Names(schema)
           j == Joined(Fresh(schema), from)
<1>1. Fresh(schema) \in Sane(N)
    BY FreshSane
<1>2. j \in Msgs(N) /\ from \in Msgs(N)
    BY <1>1, JoinedSane DEF Sane
<1>3. from.unknown \in Seq({Foreign})
    BY <1>2 DEF Msgs
<1>4. j.unknown = from.unknown
    BY <1>3, ConcatEmptySeq DEF Joined, Fresh
<1>5. j.has = from.has
    BY DEF Joined, Fresh
<1>6. from.val \in [N -> Nat] /\ Unstale(from)
    BY DEF Sane, Msgs
<1>7. \A f \in N : j.val[f] = from.val[f]
    BY <1>6 DEF Joined, Fresh, Unstale
<1> HIDE DEF j, N
<1>8. j = from
    BY <1>2, <1>4, <1>5, <1>7, MsgEqual
<1> QED BY <1>8 DEF j

\* What a message of a class is.
LEMMA Sanely ==
    ASSUME NEW N, NEW m \in Sane(N)
    PROVE  /\ m = Rec(m.has, m.val, m.unknown)
           /\ m.has \subseteq N /\ m.val \in [N -> Nat] /\ m.unknown \in Seq({Foreign})
           /\ \A f \in N : f \notin m.has => m.val[f] = 0
<1>1. m \in Msgs(N) /\ Unstale(m)
    BY DEF Sane
<1> QED BY <1>1, RecOf DEF Msgs, Unstale

\* Merging a group of fields, and merging the rest of the message.
LEMMA JoinedIs ==
    ASSUME NEW N, NEW to \in Sane(N), NEW from \in Sane(N), NEW G, from.has \subseteq G
    PROVE  /\ Joined(to, from)
                = Rec(to.has \cup from.has, Overlaid(to.val, from, G), to.unknown \o from.unknown)
           /\ from.has = {} => Overlaid(to.val, from, G) = to.val
<1>1. to.val \in [N -> Nat]
    BY Sanely
<1>2. from.has \cap G = from.has
    OBVIOUS
<1>3. Joined(to, from) = Rec(to.has \cup from.has, Overlaid(to.val, from, G), to.unknown \o from.unknown)
    BY <1>2 DEF Joined, Rec, Overlaid
<1>4. from.has = {} => Overlaid(to.val, from, G) = to.val
    BY <1>1 DEF Overlaid
<1> QED BY <1>3, <1>4

\* One group that covers all fields, and the unknown ones, is the merge.
LEMMA GroupThenRest ==
    ASSUME NEW N, NEW to \in Sane(N), NEW from \in Sane(N), NEW G, from.has \subseteq G
    PROVE  MergeUnknown(MergeGroup(to, from, G), from) = Joined(to, from)
<1>1. to = Rec(to.has, to.val, to.unknown)
    BY Sanely
<1>2. MergeGroup(to, from, G) = Rec(to.has \cup from.has, Overlaid(to.val, from, G), to.unknown)
    <2>1. CASE from.has = {}
        <3>1. from.has \cap G = {} /\ to.has \cup from.has = to.has
            BY <2>1
        <3>2. Overlaid(to.val, from, G) = to.val
            BY <2>1, JoinedIs
        <3>3. MergeGroup(to, from, G) = to
            BY <3>1, MergeNothing
        <3> QED BY <1>1, <3>1, <3>2, <3>3
    <2>2. CASE from.has # {}
        <3>1. from.has \cap G # {}
            BY <2>2
        <3>2. MergeGroup(Rec(to.has, to.val, to.unknown), from, G)
                = Rec(to.has \cup from.has, Overlaid(to.val, from, G), to.unknown)
            BY <3>1, MergeGroupIs
        <3> QED BY <1>1, <3>2
    <2> QED BY <2>1, <2>2
<1>3. MergeUnknown(Rec(to.has \cup from.has, Overlaid(to.val, from, G), to.unknown), from)
        = Rec(to.has \cup from.has, Overlaid(to.val, from, G), to.unknown \o from.unknown)
    BY MergeUnknownIs
<1>4. Joined(to, from) = Rec(to.has \cup from.has, Overlaid(to.val, from, G), to.unknown \o from.unknown)
    BY JoinedIs
<1> QED BY <1>2, <1>3, <1>4

\* Merging two groups one after the other is merging both at once.
LEMMA TwoGroups ==
    ASSUME NEW N, NEW to \in Sane(N), NEW from \in Sane(N), NEW L, NEW H
    PROVE  MergeGroup(MergeGroup(to, from, L), from, H) = MergeGroup(to, from, L \cup H)
<1> DEFINE h == to.has \cup from.has
           r(G) == Rec(h, Overlaid(to.val, from, G), to.unknown)
<1>1. to = Rec(to.has, to.val, to.unknown) /\ to.val \in [N -> Nat]
    BY Sanely
<1>2. \A G : /\ from.has \cap G = {} => MergeGroup(to, from, G) = to
             /\ from.has \cap G # {} => MergeGroup(to, from, G) = r(G)
    <2> SUFFICES ASSUME NEW G
                 PROVE  /\ from.has \cap G = {} => MergeGroup(to, from, G) = to
                        /\ from.has \cap G # {} => MergeGroup(to, from, G) = r(G)
        OBVIOUS
    <2>1. /\ from.has \cap G = {} => MergeGroup(to, from, G) = to
          /\ from.has \cap G # {} =>
               MergeGroup(Rec(to.has, to.val, to.unknown), from, G)
                 = Rec(to.has \cup from.has, Overlaid(to.val, from, G), to.unknown)
        BY MergeNothing, MergeGroupIs
    <2> QED BY <1>1, <2>1
<1>3. /\ from.has \cap H = {} => MergeGroup(r(L), from, H) = r(L)
      /\ from.has \cap H # {} => MergeGroup(r(L), from, H) = r(L \cup H)
    <2>1. h \cup from.has = h
        OBVIOUS
    <2>2. Overlaid(Overlaid(to.val, from, L), from, H) = Overlaid(to.val, from, L \cup H)
        BY <1>1 DEF Overlaid
    <2> HIDE DEF h
    <2>3. from.has \cap H = {} => MergeGroup(r(L), from, H) = r(L)
        BY MergeNothing
    <2>4. from.has \cap H # {} =>
            MergeGroup(r(L), from, H)
              = Rec(h \cup from.has, Overlaid(Overlaid(to.val, from, L), from, H), to.unknown)
        BY MergeGroupIs
    <2> QED BY <2>1, <2>2, <2>3, <2>4
<1>4. from.has \cap L = {} => r(H) = r(L \cup H)
    <2>1. from.has \cap L = {} => Overlaid(to.val, from, H) = Overlaid(to.val, from, L \cup H)
        BY <1>1 DEF Overlaid
    <2> QED BY <2>1
<1>5. from.has \cap H = {} => r(L) = r(L \cup H)
    <2>1. from.has \cap H = {} => Overlaid(to.val, from, L) = Overlaid(to.val, from, L \cup H)
        BY <1>1 DEF Overlaid
    <2> QED BY <2>1
<1> HIDE DEF r
<1>6. CASE from.has \cap L = {} /\ from.has \cap H = {}
    <2>1. from.has \cap (L \cup H) = {}
        BY <1>6
    <2> QED BY <1>2, <1>6, <2>1
<1>7. CASE from.has \cap L = {} /\ from.has \cap H # {}
    <2>1. from.has \cap (L \cup H) # {}
        BY <1>7
    <2> QED BY <1>2, <1>4, <1>7, <2>1
<1>8. CASE from.has \cap L # {}
    <2>1. from.has \cap (L \cup H) # {}
        BY <1>8
    <2>2. MergeGroup(MergeGroup(to, from, L), from, H) = r(L \cup H)
        BY <1>2, <1>3, <1>5, <1>8
    <2> QED BY <1>2, <2>1, <2>2
<1> QED BY <1>6, <1>7, <1>8

\* Merging a single field.
LEMMA OneField ==
    ASSUME NEW f, NEW to \in Sane({f}), NEW from \in Sane({f})
    PROVE  MergeUnknown(IF f \in from.has THEN Put(to, f, from.val[f]) ELSE to, from) = Joined(to, from)
<1>1. to = Rec(to.has, to.val, to.unknown) /\ to.val \in [{f} -> Nat] /\ from.has \subseteq {f}
    BY Sanely
<1>2. CASE f \in from.has
    <2>1. from.has \cap {f} # {} /\ to.has \cup {f} = to.has \cup from.has
        BY <1>1, <1>2
    <2>2. With1(to.val, f, from.val[f]) = Overlaid(to.val, from, {f})
        BY <1>1, <1>2 DEF With1, Overlaid
    <2>3. MergeGroup(Rec(to.has, to.val, to.unknown), from, {f})
            = Rec(to.has \cup from.has, Overlaid(to.val, from, {f}), to.unknown)
        BY <2>1, MergeGroupIs
    <2>4. Put(Rec(to.has, to.val, to.unknown), f, from.val[f])
            = Rec(to.has \cup {f}, With1(to.val, f, from.val[f]), to.unknown)
        BY PutIs
    <2>5. Put(to, f, from.val[f]) = MergeGroup(to, from, {f})
        BY <1>1, <2>1, <2>2, <2>3, <2>4
    <2> QED BY <1>1, <1>2, <2>5, GroupThenRest
<1>3. CASE f \notin from.has
    <2>1. from.has \cap {f} = {}
        BY <1>3
    <2>2. MergeGroup(to, from, {f}) = to
        BY <2>1, MergeNothing
    <2> QED BY <1>1, <1>3, <2>2, GroupThenRest
<1> QED BY <1>2, <1>3

\* Merging the groups of fields of a class is merging all of them.
LEMMA ClassMergeIs ==
    ASSUME NEW c \in FlatClasses, NEW to \in Sane(Own(c)), NEW from \in Sane(Own(c))
    PROVE  ClassMerge(c, to, from) = Joined(to, from)
<1>1. from.has \subseteq Own(c)
    BY DEF Sane, Msgs
<1>2. CASE c = "counter"
    <2>1. ClassMerge(c, to, from)
            = MergeUnknown(IF "count" \in from.has THEN Put(to, "count", from.val["count"]) ELSE to, from)
        BY <1>2 DEF ClassMerge, Counter!MergeFrom, Counter!set_count, Counter!Put, Counter!MergeUnknown,
                    Put, MergeUnknown
    <2>2. Own(c) = {"count"}
        BY <1>2, OwnNames
    <2>3. to \in Sane({"count"}) /\ from \in Sane({"count"})
        BY <2>2
    <2>4. MergeUnknown(IF "count" \in from.has THEN Put(to, "count", from.val["count"]) ELSE to, from) = Joined(to, from)
        BY <2>3, OneField
    <2> QED BY <2>1, <2>4
<1>3. CASE c = "stopwatch"
    <2>1. ClassMerge(c, to, from)
            = MergeUnknown(IF "runtime_ns" \in from.has THEN Put(to, "runtime_ns", from.val["runtime_ns"]) ELSE to,
                           from)
        BY <1>3 DEF ClassMerge, Stopwatch!MergeFrom, Stopwatch!set_runtime_ns, Stopwatch!Put,
                    Stopwatch!MergeUnknown, Put, MergeUnknown
    <2>2. Own(c) = {"runtime_ns"}
        BY <1>3, OwnNames
    <2>3. to \in Sane({"runtime_ns"}) /\ from \in Sane({"runtime_ns"})
        BY <2>2
    <2>4. MergeUnknown(IF "runtime_ns" \in from.has THEN Put(to, "runtime_ns", from.val["runtime_ns"]) ELSE to, from) = Joined(to, from)
        BY <2>3, OneField
    <2> QED BY <2>1, <2>4
<1>4. CASE c = "remote"
    <2> DEFINE G == Remote!Plain \cup {"id"}
    <2>1. ClassMerge(c, to, from) = MergeUnknown(MergeGroup(to, from, G), from)
        BY <1>4 DEF ClassMerge, Remote!MergeFrom, Remote!MergeGroup, Remote!MergeUnknown, MergeGroup, MergeUnknown
    <2>2. from.has \subseteq G
        BY <1>1, <1>4, OwnNames DEF Remote!Plain
    <2> HIDE DEF G
    <2> QED BY <2>1, <2>2, GroupThenRest
<1>5. CASE c = "summary"
    <2> DEFINE L == Summary!Low \cup {"units"}
               H == Summary!High
    <2>1. ClassMerge(c, to, from) = MergeUnknown(MergeGroup(MergeGroup(to, from, L), from, H), from)
        BY <1>5 DEF ClassMerge, Summary!MergeFrom, Summary!MergeGroup, Summary!MergeUnknown, MergeGroup, MergeUnknown
    <2>2. from.has \subseteq L \cup H
        BY <1>1, <1>5, OwnNames DEF Summary!Low, Summary!High
    <2> HIDE DEF L, H
    <2>3. MergeGroup(MergeGroup(to, from, L), from, H) = MergeGroup(to, from, L \cup H)
        BY <2>2, TwoGroups
    <2> QED BY <2>1, <2>2, <2>3, GroupThenRest
<1> QED BY <1>2, <1>3, <1>4, <1>5 DEF FlatClasses

\* A message built from parts that fit.
LEMMA RecSane ==
    ASSUME NEW N, NEW h, NEW v \in [N -> Nat], NEW u \in Seq({Foreign}), h \subseteq N,
           \A f \in N : f \notin h => v[f] = 0
    PROVE  Rec(h, v, u) \in Sane(N)
<1>1. Rec(h, v, u) \in Msgs(N)
    BY DEF Rec, Msgs
<1>2. Unstale(Rec(h, v, u))
    BY Parts DEF Unstale
<1> QED BY <1>1, <1>2 DEF Sane

\* A field set and a field cleared.
LEMMA PutSane ==
    ASSUME NEW N, NEW m \in Sane(N), NEW f \in N, NEW x \in Nat
    PROVE  Put(m, f, x) \in Sane(N)
<1>1. m = Rec(m.has, m.val, m.unknown)
    BY Sanely
<1>2. Put(Rec(m.has, m.val, m.unknown), f, x) = Rec(m.has \cup {f}, With1(m.val, f, x), m.unknown)
    BY PutIs
<1>3. /\ With1(m.val, f, x) \in [N -> Nat] /\ m.has \cup {f} \subseteq N
      /\ \A g \in N : g \notin m.has \cup {f} => With1(m.val, f, x)[g] = 0
    BY Sanely DEF With1
<1>4. m.unknown \in Seq({Foreign})
    BY Sanely
<1>5. Rec(m.has \cup {f}, With1(m.val, f, x), m.unknown) \in Sane(N)
    BY <1>3, <1>4, RecSane
<1> QED BY <1>1, <1>2, <1>5

\* Nor does clear_<field>.
LEMMA DropSane ==
    ASSUME NEW N, NEW m \in Sane(N), NEW f \in N
    PROVE  Drop(m, f) \in Sane(N)
<1>1. m = Rec(m.has, m.val, m.unknown)
    BY Sanely
<1>2. Drop(Rec(m.has, m.val, m.unknown), f) = Rec(m.has \ {f}, With1(m.val, f, 0), m.unknown)
    BY DropIs
<1>3. /\ With1(m.val, f, 0) \in [N -> Nat] /\ m.has \ {f} \subseteq N
      /\ \A g \in N : g \notin m.has \ {f} => With1(m.val, f, 0)[g] = 0
    BY Sanely DEF With1
<1>4. m.unknown \in Seq({Foreign})
    BY Sanely
<1>5. Rec(m.has \ {f}, With1(m.val, f, 0), m.unknown) \in Sane(N)
    BY <1>3, <1>4, RecSane
<1> QED BY <1>1, <1>2, <1>5

\* A group of fields cleared: if none is set their values are 0 already.
LEMMA ClearGroupSane ==
    ASSUME NEW N, NEW m \in Sane(N), NEW G
    PROVE  /\ ClearGroup(m, G) = Rec(m.has, Zeroed(m.val, G), m.unknown)
           /\ Rec(m.has, Zeroed(m.val, G), m.unknown) \in Sane(N)
<1>1. m = Rec(m.has, m.val, m.unknown)
    BY Sanely
<1>2. m.val \in [N -> Nat] /\ m.unknown \in Seq({Foreign}) /\ m.has \subseteq N
    BY Sanely
<1>3. \A f \in N : f \notin m.has => m.val[f] = 0
    BY Sanely
<1>4. Zeroed(m.val, G) \in [N -> Nat] /\ \A f \in N : f \notin m.has => Zeroed(m.val, G)[f] = 0
    BY <1>2, <1>3 DEF Zeroed
<1>5. Rec(m.has, Zeroed(m.val, G), m.unknown) \in Sane(N)
    BY <1>2, <1>4, RecSane
<1>6. CASE m.has \cap G = {}
    <2>1. Zeroed(m.val, G) = m.val
        BY <1>2, <1>3, <1>6 DEF Zeroed
    <2>2. ClearGroup(m, G) = m
        BY <1>6, ClearNothing
    <2> QED BY <1>1, <1>5, <2>1, <2>2
<1>7. CASE m.has \cap G # {}
    <2>1. ClearGroup(Rec(m.has, m.val, m.unknown), G) = Rec(m.has, Zeroed(m.val, G), m.unknown)
        BY <1>7, ClearGroupIs
    <2> QED BY <1>1, <1>5, <2>1
<1> QED BY <1>6, <1>7

\* A new message by its parts.
LEMMA FreshIs == \A schema : Fresh(schema) = Rec({}, [f \in Names(schema) |-> 0], <<>>)
BY DEF Fresh, Rec

\* A message whose values are all 0 and that is then cleared.
LEMMA ClearBitsFresh ==
    ASSUME NEW schema, NEW h, NEW v \in [Names(schema) -> Nat], NEW u, \A f \in Names(schema) : v[f] = 0
    PROVE  ClearBits(Rec(h, v, u)) = Fresh(schema)
<1>1. v = [f \in Names(schema) |-> 0]
    OBVIOUS
<1> QED BY <1>1, FreshIs, ClearBitsIs

\* Clear empties a message of every class.
LEMMA ClassClearIs ==
    ASSUME NEW c \in FlatClasses, NEW m \in Sane(Own(c))
    PROVE  ClassClear(c, m) = Fresh(ClassSchema(c))
<1>1. m = Rec(m.has, m.val, m.unknown) /\ m.val \in [Own(c) -> Nat] /\ Own(c) = Names(ClassSchema(c))
    BY Sanely DEF Own
<1>2. ASSUME NEW f, Own(c) = {f}
      PROVE  ClearBits(SetVal(m, With1(m.val, f, 0))) = Fresh(ClassSchema(c))
    <2>1. SetVal(Rec(m.has, m.val, m.unknown), With1(m.val, f, 0)) = Rec(m.has, With1(m.val, f, 0), m.unknown)
        BY Assigns
    <2>2. With1(m.val, f, 0) \in [Own(c) -> Nat] /\ \A g \in Own(c) : With1(m.val, f, 0)[g] = 0
        BY <1>1, <1>2 DEF With1
    <2>3. ClearBits(Rec(m.has, With1(m.val, f, 0), m.unknown)) = Fresh(ClassSchema(c))
        BY <1>1, <2>2, ClearBitsFresh
    <2> QED BY <1>1, <2>1, <2>3
<1>3. CASE c = "counter"
    <2>1. ClassClear(c, m) = ClearBits(SetVal(m, With1(m.val, "count", 0)))
        BY <1>3 DEF ClassClear, Counter!Clear, Counter!ClearBits, ClearBits, SetVal, With1
    <2> QED BY <1>2, <1>3, <2>1, OwnNames
<1>4. CASE c = "stopwatch"
    <2>1. ClassClear(c, m) = ClearBits(SetVal(m, With1(m.val, "runtime_ns", 0)))
        BY <1>4 DEF ClassClear, Stopwatch!Clear, Stopwatch!ClearBits, ClearBits, SetVal, With1
    <2> QED BY <1>2, <1>4, <2>1, OwnNames
<1>5. CASE c = "remote"
    <2> DEFINE m1 == ClearGroup(m, {"id"})
               m2 == ClearGroup(m1, Remote!Plain)
               v == Zeroed(Zeroed(m.val, {"id"}), Remote!Plain)
    <2>1. ClassClear(c, m) = ClearBits(m2)
        BY <1>5 DEF ClassClear, Remote!Clear, Remote!ClearGroup, Remote!ClearBits, ClearBits, ClearGroup
    <2>2. m1 = Rec(m.has, Zeroed(m.val, {"id"}), m.unknown) /\ m1 \in Sane(Own(c))
        BY ClearGroupSane
    <2>3. m2 = Rec(m.has, v, m.unknown)
        <3>1. m2 = Rec(m1.has, Zeroed(m1.val, Remote!Plain), m1.unknown)
            <4> HIDE DEF m1
            <4> QED BY <2>2, ClearGroupSane
        <3>2. m1.has = m.has /\ m1.val = Zeroed(m.val, {"id"}) /\ m1.unknown = m.unknown
            <4> HIDE DEF m1
            <4> QED BY <2>2, Parts
        <3> HIDE DEF m1, m2
        <3> QED BY <3>1, <3>2
    <2>4. v \in [Own(c) -> Nat] /\ \A g \in Own(c) : v[g] = 0
        BY <1>1, <1>5, OwnNames DEF Zeroed, Remote!Plain
    <2> HIDE DEF v, m1, m2
    <2> QED BY <1>1, <2>1, <2>3, <2>4, ClearBitsFresh
<1>6. CASE c = "summary"
    <2> DEFINE m1 == ClearGroup(m, {"units"})
               m2 == ClearGroup(m1, Summary!Low)
               m3 == ClearGroup(m2, Summary!High)
               v1 == Zeroed(m.val, {"units"})
               v2 == Zeroed(v1, Summary!Low)
               v == Zeroed(v2, Summary!High)
    <2>1. ClassClear(c, m) = ClearBits(m3)
        BY <1>6 DEF ClassClear, Summary!Clear, Summary!ClearGroup, Summary!ClearBits, ClearBits, ClearGroup
    <2>2. m1 = Rec(m.has, v1, m.unknown) /\ m1 \in Sane(Own(c))
        BY ClearGroupSane
    <2>3. v \in [Own(c) -> Nat] /\ \A g \in Own(c) : v[g] = 0
        <3>1. v = [g \in Own(c) |-> IF g \in {"units"} \cup Summary!Low \cup Summary!High THEN 0 ELSE m.val[g]]
            BY <1>1 DEF Zeroed
        <3> HIDE DEF v
        <3>2. \A g \in Own(c) : g \in {"units"} \cup Summary!Low \cup Summary!High
            BY <1>6, OwnNames DEF Summary!Low, Summary!High
        <3> QED BY <1>1, <3>1, <3>2
    <2> HIDE DEF m1
    <2>4. m2 = Rec(m.has, v2, m.unknown) /\ m2 \in Sane(Own(c))
        <3>1. m2 = Rec(m1.has, Zeroed(m1.val, Summary!Low), m1.unknown) /\ m2 \in Sane(Own(c))
            BY <2>2, ClearGroupSane
        <3>2. m1.has = m.has /\ m1.val = v1 /\ m1.unknown = m.unknown
            BY <2>2, Parts
        <3> HIDE DEF m2, v1
        <3> QED BY <3>1, <3>2
    <2> HIDE DEF m2
    <2>5. m3 = Rec(m.has, v, m.unknown)
        <3>1. m3 = Rec(m2.has, Zeroed(m2.val, Summary!High), m2.unknown)
            BY <2>4, ClearGroupSane
        <3>2. m2.has = m.has /\ m2.val = v2 /\ m2.unknown = m.unknown
            BY <2>4, Parts
        <3> HIDE DEF m3, v2
        <3> QED BY <3>1, <3>2
    <2> HIDE DEF v, m3
    <2> QED BY <1>1, <2>1, <2>3, <2>5, ClearBitsFresh
<1> QED BY <1>3, <1>4, <1>5, <1>6 DEF FlatClasses

\* The copy constructor copies, and so does CopyFrom.
LEMMA ClassCopyIs ==
    ASSUME NEW c \in FlatClasses, NEW from \in Sane(Own(c))
    PROVE  ClassCopy(c, from) = from
<1>1. /\ from = Rec(from.has, from.val, from.unknown) /\ from.unknown \in Seq({Foreign})
      /\ from.val \in [Own(c) -> Nat] /\ from.has \subseteq Own(c)
      /\ \A f \in Own(c) : f \notin from.has => from.val[f] = 0
    BY Sanely
<1> DEFINE new == MergeUnknown(Fresh(ClassSchema(c)), from)
           zero == [f \in Own(c) |-> 0]
<1>2. new = Rec({}, zero, from.unknown)
    <2> DEFINE nil == <<>>
    <2>1. Fresh(ClassSchema(c)) = Rec({}, zero, nil)
        BY FreshIs DEF Own
    <2>2. nil \o from.unknown = from.unknown
        BY <1>1, ConcatEmptySeq
    <2> HIDE DEF zero, nil
    <2>3. MergeUnknown(Rec({}, zero, nil), from) = Rec({}, zero, nil \o from.unknown)
        <3> DEFINE none == {}
        <3>1. MergeUnknown(Rec(none, zero, nil), from) = Rec(none, zero, nil \o from.unknown)
            <4> HIDE DEF none
            <4> QED BY MergeUnknownIs
        <3> QED BY <3>1
    <2> QED BY <2>1, <2>2, <2>3
<1> HIDE DEF new
<1>3. \A v : SetVal(SetHas(new, from.has), v) = Rec(from.has, v, from.unknown)
    BY <1>2, Assigns
<1>4. new.val = zero
    BY <1>2, Parts
<1>5. CASE c = "counter"
    <2>1. new = Counter!MergeUnknown(Counter!New, from)
        BY <1>5 DEF new, ClassSchema, Fresh, Names, MergeUnknown,
                    Counter!New, Counter!Fresh, Counter!Names, Counter!MergeUnknown
    <2>2. ClassCopy(c, from) = SetVal(SetHas(Counter!MergeUnknown(Counter!New, from), from.has), from.val)
        BY <1>5 DEF ClassCopy, Counter!Copy, SetVal, SetHas
    <2> QED BY <1>1, <1>3, <2>1, <2>2
<1>6. CASE c = "stopwatch"
    <2>1. new = Stopwatch!MergeUnknown(Stopwatch!New, from)
        BY <1>6 DEF new, ClassSchema, Fresh, Names, MergeUnknown,
                    Stopwatch!New, Stopwatch!Fresh, Stopwatch!Names, Stopwatch!MergeUnknown
    <2>2. ClassCopy(c, from) = SetVal(SetHas(Stopwatch!MergeUnknown(Stopwatch!New, from), from.has), from.val)
        BY <1>6 DEF ClassCopy, Stopwatch!Copy, SetVal, SetHas
    <2> QED BY <1>1, <1>3, <2>1, <2>2
<1>7. CASE c = "remote"
    <2> DEFINE W(d) == [f \in d |-> IF f \in Remote!Plain \/ "id" \in from.has THEN from.val[f] ELSE 0]
    <2>1. new = Remote!MergeUnknown(Remote!New, from)
        BY <1>7 DEF new, ClassSchema, Fresh, Names, MergeUnknown,
                    Remote!New, Remote!Fresh, Remote!Names, Remote!MergeUnknown
    <2>2. \A n : n = Remote!MergeUnknown(Remote!New, from) =>
                 ClassCopy(c, from) = SetVal(SetHas(n, from.has), W(DOMAIN SetHas(n, from.has).val))
        BY <1>7 DEF ClassCopy, Remote!Copy, SetVal, SetHas
    <2>3. SetHas(new, from.has) = Rec(from.has, zero, from.unknown)
        BY <1>2, Assigns
    <2>4. W(DOMAIN zero) = from.val
        BY <1>1, <1>7, OwnNames DEF Remote!Plain
    <2> HIDE DEF W, zero
    <2>5. ClassCopy(c, from) = SetVal(SetHas(new, from.has), from.val)
        BY <2>1, <2>2, <2>3, <2>4, Parts
    <2> QED BY <1>1, <1>3, <2>5
<1>8. CASE c = "summary"
    <2> DEFINE W(d) == [f \in d |-> IF f \in Summary!Plain \/ "units" \in from.has THEN from.val[f] ELSE 0]
    <2>1. new = Summary!MergeUnknown(Summary!New, from)
        BY <1>8 DEF new, ClassSchema, Fresh, Names, MergeUnknown,
                    Summary!New, Summary!Fresh, Summary!Names, Summary!MergeUnknown
    <2>2. \A n : n = Summary!MergeUnknown(Summary!New, from) =>
                 ClassCopy(c, from) = SetVal(SetHas(n, from.has), W(DOMAIN SetHas(n, from.has).val))
        BY <1>8 DEF ClassCopy, Summary!Copy, SetVal, SetHas
    <2>3. SetHas(new, from.has) = Rec(from.has, zero, from.unknown)
        BY <1>2, Assigns
    <2>4. W(DOMAIN zero) = from.val
        BY <1>1, <1>8, OwnNames DEF Summary!Plain, Summary!Low, Summary!High
    <2> HIDE DEF W, zero
    <2>5. ClassCopy(c, from) = SetVal(SetHas(new, from.has), from.val)
        BY <2>1, <2>2, <2>3, <2>4, Parts
    <2> QED BY <1>1, <1>3, <2>5
<1> QED BY <1>5, <1>6, <1>7, <1>8 DEF FlatClasses

\* CopyFrom, a Clear and a MergeFrom, makes the message equal to its source.
LEMMA ClassCopyFromIs ==
    ASSUME NEW c \in FlatClasses, NEW to \in Sane(Own(c)), NEW from \in Sane(Own(c))
    PROVE  ClassCopyFrom(c, to, from) = from
<1>1. ClassCopyFrom(c, to, from) = ClassMerge(c, ClassClear(c, to), from)
    BY DEF FlatClasses, ClassCopyFrom, ClassMerge, ClassClear,
           Counter!CopyFrom, Stopwatch!CopyFrom, Summary!CopyFrom, Remote!CopyFrom
<1>2. ClassClear(c, to) = Fresh(ClassSchema(c)) /\ Fresh(ClassSchema(c)) \in Sane(Own(c))
    BY ClassClearIs, FreshSane DEF Own
<1>3. ClassMerge(c, Fresh(ClassSchema(c)), from) = Joined(Fresh(ClassSchema(c)), from)
    BY <1>2, ClassMergeIs
<1>4. Joined(Fresh(ClassSchema(c)), from) = from
    BY JoinedFresh DEF Own
<1> QED BY <1>1, <1>2, <1>3, <1>4

\* A swap hands over all of a message.
LEMMA ClassSwapIs ==
    ASSUME NEW c \in FlatClasses, NEW x \in Sane(Own(c)), NEW y \in Sane(Own(c))
    PROVE  ClassSwap(c, x, y) = y
<1>1. /\ x = Rec(x.has, x.val, x.unknown) /\ y = Rec(y.has, y.val, y.unknown)
      /\ x.val \in [Own(c) -> Nat] /\ y.val \in [Own(c) -> Nat]
    BY Sanely
<1>2. SetUnknown(SetVal(SetHas(x, y.has), y.val), y.unknown) = y
    <2>1. SetHas(x, y.has) = Rec(y.has, x.val, x.unknown)
        BY <1>1, Assigns
    <2>2. SetVal(Rec(y.has, x.val, x.unknown), y.val) = Rec(y.has, y.val, x.unknown)
        BY Assigns
    <2>3. SetUnknown(Rec(y.has, y.val, x.unknown), y.unknown) = Rec(y.has, y.val, y.unknown)
        BY Assigns
    <2> QED BY <1>1, <2>1, <2>2, <2>3
<1>3. CASE c \in {"counter", "stopwatch"}
    <2>1. ClassSwap(c, x, y) = SetUnknown(SetVal(SetHas(x, y.has), y.val), y.unknown)
        BY <1>3 DEF ClassSwap, Counter!InternalSwap, Stopwatch!InternalSwap, SetUnknown, SetVal, SetHas
    <2> QED BY <1>2, <2>1
<1>4. CASE c = "remote"
    <2> DEFINE v == [f \in DOMAIN x.val |-> IF f \in Remote!Plain \cup {"id"} THEN y.val[f] ELSE x.val[f]]
    <2>1. ClassSwap(c, x, y) = Rec(y.has, v, y.unknown)
        BY <1>4 DEF ClassSwap, Remote!InternalSwap, Rec
    <2>2. v = y.val
        BY <1>1, <1>4, OwnNames DEF Remote!Plain
    <2> HIDE DEF v
    <2> QED BY <1>1, <2>1, <2>2
<1>5. CASE c = "summary"
    <2> DEFINE v == [f \in DOMAIN x.val |-> IF f \in Summary!Plain \cup {"units"} THEN y.val[f] ELSE x.val[f]]
    <2>1. ClassSwap(c, x, y) = Rec(y.has, v, y.unknown)
        BY <1>5 DEF ClassSwap, Summary!InternalSwap, Rec
    <2>2. v = y.val
        BY <1>1, <1>5, OwnNames DEF Summary!Plain, Summary!Low, Summary!High
    <2> HIDE DEF v
    <2> QED BY <1>1, <2>1, <2>2
<1> QED BY <1>3, <1>4, <1>5 DEF FlatClasses

\* The accessors keep a message sane.
LEMMA ClassSetSane ==
    ASSUME NEW c \in FlatClasses, NEW m \in Sane(Own(c)), NEW f \in Own(c), NEW v \in Nat
    PROVE  ClassSet(c, m, f, v) \in Sane(Own(c)) /\ ClassUnset(c, m, f) \in Sane(Own(c))
<1>1. /\ c = "counter" => f = "count"
      /\ c = "stopwatch" => f = "runtime_ns"
    BY OwnNames
<1>2. ClassSet(c, m, f, v) = Put(m, f, v)
    BY <1>1 DEF FlatClasses, ClassSet, Counter!set_count, Stopwatch!set_runtime_ns, Summary!set_units, Summary!set,
                Remote!set_id, Remote!set, Counter!Put, Stopwatch!Put, Summary!Put, Remote!Put, Put
<1>3. ClassUnset(c, m, f) = Drop(m, f)
    BY <1>1 DEF FlatClasses, ClassUnset, Counter!clear_count, Stopwatch!clear_runtime_ns, Summary!clear_units,
                Summary!clear, Remote!clear_id, Remote!clear,
                Counter!Drop, Stopwatch!Drop, Summary!Drop, Remote!Drop, Drop
<1> QED BY <1>2, <1>3, PutSane, DropSane

\* The string of a class that has one.
LEMMA ClassStringSane ==
    ASSUME NEW c \in {"summary", "remote"}, NEW m \in Sane(Own(c)), NEW v \in Nat \cup {-1}
    PROVE  ClassRelease(c, m) \in Sane(Own(c)) /\ ClassSetAllocated(c, m, v) \in Sane(Own(c))
<1> DEFINE f == IF c = "summary" THEN "units" ELSE "id"
<1>1. f \in Own(c)
    BY OwnNames
<1>2. ClassRelease(c, m) = IF f \in m.has THEN Drop(m, f) ELSE m
    BY DEF ClassRelease, Summary!release_units, Remote!release_id, Summary!Drop, Remote!Drop, Drop
<1>3. ClassSetAllocated(c, m, v) = IF v = -1 THEN Drop(m, f) ELSE Put(m, f, v)
    BY DEF ClassSetAllocated, Summary!set_allocated_units, Remote!set_allocated_id,
           Summary!Drop, Remote!Drop, Drop, Summary!Put, Remote!Put, Put
<1>4. v # -1 => v \in Nat
    OBVIOUS
<1> HIDE DEF f
<1> QED BY <1>1, <1>2, <1>3, <1>4, PutSane, DropSane

-----------------------------------------------------------------------------
(* Writing the fields of a message *)

\* The entries of the fields of m, one after the other.
WriteField(m, out, f) == IF f.name \in m.has THEN Append(out, Entry(f.tag, m.val[f.name])) ELSE out
WriteAll(m, s, p) ==
    Through(LAMBDA out, f : IF f.name \in m.has THEN Append(out, Entry(f.tag, m.val[f.name])) ELSE out, s, p)

WriteClosed(T, m, E) == \A x \in T, e \in E : WriteField(m, x, e) \in T

WriteRun(g, T, m, s, u) ==
    /\ g \in [0..Len(u) -> T]
    /\ g[0] = s
    /\ \A i \in 1..Len(u) : g[i] = WriteField(m, g[i - 1], u[i])
    /\ g[Len(u)] = WriteAll(m, s, u)

\* Every write has such a course.
LEMMA WriteUnroll ==
    ASSUME NEW T, NEW m, NEW s \in T, NEW E, NEW u \in Seq(E), WriteClosed(T, m, E)
    PROVE  \E g : WriteRun(g, T, m, s, u)
<1> DEFINE n == Len(u)
           F(f) == [i \in 0..n |-> IF i = 0 THEN s ELSE WriteField(m, f[i - 1], u[i])]
           P(f) == f = F(f)
           after == CHOOSE f : P(f)
           step == [i \in 1..n |-> [x \in T |-> WriteField(m, x, u[i])]]
<1>1. n \in Nat
    OBVIOUS
<1>2. step \in [1..n -> [T -> T]]
    BY DEF WriteClosed
<1>3. PICK g \in [0..n -> T] : IsRun(g, s, n, step)
    <2> HIDE DEF step, n
    <2> QED BY <1>1, <1>2, Runs
<1>4. P(g)
    <2>1. ASSUME NEW i \in 0..n PROVE g[i] = IF i = 0 THEN s ELSE WriteField(m, g[i - 1], u[i])
        <3>1. CASE i = 0
            BY <1>3, <3>1 DEF IsRun
        <3>2. CASE i # 0
            <4>1. i \in 1..n /\ i - 1 \in 0..n
                BY <1>1, <3>2
            <4>2. g[i - 1] \in T
                BY <4>1
            <4>3. g[i] = step[i][g[i - 1]]
                BY <1>3, <3>2 DEF IsRun
            <4>4. step[i][g[i - 1]] = WriteField(m, g[i - 1], u[i])
                BY <4>1, <4>2
            <4> QED BY <3>2, <4>3, <4>4
        <3> QED BY <3>1, <3>2
    <2> QED BY <1>3, <2>1 DEF IsRun
<1>5. P(after)
    <2> HIDE DEF P
    <2> QED BY <1>4
<1>6. after[n] = WriteAll(m, s, u)
    BY DEF WriteAll, WriteField, Through
<1> HIDE DEF after
<1>7. /\ after[0] = s
      /\ \A i \in 1..n : after[i] = WriteField(m, after[i - 1], u[i])
      /\ DOMAIN after = 0..n
    BY <1>1, <1>5
<1>8. \A i \in 0..n : after[i] \in T
    <2>1. \A i \in 1..n : after[i - 1] \in T => after[i] \in T
        <3> SUFFICES ASSUME NEW i \in 1..n, after[i - 1] \in T PROVE after[i] \in T
            OBVIOUS
        <3>1. u[i] \in E
            OBVIOUS
        <3> HIDE DEF n
        <3> QED BY <1>7, <3>1 DEF WriteClosed
    <2> HIDE DEF n
    <2> QED BY <1>1, <1>7, <2>1, Stays
<1>9. after \in [0..n -> T]
    BY <1>5, <1>8
<1>10. WriteRun(after, T, m, s, u)
    BY <1>6, <1>7, <1>9 DEF WriteRun
<1> QED BY <1>10

\* Without fields nothing is written.
LEMMA WriteNil ==
    ASSUME NEW m, NEW s
    PROVE  WriteAll(m, s, <<>>) = s
<1>1. s \in {s} /\ <<>> \in Seq({}) /\ WriteClosed({s}, m, {})
    BY DEF WriteClosed
<1>2. PICK g : WriteRun(g, {s}, m, s, <<>>)
    BY <1>1, WriteUnroll
<1> QED BY <1>2 DEF WriteRun

\* One more field is written after the others.
LEMMA WriteSnoc ==
    ASSUME NEW T, NEW m, NEW E, WriteClosed(T, m, E)
    PROVE  \A s \in T : \A u \in Seq(E) : \A e \in E :
              WriteAll(m, s, Append(u, e)) = WriteField(m, WriteAll(m, s, u), e)
<1> SUFFICES ASSUME NEW s \in T, NEW u \in Seq(E), NEW e \in E
             PROVE  WriteAll(m, s, Append(u, e)) = WriteField(m, WriteAll(m, s, u), e)
    OBVIOUS
<1> DEFINE n == Len(u)
           v == Append(u, e)
<1>1. n \in Nat /\ v \in Seq(E) /\ Len(v) = n + 1 /\ v[n + 1] = e /\ \A i \in 1..n : v[i] = u[i]
    OBVIOUS
<1> HIDE DEF v
<1>2. PICK f : WriteRun(f, T, m, s, u)
    BY WriteUnroll
<1>3. PICK g : WriteRun(g, T, m, s, v)
    BY <1>1, WriteUnroll
<1>4. /\ f[0] = s /\ \A i \in 1..n : f[i] = WriteField(m, f[i - 1], u[i])
      /\ f[n] = WriteAll(m, s, u) /\ f[n] \in T
    BY <1>1, <1>2 DEF WriteRun
<1>5. /\ g[0] = s /\ \A i \in 1..(n + 1) : g[i] = WriteField(m, g[i - 1], v[i])
      /\ g[n + 1] = WriteAll(m, s, v)
    BY <1>1, <1>3 DEF WriteRun
<1> HIDE DEF n
<1>6. \A i \in 1..n : f[i - 1] = g[i - 1] => f[i] = g[i]
    BY <1>1, <1>4, <1>5
<1>7. f[n] = g[n]
    BY <1>1, <1>4, <1>5, <1>6, Agree
<1>8. g[n + 1] = WriteField(m, g[n], e)
    BY <1>1, <1>5
<1> QED BY <1>4, <1>5, <1>7, <1>8 DEF v

\* What a message is written as, by the fields of its schema up to the k-th.
Prefix(schema, k) == SubSeq(schema, 1, k)

\* The first k fields are the first k - 1 and the k-th.
LEMMA PrefixSnoc ==
    ASSUME NEW schema, SchemaOK(schema), NEW k \in 1..Len(schema)
    PROVE  /\ Prefix(schema, k) = Append(Prefix(schema, k - 1), schema[k])
           /\ Prefix(schema, k - 1) \in Seq(Range(schema)) /\ schema[k] \in Range(schema)
<1> DEFINE I == Range(schema)
<1>1. schema \in Seq(I)
    BY DEF SchemaOK, Range
<1> HIDE DEF I
<1>2. Prefix(schema, k) = Prefix(schema, k - 1) \o <<schema[k]>>
    BY <1>1, SubSeqRecursiveSecond, 1 \in 1..Len(schema) DEF Prefix
<1>3. Prefix(schema, k - 1) \in Seq(I) /\ schema[k] \in I
    <2>1. \A j \in 1..(k - 1) : schema[j] \in I
        BY <1>1
    <2> QED BY <1>1, <2>1, SubSeqProperties DEF Prefix
<1> QED BY <1>2, <1>3, AppendIsConcat DEF I

\* The entries of fields that are set are those of the schema.
LEMMA WriteStays ==
    ASSUME NEW schema, SchemaOK(schema), NEW m, m.has \subseteq Names(schema), m.val \in [Names(schema) -> Nat]
    PROVE  WriteClosed(Seq(Fields(schema)), m, Range(schema))
<1> SUFFICES ASSUME NEW x \in Seq(Fields(schema)), NEW f \in Range(schema)
             PROVE  WriteField(m, x, f) \in Seq(Fields(schema))
    BY DEF WriteClosed
<1>1. PICK i \in 1..Len(schema) : f = schema[i]
    BY DEF Range, SchemaOK
<1>2. f.name \in Names(schema) /\ f.tag \in Tags(schema)
    BY <1>1 DEF Names, Tags
<1>3. m.val[f.name] \in Nat
    BY <1>2
<1>4. Entry(f.tag, m.val[f.name]) \in Fields(schema)
    BY <1>2, <1>3 DEF Entry, Fields
<1> DEFINE F == Fields(schema)
           e == Entry(f.tag, m.val[f.name])
<1> HIDE DEF F, e
<1>5. Append(x, e) \in Seq(F)
    BY <1>4 DEF F, e
<1> QED BY <1>5 DEF WriteField, F, e

\* What a message is written as is made of entries a parser of its class knows, or keeps.
LEMMA WrittenReads ==
    ASSUME NEW schema, SchemaOK(schema), NEW m, m.has \subseteq Names(schema), m.val \in [Names(schema) -> Nat],
           m.unknown \in Seq({Foreign})
    PROVE  /\ WriteAll(m, <<>>, schema) \in Seq(Fields(schema))
           /\ Written(schema, m) = WriteAll(m, <<>>, schema) \o m.unknown
           /\ Written(schema, m) \in Seq(Readable(schema))
<1> DEFINE F == Fields(schema)
           nil == <<>>
           w == WriteAll(m, nil, schema)
<1>1. w \in Seq(F)
    <2>1. schema \in Seq(Range(schema)) /\ nil \in Seq(F)
        BY DEF SchemaOK, Range
    <2>2. WriteClosed(Seq(F), m, Range(schema))
        BY WriteStays
    <2> HIDE DEF F, nil
    <2>3. PICK g : WriteRun(g, Seq(F), m, nil, schema)
        BY <2>1, <2>2, WriteUnroll
    <2> QED BY <2>1, <2>3 DEF WriteRun
<1>2. Written(schema, m) = w \o m.unknown
    BY DEF Written, WriteAll
<1>3. w \o m.unknown \in Seq(Readable(schema))
    <2>1. w \in Seq(Readable(schema)) /\ m.unknown \in Seq(Readable(schema))
        <3> HIDE DEF w, F
        <3> QED BY <1>1, SeqMonotonic DEF Readable, F
    <2> HIDE DEF w
    <2> QED BY <2>1, ConcatProperties
<1> QED BY <1>1, <1>2, <1>3
-----------------------------------------------------------------------------
(* A metric: a message with one field of its own, and the oneof *)

\* The metric whose own fields are those of b.
Whole(b, c, r) == [has |-> b.has, val |-> b.val, unknown |-> b.unknown, case |-> c, ref |-> r]

\* The parts of a metric.
LEMMA WholeParts ==
    ASSUME NEW b, NEW c, NEW r
    PROVE  /\ Whole(b, c, r).has = b.has
           /\ Whole(b, c, r).val = b.val
           /\ Whole(b, c, r).unknown = b.unknown
           /\ Whole(b, c, r).case = c
           /\ Whole(b, c, r).ref = r
BY DEF Whole

\* An assignment to one part of a metric.
LEMMA WholeAssigns ==
    ASSUME NEW h, NEW v, NEW u, NEW c, NEW r, NEW x
    PROVE  /\ SetHas(Whole(Rec(h, v, u), c, r), x) = Whole(Rec(x, v, u), c, r)
           /\ SetVal(Whole(Rec(h, v, u), c, r), x) = Whole(Rec(h, x, u), c, r)
           /\ SetUnknown(Whole(Rec(h, v, u), c, r), x) = Whole(Rec(h, v, x), c, r)
<1>1. SetHas(Whole(Rec(h, v, u), c, r), x) = Whole(Rec(x, v, u), c, r)
    BY DEF Rec, Whole, SetHas
<1>2. SetVal(Whole(Rec(h, v, u), c, r), x) = Whole(Rec(h, x, u), c, r)
    BY DEF Rec, Whole, SetVal
<1>3. SetUnknown(Whole(Rec(h, v, u), c, r), x) = Whole(Rec(h, v, x), c, r)
    BY DEF Rec, Whole, SetUnknown
<1> QED BY <1>1, <1>2, <1>3

\* The case of the oneof is set.
LEMMA WholeSetHas ==
    ASSUME NEW b, NEW c, NEW r, NEW d, NEW q
    PROVE  set_has(Whole(b, c, r), d, q) = Whole(b, d, q)
<1> DEFINE m == Whole(b, c, r)
           n == Whole(b, d, q)
           S == {"has", "val", "unknown", "case", "ref"}
           f == [x \in S |-> IF x = "ref" THEN q ELSE IF x = "case" THEN d ELSE m[x]]
           k == [m EXCEPT !.case = d]
<1>1. m = [x \in S |-> m[x]] /\ n = [x \in S |-> n[x]]
    BY DEF Whole
<1>2. n.case = d /\ n.ref = q /\ n.has = m.has /\ n.val = m.val /\ n.unknown = m.unknown
    BY DEF Whole
<1> HIDE DEF m, n
<1>3. n = f
    BY <1>1, <1>2
<1>4. k = [x \in S |-> IF x = "case" THEN d ELSE m[x]]
    BY <1>1
<1> HIDE DEF k
<1>5. [k EXCEPT !.ref = q] = f
    BY <1>4
<1>6. set_has(m, d, q) = f
    BY <1>5 DEF set_has, k
<1> QED BY <1>3, <1>6 DEF m, n

\* The case of the oneof is reset.
LEMMA WholeClearHas ==
    ASSUME NEW b, NEW c, NEW r
    PROVE  clear_has_metric(Whole(b, c, r)) = Whole(b, NotSet, Null)
<1>1. clear_has_metric(Whole(b, c, r)) = set_has(Whole(b, c, r), NotSet, Null)
    BY DEF clear_has_metric, set_has
<1> QED BY <1>1, WholeSetHas

\* The own field of a metric is set, cleared and merged as in other messages.
LEMMA WholePut ==
    ASSUME NEW N, NEW b \in Sane(N), NEW c, NEW r, NEW f, NEW x
    PROVE  /\ Put(Whole(b, c, r), f, x) = Whole(Put(b, f, x), c, r)
           /\ Drop(Whole(b, c, r), f) = Whole(Drop(b, f), c, r)
<1> DEFINE add(s) == s \cup {f}
           cut(s) == s \ {f}
           in(g, y) == With1(g, f, y)
           w == Whole(b, c, r)
<1>1. \A m : /\ Put(m, f, x) = SetVal(SetHas(m, add(m.has)), in(SetHas(m, add(m.has)).val, x))
             /\ Drop(m, f) = SetVal(SetHas(m, cut(m.has)), in(SetHas(m, cut(m.has)).val, 0))
    <2> TAKE m
    <2>1. Put(m, f, x) = SetVal(SetHas(m, add(m.has)), in(SetHas(m, add(m.has)).val, x))
        BY DEF Put, SetVal, SetHas, With1
    <2>2. Drop(m, f) = SetVal(SetHas(m, cut(m.has)), in(SetHas(m, cut(m.has)).val, 0))
        BY DEF Drop, SetVal, SetHas, With1
    <2> QED BY <2>1, <2>2
<1>2. b = Rec(b.has, b.val, b.unknown)
    BY Sanely
<1> HIDE DEF add, cut, in
<1>3. \A s, y : /\ SetHas(w, s) = Whole(Rec(s, b.val, b.unknown), c, r)
                /\ SetVal(Whole(Rec(s, b.val, b.unknown), c, r), y) = Whole(Rec(s, y, b.unknown), c, r)
    <2> TAKE s, y
    <2>1. SetHas(Whole(Rec(b.has, b.val, b.unknown), c, r), s) = Whole(Rec(s, b.val, b.unknown), c, r)
        BY WholeAssigns
    <2>2. SetVal(Whole(Rec(s, b.val, b.unknown), c, r), y) = Whole(Rec(s, y, b.unknown), c, r)
        BY WholeAssigns
    <2> QED BY <1>2, <2>1, <2>2
<1>4. \A s : Whole(Rec(s, b.val, b.unknown), c, r).val = b.val
    BY WholeParts, Parts
<1>5. w.has = b.has
    BY WholeParts
<1> HIDE DEF w
<1>6. /\ Put(w, f, x) = Whole(Rec(add(b.has), in(b.val, x), b.unknown), c, r)
      /\ Drop(w, f) = Whole(Rec(cut(b.has), in(b.val, 0), b.unknown), c, r)
    <2>1. /\ Put(w, f, x) = SetVal(SetHas(w, add(b.has)), in(SetHas(w, add(b.has)).val, x))
          /\ Drop(w, f) = SetVal(SetHas(w, cut(b.has)), in(SetHas(w, cut(b.has)).val, 0))
        BY <1>1, <1>5
    <2> QED BY <2>1, <1>3, <1>4
<1>7. /\ Put(Rec(b.has, b.val, b.unknown), f, x) = Rec(add(b.has), in(b.val, x), b.unknown)
      /\ Drop(Rec(b.has, b.val, b.unknown), f) = Rec(cut(b.has), in(b.val, 0), b.unknown)
    BY PutIs, DropIs DEF add, cut, in
<1> QED BY <1>2, <1>6, <1>7 DEF w

\* Nor do the unknown fields depend on the oneof.
LEMMA WholeUnknown ==
    ASSUME NEW N, NEW b \in Sane(N), NEW c, NEW r, NEW x, NEW from
    PROVE  /\ SetUnknown(Whole(b, c, r), x) = Whole(SetUnknown(b, x), c, r)
           /\ MergeUnknown(Whole(b, c, r), from) = Whole(MergeUnknown(b, from), c, r)
<1> DEFINE cat(s) == s \o from.unknown
           w == Whole(b, c, r)
<1>1. \A m : MergeUnknown(m, from) = SetUnknown(m, cat(m.unknown))
    BY DEF MergeUnknown, SetUnknown
<1>2. b = Rec(b.has, b.val, b.unknown)
    BY Sanely
<1>3. \A y : SetUnknown(w, y) = Whole(SetUnknown(b, y), c, r)
    <2> TAKE y
    <2>1. SetUnknown(Whole(Rec(b.has, b.val, b.unknown), c, r), y) = Whole(Rec(b.has, b.val, y), c, r)
        BY WholeAssigns
    <2>2. SetUnknown(Rec(b.has, b.val, b.unknown), y) = Rec(b.has, b.val, y)
        BY Assigns
    <2> QED BY <1>2, <2>1, <2>2
<1>4. w.unknown = b.unknown
    BY WholeParts
<1> HIDE DEF cat, w
<1>5. MergeUnknown(w, from) = Whole(SetUnknown(b, cat(b.unknown)), c, r)
    BY <1>1, <1>3, <1>4
<1> QED BY <1>1, <1>3, <1>5 DEF w

\* Merging the name of a metric leaves its oneof.
LEMMA WholeMerge ==
    ASSUME NEW N, NEW b \in Sane(N), NEW c, NEW r, NEW from, NEW G
    PROVE  MergeGroup(Whole(b, c, r), from, G) = Whole(MergeGroup(b, from, G), c, r)
<1> DEFINE add(s) == s \cup from.has
           in(x) == Overlaid(x, from, G)
           w == Whole(b, c, r)
<1>1. \A m : from.has \cap G # {} =>
               MergeGroup(m, from, G) = SetVal(SetHas(m, add(m.has)), in(SetHas(m, add(m.has)).val))
    BY DEF MergeGroup, SetVal, SetHas, Overlaid
<1>2. b = Rec(b.has, b.val, b.unknown)
    BY Sanely
<1> HIDE DEF add, in
<1>3. \A s, y : /\ SetHas(w, s) = Whole(Rec(s, b.val, b.unknown), c, r)
                /\ SetVal(Whole(Rec(s, b.val, b.unknown), c, r), y) = Whole(Rec(s, y, b.unknown), c, r)
    <2> TAKE s, y
    <2>1. SetHas(Whole(Rec(b.has, b.val, b.unknown), c, r), s) = Whole(Rec(s, b.val, b.unknown), c, r)
        BY WholeAssigns
    <2>2. SetVal(Whole(Rec(s, b.val, b.unknown), c, r), y) = Whole(Rec(s, y, b.unknown), c, r)
        BY WholeAssigns
    <2> QED BY <1>2, <2>1, <2>2
<1>4. \A s : Whole(Rec(s, b.val, b.unknown), c, r).val = b.val
    BY WholeParts, Parts
<1>5. w.has = b.has
    BY WholeParts
<1> HIDE DEF w
<1>6. CASE from.has \cap G # {}
    <2>1. MergeGroup(w, from, G) = Whole(Rec(add(b.has), in(b.val), b.unknown), c, r)
        <3>1. MergeGroup(w, from, G) = SetVal(SetHas(w, add(b.has)), in(SetHas(w, add(b.has)).val))
            BY <1>1, <1>5, <1>6
        <3> QED BY <3>1, <1>3, <1>4
    <2>2. MergeGroup(Rec(b.has, b.val, b.unknown), from, G) = Rec(add(b.has), in(b.val), b.unknown)
        BY <1>6, MergeGroupIs DEF add, in
    <2> QED BY <1>2, <2>1, <2>2 DEF w
<1>7. CASE from.has \cap G = {}
    BY <1>7, MergeNothing DEF w
<1> QED BY <1>6, <1>7

\* Clearing the name of a metric leaves its oneof.
LEMMA WholeClear ==
    ASSUME NEW N, NEW b \in Sane(N), NEW c, NEW r, NEW G
    PROVE  /\ ClearGroup(Whole(b, c, r), G) = Whole(ClearGroup(b, G), c, r)
           /\ ClearBits(Whole(b, c, r)) = Whole(ClearBits(b), c, r)
<1> DEFINE in(x) == Zeroed(x, G)
           none == {}
           nil == <<>>
           w == Whole(b, c, r)
<1>1. b = Rec(b.has, b.val, b.unknown)
    BY Sanely
<1>2. \A m : m.has \cap G # {} => ClearGroup(m, G) = SetVal(m, in(m.val))
    BY DEF ClearGroup, SetVal, Zeroed
<1>3. \A m : ClearBits(m) = SetUnknown(SetHas(m, none), nil)
    BY DEF ClearBits, SetUnknown, SetHas
<1>4. w.has = b.has /\ w.val = b.val
    BY WholeParts
<1> HIDE DEF in, none, nil
<1>5. \A y : SetVal(w, y) = Whole(Rec(b.has, y, b.unknown), c, r)
    <2> TAKE y
    <2>1. SetVal(Whole(Rec(b.has, b.val, b.unknown), c, r), y) = Whole(Rec(b.has, y, b.unknown), c, r)
        BY WholeAssigns
    <2> QED BY <1>1, <2>1
<1>6. ClearBits(w) = Whole(Rec(none, b.val, nil), c, r)
    <2>1. SetHas(Whole(Rec(b.has, b.val, b.unknown), c, r), none) = Whole(Rec(none, b.val, b.unknown), c, r)
        BY WholeAssigns
    <2>2. SetUnknown(Whole(Rec(none, b.val, b.unknown), c, r), nil) = Whole(Rec(none, b.val, nil), c, r)
        BY WholeAssigns
    <2> QED BY <1>1, <1>3, <2>1, <2>2
<1>7. ClearBits(Rec(b.has, b.val, b.unknown)) = Rec(none, b.val, nil)
    BY ClearBitsIs DEF none, nil
<1>8. ClearGroup(w, G) = Whole(ClearGroup(b, G), c, r)
    <2>1. CASE b.has \cap G = {}
        <3>1. ClearGroup(w, G) = w /\ ClearGroup(b, G) = b
            <4> HIDE DEF w
            <4> QED BY <1>4, <2>1, ClearNothing
        <3> QED BY <3>1
    <2>2. CASE b.has \cap G # {}
        <3>1. ClearGroup(w, G) = SetVal(w, in(b.val))
            <4> HIDE DEF w
            <4> QED BY <1>2, <1>4, <2>2
        <3>2. ClearGroup(Rec(b.has, b.val, b.unknown), G) = Rec(b.has, in(b.val), b.unknown)
            BY <2>2, ClearGroupIs DEF in
        <3> HIDE DEF w
        <3> QED BY <1>1, <1>5, <3>1, <3>2
    <2> QED BY <2>1, <2>2
<1> QED BY <1>1, <1>6, <1>7, <1>8
-----------------------------------------------------------------------------
(* The heap *)

\* A heap, and one with one more message at an address that is not in use.
HeapOK(H) == H = [q \in DOMAIN H |-> H[q]] /\ IsFiniteSet(DOMAIN H) /\ DOMAIN H \subseteq Nat \ {Null}
Unused(H) == Nat \ (DOMAIN H \cup {Null})
Plus(H, p, x) == [q \in DOMAIN H \cup {p} |-> IF q = p THEN x ELSE H[q]]

\* new returns an address that is not in use, and not null.
LEMMA FreeAddressUnused ==
    ASSUME NEW H, HeapOK(H)
    PROVE  FreeAddress(H) \in Unused(H)
<1> DEFINE n == Cardinality(DOMAIN H)
           I == 1..(n + 1)
           S == I \ DOMAIN H
<1>1. n \in Nat
    BY FS_CardinalityType DEF HeapOK
<1>2. IsFiniteSet(I) /\ Cardinality(I) = n + 1
    BY <1>1, FS_Interval
<1>3. S # {}
    <2> SUFFICES ASSUME I \subseteq DOMAIN H PROVE FALSE
        OBVIOUS
    <2>1. Cardinality(I) <= Cardinality(DOMAIN H)
        <3> HIDE DEF I
        <3> QED BY FS_Subset DEF HeapOK
    <2> HIDE DEF I
    <2> QED BY <1>1, <1>2, <2>1
<1>4. S \subseteq Nat
    OBVIOUS
<1>5. Min(S) \in S
    <2> HIDE DEF S
    <2> QED BY <1>3, <1>4, MinIn
<1>6. FreeAddress(H) = Min(S)
    BY DEF FreeAddress
<1> QED BY <1>1, <1>5, <1>6 DEF Unused, Null

\* What was on the heap stays where it was.
LEMMA PlusAt ==
    ASSUME NEW H, NEW p \in Unused(H), NEW x, NEW q \in DOMAIN H
    PROVE  q # p /\ Plus(H, p, x)[q] = H[q]
BY DEF Plus, Unused

\* What was allocated is at its address.
LEMMA PlusIs ==
    ASSUME NEW H, NEW p, NEW x
    PROVE  Plus(H, p, x)[p] = x
BY DEF Plus

\* The addresses in use after an allocation.
LEMMA PlusDomain ==
    ASSUME NEW H, NEW p, NEW x
    PROVE  DOMAIN Plus(H, p, x) = DOMAIN H \cup {p}
BY DEF Plus

\* The heap stays a finite function.
LEMMA PlusOK ==
    ASSUME NEW H, HeapOK(H), NEW p \in Unused(H), NEW x
    PROVE  HeapOK(Plus(H, p, x))
<1>1. p \in Nat \ {Null}
    BY DEF Unused
<1>2. DOMAIN Plus(H, p, x) = DOMAIN H \cup {p}
    BY DEF Plus
<1>3. IsFiniteSet(DOMAIN H \cup {p})
    BY FS_AddElement DEF HeapOK
<1>4. Plus(H, p, x) = [q \in DOMAIN Plus(H, p, x) |-> Plus(H, p, x)[q]]
    BY DEF Plus
<1> QED BY <1>1, <1>2, <1>3, <1>4 DEF HeapOK

\* delete undoes new.
LEMMA DeletePlus ==
    ASSUME NEW H, HeapOK(H), NEW p \in Unused(H), NEW x
    PROVE  Delete(Plus(H, p, x), p) = H
<1>1. (DOMAIN H \cup {p}) \ {p} = DOMAIN H
    BY DEF Unused
<1>2. Delete(Plus(H, p, x), p) = [q \in DOMAIN H |-> H[q]]
    BY <1>1, PlusAt DEF Delete, Plus
<1> QED BY <1>2 DEF HeapOK

\* new adds a message at the address it returns.
LEMMA AllocateIs ==
    ASSUME NEW H, HeapOK(H), NEW x
    PROVE  Allocate(H, x) = Plus(H, FreeAddress(H), x)
<1>1. FreeAddress(H) \notin DOMAIN H
    BY FreeAddressUnused DEF Unused
<1> QED BY <1>1 DEF Allocate, Plus

-----------------------------------------------------------------------------
(* A metric and the heap: H is what the metric does not own. *)

Empty(b, H)         == [m |-> Whole(b, NotSet, Null), h |-> H]
Full(b, c, p, x, H) == [m |-> Whole(b, c, p), h |-> Plus(H, p, x)]

Named == Sane({"name"})

\* A metric that owns nothing, by its parts.
LEMMA EmptyParts ==
    ASSUME NEW b, NEW H
    PROVE  Empty(b, H).m = Whole(b, NotSet, Null) /\ Empty(b, H).h = H
BY DEF Empty

\* A metric that owns a message, by its parts.
LEMMA FullParts ==
    ASSUME NEW b, NEW H, NEW c, NEW p, NEW x
    PROVE  Full(b, c, p, x, H).m = Whole(b, c, p) /\ Full(b, c, p, x, H).h = Plus(H, p, x)
BY DEF Full

\* The cases of the oneof are classes without nested messages.
LEMMA CasesAre ==
    /\ Cases \subseteq FlatClasses
    /\ NotSet \notin Cases
BY DEF Cases, FlatClasses, NotSet

\* The metric is assigned, the heap stays.
SetMetric(s, m) == [s EXCEPT !.m = m]

\* The assignment of the metric.
LEMMA SetMetricIs ==
    ASSUME NEW s, NEW m, NEW h, NEW n
    PROVE  SetMetric([m |-> m, h |-> h], n) = [m |-> n, h |-> h]
BY DEF SetMetric

\* What the metric owns is freed.
LEMMA ClearMetricIs ==
    ASSUME NEW H, HeapOK(H), NEW b, NEW c \in Cases, NEW p \in Unused(H), NEW x
    PROVE  /\ clear_metric(Empty(b, H)) = Empty(b, H)
           /\ clear_metric(Full(b, c, p, x, H)) = Empty(b, H)
<1>1. clear_metric(Empty(b, H)) = Empty(b, H)
    <2> DEFINE s == Empty(b, H)
    <2>1. s.m.case = NotSet /\ s.h = H /\ clear_has_metric(s.m) = Whole(b, NotSet, Null)
        BY EmptyParts, FullParts, WholeParts, WholeClearHas
    <2> HIDE DEF s
    <2>2. clear_metric(s) = [m |-> Whole(b, NotSet, Null), h |-> H]
        BY <2>1 DEF clear_metric
    <2> QED BY <2>2 DEF s, Empty
<1>2. clear_metric(Full(b, c, p, x, H)) = Empty(b, H)
    <2> DEFINE s == Full(b, c, p, x, H)
    <2>1. /\ s.m.case = c /\ s.m.ref = p /\ s.h = Plus(H, p, x)
          /\ clear_has_metric(s.m) = Whole(b, NotSet, Null)
        BY EmptyParts, FullParts, WholeParts, WholeClearHas
    <2> HIDE DEF s
    <2>2. clear_metric(s) = [m |-> Whole(b, NotSet, Null), h |-> Delete(Plus(H, p, x), p)]
        BY <2>1, CasesAre DEF clear_metric
    <2> QED BY <2>2, DeletePlus DEF s, Empty
<1> QED BY <1>1, <1>2

\* A nested message of the case is there, or a new one is made.
LEMMA MutableIs ==
    ASSUME NEW H, HeapOK(H), NEW b, NEW c \in Cases, NEW d \in Cases, NEW p \in Unused(H), NEW x
    PROVE  /\ mutable(Empty(b, H), c) = Full(b, c, FreeAddress(H), Fresh(ClassSchema(c)), H)
           /\ mutable(Full(b, c, p, x, H), c) = Full(b, c, p, x, H)
           /\ d # c => mutable(Full(b, d, p, x, H), c) = Full(b, c, FreeAddress(H), Fresh(ClassSchema(c)), H)
<1> DEFINE e == Empty(b, H)
           f == Full(b, c, FreeAddress(H), Fresh(ClassSchema(c)), H)
<1>1. \A s : clear_metric(s) = e /\ s.m.case # c => mutable(s, c) = f
    <2> SUFFICES ASSUME NEW s, clear_metric(s) = e, s.m.case # c PROVE mutable(s, c) = f
        OBVIOUS
    <2>1. set_has(e.m, c, FreeAddress(H)) = Whole(b, c, FreeAddress(H)) /\ e.h = H
        BY EmptyParts, WholeSetHas
    <2>2. ClassNew(c) = Fresh(ClassSchema(c))
        BY CasesAre, ClassNewIs
    <2>3. Allocate(H, Fresh(ClassSchema(c))) = Plus(H, FreeAddress(H), Fresh(ClassSchema(c)))
        BY AllocateIs
    <2> HIDE DEF e
    <2>4. mutable(s, c) = [m |-> Whole(b, c, FreeAddress(H)), h |-> Plus(H, FreeAddress(H), Fresh(ClassSchema(c)))]
        BY <2>1, <2>2, <2>3 DEF mutable
    <2> QED BY <2>4 DEF Full
<1>2. e.m.case = NotSet /\ clear_metric(e) = e
    BY EmptyParts, WholeParts, ClearMetricIs
<1>3. \A k \in Cases : Full(b, k, p, x, H).m.case = k /\ clear_metric(Full(b, k, p, x, H)) = e
    <2> TAKE k \in Cases
    <2>1. Full(b, k, p, x, H).m.case = k
        BY FullParts, WholeParts
    <2> QED BY <2>1, ClearMetricIs
<1> HIDE DEF e, f
<1>4. mutable(e, c) = f
    BY <1>1, <1>2, CasesAre
<1>5. mutable(Full(b, c, p, x, H), c) = Full(b, c, p, x, H)
    BY <1>3 DEF mutable
<1>6. d # c => mutable(Full(b, d, p, x, H), c) = f
    BY <1>1, <1>3
<1> QED BY <1>4, <1>5, <1>6 DEF e, f

\* The nested message is assigned.
SetSub(s, x) == [s EXCEPT !.h[s.m.ref] = x]

\* The message a metric owns is assigned.
LEMMA SetSubIs ==
    ASSUME NEW H, HeapOK(H), NEW b, NEW c, NEW p \in Unused(H), NEW x, NEW y
    PROVE  SetSub(Full(b, c, p, x, H), y) = Full(b, c, p, y, H)
<1> DEFINE g == Plus(H, p, x)
           w == Whole(b, c, p)
<1>1. SetSub(Full(b, c, p, x, H), y) = [m |-> w, h |-> [g EXCEPT ![p] = y]]
    <2>1. w.ref = p
        BY WholeParts
    <2> HIDE DEF w, g
    <2>2. SetSub([m |-> w, h |-> g], y) = [m |-> w, h |-> [g EXCEPT ![p] = y]]
        BY <2>1 DEF SetSub
    <2> QED BY <2>2 DEF Full, g, w
<1>2. [g EXCEPT ![p] = y] = Plus(H, p, y)
    BY DEF Plus
<1> HIDE DEF g, w
<1> QED BY <1>1, <1>2 DEF Full, w
-----------------------------------------------------------------------------
(* The methods of a metric *)

\* The own field of a metric.
LEMMA MetricSchema == SchemaOK(Schema) /\ Names(Schema) = {"name"} /\ Tags(Schema) = {10} /\ Len(Schema) = 1
<1> DEFINE R == [name : Names(Schema), tag : 1..127]
<1>1. Names(Schema) = {"name"} /\ Tags(Schema) = {10} /\ Len(Schema) = 1
    BY DEF Schema, Names, Tags, Field
<1>2. Schema \in Seq(R)
    <2>1. \A a \in Names(Schema), t \in 1..127 : Field(a, t) \in R
        BY DEF Field
    <2> HIDE DEF R
    <2> QED BY <1>1, <2>1 DEF Schema
<1>3. Schema[1].tag = 10
    BY DEF Schema, Field
<1>4. \A i \in 1..1 : i = 1
    OBVIOUS
<1> HIDE DEF R
<1> QED BY <1>1, <1>2, <1>3, <1>4 DEF SchemaOK, R

\* A metric that owns nothing is assigned ...
LEMMA OnEmpty ==
    ASSUME NEW b, NEW H, NEW n, NEW d
    PROVE  n = Whole(d, NotSet, Null) => SetMetric(Empty(b, H), n) = Empty(d, H)
BY DEF Empty, SetMetric

\* ... or one that owns a message.
LEMMA OnFull ==
    ASSUME NEW b, NEW c, NEW p, NEW x, NEW H, NEW n, NEW d
    PROVE  n = Whole(d, c, p) => SetMetric(Full(b, c, p, x, H), n) = Full(d, c, p, x, H)
<1> DEFINE g == Plus(H, p, x)
<1>1. SetMetric([m |-> Whole(b, c, p), h |-> g], n) = [m |-> n, h |-> g]
    BY DEF SetMetric
<1> HIDE DEF g
<1> QED BY <1>1 DEF Full, g

\* Nothing but the own fields and the unknown ones of a message is merged into those of another.
LEMMA FromWhole ==
    ASSUME NEW m, NEW b, NEW c, NEW p, NEW G
    PROVE  /\ MergeGroup(m, Whole(b, c, p), G) = MergeGroup(m, b, G)
           /\ MergeUnknown(m, Whole(b, c, p)) = MergeUnknown(m, b)
<1>1. Whole(b, c, p).has = b.has /\ Whole(b, c, p).val = b.val /\ Whole(b, c, p).unknown = b.unknown
    BY WholeParts
<1>2. MergeGroup(m, Whole(b, c, p), G) = MergeGroup(m, b, G)
    BY <1>1 DEF MergeGroup
<1>3. MergeUnknown(m, Whole(b, c, p)) = MergeUnknown(m, b)
    BY <1>1 DEF MergeUnknown
<1> QED BY <1>2, <1>3

\* A new nested message, or name, has only defaults.
LEMMA FreshNamed ==
    /\ Fresh(Schema) \in Named
    /\ \A c \in Cases : Fresh(ClassSchema(c)) \in Sane(Own(c))
BY MetricSchema, FreshSane DEF Named, Own

\* A new metric.
LEMMA NewIs == New = Whole(Fresh(Schema), NotSet, Null)
BY MetricSchema DEF New, Whole, Fresh

\* Clear empties a metric and frees what it owns.
LEMMA ClearedNamed ==
    ASSUME NEW b \in Named
    PROVE  /\ ClearGroup(b, {"name"}) \in Named
           /\ ClearBits(ClearGroup(b, {"name"})) = Fresh(Schema)
<1>1. /\ ClearGroup(b, {"name"}) = Rec(b.has, Zeroed(b.val, {"name"}), b.unknown)
      /\ Rec(b.has, Zeroed(b.val, {"name"}), b.unknown) \in Named
    BY ClearGroupSane DEF Named
<1>2. b.val \in [{"name"} -> Nat]
    BY Sanely DEF Named
<1>3. Zeroed(b.val, {"name"}) \in [Names(Schema) -> Nat] /\ \A f \in Names(Schema) : Zeroed(b.val, {"name"})[f] = 0
    BY <1>2, MetricSchema DEF Zeroed
<1> QED BY <1>1, <1>3, ClearBitsFresh

\* Clear leaves a metric as its constructor does, and frees what it owned.
LEMMA ClearIs ==
    ASSUME NEW H, HeapOK(H), NEW b \in Named, NEW c \in Cases, NEW p \in Unused(H), NEW x
    PROVE  /\ Clear(Empty(b, H)) = Empty(Fresh(Schema), H)
           /\ Clear(Full(b, c, p, x, H)) = Empty(Fresh(Schema), H)
<1> DEFINE G == {"name"}
           d == ClearGroup(b, G)
           E == Empty(d, H)
<1>1. \A s : Clear(s) = SetMetric(clear_metric(SetMetric(s, ClearGroup(s.m, G))),
                                  ClearBits(clear_metric(SetMetric(s, ClearGroup(s.m, G))).m))
    BY DEF Clear, SetMetric
<1>2. /\ ClearGroup(Whole(b, NotSet, Null), G) = Whole(d, NotSet, Null)
      /\ ClearGroup(Whole(b, c, p), G) = Whole(d, c, p)
    BY WholeClear DEF Named
<1>3. d \in Named /\ ClearBits(d) = Fresh(Schema)
    BY ClearedNamed
<1>4. ClearBits(Whole(d, NotSet, Null)) = Whole(Fresh(Schema), NotSet, Null)
    BY <1>3, WholeClear DEF Named
<1> HIDE DEF d, G
<1>5. clear_metric(SetMetric(Empty(b, H), ClearGroup(Empty(b, H).m, G))) = E
    BY <1>2, EmptyParts, OnEmpty, ClearMetricIs
<1>6. clear_metric(SetMetric(Full(b, c, p, x, H), ClearGroup(Full(b, c, p, x, H).m, G))) = E
    <2>1. SetMetric(Full(b, c, p, x, H), ClearGroup(Full(b, c, p, x, H).m, G)) = Full(d, c, p, x, H)
        BY <1>2, FullParts, OnFull
    <2> QED BY <2>1, ClearMetricIs
<1>7. SetMetric(E, ClearBits(E.m)) = Empty(Fresh(Schema), H)
    BY <1>4, EmptyParts, OnEmpty
<1> HIDE DEF E
<1>8. \A s : clear_metric(SetMetric(s, ClearGroup(s.m, G))) = E => Clear(s) = Empty(Fresh(Schema), H)
    BY <1>1, <1>7
<1> QED BY <1>5, <1>6, <1>8

\* Merging the nested message of another metric, which is at the address q.
LEMMA MergeInto ==
    ASSUME NEW H, HeapOK(H), NEW b, NEW d \in Cases, NEW r \in Unused(H), NEW y \in Sane(Own(d)),
           NEW e, NEW q \in DOMAIN H, H[q] \in Sane(Own(d)), NEW s, mutable(s, d) = Full(b, d, r, y, H)
    PROVE  MergeMetric(s, Whole(e, d, q)) = Full(b, d, r, Joined(y, H[q]), H)
<1> DEFINE from == Whole(e, d, q)
           f == Full(b, d, r, y, H)
<1>1. from.case = d /\ from.ref = q
    BY WholeParts
<1>2. f.h = Plus(H, r, y) /\ f.m.ref = r
    BY FullParts, WholeParts
<1>3. f.h[r] = y /\ f.h[q] = H[q]
    <2>1. Plus(H, r, y)[r] = y /\ Plus(H, r, y)[q] = H[q]
        BY PlusIs, PlusAt
    <2> HIDE DEF f
    <2> QED BY <1>2, <2>1
<1>4. ClassMerge(d, y, H[q]) = Joined(y, H[q])
    BY CasesAre, ClassMergeIs
<1>5. SetSub(f, Joined(y, H[q])) = Full(b, d, r, Joined(y, H[q]), H)
    BY SetSubIs
<1> HIDE DEF from, f
<1>6. MergeMetric(s, from) = SetSub(f, ClassMerge(d, f.h[f.m.ref], f.h[q]))
    <2>1. mutable(s, d) = f
        BY DEF f
    <2> QED BY <1>1, <2>1, CasesAre DEF MergeMetric, SetSub
<1> QED BY <1>2, <1>3, <1>4, <1>5, <1>6 DEF from

\* The nested message is merged into the one of the same case ...
LEMMA MergeMetricSame ==
    ASSUME NEW H, HeapOK(H), NEW b, NEW c \in Cases, NEW p \in Unused(H),
           NEW x \in Sane(Own(c)), NEW e, NEW q \in DOMAIN H, H[q] \in Sane(Own(c))
    PROVE  MergeMetric(Full(b, c, p, x, H), Whole(e, c, q)) = Full(b, c, p, Joined(x, H[q]), H)
<1>1. mutable(Full(b, c, p, x, H), c) = Full(b, c, p, x, H)
    BY MutableIs
<1> QED BY <1>1, MergeInto

\* Into a metric with nothing of its own, or with something else.
LEMMA MergeMetricNew ==
    ASSUME NEW H, HeapOK(H), NEW b, NEW d \in Cases, NEW e, NEW q \in DOMAIN H, H[q] \in Sane(Own(d)), NEW s,
           mutable(s, d) = Full(b, d, FreeAddress(H), Fresh(ClassSchema(d)), H)
    PROVE  MergeMetric(s, Whole(e, d, q)) = Full(b, d, FreeAddress(H), H[q], H)
<1> DEFINE a == FreeAddress(H)
           new == Fresh(ClassSchema(d))
<1>1. a \in Unused(H) /\ new \in Sane(Own(d)) /\ Joined(new, H[q]) = H[q]
    BY FreeAddressUnused, FreshNamed, JoinedFresh DEF Own
<1> HIDE DEF a, new
<1>2. mutable(s, d) = Full(b, d, a, new, H)
    BY DEF a, new
<1>3. MergeMetric(s, Whole(e, d, q)) = Full(b, d, a, Joined(new, H[q]), H)
    BY <1>1, <1>2, MergeInto
<1> QED BY <1>1, <1>3 DEF a

\* ... into a new one if there was none ...
LEMMA MergeMetricIs ==
    ASSUME NEW H, HeapOK(H), NEW b, NEW d \in Cases, NEW e, NEW q \in DOMAIN H, H[q] \in Sane(Own(d))
    PROVE  MergeMetric(Empty(b, H), Whole(e, d, q)) = Full(b, d, FreeAddress(H), H[q], H)
<1>1. FreeAddress(H) \in Unused(H)
    BY FreeAddressUnused
<1>2. mutable(Empty(b, H), d) = Full(b, d, FreeAddress(H), Fresh(ClassSchema(d)), H)
    BY <1>1, MutableIs
<1> QED BY <1>2, MergeMetricNew

\* ... or if there was one of another case, which is freed.
LEMMA MergeMetricOther ==
    ASSUME NEW H, HeapOK(H), NEW b, NEW c \in Cases, NEW d \in Cases, d # c, NEW p \in Unused(H), NEW x,
           NEW e, NEW q \in DOMAIN H, H[q] \in Sane(Own(d))
    PROVE  MergeMetric(Full(b, c, p, x, H), Whole(e, d, q)) = Full(b, d, FreeAddress(H), H[q], H)
<1>1. mutable(Full(b, c, p, x, H), d) = Full(b, d, FreeAddress(H), Fresh(ClassSchema(d)), H)
    BY MutableIs
<1> QED BY <1>1, MergeMetricNew

\* A metric without a nested message merges none.
LEMMA MergeNoMetric ==
    ASSUME NEW s, NEW e, NEW q
    PROVE  MergeMetric(s, Whole(e, NotSet, q)) = s
BY WholeParts DEF MergeMetric
\* Merging the name leaves it at its default if it is not set.
LEMMA MergeGroupSane ==
    ASSUME NEW N, NEW to \in Sane(N), NEW from \in Sane(N), NEW G, from.has \subseteq G
    PROVE  MergeGroup(to, from, G) \in Sane(N)
<1>1. to = Rec(to.has, to.val, to.unknown) /\ to.val \in [N -> Nat] /\ to.has \subseteq N
    BY Sanely
<1>2. from.val \in [N -> Nat] /\ from.has \subseteq N
    BY Sanely
<1>3. to.unknown \in Seq({Foreign}) /\ \A f \in N : f \notin to.has => to.val[f] = 0
    BY Sanely
<1>4. CASE from.has \cap G = {}
    BY <1>4, MergeNothing
<1>5. CASE from.has \cap G # {}
    <2> DEFINE v == Overlaid(to.val, from, G)
    <2>1. MergeGroup(Rec(to.has, to.val, to.unknown), from, G) = Rec(to.has \cup from.has, v, to.unknown)
        BY <1>5, MergeGroupIs
    <2>2. v \in [N -> Nat] /\ \A f \in N : f \notin to.has \cup from.has => v[f] = 0
        BY <1>1, <1>2, <1>3 DEF Overlaid
    <2> HIDE DEF v
    <2>3. Rec(to.has \cup from.has, v, to.unknown) \in Sane(N)
        BY <1>1, <1>2, <1>3, <2>2, RecSane
    <2> QED BY <1>1, <2>1, <2>3
<1> QED BY <1>4, <1>5

\* The own fields in a merge of metrics.
LEMMA MergeOwn ==
    ASSUME NEW b \in Named, NEW e \in Named, NEW c, NEW p, NEW k, NEW q
    PROVE  /\ MergeGroup(b, e, {"name"}) \in Named
           /\ MergeGroup(Whole(b, c, p), Whole(e, k, q), {"name"}) = Whole(MergeGroup(b, e, {"name"}), c, p)
<1>1. e.has \subseteq {"name"}
    BY Sanely DEF Named
<1>2. MergeGroup(b, e, {"name"}) \in Named
    BY <1>1, MergeGroupSane DEF Named
<1>3. MergeGroup(Whole(b, c, p), e, {"name"}) = Whole(MergeGroup(b, e, {"name"}), c, p)
    BY WholeMerge DEF Named
<1> QED BY <1>2, <1>3, FromWhole

\* And the unknown fields.
LEMMA MergeOwnRest ==
    ASSUME NEW b \in Named, NEW e \in Named, NEW c, NEW p, NEW k, NEW q
    PROVE  MergeUnknown(Whole(MergeGroup(b, e, {"name"}), c, p), Whole(e, k, q)) = Whole(Joined(b, e), c, p)
<1> DEFINE g == MergeGroup(b, e, {"name"})
<1>1. e.has \subseteq {"name"}
    BY Sanely DEF Named
<1>2. g \in Named
    BY MergeOwn
<1>3. MergeUnknown(g, e) = Joined(b, e)
    BY <1>1, GroupThenRest DEF Named
<1> HIDE DEF g
<1>4. MergeUnknown(Whole(g, c, p), e) = Whole(MergeUnknown(g, e), c, p)
    BY <1>2, WholeUnknown DEF Named
<1>5. MergeUnknown(Whole(g, c, p), Whole(e, k, q)) = MergeUnknown(Whole(g, c, p), e)
    BY FromWhole
<1> QED BY <1>3, <1>4, <1>5 DEF g

\* MergeFrom merges the name, the oneof and the unknown fields, in this order.
LEMMA MergeFromSteps ==
    ASSUME NEW s, NEW from, NEW t, NEW d,
           t = SetMetric(s, MergeGroup(s.m, from, {"name"})), d = MergeMetric(t, from)
    PROVE  MergeFrom(s, from) = SetMetric(d, MergeUnknown(d.m, from))
BY DEF MergeFrom, SetMetric

\* MergeFrom into a metric that owns nothing ...
LEMMA MergeEmpty ==
    ASSUME NEW H, HeapOK(H), NEW b \in Named, NEW e \in Named, NEW k, NEW q
    PROVE  /\ k = NotSet => MergeFrom(Empty(b, H), Whole(e, k, q)) = Empty(Joined(b, e), H)
           /\ k \in Cases /\ q \in DOMAIN H /\ H[q] \in Sane(Own(k)) =>
                MergeFrom(Empty(b, H), Whole(e, k, q)) = Full(Joined(b, e), k, FreeAddress(H), H[q], H)
<1> DEFINE from == Whole(e, k, q)
           g == MergeGroup(b, e, {"name"})
           j == Joined(b, e)
           t == Empty(g, H)
<1>1. t = SetMetric(Empty(b, H), MergeGroup(Empty(b, H).m, from, {"name"}))
    BY EmptyParts, OnEmpty, MergeOwn
<1>2. g \in Named
    BY MergeOwn
<1>3. k = NotSet => MergeMetric(t, from) = t
    BY MergeNoMetric
<1>4. k \in Cases /\ q \in DOMAIN H /\ H[q] \in Sane(Own(k)) =>
        MergeMetric(t, from) = Full(g, k, FreeAddress(H), H[q], H)
    <2> SUFFICES ASSUME k \in Cases, q \in DOMAIN H, H[q] \in Sane(Own(k))
                 PROVE  MergeMetric(t, from) = Full(g, k, FreeAddress(H), H[q], H)
        OBVIOUS
    <2> QED BY MergeMetricIs
<1>5. \A c, p : MergeUnknown(Whole(g, c, p), from) = Whole(j, c, p)
    BY MergeOwnRest
<1> HIDE DEF from, g, j
<1>6. SetMetric(t, MergeUnknown(t.m, from)) = Empty(j, H)
    BY <1>5, EmptyParts, OnEmpty
<1>7. \A p, x : SetMetric(Full(g, k, p, x, H), MergeUnknown(Full(g, k, p, x, H).m, from)) = Full(j, k, p, x, H)
    BY <1>5, FullParts, OnFull
<1> HIDE DEF t
<1>8. \A d : d = MergeMetric(t, from) => MergeFrom(Empty(b, H), from) = SetMetric(d, MergeUnknown(d.m, from))
    BY <1>1, MergeFromSteps
<1> QED BY <1>3, <1>4, <1>6, <1>7, <1>8 DEF from, j

\* ... and into one that owns a message.
LEMMA MergeFull ==
    ASSUME NEW H, HeapOK(H), NEW b \in Named, NEW e \in Named, NEW k, NEW q,
           NEW c \in Cases, NEW p \in Unused(H), NEW x \in Sane(Own(c))
    PROVE  /\ k = NotSet => MergeFrom(Full(b, c, p, x, H), Whole(e, k, q)) = Full(Joined(b, e), c, p, x, H)
           /\ k \in Cases /\ q \in DOMAIN H /\ H[q] \in Sane(Own(k)) =>
                MergeFrom(Full(b, c, p, x, H), Whole(e, k, q))
                  = IF k = c THEN Full(Joined(b, e), k, p, Joined(x, H[q]), H)
                    ELSE Full(Joined(b, e), k, FreeAddress(H), H[q], H)
<1> DEFINE from == Whole(e, k, q)
           g == MergeGroup(b, e, {"name"})
           j == Joined(b, e)
           s == Full(b, c, p, x, H)
           t == Full(g, c, p, x, H)
<1>1. t = SetMetric(s, MergeGroup(s.m, from, {"name"}))
    <2>1. MergeGroup(Whole(b, c, p), from, {"name"}) = Whole(g, c, p)
        BY MergeOwn
    <2>2. s.m = Whole(b, c, p)
        BY FullParts
    <2> HIDE DEF g, from
    <2> QED BY <2>1, <2>2, OnFull
<1>2. k = NotSet => MergeMetric(t, from) = t
    BY MergeNoMetric
<1>3. k \in Cases /\ q \in DOMAIN H /\ H[q] \in Sane(Own(k)) =>
        MergeMetric(t, from) = IF k = c THEN Full(g, k, p, Joined(x, H[q]), H)
                               ELSE Full(g, k, FreeAddress(H), H[q], H)
    <2> SUFFICES ASSUME k \in Cases, q \in DOMAIN H, H[q] \in Sane(Own(k))
                 PROVE  MergeMetric(t, from) = IF k = c THEN Full(g, k, p, Joined(x, H[q]), H)
                                               ELSE Full(g, k, FreeAddress(H), H[q], H)
        OBVIOUS
    <2> HIDE DEF g
    <2>1. k = c => MergeMetric(Full(g, c, p, x, H), Whole(e, k, q)) = Full(g, k, p, Joined(x, H[q]), H)
        BY MergeMetricSame
    <2>2. k # c => MergeMetric(Full(g, c, p, x, H), Whole(e, k, q)) = Full(g, k, FreeAddress(H), H[q], H)
        BY MergeMetricOther
    <2> QED BY <2>1, <2>2
<1>4. \A l, r : MergeUnknown(Whole(g, l, r), from) = Whole(j, l, r)
    BY MergeOwnRest
<1> HIDE DEF from, g, j
<1>5. \A l, r, y : SetMetric(Full(g, l, r, y, H), MergeUnknown(Full(g, l, r, y, H).m, from)) = Full(j, l, r, y, H)
    BY <1>4, FullParts, OnFull
<1>6. \A l, r, y : MergeMetric(t, from) = Full(g, l, r, y, H) => MergeFrom(s, from) = Full(j, l, r, y, H)
    <2> HIDE DEF t, s
    <2>1. \A d : d = MergeMetric(t, from) => MergeFrom(s, from) = SetMetric(d, MergeUnknown(d.m, from))
        BY <1>1, MergeFromSteps
    <2> QED BY <1>5, <2>1
<1>7. k = NotSet => MergeFrom(s, from) = Full(j, c, p, x, H)
    BY <1>2, <1>6
<1> HIDE DEF s, t
<1> QED BY <1>3, <1>6, <1>7 DEF from, j, s
\* CopyFrom makes a metric like another one, whatever it was.
LEMMA CopyFromIs ==
    ASSUME NEW H, HeapOK(H), NEW s, Clear(s) = Empty(Fresh(Schema), H), NEW e \in Named, NEW k, NEW q
    PROVE  /\ k = NotSet => CopyFrom(s, Whole(e, k, q)) = Empty(e, H)
           /\ k \in Cases /\ q \in DOMAIN H /\ H[q] \in Sane(Own(k)) =>
                CopyFrom(s, Whole(e, k, q)) = Full(e, k, FreeAddress(H), H[q], H)
<1>1. CopyFrom(s, Whole(e, k, q)) = MergeFrom(Empty(Fresh(Schema), H), Whole(e, k, q))
    BY DEF CopyFrom
<1>2. Joined(Fresh(Schema), e) = e /\ Fresh(Schema) \in Named
    BY MetricSchema, JoinedFresh, FreshNamed DEF Named
<1> DEFINE z == Fresh(Schema)
<1> HIDE DEF z
<1>3. /\ k = NotSet => MergeFrom(Empty(z, H), Whole(e, k, q)) = Empty(Joined(z, e), H)
      /\ k \in Cases /\ q \in DOMAIN H /\ H[q] \in Sane(Own(k)) =>
           MergeFrom(Empty(z, H), Whole(e, k, q)) = Full(Joined(z, e), k, FreeAddress(H), H[q], H)
    BY <1>2, MergeEmpty DEF z
<1> QED BY <1>1, <1>2, <1>3 DEF z

\* The copy constructor.
LEMMA CopyIs ==
    ASSUME NEW H, HeapOK(H), NEW e \in Named, NEW k, NEW q
    PROVE  /\ k = NotSet => Copy(Whole(e, k, q), H) = Empty(e, H)
           /\ k \in Cases /\ q \in DOMAIN H /\ H[q] \in Sane(Own(k)) =>
                Copy(Whole(e, k, q), H) = Full(e, k, FreeAddress(H), H[q], H)
<1> DEFINE from == Whole(e, k, q)
           z == Fresh(Schema)
           n == MergeUnknown(New, from)
           v == IF "name" \in e.has THEN e.val["name"] ELSE 0
           c == SetVal(SetHas(n, e.has), With1(SetHas(n, e.has).val, "name", v))
           nil == <<>>
           none == {}
<1>1. from.has = e.has /\ from.val = e.val /\ from.unknown = e.unknown
    BY WholeParts
<1>2. Copy(from, H) = MergeMetric([m |-> c, h |-> H], from)
    <2> HIDE DEF from
    <2> QED BY <1>1 DEF Copy, SetVal, SetHas, With1
<1>3. /\ e = Rec(e.has, e.val, e.unknown) /\ e.unknown \in Seq({Foreign}) /\ e.val \in [{"name"} -> Nat]
      /\ \A f \in {"name"} : f \notin e.has => e.val[f] = 0
    BY Sanely DEF Named
<1>4. z = Rec(none, [f \in {"name"} |-> 0], nil)
    BY FreshIs, MetricSchema
<1>5. MergeUnknown(z, e) = Rec(none, [f \in {"name"} |-> 0], e.unknown)
    <2>1. nil \o e.unknown = e.unknown
        BY <1>3, ConcatEmptySeq
    <2> HIDE DEF none, nil, z
    <2>2. MergeUnknown(Rec(none, [f \in {"name"} |-> 0], nil), e) = Rec(none, [f \in {"name"} |-> 0], nil \o e.unknown)
        BY MergeUnknownIs
    <2> QED BY <1>4, <2>1, <2>2
<1>6. n = Whole(Rec(none, [f \in {"name"} |-> 0], e.unknown), NotSet, Null)
    <2>1. New = Whole(z, NotSet, Null) /\ z \in Named
        BY NewIs, FreshNamed
    <2> HIDE DEF z, none
    <2>2. MergeUnknown(Whole(z, NotSet, Null), e) = Whole(MergeUnknown(z, e), NotSet, Null)
        BY <2>1, WholeUnknown DEF Named
    <2>3. MergeUnknown(New, from) = MergeUnknown(New, e)
        BY FromWhole
    <2> HIDE DEF from
    <2> QED BY <1>5, <2>1, <2>2, <2>3
<1>7. c = Whole(e, NotSet, Null)
    <2> DEFINE zero == [f \in {"name"} |-> 0]
    <2> HIDE DEF n, v, none
    <2>1. SetHas(n, e.has) = Whole(Rec(e.has, zero, e.unknown), NotSet, Null)
        BY <1>6, WholeAssigns
    <2>2. SetHas(n, e.has).val = zero
        BY <2>1, WholeParts, Parts
    <2>3. With1(zero, "name", v) = e.val
        BY <1>3 DEF With1, v
    <2> HIDE DEF zero
    <2>4. SetVal(Whole(Rec(e.has, zero, e.unknown), NotSet, Null), e.val)
            = Whole(Rec(e.has, e.val, e.unknown), NotSet, Null)
        BY WholeAssigns
    <2> QED BY <1>3, <2>1, <2>2, <2>3, <2>4
<1>8. Copy(from, H) = MergeMetric(Empty(e, H), from)
    BY <1>2, <1>7 DEF Empty
<1> QED BY <1>8, MergeNoMetric, MergeMetricIs

\* InternalSwap makes of a metric the other one.
LEMMA SwapIs ==
    ASSUME NEW b, NEW c, NEW p, NEW e, NEW k, NEW q
    PROVE  InternalSwap(Whole(b, c, p), Whole(e, k, q)) = Whole(e, k, q)
BY DEF InternalSwap, Whole
-----------------------------------------------------------------------------
(* Parsing a metric *)

\* A metric that owns nothing at the addresses of H.
States(H) == {Empty(b, H) : b \in Named}
               \cup UNION {{Full(b, c, p, x, H) : b \in Named, p \in Unused(H), x \in Sane(Own(c))} : c \in Cases}

\* A metric that owns nothing is one of these ...
LEMMA EmptyState ==
    ASSUME NEW H, NEW b \in Named
    PROVE  Empty(b, H) \in States(H)
BY DEF States

\* ... and one that owns a message ...
LEMMA FullState ==
    ASSUME NEW H, NEW b \in Named, NEW c \in Cases, NEW p \in Unused(H), NEW x \in Sane(Own(c))
    PROVE  Full(b, c, p, x, H) \in States(H)
BY DEF States

\* ... and there are no others.
LEMMA StateIs ==
    ASSUME NEW H, NEW s \in States(H)
    PROVE  \/ \E b \in Named : s = Empty(b, H)
           \/ \E b \in Named, c \in Cases, p \in Unused(H) : \E x \in Sane(Own(c)) : s = Full(b, c, p, x, H)
BY DEF States

\* What another program writes as a metric.
Nests == UNION {{Nested(TagOf[c], w) : w \in Seq(Readable(ClassSchema(c)))} : c \in Cases}
MetricReadable == Readable(Schema) \cup Nests

\* A nested message is of one of the cases.
LEMMA NestIs ==
    ASSUME NEW e \in Nests
    PROVE  \E c \in Cases : \E w \in Seq(Readable(ClassSchema(c))) : e = Nested(TagOf[c], w)
BY DEF Nests

\* And every sequence its class can read may be nested.
LEMMA IsNest ==
    ASSUME NEW c \in Cases, NEW w \in Seq(Readable(ClassSchema(c)))
    PROVE  Nested(TagOf[c], w) \in Nests
BY DEF Nests

\* The tag of a case tells it from the others.
LEMMA TagOfIs ==
    /\ TagOf["counter"] = 18 /\ TagOf["stopwatch"] = 26 /\ TagOf["summary"] = 34
    /\ \A c \in Cases : TagOf[c] \in {18, 26, 34} /\ CaseOf(TagOf[c]) = c
<1>1. TagOf["counter"] = 18 /\ TagOf["stopwatch"] = 26 /\ TagOf["summary"] = 34
    BY DEF TagOf
<1>2. \A c \in Cases : TagOf[c] \in {18, 26, 34} /\ \A d \in Cases : TagOf[d] = TagOf[c] => d = c
    BY <1>1 DEF Cases
<1>3. \A c \in Cases : (CHOOSE d \in Cases : TagOf[d] = TagOf[c]) = c
    BY <1>2
<1> QED BY <1>1, <1>2, <1>3 DEF CaseOf

\* A field of its own, or an unknown one.
LEMMA ReadOwn ==
    ASSUME NEW b \in Named, NEW c, NEW p, NEW e \in Readable(Schema)
    PROVE  /\ ReadField(Schema, b, e) \in Named
           /\ ReadField(Schema, Whole(b, c, p), e) = Whole(ReadField(Schema, b, e), c, p)
<1>1. ReadField(Schema, b, e) \in Named
    BY MetricSchema, ReadFieldSane DEF Named, Closed
<1>2. CASE e.tag \in Tags(Schema)
    <2>1. Put(Whole(b, c, p), NameOf(Schema, e.tag), e.v) = Whole(Put(b, NameOf(Schema, e.tag), e.v), c, p)
        BY WholePut DEF Named
    <2> QED BY <1>1, <1>2, <2>1 DEF ReadField
<1>3. CASE e.tag \notin Tags(Schema)
    <2> DEFINE w == Whole(b, c, p)
    <2>1. ReadField(Schema, b, e) = SetUnknown(b, Append(b.unknown, e))
        BY <1>3 DEF ReadField, SetUnknown
    <2>2. w.unknown = b.unknown
        BY WholeParts
    <2>3. SetUnknown(w, Append(b.unknown, e)) = Whole(SetUnknown(b, Append(b.unknown, e)), c, p)
        BY WholeUnknown DEF Named
    <2> HIDE DEF w
    <2>4. ReadField(Schema, w, e) = SetUnknown(w, Append(b.unknown, e))
        BY <1>3, <2>2 DEF ReadField, SetUnknown
    <2> QED BY <1>1, <2>1, <2>3, <2>4 DEF w
<1> QED BY <1>2, <1>3

\* An entry that is not nested leaves the heap.
LEMMA ReadOwnEntry ==
    ASSUME NEW s, NEW e \in Readable(Schema)
    PROVE  ReadEntry(s, e) = SetMetric(s, ReadField(Schema, s.m, e))
<1>1. e.tag \in {9, 10}
    BY MetricSchema DEF Readable, Fields, Foreign, Entry
<1>2. e.tag \notin {TagOf[c] : c \in Cases}
    BY <1>1, TagOfIs
<1> QED BY <1>2 DEF ReadEntry, SetMetric

\* A nested message.
LEMMA ReadNest ==
    ASSUME NEW s, NEW c \in Cases, NEW w
    PROVE  ReadEntry(s, Nested(TagOf[c], w)) = ReadSub(s, c, w)
<1> DEFINE e == Nested(TagOf[c], w)
<1>1. e.tag = TagOf[c] /\ e.sub = w
    BY DEF Nested
<1> HIDE DEF e
<1>2. e.tag \in {TagOf[d] : d \in Cases} /\ CaseOf(e.tag) = c
    BY <1>1, TagOfIs
<1>3. ReadEntry(s, e) = ReadSub(s, c, w)
    BY <1>1, <1>2 DEF ReadEntry
<1> QED BY <1>3 DEF e

\* A nested message is read into the one that mutable returns.
LEMMA ReadInto ==
    ASSUME NEW H, HeapOK(H), NEW b, NEW c \in Cases, NEW r \in Unused(H), NEW y, NEW w,
           NEW s, mutable(s, c) = Full(b, c, r, y, H)
    PROVE  ReadSub(s, c, w) = Full(b, c, r, ReadFields(ClassSchema(c), y, w), H)
<1> DEFINE f == Full(b, c, r, y, H)
           z == ReadFields(ClassSchema(c), y, w)
<1>1. f.h = Plus(H, r, y) /\ f.m.ref = r
    BY FullParts, WholeParts
<1>2. f.h[r] = y
    <2>1. Plus(H, r, y)[r] = y
        BY PlusIs
    <2> HIDE DEF f
    <2> QED BY <1>1, <2>1
<1>3. ClassParse(c, y, w) = z
    BY CasesAre, ClassParseIs
<1>4. SetSub(f, z) = Full(b, c, r, z, H)
    BY SetSubIs
<1> HIDE DEF f, z
<1>5. ReadSub(s, c, w) = SetSub(f, ClassParse(c, f.h[f.m.ref], w))
    <2>1. mutable(s, c) = f
        BY DEF f
    <2> QED BY <2>1 DEF ReadSub, SetSub
<1> QED BY <1>1, <1>2, <1>3, <1>4, <1>5 DEF z

\* Whatever it owns, a metric has a message of the case after mutable.
LEMMA MutableState ==
    ASSUME NEW H, HeapOK(H), NEW s \in States(H), NEW c \in Cases
    PROVE  \E b \in Named, r \in Unused(H) : \E y \in Sane(Own(c)) : mutable(s, c) = Full(b, c, r, y, H)
<1> DEFINE a == FreeAddress(H)
           new == Fresh(ClassSchema(c))
<1>1. a \in Unused(H) /\ new \in Sane(Own(c))
    BY FreeAddressUnused, FreshNamed
<1>2. CASE \E b \in Named : s = Empty(b, H)
    <2>1. PICK b \in Named : s = Empty(b, H)
        BY <1>2
    <2>2. mutable(Empty(b, H), c) = Full(b, c, a, new, H)
        BY <1>1, MutableIs
    <2> HIDE DEF a, new
    <2> QED BY <1>1, <2>1, <2>2
<1>3. CASE \E b \in Named, d \in Cases, p \in Unused(H) : \E x \in Sane(Own(d)) : s = Full(b, d, p, x, H)
    <2>1. PICK b \in Named, d \in Cases, p \in Unused(H) : \E x \in Sane(Own(d)) : s = Full(b, d, p, x, H)
        BY <1>3
    <2>2. PICK x \in Sane(Own(d)) : s = Full(b, d, p, x, H)
        BY <2>1
    <2>3. CASE d = c
        <3>1. mutable(Full(b, c, p, x, H), c) = Full(b, c, p, x, H)
            BY MutableIs
        <3> QED BY <2>2, <2>3, <3>1
    <2>4. CASE d # c
        <3>1. mutable(Full(b, d, p, x, H), c) = Full(b, c, a, new, H)
            BY <2>4, MutableIs
        <3> HIDE DEF a, new
        <3> QED BY <1>1, <2>2, <3>1
    <2> QED BY <2>3, <2>4
<1> QED BY <1>2, <1>3, StateIs

\* What is read into a nested message leaves its fields sane.
LEMMA ReadFieldsOwn ==
    ASSUME NEW c \in Cases, NEW y \in Sane(Own(c)), NEW w \in Seq(Readable(ClassSchema(c)))
    PROVE  ReadFields(ClassSchema(c), y, w) \in Sane(Own(c))
<1> DEFINE R == Readable(ClassSchema(c))
<1>1. w \in Seq(R \cup {EndGroup})
    <2> HIDE DEF R
    <2> QED BY SeqMonotonic DEF R
<1> QED BY <1>1, CasesAre, Schemas, ReadFieldsSane DEF Own

\* Reading one entry of any kind leaves a metric and what it owns.
LEMMA ReadEntryState ==
    ASSUME NEW H, HeapOK(H), NEW s \in States(H), NEW e \in MetricReadable
    PROVE  ReadEntry(s, e) \in States(H)
<1>1. CASE e \in Readable(Schema)
    <2>1. ASSUME NEW b \in Named, s = Empty(b, H) PROVE ReadEntry(s, e) \in States(H)
        <3>1. s.m = Whole(b, NotSet, Null)
            BY <2>1, EmptyParts
        <3>2. ReadEntry(s, e) = Empty(ReadField(Schema, b, e), H)
            BY <1>1, <2>1, <3>1, ReadOwn, ReadOwnEntry, OnEmpty
        <3> QED BY <1>1, <3>2, ReadOwn, EmptyState
    <2>2. ASSUME NEW b \in Named, NEW c \in Cases, NEW p \in Unused(H), NEW x \in Sane(Own(c)),
                 s = Full(b, c, p, x, H)
          PROVE  ReadEntry(s, e) \in States(H)
        <3>1. s.m = Whole(b, c, p)
            BY <2>2, FullParts
        <3>2. ReadEntry(s, e) = SetMetric(s, Whole(ReadField(Schema, b, e), c, p))
            BY <1>1, <3>1, ReadOwn, ReadOwnEntry
        <3>3. SetMetric(Full(b, c, p, x, H), Whole(ReadField(Schema, b, e), c, p))
                = Full(ReadField(Schema, b, e), c, p, x, H)
            BY OnFull
        <3>4. ReadField(Schema, b, e) \in Named
            BY <1>1, ReadOwn
        <3> QED BY <2>2, <3>2, <3>3, <3>4, FullState
    <2> QED BY <2>1, <2>2, StateIs
<1>2. CASE e \in Nests
    <2>1. PICK c \in Cases : \E w \in Seq(Readable(ClassSchema(c))) : e = Nested(TagOf[c], w)
        BY <1>2, NestIs
    <2>2. PICK w \in Seq(Readable(ClassSchema(c))) : e = Nested(TagOf[c], w)
        BY <2>1
    <2>3. ReadEntry(s, e) = ReadSub(s, c, w)
        BY <2>2, ReadNest
    <2>4. PICK b \in Named, r \in Unused(H) : \E y \in Sane(Own(c)) : mutable(s, c) = Full(b, c, r, y, H)
        BY MutableState
    <2>5. PICK y \in Sane(Own(c)) : mutable(s, c) = Full(b, c, r, y, H)
        BY <2>4
    <2> DEFINE z == ReadFields(ClassSchema(c), y, w)
    <2>6. z \in Sane(Own(c))
        BY ReadFieldsOwn
    <2>7. ReadSub(s, c, w) = Full(b, c, r, z, H)
        BY <2>5, ReadInto
    <2> HIDE DEF z
    <2> QED BY <2>3, <2>6, <2>7, FullState
<1> QED BY <1>1, <1>2 DEF MetricReadable
\* Entries read into a metric, one after the other.
ParseAll(s, u) == Through(ReadEntry, s, u)

ParseClosed(T, E) == \A x \in T, e \in E : ReadEntry(x, e) \in T

ParseRun(g, T, s, u) ==
    /\ g \in [0..Len(u) -> T]
    /\ g[0] = s
    /\ \A i \in 1..Len(u) : g[i] = ReadEntry(g[i - 1], u[i])
    /\ g[Len(u)] = ParseAll(s, u)

\* Every parse of a metric has such a course.
LEMMA ParseUnroll ==
    ASSUME NEW T, NEW s \in T, NEW E, NEW u \in Seq(E), ParseClosed(T, E)
    PROVE  \E g : ParseRun(g, T, s, u)
<1> DEFINE n == Len(u)
           F(f) == [i \in 0..n |-> IF i = 0 THEN s ELSE ReadEntry(f[i - 1], u[i])]
           P(f) == f = F(f)
           after == CHOOSE f : P(f)
           step == [i \in 1..n |-> [x \in T |-> ReadEntry(x, u[i])]]
<1>1. n \in Nat
    OBVIOUS
<1>2. step \in [1..n -> [T -> T]]
    BY DEF ParseClosed
<1>3. PICK g \in [0..n -> T] : IsRun(g, s, n, step)
    <2> HIDE DEF step, n
    <2> QED BY <1>1, <1>2, Runs
<1>4. P(g)
    <2>1. ASSUME NEW i \in 0..n PROVE g[i] = IF i = 0 THEN s ELSE ReadEntry(g[i - 1], u[i])
        <3>1. CASE i = 0
            BY <1>3, <3>1 DEF IsRun
        <3>2. CASE i # 0
            <4>1. i \in 1..n /\ i - 1 \in 0..n
                BY <1>1, <3>2
            <4>2. g[i - 1] \in T
                BY <4>1
            <4>3. g[i] = step[i][g[i - 1]]
                BY <1>3, <3>2 DEF IsRun
            <4>4. step[i][g[i - 1]] = ReadEntry(g[i - 1], u[i])
                BY <4>1, <4>2
            <4> QED BY <3>2, <4>3, <4>4
        <3> QED BY <3>1, <3>2
    <2> QED BY <1>3, <2>1 DEF IsRun
<1>5. P(after)
    <2> HIDE DEF P
    <2> QED BY <1>4
<1>6. after[n] = ParseAll(s, u)
    BY DEF ParseAll, Through
<1> HIDE DEF after
<1>7. /\ after[0] = s
      /\ \A i \in 1..n : after[i] = ReadEntry(after[i - 1], u[i])
      /\ DOMAIN after = 0..n
    BY <1>1, <1>5
<1>8. \A i \in 0..n : after[i] \in T
    <2>1. \A i \in 1..n : after[i - 1] \in T => after[i] \in T
        <3> SUFFICES ASSUME NEW i \in 1..n, after[i - 1] \in T PROVE after[i] \in T
            OBVIOUS
        <3>1. u[i] \in E
            OBVIOUS
        <3> HIDE DEF n
        <3> QED BY <1>7, <3>1 DEF ParseClosed
    <2> HIDE DEF n
    <2> QED BY <1>1, <1>7, <2>1, Stays
<1>9. after \in [0..n -> T]
    BY <1>5, <1>8
<1>10. ParseRun(after, T, s, u)
    BY <1>6, <1>7, <1>9 DEF ParseRun
<1> QED BY <1>10

\* Nothing is parsed.
LEMMA ParseNil ==
    ASSUME NEW s
    PROVE  ParseAll(s, <<>>) = s
<1>1. s \in {s} /\ <<>> \in Seq({}) /\ ParseClosed({s}, {})
    BY DEF ParseClosed
<1>2. PICK g : ParseRun(g, {s}, s, <<>>)
    BY <1>1, ParseUnroll
<1> QED BY <1>2 DEF ParseRun

\* One more entry is parsed after the others.
LEMMA ParseSnoc ==
    ASSUME NEW T, NEW E, ParseClosed(T, E)
    PROVE  \A s \in T : \A u \in Seq(E) : \A e \in E :
              ParseAll(s, Append(u, e)) = ReadEntry(ParseAll(s, u), e)
<1> SUFFICES ASSUME NEW s \in T, NEW u \in Seq(E), NEW e \in E
             PROVE  ParseAll(s, Append(u, e)) = ReadEntry(ParseAll(s, u), e)
    OBVIOUS
<1> DEFINE n == Len(u)
           v == Append(u, e)
<1>1. n \in Nat /\ v \in Seq(E) /\ Len(v) = n + 1 /\ v[n + 1] = e /\ \A i \in 1..n : v[i] = u[i]
    OBVIOUS
<1> HIDE DEF v
<1>2. PICK f : ParseRun(f, T, s, u)
    BY ParseUnroll
<1>3. PICK g : ParseRun(g, T, s, v)
    BY <1>1, ParseUnroll
<1>4. /\ f[0] = s /\ \A i \in 1..n : f[i] = ReadEntry(f[i - 1], u[i])
      /\ f[n] = ParseAll(s, u) /\ f[n] \in T
    BY <1>1, <1>2 DEF ParseRun
<1>5. /\ g[0] = s /\ \A i \in 1..(n + 1) : g[i] = ReadEntry(g[i - 1], v[i])
      /\ g[n + 1] = ParseAll(s, v)
    BY <1>1, <1>3 DEF ParseRun
<1> HIDE DEF n
<1>6. \A i \in 1..n : f[i - 1] = g[i - 1] => f[i] = g[i]
    BY <1>1, <1>4, <1>5
<1>7. f[n] = g[n]
    BY <1>1, <1>4, <1>5, <1>6, Agree
<1>8. g[n + 1] = ReadEntry(g[n], e)
    BY <1>1, <1>5
<1> QED BY <1>4, <1>5, <1>7, <1>8 DEF v

\* A metric read from whatever arrives.
LEMMA ParseAllState ==
    ASSUME NEW H, HeapOK(H), NEW s \in States(H), NEW u \in Seq(MetricReadable)
    PROVE  ParseAll(s, u) \in States(H)
<1>1. ParseClosed(States(H), MetricReadable)
    BY ReadEntryState DEF ParseClosed
<1>2. PICK g : ParseRun(g, States(H), s, u)
    BY <1>1, ParseUnroll
<1> QED BY <1>2 DEF ParseRun

\* _InternalParse of a metric leaves a metric and what it owns, ended group or not.
LEMMA InternalParseState ==
    ASSUME NEW H, HeapOK(H), NEW s \in States(H), NEW w \in Seq(MetricReadable \cup {EndGroup})
    PROVE  InternalParse(s, w) \in States(H)
<1>1. EndsMessage(EndGroup)
    BY DEF EndsMessage, EndGroup, Entry
<1>2. {e \in MetricReadable \cup {EndGroup} : ~EndsMessage(e)} \subseteq MetricReadable
    BY <1>1
<1>3. UpToEnd(w) \in Seq({e \in MetricReadable \cup {EndGroup} : ~EndsMessage(e)})
    BY UpToEndReads
<1>4. UpToEnd(w) \in Seq(MetricReadable)
    BY <1>2, <1>3, SeqMonotonic
<1> QED BY <1>4, ParseAllState DEF InternalParse, ParseAll

\* A class is written as something that can be read back.
LEMMA ClassWritten ==
    ASSUME NEW c \in FlatClasses, NEW m \in Sane(Own(c))
    PROVE  ClassSerialize(c, m) \in Seq(Readable(ClassSchema(c)))
<1>1. /\ m.has \subseteq Names(ClassSchema(c)) /\ m.val \in [Names(ClassSchema(c)) -> Nat]
      /\ m.unknown \in Seq({Foreign})
    BY Sanely DEF Own
<1>2. SchemaOK(ClassSchema(c))
    BY Schemas
<1>3. Written(ClassSchema(c), m) \in Seq(Readable(ClassSchema(c)))
    BY <1>1, <1>2, WrittenReads
<1> QED BY <1>3, ClassSerializeIs

\* The parts of what a metric is written as: its own field, the oneof, unknown fields.
OwnWritten(b) == WriteAll(b, <<>>, Schema)
SubWritten(c, x) == << Nested(TagOf[c], Written(ClassSchema(c), x)) >>

\* What is written depends on the has bits and the values only.
LEMMA WriteAllParts ==
    ASSUME NEW m, NEW b, m.has = b.has, m.val = b.val, NEW s, NEW p
    PROVE  WriteAll(m, s, p) = WriteAll(b, s, p)
<1> DEFINE all(h, v) == Through(LAMBDA out, f : IF f.name \in h THEN Append(out, Entry(f.tag, v[f.name])) ELSE out, s, p)
<1>1. WriteAll(m, s, p) = all(m.has, m.val) /\ WriteAll(b, s, p) = all(b.has, b.val)
    BY DEF WriteAll
<1> HIDE DEF all
<1> QED BY <1>1

\* The name of a metric is written as its first entry.
LEMMA OwnWrittenIs ==
    ASSUME NEW b \in Named, NEW c, NEW p
    PROVE  /\ Written(Schema, [Whole(b, c, p) EXCEPT !.unknown = <<>>]) = OwnWritten(b)
           /\ OwnWritten(b) \in Seq(Fields(Schema))
<1> DEFINE w == Whole(b, c, p)
           nil == <<>>
           m == SetUnknown(w, nil)
<1>1. m = Whole(SetUnknown(b, nil), c, p)
    BY WholeUnknown DEF Named
<1>2. b = Rec(b.has, b.val, b.unknown) /\ b.has \subseteq {"name"} /\ b.val \in [{"name"} -> Nat]
    BY Sanely DEF Named
<1>3. SetUnknown(b, nil) = Rec(b.has, b.val, nil)
    <2>1. SetUnknown(Rec(b.has, b.val, b.unknown), nil) = Rec(b.has, b.val, nil)
        BY Assigns
    <2> QED BY <1>2, <2>1
<1>4. m.has = b.has /\ m.val = b.val /\ m.unknown = nil
    <2> HIDE DEF m, nil
    <2> QED BY <1>1, <1>3, WholeParts, Parts
<1>5. nil \in Seq({Foreign}) /\ nil \in Seq(Fields(Schema))
    OBVIOUS
<1> HIDE DEF m
<1>6. /\ Written(Schema, m) = WriteAll(m, <<>>, Schema) \o m.unknown
      /\ WriteAll(m, <<>>, Schema) \in Seq(Fields(Schema))
    BY <1>2, <1>4, <1>5, MetricSchema, WrittenReads
<1>7. WriteAll(m, <<>>, Schema) = OwnWritten(b)
    BY <1>4, WriteAllParts DEF OwnWritten
<1>8. OwnWritten(b) \o nil = OwnWritten(b)
    BY <1>6, <1>7, ConcatEmptySeq
<1>9. Written(Schema, m) = OwnWritten(b) /\ OwnWritten(b) \in Seq(Fields(Schema))
    <2> HIDE DEF nil
    <2> QED BY <1>4, <1>6, <1>7, <1>8
<1> QED BY <1>9 DEF m, SetUnknown

\* _InternalSerialize of a metric that owns nothing ...
LEMMA SerializeEmpty ==
    ASSUME NEW b \in Named, NEW h
    PROVE  /\ InternalSerialize(Whole(b, NotSet, Null), h) = OwnWritten(b) \o b.unknown
           /\ OwnWritten(b) \o b.unknown \in Seq(MetricReadable)
<1> DEFINE w == Whole(b, NotSet, Null)
           nil == <<>>
<1>1. Written(Schema, [w EXCEPT !.unknown = <<>>]) = OwnWritten(b) /\ OwnWritten(b) \in Seq(Fields(Schema))
    BY OwnWrittenIs
<1>2. w.case = NotSet /\ w.unknown = b.unknown
    BY WholeParts
<1>3. OwnWritten(b) \o nil = OwnWritten(b)
    BY <1>1, ConcatEmptySeq
<1> HIDE DEF w
<1>4. InternalSerialize(w, h) = OwnWritten(b) \o nil \o b.unknown
    BY <1>1, <1>2 DEF InternalSerialize
<1>5. b.unknown \in Seq({Foreign})
    BY Sanely DEF Named
<1>6. Fields(Schema) \subseteq MetricReadable /\ {Foreign} \subseteq MetricReadable
    BY DEF MetricReadable, Readable
<1>7. OwnWritten(b) \in Seq(MetricReadable) /\ b.unknown \in Seq(MetricReadable)
    BY <1>1, <1>5, <1>6, SeqMonotonic
<1>8. OwnWritten(b) \o b.unknown \in Seq(MetricReadable)
    BY <1>7, ConcatProperties
<1> HIDE DEF nil
<1> QED BY <1>3, <1>4, <1>8 DEF w

\* A metric with its message is written in entries that can be read.
LEMMA FullReads ==
    ASSUME NEW b \in Named, NEW c \in Cases, NEW x \in Sane(Own(c))
    PROVE  OwnWritten(b) \o SubWritten(c, x) \o b.unknown \in Seq(MetricReadable)
<1> DEFINE t == Nested(TagOf[c], Written(ClassSchema(c), x))
<1>1. OwnWritten(b) \in Seq(Fields(Schema))
    BY OwnWrittenIs
<1>2. ClassSerialize(c, x) = Written(ClassSchema(c), x)
    BY CasesAre, ClassSerializeIs
<1>3. t \in Nests
    BY <1>2, CasesAre, ClassWritten, IsNest
<1> HIDE DEF t
<1>4. SubWritten(c, x) = <<t>>
    BY DEF SubWritten, t
<1>6. b.unknown \in Seq({Foreign})
    BY Sanely DEF Named
<1>7. Fields(Schema) \subseteq MetricReadable /\ {Foreign} \subseteq MetricReadable /\ Nests \subseteq MetricReadable
    BY DEF MetricReadable, Readable
<1>8. /\ OwnWritten(b) \in Seq(MetricReadable) /\ b.unknown \in Seq(MetricReadable)
      /\ <<t>> \in Seq(MetricReadable)
    <2>1. <<t>> \in Seq(MetricReadable)
        BY <1>3, <1>7
    <2> QED BY <1>1, <1>6, <1>7, <2>1, SeqMonotonic
<1> DEFINE o == OwnWritten(b)
           n == <<t>>
<1> HIDE DEF o, n
<1>9. o \o n \in Seq(MetricReadable)
    BY <1>8, ConcatProperties DEF o, n
<1>10. o \o n \o b.unknown \in Seq(MetricReadable)
    BY <1>8, <1>9, ConcatProperties
<1> QED BY <1>4, <1>10 DEF o, n

\* ... and of one that owns a message.
LEMMA SerializeFull ==
    ASSUME NEW b \in Named, NEW c \in Cases, NEW p, NEW h, h[p] \in Sane(Own(c))
    PROVE  InternalSerialize(Whole(b, c, p), h) = OwnWritten(b) \o SubWritten(c, h[p]) \o b.unknown
<1> DEFINE x == h[p]
           w == Whole(b, c, p)
           t == Nested(TagOf[c], Written(ClassSchema(c), x))
<1>1. Written(Schema, [w EXCEPT !.unknown = <<>>]) = OwnWritten(b)
    BY OwnWrittenIs
<1>2. w.case = c /\ w.ref = p /\ w.unknown = b.unknown
    BY WholeParts
<1>3. ClassSerialize(c, x) = Written(ClassSchema(c), x)
    BY CasesAre, ClassSerializeIs
<1> HIDE DEF w, t, x
<1>4. SubWritten(c, x) = <<t>>
    BY DEF SubWritten, t
<1>5. InternalSerialize(w, h) = OwnWritten(b) \o <<t>> \o b.unknown
    BY <1>1, <1>2, <1>3, CasesAre DEF InternalSerialize, t, x
<1> QED BY <1>4, <1>5 DEF w, x
=============================================================================
