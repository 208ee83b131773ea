------------------------ MODULE HashtableLin_proofs ------------------------
(***************************************************************************)
(* Proofs about what the sets of Hashtable hold: a key is in one place     *)
(* until a remove leaves a hole, in the set it hashes to, through a rehash *)
(* too, and the table is a ConcurrentMap until a hole or a rehash shows.   *)
(* WorkInv and KeyInv are inductive on top of TableInv and CountInv.       *)
(***************************************************************************)
EXTENDS HashtableLin, Hashtable_proofs

-----------------------------------------------------------------------------
(* Where a chain holds a key *)

At(c, n, i, k) == n \in 1..Len(c) /\ i \in 1..Len(c[n]) /\ c[n][i].key = k
Once(c, k) == \A n, i, m, j : At(c, n, i, k) /\ At(c, m, j, k) => n = m /\ i = j

LEMMA HasAt ==
  ASSUME NEW c, NEW k
  PROVE  Has(c, k) <=> \E n, i : At(c, n, i, k)
BY DEF Has, Hits, At

LEMMA PlacesAt ==
  ASSUME NEW c \in Seq(Node), NEW k
  PROVE  /\ \A n, i : <<n, i>> \in Places(c, k) <=> At(c, n, i, k)
         /\ \A s \in Places(c, k) : s = <<s[1], s[2]>>
         /\ Places(c, k) # {} <=> Has(c, k)
<1>1. ASSUME NEW n, NEW i PROVE <<n, i>> \in Places(c, k) <=> At(c, n, i, k)
  <2>1. <<n, i>> \in Places(c, k) <=> <<n, i>> \in Filled(c) /\ c[n][i].key = k
    BY DEF Places
  <2> QED BY <2>1, FilledAt DEF At
<1>2. \A s \in Places(c, k) : s = <<s[1], s[2]>>
  BY FilledPairs DEF Places
<1>3. ASSUME Places(c, k) # {} PROVE Has(c, k)
  <2>1. PICK s \in Places(c, k) : TRUE
    BY <1>3
  <2>2. At(c, s[1], s[2], k)
    BY <1>1, <1>2
  <2> QED BY <2>2, HasAt
<1>4. ASSUME Has(c, k) PROVE Places(c, k) # {}
  <2>1. PICK n, i : At(c, n, i, k)
    BY <1>4, HasAt
  <2> QED BY <1>1, <2>1
<1> QED BY <1>1, <1>2, <1>3, <1>4

LEMMA OncePlaces ==
  ASSUME NEW c \in Seq(Node), NEW k
  PROVE  (\A s, u \in Places(c, k) : s = u) <=> Once(c, k)
<1>1. ASSUME \A s, u \in Places(c, k) : s = u PROVE Once(c, k)
  <2> SUFFICES ASSUME NEW n, NEW i, NEW m, NEW j, At(c, n, i, k), At(c, m, j, k) PROVE n = m /\ i = j
    BY DEF Once
  <2>1. <<n, i>> \in Places(c, k) /\ <<m, j>> \in Places(c, k)
    BY PlacesAt
  <2>2. <<n, i>> = <<m, j>>
    BY <1>1, <2>1
  <2> QED BY <2>2
<1>2. ASSUME Once(c, k), NEW s \in Places(c, k), NEW u \in Places(c, k) PROVE s = u
  <2>1. s = <<s[1], s[2]>> /\ u = <<u[1], u[2]>>
    BY PlacesAt
  <2>2. At(c, s[1], s[2], k) /\ At(c, u[1], u[2], k)
    BY <2>1, PlacesAt
  <2>3. s[1] = u[1] /\ s[2] = u[2]
    BY <1>2, <2>2 DEF Once
  <2> QED BY <2>1, <2>3
<1> QED BY <1>1, <1>2

\* A lookup finds the only pair with the key, or nothing.
LEMMA LookupFound ==
  ASSUME NEW c \in Seq(Node), NEW k, Once(c, k), NEW n, NEW i, At(c, n, i, k)
  PROVE  Lookup(c, k) = c[n][i].val
<1> DEFINE ns == {m \in 1..Len(c) : Hits(c[m], k) # {}}
           x  == Min(ns)
           hs == Hits(c[x], k)
           y  == Min(hs)
<1>1. n \in ns /\ ns \subseteq Nat
  BY DEF At, Hits
<1>2. x \in ns
  BY <1>1, MinIn
<1>3. hs # {} /\ hs \subseteq Nat
  <2>1. hs # {}
    BY <1>2
  <2>2. hs \subseteq 1..Len(c[x])
    BY DEF Hits
  <2>3. 1..Len(c[x]) \subseteq Nat
    OBVIOUS
  <2>4. hs \subseteq Nat
    BY <2>2, <2>3, Zenon
  <2> QED BY <2>1, <2>4
<1>4. y \in hs
  BY <1>3, MinIn
<1>5. At(c, x, y, k)
  BY <1>2, <1>4 DEF At, Hits
<1>6. x = n /\ y = i
  BY <1>5 DEF Once
<1>7. Lookup(c, k) = c[x][y].val
  BY <1>1 DEF Lookup
<1> QED BY <1>6, <1>7

LEMMA LookupAbsent ==
  ASSUME NEW c, NEW k, ~Has(c, k)
  PROVE  Lookup(c, k) = Absent
BY DEF Lookup, Has

\* What a lookup finds is a value if the chain has the key.
LEMMA LookupValue ==
  ASSUME NEW c \in Seq(Node), NEW k
  PROVE  Lookup(c, k) \in Vals \cup {Absent} /\ (Lookup(c, k) # Absent <=> Has(c, k))
<1>1. CASE ~Has(c, k)
  BY <1>1, LookupAbsent
<1>2. CASE Has(c, k)
  <2> DEFINE ns == {m \in 1..Len(c) : Hits(c[m], k) # {}}
             x  == Min(ns)
  <2>1. ns # {} /\ ns \subseteq Nat
    <3>1. PICK m \in 1..Len(c) : Hits(c[m], k) # {}
      BY <1>2 DEF Has
    <3>2. m \in ns
      BY <3>1
    <3>3. ns \subseteq Nat
      OBVIOUS
    <3> HIDE DEF ns
    <3> QED BY <3>2, <3>3
  <2>2. x \in ns
    BY <2>1, MinIn
  <2>3. c[x] \in Node /\ Hits(c[x], k) # {}
    <3>1. x \in 1..Len(c) /\ Hits(c[x], k) # {}
      BY <2>2
    <3> HIDE DEF x
    <3> QED BY <3>1
  <2>4. c[x][Min(Hits(c[x], k))].val \in Vals
    BY <2>3, FoundInNode
  <2>5. Lookup(c, k) \in Vals
    BY <2>1, <2>4 DEF Lookup
  <2> QED BY <1>2, <2>5, SetAssumption DEF Absent
<1> QED BY <1>1, <1>2

\* The chain d that an insert of kv makes of c: one more place, at the end of
\* a node with room or in a new node behind a full last one.
Inserted(c, n, kv, d) ==
    \/ Len(c[n]) = NODE_BUNDLE_SIZE /\ n = Len(c) /\ d = Splice(c, n, << c[n], <<kv>> >>)
    \/ Len(c[n]) # NODE_BUNDLE_SIZE /\ d = Splice(c, n, << Append(c[n], kv) >>)

LEMMA InsertedAt ==
  ASSUME NEW c \in Seq(Node), NEW n \in 1..Len(c), NEW kv \in Pair, NEW d, Inserted(c, n, kv, d)
  PROVE  \E n0, i0 :
            /\ ~(n0 \in 1..Len(c) /\ i0 \in 1..Len(c[n0]))
            /\ n0 \in 1..Len(d) /\ i0 \in 1..Len(d[n0]) /\ d[n0][i0] = kv
            /\ \A m, i, k : At(d, m, i, k) <=> At(c, m, i, k) \/ (m = n0 /\ i = i0 /\ k = kv.key)
            /\ \A m, i, k : At(c, m, i, k) => d[m][i] = c[m][i]
<1>1. c[n] \in Node /\ c[n] \in Seq(Pair) /\ Len(c[n]) \in Nat /\ c # <<>> /\ Len(c) \in Nat
  BY DEF Node
<1>2. CASE Len(c[n]) = NODE_BUNDLE_SIZE /\ n = Len(c) /\ d = Splice(c, n, << c[n], <<kv>> >>)
  <2> DEFINE nd == <<kv>>
             m0 == Len(c) + 1
  <2>1. nd \in Node /\ Len(nd) = 1 /\ nd[1] = kv
    BY <1>1, AppendNode
  <2> HIDE DEF nd
  <2>2. /\ Len(d) = m0 /\ d[m0] = nd /\ \A i \in 1..Len(c) : d[i] = c[i]
    <3>1. d = Splice(c, Len(c), << c[Len(c)], nd >>)
      BY <1>2 DEF nd
    <3>2. c \in Seq(Node) /\ nd \in Node /\ c # <<>>
      BY <1>1, <2>1
    <3> QED BY ONLY <3>1, <3>2, SpliceBehind
  <2>3. ~(m0 \in 1..Len(c)) /\ m0 \in 1..Len(d) /\ 1 \in 1..Len(d[m0]) /\ d[m0][1] = kv
    <3>1. m0 \in Nat /\ m0 >= 1 /\ ~(m0 \in 1..Len(c))
      BY <1>1
    <3> HIDE DEF m0
    <3>2. m0 \in 1..Len(d)
      BY <2>2, <3>1
    <3>3. d[m0] = nd /\ Len(d[m0]) = 1
      BY <2>1, <2>2
    <3>4. 1 \in 1..Len(d[m0])
      BY <3>3
    <3> QED BY <2>1, <3>1, <3>2, <3>3, <3>4
  <2>4. ASSUME NEW m, NEW i, NEW k
        PROVE  /\ At(d, m, i, k) <=> At(c, m, i, k) \/ (m = m0 /\ i = 1 /\ k = kv.key)
               /\ At(c, m, i, k) => d[m][i] = c[m][i]
    <3>1. CASE m \in 1..Len(c)
      <4>1. d[m] = c[m] /\ m # m0 /\ m \in 1..Len(d)
        BY <1>1, <2>2, <3>1
      <4> HIDE DEF m0
      <4> QED BY <3>1, <4>1 DEF At
    <3>2. CASE m = m0
      <4>1. At(d, m, i, k) <=> i \in 1..1 /\ nd[i].key = k
        <5>1. m \in 1..Len(d) /\ d[m] = nd /\ Len(d[m]) = 1
          BY <2>1, <2>2, <2>3, <3>2
        <5> QED BY <5>1 DEF At
      <4>2. ~At(c, m, i, k)
        BY <2>3, <3>2 DEF At
      <4> QED BY <2>1, <3>2, <4>1, <4>2
    <3>3. CASE m \notin 1..Len(c) /\ m # m0
      <4>1. m \notin 1..Len(d)
        BY <1>1, <2>2, <3>3
      <4> QED BY <3>3, <4>1 DEF At
    <3> QED BY <3>1, <3>2, <3>3
  <2> HIDE DEF m0
  <2> QED BY <2>3, <2>4
<1>3. CASE Len(c[n]) # NODE_BUNDLE_SIZE /\ d = Splice(c, n, << Append(c[n], kv) >>)
  <2> DEFINE nd == Append(c[n], kv)
             j0 == Len(c[n]) + 1
  <2>1. /\ nd \in Node /\ Len(nd) = j0 /\ nd[j0] = kv
        /\ \A i \in 1..Len(c[n]) : nd[i] = c[n][i]
    <3> DEFINE s == c[n]
    <3>1. s \in Seq(Pair) /\ s \in Node /\ kv \in Pair /\ Len(s) # NODE_BUNDLE_SIZE
      BY <1>1, <1>3
    <3> HIDE DEF s
    <3>2. Append(s, kv) \in Node
      BY <3>1, AppendNode
    <3>3. /\ Len(Append(s, kv)) = Len(s) + 1 /\ Append(s, kv)[Len(s) + 1] = kv
          /\ \A i \in 1..Len(s) : Append(s, kv)[i] = s[i]
      BY ONLY <3>1
    <3> QED BY <3>2, <3>3 DEF s
  <2> HIDE DEF nd
  <2>2. Len(d) = Len(c) /\ d[n] = nd /\ \A i \in 1..Len(c) : i # n => d[i] = c[i]
    <3>1. d = Splice(c, n, <<nd>>)
      BY <1>3 DEF nd
    <3> QED BY <2>1, <3>1, SpliceOne
  <2>3. ~(j0 \in 1..Len(c[n])) /\ n \in 1..Len(d) /\ j0 \in 1..Len(d[n]) /\ d[n][j0] = kv
    BY <1>1, <2>1, <2>2
  <2>4. ASSUME NEW m, NEW i, NEW k
        PROVE  /\ At(d, m, i, k) <=> At(c, m, i, k) \/ (m = n /\ i = j0 /\ k = kv.key)
               /\ At(c, m, i, k) => d[m][i] = c[m][i]
    <3>1. CASE m \in 1..Len(c) /\ m # n
      <4>1. d[m] = c[m] /\ m \in 1..Len(d)
        BY <2>2, <3>1
      <4> QED BY <3>1, <4>1 DEF At
    <3>2. CASE m = n
      <4>1. At(d, m, i, k) <=> i \in 1..j0 /\ nd[i].key = k
        BY <2>1, <2>2, <2>3, <3>2 DEF At
      <4>2. At(c, m, i, k) <=> i \in 1..Len(c[n]) /\ c[n][i].key = k
        BY <3>2 DEF At
      <4>3. i \in 1..j0 <=> i \in 1..Len(c[n]) \/ i = j0
        BY <1>1
      <4> HIDE DEF j0
      <4> QED BY <2>1, <2>2, <2>3, <3>2, <4>1, <4>2, <4>3
    <3>3. CASE m \notin 1..Len(c)
      <4>1. m \notin 1..Len(d) /\ m # n
        BY <2>2, <3>3
      <4> QED BY <3>3, <4>1 DEF At
    <3> QED BY <3>1, <3>2, <3>3
  <2> HIDE DEF j0
  <2> QED BY <2>3, <2>4
<1> QED BY <1>2, <1>3 DEF Inserted

\* What follows: the chain has the new key and keeps the others; if it did not
\* have the key it now has it once, and a lookup finds the new value.
LEMMA InsertedFacts ==
  ASSUME NEW c \in Seq(Node), NEW n \in 1..Len(c), NEW kv \in Pair, NEW d \in Seq(Node), Inserted(c, n, kv, d)
  PROVE  /\ Has(d, kv.key)
         /\ \A k : Has(c, k) => Has(d, k)
         /\ \A k : k # kv.key => (Has(d, k) => Has(c, k))
         /\ \A k : k # kv.key /\ Once(c, k) => Once(d, k) /\ Lookup(d, k) = Lookup(c, k)
         /\ ~Has(c, kv.key) => Once(d, kv.key) /\ Lookup(d, kv.key) = kv.val
<1>1. PICK n0, i0 :
            /\ ~(n0 \in 1..Len(c) /\ i0 \in 1..Len(c[n0]))
            /\ n0 \in 1..Len(d) /\ i0 \in 1..Len(d[n0]) /\ d[n0][i0] = kv
            /\ \A m, i, k : At(d, m, i, k) <=> At(c, m, i, k) \/ (m = n0 /\ i = i0 /\ k = kv.key)
            /\ \A m, i, k : At(c, m, i, k) => d[m][i] = c[m][i]
  BY InsertedAt, SMTT(30)
<1>2. At(d, n0, i0, kv.key)
  BY <1>1
<1>3. Has(d, kv.key)
  BY <1>2, HasAt
<1>4. ASSUME NEW k, Has(c, k) PROVE Has(d, k)
  BY <1>1, <1>4, HasAt
<1>5. ASSUME NEW k, k # kv.key PROVE \A m, i : At(d, m, i, k) <=> At(c, m, i, k)
  BY <1>1, <1>5
<1>6. ASSUME NEW k, k # kv.key, Has(d, k) PROVE Has(c, k)
  BY <1>5, <1>6, HasAt
<1>7. ASSUME NEW k, k # kv.key, Once(c, k) PROVE Once(d, k) /\ Lookup(d, k) = Lookup(c, k)
  <2>1. Once(d, k)
    BY <1>5, <1>7 DEF Once
  <2>2. CASE Has(c, k)
    <3>1. PICK m, i : At(c, m, i, k)
      BY <2>2, HasAt
    <3>2. At(d, m, i, k) /\ d[m][i] = c[m][i]
      BY <1>1, <3>1
    <3>3. Lookup(c, k) = c[m][i].val
      BY <1>7, <3>1, LookupFound
    <3>4. Lookup(d, k) = d[m][i].val
      BY <2>1, <3>2, LookupFound
    <3> QED BY <2>1, <3>2, <3>3, <3>4
  <2>3. CASE ~Has(c, k)
    BY <1>6, <1>7, <2>1, <2>3, LookupAbsent
  <2> QED BY <2>2, <2>3
<1>8. ASSUME ~Has(c, kv.key) PROVE Once(d, kv.key) /\ Lookup(d, kv.key) = kv.val
  <2>1. \A m, i : At(d, m, i, kv.key) => m = n0 /\ i = i0
    BY <1>1, <1>8, HasAt
  <2>2. Once(d, kv.key)
    BY <2>1 DEF Once
  <2>3. Lookup(d, kv.key) = d[n0][i0].val
    BY <1>2, <2>2, LookupFound
  <2> QED BY <1>1, <2>2, <2>3
<1> QED BY <1>3, <1>4, <1>6, <1>7, <1>8

\* The chain d that a remove of pair i0 of node n makes of c: the last pair of
\* the node takes its place.
LEMMA RemovedAt ==
  ASSUME NEW c \in Seq(Node), NEW n \in 1..Len(c), NEW i0 \in 1..Len(c[n]), NEW d,
         d = Splice(c, n, << Without(c[n], i0) >>)
  PROVE  /\ Len(d) = Len(c) /\ Len(d[n]) = Len(c[n]) - 1 /\ Len(c[n]) \in Nat
         /\ \A j \in 1..(Len(c[n]) - 1) : d[n][j] = IF j = i0 THEN c[n][Len(c[n])] ELSE c[n][j]
         /\ \A m \in 1..Len(c) : m # n => d[m] = c[m]
<1> DEFINE nd == Without(c[n], i0)
<1>1. c[n] \in Node /\ Len(c[n]) \in Nat
  BY DEF Node
<1>2. /\ nd \in Node /\ Len(nd) = Len(c[n]) - 1
      /\ \A j \in 1..(Len(c[n]) - 1) : nd[j] = IF j = i0 THEN c[n][Len(c[n])] ELSE c[n][j]
  BY <1>1, WithoutNode
<1> HIDE DEF nd
<1>3. d = Splice(c, n, <<nd>>)
  BY DEF nd
<1>4. Len(d) = Len(c) /\ d[n] = nd /\ \A m \in 1..Len(c) : m # n => d[m] = c[m]
  <2>1. c \in Seq(Node) /\ n \in 1..Len(c) /\ nd \in Node
    BY <1>2
  <2>2. /\ Len(Splice(c, n, <<nd>>)) = Len(c) /\ Splice(c, n, <<nd>>)[n] = nd
        /\ \A m \in 1..Len(c) : m # n => Splice(c, n, <<nd>>)[m] = c[m]
    BY ONLY <2>1, SpliceOne
  <2> QED BY ONLY <1>3, <2>2
<1> QED BY <1>1, <1>2, <1>4

\* What follows: the other keys stay, and a key that was there once is gone.
LEMMA RemovedFacts ==
  ASSUME NEW c \in Seq(Node), NEW n \in 1..Len(c), NEW i0 \in 1..Len(c[n]), NEW d \in Seq(Node),
         d = Splice(c, n, << Without(c[n], i0) >>), NEW k0, c[n][i0].key = k0
  PROVE  /\ \A k : Has(d, k) => Has(c, k)
         /\ \A k : k # k0 => (Has(c, k) => Has(d, k))
         /\ \A k : Once(c, k) => Once(d, k)
         /\ \A k : k # k0 /\ Once(c, k) => Lookup(d, k) = Lookup(c, k)
         /\ Once(c, k0) => ~Has(d, k0)
<1> DEFINE last == Len(c[n])
           src(m, i) == IF m = n /\ i = i0 THEN last ELSE i
<1>1. /\ Len(d) = Len(c) /\ Len(d[n]) = last - 1 /\ last \in Nat
      /\ \A j \in 1..(last - 1) : d[n][j] = IF j = i0 THEN c[n][last] ELSE c[n][j]
      /\ \A m \in 1..Len(c) : m # n => d[m] = c[m]
  BY RemovedAt
<1> HIDE DEF last
<1>2. i0 \in 1..last /\ last \in 1..last
  <2>1. i0 \in 1..last
    BY DEF last
  <2> QED BY <1>1, <2>1
<1>3. ASSUME NEW m, NEW i, NEW k, At(d, m, i, k)
      PROVE  /\ At(c, m, src(m, i), k) /\ d[m][i] = c[m][src(m, i)]
             /\ ~(m = n /\ src(m, i) = i0)
             /\ m = n => i \in 1..(last - 1)
  <2>1. m \in 1..Len(c) /\ i \in 1..Len(d[m]) /\ d[m][i].key = k
    BY <1>1, <1>3 DEF At
  <2>2. CASE m = n
    <3>1. i \in 1..(last - 1)
      BY <1>1, <2>1, <2>2
    <3>2. d[n][i] = c[n][src(m, i)] /\ src(m, i) \in 1..last /\ src(m, i) # i0
      BY <1>1, <1>2, <2>2, <3>1
    <3> QED BY <2>1, <2>2, <3>1, <3>2 DEF At, last
  <2>3. CASE m # n
    <3>1. d[m] = c[m] /\ src(m, i) = i
      BY <1>1, <2>1, <2>3
    <3> QED BY <2>1, <2>3, <3>1 DEF At
  <2> QED BY <2>2, <2>3
<1>4. ASSUME NEW m, NEW j, NEW k, k # k0, At(c, m, j, k)
      PROVE  \E i : At(d, m, i, k) /\ d[m][i] = c[m][j]
  <2>1. m \in 1..Len(c) /\ j \in 1..Len(c[m]) /\ c[m][j].key = k
    BY <1>4 DEF At
  <2>2. CASE m = n
    <3> DEFINE i == IF j = last THEN i0 ELSE j
    <3>1. j # i0 /\ j \in 1..last
      BY <1>4, <2>1, <2>2 DEF last
    <3>2. i \in 1..(last - 1) /\ d[n][i] = c[n][j]
      BY <1>1, <1>2, <3>1
    <3> HIDE DEF i
    <3>3. At(d, n, i, k)
      BY <1>1, <2>1, <2>2, <3>2 DEF At
    <3> QED BY <2>2, <3>2, <3>3
  <2>3. CASE m # n
    <3>1. d[m] = c[m]
      BY <1>1, <2>1, <2>3
    <3> QED BY <1>1, <2>1, <3>1 DEF At
  <2> QED BY <2>2, <2>3
<1>5. ASSUME NEW m, NEW i, NEW j, src(m, i) = src(m, j), m = n => i \in 1..(last - 1) /\ j \in 1..(last - 1)
      PROVE  i = j
  BY <1>1, <1>2, <1>5
<1> HIDE DEF src
<1>6. ASSUME NEW k, Has(d, k) PROVE Has(c, k)
  BY <1>3, <1>6, HasAt
<1>7. ASSUME NEW k, k # k0, Has(c, k) PROVE Has(d, k)
  BY <1>4, <1>7, HasAt
<1>8. ASSUME NEW k, Once(c, k) PROVE Once(d, k)
  <2> SUFFICES ASSUME NEW m, NEW i, NEW o, NEW j, At(d, m, i, k), At(d, o, j, k) PROVE m = o /\ i = j
    BY DEF Once
  <2>1. At(c, m, src(m, i), k) /\ At(c, o, src(o, j), k)
    BY <1>3
  <2>2. m = o /\ src(m, i) = src(o, j)
    BY <1>8, <2>1 DEF Once
  <2>3. m = n => i \in 1..(last - 1) /\ j \in 1..(last - 1)
    BY <1>3, <2>2
  <2> QED BY <1>5, <2>2, <2>3
<1>9. ASSUME NEW k, k # k0, Once(c, k) PROVE Lookup(d, k) = Lookup(c, k)
  <2>1. CASE Has(c, k)
    <3>1. PICK m, j : At(c, m, j, k)
      BY <2>1, HasAt
    <3>2. PICK i : At(d, m, i, k) /\ d[m][i] = c[m][j]
      BY <1>4, <1>9, <3>1
    <3>3. Lookup(c, k) = c[m][j].val
      BY <1>9, <3>1, LookupFound
    <3>4. Lookup(d, k) = d[m][i].val
      BY <1>8, <1>9, <3>2, LookupFound
    <3> QED BY <3>2, <3>3, <3>4
  <2>2. CASE ~Has(c, k)
    BY <1>6, <2>2, LookupAbsent
  <2> QED BY <2>1, <2>2
<1>10. ASSUME Once(c, k0), Has(d, k0) PROVE FALSE
  <2>1. PICK m, i : At(d, m, i, k0)
    BY <1>10, HasAt
  <2>2. At(c, m, src(m, i), k0) /\ ~(m = n /\ src(m, i) = i0)
    BY <1>3, <2>1
  <2>3. At(c, n, i0, k0)
    BY DEF At
  <2> QED BY <1>10, <2>2, <2>3 DEF Once
<1> QED BY <1>6, <1>7, <1>8, <1>9, <1>10

-----------------------------------------------------------------------------
(* What a step of a process in a set does, seen from outside *)

SameOp(p) ==
    /\ frame'[p].list = frame[p].list /\ frame'[p].op = frame[p].op
    /\ frame'[p].key = frame[p].key /\ frame'[p].val = frame[p].val
kv_(p) == [key |-> frame[p].key, val |-> frame[p].val]

Acquires(p) ==
    /\ frame[p].at = "acquire" /\ frame'[p].at = "walk" /\ SameOp(p)
    /\ frame'[p].node = frame[p].node /\ frame'[p].res = frame[p].res
    /\ lock[frame[p].list] = UNLOCKED /\ lock' = [lock EXCEPT ![frame[p].list] = LOCKED] /\ nodes' = nodes
MeetsDeleted(p) ==
    /\ frame[p].at = "acquire" /\ frame'[p] = OutFrame([status |-> "rehash_deleted", result |-> frame[p].val])
    /\ lock[frame[p].list] = DELETED /\ lock' = lock /\ nodes' = nodes
Passes(p) ==
    /\ frame[p].at = "walk" /\ frame'[p].at = "walk" /\ SameOp(p)
    /\ ~Found(p) /\ frame'[p].node = frame[p].node + 1 /\ frame'[p].res = frame[p].res
    /\ lock' = lock /\ nodes' = nodes
Reports(p) ==
    /\ frame[p].at = "walk" /\ frame'[p].at = "unlock" /\ SameOp(p)
    /\ \/ /\ Found(p) /\ frame[p].op = "contains"
          /\ frame'[p].res = [status |-> "true", result |-> FoundVal(p)]
       \/ /\ Found(p) /\ frame[p].op = "insert"
          /\ frame'[p].res = [status |-> "false", result |-> FoundVal(p)]
       \/ /\ ~Found(p) /\ IsLast(p) /\ frame[p].op \in {"contains", "remove"}
          /\ frame'[p].res = [status |-> "false", result |-> 0]
    /\ lock' = lock /\ nodes' = nodes
Decides(p) ==
    /\ frame[p].at = "walk" /\ frame'[p].at = "write" /\ SameOp(p)
    /\ frame'[p].node = frame[p].node /\ frame'[p].res.status = "true"
    /\ \/ /\ frame[p].op = "remove" /\ Found(p) /\ frame'[p].res.result = FoundVal(p)
          /\ frame'[p].buf = << Without(Node_(p), FoundAt(p)) >>
       \/ /\ frame[p].op = "insert" /\ ~Found(p) /\ frame'[p].res.result = 0
          /\ \/ Len(Node_(p)) = NODE_BUNDLE_SIZE /\ IsLast(p) /\ frame'[p].buf = << Node_(p), <<kv_(p)>> >>
             \/ Len(Node_(p)) # NODE_BUNDLE_SIZE /\ frame'[p].buf = << Append(Node_(p), kv_(p)) >>
    /\ lock' = lock /\ nodes' = nodes
Writes(p) ==
    /\ frame[p].at = "write" /\ frame'[p].at = "count" /\ SameOp(p) /\ frame'[p].res = frame[p].res
    /\ nodes' = [nodes EXCEPT ![frame[p].list] = Splice(@, frame[p].node, frame[p].buf)] /\ lock' = lock
Counts(p) ==
    /\ \/ frame[p].at = "count" /\ frame'[p].at = "add"
       \/ frame[p].at = "add" /\ frame'[p].at = "unlock"
    /\ SameOp(p) /\ frame'[p].res = frame[p].res
    /\ lock' = lock /\ nodes' = nodes
Unlocks(p) ==
    /\ frame[p].at = "unlock" /\ frame'[p] = OutFrame(frame[p].res)
    /\ lock' = [lock EXCEPT ![frame[p].list] = UNLOCKED] /\ nodes' = nodes

Shape(p) ==
    /\ \A q \in Procs \ {p} : frame'[q] = frame[q]
    /\ \/ Acquires(p) \/ MeetsDeleted(p) \/ Passes(p) \/ Reports(p)
       \/ Decides(p) \/ Writes(p) \/ Counts(p) \/ Unlocks(p)

\* A read of a node changes the frame of p in these places only.
LEMMA StepShape ==
  ASSUME TableInv, NEW p \in Procs, NEW at, NEW node, NEW buf, NEW res, Step(p, at, node, buf, res)
  PROVE  /\ frame'[p].at = at /\ frame'[p].node = node /\ frame'[p].buf = buf /\ frame'[p].res = res
         /\ SameOp(p) /\ lock' = lock /\ nodes' = nodes
         /\ \A q \in Procs \ {p} : frame'[q] = frame[q]
<1> DEFINE g == [frame[p] EXCEPT !.at = at, !.node = node, !.buf = buf, !.total = total[frame[p].list], !.res = res]
<1>1. frame \in [Procs -> Frames] /\ frame[p] \in Frames
  BY DEF TableInv, SetTypes
<1>2. frame' = [frame EXCEPT ![p] = g] /\ lock' = lock /\ nodes' = nodes
  BY DEF Step
<1>3. frame'[p] = g /\ \A q \in Procs \ {p} : frame'[q] = frame[q]
  BY <1>1, <1>2
<1>4. /\ g.at = at /\ g.node = node /\ g.buf = buf /\ g.res = res /\ g.list = frame[p].list
      /\ g.op = frame[p].op /\ g.key = frame[p].key /\ g.val = frame[p].val
  BY <1>1 DEF Frames
<1> HIDE DEF g
<1> QED BY <1>2, <1>3, <1>4 DEF SameOp

LEMMA AtShape ==
  ASSUME TableInv, NEW p \in Procs, NEW at, frame' = [frame EXCEPT ![p].at = at]
  PROVE  /\ frame'[p].at = at /\ frame'[p].node = frame[p].node /\ frame'[p].res = frame[p].res /\ SameOp(p)
         /\ \A q \in Procs \ {p} : frame'[q] = frame[q]
<1>1. frame \in [Procs -> Frames] /\ frame[p] \in Frames
  BY DEF TableInv, SetTypes
<1>2. frame'[p] = [frame[p] EXCEPT !.at = at] /\ \A q \in Procs \ {p} : frame'[q] = frame[q]
  BY <1>1
<1> QED BY <1>1, <1>2 DEF Frames, SameOp

LEMMA SetStepShape ==
  ASSUME TableInv, CountInv, NEW p \in Procs, SetStep(p)
  PROVE  Shape(p)
<1>1. frame \in [Procs -> Frames] /\ frame[p] \in Frames /\ nodes \in [Lists -> Seq(Node)]
  BY DEF TableInv, SetTypes
<1>2. CASE acquire(p)
  <2>1. CASE lock[frame[p].list] = UNLOCKED /\ frame' = [frame EXCEPT ![p].at = "walk"]
             /\ lock' = [lock EXCEPT ![frame[p].list] = LOCKED]
    <3>1. Acquires(p)
      BY <1>2, <2>1, AtShape DEF acquire, Acquires
    <3> QED BY <2>1, <3>1, AtShape DEF Shape
  <2>2. CASE lock[frame[p].list] = DELETED /\ Leave(p, [status |-> "rehash_deleted", result |-> frame[p].val])
             /\ UNCHANGED lock
    <3> DEFINE g == OutFrame([status |-> "rehash_deleted", result |-> frame[p].val])
    <3>1. frame' = [frame EXCEPT ![p] = g]
      BY <2>2 DEF Leave
    <3> HIDE DEF g
    <3>2. frame'[p] = g /\ \A q \in Procs \ {p} : frame'[q] = frame[q]
      BY <1>1, <3>1
    <3>3. MeetsDeleted(p)
      BY <1>2, <2>2, <3>2 DEF acquire, MeetsDeleted, g
    <3> QED BY <3>2, <3>3 DEF Shape
  <2> QED BY <1>2, <2>1, <2>2 DEF acquire
<1>3. CASE contains(p) \/ insert(p) \/ remove(p)
  <2>1. frame[p].at = "walk"
    BY <1>3 DEF contains, insert, remove, Walking
  <2>2. CASE GoOn(p)
    <3>1. Passes(p)
      BY <2>1, <2>2, StepShape DEF GoOn, Passes
    <3> QED BY <2>2, <3>1, StepShape DEF GoOn, Shape
  <2>3. CASE contains(p) /\ Found(p) /\ Answer(p, "true", FoundVal(p))
    <3>1. Step(p, "unlock", frame[p].node, <<>>, [status |-> "true", result |-> FoundVal(p)])
      BY <2>3 DEF Answer
    <3>2. Reports(p)
      BY <2>1, <2>3, <3>1, StepShape DEF contains, Walking, Reports
    <3> QED BY <3>1, <3>2, StepShape DEF Shape
  <2>4. CASE insert(p) /\ Found(p) /\ Answer(p, "false", FoundVal(p))
    <3>1. Step(p, "unlock", frame[p].node, <<>>, [status |-> "false", result |-> FoundVal(p)])
      BY <2>4 DEF Answer
    <3>2. Reports(p)
      BY <2>1, <2>4, <3>1, StepShape DEF insert, Walking, Reports
    <3> QED BY <3>1, <3>2, StepShape DEF Shape
  <2>5. CASE (contains(p) \/ remove(p)) /\ ~Found(p) /\ IsLast(p) /\ Answer(p, "false", 0)
    <3>1. Step(p, "unlock", frame[p].node, <<>>, [status |-> "false", result |-> 0])
      BY <2>5 DEF Answer
    <3>2. Reports(p)
      BY <2>1, <2>5, <3>1, StepShape DEF contains, remove, Walking, Reports
    <3> QED BY <3>1, <3>2, StepShape DEF Shape
  <2>6. CASE remove(p) /\ Found(p) /\ Step(p, "write", frame[p].node, << Without(Node_(p), FoundAt(p)) >>,
                                           [status |-> "true", result |-> FoundVal(p)])
    <3>1. frame[p].op = "remove"
      BY <2>6 DEF remove, Walking
    <3>2. Decides(p)
      BY <2>1, <2>6, <3>1, StepShape DEF Decides
    <3> QED BY <2>6, <3>2, StepShape DEF Shape
  <2>7. ASSUME frame[p].op = "insert", ~Found(p), NEW buf,
               Step(p, "write", frame[p].node, buf, [status |-> "true", result |-> 0]),
               \/ Len(Node_(p)) = NODE_BUNDLE_SIZE /\ IsLast(p) /\ buf = << Node_(p), <<kv_(p)>> >>
               \/ Len(Node_(p)) # NODE_BUNDLE_SIZE /\ buf = << Append(Node_(p), kv_(p)) >>
        PROVE  Shape(p)
    <3>1. Decides(p)
      BY <2>1, <2>7, StepShape DEF Decides
    <3> QED BY <2>7, <3>1, StepShape DEF Shape
  <2>8. CASE insert(p)
    BY <2>2, <2>4, <2>7, <2>8 DEF insert, Walking, kv_
  <2> QED BY <1>3, <2>2, <2>3, <2>5, <2>6, <2>8 DEF contains, remove
<1>4. CASE write(p)
  <2>1. frame' = [frame EXCEPT ![p].at = "count"]
    BY <1>4 DEF write
  <2>2. Writes(p)
    BY <1>4, <2>1, AtShape DEF write, Writes
  <2> QED BY <2>1, <2>2, AtShape DEF Shape
<1>5. CASE changeCount(p)
  <2> DEFINE g == [frame[p] EXCEPT !.at = "add", !.buf = << nodes[frame[p].list][1] >>, !.total = total[frame[p].list]]
  <2>1. frame' = [frame EXCEPT ![p] = g]
    BY <1>5 DEF changeCount
  <2>2. /\ g.at = "add" /\ g.list = frame[p].list /\ g.op = frame[p].op /\ g.key = frame[p].key
        /\ g.val = frame[p].val /\ g.res = frame[p].res
    BY <1>1 DEF Frames
  <2> HIDE DEF g
  <2>3. frame'[p] = g /\ \A q \in Procs \ {p} : frame'[q] = frame[q]
    BY <1>1, <2>1
  <2>4. Counts(p)
    BY <1>5, <2>2, <2>3 DEF changeCount, Counts, SameOp
  <2> QED BY <2>3, <2>4 DEF Shape
<1>6. CASE changeCountWrite(p)
  <2>1. frame' = [frame EXCEPT ![p].at = "unlock"] /\ frame[p].at = "add" /\ lock' = lock
    BY <1>6 DEF changeCountWrite
  <2>2. /\ nodes[frame[p].list] \in Seq(Node) /\ nodes[frame[p].list] # <<>>
        /\ frame[p].buf = << nodes[frame[p].list][1] >>
    BY <2>1, InsideFacts DEF Inside, CountInv, CountFrame
  <2>3. Splice(nodes[frame[p].list], 1, frame[p].buf) = nodes[frame[p].list]
    BY <2>2, SpliceSame
  <2>4. nodes' = nodes
    BY <1>1, <1>6, <2>3 DEF changeCountWrite
  <2>5. Counts(p)
    BY <2>1, <2>4, AtShape DEF Counts
  <2> QED BY <2>1, <2>5, AtShape DEF Shape
<1>7. CASE unlock(p)
  <2> DEFINE g == OutFrame(frame[p].res)
  <2>1. frame' = [frame EXCEPT ![p] = g]
    BY <1>7 DEF unlock, Leave
  <2> HIDE DEF g
  <2>2. frame'[p] = g /\ \A q \in Procs \ {p} : frame'[q] = frame[q]
    BY <1>1, <2>1
  <2>3. Unlocks(p)
    BY <1>7, <2>2 DEF unlock, Unlocks, g
  <2> QED BY <2>2, <2>3 DEF Shape
<1> QED BY <1>2, <1>3, <1>4, <1>5, <1>6, <1>7 DEF SetStep

\* The chains of the sets other than p's stay, and so does p's unless it writes.
LEMMA ShapeNodes ==
  ASSUME TableInv, NEW p \in Procs, Shape(p)
  PROVE  /\ frame[p].list \in Lists /\ frame[p].at # "out" /\ frame[p].key \in Keys /\ frame[p].op \in OpKinds
         /\ \A l \in Lists : l # frame[p].list => nodes'[l] = nodes[l]
         /\ ~Writes(p) => nodes' = nodes
<1>1. frame[p] \in Frames /\ frame[p].list \in Lists /\ nodes \in [Lists -> Seq(Node)]
  BY DEF TableInv, SetTypes, Frames
<1>2. frame[p].at # "out"
  BY DEF Shape, Acquires, MeetsDeleted, Passes, Reports, Decides, Writes, Counts, Unlocks
<1>3. ~Writes(p) => nodes' = nodes
  BY DEF Shape, Acquires, MeetsDeleted, Passes, Reports, Decides, Counts, Unlocks
<1>4. Writes(p) => \A l \in Lists : l # frame[p].list => nodes'[l] = nodes[l]
  BY <1>1 DEF Writes
<1>5. frame[p].key \in Keys /\ frame[p].op \in OpKinds
  BY <1>2 DEF TableInv, FrameInv
<1> QED BY <1>1, <1>2, <1>3, <1>4, <1>5

\* The write of an insert.
LEMMA InsertWrite ==
  ASSUME TableInv, NEW p \in Procs, Writes(p), WorkFrame(p), frame[p].op = "insert"
  PROVE  /\ nodes[frame[p].list] \in Seq(Node) /\ nodes'[frame[p].list] \in Seq(Node)
         /\ frame[p].node \in 1..Len(nodes[frame[p].list])
         /\ kv_(p) \in Pair /\ kv_(p).key = frame[p].key /\ kv_(p).val = frame[p].val
         /\ Inserted(nodes[frame[p].list], frame[p].node, kv_(p), nodes'[frame[p].list])
<1> DEFINE l == frame[p].list
           c == nodes[l]
           n == frame[p].node
<1>1. frame[p].at = "write" /\ frame[p].at \in Inside
  BY DEF Writes, Inside
<1>2. /\ l \in Lists /\ c \in Seq(Node) /\ n \in 1..Len(c) /\ frame[p].buf \in Seq(Node)
      /\ frame[p].key \in Keys /\ frame[p].val \in Vals
  BY <1>1, InsideFacts
<1>3. nodes'[l] = Splice(c, n, frame[p].buf)
  BY <1>2 DEF Writes, TableInv, SetTypes
<1>4. Splice(c, n, frame[p].buf) \in Seq(Node)
  <2> HIDE DEF c, n
  <2> QED BY <1>2, SpliceChain
<1>5. kv_(p) \in Pair /\ kv_(p).key = frame[p].key /\ kv_(p).val = frame[p].val
  BY <1>2 DEF kv_, Pair
<1>6. \/ Len(c[n]) = NODE_BUNDLE_SIZE /\ n = Len(c) /\ frame[p].buf = << c[n], <<kv_(p)>> >>
      \/ Len(c[n]) # NODE_BUNDLE_SIZE /\ frame[p].buf = << Append(c[n], kv_(p)) >>
  BY <1>1 DEF WorkFrame, kv_
<1>7. Inserted(c, n, kv_(p), nodes'[l])
  BY <1>3, <1>6 DEF Inserted
<1> QED BY <1>2, <1>3, <1>4, <1>5, <1>7

\* The write of a remove.
LEMMA RemoveWrite ==
  ASSUME TableInv, NEW p \in Procs, Writes(p), WorkFrame(p), frame[p].op = "remove"
  PROVE  /\ nodes[frame[p].list] \in Seq(Node) /\ nodes'[frame[p].list] \in Seq(Node)
         /\ frame[p].node \in 1..Len(nodes[frame[p].list])
         /\ \E i \in 1..Len(nodes[frame[p].list][frame[p].node]) :
              /\ nodes[frame[p].list][frame[p].node][i].key = frame[p].key
              /\ nodes[frame[p].list][frame[p].node][i].val = frame[p].res.result
              /\ nodes'[frame[p].list] =
                    Splice(nodes[frame[p].list], frame[p].node, << Without(nodes[frame[p].list][frame[p].node], i) >>)
<1> DEFINE l == frame[p].list
           c == nodes[l]
           n == frame[p].node
           i == Min(Hits(c[n], frame[p].key))
<1>1. frame[p].at = "write" /\ frame[p].at \in Inside
  BY DEF Writes, Inside
<1>2. l \in Lists /\ c \in Seq(Node) /\ n \in 1..Len(c) /\ frame[p].buf \in Seq(Node)
  BY <1>1, InsideFacts
<1>3. nodes'[l] = Splice(c, n, frame[p].buf)
  BY <1>2 DEF Writes, TableInv, SetTypes
<1>4. Splice(c, n, frame[p].buf) \in Seq(Node)
  <2> HIDE DEF c, n
  <2> QED BY <1>2, SpliceChain
<1>5. Hits(c[n], frame[p].key) # {} /\ frame[p].buf = << Without(c[n], i) >> /\ frame[p].res.result = c[n][i].val
  BY <1>1 DEF WorkFrame
<1>6. c[n] \in Node
  BY <1>2
<1>7. i \in 1..Len(c[n]) /\ c[n][i].key = frame[p].key
  BY <1>5, <1>6, FoundInNode
<1> HIDE DEF i
<1> QED BY <1>2, <1>3, <1>4, <1>5, <1>7

\* What a write does to the keys of the set.
LEMMA WriteKeys ==
  ASSUME TableInv, NEW p \in Procs, Writes(p), WorkFrame(p)
  PROVE  LET c == nodes[frame[p].list]
             d == nodes'[frame[p].list]
             k0 == frame[p].key
         IN  /\ c \in Seq(Node) /\ d \in Seq(Node)
             /\ frame[p].op \in {"insert", "remove"}
             /\ frame[p].op = "insert" => Has(d, k0)
             /\ \A k : k # k0 => (Has(d, k) <=> Has(c, k))
             /\ frame[p].op = "insert" => \A k : Has(c, k) => Has(d, k)
             /\ frame[p].op = "remove" => Has(c, k0)
             /\ \A k : k # k0 /\ Once(c, k) => Once(d, k) /\ Lookup(d, k) = Lookup(c, k)
             /\ frame[p].op = "insert" /\ ~Has(c, k0) => Once(d, k0) /\ Lookup(d, k0) = frame[p].val
             /\ frame[p].op = "remove" /\ Once(c, k0) =>
                   Once(d, k0) /\ ~Has(d, k0) /\ Lookup(c, k0) = frame[p].res.result /\ Lookup(d, k0) = Absent
<1> DEFINE c == nodes[frame[p].list]
           d == nodes'[frame[p].list]
           k0 == frame[p].key
           n == frame[p].node
<1>1. frame[p].op \in {"insert", "remove"}
  BY DEF WorkFrame, Writes
<1>2. CASE frame[p].op = "insert"
  <2>1. /\ c \in Seq(Node) /\ d \in Seq(Node) /\ n \in 1..Len(c) /\ kv_(p) \in Pair
        /\ kv_(p).key = k0 /\ kv_(p).val = frame[p].val /\ Inserted(c, n, kv_(p), d)
    BY <1>2, InsertWrite
  <2> HIDE DEF c, d, k0, n
  <2>2. /\ Has(d, k0) /\ \A k : Has(c, k) => Has(d, k)
        /\ \A k : k # k0 => (Has(d, k) => Has(c, k))
        /\ \A k : k # k0 /\ Once(c, k) => Once(d, k) /\ Lookup(d, k) = Lookup(c, k)
        /\ ~Has(c, k0) => Once(d, k0) /\ Lookup(d, k0) = frame[p].val
    BY <2>1, InsertedFacts
  <2>3. frame[p].op # "remove"
    BY <1>2
  <2> QED BY <1>1, <2>1, <2>2, <2>3 DEF c, d, k0, n
<1>3. CASE frame[p].op = "remove"
  <2>1. c \in Seq(Node) /\ d \in Seq(Node) /\ n \in 1..Len(c)
    BY <1>3, RemoveWrite
  <2>2. PICK i \in 1..Len(c[n]) : /\ c[n][i].key = k0 /\ c[n][i].val = frame[p].res.result
                                  /\ d = Splice(c, n, << Without(c[n], i) >>)
    BY <1>3, RemoveWrite
  <2> HIDE DEF c, d, k0, n
  <2>3. /\ \A k : Has(d, k) => Has(c, k)
        /\ \A k : k # k0 => (Has(c, k) => Has(d, k))
        /\ \A k : Once(c, k) => Once(d, k)
        /\ \A k : k # k0 /\ Once(c, k) => Lookup(d, k) = Lookup(c, k)
        /\ Once(c, k0) => ~Has(d, k0)
    BY <2>1, <2>2, RemovedFacts
  <2>4. At(c, n, i, k0)
    BY <2>1, <2>2 DEF At
  <2>5. Has(c, k0)
    BY <2>4, HasAt
  <2>6. Once(c, k0) => Lookup(c, k0) = frame[p].res.result
    BY <2>1, <2>2, <2>4, LookupFound
  <2>7. ~Has(d, k0) => Lookup(d, k0) = Absent
    BY LookupAbsent
  <2>8. frame[p].op # "insert"
    BY <1>3
  <2> QED BY <1>1, <2>1, <2>3, <2>5, <2>6, <2>7, <2>8 DEF c, d, k0, n
<1> QED BY <1>1, <1>2, <1>3

-----------------------------------------------------------------------------
(* WorkInv is inductive *)

\* A process whose frame and whose chain do not change.
LEMMA WorkSame ==
  ASSUME NEW q, WorkFrame(q), frame'[q] = frame[q],
         frame[q].at \in Inside => nodes'[frame[q].list] = nodes[frame[q].list]
  PROVE  WorkFrame(q)'
<1>1. CASE frame[q].at \in Inside
  BY <1>1 DEF WorkFrame
<1>2. CASE frame[q].at \notin Inside
  BY <1>2 DEF WorkFrame, Inside
<1> QED BY <1>1, <1>2

\* A process outside a set knows nothing of it.
LEMMA WorkOut ==
  ASSUME NEW q, frame'[q].at \in {"out", "acquire"}
  PROVE  WorkFrame(q)'
BY DEF WorkFrame

LEMMA WorkSelf ==
  ASSUME TableInv, NEW p \in Procs, Shape(p), WorkFrame(p)
  PROVE  WorkFrame(p)'
<1> DEFINE c == nodes[frame[p].list]
           n == frame[p].node
           k == frame[p].key
<1>1. frame[p] \in Frames /\ frame[p].node \in Nat \ {0}
  BY DEF TableInv, SetTypes, Frames
<1>2. CASE Acquires(p)
  <2>1. frame[p].node = 1
    BY <1>2 DEF Acquires, TableInv, FrameInv
  <2> QED BY <1>2, <2>1 DEF Acquires, WorkFrame
<1>3. CASE MeetsDeleted(p) \/ Unlocks(p)
  <2>1. frame'[p].at = "out"
    BY <1>3 DEF MeetsDeleted, Unlocks, OutFrame
  <2> QED BY <2>1, WorkOut
<1>4. CASE Passes(p)
  <2>1. \A m \in 1..(n - 1) : Hits(c[m], k) = {}
    BY <1>4 DEF Passes, WorkFrame
  <2>2. Hits(c[n], k) = {}
    BY <1>4 DEF Passes, Found, Node_
  <2>3. \A m \in 1..((n + 1) - 1) : Hits(c[m], k) = {}
    BY <1>1, <2>1, <2>2
  <2>4. /\ frame'[p].at = "walk" /\ frame'[p].node = n + 1 /\ nodes' = nodes /\ frame'[p].list = frame[p].list
        /\ frame'[p].key = frame[p].key
    BY <1>4 DEF Passes, SameOp
  <2> QED BY <2>3, <2>4 DEF WorkFrame
<1>5. CASE Reports(p)
  <2>1. frame'[p].op = "insert" => Has(c, k)
    <3> SUFFICES ASSUME frame'[p].op = "insert" PROVE Has(c, k)
      OBVIOUS
    <3>1. Hits(c[n], k) # {}
      BY <1>5 DEF Reports, SameOp, Found, Node_
    <3>2. n \in 1..Len(c)
      BY <1>5, InsideFacts DEF Reports, Inside
    <3> QED BY <3>1, <3>2 DEF Has
  <2>2. frame'[p].at = "unlock" /\ nodes' = nodes /\ frame'[p].list = frame[p].list /\ frame'[p].key = k
    BY <1>5 DEF Reports, SameOp
  <2> QED BY <2>1, <2>2 DEF WorkFrame
<1>6. CASE Decides(p)
  <2>1. /\ frame'[p].at = "write" /\ nodes' = nodes /\ frame'[p].list = frame[p].list /\ frame'[p].key = k
        /\ frame'[p].val = frame[p].val /\ frame'[p].op = frame[p].op /\ frame'[p].node = n
        /\ frame'[p].res.status = "true"
    BY <1>6 DEF Decides, SameOp
  <2>2. \A m \in 1..(n - 1) : Hits(c[m], k) = {}
    BY <1>6 DEF Decides, WorkFrame
  <2>3. CASE frame[p].op = "remove"
    <3>1. /\ Hits(c[n], k) # {} /\ frame'[p].res.result = c[n][Min(Hits(c[n], k))].val
          /\ frame'[p].buf = << Without(c[n], Min(Hits(c[n], k))) >>
      BY <1>6, <2>3 DEF Decides, Found, Node_, FoundVal, FoundAt
    <3> QED BY <2>1, <2>2, <2>3, <3>1 DEF WorkFrame
  <2>4. CASE frame[p].op = "insert"
    <3>1. /\ Hits(c[n], k) = {} /\ frame'[p].res.result = 0
          /\ \/ Len(c[n]) = NODE_BUNDLE_SIZE /\ n = Len(c) /\ frame'[p].buf = << c[n], <<kv_(p)>> >>
             \/ Len(c[n]) # NODE_BUNDLE_SIZE /\ frame'[p].buf = << Append(c[n], kv_(p)) >>
      BY <1>6, <2>4 DEF Decides, Found, Node_, IsLast
    <3> QED BY <2>1, <2>2, <2>4, <3>1 DEF WorkFrame, kv_
  <2> QED BY <1>6, <2>3, <2>4 DEF Decides
<1>7. CASE Writes(p)
  <2>1. frame[p].op \in {"insert", "remove"} /\ frame[p].res.status = "true"
    BY <1>7 DEF Writes, WorkFrame
  <2>2. frame[p].op = "insert" => Has(nodes'[frame[p].list], k)
    BY <1>7, WriteKeys
  <2>3. /\ frame'[p].at = "count" /\ frame'[p].list = frame[p].list /\ frame'[p].key = k
        /\ frame'[p].op = frame[p].op /\ frame'[p].res = frame[p].res
    BY <1>7 DEF Writes, SameOp
  <2> QED BY <2>1, <2>2, <2>3 DEF WorkFrame
<1>8. CASE Counts(p)
  <2>1. /\ frame'[p].at \in {"add", "unlock"} /\ frame'[p].list = frame[p].list /\ frame'[p].key = k
        /\ frame'[p].op = frame[p].op /\ frame'[p].res = frame[p].res /\ nodes' = nodes
        /\ frame[p].at \in {"count", "add"}
    BY <1>8 DEF Counts, SameOp
  <2> QED BY <2>1 DEF WorkFrame
<1> QED BY <1>2, <1>3, <1>4, <1>5, <1>6, <1>7, <1>8 DEF Shape

\* Everybody else keeps what it knows: nobody else is inside the set of p.
LEMMA WorkShape ==
  ASSUME TableInv, NEW p \in Procs, Shape(p), \A q \in Procs : WorkFrame(q)
  PROVE  \A q \in Procs : WorkFrame(q)'
<1> SUFFICES ASSUME NEW q \in Procs PROVE WorkFrame(q)'
  OBVIOUS
<1>1. CASE q = p
  BY <1>1, WorkSelf
<1>2. CASE q # p
  <2>1. frame'[q] = frame[q] /\ frame[q].list \in Lists
    BY <1>2 DEF Shape, TableInv, SetTypes, Frames
  <2>2. frame[q].at \in Inside => nodes'[frame[q].list] = nodes[frame[q].list]
    <3>1. CASE Writes(p)
      <4>1. frame[p].at \in Inside
        BY <3>1 DEF Writes, Inside
      <4>2. frame[q].at \in Inside => frame[q].list # frame[p].list
        BY <1>2, <4>1 DEF TableInv, OwnerInv
      <4> QED BY <2>1, <4>2, ShapeNodes
    <3>2. CASE ~Writes(p)
      BY <3>2, ShapeNodes
    <3> QED BY <3>1, <3>2
  <2> QED BY <2>1, <2>2, WorkSame
<1> QED BY <1>1, <1>2

\* The frames of the clients are those of their calls.
LEMMA CallShape ==
  ASSUME TableInv, NEW p \in Procs, Shape(p), UNCHANGED <<call, pc>>, NEW t \in Threads, CallFrame(t)
  PROVE  CallFrame(t)'
<1>1. CASE t = p
  <2>1. frame'[p].at = "out" \/ SameOp(p)
    BY DEF Shape, Acquires, MeetsDeleted, Passes, Reports, Decides, Writes, Counts, Unlocks, OutFrame
  <2>2. frame[p].at # "out"
    BY ShapeNodes
  <2> QED BY <1>1, <2>1, <2>2 DEF CallFrame, SameOp, Calls
<1>2. CASE t # p
  <2>1. frame'[t] = frame[t]
    BY <1>2, TableAssumption DEF Shape
  <2> QED BY <2>1 DEF CallFrame, Calls
<1> QED BY <1>1, <1>2

\* The steps of the table, by what they leave alone.
TableMoves ==
    \/ sendRoot \/ try_rehash \/ sumLengths \/ freezeSets \/ publish \/ foreachNode \/ meltSets
CallMoves == \E t \in Threads : Invoke(t) \/ finish(t) \/ (TryDeliver(t) /\ pc[t] = "join" /\ pc'[t] = "idle")

LEMMA Kinds ==
  ASSUME TableInv, CountInv, [Next]_vars
  PROVE  \/ \E p \in Procs : Shape(p) /\ UNCHANGED tvars /\ (p = Server \/ p \in Threads)
         \/ allocateSets \/ readd
         \/ \E t \in Threads : readRoot(t)
         \/ CallMoves \/ TableMoves
         \/ UNCHANGED vars
<1>1. ASSUME NEW p \in Procs, SetStep(p) PROVE Shape(p)
  BY <1>1, SetStepShape
<1>2. ASSUME NEW t \in Threads, TryDeliver(t) PROVE UNCHANGED vars \/ CallMoves
  <2>1. pc \in [Threads -> {"join", "idle", "start", "set", "wild"}]
    BY DEF TableInv, TableTypes
  <2>2. UNCHANGED vars \/ (pc[t] = "join" /\ pc' = [pc EXCEPT ![t] = "idle"])
    BY <1>2 DEF TryDeliver
  <2> QED BY <1>2, <2>1, <2>2 DEF CallMoves
<1>3. Server \in Procs /\ \A t \in Threads : t \in Procs
  BY TableAssumption
<1>4. ASSUME NEW t \in Threads, Client(t)
      PROVE  \/ \E p \in Procs : Shape(p) /\ UNCHANGED tvars /\ (p = Server \/ p \in Threads)
             \/ readRoot(t) \/ CallMoves \/ UNCHANGED vars
  BY <1>1, <1>2, <1>3, <1>4 DEF Client, setStep, CallMoves
<1>5. ASSUME Rehash
      PROVE  \/ \E p \in Procs : Shape(p) /\ UNCHANGED tvars /\ (p = Server \/ p \in Threads)
             \/ allocateSets \/ readd \/ TableMoves
  BY <1>1, <1>3, <1>5 DEF Rehash, readdStep, TableMoves
<1> QED BY <1>4, <1>5 DEF Next, Finished, TableMoves

\* What these moves leave alone.
LEMMA TableMovesKeep ==
  ASSUME TableMoves
  PROVE  UNCHANGED <<nodes, total, frame, call, pc, ret, todo>>
BY DEF TableMoves, sendRoot, try_rehash, sumLengths, freezeSets, freeze, publish, foreachNode, meltSets, melt, svars

LEMMA CallMovesKeep ==
  ASSUME CallMoves
  PROVE  UNCHANGED <<lock, nodes, total, frame, root, rh>>
BY DEF CallMoves, Invoke, finish, TryDeliver, svars, vars, tvars

LEMMA ReadRootKeep ==
  ASSUME NEW t \in Threads, readRoot(t)
  PROVE  UNCHANGED <<lock, nodes, total, root, call, ret, rh>>
BY DEF readRoot

LEMMA ReaddKeep ==
  ASSUME readd
  PROVE  UNCHANGED <<lock, nodes, total, root, call, pc, ret>>
BY DEF readd

LEMMA AllocateKeep ==
  ASSUME TableInv, allocateSets
  PROVE  /\ UNCHANGED <<frame, root, call, pc, ret>> /\ rh.at = "allocate"
         /\ rh' = [rh EXCEPT !.at = "publish"]
         /\ NewLists = newStart..(newStart + newCount - 1) /\ Top = newStart /\ NewLists \subseteq Lists
         /\ \A l \in Lists : lock[l] # RAW => l < newStart /\ l \notin NewLists /\ nodes'[l] = nodes[l] /\ lock'[l] = lock[l]
         /\ \A l \in Lists : nodes'[l] = nodes[l] \/ nodes'[l] = << <<>> >>
         /\ \A l \in Lists : lock'[l] \in {lock[l], UNLOCKED}
         /\ root = rh.old /\ newStart \in Nat /\ newCount \in Nat \ {0}
<1>1. /\ rh.at = "allocate" /\ UNCHANGED <<frame, root, call, pc, ret>> /\ rh' = [rh EXCEPT !.at = "publish"]
      /\ nodes' = [l \in Lists |-> IF l \in NewLists THEN << <<>> >> ELSE nodes[l]]
      /\ lock' = [l \in Lists |-> IF l \in NewLists THEN UNLOCKED ELSE lock[l]]
      /\ NewLists \subseteq Lists
  BY DEF allocateSets, rhAt, Construct
<1>2. NewLists = newStart..(newStart + newCount - 1) /\ newStart \in Nat /\ newCount \in Nat \ {0}
  BY <1>1, NewArray
<1>3. Top = newStart /\ root = rh.old
  BY <1>1 DEF Top, TableInv, RehashInv, newStart
<1>4. ASSUME NEW l \in Lists, lock[l] # RAW PROVE l < newStart
  BY <1>2, <1>3, <1>4, SetAssumption DEF TableInv, ArrayInv
<1>5. ASSUME NEW l \in Lists, lock[l] # RAW PROVE l \notin NewLists
  BY <1>2, <1>4, <1>5, SetAssumption
<1> QED BY <1>1, <1>2, <1>3, <1>4, <1>5

\* What the moves of try_rehash do to its locals and to the root.
Early  == {"send", "idle", "sum", "freeze", "allocate"}
EarlyMove ==
    /\ rh.at \in Early /\ rh'.at \in Early /\ root' = root
    /\ rh'.at \in {"sum", "freeze", "allocate"} => rh'.node = 1 /\ rh'.todo = <<>>
    /\ rh'.at = "allocate" => rh'.i = 0
    /\ \A l \in Lists : lock'[l] = DELETED => lock[l] = DELETED
PublishMove ==
    /\ rh.at = "publish" /\ rh'.at \in {"publish", "foreach"}
    /\ rh'.old = rh.old /\ rh'.i = rh.i /\ rh'.node = rh.node /\ rh'.todo = rh.todo
    /\ root' \in [count : Nat, start : Nat] /\ root'.start >= root.start /\ lock' = lock
    /\ rh'.at = "publish" => root' # [count |-> newCount, start |-> newStart]
ForeachMove ==
    /\ rh.at = "foreach" /\ rh'.old = rh.old /\ root' = root /\ lock' = lock
    /\ \/ /\ rh.node <= Len(nodes[oldList(rh.i)]) /\ rh'.at = "readd" /\ rh'.i = rh.i
          /\ rh'.todo = nodes[oldList(rh.i)][rh.node] /\ rh'.node = rh.node + 1
       \/ rh.node > Len(nodes[oldList(rh.i)]) /\ rh'.at = "melt" /\ rh.i + 1 = rh.old.count
       \/ /\ rh.node > Len(nodes[oldList(rh.i)]) /\ rh'.at = "foreach" /\ rh'.i = rh.i + 1
          /\ rh'.todo = rh.todo /\ rh'.node = 1
MeltMove ==
    /\ rh.at = "melt" /\ rh'.at \in {"melt", "idle"} /\ root' = root
    /\ rh'.at = "melt" => rh'.old = rh.old
    /\ \A l \in Lists : lock'[l] = DELETED => lock[l] = DELETED \/ l = oldList(rh.i)

LEMMA MoveKinds ==
  ASSUME TableInv, ServerInv, TableMoves
  PROVE  EarlyMove \/ PublishMove \/ ForeachMove \/ MeltMove
<1>1. /\ rh \in Locals /\ rh.i \in Nat /\ rh.node \in Nat \ {0} /\ rh.todo \in Seq(Pair)
      /\ rh.old.count \in Nat /\ rh.old.start \in Nat /\ root \in [count : Nat \ {0}, start : Lists]
      /\ root.start \in Nat
  BY RehashFacts
<1>2. lock \in [Lists -> {RAW, LOCKED, UNLOCKED, DELETED}]
  BY DEF TableInv, SetTypes
<1>3. CASE sendRoot
  BY <1>3 DEF sendRoot, rhAt, EarlyMove, Early, Idle, svars
<1>4. CASE try_rehash
  <2>1. /\ rh.at = "idle" /\ root' = root /\ lock' = lock
        /\ rh' = [Idle EXCEPT !.at = "sum", !.old = root, !.calls = rh.calls + 1]
    BY <1>4 DEF try_rehash, rhAt, svars
  <2>2. rh'.at = "sum" /\ rh'.node = 1 /\ rh'.todo = <<>>
    BY <2>1 DEF Idle
  <2> QED BY <2>1, <2>2 DEF EarlyMove, Early
<1>5. CASE sumLengths
  <2>1. rh.at = "sum" /\ root' = root /\ lock' = lock
    BY <1>5 DEF sumLengths, rhAt, svars
  <2>2. rh.node = 1 /\ rh.todo = <<>>
    BY <2>1 DEF ServerInv
  <2>3. \E sum : \/ rh' = [rh EXCEPT !.i = rh.i + 1, !.sum = sum]
                 \/ rh' = [Idle EXCEPT !.calls = rh.calls]
                 \/ rh' = [rh EXCEPT !.at = "freeze", !.i = 0, !.sum = 0]
    BY <1>5 DEF sumLengths
  <2>4. rh'.at \in {"sum", "idle", "freeze"} /\ (rh'.at # "idle" => rh'.node = 1 /\ rh'.todo = <<>>)
    BY <1>1, <2>1, <2>2, <2>3 DEF Idle, Locals
  <2> QED BY <2>1, <2>4 DEF EarlyMove, Early
<1>6. CASE freezeSets
  <2>1. rh.at = "freeze" /\ root' = root /\ lock' = [lock EXCEPT ![oldList(rh.i)] = LOCKED]
    BY <1>6 DEF freezeSets, freeze, rhAt
  <2>2. rh.node = 1 /\ rh.todo = <<>>
    BY <2>1 DEF ServerInv
  <2>3. rh' = [rh EXCEPT !.at = "allocate", !.i = 0] \/ rh' = [rh EXCEPT !.i = rh.i + 1]
    BY <1>6 DEF freezeSets, advance
  <2>4. /\ rh'.at \in {"freeze", "allocate"} /\ rh'.node = 1 /\ rh'.todo = <<>>
        /\ rh'.at = "allocate" => rh'.i = 0
    BY <1>1, <2>1, <2>2, <2>3 DEF Locals
  <2>5. \A l \in Lists : lock'[l] = DELETED => lock[l] = DELETED
    BY <1>2, <2>1 DEF LOCKED, DELETED
  <2> QED BY <2>1, <2>4, <2>5 DEF EarlyMove, Early
<1>7. CASE publish
  <2>1. /\ rh.at = "publish" /\ lock' = lock
        /\ \/ root.count # newCount /\ root' = [root EXCEPT !.count = newCount]
           \/ root.start # newStart /\ root' = [root EXCEPT !.start = newStart]
    BY <1>7 DEF publish, rhAt, svars
  <2>2. \/ rh' = [rh EXCEPT !.at = "foreach"]
        \/ rh' = rh /\ root' # [count |-> newCount, start |-> newStart]
    BY <1>7 DEF publish
  <2>3. /\ rh'.at \in {"publish", "foreach"} /\ rh'.old = rh.old /\ rh'.i = rh.i /\ rh'.node = rh.node
        /\ rh'.todo = rh.todo /\ (rh'.at = "publish" => root' # [count |-> newCount, start |-> newStart])
    BY <1>1, <2>1, <2>2 DEF Locals
  <2>4. newStart \in Nat /\ newCount \in Nat /\ root.start <= newStart
    <3>1. root.start \in {rh.old.start, newStart}
      BY <2>1 DEF TableInv, RehashInv
    <3>2. newStart \in Nat /\ newCount \in Nat /\ newStart = rh.old.start + rh.old.count
      BY <2>1, NewArray
    <3> QED BY <1>1, <3>1, <3>2
  <2>5. root' \in [count : Nat, start : Nat] /\ root'.start >= root.start
    BY <1>1, <2>1, <2>4
  <2> QED BY <2>1, <2>3, <2>5 DEF PublishMove
<1>8. CASE foreachNode
  <2> DEFINE chain == nodes[oldList(rh.i)]
  <2>1. rh.at = "foreach" /\ root' = root /\ lock' = lock
    BY <1>8 DEF foreachNode, rhAt, svars
  <2>2. Len(chain) \in Nat
    BY <2>1, OldListExists DEF TableInv, SetTypes
  <2>3. \/ rh.node <= Len(chain) /\ rh' = [rh EXCEPT !.at = "readd", !.todo = chain[rh.node], !.node = @ + 1]
        \/ rh.node > Len(chain) /\ rh.i + 1 = rh.old.count /\ rh' = [rh EXCEPT !.at = "melt", !.i = 0, !.node = 1]
        \/ rh.node > Len(chain) /\ rh' = [rh EXCEPT !.i = rh.i + 1, !.node = 1]
    BY <1>1, <1>8, <2>2 DEF foreachNode
  <2> HIDE DEF chain
  <2>4. /\ rh'.old = rh.old
        /\ \/ /\ rh.node <= Len(chain) /\ rh'.at = "readd" /\ rh'.i = rh.i
              /\ rh'.todo = chain[rh.node] /\ rh'.node = rh.node + 1
           \/ rh.node > Len(chain) /\ rh'.at = "melt" /\ rh.i + 1 = rh.old.count
           \/ /\ rh.node > Len(chain) /\ rh'.at = "foreach" /\ rh'.i = rh.i + 1
              /\ rh'.todo = rh.todo /\ rh'.node = 1
    BY <1>1, <2>1, <2>3 DEF Locals
  <2> QED BY <2>1, <2>4 DEF ForeachMove, chain
<1>9. CASE meltSets
  <2>1. rh.at = "melt" /\ root' = root /\ lock' = [lock EXCEPT ![oldList(rh.i)] = DELETED]
    BY <1>9 DEF meltSets, melt, rhAt
  <2>2. rh' = [Idle EXCEPT !.calls = rh.calls] \/ rh' = [rh EXCEPT !.i = rh.i + 1]
    BY <1>9 DEF meltSets
  <2>3. rh'.at \in {"melt", "idle"} /\ (rh'.at = "melt" => rh'.old = rh.old)
    BY <1>1, <2>1, <2>2 DEF Locals, Idle
  <2>4. \A l \in Lists : lock'[l] = DELETED => lock[l] = DELETED \/ l = oldList(rh.i)
    BY <1>2, <2>1
  <2> QED BY <2>1, <2>3, <2>4 DEF MeltMove
<1> QED BY <1>3, <1>4, <1>5, <1>6, <1>7, <1>8, <1>9 DEF TableMoves

LEMMA ServerMoves ==
  ASSUME TableInv, ServerInv, TableMoves
  PROVE  ServerInv'
<1>0. UNCHANGED frame /\ frame[Server].at # "out" => rh.at = "readd"
  BY TableMovesKeep DEF ServerInv
<1>1. frame'[Server].at = "out"
  BY <1>0, MoveKinds, TableMovesKeep DEF EarlyMove, Early, PublishMove, ForeachMove, MeltMove
<1>2. CASE EarlyMove
  BY <1>1, <1>2 DEF EarlyMove, Early, ServerInv
<1>3. CASE PublishMove
  <2>1. newStart' = newStart /\ newCount' = newCount
    BY <1>3 DEF PublishMove, newStart, newCount
  <2>2. root.start \in Nat /\ Lists \subseteq Nat /\ root'.start \in Nat
    BY <1>3, RehashFacts, SetAssumption DEF PublishMove
  <2>3. \A l \in Lists : lock'[l] = DELETED => l < root'.start
    BY <1>3, <2>2 DEF PublishMove, ServerInv
  <2>4. /\ rh'.at \in {"publish", "foreach"}
        /\ rh'.node = 1 /\ rh'.todo = <<>> /\ rh'.i = 0
        /\ (rh'.at = "publish" => root' # [count |-> newCount', start |-> newStart'])
    BY <1>3, <2>1 DEF PublishMove, ServerInv
  <2> QED BY <1>1, <2>3, <2>4 DEF ServerInv
<1>4. CASE ForeachMove
  <2>1. \A l \in Lists : lock'[l] = DELETED => l < root'.start
    BY <1>4 DEF ForeachMove, ServerInv
  <2>2. rh'.at \in {"readd", "melt", "foreach"} /\ (rh'.at = "foreach" => rh'.todo = <<>>)
    BY <1>4 DEF ForeachMove, ServerInv
  <2> QED BY <1>1, <2>1, <2>2 DEF ServerInv
<1>5. CASE MeltMove
  <2>1. /\ oldList(rh.i) = rh.old.start + rh.i /\ rh.i < rh.old.count
        /\ root.start = newStart /\ newStart = rh.old.start + rh.old.count
    BY <1>5, OldListExists DEF MeltMove, TableInv, RehashInv, newStart
  <2>2. oldList(rh.i) < root.start
    BY <2>1, RehashFacts
  <2>3. \A l \in Lists : lock'[l] = DELETED => l < root'.start
    BY <1>5, <2>2 DEF MeltMove, ServerInv
  <2>4. rh'.at \in {"melt", "idle"}
    BY <1>5 DEF MeltMove
  <2> QED BY <1>1, <2>3, <2>4 DEF ServerInv
<1> QED BY <1>2, <1>3, <1>4, <1>5, MoveKinds

LEMMA ServerShape ==
  ASSUME TableInv, ServerInv, NEW p \in Procs, Shape(p), UNCHANGED <<root, rh>>
  PROVE  ServerInv'
<1>1. newStart' = newStart /\ newCount' = newCount
  BY DEF newStart, newCount
<1>2. \A l \in Lists : lock'[l] = DELETED => lock[l] = DELETED
  <2>1. lock \in [Lists -> {RAW, LOCKED, UNLOCKED, DELETED}]
    BY DEF TableInv, SetTypes
  <2>2. lock' = lock \/ \E l \in Lists, v \in {LOCKED, UNLOCKED} : lock' = [lock EXCEPT ![l] = v]
    BY ShapeNodes DEF Shape, Acquires, MeetsDeleted, Passes, Reports, Decides, Writes, Counts, Unlocks
  <2> QED BY <2>1, <2>2 DEF LOCKED, UNLOCKED, DELETED
<1>3. frame'[Server].at # "out" =>
          /\ rh.at = "readd" /\ frame'[Server].op = "insert" /\ frame'[Server].list = newHome(frame'[Server].key)
  <2>1. CASE p = Server
    <3>1. frame[Server].at # "out"
      BY <2>1, ShapeNodes
    <3>2. frame'[p].at = "out" \/ SameOp(p)
      BY DEF Shape, Acquires, MeetsDeleted, Passes, Reports, Decides, Writes, Counts, Unlocks, OutFrame
    <3> QED BY <2>1, <3>1, <3>2 DEF ServerInv, SameOp
  <2>2. CASE p # Server
    BY <2>2, TableAssumption DEF Shape, ServerInv
  <2> QED BY <2>1, <2>2
<1>4. \A k : newHome(k)' = newHome(k)
  BY <1>1 DEF newHome
<1> QED BY <1>1, <1>2, <1>3, <1>4 DEF ServerInv

LEMMA ServerReadd ==
  ASSUME TableInv, ServerInv, readd
  PROVE  ServerInv'
<1>1. rh \in Locals /\ rh.at = "readd" /\ UNCHANGED <<lock, root>> /\ frame[Server].at = "out" /\ Server \in Procs
  BY RehashFacts, ReaddKeep, TableAssumption DEF readd, rhAt
<1>2. CASE rh.todo = <<>> /\ rh' = [rh EXCEPT !.at = "foreach"] /\ UNCHANGED frame
  <2>1. rh'.at = "foreach" /\ rh'.todo = <<>>
    BY <1>1, <1>2 DEF Locals
  <2> QED BY <1>1, <1>2, <2>1 DEF ServerInv
<1>3. CASE /\ rh.todo # <<>> /\ rh' = [rh EXCEPT !.todo = Tail(@)]
           /\ Enter(Server, "insert", newHome(Head(rh.todo).key), Head(rh.todo).key, Head(rh.todo).val)
  <2> DEFINE g == NewFrame("insert", newHome(Head(rh.todo).key), Head(rh.todo).key, Head(rh.todo).val)
  <2>1. frame' = [frame EXCEPT ![Server] = g]
    BY <1>3 DEF Enter
  <2>2. g.op = "insert" /\ g.list = newHome(Head(rh.todo).key) /\ g.key = Head(rh.todo).key
    BY DEF NewFrame
  <2> HIDE DEF g
  <2>3. frame'[Server] = g
    BY <1>1, <2>1 DEF TableInv, SetTypes
  <2>4. rh'.at = "readd" /\ rh'.old = rh.old
    BY <1>1, <1>3 DEF Locals
  <2>5. newStart' = newStart /\ newCount' = newCount
    BY <2>4 DEF newStart, newCount
  <2>6. frame'[Server].list = newHome(frame[Server].key)'
    BY <2>2, <2>3, <2>5 DEF newHome
  <2> QED BY <1>1, <2>2, <2>3, <2>4, <2>6 DEF ServerInv
<1> QED BY <1>2, <1>3 DEF readd, newHome

LEMMA ServerAllocate ==
  ASSUME TableInv, ServerInv, allocateSets
  PROVE  ServerInv'
<1>1. rh \in Locals /\ rh.at = "allocate" /\ UNCHANGED <<frame, root>> /\ rh' = [rh EXCEPT !.at = "publish"]
  BY RehashFacts, AllocateKeep
<1>2. rh'.at = "publish" /\ rh'.old = rh.old /\ rh'.i = rh.i /\ rh'.node = rh.node /\ rh'.todo = rh.todo
  BY <1>1 DEF Locals
<1>3. rh.i = 0 /\ rh.node = 1 /\ rh.todo = <<>> /\ frame[Server].at = "out"
  BY <1>1 DEF ServerInv
<1>4. newStart' = newStart
  BY <1>2 DEF newStart
<1>5. root = rh.old /\ rh.old.count = SizeAt(rh.old.start) /\ newStart = rh.old.start + rh.old.count
  BY <1>1, AllocateKeep DEF TableInv, RehashInv, newStart
<1>6. root.start < newStart
  BY <1>5, RehashFacts
<1>7. root'.start # newStart'
  BY <1>1, <1>4, <1>6, RehashFacts
<1>8. root' # [count |-> newCount', start |-> newStart']
  BY <1>7
<1>9. \A l \in Lists : lock'[l] = DELETED => l < root'.start
  BY <1>1, AllocateKeep DEF ServerInv, UNLOCKED, DELETED
<1> QED BY <1>1, <1>2, <1>3, <1>8, <1>9 DEF ServerInv

\* The clients' frames and calls in the steps that are not inside a set.
LEMMA CallFrameKeep ==
  ASSUME NEW t \in Threads, CallFrame(t), call'[t] = call[t], pc'[t] = pc[t], frame'[t] = frame[t]
  PROVE  CallFrame(t)'
BY DEF CallFrame, Calls

LEMMA WorkCalls ==
  ASSUME TableInv, WorkInv, CallMoves
  PROVE  WorkInv'
<1>1. UNCHANGED <<lock, nodes, total, frame, root, rh>>
  BY CallMovesKeep
<1>2. \A p \in Procs : WorkFrame(p)'
  BY <1>1, WorkSame DEF WorkInv
<1>3. ServerInv'
  BY <1>1 DEF WorkInv, ServerInv, newHome, newStart, newCount
<1>4. ASSUME NEW t \in Threads PROVE CallFrame(t)'
  <2>1. PICK u \in Threads : Invoke(u) \/ finish(u) \/ (TryDeliver(u) /\ pc[u] = "join" /\ pc'[u] = "idle")
    BY DEF CallMoves
  <2>2. pc \in [Threads -> {"join", "idle", "start", "set", "wild"}] /\ DOMAIN call = Threads
    BY DEF TableInv, TableTypes
  <2>3. CallFrame(t) /\ CallInv(t) /\ CallInv(u)
    BY DEF WorkInv, TableInv
  <2>4. CASE t # u
    <3>1. pc'[t] = pc[t] /\ call'[t] = call[t]
      BY <2>1, <2>2, <2>4 DEF Invoke, finish, TryDeliver, vars, tvars
    <3> QED BY <1>1, <2>3, <3>1, CallFrameKeep
  <2>5. CASE t = u /\ Invoke(u)
    <3>1. pc'[t] = "start" /\ call'[t] \in Calls(t)
      BY <2>2, <2>5 DEF Invoke
    <3> QED BY <3>1 DEF CallFrame, Calls
  <2>6. CASE t = u /\ finish(u)
    <3>1. \/ pc'[t] = "start" /\ call'[t] = call[t] /\ pc[t] = "set"
          \/ pc'[t] = "idle" /\ call'[t] = NoCall
      BY <2>2, <2>6 DEF finish
    <3> QED BY <2>3, <3>1 DEF CallFrame, Calls
  <2>7. CASE t = u /\ TryDeliver(u) /\ pc[u] = "join" /\ pc'[u] = "idle"
    <3>1. call' = call
      BY <2>7 DEF TryDeliver, vars, tvars
    <3> QED BY <2>3, <2>7, <3>1 DEF CallFrame
  <2> QED BY <2>1, <2>4, <2>5, <2>6, <2>7
<1> QED BY <1>2, <1>3, <1>4 DEF WorkInv

\* A process enters a set operation.
LEMMA EnterShape ==
  ASSUME TableInv, NEW p \in Procs, NEW op, NEW l, NEW key, NEW val, Enter(p, op, l, key, val)
  PROVE  /\ frame'[p].at = "acquire" /\ frame'[p].op = op /\ frame'[p].list = l /\ frame'[p].key = key
         /\ frame'[p].val = val /\ frame'[p].res = Nothing
         /\ \A q \in Procs \ {p} : frame'[q] = frame[q]
<1> DEFINE g == NewFrame(op, l, key, val)
<1>1. frame' = [frame EXCEPT ![p] = g]
  BY DEF Enter
<1>2. g.at = "acquire" /\ g.op = op /\ g.list = l /\ g.key = key /\ g.val = val /\ g.res = Nothing
  BY DEF NewFrame
<1> HIDE DEF g
<1>3. frame'[p] = g /\ \A q \in Procs \ {p} : frame'[q] = frame[q]
  BY <1>1 DEF TableInv, SetTypes
<1> QED BY <1>2, <1>3

\* What readRoot does to the client and to its frame.
LEMMA ReadRootShape ==
  ASSUME TableInv, NEW t \in Threads, readRoot(t)
  PROVE  /\ pc[t] = "start" /\ frame[t].at = "out" /\ \A u \in Threads \ {t} : pc'[u] = pc[u]
         /\ \A q \in Procs \ {t} : frame'[q] = frame[q]
         /\ \/ /\ pc'[t] = "set" /\ frame'[t].at = "acquire" /\ frame'[t].op = call[t].op
               /\ frame'[t].list = indexAt(root.start, keyhash(call[t].key, root.count))
               /\ keyhash(call[t].key, root.count) < SizeAt(root.start)
               /\ frame'[t].key = call[t].key /\ frame'[t].val = call[t].val
            \/ pc'[t] = "wild" /\ frame' = frame
<1>1. t \in Procs /\ pc[t] = "start" /\ pc \in [Threads -> {"join", "idle", "start", "set", "wild"}]
  BY TableAssumption DEF readRoot, TableInv, TableTypes
<1>2. frame[t].at = "out"
  BY <1>1 DEF TableInv, CallInv
<1>3. CASE /\ keyhash(call[t].key, root.count) < SizeAt(root.start) /\ pc' = [pc EXCEPT ![t] = "set"]
           /\ Enter(t, call[t].op, indexAt(root.start, keyhash(call[t].key, root.count)), call[t].key, call[t].val)
  BY <1>1, <1>2, <1>3, EnterShape
<1>4. CASE pc' = [pc EXCEPT ![t] = "wild"] /\ UNCHANGED frame
  BY <1>1, <1>2, <1>4
<1> QED BY <1>3, <1>4 DEF readRoot

LEMMA NextWork == TableInv /\ CountInv /\ WorkInv /\ [Next]_vars => WorkInv'
<1> SUFFICES ASSUME TableInv, CountInv, WorkInv, [Next]_vars PROVE WorkInv'
  OBVIOUS
<1>0. (\A p \in Procs : WorkFrame(p)) /\ (\A t \in Threads : CallFrame(t)) /\ ServerInv
  BY DEF WorkInv
<1>1. ASSUME NEW p \in Procs, Shape(p), UNCHANGED tvars PROVE WorkInv'
  <2>1. UNCHANGED <<root, call, pc, rh>>
    BY <1>1, SameTable
  <2>2. \A q \in Procs : WorkFrame(q)'
    BY <1>0, <1>1, WorkShape
  <2>3. \A t \in Threads : CallFrame(t)'
    BY <1>0, <1>1, <2>1, CallShape
  <2>4. ServerInv'
    BY <1>0, <1>1, <2>1, ServerShape
  <2> QED BY <2>2, <2>3, <2>4 DEF WorkInv
<1>2. CASE allocateSets
  <2>1. ASSUME NEW p \in Procs PROVE WorkFrame(p)'
    <3>1. frame[p].list \in Lists /\ (frame[p].at \in Inside => lock[frame[p].list] # RAW)
      BY InsideFacts DEF TableInv, SetTypes, Frames, LOCKED, RAW
    <3>2. frame'[p] = frame[p] /\ (frame[p].at \in Inside => nodes'[frame[p].list] = nodes[frame[p].list])
      BY <1>2, <3>1, AllocateKeep
    <3> QED BY <1>0, <3>2, WorkSame
  <2>2. \A t \in Threads : CallFrame(t)'
    BY <1>0, <1>2, AllocateKeep, CallFrameKeep
  <2> QED BY <1>0, <1>2, <2>1, <2>2, ServerAllocate DEF WorkInv
<1>3. CASE readd
  <2>1. \E q \in {Server} : (frame'[q].at \in {"out", "acquire"}) /\ \A p \in Procs \ {q} : frame'[p] = frame[p]
    <3>1. Server \in Procs /\ frame[Server].at = "out"
      BY <1>3, TableAssumption DEF readd
    <3> QED BY <1>3, <3>1, EnterShape DEF readd
  <2>2. nodes' = nodes /\ call' = call /\ pc' = pc
    BY <1>3, ReaddKeep
  <2>3. ASSUME NEW p \in Procs PROVE WorkFrame(p)'
    <3>1. CASE p = Server
      BY <2>1, <3>1, WorkOut
    <3>2. CASE p # Server
      BY <1>0, <2>1, <2>2, <3>2, WorkSame
    <3> QED BY <3>1, <3>2
  <2>4. ASSUME NEW t \in Threads PROVE CallFrame(t)'
    <3>1. t \in Procs /\ t # Server
      BY TableAssumption
    <3> QED BY <1>0, <2>1, <2>2, <3>1, CallFrameKeep
  <2> QED BY <1>0, <1>3, <2>3, <2>4, ServerReadd DEF WorkInv
<1>4. ASSUME NEW t \in Threads, readRoot(t) PROVE WorkInv'
  <2>1. /\ UNCHANGED <<lock, nodes, root, call, rh>> /\ pc[t] = "start" /\ frame[t].at = "out"
        /\ \A q \in Procs \ {t} : frame'[q] = frame[q]
        /\ \A u \in Threads \ {t} : pc'[u] = pc[u]
        /\ \/ /\ pc'[t] = "set" /\ frame'[t].at = "acquire" /\ frame'[t].op = call[t].op
              /\ frame'[t].key = call[t].key /\ frame'[t].val = call[t].val
           \/ pc'[t] = "wild" /\ frame' = frame
    BY <1>4, ReadRootShape, ReadRootKeep
  <2>2. Server \in Procs \ {t} /\ t \in Procs
    BY TableAssumption
  <2>3. ASSUME NEW p \in Procs PROVE WorkFrame(p)'
    <3>1. CASE p = t
      BY <2>1, <3>1, WorkOut
    <3>2. CASE p # t
      BY <1>0, <2>1, <3>2, WorkSame
    <3> QED BY <3>1, <3>2
  <2>4. ASSUME NEW u \in Threads PROVE CallFrame(u)'
    <3>1. CASE u = t
      <4>1. call[t] \in Calls(t)
        BY <1>0, <2>1 DEF CallFrame
      <4> QED BY <2>1, <3>1, <4>1 DEF CallFrame, Calls
    <3>2. CASE u # t
      <4>1. u \in Procs
        BY TableAssumption
      <4> QED BY <1>0, <2>1, <3>2, <4>1, CallFrameKeep
    <3> QED BY <3>1, <3>2
  <2>5. ServerInv'
    BY <1>0, <2>1, <2>2 DEF ServerInv, newHome, newStart, newCount
  <2> QED BY <2>3, <2>4, <2>5 DEF WorkInv
<1>5. CASE CallMoves
  BY <1>5, WorkCalls
<1>6. CASE TableMoves
  <2>1. UNCHANGED <<nodes, frame, call, pc>>
    BY <1>6, TableMovesKeep
  <2>2. \A p \in Procs : WorkFrame(p)'
    BY <1>0, <2>1, WorkSame
  <2>3. \A t \in Threads : CallFrame(t)'
    BY <1>0, <2>1, CallFrameKeep
  <2> QED BY <1>0, <1>6, <2>2, <2>3, ServerMoves DEF WorkInv
<1>7. CASE UNCHANGED vars
  <2>1. UNCHANGED <<lock, nodes, frame, root, call, pc, rh>>
    BY <1>7 DEF vars, svars, tvars
  <2>2. \A p \in Procs : WorkFrame(p)'
    BY <1>0, <2>1, WorkSame
  <2>3. \A t \in Threads : CallFrame(t)'
    BY <1>0, <2>1, CallFrameKeep
  <2>4. ServerInv'
    BY <1>0, <2>1 DEF ServerInv, newHome, newStart, newCount
  <2> QED BY <2>2, <2>3, <2>4 DEF WorkInv
<1> QED BY <1>1, <1>2, <1>3, <1>4, <1>5, <1>6, <1>7, Kinds

LEMMA InitWork == Init => WorkInv
<1> SUFFICES ASSUME Init PROVE WorkInv
  OBVIOUS
<1>1. \A p \in Procs : frame[p].at = "out"
  BY DEF Init, OutFrame
<1>2. \A p \in Procs : WorkFrame(p)
  BY <1>1 DEF WorkFrame
<1>3. \A t \in Threads : CallFrame(t)
  BY DEF Init, CallFrame
<1>4. rh.at = "send" /\ Server \in Procs /\ root.start = 0
  BY TableAssumption DEF Init, InitArray, Idle
<1>5. \A l \in Lists : lock[l] # DELETED
  BY DEF Init, InitArray, UNLOCKED, RAW, DELETED
<1> QED BY <1>1, <1>2, <1>3, <1>4, <1>5 DEF WorkInv, ServerInv

\* A step of the table with its history is one of the table.
LEMMA LinNext == [LNext]_lvars => [Next]_vars
BY DEF LNext, lvars

LEMMA LinSpec == LSpec => Spec
<1>1. LInit => Init
  BY DEF LInit
<1> QED BY <1>1, LinNext, PTL DEF LSpec, Spec

\* What a process has learned on its way along a chain stays true until it
\* lets go of the set, what it is about to write is made of the node as it is,
\* and every set operation of a client is the one it was called for.
THEOREM WorkInvariant == Spec => []WorkInv
<1> QED BY InitWork, NextWork, TableInvariant, CountInvariant, PTL DEF Spec

-----------------------------------------------------------------------------
(* A key is in one place *)

\* The steps, by what they do to the chains.
LEMMA NodeKinds ==
  ASSUME TableInv, CountInv, [Next]_vars
  PROVE  \/ \E p \in Procs : Shape(p) /\ Writes(p) /\ UNCHANGED tvars
         \/ allocateSets
         \/ nodes' = nodes
<1>1. ASSUME NEW p \in Procs, Shape(p) PROVE Writes(p) \/ nodes' = nodes
  BY <1>1, ShapeNodes
<1>2. UNCHANGED vars => nodes' = nodes
  BY DEF vars, svars
<1> QED BY <1>1, <1>2, Kinds, ReaddKeep, ReadRootKeep, CallMovesKeep, TableMovesKeep

\* Without a hole, an insert that has reached its write has seen every node.
LEMMA InsertFresh ==
  ASSUME TableInv, NEW p \in Procs, Writes(p), WorkFrame(p), frame[p].op = "insert",
         ~HasHole(nodes[frame[p].list])
  PROVE  ~Has(nodes[frame[p].list], frame[p].key)
<1> DEFINE c == nodes[frame[p].list]
           n == frame[p].node
           k == frame[p].key
<1>1. frame[p].at = "write" /\ frame[p].at \in Inside
  BY DEF Writes, Inside
<1>2. c \in Seq(Node) /\ n \in 1..Len(c) /\ Len(c) \in Nat
  BY <1>1, InsideFacts
<1>3. (\A m \in 1..(n - 1) : Hits(c[m], k) = {}) /\ Hits(c[n], k) = {}
  BY <1>1 DEF WorkFrame
<1>4. n = Len(c) \/ Len(c[n]) # NODE_BUNDLE_SIZE
  BY <1>1 DEF WorkFrame
<1>5. n = Len(c)
  <2> SUFFICES ASSUME n # Len(c) PROVE FALSE
    OBVIOUS
  <2>1. c[n] \in Node
    BY <1>2
  <2>2. Len(c[n]) < NODE_BUNDLE_SIZE
    BY <1>4, <2>1, SetAssumption DEF Node
  <2>3. n \in 1..(Len(c) - 1)
    BY <1>2
  <2> QED BY <2>2, <2>3 DEF HasHole
<1>6. ASSUME NEW m \in 1..Len(c) PROVE Hits(c[m], k) = {}
  <2>1. m = n \/ m \in 1..(n - 1)
    <3> HIDE DEF c, n
    <3> QED BY <1>2, <1>5
  <2> HIDE DEF c, n, k
  <2> QED BY <1>3, <2>1
<1> QED BY <1>6 DEF Has

\* The two forms of OnceInv.
LEMMA OnceForm ==
  ASSUME SetTypes
  PROVE  OnceInv <=> (~holed => \A l \in Lists : ~HasHole(nodes[l]) /\ \A k \in Keys : Once(nodes[l], k))
<1>1. \A l \in Lists : nodes[l] \in Seq(Node)
  BY DEF SetTypes
<1>2. \A l \in Lists, k \in Keys : (\A s, u \in Places(nodes[l], k) : s = u) <=> Once(nodes[l], k)
  BY <1>1, OncePlaces
<1> QED BY <1>2 DEF OnceInv

LEMMA OnceFormNext ==
  ASSUME SetTypes'
  PROVE  OnceInv' <=> (~holed' => \A l \in Lists : ~HasHole(nodes'[l]) /\ \A k \in Keys : Once(nodes'[l], k))
<1>1. \A l \in Lists : nodes'[l] \in Seq(Node)
  BY DEF SetTypes
<1>2. \A l \in Lists, k \in Keys : (\A s, u \in Places(nodes'[l], k) : s = u) <=> Once(nodes'[l], k)
  BY <1>1, OncePlaces
<1> QED BY <1>2 DEF OnceInv

\* A new chain holds nothing.
LEMMA NewChain ==
  ASSUME NEW k
  PROVE  ~Has(<< <<>> >>, k) /\ Once(<< <<>> >>, k) /\ ~HasHole(<< <<>> >>) /\ ~Has(<<>>, k) /\ Once(<<>>, k) /\ ~HasHole(<<>>)
<1>1. ASSUME NEW n, NEW i PROVE ~At(<< <<>> >>, n, i, k) /\ ~At(<<>>, n, i, k)
  <2>1. n \in 1..1 => << <<>> >>[n] = <<>>
    OBVIOUS
  <2> QED BY <2>1 DEF At
<1> QED BY <1>1, HasAt DEF Once, HasHole

LEMMA NextOnce ==
  ASSUME TableInv, CountInv, WorkInv, OnceInv, LNext, TableInv'
  PROVE  OnceInv'
<1>1. SetTypes /\ SetTypes' /\ [Next]_vars
  BY DEF TableInv, LNext
<1>a. OnceInv' <=> (~holed' => \A l \in Lists : ~HasHole(nodes'[l]) /\ \A k \in Keys : Once(nodes'[l], k))
  BY <1>1, OnceFormNext
<1> SUFFICES ASSUME ~holed', NEW l \in Lists PROVE ~HasHole(nodes'[l]) /\ \A k \in Keys : Once(nodes'[l], k)
  BY <1>a
<1>2. ~holed /\ ~HasHole(nodes'[l])
  BY DEF LNext, History
<1>3. \A m \in Lists : ~HasHole(nodes[m]) /\ \A k \in Keys : Once(nodes[m], k)
  BY <1>1, <1>2, OnceForm
<1>4. CASE nodes' = nodes
  BY <1>3, <1>4
<1>5. CASE allocateSets
  <2>1. nodes'[l] = nodes[l] \/ nodes'[l] = << <<>> >>
    BY <1>5, AllocateKeep
  <2> QED BY <1>2, <1>3, <2>1, NewChain
<1>6. ASSUME NEW p \in Procs, Shape(p), Writes(p) PROVE \A k \in Keys : Once(nodes'[l], k)
  <2>0. WorkFrame(p)
    BY DEF WorkInv
  <2>1. CASE l = frame[p].list
    <3> SUFFICES ASSUME NEW k \in Keys PROVE Once(nodes'[l], k)
      OBVIOUS
    <3>1. Once(nodes[l], k)
      BY <1>3
    <3>2. CASE k # frame[p].key
      BY <1>6, <2>0, <2>1, <3>1, <3>2, WriteKeys
    <3>3. CASE k = frame[p].key /\ frame[p].op = "insert"
      <4>1. ~Has(nodes[l], k)
        BY <1>3, <1>6, <2>0, <2>1, <3>3, InsertFresh
      <4> QED BY <1>6, <2>0, <2>1, <3>3, <4>1, WriteKeys
    <3>4. CASE k = frame[p].key /\ frame[p].op = "remove"
      BY <1>6, <2>0, <2>1, <3>1, <3>4, WriteKeys
    <3>5. frame[p].op \in {"insert", "remove"}
      BY <1>6, <2>0, WriteKeys
    <3> QED BY <3>2, <3>3, <3>4, <3>5
  <2>2. CASE l # frame[p].list
    BY <1>3, <1>6, <2>2, ShapeNodes
  <2> QED BY <2>1, <2>2
<1> QED BY <1>1, <1>2, <1>4, <1>5, <1>6, NodeKinds

-----------------------------------------------------------------------------
(* A key is in the set it hashes to *)

LEMMA HashIn ==
  ASSUME NEW k \in Keys, NEW count \in Nat \ {0}
  PROVE  keyhash(k, count) \in 0..(count - 1)
<1>1. k \in Nat
  BY SetAssumption
<1> QED BY <1>1 DEF keyhash

\* Where the key belongs in the array of the root, in the array a rehash
\* leaves and in its new one.
LEMMA Homes ==
  ASSUME TableInv, NEW k \in Keys
  PROVE  /\ Newest \in Nat /\ root.start \in Nat /\ SizeAt(Newest) \in Nat \ {0}
         /\ rh.at # "publish" => Newest = root.start /\ root.count = SizeAt(root.start)
         /\ rh.at # "publish" => ListOf(k) = indexAt(Newest, keyhash(k, SizeAt(Newest)))
         /\ root.count = SizeAt(root.start) => ListOf(k) \in Lists /\ lock[ListOf(k)] # RAW
         /\ rh.at \in {"publish", "foreach", "readd", "melt"} =>
               /\ Newest = newStart /\ SizeAt(newStart) = newCount
               /\ newHome(k) = indexAt(Newest, keyhash(k, SizeAt(Newest)))
               /\ newHome(k) \in Lists /\ newHome(k) >= newStart
               /\ oldHome(k) \in Lists /\ oldHome(k) < newStart /\ oldHome(k) >= rh.old.start
               /\ \E i \in 0..(rh.old.count - 1) : oldHome(k) = oldList(i)
<1>1. /\ root.start \in Nat /\ root.count \in Nat \ {0} /\ INITIAL_SIZE \in Nat \ {0}
      /\ rh.old.count \in Nat /\ rh.old.start \in Nat /\ rh \in Locals
  BY RehashFacts
<1>2. ASSUME root.count = SizeAt(root.start) PROVE ListOf(k) \in Lists /\ lock[ListOf(k)] # RAW
  <2>1. keyhash(k, root.count) \in 0..(root.count - 1)
    BY <1>1, HashIn
  <2>2. ListOf(k) \in ArrayAt(root.start)
    BY <1>1, <1>2, <2>1 DEF ListOf, indexAt, ArrayAt
  <2> QED BY <2>2 DEF TableInv, ArrayInv, Exists
<1>3. CASE rh.at \in {"publish", "foreach", "readd", "melt"}
  <2>1. /\ newStart \in Nat /\ newCount \in Nat \ {0} /\ newCount = SizeAt(newStart)
        /\ newStart = rh.old.start + rh.old.count
    BY <1>3, NewArray
  <2>2. rh.old.count = SizeAt(rh.old.start) /\ rh.old.count \in Nat \ {0}
    <3>1. rh.old.count = SizeAt(rh.old.start)
      BY <1>3 DEF TableInv, RehashInv
    <3> QED BY <1>1, <3>1 DEF SizeAt
  <2>3. keyhash(k, newCount) \in 0..(newCount - 1) /\ keyhash(k, rh.old.count) \in 0..(rh.old.count - 1)
    BY <2>1, <2>2, HashIn
  <2>4. newHome(k) \in ArrayAt(newStart) /\ newHome(k) >= newStart
    BY <2>1, <2>3 DEF newHome, indexAt, ArrayAt
  <2>5. oldHome(k) \in ArrayAt(rh.old.start) /\ oldHome(k) < newStart /\ oldHome(k) >= rh.old.start
    BY <1>1, <2>1, <2>2, <2>3 DEF oldHome, indexAt, ArrayAt
  <2>6. newHome(k) \in Lists /\ oldHome(k) \in Lists
    BY <1>3, <2>4, <2>5 DEF TableInv, RehashInv, Exists
  <2>7. oldHome(k) = oldList(keyhash(k, rh.old.count))
    BY DEF oldHome, oldList
  <2>8. Newest = newStart
    BY <1>3 DEF Newest
  <2>9. newHome(k) = indexAt(Newest, keyhash(k, SizeAt(Newest)))
    BY <2>1, <2>8 DEF newHome
  <2>10. rh.at # "publish" => root.count = newCount /\ root.start = newStart
    BY <1>3 DEF TableInv, RehashInv
  <2>11. rh.at # "publish" => ListOf(k) = indexAt(Newest, keyhash(k, SizeAt(Newest)))
    BY <2>1, <2>8, <2>10 DEF ListOf
  <2> QED BY <1>1, <1>2, <1>3, <2>1, <2>3, <2>4, <2>5, <2>6, <2>7, <2>8, <2>9, <2>10, <2>11
<1>4. CASE rh.at \notin {"publish", "foreach", "readd", "melt"}
  <2>1. rh.at \in {"send", "idle", "sum", "freeze", "allocate"}
    BY <1>1, <1>4 DEF Locals
  <2>2. Newest = root.start /\ root.count = SizeAt(root.start)
    BY <1>4, <2>1 DEF Newest, TableInv, RehashInv
  <2>3. ListOf(k) = indexAt(Newest, keyhash(k, SizeAt(Newest)))
    BY <2>2 DEF ListOf
  <2> QED BY <1>1, <1>2, <1>4, <2>2, <2>3
<1> QED BY <1>3, <1>4

\* A set that is free or held by a process is one of the newest array.
LEMMA UsedIsNewest ==
  ASSUME TableInv, NEW l \in Lists, lock[l] \notin {RAW, DELETED}, l \notin Frozen
  PROVE  l >= Newest /\ l \in Nat
<1>1. l \in Nat /\ root.start \in Nat /\ rh.old.start \in Nat /\ rh.old.count \in Nat
  BY RehashFacts, SetAssumption
<1>2. ~(l < root.start)
  BY DEF TableInv, ArrayInv
<1>3. CASE rh.at \notin {"publish", "foreach", "readd", "melt"}
  BY <1>1, <1>2, <1>3 DEF Newest
<1>4. CASE rh.at \in {"publish", "foreach", "readd", "melt"}
  <2>1. Newest = newStart /\ newStart = rh.old.start + rh.old.count
    BY <1>4 DEF Newest, newStart
  <2>2. CASE root.start = newStart
    BY <1>1, <1>2, <2>1, <2>2
  <2>3. CASE root.start # newStart
    <3>1. rh.at = "publish" /\ root.start = rh.old.start
      BY <1>4, <2>3 DEF TableInv, RehashInv
    <3>2. Frozen = rh.old.start..(rh.old.start + rh.old.count - 1)
      BY <3>1, FrozenNow DEF TableInv
    <3> QED BY <1>1, <1>2, <2>1, <3>1, <3>2
  <2> QED BY <2>2, <2>3
<1> QED BY <1>3, <1>4

LEMMA InsideNewest ==
  ASSUME TableInv, NEW p \in Procs, frame[p].at \in Inside
  PROVE  frame[p].list \in Lists /\ frame[p].list >= Newest /\ frame[p].list \in Nat
<1>1. frame[p].list \in Lists /\ lock[frame[p].list] = LOCKED /\ frame[p].list \notin Frozen
  BY InsideFacts
<1>2. LOCKED \notin {RAW, DELETED}
  BY DEF LOCKED, RAW, DELETED
<1> QED BY <1>1, <1>2, UsedIsNewest

\* An operation that stays in its set, while the newest array stays the same.
LEMMA PlaceKeep ==
  ASSUME NEW p, PlaceFrame(p), frame'[p].at # "out" => frame[p].at # "out",
         frame'[p].at # "out" => frame'[p].list = frame[p].list /\ frame'[p].key = frame[p].key,
         Newest' = Newest, rh'.at = "publish" => rh.at = "publish" /\ newStart' = newStart
  PROVE  PlaceFrame(p)'
BY DEF PlaceFrame, Right, SizeAt, indexAt, keyhash

LEMMA NewestMoves ==
  ASSUME TableInv, ServerInv, TableMoves
  PROVE  Newest' = Newest /\ (rh'.at = "publish" => rh.at = "publish" /\ newStart' = newStart)
<1>1. CASE EarlyMove
  BY <1>1 DEF EarlyMove, Early, Newest
<1>2. CASE PublishMove
  BY <1>2 DEF PublishMove, Newest, newStart
<1>3. CASE ForeachMove
  BY <1>3 DEF ForeachMove, Newest, newStart
<1>4. CASE MeltMove
  <2>1. root.start = newStart
    BY <1>4 DEF MeltMove, TableInv, RehashInv
  <2> QED BY <1>4, <2>1 DEF MeltMove, Newest, newStart
<1> QED BY <1>1, <1>2, <1>3, <1>4, MoveKinds

\* The place of a key in the array that begins at start is the right one.
LEMMA HomeIsRight ==
  ASSUME NEW start \in Lists, NEW k \in Keys
  PROVE  Right(indexAt(start, keyhash(k, SizeAt(start))), k)
<1>1. start \in Nat /\ SizeAt(start) \in Nat \ {0}
  BY SetAssumption, TableAssumption DEF SizeAt
<1>2. keyhash(k, SizeAt(start)) \in 0..(SizeAt(start) - 1)
  BY <1>1, HashIn
<1>3. indexAt(start, keyhash(k, SizeAt(start))) \in start..(start + SizeAt(start) - 1)
  BY <1>1, <1>2 DEF indexAt
<1> QED BY <1>3 DEF Right

\* A client that reads the root in one piece.
LEMMA PlaceRead ==
  ASSUME TableInv, ServerInv, NEW t \in Threads, readRoot(t), root.count = SizeAt(root.start)
  PROVE  PlaceFrame(t)'
<1>1. /\ UNCHANGED <<root, rh>> /\ pc[t] = "start" /\ frame[t].at = "out"
      /\ \/ /\ frame'[t].at = "acquire" /\ frame'[t].key = call[t].key
            /\ frame'[t].list = indexAt(root.start, keyhash(call[t].key, root.count))
         \/ frame' = frame
  BY ReadRootShape, ReadRootKeep
<1>2. call[t].key \in Keys
  BY <1>1 DEF TableInv, CallInv
<1>3. root.start \in Lists /\ root.start \in Nat /\ root.count \in Nat \ {0} /\ rh.old.count \in Nat /\ rh.old.start \in Nat
  BY RehashFacts
<1>4. CASE frame' = frame
  BY <1>1, <1>4 DEF PlaceFrame
<1>5. CASE /\ frame'[t].key = call[t].key
           /\ frame'[t].list = indexAt(root.start, keyhash(call[t].key, root.count))
  <2>1. Right(frame'[t].list, frame'[t].key)
    BY <1>2, <1>3, <1>5, HomeIsRight
  <2>2. Newest' = Newest /\ newStart' = newStart
    BY <1>1 DEF Newest, newStart
  <2>3. CASE rh.at # "publish"
    <3>1. Newest = root.start
      BY <1>2, <2>3, Homes
    <3> QED BY <1>1, <1>5, <2>1, <2>2, <2>3, <3>1 DEF PlaceFrame, Right, SizeAt, indexAt, keyhash
  <2>4. CASE rh.at = "publish"
    <3>1. /\ root.count \in {rh.old.count, newCount} /\ root.start \in {rh.old.start, newStart}
          /\ rh.old.count = SizeAt(rh.old.start)
      BY <2>4 DEF TableInv, RehashInv
    <3>2. newStart = rh.old.start + rh.old.count /\ newCount = SizeAt(newStart) /\ newCount = rh.old.count * 2
      BY <2>4, NewArray DEF newCount
    <3>3. root # [count |-> newCount, start |-> newStart]
      BY <2>4 DEF ServerInv
    <3>4. root = [count |-> root.count, start |-> root.start]
      BY RehashFacts
    <3>5. root.start = rh.old.start /\ root.count = rh.old.count
      BY <1>3, <3>1, <3>2, <3>3, <3>4, TableAssumption DEF SizeAt
    <3>6. keyhash(call[t].key, root.count) \in 0..(root.count - 1)
      BY <1>2, <1>3, HashIn
    <3>7. frame'[t].list < newStart
      BY <1>3, <1>5, <3>2, <3>5, <3>6 DEF indexAt
    <3>8. Newest = newStart
      BY <2>4 DEF Newest
    <3>9. frame'[t].list \in Nat /\ newStart \in Nat
      BY <1>3, <1>5, <3>2, <3>6 DEF indexAt
    <3>10. ~(frame'[t].list >= Newest')
      BY <2>2, <3>7, <3>8, <3>9
    <3> QED BY <1>1, <2>1, <2>2, <3>7, <3>10 DEF PlaceFrame, Right, SizeAt, indexAt, keyhash
  <2> QED BY <2>3, <2>4
<1> QED BY <1>1, <1>4, <1>5

LEMMA NextPlaceFrames ==
  ASSUME TableInv, CountInv, WorkInv, PlaceInv, LNext, ~torn', NEW p \in Procs
  PROVE  PlaceFrame(p)'
<1>0. ServerInv /\ [Next]_vars
  BY DEF WorkInv, LNext
<1>1. ~torn
  BY DEF LNext, History
<1>2. \A q \in Procs : PlaceFrame(q)
  BY <1>1 DEF PlaceInv
<1>3. ASSUME NEW q \in Procs, Shape(q), UNCHANGED tvars PROVE PlaceFrame(p)'
  <2>1. UNCHANGED <<root, rh>>
    BY <1>3, SameTable
  <2>2. Newest' = Newest /\ newStart' = newStart
    BY <2>1 DEF Newest, newStart
  <2>3. frame'[q].at = "out" \/ SameOp(q)
    BY <1>3 DEF Shape, Acquires, MeetsDeleted, Passes, Reports, Decides, Writes, Counts, Unlocks, OutFrame
  <2>4. frame[q].at # "out"
    BY <1>3, ShapeNodes
  <2>5. p # q => frame'[p] = frame[p]
    BY <1>3 DEF Shape
  <2> QED BY <1>2, <2>1, <2>2, <2>3, <2>4, <2>5, PlaceKeep DEF SameOp
<1>4. CASE allocateSets
  <2>1. frame' = frame /\ rh \in Locals /\ rh' = [rh EXCEPT !.at = "publish"] /\ newStart \in Nat
    BY <1>4, AllocateKeep, RehashFacts
  <2>2. rh'.at = "publish" /\ rh'.old = rh.old
    BY <2>1 DEF Locals
  <2>3. newStart' = newStart /\ Newest' = newStart
    BY <2>2 DEF newStart, Newest
  <2>4. frame[p].at # "out" => frame[p].list \in Lists /\ lock[frame[p].list] # RAW
    BY DEF TableInv, SetTypes, Frames, FrameInv
  <2>5. frame[p].at # "out" => frame[p].list < newStart /\ frame[p].list \in Nat
    BY <1>4, <2>4, AllocateKeep, SetAssumption
  <2>6. frame[p].at # "out" => ~(frame[p].list >= newStart)
    BY <2>1, <2>5
  <2> QED BY <1>2, <2>1, <2>2, <2>3, <2>5, <2>6 DEF PlaceFrame, Right, SizeAt, indexAt, keyhash
<1>5. CASE readd
  <2>1. rh.at = "readd" /\ frame[Server].at = "out" /\ UNCHANGED root /\ rh \in Locals /\ Server \in Procs
    BY <1>5, ReaddKeep, RehashFacts, TableAssumption DEF readd, rhAt
  <2>2. rh'.at \in {"readd", "foreach"} /\ rh'.old = rh.old
    BY <1>5, <2>1 DEF readd, Locals
  <2>3. Newest' = Newest /\ newStart' = newStart
    BY <2>1, <2>2 DEF Newest, newStart
  <2>4. CASE frame' = frame
    BY <1>2, <2>2, <2>3, <2>4, PlaceKeep
  <2>5. CASE rh.todo # <<>> /\ Enter(Server, "insert", newHome(Head(rh.todo).key), Head(rh.todo).key, Head(rh.todo).val)
    <3>1. CASE p # Server
      <4>1. frame'[p] = frame[p]
        BY <2>1, <2>5, <3>1, EnterShape
      <4> QED BY <1>2, <2>2, <2>3, <4>1, PlaceKeep
    <3>2. CASE p = Server
      <4> DEFINE k == Head(rh.todo).key
      <4>1. k \in Keys
        <5>1. rh.todo \in Seq(Pair)
          BY RehashFacts
        <5>2. Head(rh.todo) \in Pair
          BY <2>5, <5>1
        <5> QED BY <5>2 DEF Pair
      <4>2. frame'[p].list = newHome(k) /\ frame'[p].key = k
        BY <2>1, <2>5, <3>2, EnterShape
      <4>3. newHome(k) = indexAt(Newest, keyhash(k, SizeAt(Newest))) /\ Newest = newStart /\ newStart = root.start
        BY <2>1, <4>1, Homes DEF TableInv, RehashInv
      <4>4. Right(newHome(k), k)
        <5>1. root.start \in Lists
          BY RehashFacts
        <5> QED BY <4>1, <4>3, <5>1, HomeIsRight
      <4> HIDE DEF k
      <4> QED BY <2>2, <2>3, <4>2, <4>3, <4>4 DEF PlaceFrame, Right, SizeAt, indexAt, keyhash
    <3> QED BY <3>1, <3>2
  <2> QED BY <1>5, <2>4, <2>5 DEF readd, newHome
<1>6. ASSUME NEW t \in Threads, readRoot(t) PROVE PlaceFrame(p)'
  <2>1. /\ UNCHANGED <<root, rh>> /\ pc[t] = "start" /\ pc'[t] # "start"
        /\ \A q \in Procs \ {t} : frame'[q] = frame[q]
    BY <1>6, ReadRootShape, ReadRootKeep
  <2>2. root.count = SizeAt(root.start)
    <3>1. Reads(t)
      BY <2>1 DEF Reads
    <3> QED BY <3>1 DEF LNext, History
  <2>3. CASE p = t
    BY <1>0, <1>6, <2>2, <2>3, PlaceRead
  <2>4. CASE p # t
    <3>1. Newest' = Newest /\ newStart' = newStart
      BY <2>1 DEF Newest, newStart
    <3> QED BY <1>2, <2>1, <2>4, <3>1, PlaceKeep
  <2> QED BY <2>3, <2>4
<1>7. CASE CallMoves \/ UNCHANGED vars
  <2>1. UNCHANGED <<root, rh, frame>>
    BY <1>7, CallMovesKeep DEF vars, svars, tvars
  <2>2. Newest' = Newest /\ newStart' = newStart
    BY <2>1 DEF Newest, newStart
  <2> QED BY <1>2, <2>1, <2>2, PlaceKeep
<1>8. CASE TableMoves
  <2>1. frame' = frame
    BY <1>8, TableMovesKeep
  <2> QED BY <1>0, <1>2, <1>8, <2>1, NewestMoves, PlaceKeep
<1> QED BY <1>0, <1>3, <1>4, <1>5, <1>6, <1>7, <1>8, Kinds

LEMMA NextPlace ==
  ASSUME TableInv, CountInv, WorkInv, PlaceInv, LNext, TableInv'
  PROVE  PlaceInv'
<1>0. [Next]_vars
  BY DEF LNext
<1>1. ASSUME NEW l \in Lists, NEW k \in Keys
      PROVE  (Places(nodes[l], k) # {} <=> Has(nodes[l], k)) /\ (Places(nodes'[l], k) # {} <=> Has(nodes'[l], k))
  <2>1. nodes[l] \in Seq(Node) /\ nodes'[l] \in Seq(Node)
    BY DEF TableInv, SetTypes
  <2> QED BY <2>1, PlacesAt
<1>2. ASSUME ~torn', NEW l \in Lists, NEW k \in Keys, Has(nodes'[l], k) PROVE Right(l, k)
  <2>1. ~torn
    BY <1>2 DEF LNext, History
  <2>2. Has(nodes[l], k) => Right(l, k)
    BY <1>1, <2>1 DEF PlaceInv
  <2>3. CASE nodes' = nodes
    BY <1>2, <2>2, <2>3
  <2>4. CASE allocateSets
    <3>1. nodes'[l] = nodes[l] \/ nodes'[l] = << <<>> >>
      BY <2>4, AllocateKeep
    <3> QED BY <1>2, <2>2, <3>1, NewChain
  <2>5. ASSUME NEW p \in Procs, Shape(p), Writes(p) PROVE Right(l, k)
    <3>0. WorkFrame(p)
      BY DEF WorkInv
    <3>1. CASE l # frame[p].list
      BY <1>2, <2>2, <2>5, <3>1, ShapeNodes
    <3>2. CASE l = frame[p].list /\ k # frame[p].key
      BY <1>2, <2>2, <2>5, <3>0, <3>2, WriteKeys
    <3>3. CASE l = frame[p].list /\ k = frame[p].key
      <4>1. frame[p].at # "out"
        BY <2>5, ShapeNodes
      <4> QED BY <2>1, <3>3, <4>1 DEF PlaceInv, PlaceFrame
    <3> QED BY <3>1, <3>2, <3>3
  <2> QED BY <1>0, <2>3, <2>4, <2>5, NodeKinds
<1>3. ASSUME ~torn' PROVE \A l \in Lists, k \in Keys : Places(nodes'[l], k) # {} => Right(l, k)
  BY <1>1, <1>2, <1>3
<1>4. ASSUME ~torn' PROVE \A p \in Procs : PlaceFrame(p)'
  BY <1>4, NextPlaceFrames
<1>5. \A l, k : Right(l, k)' <=> Right(l, k)
  BY DEF Right, SizeAt, indexAt, keyhash
<1> QED BY <1>3, <1>4, <1>5 DEF PlaceInv

-----------------------------------------------------------------------------
(* A rehash keeps the keys *)

\* What is known of key k while the old array is copied.
MovedTo(k, i) == Has(nodes[oldList(i)], k) => Moved(k)
Pending(k) ==
    \/ Moved(k) \/ Hits(rh.todo, k) # {}
    \/ frame[Server].at \in {"acquire", "walk", "write"} /\ frame[Server].key = k
Passed(k, n) == n <= Len(nodes[oldList(rh.i)]) /\ Hits(nodes[oldList(rh.i)][n], k) # {} => Pending(k)
MoveKey(k) ==
    /\ \A i \in 0..(rh.old.count - 1) : (rh.at = "melt" \/ i < rh.i) => MovedTo(k, i)
    /\ rh.at # "melt" => \A n \in 1..(rh.node - 1) : Passed(k, n)

LEMMA MoveForm == MoveInv <=> (rh.at \in {"foreach", "readd", "melt"} => \A k \in Keys : MoveKey(k))
BY DEF MoveInv, MoveKey, MovedTo, Passed, Pending
LEMMA MoveFormNext == MoveInv' <=> (rh'.at \in {"foreach", "readd", "melt"} => \A k \in Keys : MoveKey(k)')
BY DEF MoveInv, MoveKey, MovedTo, Passed, Pending

\* Only when a rehash has frozen the old array the record of removed keys starts anew.
LEMMA DroppedGrows ==
  ASSUME LNext, rh'.at # "allocate"
  PROVE  /\ dropped \subseteq dropped'
         /\ \A t \in Threads : Writes(t) /\ frame[t].op = "remove" => frame[t].key \in dropped'
BY DEF LNext, History, Writes

\* What was moved stays, unless a client removes it.
LEMMA MovedStays ==
  ASSUME TableInv, WorkInv, LNext, NEW p \in Procs, Shape(p), UNCHANGED tvars,
         rh.at \in {"foreach", "readd", "melt"}, NEW k \in Keys, Moved(k)
  PROVE  Moved(k)'
<1>1. UNCHANGED <<root, rh>>
  BY SameTable
<1>2. newHome(k)' = newHome(k)
  BY <1>1 DEF newHome, newStart, newCount
<1>3. dropped \subseteq dropped' /\ \A t \in Threads : Writes(t) /\ frame[t].op = "remove" => frame[t].key \in dropped'
  BY <1>1, DroppedGrows
<1>4. newHome(k) \in Lists
  BY Homes
<1>5. CASE k \in dropped
  BY <1>3, <1>5 DEF Moved
<1>6. CASE Has(nodes[newHome(k)], k)
  <2>1. CASE Writes(p) /\ newHome(k) = frame[p].list
    <3>0. WorkFrame(p)
      BY DEF WorkInv
    <3>1. CASE k # frame[p].key \/ frame[p].op = "insert"
      BY <1>2, <1>6, <2>1, <3>0, <3>1, WriteKeys DEF Moved
    <3>2. CASE k = frame[p].key /\ frame[p].op # "insert"
      <4>1. frame[p].op = "remove"
        BY <2>1, <3>0, <3>2, WriteKeys
      <4>2. p # Server
        BY <3>2, ShapeNodes DEF WorkInv, ServerInv
      <4>3. p \in Threads
        BY <4>2, TableAssumption
      <4> QED BY <1>3, <2>1, <3>2, <4>1, <4>3 DEF Moved
    <3> QED BY <3>1, <3>2
  <2>2. CASE ~(Writes(p) /\ newHome(k) = frame[p].list)
    <3>1. nodes'[newHome(k)] = nodes[newHome(k)]
      BY <1>4, <2>2, ShapeNodes
    <3> QED BY <1>2, <1>6, <3>1 DEF Moved
  <2> QED BY <2>1, <2>2
<1> QED BY <1>5, <1>6 DEF Moved

\* Nobody writes to the old array while it is copied.
LEMMA OldStays ==
  ASSUME TableInv, NEW p \in Procs, Shape(p), rh.at \in {"publish", "foreach", "readd", "melt"},
         NEW l \in Lists, l < newStart
  PROVE  nodes'[l] = nodes[l]
<1>1. CASE Writes(p)
  <2>1. frame[p].at \in Inside
    BY <1>1 DEF Writes, Inside
  <2>2. frame[p].list >= Newest /\ frame[p].list \in Nat /\ Newest = newStart
    BY <2>1, InsideNewest DEF Newest
  <2>3. newStart \in Nat /\ l \in Nat
    BY NewArray, SetAssumption
  <2>4. l # frame[p].list
    BY <2>2, <2>3
  <2> QED BY <2>4, ShapeNodes
<1>2. CASE ~Writes(p)
  BY <1>2, ShapeNodes
<1> QED BY <1>1, <1>2

LEMMA OldListIn ==
  ASSUME TableInv, rh.at \in {"publish", "foreach", "readd", "melt"}, NEW i \in 0..(rh.old.count - 1)
  PROVE  oldList(i) \in Lists /\ oldList(i) < newStart
<1>1. rh.old.start \in Nat /\ rh.old.count \in Nat
  BY RehashFacts
<1>2. rh.old.count = SizeAt(rh.old.start) /\ Exists(rh.old.start)
  BY DEF TableInv, RehashInv
<1>3. oldList(i) \in ArrayAt(rh.old.start)
  BY <1>1, <1>2 DEF oldList, indexAt, ArrayAt
<1> QED BY <1>1, <1>2, <1>3 DEF Exists, newStart, oldList, indexAt

\* A step inside a set: the server's frame goes on until the key is moved.
LEMMA MoveShape ==
  ASSUME TableInv, WorkInv, LNext, NEW p \in Procs, Shape(p), UNCHANGED tvars,
         rh.at \in {"foreach", "readd", "melt"}, NEW k \in Keys, MoveKey(k)
  PROVE  MoveKey(k)'
<1>1. UNCHANGED <<root, rh>>
  BY SameTable
<1>2. \A i : oldList(i)' = oldList(i)
  BY <1>1 DEF oldList
<1>3. \A i \in 0..(rh.old.count - 1) : nodes'[oldList(i)] = nodes[oldList(i)]
  BY OldListIn, OldStays
<1>4. Moved(k) => Moved(k)'
  BY MovedStays
<1>5. rh.i \in 0..(rh.old.count - 1)
  <2>1. rh.i \in Nat /\ rh.old.count \in Nat
    BY RehashFacts
  <2>2. rh.i < rh.old.count
    BY OldListExists
  <2> QED BY <2>1, <2>2
<1>6. Pending(k) => Pending(k)'
  <2>1. CASE Moved(k) \/ Hits(rh.todo, k) # {}
    BY <1>1, <1>4, <2>1 DEF Pending
  <2>2. CASE frame[Server].at \in {"acquire", "walk", "write"} /\ frame[Server].key = k
    <3>0. Server \in Procs /\ WorkFrame(Server)
      BY TableAssumption DEF WorkInv
    <3>1. CASE p # Server
      BY <2>2, <3>0, <3>1 DEF Shape, Pending
    <3>2. CASE p = Server
      <4>1. frame[p].op = "insert" /\ frame[p].list = newHome(k)
        BY <2>2, <3>2 DEF WorkInv, ServerInv
      <4>2. newHome(k)' = newHome(k) /\ newHome(k) \in Lists /\ newHome(k) >= newStart
        BY <1>1, Homes DEF newHome, newStart, newCount
      <4>3. CASE Acquires(p) \/ Passes(p) \/ Decides(p)
        BY <2>2, <3>2, <4>3 DEF Acquires, Passes, Decides, SameOp, Pending
      <4>4. CASE MeetsDeleted(p)
        <5>1. lock[newHome(k)] = DELETED
          BY <4>1, <4>4 DEF MeetsDeleted
        <5>2. newHome(k) < root.start /\ root.start = newStart
          BY <4>2, <5>1 DEF WorkInv, ServerInv, TableInv, RehashInv
        <5>3. newStart \in Nat /\ newHome(k) \in Nat
          BY <4>2, NewArray, SetAssumption
        <5> QED BY <4>2, <5>2, <5>3
      <4>5. CASE Reports(p)
        <5>1. Has(nodes[newHome(k)], k)
          <6>1. Hits(nodes[newHome(k)][frame[p].node], k) # {}
            BY <2>2, <3>2, <4>1, <4>5 DEF Reports, Found, Node_
          <6>2. frame[p].node \in 1..Len(nodes[newHome(k)])
            BY <4>1, <4>5, InsideFacts DEF Reports, Inside
          <6> QED BY <6>1, <6>2 DEF Has
        <5> QED BY <1>4, <5>1 DEF Moved, Pending
      <4>6. CASE Writes(p)
        <5>1. Has(nodes'[newHome(k)], k)
          BY <2>2, <3>0, <3>2, <4>1, <4>6, WriteKeys
        <5> QED BY <4>2, <5>1 DEF Moved, Pending
      <4>7. CASE Counts(p) \/ Unlocks(p)
        BY <2>2, <3>2, <4>7 DEF Counts, Unlocks
      <4> QED BY <4>3, <4>4, <4>5, <4>6, <4>7 DEF Shape
    <3> QED BY <3>1, <3>2
  <2> QED BY <2>1, <2>2 DEF Pending
<1>7. ASSUME NEW i \in 0..(rh.old.count - 1), MovedTo(k, i) PROVE MovedTo(k, i)'
  BY <1>2, <1>3, <1>4, <1>7 DEF MovedTo
<1>8. ASSUME NEW n, Passed(k, n) PROVE Passed(k, n)'
  BY <1>1, <1>2, <1>3, <1>5, <1>6, <1>8 DEF Passed
<1> QED BY <1>1, <1>7, <1>8 DEF MoveKey

\* The steps that leave the chains and the server's locals alone.
LEMMA MoveSame ==
  ASSUME UNCHANGED <<nodes, rh>>, frame'[Server] = frame[Server], dropped \subseteq dropped', NEW k, MoveKey(k)
  PROVE  MoveKey(k)'
<1>1. Moved(k) => Moved(k)'
  BY DEF Moved, newHome, newStart, newCount, indexAt, keyhash
<1>2. Pending(k) => Pending(k)'
  BY <1>1 DEF Pending
<1> QED BY <1>1, <1>2 DEF MoveKey, MovedTo, Passed, oldList

\* The steps of the rehash itself.
LEMMA MoveForeach ==
  ASSUME TableInv, ServerInv, ForeachMove, UNCHANGED <<nodes, frame>>, dropped \subseteq dropped',
         NEW k \in Keys, MoveKey(k)
  PROVE  MoveKey(k)'
<1> DEFINE c == nodes[oldList(rh.i)]
<1>1. rh.at = "foreach" /\ rh'.old = rh.old /\ rh.todo = <<>> /\ frame[Server].at = "out"
  BY DEF ForeachMove, ServerInv
<1>2. /\ newHome(k)' = newHome(k) /\ \A i : oldList(i)' = oldList(i)
  BY <1>1 DEF newHome, newStart, newCount, oldList
<1>3. Moved(k) => Moved(k)'
  BY <1>2 DEF Moved
<1>4. Pending(k) => Moved(k)
  <2>1. Hits(<<>>, k) = {}
    BY DEF Hits
  <2> QED BY <1>1, <2>1 DEF Pending
<1>5. rh.node \in Nat \ {0} /\ rh.i \in Nat /\ rh.old.count \in Nat /\ rh.i < rh.old.count
  BY <1>1, RehashFacts, OldListExists
<1>6. c \in Seq(Node) /\ Len(c) \in Nat
  BY <1>1, OldListExists DEF TableInv, SetTypes
<1>7. \A i \in 0..(rh.old.count - 1) : i < rh.i => MovedTo(k, i)'
  BY <1>1, <1>2, <1>3 DEF MoveKey, MovedTo
<1>8. \A n \in 1..(rh.node - 1) : n <= Len(c) /\ Hits(c[n], k) # {} => Moved(k)
  BY <1>1, <1>4 DEF MoveKey, Passed
<1>9. CASE /\ rh.node <= Len(c) /\ rh'.at = "readd" /\ rh'.i = rh.i
           /\ rh'.todo = c[rh.node] /\ rh'.node = rh.node + 1
  <2>0. nodes'[oldList(rh.i)'] = c
    BY <1>2, <1>9
  <2>1. ASSUME NEW n \in 1..(rh'.node - 1) PROVE Passed(k, n)'
    <3>1. n \in 1..(rh.node - 1) \/ n = rh.node
      BY <1>5, <1>9
    <3>2. n <= Len(c) /\ Hits(c[n], k) # {} => Pending(k)'
      <4>1. CASE n = rh.node
        BY <1>9, <4>1 DEF Pending
      <4>2. CASE n \in 1..(rh.node - 1)
        BY <1>3, <1>8, <4>2 DEF Pending
      <4> QED BY <3>1, <4>1, <4>2
    <3> HIDE DEF c
    <3> QED BY <2>0, <3>2 DEF Passed
  <2>2. ASSUME NEW i \in 0..(rh.old.count - 1), i < rh'.i PROVE MovedTo(k, i)'
    BY <1>7, <1>9, <2>2
  <2>3. rh'.at # "melt" /\ rh'.old.count = rh.old.count
    BY <1>1, <1>9
  <2> QED BY <2>1, <2>2, <2>3 DEF MoveKey
<1>10. ASSUME rh.node > Len(c), NEW i, i = rh.i PROVE MovedTo(k, i)'
  <2>1. ASSUME Has(c, k) PROVE Moved(k)
    <3>1. PICK n \in 1..Len(c) : Hits(c[n], k) # {}
      BY <2>1 DEF Has
    <3>2. n \in 1..(rh.node - 1) /\ n <= Len(c)
      BY <1>5, <1>6, <1>10
    <3> QED BY <1>8, <3>1, <3>2
  <2> QED BY <1>2, <1>3, <1>10, <2>1 DEF MovedTo
<1>11. CASE rh.node > Len(c) /\ rh'.at = "melt" /\ rh.i + 1 = rh.old.count
  <2>1. ASSUME NEW i \in 0..(rh.old.count - 1) PROVE MovedTo(k, i)'
    <3>1. i < rh.i \/ i = rh.i
      BY <1>5, <1>11
    <3> QED BY <1>7, <1>10, <1>11, <3>1
  <2> QED BY <1>1, <1>11, <2>1 DEF MoveKey
<1>12. CASE rh.node > Len(c) /\ rh'.at = "foreach" /\ rh'.i = rh.i + 1 /\ rh'.node = 1
  <2>1. ASSUME NEW i \in 0..(rh.old.count - 1), i < rh'.i PROVE MovedTo(k, i)'
    <3>1. i < rh.i \/ i = rh.i
      BY <1>5, <1>12, <2>1
    <3> QED BY <1>7, <1>10, <1>12, <3>1
  <2>2. 1..(rh'.node - 1) = {}
    BY <1>12
  <2> QED BY <1>1, <1>12, <2>1, <2>2 DEF MoveKey
<1> QED BY <1>9, <1>11, <1>12 DEF ForeachMove

LEMMA MoveReadd ==
  ASSUME TableInv, readd, dropped \subseteq dropped', NEW k \in Keys, MoveKey(k)
  PROVE  MoveKey(k)'
<1>1. /\ rh.at = "readd" /\ frame[Server].at = "out" /\ nodes' = nodes /\ rh \in Locals /\ Server \in Procs
      /\ rh.todo \in Seq(Pair)
  BY ReaddKeep, RehashFacts, TableAssumption DEF readd, rhAt
<1>2. rh'.at \in {"readd", "foreach"} /\ rh'.old = rh.old /\ rh'.i = rh.i /\ rh'.node = rh.node
  BY <1>1 DEF readd, Locals
<1>3. /\ newHome(k)' = newHome(k) /\ \A i : oldList(i)' = oldList(i)
  BY <1>2 DEF newHome, newStart, newCount, oldList
<1>4. Moved(k) => Moved(k)'
  BY <1>1, <1>3 DEF Moved
<1>5. Hits(rh.todo, k) # {} => Pending(k)'
  <2> SUFFICES ASSUME Hits(rh.todo, k) # {} PROVE Pending(k)'
    OBVIOUS
  <2> DEFINE s == rh.todo
  <2>1. PICK i \in 1..Len(s) : s[i].key = k
    BY DEF Hits
  <2>2. s # <<>>
    BY <2>1
  <2>3. /\ Enter(Server, "insert", newHome(Head(s).key), Head(s).key, Head(s).val)
        /\ rh' = [rh EXCEPT !.todo = Tail(s)]
    BY <2>2 DEF readd, newHome
  <2>4. frame'[Server].at = "acquire" /\ frame'[Server].key = Head(s).key
    BY <1>1, <2>3, EnterShape
  <2>5. rh'.todo = Tail(s)
    BY <1>1, <2>3 DEF Locals
  <2>6. CASE i = 1
    <3>1. Head(s).key = k
      BY <1>1, <2>1, <2>2, <2>6
    <3> QED BY <2>4, <3>1 DEF Pending
  <2>7. CASE i # 1
    <3>0. s \in Seq(Pair)
      BY <1>1
    <3> HIDE DEF s
    <3>1. i - 1 \in 1..Len(Tail(s)) /\ Tail(s)[i - 1] = s[i]
      BY <2>1, <2>2, <2>7, <3>0
    <3>2. Hits(Tail(s), k) # {}
      BY <2>1, <3>1 DEF Hits
    <3> QED BY <2>5, <3>2 DEF Pending
  <2> QED BY <2>6, <2>7
<1>6. Pending(k) => Pending(k)'
  BY <1>1, <1>4, <1>5 DEF Pending
<1> QED BY <1>1, <1>2, <1>3, <1>4, <1>6 DEF MoveKey, MovedTo, Passed

LEMMA NextMove ==
  ASSUME TableInv, CountInv, WorkInv, MoveInv, LNext
  PROVE  MoveInv'
<1>0. ServerInv /\ [Next]_vars
  BY DEF WorkInv, LNext
<1> SUFFICES ASSUME rh'.at \in {"foreach", "readd", "melt"}, NEW k \in Keys PROVE MoveKey(k)'
  BY MoveFormNext
<1>1. dropped \subseteq dropped'
  BY DroppedGrows
<1>2. rh.at \in {"foreach", "readd", "melt"} => MoveKey(k)
  BY MoveForm
<1>3. ASSUME NEW p \in Procs, Shape(p), UNCHANGED tvars PROVE MoveKey(k)'
  <2>1. rh' = rh
    BY <1>3, SameTable
  <2> QED BY <1>2, <1>3, <2>1, MoveShape
<1>4. CASE allocateSets
  <2>1. rh'.at = "publish"
    BY <1>4, AllocateKeep, RehashFacts DEF Locals
  <2> QED BY <2>1
<1>5. CASE readd
  <2>1. rh.at = "readd"
    BY <1>5 DEF readd, rhAt
  <2> QED BY <1>1, <1>2, <1>5, <2>1, MoveReadd
<1>6. ASSUME NEW t \in Threads, readRoot(t) PROVE MoveKey(k)'
  <2>1. Server \in Procs \ {t}
    BY TableAssumption
  <2>2. UNCHANGED <<nodes, rh>> /\ frame'[Server] = frame[Server]
    BY <1>6, <2>1, ReadRootKeep, ReadRootShape
  <2> QED BY <1>1, <1>2, <2>2, MoveSame
<1>7. CASE CallMoves \/ UNCHANGED vars
  <2>1. UNCHANGED <<nodes, rh, frame>>
    BY <1>7, CallMovesKeep DEF vars, svars, tvars
  <2> QED BY <1>1, <1>2, <2>1, MoveSame
<1>8. CASE TableMoves
  <2>1. UNCHANGED <<nodes, frame>>
    BY <1>8, TableMovesKeep
  <2>2. CASE EarlyMove
    BY <2>2 DEF EarlyMove, Early
  <2>3. CASE PublishMove
    <3>1. rh'.at = "foreach" /\ rh'.i = 0 /\ rh'.node = 1
      BY <1>0, <2>3 DEF PublishMove, ServerInv
    <3>2. ~(\E i \in 0..(rh'.old.count - 1) : i < rh'.i) /\ 1..(rh'.node - 1) = {}
      BY <3>1
    <3> QED BY <3>1, <3>2 DEF MoveKey
  <2>4. CASE ForeachMove
    BY <1>0, <1>1, <1>2, <2>1, <2>4, MoveForeach DEF ForeachMove
  <2>5. CASE MeltMove
    <3>1. rh.at = "melt" /\ rh'.at = "melt" /\ rh'.old = rh.old
      BY <2>5 DEF MeltMove
    <3>2. newHome(k)' = newHome(k) /\ \A i : oldList(i)' = oldList(i)
      BY <3>1 DEF newHome, newStart, newCount, oldList
    <3>3. Moved(k) => Moved(k)'
      BY <1>1, <2>1, <3>2 DEF Moved
    <3> QED BY <1>2, <2>1, <3>1, <3>2, <3>3 DEF MoveKey, MovedTo
  <2> QED BY <1>0, <1>8, <2>2, <2>3, <2>4, <2>5, MoveKinds
<1> QED BY <1>0, <1>3, <1>4, <1>5, <1>6, <1>7, <1>8, Kinds

-----------------------------------------------------------------------------
(* Where the stored keys are *)

\* A client's frame changes only in its own steps inside a set, and when it
\* reads the root.
LEMMA FrameMover ==
  ASSUME TableInv, CountInv, [Next]_vars, NEW t \in Threads, frame'[t] # frame[t], frame[t].at # "out"
  PROVE  Shape(t) /\ UNCHANGED tvars /\ t \in Procs /\ UNCHANGED <<root, call, pc, rh>>
<1>1. t \in Procs /\ t # Server
  BY TableAssumption
<1>2. ASSUME NEW p \in Procs, Shape(p), UNCHANGED tvars PROVE Shape(t) /\ UNCHANGED tvars /\ UNCHANGED <<root, call, pc, rh>>
  <2>1. p = t
    BY <1>1, <1>2 DEF Shape
  <2> QED BY <1>2, <2>1, SameTable
<1>3. ~allocateSets
  BY AllocateKeep
<1>4. ~readd
  <2> SUFFICES ASSUME readd PROVE FALSE
    OBVIOUS
  <2>1. Server \in Procs
    BY TableAssumption
  <2> QED BY <1>1, <2>1, EnterShape DEF readd
<1>5. ASSUME NEW u \in Threads, readRoot(u) PROVE FALSE
  BY <1>1, <1>5, ReadRootShape
<1>6. ~CallMoves /\ ~TableMoves /\ ~UNCHANGED vars
  BY CallMovesKeep, TableMovesKeep DEF vars, svars
<1> QED BY <1>1, <1>2, <1>3, <1>4, <1>5, <1>6, Kinds

LEMMA StoresShape ==
  ASSUME TableInv, CountInv, [Next]_vars, NEW t \in Threads, Stores(t)
  PROVE  Unlocks(t) /\ t \in Procs /\ UNCHANGED <<root, call, pc, rh, nodes>>
<1>1. Shape(t) /\ t \in Procs /\ UNCHANGED <<root, call, pc, rh>>
  BY FrameMover DEF Stores
<1>2. Unlocks(t)
  BY <1>1 DEF Stores, Shape, Acquires, MeetsDeleted, Passes, Reports, Decides, Writes, Counts
<1> QED BY <1>1, <1>2 DEF Unlocks

\* The writes of removes, which dropped records.
Removes(t) == frame[t].at = "write" /\ frame'[t].at = "count" /\ frame[t].op = "remove"

LEMMA RemovesShape ==
  ASSUME TableInv, CountInv, WorkInv, [Next]_vars, NEW t \in Threads, Removes(t)
  PROVE  /\ Shape(t) /\ t \in Procs /\ UNCHANGED <<root, call, pc, rh>>
         /\ frame[t].key \in Removing /\ frame[t].at \in Inside
<1>1. Shape(t) /\ t \in Procs /\ UNCHANGED <<root, call, pc, rh>>
  BY FrameMover DEF Removes
<1>2. pc[t] = "set"
  BY DEF TableInv, CallInv, Removes
<1>3. call[t].op = "remove" /\ call[t].key = frame[t].key
  BY <1>2 DEF WorkInv, CallFrame, Removes
<1>4. frame[t].key \in Removing
  BY <1>3 DEF Removing
<1> QED BY <1>1, <1>4 DEF Removes, Inside

LEMMA DroppedNow ==
  ASSUME LNext, rh'.at # "allocate"
  PROVE  dropped' = dropped \cup {frame[t].key : t \in {u \in Threads : Removes(u)}}
BY DEF LNext, History, Removes

LEMMA DroppedNot ==
  ASSUME TableInv, CountInv, WorkInv, LNext, NEW k, k \notin Removing, k \notin dropped
  PROVE  k \notin dropped'
<1>1. CASE rh'.at = "allocate"
  BY <1>1 DEF LNext, History
<1>2. CASE rh'.at # "allocate"
  <2>1. \A t \in Threads : Removes(t) => frame[t].key \in Removing
    BY RemovesShape DEF LNext
  <2> QED BY <1>2, <2>1, DroppedNow
<1> QED BY <1>1, <1>2

\* While the root is being written nobody has removed anything since the freeze.
LEMMA DroppedEmpty ==
  ASSUME TableInv, CountInv, WorkInv, PlaceInv, StoredInv, LNext, ~torn', rh'.at \in {"allocate", "publish"}
  PROVE  dropped' = {}
<1>0. ~torn /\ [Next]_vars /\ ServerInv
  BY DEF LNext, History, WorkInv
<1>1. CASE rh'.at = "allocate"
  BY <1>1 DEF LNext, History
<1>2. CASE rh'.at = "publish"
  <2>1. ASSUME NEW t \in Threads, Removes(t) PROVE FALSE
    <3>1. t \in Procs /\ rh' = rh /\ frame[t].at \in Inside
      BY <1>0, <2>1, RemovesShape
    <3>2. frame[t].list >= Newest /\ frame[t].list \in Nat /\ Newest = newStart
      BY <1>2, <3>1, InsideNewest DEF Newest
    <3>3. frame[t].list < newStart
      BY <1>0, <1>2, <3>1 DEF PlaceInv, PlaceFrame, Inside
    <3>4. newStart \in Nat
      BY <1>2, <3>1, NewArray
    <3> QED BY <3>2, <3>3, <3>4
  <2>2. dropped' = dropped
    BY <1>2, <2>1, DroppedNow
  <2>3. rh.at \in {"allocate", "publish"}
    <3>1. ASSUME NEW p \in Procs, Shape(p), UNCHANGED tvars PROVE rh' = rh
      BY <3>1, SameTable
    <3>2. allocateSets => rh.at = "allocate"
      BY DEF allocateSets, rhAt
    <3>3. readd => rh'.at # "publish"
      BY RehashFacts DEF readd, Locals, rhAt
    <3>4. TableMoves => rh.at = "publish" \/ rh'.at # "publish"
      BY <1>0, MoveKinds DEF EarlyMove, PublishMove, ForeachMove, MeltMove, Early
    <3>5. UNCHANGED vars => rh' = rh
      BY DEF vars, tvars
    <3> QED BY <1>0, <1>2, <3>1, <3>2, <3>3, <3>4, <3>5, Kinds, ReadRootKeep, CallMovesKeep
  <2> QED BY <1>0, <2>2, <2>3 DEF StoredInv
<1> QED BY <1>1, <1>2

\* A key nobody removes stays in its set.
LEMMA HasStays ==
  ASSUME TableInv, WorkInv, NEW p \in Procs, Shape(p), NEW k \in Keys \ Removing, NEW l \in Lists, Has(nodes[l], k)
  PROVE  Has(nodes'[l], k)
<1>1. CASE Writes(p) /\ l = frame[p].list
  <2>0. WorkFrame(p)
    BY DEF WorkInv
  <2>1. CASE k # frame[p].key \/ frame[p].op = "insert"
    BY <1>1, <2>0, <2>1, WriteKeys
  <2>2. CASE k = frame[p].key /\ frame[p].op # "insert"
    <3>1. frame[p].op = "remove"
      BY <1>1, <2>0, <2>2, WriteKeys
    <3>2. frame[p].at # "out"
      BY ShapeNodes
    <3>3. p # Server
      BY <2>2, <3>2 DEF WorkInv, ServerInv
    <3>4. p \in Threads
      BY <3>3, TableAssumption
    <3>5. pc[p] = "set"
      BY <3>2, <3>4 DEF TableInv, CallInv
    <3>6. call[p].op = "remove" /\ call[p].key = k
      BY <2>2, <3>1, <3>2, <3>4, <3>5 DEF WorkInv, CallFrame
    <3> QED BY <3>4, <3>6 DEF Removing
  <2> QED BY <2>1, <2>2
<1>2. CASE ~(Writes(p) /\ l = frame[p].list)
  BY <1>2, ShapeNodes
<1> QED BY <1>1, <1>2

\* The three cases of StoredInv.
Kept(k) ==
    /\ rh.at = "publish" => Has(nodes[oldHome(k)], k)
    /\ rh.at \in {"foreach", "readd"} => Has(nodes[newHome(k)], k) \/ (k \notin dropped /\ Has(nodes[oldHome(k)], k))
    /\ rh.at \notin {"publish", "foreach", "readd"} => Has(nodes[ListOf(k)], k)

LEMMA StoredForm ==
  StoredInv <=> /\ stored \subseteq Keys \ Removing
                /\ ~torn => /\ rh.at \in {"allocate", "publish"} => dropped = {}
                            /\ \A k \in stored : Kept(k)
BY DEF StoredInv, Kept
LEMMA StoredFormNext ==
  StoredInv' <=> /\ stored' \subseteq Keys \ Removing'
                 /\ ~torn' => /\ rh'.at \in {"allocate", "publish"} => dropped' = {}
                              /\ \A k \in stored' : Kept(k)'
BY DEF StoredInv, Kept

LEMMA StoredKeys ==
  ASSUME TableInv, StoredInv, LNext
  PROVE  stored' \subseteq Keys \ Removing'
<1>1. \A t \in Threads : Stores(t) => frame[t].key \in Keys
  BY TableAssumption DEF TableInv, FrameInv, Stores
<1> QED BY <1>1 DEF LNext, History, StoredInv

\* The key an insert has put into its set.
LEMMA KeptNew ==
  ASSUME TableInv, CountInv, WorkInv, PlaceInv, LNext, ~torn', NEW t \in Threads, Stores(t),
         NEW k, k = frame[t].key
  PROVE  Kept(k)'
<1>0. ~torn /\ [Next]_vars
  BY DEF LNext, History
<1>1. t \in Procs /\ UNCHANGED <<root, rh, nodes>> /\ frame[t].at = "unlock" /\ frame[t].at \in Inside /\ frame[t].op = "insert"
  BY <1>0, StoresShape DEF Stores, Inside
<1>2. Has(nodes[frame[t].list], k) /\ k \in Keys
  BY <1>1 DEF WorkInv, WorkFrame, TableInv, FrameInv
<1>3. frame[t].list >= Newest /\ frame[t].list \in Nat
  BY <1>1, InsideNewest
<1>4. PlaceFrame(t)
  BY <1>0, <1>1 DEF PlaceInv
<1>5. frame[t].list = indexAt(Newest, keyhash(k, SizeAt(Newest))) /\ (rh.at = "publish" => frame[t].list < newStart)
  BY <1>1, <1>3, <1>4 DEF PlaceFrame
<1>6. rh.at # "publish"
  <2> SUFFICES ASSUME rh.at = "publish" PROVE FALSE
    OBVIOUS
  <2>1. Newest = newStart /\ newStart \in Nat
    BY NewArray DEF Newest
  <2> QED BY <1>3, <1>5, <2>1
<1>7. frame[t].list = ListOf(k) /\ (rh.at \in {"foreach", "readd"} => frame[t].list = newHome(k))
  BY <1>2, <1>5, <1>6, Homes
<1>8. ListOf(k)' = ListOf(k) /\ newHome(k)' = newHome(k)
  BY <1>1 DEF ListOf, newHome, newStart, newCount
<1> QED BY <1>1, <1>2, <1>6, <1>7, <1>8 DEF Kept

\* A stored key stays where it can be found, or is on its way to the new array.
LEMMA KeptOld ==
  ASSUME TableInv, CountInv, WorkInv, MoveInv', LNext,
         rh.at \in {"allocate", "publish"} => dropped = {}, NEW k \in Keys \ Removing, Kept(k)
  PROVE  Kept(k)'
<1>0. [Next]_vars /\ ServerInv
  BY DEF LNext, WorkInv
<1>1. ASSUME UNCHANGED <<root, rh>> PROVE ListOf(k)' = ListOf(k) /\ newHome(k)' = newHome(k) /\ oldHome(k)' = oldHome(k)
  BY <1>1 DEF ListOf, newHome, oldHome, newStart, newCount
<1>2. k \notin dropped => k \notin dropped'
  BY DroppedNot
<1>3. CASE UNCHANGED <<root, rh, nodes>>
  BY <1>1, <1>2, <1>3 DEF Kept
<1>4. ASSUME NEW p \in Procs, Shape(p), UNCHANGED tvars PROVE Kept(k)'
  <2>1. UNCHANGED <<root, rh>>
    BY <1>4, SameTable
  <2>2. CASE rh.at \in {"publish", "foreach", "readd"}
    <3>1. newHome(k) \in Lists /\ oldHome(k) \in Lists
      BY <2>2, Homes
    <3>2. /\ Has(nodes[newHome(k)], k) => Has(nodes'[newHome(k)], k)
          /\ Has(nodes[oldHome(k)], k) => Has(nodes'[oldHome(k)], k)
      BY <1>4, <3>1, HasStays
    <3> QED BY <1>1, <1>2, <2>1, <2>2, <3>2 DEF Kept
  <2>3. CASE rh.at \notin {"publish", "foreach", "readd"}
    <3>1. ListOf(k) \in Lists
      BY <2>3, Homes
    <3>2. Has(nodes[ListOf(k)], k) => Has(nodes'[ListOf(k)], k)
      BY <1>4, <3>1, HasStays
    <3> QED BY <1>1, <2>1, <2>3, <3>2 DEF Kept
  <2> QED BY <2>2, <2>3
<1>5. CASE allocateSets
  <2>1. rh.at = "allocate" /\ root = rh.old /\ rh'.at = "publish" /\ rh'.old = rh.old
    BY <1>5, AllocateKeep, RehashFacts DEF Locals
  <2>2. ListOf(k) \in Lists /\ lock[ListOf(k)] # RAW
    BY <2>1, Homes
  <2>3. nodes'[ListOf(k)] = nodes[ListOf(k)]
    BY <1>5, <2>2, AllocateKeep
  <2>4. oldHome(k)' = ListOf(k)
    BY <2>1 DEF oldHome, ListOf
  <2> QED BY <2>1, <2>3, <2>4 DEF Kept
<1>6. CASE readd
  <2>1. rh.at = "readd" /\ nodes' = nodes /\ rh'.at \in {"readd", "foreach"} /\ rh'.old = rh.old
    BY <1>6, ReaddKeep, RehashFacts DEF readd, Locals, rhAt
  <2>2. newHome(k)' = newHome(k) /\ oldHome(k)' = oldHome(k)
    BY <2>1 DEF newHome, oldHome, newStart, newCount
  <2> QED BY <1>2, <2>1, <2>2 DEF Kept
<1>7. CASE TableMoves
  <2>1. UNCHANGED <<nodes, frame>>
    BY <1>7, TableMovesKeep
  <2>2. CASE EarlyMove
    <3>1. ListOf(k)' = ListOf(k)
      BY <2>2 DEF EarlyMove, ListOf
    <3> QED BY <2>1, <2>2, <3>1 DEF EarlyMove, Early, Kept
  <2>3. CASE PublishMove
    <3>1. oldHome(k)' = oldHome(k)
      BY <2>3 DEF PublishMove, oldHome
    <3>2. rh'.at \in {"publish", "foreach"} /\ rh.at = "publish"
      BY <2>3 DEF PublishMove
    <3>3. k \notin dropped'
      BY <1>2, <3>2
    <3> QED BY <2>1, <3>1, <3>2, <3>3 DEF Kept
  <2>4. CASE ForeachMove
    <3>1. rh.at = "foreach" /\ rh'.at \in {"foreach", "readd", "melt"} /\ rh'.old = rh.old /\ root' = root
      BY <2>4 DEF ForeachMove
    <3>2. newHome(k)' = newHome(k) /\ oldHome(k)' = oldHome(k) /\ \A i : oldList(i)' = oldList(i)
      BY <3>1 DEF newHome, oldHome, newStart, newCount, oldList
    <3>3. CASE rh'.at # "melt"
      BY <1>2, <2>1, <3>1, <3>2, <3>3 DEF Kept
    <3>4. CASE rh'.at = "melt"
      <4>1. ListOf(k)' = newHome(k)
        <5>1. root.count = newCount /\ root.start = newStart
          BY <3>1 DEF TableInv, RehashInv
        <5> QED BY <3>1, <5>1 DEF ListOf, newHome
      <4>2. PICK i \in 0..(rh.old.count - 1) : oldHome(k) = oldList(i)
        BY <3>1, Homes
      <4>3. MoveKey(k)'
        BY <3>4, MoveFormNext
      <4>4. MovedTo(k, i)'
        BY <3>1, <3>4, <4>3 DEF MoveKey
      <4>5. Has(nodes[oldHome(k)], k) => k \in dropped' \/ Has(nodes[newHome(k)], k)
        BY <2>1, <3>2, <4>2, <4>4 DEF MovedTo, Moved
      <4>6. Has(nodes[newHome(k)], k)
        BY <1>2, <3>1, <4>5 DEF Kept
      <4> QED BY <2>1, <3>4, <4>1, <4>6 DEF Kept
    <3> QED BY <3>3, <3>4
  <2>5. CASE MeltMove
    <3>1. ListOf(k)' = ListOf(k)
      BY <2>5 DEF MeltMove, ListOf
    <3> QED BY <2>1, <2>5, <3>1 DEF MeltMove, Kept
  <2> QED BY <1>0, <1>7, <2>2, <2>3, <2>4, <2>5, MoveKinds
<1>8. (\E t \in Threads : readRoot(t)) => UNCHANGED <<root, rh, nodes>>
  BY ReadRootKeep
<1>9. CallMoves \/ UNCHANGED vars => UNCHANGED <<root, rh, nodes>>
  BY CallMovesKeep DEF vars, svars, tvars
<1> QED BY <1>0, <1>3, <1>4, <1>5, <1>6, <1>7, <1>8, <1>9, Kinds

LEMMA NextStored ==
  ASSUME TableInv, CountInv, WorkInv, PlaceInv, StoredInv, MoveInv', LNext
  PROVE  StoredInv'
<1>1. stored' \subseteq Keys \ Removing'
  BY StoredKeys
<1>2. ASSUME ~torn', NEW k \in stored' PROVE Kept(k)'
  <2>1. ~torn
    BY <1>2 DEF LNext, History
  <2>2. k \in stored \/ \E t \in Threads : Stores(t) /\ k = frame[t].key
    BY <1>2 DEF LNext, History
  <2>3. CASE k \in stored
    <3>1. k \in Keys \ Removing /\ Kept(k) /\ (rh.at \in {"allocate", "publish"} => dropped = {})
      BY <2>1, <2>3, StoredForm
    <3> QED BY <3>1, KeptOld
  <2> QED BY <1>2, <2>2, <2>3, KeptNew
<1>3. ~torn' => (rh'.at \in {"allocate", "publish"} => dropped' = {})
  BY DroppedEmpty
<1> QED BY <1>1, <1>2, <1>3, StoredFormNext

-----------------------------------------------------------------------------
(* contains finds what is there *)

\* A step as client t sees it.
LEMMA ClientKinds ==
  ASSUME TableInv, CountInv, [Next]_vars, NEW t \in Threads
  PROVE  \/ readRoot(t)
         \/ Shape(t) /\ UNCHANGED tvars
         \/ (Invoke(t) \/ finish(t) \/ (TryDeliver(t) /\ pc[t] = "join" /\ pc'[t] = "idle"))
               /\ pc'[t] # "set" /\ frame' = frame
         \/ pc'[t] = pc[t] /\ call'[t] = call[t] /\ frame'[t] = frame[t]
<1>1. t \in Procs /\ t # Server /\ Server \in Procs
  BY TableAssumption
<1>2. /\ pc \in [Threads -> {"join", "idle", "start", "set", "wild"}] /\ DOMAIN call = Threads
      /\ t \in DOMAIN pc
  BY DEF TableInv, TableTypes
<1>3. ASSUME NEW p \in Procs, Shape(p), UNCHANGED tvars, p # t
      PROVE  pc'[t] = pc[t] /\ call'[t] = call[t] /\ frame'[t] = frame[t]
  BY <1>1, <1>3 DEF Shape, tvars
<1>4. ASSUME allocateSets \/ TableMoves \/ UNCHANGED vars
      PROVE  pc'[t] = pc[t] /\ call'[t] = call[t] /\ frame'[t] = frame[t]
  BY <1>4, AllocateKeep, TableMovesKeep DEF vars, svars, tvars
<1>5. ASSUME readd PROVE pc'[t] = pc[t] /\ call'[t] = call[t] /\ frame'[t] = frame[t]
  BY <1>1, <1>5, ReaddKeep, EnterShape DEF readd
<1>6. ASSUME NEW u \in Threads, readRoot(u), u # t
      PROVE  pc'[t] = pc[t] /\ call'[t] = call[t] /\ frame'[t] = frame[t]
  BY <1>1, <1>6, ReadRootKeep, ReadRootShape
<1>7. ASSUME NEW u \in Threads, Invoke(u) \/ finish(u) \/ (TryDeliver(u) /\ pc[u] = "join" /\ pc'[u] = "idle")
      PROVE  /\ frame' = frame /\ pc'[u] # "set"
             /\ u # t => pc'[t] = pc[t] /\ call'[t] = call[t]
  <2>1. CASE Invoke(u)
    BY <1>2, <2>1 DEF Invoke, svars
  <2>2. CASE finish(u)
    BY <1>2, <2>2 DEF finish, svars
  <2>3. CASE TryDeliver(u) /\ pc[u] = "join" /\ pc'[u] = "idle"
    BY <1>2, <2>3 DEF TryDeliver, svars, vars, tvars
  <2> QED BY <1>7, <2>1, <2>2, <2>3
<1>8. ASSUME CallMoves
      PROVE  \/ (Invoke(t) \/ finish(t) \/ (TryDeliver(t) /\ pc[t] = "join" /\ pc'[t] = "idle"))
                  /\ pc'[t] # "set" /\ frame' = frame
             \/ pc'[t] = pc[t] /\ call'[t] = call[t] /\ frame'[t] = frame[t]
  BY <1>7, <1>8 DEF CallMoves
<1> QED BY <1>3, <1>4, <1>5, <1>6, <1>8, Kinds

\* A contains that takes a free set, and read the root in a quiet time, holds
\* the set of its key.
LEMMA FoundAcquire ==
  ASSUME TableInv, PlaceInv, StoredInv, NEW t \in Threads, FoundInv(t), CallFrame(t),
         pc[t] = "set", clean[t], known[t], ~torn, Acquires(t)
  PROVE  Has(nodes[frame[t].list], frame[t].key)
<1> DEFINE l == frame[t].list
           k == frame[t].key
<1>1. t \in Procs /\ frame[t].at = "acquire" /\ lock[l] = UNLOCKED
  BY TableAssumption DEF Acquires
<1>2. l \in Lists /\ k \in Keys /\ k = call[t].key
  BY <1>1 DEF TableInv, SetTypes, Frames, FrameInv, CallFrame
<1>3. k \in stored /\ Kept(k)
  <2>1. k \in stored
    BY <1>2 DEF FoundInv
  <2> QED BY <2>1, StoredForm
<1>4. l \notin Frozen /\ lock[l] \notin {RAW, DELETED}
  <2>1. UNLOCKED \notin {RAW, DELETED, LOCKED}
    BY DEF UNLOCKED, RAW, DELETED, LOCKED
  <2> QED BY <1>1, <2>1 DEF TableInv, OwnerInv
<1>5. l >= Newest /\ l \in Nat
  BY <1>2, <1>4, UsedIsNewest
<1>6. PlaceFrame(t)
  BY <1>1 DEF PlaceInv
<1>7. l = indexAt(Newest, keyhash(k, SizeAt(Newest)))
  BY <1>1, <1>5, <1>6 DEF PlaceFrame
<1>8. rh.at \notin {"publish", "foreach", "readd"}
  <2> SUFFICES ASSUME rh.at \in {"publish", "foreach", "readd"} PROVE FALSE
    OBVIOUS
  <2>1. Newest = newStart /\ newStart \in Nat
    BY NewArray DEF Newest
  <2>2. l < newStart
    BY <1>1 DEF FoundInv
  <2> QED BY <1>5, <2>1, <2>2
<1>9. ListOf(k) = l
  BY <1>2, <1>7, <1>8, Homes
<1> QED BY <1>3, <1>8, <1>9 DEF Kept

\* Behind the last node without a hit the key is not in the chain.
LEMMA WalkedAll ==
  ASSUME TableInv, NEW p \in Procs, WorkFrame(p), frame[p].at = "walk", ~Found(p), IsLast(p)
  PROVE  ~Has(nodes[frame[p].list], frame[p].key)
<1> DEFINE c == nodes[frame[p].list]
           k == frame[p].key
           n == frame[p].node
<1>1. c \in Seq(Node) /\ n \in 1..Len(c) /\ Len(c) \in Nat
  BY InsideFacts DEF Inside
<1>2. (\A m \in 1..(n - 1) : Hits(c[m], k) = {}) /\ Hits(c[n], k) = {} /\ n = Len(c)
  BY DEF WorkFrame, Found, Node_, IsLast
<1> HIDE DEF c, n, k
<1>3. \A m \in 1..Len(c) : m = n \/ m \in 1..(n - 1)
  BY <1>1, <1>2
<1>4. ~Has(c, k)
  BY <1>2, <1>3 DEF Has
<1> QED BY <1>4 DEF c, k

LEMMA FoundPlace ==
  ASSUME TableInv, CountInv, WorkInv, LNext, NEW t \in Threads, FoundInv(t),
         pc'[t] = "set", clean'[t], frame'[t].at # "out", rh'.at \in {"publish", "foreach", "readd"}
  PROVE  frame'[t].list < newStart'
<1>0. [Next]_vars /\ ServerInv
  BY DEF LNext, WorkInv
<1>1. ~readRoot(t)
  <2> SUFFICES ASSUME readRoot(t) PROVE FALSE
    OBVIOUS
  <2>1. pc[t] = "start" /\ rh' = rh
    BY ReadRootKeep, ReadRootShape
  <2>2. Reads(t)
    BY <2>1 DEF Reads
  <2> QED BY <2>1, <2>2 DEF LNext, History
<1>2. pc[t] = "set" /\ frame[t].at # "out" /\ frame'[t].list = frame[t].list /\ clean[t]
  <2>1. pc[t] = "set" /\ frame[t].at # "out" /\ frame'[t].list = frame[t].list
    <3>1. CASE Shape(t) /\ UNCHANGED tvars
      <4>1. t \in Procs /\ pc' = pc
        BY <3>1, TableAssumption DEF tvars
      <4>2. SameOp(t)
        BY <3>1 DEF Shape, Acquires, MeetsDeleted, Passes, Reports, Decides, Writes, Counts, Unlocks, OutFrame
      <4> QED BY <3>1, <4>1, <4>2, ShapeNodes DEF SameOp
    <3> QED BY <1>0, <1>1, <3>1, ClientKinds
  <2>2. ~Reads(t)
    BY <2>1 DEF Reads
  <2>3. clean'[t] = (~Returns(t) /\ clean[t])
    BY <2>2 DEF LNext, History
  <2> QED BY <2>1, <2>3
<1>3. CASE allocateSets
  <2>1. t \in Procs /\ rh'.old = rh.old
    BY <1>3, AllocateKeep, RehashFacts, TableAssumption DEF Locals
  <2>2. frame[t].list \in Lists /\ lock[frame[t].list] # RAW
    BY <1>2, <2>1 DEF TableInv, SetTypes, Frames, FrameInv
  <2>3. frame[t].list < newStart
    BY <1>3, <2>2, AllocateKeep
  <2>4. newStart' = newStart
    BY <2>1 DEF newStart
  <2> QED BY <1>2, <2>3, <2>4
<1>4. CASE ~allocateSets
  <2>1. rh.at \in {"publish", "foreach", "readd"} /\ rh'.old = rh.old
    <3>1. ASSUME NEW p \in Procs, Shape(p), UNCHANGED tvars PROVE rh' = rh
      BY <3>1, SameTable
    <3>2. readd => rh.at = "readd" /\ rh'.old = rh.old
      BY RehashFacts DEF readd, Locals, rhAt
    <3>3. TableMoves => rh.at \in {"publish", "foreach", "readd"} /\ rh'.old = rh.old
      BY <1>0, MoveKinds DEF EarlyMove, PublishMove, ForeachMove, MeltMove, Early
    <3>4. UNCHANGED vars => rh' = rh
      BY DEF vars, tvars
    <3> QED BY <1>0, <1>4, <3>1, <3>2, <3>3, <3>4, Kinds, ReadRootKeep, CallMovesKeep
  <2>2. newStart' = newStart
    BY <2>1 DEF newStart
  <2> QED BY <1>2, <2>1, <2>2 DEF FoundInv
<1> QED BY <1>3, <1>4

LEMMA FoundAnswer ==
  ASSUME TableInv, CountInv, WorkInv, PlaceInv, StoredInv, LNext, NEW t \in Threads, FoundInv(t),
         pc'[t] = "set", clean'[t], known'[t], ~torn', call'[t].op = "contains"
  PROVE  /\ frame'[t].at = "walk" => Has(nodes'[frame'[t].list], frame'[t].key)
         /\ frame'[t].at \in {"unlock", "out"} => frame'[t].res.status # "false"
<1>0. [Next]_vars /\ ServerInv /\ CallFrame(t) /\ ~torn /\ t \in Procs /\ WorkFrame(t)
  BY TableAssumption DEF LNext, History, WorkInv
<1>1. CASE readRoot(t)
  BY <1>1, ReadRootShape
<1>2. ASSUME ~readRoot(t), pc[t] = "set", call'[t] = call[t]
      PROVE  clean[t] /\ known[t] /\ call[t].key \in stored /\ call[t].key \in Keys \ Removing
  <2>1. ~Reads(t) /\ ~Starts(t)
    BY <1>2 DEF Reads, Starts
  <2>2. clean[t] /\ known[t]
    BY <2>1 DEF LNext, History
  <2> QED BY <2>2 DEF FoundInv, StoredInv
<1>3. CASE Shape(t) /\ UNCHANGED tvars
  <2>1. pc[t] = "set" /\ call'[t] = call[t] /\ ~readRoot(t)
    <3>1. pc' = pc /\ call' = call
      BY <1>3 DEF tvars
    <3> QED BY <3>1 DEF readRoot
  <2>2. clean[t] /\ known[t]
    BY <1>2, <2>1
  <2>3. frame[t].at # "out" /\ frame[t].op = "contains"
    BY <1>0, <1>3, <2>1, ShapeNodes DEF CallFrame
  <2>4. CASE Acquires(t)
    <3>1. Has(nodes[frame[t].list], frame[t].key)
      BY <1>0, <2>1, <2>2, <2>4, FoundAcquire
    <3> QED BY <2>4, <3>1 DEF Acquires, SameOp
  <2>5. CASE MeetsDeleted(t)
    BY <2>5 DEF MeetsDeleted, OutFrame
  <2>6. CASE Passes(t)
    BY <1>0, <2>1, <2>2, <2>6 DEF Passes, SameOp, FoundInv
  <2>7. CASE Reports(t)
    <3>1. Has(nodes[frame[t].list], frame[t].key)
      BY <1>0, <2>1, <2>2, <2>7 DEF Reports, FoundInv
    <3>2. ~(~Found(t) /\ IsLast(t))
      BY <1>0, <2>7, <3>1, WalkedAll DEF Reports
    <3> QED BY <2>3, <2>7, <3>2 DEF Reports
  <2>8. CASE Decides(t) \/ Writes(t) \/ Counts(t)
    BY <1>0, <2>3, <2>8 DEF Decides, Writes, Counts, WorkFrame
  <2>9. CASE Unlocks(t)
    BY <1>0, <2>1, <2>2, <2>9 DEF Unlocks, OutFrame, FoundInv
  <2> QED BY <1>3, <2>4, <2>5, <2>6, <2>7, <2>8, <2>9 DEF Shape
<1>4. CASE pc'[t] = pc[t] /\ call'[t] = call[t] /\ frame'[t] = frame[t]
  <2>1. pc[t] = "set" /\ ~readRoot(t)
    BY <1>4 DEF readRoot
  <2>2. clean[t] /\ known[t] /\ call[t].key \in Keys \ Removing
    BY <1>2, <1>4, <2>1
  <2>3. frame[t].at = "walk" => Has(nodes[frame[t].list], frame[t].key)
    BY <1>0, <1>4, <2>1, <2>2 DEF FoundInv
  <2>4. ASSUME frame[t].at = "walk" PROVE Has(nodes'[frame[t].list], frame[t].key)
    <3>1. frame[t].list \in Lists /\ lock[frame[t].list] # RAW /\ frame[t].key \in Keys \ Removing
      BY <1>0, <2>1, <2>2, <2>4 DEF TableInv, SetTypes, Frames, FrameInv, CallFrame
    <3>2. ASSUME NEW p \in Procs, Shape(p) PROVE Has(nodes'[frame[t].list], frame[t].key)
      BY <2>3, <2>4, <3>1, <3>2, HasStays
    <3>3. allocateSets => nodes'[frame[t].list] = nodes[frame[t].list]
      BY <3>1, AllocateKeep
    <3> QED BY <1>0, <2>3, <2>4, <3>2, <3>3, NodeKinds
  <2>5. frame[t].at \in {"unlock", "out"} => frame[t].res.status # "false"
    BY <1>0, <1>4, <2>1, <2>2 DEF FoundInv
  <2> QED BY <1>4, <2>4, <2>5
<1> QED BY <1>0, <1>1, <1>3, <1>4, ClientKinds

LEMMA NextFound ==
  ASSUME TableInv, CountInv, WorkInv, PlaceInv, StoredInv, LNext, NEW t \in Threads, FoundInv(t)
  PROVE  FoundInv(t)'
<1>0. DOMAIN ret' = DOMAIN ret
  <2>1. [Next]_vars
    BY DEF LNext
  <2>2. ASSUME NEW p \in Procs, Shape(p), UNCHANGED tvars PROVE ret' = ret
    BY <2>2 DEF tvars
  <2>3. CallMoves => DOMAIN ret' = DOMAIN ret
    BY DEF CallMoves, Invoke, finish, TryDeliver, vars, tvars
  <2>4. UNCHANGED vars => ret' = ret
    BY DEF vars, tvars
  <2> QED BY <2>1, <2>2, <2>3, <2>4, Kinds, AllocateKeep, ReaddKeep, ReadRootKeep, TableMovesKeep
<1>1. known'[t] => call'[t].key \in stored'
  BY DEF LNext, History
<1>2. pc'[t] = "set" /\ clean'[t] /\ frame'[t].at # "out" /\ rh'.at \in {"publish", "foreach", "readd"} => frame'[t].list < newStart'
  BY FoundPlace
<1>3. pc'[t] = "set" /\ clean'[t] /\ known'[t] /\ ~torn' /\ call'[t].op = "contains" =>
         /\ frame'[t].at = "walk" => Has(nodes'[frame'[t].list], frame'[t].key)
         /\ frame'[t].at \in {"unlock", "out"} => frame'[t].res.status # "false"
  BY FoundAnswer
<1> QED BY <1>0, <1>1, <1>2, <1>3 DEF FoundInv

LEMMA FoundStep ==
  ASSUME TableInv, CountInv, [Next]_vars, NEW t \in Threads, FoundInv(t),
         Returns(t), call[t].op = "contains", known[t], clean[t], ~torn
  PROVE  ret'[t].status
<1>1. finish(t) /\ t \in Procs
  BY TableAssumption, ClientKinds, ReadRootShape DEF Returns, Invoke, tvars
<1>2. frame[t].at = "out" /\ t \in DOMAIN ret /\ pc[t] = "set" /\ DOMAIN pc = Threads
  BY <1>1 DEF finish, FoundInv, TableInv, TableTypes
<1>3. ret' = [ret EXCEPT ![t] = [status |-> frame[t].res.status = "true", result |-> frame[t].res.result]]
        /\ frame[t].res.status # "rehash_deleted"
  BY <1>1, <1>2 DEF finish, Returns
<1>4. frame[t].res.status # "false"
  BY <1>2 DEF FoundInv
<1>5. frame[t].res.status \in {"true", "false", "rehash_deleted"}
  <2>1. frame[t].res \in Res
    BY <1>1 DEF TableInv, SetTypes, Frames
  <2> QED BY <2>1 DEF Res
<1>6. frame[t].res.status = "true"
  BY <1>3, <1>4, <1>5
<1>7. ret'[t].status = (frame[t].res.status = "true")
  BY <1>2, <1>3
<1> QED BY <1>6, <1>7

-----------------------------------------------------------------------------
(* The steps of the map the table stands for *)

\* done of ConcurrentMap under the mapping.
Result(t) == IF Committed(t) THEN [status |-> TRUE, result |-> frame[t].res.result] ELSE NoRes

\* The answers of an operation that has seen these bindings.
AnswersOf(op, vs) ==
    CASE op = "contains" -> {[status |-> v # Absent, result |-> IF v = Absent THEN 0 ELSE v] : v \in vs}
      [] op = "insert" -> {[status |-> FALSE, result |-> v] : v \in vs \ {Absent}}
      [] op = "remove" -> {[status |-> FALSE, result |-> 0] : v \in vs \cap {Absent}}

LEMMA AnswersNow ==
  ASSUME NEW t \in Threads
  PROVE  Map!Answers(t) = AnswersOf(call[t].op, seen[t])
BY DEF Map!Answers, AnswersOf, Absent, Map!Absent

LEMMA AnswersNext ==
  ASSUME NEW t \in Threads
  PROVE  Map!Answers(t)' = AnswersOf(call'[t].op, seen'[t])
BY DEF Map!Answers, AnswersOf, Absent, Map!Absent

LEMMA AnswersGrow ==
  ASSUME NEW op \in OpKinds, NEW vs, NEW ws, vs \subseteq ws
  PROVE  AnswersOf(op, vs) \subseteq AnswersOf(op, ws)
<1>1. op \in {"contains", "insert", "remove"}
  BY DEF OpKinds
<1>2. CASE op = "contains"
  BY <1>2 DEF AnswersOf
<1>3. CASE op = "insert"
  BY <1>3 DEF AnswersOf
<1>4. CASE op = "remove"
  BY <1>4 DEF AnswersOf
<1> QED BY <1>1, <1>2, <1>3, <1>4

LEMMA MapStutter ==
  ASSUME map' = map, call' = call, seen' = seen, ret' = ret, \A t \in Threads : Result(t)' = Result(t)
  PROVE  [Map!Next]_(Map!vars)
BY DEF Map!vars, Result

LEMMA MapInvoke ==
  ASSUME NEW t \in Threads, call[t] = NoCall, NEW c \in Calls(t), call' = [call EXCEPT ![t] = c],
         seen' = [seen EXCEPT ![t] = {map[c.key]}], ret' = [ret EXCEPT ![t] = NoRes],
         map' = map, \A u \in Threads : Result(u)' = Result(u)
  PROVE  Map!Next
<1>1. Map!Invoke(t)
  BY DEF Map!Invoke, NoCall, NoRes, Map!NoCall, Map!NoRes, Result, Map!Absent
<1> QED BY <1>1 DEF Map!Next

LEMMA MapReturn ==
  ASSUME NEW t \in Threads, call[t] # NoCall,
         NEW r, r \in IF Committed(t) THEN {Result(t)} ELSE Map!Answers(t),
         ret' = [ret EXCEPT ![t] = r], call' = [call EXCEPT ![t] = NoCall],
         Result(t)' = NoRes, \A u \in Threads \ {t} : Result(u)' = Result(u),
         seen' = [seen EXCEPT ![t] = {}], map' = map
  PROVE  Map!Next
<1> DEFINE done == [u \in Threads |-> IF Committed(u) THEN [status |-> TRUE, result |-> frame[u].res.result] ELSE NoRes]
<1>1. \A u \in Threads : done[u] = Result(u) /\ done'[u] = Result(u)'
  BY DEF Result
<1>2. done' = [done EXCEPT ![t] = NoRes]
  BY <1>1
<1>3. Committed(t) <=> done[t] # NoRes
  BY <1>1 DEF Result, NoRes
<1>4. Map!NoRes = NoRes /\ Map!NoCall = NoCall
  BY DEF NoCall, NoRes, Map!NoCall, Map!NoRes, Map!Absent
<1>5. r \in IF done[t] # NoRes THEN {done[t]} ELSE Map!Answers(t)
  BY <1>1, <1>3
<1>6. Map!Return(t)
  BY <1>2, <1>4, <1>5 DEF Map!Return
<1> QED BY <1>6 DEF Map!Next

LEMMA MapInsert ==
  ASSUME NEW t \in Threads, call[t].op = "insert", Result(t) = NoRes, map[call[t].key] = Absent,
         Result(t)' = [status |-> TRUE, result |-> 0], \A u \in Threads \ {t} : Result(u)' = Result(u),
         map' = [map EXCEPT ![call[t].key] = call[t].val], UNCHANGED <<call, ret>>,
         seen' = [u \in Threads |-> IF call[u] # NoCall /\ call[u].key = call[t].key
                                    THEN seen[u] \cup {call[t].val} ELSE seen[u]]
  PROVE  Map!Next
<1> DEFINE done == [u \in Threads |-> IF Committed(u) THEN [status |-> TRUE, result |-> frame[u].res.result] ELSE NoRes]
<1>1. \A u \in Threads : done[u] = Result(u) /\ done'[u] = Result(u)'
  BY DEF Result
<1>2. done' = [done EXCEPT ![t] = [status |-> TRUE, result |-> 0]]
  BY <1>1
<1>3. Map!NoRes = NoRes /\ Map!NoCall = NoCall /\ Map!Absent = Absent
  BY DEF NoCall, NoRes, Map!NoCall, Map!NoRes, Map!Absent, Absent
<1>4. Map!CommitInsert(t)
  BY <1>1, <1>2, <1>3 DEF Map!CommitInsert, Map!Bind
<1> QED BY <1>4 DEF Map!Next

LEMMA MapRemove ==
  ASSUME NEW t \in Threads, call[t].op = "remove", Result(t) = NoRes, map[call[t].key] # Absent,
         Result(t)' = [status |-> TRUE, result |-> map[call[t].key]], \A u \in Threads \ {t} : Result(u)' = Result(u),
         map' = [map EXCEPT ![call[t].key] = Absent], UNCHANGED <<call, ret>>,
         seen' = [u \in Threads |-> IF call[u] # NoCall /\ call[u].key = call[t].key
                                    THEN seen[u] \cup {Absent} ELSE seen[u]]
  PROVE  Map!Next
<1> DEFINE done == [u \in Threads |-> IF Committed(u) THEN [status |-> TRUE, result |-> frame[u].res.result] ELSE NoRes]
<1>1. \A u \in Threads : done[u] = Result(u) /\ done'[u] = Result(u)'
  BY DEF Result
<1>2. done' = [done EXCEPT ![t] = [status |-> TRUE, result |-> map[call[t].key]]]
  BY <1>1
<1>3. Map!NoRes = NoRes /\ Map!NoCall = NoCall /\ Map!Absent = Absent
  BY DEF NoCall, NoRes, Map!NoCall, Map!NoRes, Map!Absent, Absent
<1>4. Map!CommitRemove(t)
  BY <1>1, <1>2, <1>3 DEF Map!CommitRemove, Map!Bind
<1> QED BY <1>4 DEF Map!Next

-----------------------------------------------------------------------------
(* The history of the map *)

\* Whoever is inside a set is in the set its key belongs to.
LEMMA InsideHome ==
  ASSUME TableInv, PlaceInv, ~torn, NEW p \in Procs, frame[p].at \in Inside
  PROVE  /\ rh.at # "publish" /\ frame[p].key \in Keys /\ frame[p].list \in Lists
         /\ frame[p].list = ListOf(frame[p].key)
<1>1. frame[p].list \in Lists /\ frame[p].list >= Newest /\ frame[p].list \in Nat
  BY InsideNewest
<1>2. frame[p].key \in Keys /\ frame[p].at # "out"
  BY DEF TableInv, FrameInv, Inside
<1>3. /\ frame[p].list = indexAt(Newest, keyhash(frame[p].key, SizeAt(Newest)))
      /\ rh.at = "publish" => frame[p].list < newStart
  BY <1>1, <1>2 DEF PlaceInv, PlaceFrame
<1>4. rh.at # "publish"
  <2> SUFFICES ASSUME rh.at = "publish" PROVE FALSE
    OBVIOUS
  <2>1. Newest = newStart /\ newStart \in Nat
    BY NewArray DEF Newest
  <2> QED BY <1>1, <1>3, <2>1
<1> QED BY <1>1, <1>2, <1>3, <1>4, Homes

\* The map stays while the root and the sets it leads to stay.
LEMMA MapSame ==
  ASSUME map = MapOf, map' = MapOf', root' = root, \A k \in Keys : nodes'[ListOf(k)] = nodes[ListOf(k)]
  PROVE  map' = map
<1>1. \A k : ListOf(k)' = ListOf(k)
  BY DEF ListOf
<1>2. \A k \in Keys : nodes'[ListOf(k)'] = nodes[ListOf(k)]
  BY <1>1
<1> QED BY <1>1, <1>2 DEF MapOf

LEMMA ClientCall ==
  ASSUME WorkInv, NEW t \in Threads
  PROVE  /\ pc[t] \in {"join", "idle"} => call[t] = NoCall
         /\ pc[t] \notin {"join", "idle"} => call[t] # NoCall /\ call[t].key \in Keys /\ call[t].op \in OpKinds
<1>1. CallFrame(t)
  BY DEF WorkInv
<1>2. ASSUME pc[t] \notin {"join", "idle"} PROVE call[t] # NoCall /\ call[t].key \in Keys /\ call[t].op \in OpKinds
  <2>1. call[t] \in [op : Mix[t], key : Keys, val : Vals \cup {0}] /\ Mix[t] \subseteq OpKinds
    BY <1>1, <1>2, TableAssumption DEF CallFrame, Calls
  <2>2. call[t].op \in OpKinds /\ call[t].key \in Keys
    BY <2>1
  <2>3. NoCall.op \notin OpKinds
    BY DEF NoCall, OpKinds
  <2> QED BY <2>2, <2>3
<1> QED BY <1>1, <1>2 DEF CallFrame

\* What the operations under way have seen, in a step that starts or ends none.
LEMMA SeenSame ==
  ASSUME SeenInv, History, map' = map, \A t \in Threads : call'[t] = call[t],
         \A t \in Threads : pc'[t] \in {"join", "idle"} <=> pc[t] \in {"join", "idle"}
  PROVE  seen' = seen
<1>1. seen = [t \in Threads |-> seen[t]]
  BY DEF SeenInv
<1>2. seen' = [t \in Threads |->
          IF pc'[t] \in {"join", "idle"} THEN {}
          ELSE (IF pc[t] = "idle" THEN {} ELSE seen[t]) \cup {map'[call'[t].key]}]
  BY DEF History
<1>3. ASSUME NEW t \in Threads PROVE seen'[t] = seen[t]
  <2>1. CASE pc[t] \in {"join", "idle"}
    BY <1>2, <2>1 DEF SeenInv
  <2>2. CASE pc[t] \notin {"join", "idle"}
    <3>1. map[call[t].key] \in seen[t]
      BY <2>2 DEF SeenInv
    <3>2. seen'[t] = seen[t] \cup {map[call[t].key]}
      BY <1>2, <2>2
    <3> QED BY <3>1, <3>2
  <2> QED BY <2>1, <2>2
<1> QED BY <1>1, <1>2, <1>3

LEMMA SeenBind ==
  ASSUME WorkInv, SeenInv, History, UNCHANGED <<call, pc>>, NEW k \in Keys, NEW v, map' = [map EXCEPT ![k] = v]
  PROVE  seen' = [u \in Threads |-> IF call[u] # NoCall /\ call[u].key = k THEN seen[u] \cup {v} ELSE seen[u]]
<1>1. seen' = [t \in Threads |->
          IF pc'[t] \in {"join", "idle"} THEN {}
          ELSE (IF pc[t] = "idle" THEN {} ELSE seen[t]) \cup {map'[call'[t].key]}]
  BY DEF History
<1>2. ASSUME NEW u \in Threads
      PROVE  seen'[u] = IF call[u] # NoCall /\ call[u].key = k THEN seen[u] \cup {v} ELSE seen[u]
  <2>1. CASE pc[u] \in {"join", "idle"}
    <3>1. call[u] = NoCall /\ seen[u] = {}
      BY <2>1, ClientCall DEF SeenInv
    <3> QED BY <1>1, <2>1, <3>1
  <2>2. CASE pc[u] \notin {"join", "idle"}
    <3>1. call[u] # NoCall /\ call[u].key \in Keys /\ map[call[u].key] \in seen[u]
      BY <2>2, ClientCall DEF SeenInv
    <3>2. seen'[u] = seen[u] \cup {map'[call[u].key]}
      BY <1>1, <2>2
    <3>3. map'[call[u].key] = IF call[u].key = k THEN v ELSE map[call[u].key]
      BY <3>1 DEF SeenInv, MapOf
    <3> QED BY <3>1, <3>2, <3>3
  <2> QED BY <2>1, <2>2
<1> QED BY <1>1, <1>2

\* What a client reports is the binding of its key.
LEMMA ReportIsMap ==
  ASSUME TableInv, WorkInv, PlaceInv, OnceInv, SeenInv, ~torn, ~holed, NEW t \in Threads, frame[t].at = "walk"
  PROVE  /\ Found(t) => map[frame[t].key] = FoundVal(t) /\ FoundVal(t) # Absent
         /\ ~Found(t) /\ IsLast(t) => map[frame[t].key] = Absent
<1> DEFINE c == nodes[frame[t].list]
           k == frame[t].key
<1>1. t \in Procs /\ frame[t].at \in Inside /\ WorkFrame(t)
  BY TableAssumption DEF Inside, WorkInv
<1>2. k \in Keys /\ frame[t].list \in Lists /\ frame[t].list = ListOf(k)
  BY <1>1, InsideHome
<1>3. map[k] = Lookup(c, k)
  BY <1>2 DEF SeenInv, MapOf
<1>4. c \in Seq(Node) /\ frame[t].node \in 1..Len(c)
  BY <1>1, InsideFacts
<1>5. Once(c, k)
  BY <1>2, OnceForm DEF TableInv
<1>6. ASSUME Found(t) PROVE map[k] = FoundVal(t) /\ FoundVal(t) # Absent
  <2>1. Node_(t) \in Node /\ Hits(Node_(t), k) # {}
    BY <1>4, <1>6 DEF Node_, Found
  <2>2. FoundAt(t) \in 1..Len(Node_(t)) /\ Node_(t)[FoundAt(t)].key = k /\ FoundVal(t) \in Vals
    BY <2>1, FoundInNode DEF FoundAt, FoundVal
  <2>3. At(c, frame[t].node, FoundAt(t), k)
    BY <1>4, <2>2 DEF At, Node_
  <2>4. Lookup(c, k) = FoundVal(t)
    BY <1>4, <1>5, <2>3, LookupFound DEF FoundVal, Node_
  <2> QED BY <1>3, <2>2, <2>4, SetAssumption DEF Absent
<1>7. ASSUME ~Found(t), IsLast(t) PROVE map[k] = Absent
  <2>1. ~Has(c, k)
    BY <1>1, <1>7, WalkedAll
  <2> QED BY <1>3, <2>1, LookupAbsent
<1> QED BY <1>6, <1>7

\* While no new array has been shown.
LEMMA NextUnshown ==
  ASSUME TableInv, SeenInv, LNext, TableInv', ~shown'
  PROVE  ~shown /\ root' = root /\ root'.start = 0 /\ root'.count = INITIAL_SIZE /\ ~torn' /\ ~torn
         /\ rh'.at \notin {"foreach", "readd", "melt"} /\ rh.at \notin {"foreach", "readd", "melt"}
<1>1. ~shown /\ root' = root
  BY DEF LNext, History
<1>2. root.start = 0 /\ root.count = INITIAL_SIZE /\ ~torn /\ rh.at \notin {"foreach", "readd", "melt"}
  BY <1>1 DEF SeenInv
<1>3. root.count = SizeAt(root.start)
  BY <1>2, TableAssumption DEF SizeAt
<1>4. ~torn'
  BY <1>2, <1>3 DEF LNext, History
<1>5. rh'.at \notin {"foreach", "readd", "melt"}
  <2> SUFFICES ASSUME rh'.at \in {"foreach", "readd", "melt"} PROVE FALSE
    OBVIOUS
  <2>1. root'.start = newStart' /\ rh'.old.count = SizeAt(rh'.old.start)
    BY DEF TableInv, RehashInv, SizeAt
  <2>2. rh' \in Locals
    BY DEF TableInv, TableTypes, Locals, Pair
  <2>3. rh'.old.start \in Nat /\ rh'.old.count \in Nat
    BY <2>2 DEF Locals
  <2>4. rh'.old.count # 0
    BY <2>1, <2>3, TableAssumption DEF SizeAt
  <2>5. newStart' # 0
    BY <2>3, <2>4 DEF newStart
  <2> QED BY <1>1, <1>2, <2>1, <2>5
<1> QED BY <1>1, <1>2, <1>4, <1>5

LEMMA SeenGrows ==
  ASSUME LNext, NEW t \in Threads, pc[t] # "idle", pc'[t] \notin {"join", "idle"}
  PROVE  seen'[t] = seen[t] \cup {map'[call'[t].key]}
BY DEF LNext, History

LEMMA NextAnswers ==
  ASSUME TableInv, CountInv, WorkInv, PlaceInv, OnceInv, SeenInv, LNext, TableInv', NEW t \in Threads,
         ~holed', ~shown', pc'[t] = "set", ~Committed(t)', frame'[t].at \in {"unlock", "out"},
         frame'[t].res.status # "rehash_deleted"
  PROVE  [status |-> frame'[t].res.status = "true", result |-> frame'[t].res.result] \in Map!Answers(t)'
<1>0. [Next]_vars /\ ~holed /\ ~shown /\ root' = root /\ ~torn /\ t \in Procs /\ WorkFrame(t) /\ CallFrame(t)
  BY NextUnshown, TableAssumption DEF LNext, History, WorkInv
<1>a. Map!Answers(t)' = AnswersOf(call'[t].op, seen'[t])
  BY AnswersNext
<1>1. ~readRoot(t)
  BY ReadRootShape
<1>2. ASSUME pc[t] = "set", call'[t] = call[t], ~Committed(t), frame[t].at \in {"unlock", "out"},
             frame[t].res.status # "rehash_deleted", frame'[t].res = frame[t].res
      PROVE  [status |-> frame'[t].res.status = "true", result |-> frame'[t].res.result] \in Map!Answers(t)'
  <2>1. [status |-> frame[t].res.status = "true", result |-> frame[t].res.result] \in Map!Answers(t)
    BY <1>0, <1>2 DEF SeenInv
  <2>2. Map!Answers(t) = AnswersOf(call[t].op, seen[t])
    BY AnswersNow
  <2>3. seen[t] \subseteq seen'[t] /\ call[t].op \in OpKinds
    BY <1>2, SeenGrows, ClientCall
  <2> QED BY <1>a, <1>2, <2>1, <2>2, <2>3, AnswersGrow
<1>3. CASE Shape(t) /\ UNCHANGED tvars
  <2>1. pc[t] = "set" /\ call'[t] = call[t] /\ rh' = rh
    BY <1>3 DEF tvars
  <2>2. frame[t].at # "out" /\ frame[t].op = call[t].op /\ frame[t].key = call[t].key
    BY <1>0, <1>3, <2>1, ShapeNodes DEF CallFrame
  <2>3. CASE Reports(t)
    <3>1. /\ Found(t) => map[frame[t].key] = FoundVal(t) /\ FoundVal(t) # Absent
          /\ ~Found(t) /\ IsLast(t) => map[frame[t].key] = Absent
      BY <1>0, <2>3, ReportIsMap DEF Reports
    <3>2. map' = map
      BY <1>0, <2>3, MapSame DEF SeenInv, LNext, History, Reports
    <3>3. map[call[t].key] \in seen'[t]
      BY <2>1, <3>2, SeenGrows
    <3> DEFINE v == map[call[t].key]
    <3>4. CASE Found(t) /\ frame[t].op = "contains" /\ frame'[t].res = [status |-> "true", result |-> FoundVal(t)]
      <4>1. v = FoundVal(t) /\ v # Absent /\ v \in seen'[t]
        BY <2>2, <3>1, <3>3, <3>4
      <4> HIDE DEF v
      <4>2. [status |-> TRUE, result |-> v] \in AnswersOf("contains", seen'[t])
        BY <4>1 DEF AnswersOf
      <4>5. frame'[t].res.status = "true" /\ frame'[t].res.result = v
        BY <3>4, <4>1
      <4>6. (frame'[t].res.status = "true") = TRUE
        BY <4>5
      <4>7. [status |-> frame'[t].res.status = "true", result |-> frame'[t].res.result] = [status |-> TRUE, result |-> v]
        BY <4>5, <4>6
      <4> QED BY <4>7, <1>a, <2>1, <2>2, <3>4, <4>1, <4>2
    <3>5. CASE Found(t) /\ frame[t].op = "insert" /\ frame'[t].res = [status |-> "false", result |-> FoundVal(t)]
      <4>1. v = FoundVal(t) /\ v # Absent /\ v \in seen'[t]
        BY <2>2, <3>1, <3>3, <3>5
      <4> HIDE DEF v
      <4>2. [status |-> FALSE, result |-> v] \in AnswersOf("insert", seen'[t])
        BY <4>1 DEF AnswersOf
      <4>5. frame'[t].res.status = "false" /\ frame'[t].res.result = v
        BY <3>5, <4>1
      <4>6. (frame'[t].res.status = "true") = FALSE
        BY <4>5
      <4>7. [status |-> frame'[t].res.status = "true", result |-> frame'[t].res.result] = [status |-> FALSE, result |-> v]
        BY <4>5, <4>6
      <4> QED BY <4>7, <1>a, <2>1, <2>2, <3>5, <4>1, <4>2
    <3>6. CASE ~Found(t) /\ IsLast(t) /\ frame[t].op \in {"contains", "remove"} /\ frame'[t].res = [status |-> "false", result |-> 0]
      <4>1. v = Absent /\ v \in seen'[t]
        BY <2>2, <3>1, <3>3, <3>6
      <4> HIDE DEF v
      <4>2. [status |-> FALSE, result |-> 0] \in AnswersOf("contains", seen'[t])
        BY <4>1 DEF AnswersOf
      <4>3. [status |-> FALSE, result |-> 0] \in AnswersOf("remove", seen'[t])
        BY <4>1 DEF AnswersOf
      <4>5. frame'[t].res.status = "false" /\ frame'[t].res.result = 0
        BY <3>6
      <4>6. (frame'[t].res.status = "true") = FALSE
        BY <4>5
      <4>7. [status |-> frame'[t].res.status = "true", result |-> frame'[t].res.result] = [status |-> FALSE, result |-> 0]
        BY <4>5, <4>6
      <4> QED BY <4>7, <1>a, <2>1, <2>2, <3>6, <4>2, <4>3
    <3> QED BY <2>3, <3>4, <3>5, <3>6 DEF Reports
  <2>4. CASE Unlocks(t)
    <3>1. frame[t].at = "unlock" /\ frame'[t].at = "out" /\ frame'[t].res = frame[t].res
      BY <2>4 DEF Unlocks, OutFrame
    <3>2. ~Committed(t)
      BY <2>1, <3>1 DEF Committed
    <3> QED BY <1>2, <2>1, <3>1, <3>2
  <2>5. CASE Counts(t)
    <3>1. frame[t].at = "add" /\ frame'[t].at = "unlock" /\ frame'[t].res = frame[t].res
      BY <2>5 DEF Counts
    <3>2. frame[t].op \in {"insert", "remove"} /\ frame[t].res.status = "true"
      BY <1>0, <3>1 DEF WorkFrame
    <3>3. Committed(t)'
      BY <2>1, <2>2, <3>1, <3>2 DEF Committed
    <3> QED BY <3>3
  <2>6. CASE MeetsDeleted(t)
    BY <2>6 DEF MeetsDeleted, OutFrame
  <2>7. ~(Acquires(t) \/ Passes(t) \/ Decides(t) \/ Writes(t))
    BY DEF Acquires, Passes, Decides, Writes
  <2> QED BY <1>3, <2>3, <2>4, <2>5, <2>6, <2>7 DEF Shape
<1>4. CASE pc'[t] = pc[t] /\ call'[t] = call[t] /\ frame'[t] = frame[t]
  <2>1. ~Committed(t)
    BY <1>4 DEF Committed
  <2> QED BY <1>2, <1>4, <2>1
<1> QED BY <1>0, <1>1, <1>3, <1>4, ClientKinds

LEMMA MapInNext ==
  ASSUME TableInv', NEW k \in Keys
  PROVE  MapOf'[k] \in Vals \cup {Absent}
<1>1. CASE ListOf(k)' \in Lists
  <2>1. nodes'[ListOf(k)'] \in Seq(Node)
    BY <1>1 DEF TableInv, SetTypes, Node, Pair
  <2> QED BY <1>1, <2>1, LookupValue DEF MapOf
<1>2. CASE ListOf(k)' \notin Lists
  BY <1>2 DEF MapOf
<1> QED BY <1>1, <1>2

LEMMA NextSeen ==
  ASSUME TableInv, CountInv, WorkInv, PlaceInv, OnceInv, SeenInv, LNext, TableInv', WorkInv'
  PROVE  SeenInv'
<1>1. map' = MapOf'
  BY DEF LNext, History
<1>2. seen' \in [Threads -> SUBSET (Vals \cup {Absent})]
  <2>1. seen' = [t \in Threads |->
          IF pc'[t] \in {"join", "idle"} THEN {}
          ELSE (IF pc[t] = "idle" THEN {} ELSE seen[t]) \cup {map'[call'[t].key]}]
    BY DEF LNext, History
  <2>2. seen \in [Threads -> SUBSET (Vals \cup {Absent})]
    BY DEF SeenInv
  <2>3. ASSUME NEW t \in Threads, pc'[t] \notin {"join", "idle"} PROVE map'[call'[t].key] \in Vals \cup {Absent}
    <3>1. CallFrame(t)'
      BY DEF WorkInv
    <3>2. call'[t].key \in Keys
      BY <2>3, <3>1 DEF CallFrame, Calls
    <3> QED BY <1>1, <3>2, MapInNext
  <2> QED BY <2>1, <2>2, <2>3
<1>3. ~shown' => root'.start = 0 /\ root'.count = INITIAL_SIZE /\ ~torn' /\ rh'.at \notin {"foreach", "readd", "melt"}
  BY NextUnshown
<1>4. ASSUME NEW t \in Threads
      PROVE  /\ pc'[t] \in {"join", "idle"} => seen'[t] = {}
             /\ pc'[t] \notin {"join", "idle"} => map'[call'[t].key] \in seen'[t]
  BY DEF LNext, History
<1>5. \A t \in Threads : ~holed' /\ ~shown' /\ pc'[t] = "set" /\ ~Committed(t)' /\ frame'[t].at \in {"unlock", "out"}
                /\ frame'[t].res.status # "rehash_deleted"
                => [status |-> frame'[t].res.status = "true", result |-> frame'[t].res.result] \in Map!Answers(t)'
  BY NextAnswers
<1> QED BY <1>1, <1>2, <1>3, <1>4, <1>5 DEF SeenInv

-----------------------------------------------------------------------------
(* Every step is one of the map *)

\* The write of a client's insert or remove binds its key and nothing else.
LEMMA WriteBinds ==
  ASSUME TableInv, WorkInv, PlaceInv, OnceInv, SeenInv, LNext, ~torn, ~holed, root' = root,
         NEW t \in Threads, Shape(t), Writes(t)
  PROVE  /\ frame[t].key \in Keys /\ frame[t].op \in {"insert", "remove"}
         /\ frame[t].op = "insert" => map[frame[t].key] = Absent /\ map' = [map EXCEPT ![frame[t].key] = frame[t].val]
         /\ frame[t].op = "remove" => /\ map[frame[t].key] = frame[t].res.result /\ map[frame[t].key] # Absent
                                      /\ map' = [map EXCEPT ![frame[t].key] = Absent]
<1> DEFINE l == frame[t].list
           k == frame[t].key
           v == IF frame[t].op = "insert" THEN frame[t].val ELSE Absent
<1>1. t \in Procs /\ frame[t].at \in Inside /\ WorkFrame(t)
  BY TableAssumption DEF Writes, Inside, WorkInv
<1>2. k \in Keys /\ l \in Lists /\ l = ListOf(k)
  BY <1>1, InsideHome
<1>3. map = MapOf /\ map' = MapOf'
  BY DEF SeenInv, LNext, History
<1>4. \A x : ListOf(x)' = ListOf(x)
  BY DEF ListOf
<1>5. ~HasHole(nodes[l]) /\ \A x \in Keys : Once(nodes[l], x)
  BY <1>2, OnceForm DEF TableInv
<1>6. nodes[l] \in Seq(Node) /\ nodes'[l] \in Seq(Node) /\ frame[t].op \in {"insert", "remove"}
  BY <1>1, WriteKeys
<1>7. frame[t].op = "insert" => ~Has(nodes[l], k) /\ Lookup(nodes[l], k) = Absent
  BY <1>1, <1>5, InsertFresh, LookupAbsent
<1>8. frame[t].op = "remove" => Lookup(nodes[l], k) = frame[t].res.result /\ Lookup(nodes[l], k) # Absent
  <2>1. frame[t].op = "remove" => Has(nodes[l], k) /\ Lookup(nodes[l], k) = frame[t].res.result
    BY <1>1, <1>2, <1>5, WriteKeys
  <2> QED BY <1>6, <2>1, LookupValue
<1>9. Lookup(nodes'[l], k) = v
  BY <1>1, <1>2, <1>5, <1>6, <1>7, WriteKeys
<1>10. ASSUME NEW x \in Keys PROVE MapOf'[x] = IF x = k THEN v ELSE MapOf[x]
  <2>1. CASE x = k
    BY <1>2, <1>4, <1>9, <2>1 DEF MapOf
  <2>2. CASE x # k /\ ListOf(x) = l
    <3>1. Lookup(nodes'[l], x) = Lookup(nodes[l], x)
      BY <1>1, <1>5, <2>2, WriteKeys
    <3> QED BY <1>4, <2>2, <3>1 DEF MapOf
  <2>3. CASE x # k /\ ListOf(x) # l
    <3>1. ListOf(x) \in Lists => nodes'[ListOf(x)] = nodes[ListOf(x)]
      BY <1>1, <2>3, ShapeNodes
    <3> QED BY <1>4, <2>3, <3>1 DEF MapOf
  <2> QED BY <2>1, <2>2, <2>3
<1>11. MapOf' = [MapOf EXCEPT ![k] = v]
  <2>1. MapOf' = [x \in Keys |-> MapOf'[x]] /\ MapOf = [x \in Keys |-> MapOf[x]]
    BY DEF MapOf
  <2> HIDE DEF v, k
  <2> QED BY <1>10, <2>1
<1>12. map[k] = Lookup(nodes[l], k)
  BY <1>2, <1>3 DEF MapOf
<1> QED BY <1>2, <1>3, <1>6, <1>7, <1>8, <1>11, <1>12

\* A client's step inside a set that is no write changes nothing it has to answer for.
LEMMA ResultKept ==
  ASSUME TableInv, WorkInv, NEW t \in Threads, Shape(t), ~Writes(t), UNCHANGED <<call, pc>>
  PROVE  Result(t)' = Result(t)
<1>1. t \in Procs /\ WorkFrame(t) /\ CallFrame(t) /\ frame[t].at # "out"
  BY TableAssumption, ShapeNodes DEF WorkInv
<1>2. pc[t] = "set"
  BY <1>1 DEF TableInv, CallInv
<1>3. frame[t].op = call[t].op
  BY <1>1, <1>2 DEF CallFrame
<1>4. CASE Acquires(t) \/ Passes(t) \/ Decides(t)
  BY <1>4 DEF Acquires, Passes, Decides, Result, Committed
<1>5. CASE MeetsDeleted(t)
  BY <1>5 DEF MeetsDeleted, OutFrame, Result, Committed
<1>6. CASE Reports(t)
  BY <1>3, <1>6 DEF Reports, Result, Committed
<1>7. CASE Counts(t)
  BY <1>1, <1>7 DEF Counts, WorkFrame, Result, Committed
<1>8. CASE Unlocks(t)
  BY <1>8 DEF Unlocks, OutFrame, Result, Committed
<1> QED BY <1>4, <1>5, <1>6, <1>7, <1>8 DEF Shape

\* A client elsewhere.
LEMMA ResultSame ==
  ASSUME NEW u, pc'[u] = pc[u], call'[u] = call[u], frame'[u] = frame[u]
  PROVE  Result(u)' = Result(u)
BY DEF Result, Committed

\* A client outside of sets has committed nothing.
LEMMA ResultNone ==
  ASSUME NEW u
  PROVE  /\ pc[u] # "set" => Result(u) = NoRes
         /\ pc'[u] # "set" => Result(u)' = NoRes
BY DEF Result, Committed

LEMMA LinShape ==
  ASSUME TableInv, CountInv, WorkInv, PlaceInv, OnceInv, SeenInv, LNext, TableInv', ~holed', ~shown',
         NEW p \in Procs, Shape(p), UNCHANGED tvars
  PROVE  [Map!Next]_(Map!vars)
<1>0. ~holed /\ ~torn /\ root' = root /\ rh.at # "readd" /\ History
  BY NextUnshown DEF LNext, History
<1>1. UNCHANGED <<call, pc, ret>>
  BY DEF tvars
<1>2. p \in Threads
  <2>1. frame[p].at # "out"
    BY ShapeNodes
  <2>2. p # Server
    BY <1>0, <2>1 DEF WorkInv, ServerInv
  <2> QED BY <2>2, TableAssumption
<1>3. \A u \in Threads \ {p} : Result(u)' = Result(u)
  <2>1. \A u \in Threads \ {p} : frame'[u] = frame[u]
    BY TableAssumption DEF Shape
  <2> QED BY <1>1, <2>1, ResultSame
<1>4. CASE ~Writes(p)
  <2>1. Result(p)' = Result(p)
    BY <1>1, <1>2, <1>4, ResultKept
  <2>2. nodes' = nodes
    BY <1>4, ShapeNodes
  <2>3. map' = map
    BY <1>0, <2>2, MapSame DEF SeenInv, History
  <2>4. seen' = seen
    BY <1>0, <1>1, <2>3, SeenSame
  <2> QED BY <1>1, <1>3, <2>1, <2>3, <2>4, MapStutter
<1>5. CASE Writes(p)
  <2>1. /\ frame[p].key \in Keys /\ frame[p].op \in {"insert", "remove"}
        /\ frame[p].op = "insert" => map[frame[p].key] = Absent /\ map' = [map EXCEPT ![frame[p].key] = frame[p].val]
        /\ frame[p].op = "remove" => /\ map[frame[p].key] = frame[p].res.result /\ map[frame[p].key] # Absent
                                     /\ map' = [map EXCEPT ![frame[p].key] = Absent]
    BY <1>0, <1>2, <1>5, WriteBinds
  <2>2. /\ frame[p].at = "write" /\ frame'[p].at = "count" /\ frame'[p].res = frame[p].res
        /\ WorkFrame(p) /\ CallFrame(p) /\ CallInv(p)
    BY <1>2, <1>5 DEF Writes, WorkInv, TableInv
  <2>3. pc[p] = "set" /\ frame[p].op = call[p].op /\ frame[p].key = call[p].key /\ frame[p].val = call[p].val
    BY <2>2 DEF CallInv, CallFrame
  <2>4. Result(p) = NoRes
    BY <2>2 DEF Result, Committed
  <2>5. Result(p)' = [status |-> TRUE, result |-> frame[p].res.result]
    BY <1>1, <2>1, <2>2, <2>3 DEF Result, Committed
  <2>6. CASE frame[p].op = "insert"
    <3>1. frame[p].res.result = 0
      BY <2>2, <2>6 DEF WorkFrame
    <3>2. map' = [map EXCEPT ![call[p].key] = call[p].val]
      BY <2>1, <2>3, <2>6
    <3>3. call[p].key \in Keys
      BY <2>1, <2>3
    <3>4. seen' = [u \in Threads |-> IF call[u] # NoCall /\ call[u].key = call[p].key
                                     THEN seen[u] \cup {call[p].val} ELSE seen[u]]
      BY <1>0, <1>1, <3>2, <3>3, SeenBind
    <3> QED BY <1>1, <1>2, <1>3, <2>1, <2>3, <2>4, <2>5, <2>6, <3>1, <3>2, <3>4, MapInsert
  <2>7. CASE frame[p].op = "remove"
    <3>1. map' = [map EXCEPT ![call[p].key] = Absent]
      BY <2>1, <2>3, <2>7
    <3>2. call[p].key \in Keys
      BY <2>1, <2>3
    <3>3. seen' = [u \in Threads |-> IF call[u] # NoCall /\ call[u].key = call[p].key
                                     THEN seen[u] \cup {Absent} ELSE seen[u]]
      BY <1>0, <1>1, <3>1, <3>2, SeenBind
    <3> QED BY <1>1, <1>2, <1>3, <2>1, <2>3, <2>4, <2>5, <2>7, <3>1, <3>3, MapRemove
  <2> QED BY <2>1, <2>6, <2>7
<1> QED BY <1>4, <1>5

\* The steps that leave the chains alone and start or end no operation.
LEMMA LinQuiet ==
  ASSUME TableInv, WorkInv, SeenInv, LNext, root' = root, UNCHANGED <<nodes, call, ret>>,
         \A t \in Threads : pc'[t] \in {"join", "idle"} <=> pc[t] \in {"join", "idle"},
         \A t \in Threads : Result(t)' = Result(t)
  PROVE  [Map!Next]_(Map!vars)
<1>1. map' = map
  BY MapSame DEF SeenInv, LNext, History
<1>2. seen' = seen
  BY <1>1, SeenSame DEF LNext
<1> QED BY <1>1, <1>2, MapStutter

LEMMA LinInvoke ==
  ASSUME TableInv, WorkInv, SeenInv, LNext, NEW t \in Threads, Invoke(t)
  PROVE  Map!Next
<1>0. History /\ seen \in [Threads -> SUBSET (Vals \cup {Absent})]
  BY DEF LNext, SeenInv
<1>1. /\ pc \in [Threads -> {"join", "idle", "start", "set", "wild"}]
      /\ call = [u \in Threads |-> call[u]]
  BY DEF TableInv, TableTypes
<1>2. /\ pc[t] = "idle" /\ pc' = [pc EXCEPT ![t] = "start"] /\ ret' = [ret EXCEPT ![t] = NoRes]
      /\ UNCHANGED <<nodes, frame, root>>
  BY DEF Invoke, svars
<1>3. PICK c \in Calls(t) : call' = [call EXCEPT ![t] = c]
  BY DEF Invoke
<1>4. map' = map
  BY <1>0, <1>2, MapSame DEF SeenInv, History
<1>5. call[t] = NoCall
  BY <1>2, ClientCall
<1>6. ASSUME NEW u \in Threads PROVE Result(u)' = Result(u)
  <2>1. CASE u = t
    BY <1>1, <1>2, <2>1, ResultNone
  <2>2. CASE u # t
    BY <1>1, <1>2, <1>3, <2>2, ResultSame
  <2> QED BY <2>1, <2>2
<1>7. ASSUME NEW u \in Threads PROVE seen'[u] = IF u = t THEN {map[c.key]} ELSE seen[u]
  <2>0. seen'[u] = IF pc'[u] \in {"join", "idle"} THEN {}
                   ELSE (IF pc[u] = "idle" THEN {} ELSE seen[u]) \cup {map'[call'[u].key]}
    BY <1>0 DEF History
  <2>1. CASE u = t
    <3>1. pc'[t] = "start" /\ call'[t] = c
      BY <1>1, <1>2, <1>3
    <3> QED BY <1>2, <1>4, <2>0, <2>1, <3>1
  <2>2. CASE u # t
    <3>1. pc'[u] = pc[u] /\ call'[u] = call[u]
      BY <1>1, <1>2, <1>3, <2>2
    <3>2. CASE pc[u] \in {"join", "idle"}
      BY <2>0, <2>2, <3>1, <3>2 DEF SeenInv
    <3>3. CASE pc[u] \notin {"join", "idle"}
      <4>1. map[call[u].key] \in seen[u]
        BY <3>3 DEF SeenInv
      <4> QED BY <1>4, <2>0, <2>2, <3>1, <3>3, <4>1
    <3> QED BY <3>2, <3>3
  <2> QED BY <2>1, <2>2
<1>8. seen' = [seen EXCEPT ![t] = {map[c.key]}]
  <2>1. seen' = [u \in Threads |-> seen'[u]]
    BY <1>0 DEF History
  <2> QED BY <1>0, <1>7, <2>1
<1> QED BY <1>2, <1>3, <1>4, <1>5, <1>6, <1>8, MapInvoke

LEMMA LinReturn ==
  ASSUME TableInv, WorkInv, SeenInv, LNext, ~holed, ~shown, NEW t \in Threads, finish(t), pc'[t] # "start"
  PROVE  Map!Next
<1> DEFINE r == [status |-> frame[t].res.status = "true", result |-> frame[t].res.result]
<1>0. History /\ seen \in [Threads -> SUBSET (Vals \cup {Absent})]
  BY DEF LNext, SeenInv
<1>1. /\ pc \in [Threads -> {"join", "idle", "start", "set", "wild"}]
      /\ call = [u \in Threads |-> call[u]]
  BY DEF TableInv, TableTypes
<1>2. /\ pc[t] = "set" /\ frame[t].at = "out" /\ frame[t].res.status # "rehash_deleted"
      /\ pc' = [pc EXCEPT ![t] = "idle"] /\ ret' = [ret EXCEPT ![t] = r]
      /\ call' = [call EXCEPT ![t] = NoCall] /\ UNCHANGED <<nodes, frame, root>>
  BY <1>1 DEF finish, svars
<1>3. map' = map
  BY <1>0, <1>2, MapSame DEF SeenInv, History
<1>4. call[t] # NoCall
  BY <1>2, ClientCall
<1>5. Result(t)' = NoRes /\ \A u \in Threads \ {t} : Result(u)' = Result(u)
  <2>1. pc'[t] # "set"
    BY <1>1, <1>2
  <2>2. ASSUME NEW u \in Threads \ {t} PROVE Result(u)' = Result(u)
    BY <1>1, <1>2, ResultSame
  <2> QED BY <2>1, <2>2, ResultNone
<1>6. ASSUME NEW u \in Threads PROVE seen'[u] = IF u = t THEN {} ELSE seen[u]
  <2>0. seen'[u] = IF pc'[u] \in {"join", "idle"} THEN {}
                   ELSE (IF pc[u] = "idle" THEN {} ELSE seen[u]) \cup {map'[call'[u].key]}
    BY <1>0 DEF History
  <2>1. CASE u = t
    BY <1>1, <1>2, <2>0, <2>1
  <2>2. CASE u # t
    <3>1. pc'[u] = pc[u] /\ call'[u] = call[u]
      BY <1>1, <1>2, <2>2
    <3>2. CASE pc[u] \in {"join", "idle"}
      BY <2>0, <2>2, <3>1, <3>2 DEF SeenInv
    <3>3. CASE pc[u] \notin {"join", "idle"}
      <4>1. map[call[u].key] \in seen[u]
        BY <3>3 DEF SeenInv
      <4> QED BY <1>3, <2>0, <2>2, <3>1, <3>3, <4>1
    <3> QED BY <3>2, <3>3
  <2> QED BY <2>1, <2>2
<1>7. seen' = [seen EXCEPT ![t] = {}]
  <2>1. seen' = [u \in Threads |-> seen'[u]]
    BY <1>0 DEF History
  <2> QED BY <1>0, <1>6, <2>1
<1>8. r \in IF Committed(t) THEN {Result(t)} ELSE Map!Answers(t)
  <2>1. CASE Committed(t)
    <3>1. frame[t].res.status = "true"
      BY <1>2, <2>1 DEF Committed
    <3>2. (frame[t].res.status = "true") = TRUE
      BY <3>1
    <3>3. r = [status |-> TRUE, result |-> frame[t].res.result]
      BY <3>2
    <3>4. r = Result(t)
      BY <2>1, <3>3 DEF Result
    <3> HIDE DEF r
    <3> QED BY <2>1, <3>4
  <2>2. CASE ~Committed(t)
    <3>1. r \in Map!Answers(t)
      BY <1>2, <2>2 DEF SeenInv
    <3> HIDE DEF r
    <3> QED BY <2>2, <3>1
  <2> QED BY <2>1, <2>2
<1> HIDE DEF r
<1> QED BY <1>2, <1>3, <1>4, <1>5, <1>7, <1>8, MapReturn

LEMMA LinCalls ==
  ASSUME TableInv, WorkInv, SeenInv, LNext, ~holed, ~shown, CallMoves
  PROVE  [Map!Next]_(Map!vars)
<1>1. PICK t \in Threads : Invoke(t) \/ finish(t) \/ (TryDeliver(t) /\ pc[t] = "join" /\ pc'[t] = "idle")
  BY DEF CallMoves
<1>2. /\ pc \in [Threads -> {"join", "idle", "start", "set", "wild"}]
      /\ UNCHANGED <<nodes, frame, root, rh>>
  BY CallMovesKeep DEF TableInv, TableTypes
<1>3. CASE Invoke(t)
  BY <1>3, LinInvoke
<1>4. CASE finish(t) /\ pc'[t] # "start"
  BY <1>4, LinReturn
<1>5. CASE finish(t) /\ pc'[t] = "start"
  <2>1. /\ pc[t] = "set" /\ frame[t].at = "out" /\ frame[t].res.status = "rehash_deleted"
        /\ pc' = [pc EXCEPT ![t] = "start"] /\ UNCHANGED <<ret, call>>
    BY <1>2, <1>5 DEF finish
  <2>2. ASSUME NEW u \in Threads PROVE Result(u)' = Result(u)
    <3>1. CASE u # t
      BY <1>2, <2>1, <3>1, ResultSame
    <3>2. CASE u = t
      BY <1>2, <2>1, <3>2 DEF Result, Committed
    <3> QED BY <3>1, <3>2
  <2>3. \A u \in Threads : pc'[u] \in {"join", "idle"} <=> pc[u] \in {"join", "idle"}
    BY <1>2, <2>1
  <2> QED BY <1>2, <2>1, <2>2, <2>3, LinQuiet
<1>6. CASE TryDeliver(t) /\ pc[t] = "join" /\ pc'[t] = "idle"
  <2>1. pc' = [pc EXCEPT ![t] = "idle"] /\ UNCHANGED <<ret, call>>
    BY <1>6 DEF TryDeliver, vars, tvars
  <2>2. ASSUME NEW u \in Threads PROVE Result(u)' = Result(u)
    <3>1. CASE u # t
      BY <1>2, <2>1, <3>1, ResultSame
    <3>2. CASE u = t
      BY <1>6, <3>2, ResultNone
    <3> QED BY <3>1, <3>2
  <2>3. \A u \in Threads : pc'[u] \in {"join", "idle"} <=> pc[u] \in {"join", "idle"}
    BY <1>2, <1>6, <2>1
  <2> QED BY <1>2, <2>1, <2>2, <2>3, LinQuiet
<1> QED BY <1>1, <1>3, <1>4, <1>5, <1>6

LEMMA LinStep ==
  ASSUME TableInv, CountInv, WorkInv, PlaceInv, OnceInv, SeenInv, LNext, TableInv', ~holed', ~shown'
  PROVE  [Map!Next]_(Map!vars)
<1>0. [Next]_vars /\ ~holed /\ ~shown /\ root' = root /\ rh.at # "readd"
  BY NextUnshown DEF LNext, History
<1>1. ASSUME NEW p \in Procs, Shape(p), UNCHANGED tvars PROVE [Map!Next]_(Map!vars)
  BY <1>1, LinShape
<1>2. CASE allocateSets
  <2>1. UNCHANGED <<frame, root, call, pc, ret>>
    BY <1>2, AllocateKeep
  <2>2. ASSUME NEW k \in Keys PROVE nodes'[ListOf(k)] = nodes[ListOf(k)]
    <3>1. rh.at = "allocate"
      BY <1>2, AllocateKeep
    <3>2. ListOf(k) \in Lists /\ lock[ListOf(k)] # RAW
      BY <3>1, Homes
    <3> QED BY <1>2, <3>2, AllocateKeep
  <2>3. map' = map
    BY <2>1, <2>2, MapSame DEF SeenInv, LNext, History
  <2>4. seen' = seen
    BY <2>1, <2>3, SeenSame DEF LNext
  <2>5. \A u \in Threads : Result(u)' = Result(u)
    BY <2>1, ResultSame
  <2> QED BY <2>1, <2>3, <2>4, <2>5, MapStutter
<1>3. ~readd
  BY <1>0 DEF readd, rhAt
<1>4. ASSUME NEW t \in Threads, readRoot(t) PROVE [Map!Next]_(Map!vars)
  <2>1. UNCHANGED <<nodes, call, ret>>
    BY <1>4, ReadRootKeep
  <2>2. /\ pc[t] = "start" /\ pc'[t] \in {"set", "wild"} /\ (pc'[t] = "set" => frame'[t].at = "acquire")
        /\ \A u \in Threads \ {t} : pc'[u] = pc[u] /\ frame'[u] = frame[u]
    BY <1>4, ReadRootShape, TableAssumption
  <2>3. ASSUME NEW u \in Threads PROVE Result(u)' = Result(u)
    <3>1. CASE u # t
      BY <2>1, <2>2, <3>1, ResultSame
    <3>2. CASE u = t
      BY <2>2, <3>2 DEF Result, Committed
    <3> QED BY <3>1, <3>2
  <2>4. \A u \in Threads : pc'[u] \in {"join", "idle"} <=> pc[u] \in {"join", "idle"}
    BY <2>2
  <2> QED BY <1>0, <2>1, <2>3, <2>4, LinQuiet
<1>5. CASE CallMoves
  BY <1>0, <1>5, LinCalls
<1>6. CASE TableMoves \/ UNCHANGED vars
  <2>1. UNCHANGED <<nodes, frame, call, pc, ret>>
    BY <1>6, TableMovesKeep DEF vars, svars, tvars
  <2>2. \A u \in Threads : Result(u)' = Result(u)
    BY <2>1, ResultSame
  <2> QED BY <1>0, <2>1, <2>2, LinQuiet
<1> QED BY <1>0, <1>1, <1>2, <1>3, <1>4, <1>5, <1>6, Kinds

-----------------------------------------------------------------------------
(* The initial state and the results *)

\* The chain that populate leaves has no hole and holds the keys it was given.
LEMMA ChainKeys ==
  ASSUME NEW ks \in Seq(Keys), \A x, y \in 1..Len(ks) : ks[x] = ks[y] => x = y
  PROVE  /\ Chain(ks) \in Seq(Node) /\ ~HasHole(Chain(ks))
         /\ \A k : Once(Chain(ks), k)
         /\ \A k : Has(Chain(ks), k) => \E x \in 1..Len(ks) : ks[x] = k
<1> DEFINE B == NODE_BUNDLE_SIZE
           L == Len(ks)
           c == Chain(ks)
           N == Len(c)
           m(j) == Min({B, L - (j - 1) * B})
<1>1. B \in Nat \ {0} /\ L \in Nat
  BY SetAssumption
<1>2. /\ N \in Nat \ {0} /\ c \in Seq(Node)
      /\ \A j \in 1..N : /\ (j - 1) * B <= L
                         /\ Len(c[j]) = IF B <= L - (j - 1) * B THEN B ELSE L - (j - 1) * B
  BY ChainFacts
<1>3. ASSUME NEW j \in 1..N, NEW i \in 1..Len(c[j])
      PROVE  /\ i \in 1..B /\ j - 1 \in Nat /\ (j - 1) * B + i \in 1..L
             /\ c[j][i].key = ks[(j - 1) * B + i]
  <2> DEFINE x == (j - 1) * B
  <2>1. j - 1 \in Nat /\ x \in Nat /\ x <= L /\ Len(c[j]) = IF B <= L - x THEN B ELSE L - x
    BY <1>1, <1>2
  <2>2. i \in 1..B /\ x + i \in 1..L
    <3> HIDE DEF x, L, c
    <3> QED BY <1>1, <2>1
  <2>3. c[j] = [y \in 1..m(j) |-> [key |-> ks[(j - 1) * B + y], val |-> ks[(j - 1) * B + y]]]
    <3> DEFINE n == IF ks = <<>> THEN 1 ELSE (Len(ks) + B - 1) \div B
               nd(z) == [y \in 1..m(z) |-> [key |-> ks[(z - 1) * B + y], val |-> ks[(z - 1) * B + y]]]
    <3>1. c = [z \in 1..n |-> nd(z)] /\ N = n
      BY ChainFacts DEF Chain
    <3> HIDE DEF n, nd, c
    <3>2. c[j] = nd(j)
      BY <3>1
    <3> QED BY <3>2 DEF nd
  <2>4. m(j) = Len(c[j])
    <3>1. L - x \in Nat
      <4> HIDE DEF x, L
      <4> QED BY <1>1, <2>1
    <3>2. m(j) = IF B <= L - x THEN B ELSE L - x
      BY <1>1, <3>1, MinOfTwo
    <3> QED BY <2>1, <3>2
  <2>5. c[j][i] = [key |-> ks[(j - 1) * B + i], val |-> ks[(j - 1) * B + i]]
    <3> HIDE DEF c, m
    <3> QED BY <2>3, <2>4
  <2> QED BY <2>1, <2>2, <2>5
<1> HIDE DEF c
<1>4. ~HasHole(c)
  <2> SUFFICES ASSUME NEW j \in 1..(N - 1) PROVE ~(Len(c[j]) < B)
    BY DEF HasHole
  <2>1. j \in 1..N /\ j + 1 \in 1..N /\ (j + 1) - 1 = j
    BY <1>2
  <2>2. j * B <= L /\ Len(c[j]) = IF B <= L - (j - 1) * B THEN B ELSE L - (j - 1) * B
    <3>1. ((j + 1) - 1) * B <= L
      BY <1>2, <2>1
    <3> QED BY <1>2, <2>1, <3>1
  <2>3. (j - 1) * B = j * B - B /\ j * B \in Nat
    BY <1>1
  <2> DEFINE x == j * B
             y == (j - 1) * B
  <2>4. x \in Nat /\ y = x - B /\ x <= L /\ Len(c[j]) = IF B <= L - y THEN B ELSE L - y
    BY <2>2, <2>3
  <2> HIDE DEF x, y
  <2>5. B <= L - y
    BY <1>1, <2>4
  <2> QED BY <1>1, <2>4, <2>5
<1>5. ASSUME NEW k PROVE Once(c, k)
  <2> SUFFICES ASSUME NEW n, NEW i, NEW r, NEW j, At(c, n, i, k), At(c, r, j, k) PROVE n = r /\ i = j
    BY DEF Once
  <2>1. /\ n \in 1..N /\ i \in 1..Len(c[n]) /\ c[n][i].key = k
        /\ r \in 1..N /\ j \in 1..Len(c[r]) /\ c[r][j].key = k
    BY DEF At
  <2>2. /\ i \in 1..B /\ n - 1 \in Nat /\ (n - 1) * B + i \in 1..L /\ ks[(n - 1) * B + i] = k
        /\ j \in 1..B /\ r - 1 \in Nat /\ (r - 1) * B + j \in 1..L /\ ks[(r - 1) * B + j] = k
    BY <1>3, <2>1
  <2>3. (n - 1) * B + i = (r - 1) * B + j
    BY <2>2
  <2>4. n - 1 = r - 1 /\ i = j
    <3> DEFINE a == n - 1
               b == r - 1
    <3>1. B \in Nat \ {0} /\ a \in Nat /\ b \in Nat /\ i \in 1..B /\ j \in 1..B /\ a * B + i = b * B + j
      BY <1>1, <2>2, <2>3
    <3> HIDE DEF a, b, B
    <3>2. a = b /\ i = j
      BY <3>1, PlaceNumbers
    <3> QED BY <3>2 DEF a, b
  <2> QED BY <1>2, <2>1, <2>4
<1>6. ASSUME NEW k, Has(c, k) PROVE \E x \in 1..L : ks[x] = k
  <2>1. PICK n, i : At(c, n, i, k)
    BY <1>6, HasAt
  <2>2. n \in 1..N /\ i \in 1..Len(c[n]) /\ c[n][i].key = k
    BY <2>1 DEF At
  <2>3. (n - 1) * B + i \in 1..L /\ ks[(n - 1) * B + i] = k
    BY <1>3, <2>2
  <2> QED BY <2>3
<1> QED BY <1>2, <1>4, <1>5, <1>6 DEF c

LEMMA InitChains ==
  ASSUME Init, NEW l \in Lists
  PROVE  /\ nodes[l] \in Seq(Node) /\ ~HasHole(nodes[l]) /\ \A k : Once(nodes[l], k)
         /\ \A k \in Keys : Has(nodes[l], k) => l \in 0..(INITIAL_SIZE - 1) /\ l = keyhash(k, INITIAL_SIZE)
<1>1. PICK pop \in Populations : nodes = [x \in Lists |-> IF x < INITIAL_SIZE THEN Chain(pop[x]) ELSE <<>>]
  BY DEF Init, populate
<1>2. l \in Nat /\ INITIAL_SIZE \in Nat \ {0}
  BY SetAssumption, TableAssumption
<1>3. CASE l < INITIAL_SIZE
  <2>1. l \in 0..(INITIAL_SIZE - 1) /\ nodes[l] = Chain(pop[l])
    BY <1>1, <1>2, <1>3
  <2>2. pop[l] \in Seq(Keys) /\ Populated(pop)
    BY <2>1, TableAssumption
  <2>3. \A x, y \in 1..Len(pop[l]) : keyhash(pop[l][x], INITIAL_SIZE) = l /\ (pop[l][x] = pop[l][y] => x = y)
    BY <2>1, <2>2 DEF Populated
  <2>4. /\ Chain(pop[l]) \in Seq(Node) /\ ~HasHole(Chain(pop[l]))
        /\ \A k : Once(Chain(pop[l]), k)
        /\ \A k : Has(Chain(pop[l]), k) => \E x \in 1..Len(pop[l]) : pop[l][x] = k
    BY <2>2, <2>3, ChainKeys
  <2> QED BY <2>1, <2>3, <2>4
<1>4. CASE ~(l < INITIAL_SIZE)
  <2>1. nodes[l] = <<>>
    BY <1>1, <1>4
  <2> QED BY <2>1, NewChain
<1> QED BY <1>3, <1>4

LEMMA InitKey == LInit => KeyInv
<1> SUFFICES ASSUME LInit PROVE KeyInv
  OBVIOUS
<1>1. /\ Init /\ map = MapOf /\ seen = [t \in Threads |-> {}]
      /\ ~holed /\ ~shown /\ ~torn /\ dropped = {}
      /\ stored = {k \in Keys : map[k] # Absent}
      /\ known = [t \in Threads |-> FALSE] /\ clean = [t \in Threads |-> FALSE]
  BY DEF LInit
<1>2. /\ root.count = INITIAL_SIZE /\ root.start = 0 /\ rh.at = "send"
      /\ \A p \in Procs : frame[p].at = "out"
      /\ \A t \in Threads : pc[t] = "join" /\ call[t] = NoCall /\ t \in DOMAIN ret
  BY <1>1 DEF Init, InitArray, Idle, OutFrame
<1>3. TableInv /\ SetTypes
  BY <1>1, InitInv DEF TableInv
<1>4. OnceInv
  BY <1>1, <1>3, InitChains, OnceForm
<1>5. MoveInv
  BY <1>2 DEF MoveInv
<1>6. PlaceInv
  <2>1. ASSUME NEW l \in Lists, NEW k \in Keys, Places(nodes[l], k) # {} PROVE Right(l, k)
    <3>1. nodes[l] \in Seq(Node)
      BY <1>1, InitChains
    <3>2. Has(nodes[l], k)
      BY <2>1, <3>1, PlacesAt
    <3>3. l \in 0..(INITIAL_SIZE - 1) /\ l = keyhash(k, INITIAL_SIZE)
      BY <1>1, <3>2, InitChains
    <3>4. 0 \in Lists /\ SizeAt(0) = INITIAL_SIZE
      BY TableAssumption DEF SizeAt
    <3>5. indexAt(0, l) = l
      BY <3>3, TableAssumption DEF indexAt
    <3> QED BY <3>3, <3>4, <3>5, HomeIsRight
  <2>2. \A p \in Procs : PlaceFrame(p)
    BY <1>2 DEF PlaceFrame
  <2> QED BY <2>1, <2>2 DEF PlaceInv
<1>7. StoredInv
  <2>1. Removing = {}
    BY <1>2 DEF Removing, NoCall
  <2>2. ASSUME NEW k \in stored PROVE Kept(k)
    <3>1. k \in Keys /\ MapOf[k] # Absent
      BY <1>1
    <3>2. ListOf(k) \in Lists
      BY <3>1 DEF MapOf
    <3>3. Lookup(nodes[ListOf(k)], k) # Absent /\ nodes[ListOf(k)] \in Seq(Node)
      BY <1>1, <3>1, <3>2, InitChains DEF MapOf
    <3>4. Has(nodes[ListOf(k)], k)
      BY <3>3, LookupValue
    <3> QED BY <1>2, <3>4 DEF Kept
  <2> QED BY <1>1, <2>1, <2>2, StoredForm
<1>8. SeenInv
  BY <1>1, <1>2 DEF SeenInv
<1>9. \A t \in Threads : FoundInv(t)
  BY <1>1, <1>2 DEF FoundInv
<1> QED BY <1>4, <1>5, <1>6, <1>7, <1>8, <1>9 DEF KeyInv

LEMMA NextKey == TableInv /\ CountInv /\ WorkInv /\ KeyInv /\ TableInv' /\ WorkInv' /\ [LNext]_lvars => KeyInv'
<1> SUFFICES ASSUME TableInv, CountInv, WorkInv, KeyInv, TableInv', WorkInv', [LNext]_lvars PROVE KeyInv'
  OBVIOUS
<1>0. OnceInv /\ MoveInv /\ PlaceInv /\ StoredInv /\ SeenInv /\ \A t \in Threads : FoundInv(t)
  BY DEF KeyInv
<1>1. CASE LNext
  <2>1. OnceInv'
    BY <1>0, <1>1, NextOnce
  <2>2. MoveInv'
    BY <1>0, <1>1, NextMove
  <2>3. PlaceInv'
    BY <1>0, <1>1, NextPlace
  <2>4. StoredInv'
    BY <1>0, <1>1, <2>2, NextStored
  <2>5. SeenInv'
    BY <1>0, <1>1, NextSeen
  <2>6. \A t \in Threads : FoundInv(t)'
    BY <1>0, <1>1, NextFound
  <2> QED BY <2>1, <2>2, <2>3, <2>4, <2>5, <2>6 DEF KeyInv
<1>2. CASE UNCHANGED lvars
  <2>1. /\ UNCHANGED <<lock, nodes, frame, root, call, pc, ret, rh>>
        /\ UNCHANGED <<map, seen, holed, shown, torn, dropped, stored, known, clean>>
    BY <1>2 DEF lvars, hvars, vars, svars, tvars
  <2>2. OnceInv'
    BY <1>0, <2>1 DEF OnceInv
  <2>3. MoveInv'
    BY <1>0, <2>1 DEF MoveInv, Moved, newHome, newStart, newCount, oldList
  <2>4. PlaceInv'
    BY <1>0, <2>1 DEF PlaceInv, PlaceFrame, Newest, newStart, Right, SizeAt, indexAt, keyhash
  <2>5. StoredInv'
    BY <1>0, <2>1 DEF StoredInv, Removing, oldHome, newHome, ListOf, newStart, newCount
  <2>6. SeenInv'
    <3>1. MapOf' = MapOf
      BY <2>1 DEF MapOf, ListOf
    <3>2. \A t \in Threads : Map!Answers(t)' = Map!Answers(t)
      BY <2>1, AnswersNow, AnswersNext
    <3>3. \A t \in Threads : Committed(t)' = Committed(t)
      BY <2>1 DEF Committed
    <3> QED BY <1>0, <2>1, <3>1, <3>2, <3>3 DEF SeenInv
  <2>7. \A t \in Threads : FoundInv(t)'
    BY <1>0, <2>1 DEF FoundInv, newStart
  <2> QED BY <2>2, <2>3, <2>4, <2>5, <2>6, <2>7 DEF KeyInv
<1> QED BY <1>1, <1>2

\* KeyInv is an invariant: where the keys are, before, during and after a
\* rehash, and what the operations under way may answer.
THEOREM KeyInvariant == LSpec => []KeyInv
<1>1. LSpec => []TableInv /\ []CountInv /\ []WorkInv
  BY LinSpec, TableInvariant, CountInvariant, WorkInvariant, PTL
<1> QED BY <1>1, InitKey, NextKey, PTL DEF LSpec

\* However many nodes and sets there are: only a hole that a remove has left
\* lets an insert store a key twice.
THEOREM OnceUnlessHoledProved == LSpec => []OnceUnlessHoled
<1>1. ASSUME NEW S, \A s, u \in S : s = u PROVE Cardinality(S) <= 1
  <2>1. CASE S = {}
    BY <2>1, FS_EmptySet
  <2>2. CASE S # {}
    <3>1. PICK s \in S : TRUE
      BY <2>2
    <3>2. S = {s}
      BY <1>1, <3>1
    <3>3. Cardinality({s}) = 1
      BY FS_Singleton
    <3> QED BY <3>2, <3>3
  <2> QED BY <2>1, <2>2
<1>2. OnceInv => OnceUnlessHoled
  BY <1>1 DEF OnceInv, OnceUnlessHoled
<1> QED BY <1>2, KeyInvariant, PTL DEF KeyInv

\* However long the arrays are: a pair is in the set its key hashes to, unless
\* a client has met a half-written root.
THEOREM RightSetProved == LSpec => []RightSet
<1>1. PlaceInv => RightSet
  BY DEF PlaceInv, RightSet, Right
<1> QED BY <1>1, KeyInvariant, PTL DEF KeyInv

\* Whatever clients do meanwhile: when melt begins, the new array holds every
\* key of the old one that nobody has removed there.
THEOREM RehashKeepsKeysProved == LSpec => []RehashKeepsKeys
<1>1. ASSUME TableInv, MoveInv, rh.at = "melt", NEW l \in OldLists, NEW k \in Keys \ dropped, Places(nodes[l], k) # {}
      PROVE  Places(nodes[indexAt(newStart, keyhash(k, newCount))], k) # {}
  <2>1. PICK i \in 0..(rh.old.count - 1) : l = oldList(i)
    BY <1>1 DEF OldLists
  <2>2. l \in Lists /\ newHome(k) \in Lists
    BY <1>1, <2>1, OldListIn, Homes
  <2>3. nodes[l] \in Seq(Node) /\ nodes[newHome(k)] \in Seq(Node)
    BY <1>1, <2>2 DEF TableInv, SetTypes
  <2>4. Has(nodes[l], k)
    BY <1>1, <2>3, PlacesAt
  <2>5. MoveKey(k)
    BY <1>1, MoveForm
  <2>6. Moved(k)
    BY <1>1, <2>1, <2>4, <2>5 DEF MoveKey, MovedTo
  <2>7. Has(nodes[newHome(k)], k)
    BY <1>1, <2>6 DEF Moved
  <2>8. Places(nodes[newHome(k)], k) # {}
    BY <2>3, <2>7, PlacesAt
  <2> QED BY <2>8 DEF newHome
<1>2. TableInv /\ MoveInv => RehashKeepsKeys
  BY <1>1 DEF RehashKeepsKeys, rhAt
<1>3. LSpec => []TableInv
  BY LinSpec, TableInvariant, PTL
<1> QED BY <1>2, <1>3, KeyInvariant, PTL DEF KeyInv

\* contains never misses a key that was stored before it was called and that
\* nobody asked to remove, unless it read the root while a rehash was filling
\* its new array or somebody met a half-written root.
THEOREM FoundProved == LSpec => FoundUnlessMidRehash
<1> DEFINE A == \A t \in Threads :
                  Returns(t) /\ call[t].op = "contains" /\ known[t] /\ clean[t] /\ ~torn => ret'[t].status
<1>1. TableInv /\ CountInv /\ KeyInv /\ [LNext]_lvars => [A]_lvars
  <2> SUFFICES ASSUME TableInv, CountInv, KeyInv, [LNext]_lvars PROVE A
    OBVIOUS
  <2>1. [Next]_vars /\ \A t \in Threads : FoundInv(t)
    BY LinNext DEF KeyInv
  <2> QED BY <2>1, FoundStep
<1>2. LSpec => []TableInv /\ []CountInv
  BY LinSpec, TableInvariant, CountInvariant, PTL
<1> QED BY <1>1, <1>2, KeyInvariant, PTL DEF LSpec, FoundUnlessMidRehash

\* Until a hole or a rehash shows, every step of the table is one of
\* ConcurrentMap: insert and remove take effect when they write their node,
\* and what every other operation answers was true between its call and its return.
THEOREM LinearizableProved == LSpec => LinearizableUntilHoleOrRehash
<1> DEFINE A == ~holed' /\ ~shown' => [Map!Next]_(Map!vars)
<1>1. TableInv /\ CountInv /\ WorkInv /\ KeyInv /\ TableInv' /\ [LNext]_lvars => [A]_lvars
  <2> SUFFICES ASSUME TableInv, CountInv, WorkInv, KeyInv, TableInv', LNext, ~holed', ~shown'
               PROVE  [Map!Next]_(Map!vars)
    OBVIOUS
  <2> QED BY LinStep DEF KeyInv
<1>2. LSpec => []TableInv /\ []CountInv /\ []WorkInv
  BY LinSpec, TableInvariant, CountInvariant, WorkInvariant, PTL
<1> QED BY <1>1, <1>2, KeyInvariant, PTL DEF LSpec, LinearizableUntilHoleOrRehash
=============================================================================
