--------------------------- MODULE IHTLin_proofs ---------------------------
(***************************************************************************)
(* The interlocked hash table is linearizable until an insert overwrites   *)
(* the E-list of another inserting thread: LinInv is inductive on top of   *)
(* IndInv, OwnInv and ContentInv, and under it every step of the table is  *)
(* a step of ConcurrentMap or a stutter.                                   *)
(***************************************************************************)
EXTENDS IHTLin, IHTMemory_proofs

-----------------------------------------------------------------------------
(* What a lookup finds *)

\* Key k stands with value v in the list.
In(s, k, v) == Among(s, Len(s), k, v)

\* A lookup in a sound list finds the one value that stands under the key.
LEMMA ValOfIn ==
  ASSUME NEW s \in Seq(Pair), Sound(s), NEW k
  PROVE  /\ \A v : In(s, k, v) => ValOf(s, k) = v
         /\ ValOf(s, k) # Absent => In(s, k, ValOf(s, k)) /\ ValOf(s, k) \in Vals[k]
         /\ ValOf(s, k) = Absent <=> Matches(s, k) = {}
         /\ k \in Keys => ValOf(s, k) \in Vals[k] \cup {Absent}
<1> DEFINE i == FirstMatch(s, k)
<1>1. ASSUME Matches(s, k) # {}
      PROVE  /\ i \in 1..Len(s) /\ s[i].key = k /\ ValOf(s, k) = s[i].val
             /\ s[i].val \in Vals[k] /\ s[i].val # Absent
  <2>1. i \in 1..Len(s) /\ s[i].key = k
    BY <1>1, FirstMatchIsMatch
  <2>2. s[i].val \in Vals[k]
    BY <2>1 DEF Sound, Genuine
  <2>3. s[i].val \in Nat
    <3>1. s[i] \in Pair
      BY <2>1
    <3> QED BY <3>1 DEF Pair
  <2>4. \A n \in Nat : n # Absent
    BY DEF Absent
  <2> QED BY <1>1, <2>1, <2>2, <2>3, <2>4 DEF ValOf
<1> HIDE DEF i
<1>2. ASSUME NEW v, In(s, k, v) PROVE ValOf(s, k) = v
  <2>1. PICK j \in 1..Len(s) : s[j].key = k /\ s[j].val = v
    BY <1>2 DEF In, Among
  <2>2. Matches(s, k) # {}
    BY <2>1 DEF Matches
  <2>3. i = j
    BY <1>1, <2>1, <2>2 DEF Sound, Fits
  <2> QED BY <1>1, <2>1, <2>2, <2>3
<1>3. Matches(s, k) = {} => ValOf(s, k) = Absent
  BY DEF ValOf
<1>4. Matches(s, k) # {} => In(s, k, ValOf(s, k)) /\ ValOf(s, k) \in Vals[k] /\ ValOf(s, k) # Absent
  BY <1>1 DEF In, Among
<1> QED BY <1>2, <1>3, <1>4

\* Lists that hold the same under a key give the same answer.
LEMMA ValOfSame ==
  ASSUME NEW s \in Seq(Pair), Sound(s), NEW u \in Seq(Pair), Sound(u), NEW k,
         \A v \in Vals[k] : In(s, k, v) <=> In(u, k, v)
  PROVE  ValOf(s, k) = ValOf(u, k)
BY ValOfIn

LEMMA ValOfAbsent ==
  ASSUME NEW s \in Seq(Pair), Sound(s), NEW k, \A v \in Vals[k] : ~In(s, k, v)
  PROVE  ValOf(s, k) = Absent
BY ValOfIn

LEMMA InAppend ==
  ASSUME NEW s \in Seq(Pair), NEW p \in Pair, NEW k, NEW v
  PROVE  In(Append(s, p), k, v) <=> In(s, k, v) \/ (p.key = k /\ p.val = v)
<1> DEFINE u == Append(s, p)
<1>1. Len(u) = Len(s) + 1 /\ u[Len(s) + 1] = p /\ \A i \in 1..Len(s) : u[i] = s[i]
  OBVIOUS
<1>2. 1..(Len(s) + 1) = 1..Len(s) \cup {Len(s) + 1}
  OBVIOUS
<1> HIDE DEF u
<1>3. In(u, k, v) <=> \E i \in 1..(Len(s) + 1) : u[i].key = k /\ u[i].val = v
  BY <1>1 DEF In, Among
<1>4. In(s, k, v) <=> \E i \in 1..Len(s) : s[i].key = k /\ s[i].val = v
  BY DEF In, Among
<1>5. In(u, k, v) <=> In(s, k, v) \/ (p.key = k /\ p.val = v)
  BY <1>1, <1>2, <1>3, <1>4, Zenon
<1> QED BY <1>5 DEF u

\* What insert_append, insert_empty and remove_hit make of a lookup.
LEMMA ValOfAppend ==
  ASSUME NEW s \in Seq(Pair), Sound(s), NEW p \in Pair, Sound(Append(s, p)), NEW k
  PROVE  ValOf(Append(s, p), k) = IF k = p.key THEN p.val ELSE ValOf(s, k)
<1> DEFINE u == Append(s, p)
<1>1. u \in Seq(Pair) /\ Sound(u) /\ \A v : In(u, k, v) <=> In(s, k, v) \/ (p.key = k /\ p.val = v)
  BY InAppend
<1> HIDE DEF u
<1>2. CASE k = p.key
  BY <1>1, <1>2, ValOfIn DEF u
<1>3. CASE k # p.key
  BY <1>1, <1>3, ValOfSame DEF u
<1> QED BY <1>2, <1>3

LEMMA ValOfSingle ==
  ASSUME NEW p \in Pair, Sound(<<p>>), NEW k
  PROVE  ValOf(<<p>>, k) = IF k = p.key THEN p.val ELSE Absent
<1> DEFINE u == <<p>>
<1>1. u \in Seq(Pair) /\ Len(u) = 1 /\ u[1] = p
  OBVIOUS
<1> HIDE DEF u
<1>2. \A v : In(u, k, v) <=> p.key = k /\ p.val = v
  BY <1>1 DEF In, Among
<1>3. Sound(u)
  BY DEF u
<1>4. CASE k = p.key
  BY <1>1, <1>2, <1>3, <1>4, ValOfIn DEF u
<1>5. CASE k # p.key
  BY <1>1, <1>2, <1>3, <1>5, ValOfAbsent DEF u
<1> QED BY <1>4, <1>5

LEMMA ValOfSwap ==
  ASSUME NEW s \in Seq(Pair), Sound(s), NEW i \in 1..Len(s), NEW k
  PROVE  ValOf(EdgeSwap(s, i), k) = IF k = s[i].key THEN Absent ELSE ValOf(s, k)
<1> DEFINE u == EdgeSwap(s, i)
<1>1. Len(s) \in Nat /\ \A j \in 1..Len(s) : s[j] \in Pair
  OBVIOUS
<1>2. u = [j \in 1..(Len(s) - 1) |-> IF j = i THEN s[Len(s)] ELSE s[j]]
  BY DEF EdgeSwap
<1>3. u \in Seq(Pair) /\ Len(u) = Len(s) - 1
  BY <1>1, <1>2
<1>4. Sound(u)
  BY EdgeSwapSound
<1>5. \A j, m \in 1..Len(s) : s[j].key = s[m].key => j = m
  BY DEF Sound, Fits
<1> HIDE DEF u
<1>6. ASSUME NEW v PROVE In(u, k, v) <=> In(s, k, v) /\ k # s[i].key
  <2>1. ASSUME NEW j \in 1..Len(u)
        PROVE  \E m \in 1..Len(s) : m # i /\ u[j] = s[m]
    <3>1. j \in 1..(Len(s) - 1)
      BY <1>3
    <3>2. CASE j = i
      BY <1>1, <1>2, <3>1, <3>2
    <3>3. CASE j # i
      BY <1>1, <1>2, <3>1, <3>3
    <3> QED BY <3>2, <3>3
  <2>2. ASSUME NEW m \in 1..Len(s), m # i
        PROVE  \E j \in 1..Len(u) : u[j] = s[m]
    <3>1. CASE m = Len(s)
      <4>1. i \in 1..(Len(s) - 1)
        BY <1>1, <2>2, <3>1
      <4>2. u[i] = s[m]
        BY <1>2, <3>1, <4>1
      <4> QED BY <1>3, <4>1, <4>2
    <3>2. CASE m # Len(s)
      <4>1. m \in 1..Len(u) /\ u[m] = s[m]
        BY <1>1, <1>2, <1>3, <2>2, <3>2
      <4> QED BY <4>1
    <3> QED BY <3>1, <3>2
  <2>3. In(u, k, v) => In(s, k, v) /\ k # s[i].key
    BY <1>5, <2>1 DEF In, Among
  <2>4. In(s, k, v) /\ k # s[i].key => In(u, k, v)
    <3> SUFFICES ASSUME In(s, k, v), k # s[i].key PROVE In(u, k, v)
      OBVIOUS
    <3>1. PICK m \in 1..Len(s) : s[m].key = k /\ s[m].val = v
      BY DEF In, Among
    <3>2. PICK j \in 1..Len(u) : u[j] = s[m]
      BY <2>2, <3>1
    <3> QED BY <3>1, <3>2 DEF In, Among
  <2> QED BY <2>3, <2>4
<1>7. CASE k = s[i].key
  BY <1>3, <1>4, <1>6, <1>7, ValOfAbsent DEF u
<1>8. CASE k # s[i].key
  BY <1>3, <1>4, <1>6, <1>8, ValOfSame DEF u
<1> QED BY <1>7, <1>8

-----------------------------------------------------------------------------
(* The ways of the keys *)

LEMMA SizeOfBase ==
  ASSUME TypeOK, TypeOK', NEW p \in PAddr, plist'[p].base = plist[p].base
  PROVE  plist'[p].size = plist[p].size
<1> DEFINE n == plist[p].size
           m == plist'[p].size
<1>1. n \in Nat /\ m \in Nat
  BY DEF TypeOK
<1>2. DOMAIN plist[p].base = 0..(n - 1) /\ DOMAIN plist'[p].base = 0..(m - 1)
  BY DEF TypeOK, PListOf
<1>3. 0..(n - 1) = 0..(m - 1)
  BY <1>2
<1> HIDE DEF n, m
<1>4. n = m
  BY <1>1, <1>3
<1> QED BY <1>4 DEF n, m

LEMMA KeyNat ==
  ASSUME NEW k \in Keys
  PROVE  k \in Nat
BY ConstAssumption

\* A P-list on the way of a key has a bucket for it.
LEMMA WayPlace ==
  ASSUME IndInv, WayInv, NEW k \in Keys, NEW d \in 1..Len(way[k])
  PROVE  /\ way[k] \in Seq(PAddr) /\ way[k][d] \in PAddr /\ plist[way[k][d]].size \in Nat /\ plist[way[k][d]].size >= 2
         /\ level_hash(k, d, plist[way[k][d]].size) \in DOMAIN plist[way[k][d]].base
<1>1. way[k] \in Seq(PAddr) /\ way[k][d] \in PAddr /\ plist[way[k][d]].size >= 2 /\ d \in Nat
  BY DEF WayInv
<1> DEFINE p == way[k][d]
<1>2. plist[p].size \in Nat /\ DOMAIN plist[p].base = 0..(plist[p].size - 1)
  BY <1>1 DEF IndInv, TypeOK, PListOf
<1>3. level_hash(k, d, plist[p].size) \in 0..(plist[p].size - 2)
  BY <1>1, <1>2, KeyNat, LevelHashRange
<1> QED BY <1>1, <1>2, <1>3

LEMMA WayEnd ==
  ASSUME WayInv, NEW k \in Keys
  PROVE  Len(way[k]) \in 1..Len(way[k]) /\ way[k] \in Seq(PAddr)
BY DEF WayInv

\* Two places on ways at the same P-list are equally deep.
LEMMA WayDepth ==
  ASSUME WayInv, NEW k \in Keys, NEW j \in Keys, NEW d \in 1..Len(way[k]), NEW c \in 1..Len(way[j]),
         way[k][d] = way[j][c]
  PROVE  d = c
BY DEF WayInv

\* The sub-P-list that a rehash fills is on no way.
LEMMA WayNotPrivate ==
  ASSUME IndInv, WayInv, PrivateInv, NEW t \in Threads, pc[t] \in {"rehash", "publish"},
         NEW k \in Keys, NEW d \in 1..Len(way[k])
  PROVE  way[k][d] # crit[t].next
<1>1. CASE d = 1
  BY <1>1 DEF WayInv, PrivateInv
<1>2. CASE d # 1
  <2> DEFINE c == d - 1
  <2>1. c \in 1..Len(way[k]) /\ c \in 1..(Len(way[k]) - 1) /\ c + 1 = d
    BY <1>2, WayEnd
  <2> HIDE DEF c
  <2>2. child(plist, way[k][c], c, k) = way[k][d]
    BY <2>1 DEF WayInv
  <2>3. way[k][c] \in PAddr /\ level_hash(k, c, plist[way[k][c]].size) \in DOMAIN plist[way[k][c]].base
    BY <2>1, WayPlace
  <2> QED BY <2>2, <2>3 DEF child, PrivateInv
<1> QED BY <1>1, <1>2

\* Where a thread stands on the way of its key.
LEMMA AtWay ==
  ASSUME IndInv, WayInv, NEW t \in Threads, pc[t] # "idle"
  PROVE  LET k == call[t].key
             d == walk[t].depth
         IN  /\ k \in Keys /\ d \in 1..Len(way[k]) /\ way[k][d] = walk[t].curr
             /\ plist[walk[t].curr].size = walk[t].count
             /\ bucket(t) = level_hash(k, d, plist[walk[t].curr].size)
             /\ base_at(t) = child(plist, way[k][d], d, k)
             /\ base_at(t) \notin PAddr => d = Len(way[k]) /\ end(k) = base_at(t)
             /\ base_at(t) \in PAddr => d < Len(way[k]) /\ way[k][d + 1] = base_at(t)
<1> DEFINE k == call[t].key
           d == walk[t].depth
<1>1. k \in Keys /\ plist[walk[t].curr].size = walk[t].count
  BY DEF IndInv, ThreadInv
<1>2. d \in 1..Len(way[k]) /\ way[k][d] = walk[t].curr
  BY DEF WayInv, OnWay
<1>3. bucket(t) = level_hash(k, d, plist[walk[t].curr].size)
  BY <1>1 DEF bucket
<1>4. base_at(t) = child(plist, way[k][d], d, k)
  BY <1>2, <1>3 DEF base_at, child
<1>5. Len(way[k]) \in Nat /\ d \in Nat
  BY <1>1, <1>2, WayEnd
<1>6. CASE d = Len(way[k])
  <2>1. end(k) = base_at(t)
    BY <1>4, <1>6 DEF end
  <2>2. end(k) \notin PAddr
    BY <1>1 DEF WayInv
  <2> QED BY <1>1, <1>2, <1>3, <1>4, <1>6, <2>1, <2>2
<1>7. CASE d # Len(way[k])
  <2>1. d < Len(way[k]) /\ d \in 1..(Len(way[k]) - 1) /\ d + 1 \in 1..Len(way[k])
    BY <1>2, <1>5, <1>7
  <2> HIDE DEF d, k
  <2>2. child(plist, way[k][d], d, k) = way[k][d + 1]
    BY <1>1, <2>1 DEF WayInv
  <2>3. way[k][d + 1] \in PAddr
    BY <1>1, <2>1, WayEnd
  <2> QED BY <1>1, <1>2, <1>3, <1>4, <2>1, <2>2, <2>3 DEF d, k
<1> QED BY <1>6, <1>7

\* The E-list where a way ends is the bucket's own, and in use.
LEMMA EndOwned ==
  ASSUME IndInv, OwnInv, WayInv, NEW k \in Keys, end(k) \in EAddr
  PROVE  LET p == way[k][Len(way[k])]
             b == level_hash(k, Len(way[k]), plist[p].size)
         IN  /\ p \in PAddr /\ b \in DOMAIN plist[p].base /\ end(k) = plist[p].base[b]
             /\ LeadsTo(p, b, end(k)) /\ elist[end(k)].state # "free"
<1> DEFINE p == way[k][Len(way[k])]
           b == level_hash(k, Len(way[k]), plist[p].size)
<1>1. p \in PAddr /\ b \in DOMAIN plist[p].base
  BY WayEnd, WayPlace
<1>2. end(k) = plist[p].base[b]
  BY DEF end, child
<1>3. LeadsTo(p, b, end(k))
  BY <1>2 DEF LeadsTo
<1> HIDE DEF p, b
<1>4. elist[end(k)].state # "free"
  BY <1>1, <1>3 DEF OwnInv
<1> QED BY <1>1, <1>2, <1>3, <1>4 DEF p, b

-----------------------------------------------------------------------------
(* What a step does to the ways *)

\* A step of t that changes no bucket of any way.
WayKept ==
    \A k \in Keys : \A d \in 1..Len(way[k]) :
        /\ plist'[way[k][d]].base = plist[way[k][d]].base
        /\ plist'[way[k][d]].size = plist[way[k][d]].size

\* Only the two writes of a bucket pointer change a way.
LEMMA StepKeepsWays ==
  ASSUME IndInv, OwnInv, ContentInv, WayInv, NEW t \in Threads, Step(t),
         ~(call[t].op = "insert" /\ insert_empty(t)), ~publish(t)
  PROVE  WayKept
<1>1. CopyInv(t) /\ PrivateInv
  BY DEF ContentInv
<1>2. CASE plist' = plist
  BY <1>2 DEF WayKept
<1>3. CASE acquire_E(t) \/ unlock_E(t) \/ unlock_P(t)
  BY <1>3, LockWriteLive, WayPlace DEF WayKept
<1>4. CASE descend(t)
  <2> DEFINE c == walk[t].curr
             live == plist[c].live /\ ~FreesCurr(t)
  <2>1. plist' = [plist EXCEPT ![c].live = live]
    BY <1>4 DEF descend
  <2> HIDE DEF c, live
  <2>2. ASSUME NEW p \in PAddr PROVE plist'[p].base = plist[p].base /\ plist'[p].size = plist[p].size
    <3>1. plist'[p] = plist[p] \/ plist'[p] = [plist[p] EXCEPT !.live = live]
      BY <2>1 DEF IndInv, TypeOK
    <3>2. plist[p] \in PListOf(plist[p].size)
      BY DEF IndInv, TypeOK
    <3> QED BY <3>1, <3>2 DEF PListOf
  <2> QED BY <2>2, WayPlace DEF WayKept
<1>5. CASE rehash_alloc(t)
  <2> DEFINE n == FreshP
             new == InitPList(Home[t], walk[t].count * 2)
  <2>1. n \in PAddr /\ plist[n].size = 0 /\ plist' = [plist EXCEPT ![n] = new]
    BY <1>5 DEF rehash_alloc, HasFreeP, FreshP
  <2> HIDE DEF n, new
  <2>2. ASSUME NEW k \in Keys, NEW d \in 1..Len(way[k]) PROVE plist'[way[k][d]] = plist[way[k][d]]
    <3> DEFINE p == way[k][d]
    <3>1. p \in PAddr /\ plist[p].size >= 2
      BY WayPlace
    <3> HIDE DEF p
    <3>2. p # n
      BY <2>1, <3>1
    <3>3. plist'[p] = plist[p]
      BY <2>1, <3>1, <3>2 DEF IndInv, TypeOK
    <3> QED BY <3>3 DEF p
  <2> QED BY <2>2 DEF WayKept
<1>6. CASE rehash_move(t)
  <2>1. PICK b, e : MovesTo(t, b, e)
    BY <1>1, <1>6, RehashMoves
  <2>2. pc[t] = "rehash"
    BY <1>6 DEF rehash_move
  <2>3. \A p \in PAddr : p # crit[t].next => plist'[p] = plist[p]
    BY <2>1 DEF MovesTo
  <2> QED BY <1>1, <2>2, <2>3, WayNotPrivate, WayPlace DEF WayKept
<1> QED BY <1>2, <1>3, <1>4, <1>5, <1>6
        DEF Step, contains, insert, remove, Traverse, rehash, acquire_P, refetch, read_elist, miss,
            contains_hit, insert_exists, remove_hit, insert_append, rehash_free

\* The call of an operation changes nothing in memory.
LEMMA InvokeKeepsWays ==
  ASSUME NEW t, NEW c, Invoke(t, c)
  PROVE  WayKept /\ elist' = elist
BY DEF Invoke, WayKept

\* The history is that of the ways, whichever of its forms applies.
LEMMA HistoryShape ==
  ASSUME TypeOK, TypeOK', WayInv, map = MapOf, History
  PROVE  way' = [k \in Keys |-> Lengthen(k)] /\ map' = MapOf'
<1>1. CASE Contents' # Contents
  BY <1>1 DEF History
<1>2. CASE Contents' = Contents
  <2>1. way' = way /\ map' = map
    BY <1>2 DEF History
  <2>2. ASSUME NEW p \in PAddr PROVE plist'[p].base = plist[p].base /\ plist'[p].size = plist[p].size
    <3> DEFINE f == [q \in PAddr |-> plist[q].base]
               g == [q \in PAddr |-> plist'[q].base]
    <3>1. f = g
      BY <1>2 DEF Contents
    <3>2. f[p] = g[p]
      BY <3>1
    <3>3. plist'[p].base = plist[p].base
      BY <3>2
    <3> QED BY <3>3, SizeOfBase
  <2>3. ASSUME NEW e \in EAddr PROVE elist'[e].pairs = elist[e].pairs
    <3> DEFINE f == [q \in EAddr |-> elist[q].pairs]
               g == [q \in EAddr |-> elist'[q].pairs]
    <3>1. f = g
      BY <1>2 DEF Contents
    <3>2. f[e] = g[e]
      BY <3>1
    <3> QED BY <3>2
  <2>4. ASSUME NEW k \in Keys PROVE Lengthen(k) = way[k] /\ Find(k)' = Find(k)
    <3> DEFINE w == way[k]
               p == w[Len(w)]
    <3>1. p \in PAddr /\ end(k) \notin PAddr
      BY WayEnd DEF WayInv
    <3>2. child(plist', p, Len(w), k) = child(plist, p, Len(w), k)
      BY <2>2, <3>1 DEF child
    <3>3. end(k) = child(plist, p, Len(w), k) /\ end(k)' = child(plist', p, Len(w), k)
      BY <2>1 DEF end
    <3>4. Lengthen(k) = w
      BY <3>1, <3>2, <3>3 DEF Lengthen
    <3>5. Find(k)' = Find(k)
      BY <2>3, <3>2, <3>3 DEF Find
    <3> QED BY <3>4, <3>5
  <2>5. way = [k \in Keys |-> way[k]]
    BY DEF WayInv
  <2>6. MapOf' = MapOf
    BY <2>4 DEF MapOf
  <2> QED BY <2>1, <2>4, <2>5, <2>6
<1> QED BY <1>1, <1>2

\* A way without a new sub-P-list at its end stays as it is.
LEMMA WaySame ==
  ASSUME WayInv, way' = [k \in Keys |-> Lengthen(k)],
         \A k \in Keys : child(plist', way[k][Len(way[k])], Len(way[k]), k) \notin PAddr
  PROVE  way' = way
<1>1. \A k \in Keys : Lengthen(k) = way[k]
  BY DEF Lengthen
<1>2. way = [k \in Keys |-> way[k]]
  BY DEF WayInv
<1> QED BY <1>1, <1>2

\* What WayInv says of the ways, when they stay as they are.
LEMMA WayStays ==
  ASSUME WayInv, way' = way, \A t \in Threads : OnWay(t)',
         \A k \in Keys : end(k)' \notin PAddr,
         \A k \in Keys : \A d \in 1..Len(way[k]) : plist'[way[k][d]].size = plist[way[k][d]].size,
         \A k \in Keys : \A d \in 1..(Len(way[k]) - 1) :
            child(plist', way[k][d], d, k) = child(plist, way[k][d], d, k)
  PROVE  WayInv'
<1> DEFINE shape(w, l, k) ==
             /\ Len(w) >= 1 /\ w[1] = Root
             /\ \A d \in 1..Len(w) : l[w[d]].size >= 2
             /\ \A d \in 1..(Len(w) - 1) : child(l, w[d], d, k) = w[d + 1]
<1>1. ASSUME NEW k \in Keys PROVE shape(way[k], plist', k)
  <2>1. shape(way[k], plist, k)
    BY DEF WayInv
  <2> QED BY <2>1
<1>2. \A k \in Keys : shape(way'[k], plist', k) /\ end(k)' \notin PAddr
  BY <1>1
<1>3. way' \in [Keys -> Seq(PAddr)] /\ \A k, j \in Keys : \A d \in 1..Len(way'[k]), c \in 1..Len(way'[j]) :
          way'[k][d] = way'[j][c] => d = c
  BY DEF WayInv
<1> QED BY <1>2, <1>3 DEF WayInv

\* The same for steps that change no bucket of a way.
LEMMA KeptWays ==
  ASSUME IndInv, WayInv, WayKept, way' = [k \in Keys |-> Lengthen(k)]
  PROVE  /\ way' = way
         /\ \A k \in Keys : end(k)' = end(k)
         /\ \A k \in Keys : \A d \in 1..Len(way[k]) :
               child(plist', way[k][d], d, k) = child(plist, way[k][d], d, k)
         /\ (\A t \in Threads : OnWay(t)') => WayInv'
<1>1. \A k \in Keys : \A d \in 1..Len(way[k]) :
        child(plist', way[k][d], d, k) = child(plist, way[k][d], d, k)
  BY DEF WayKept, child
<1>2. \A k \in Keys : child(plist', way[k][Len(way[k])], Len(way[k]), k) = end(k) /\ end(k) \notin PAddr
  BY <1>1, WayEnd DEF end, WayInv
<1>3. way' = way
  BY <1>2, WaySame
<1>4. \A k \in Keys : end(k)' = end(k)
  BY <1>2, <1>3 DEF end
<1>5. \A k \in Keys : \A d \in 1..(Len(way[k]) - 1) : d \in 1..Len(way[k])
  BY WayEnd
<1>6. (\A t \in Threads : OnWay(t)') => WayInv'
  BY <1>1, <1>2, <1>3, <1>4, <1>5, WayStays DEF WayKept
<1> QED BY <1>1, <1>3, <1>4, <1>6

-----------------------------------------------------------------------------
(* WayInv *)

\* The ways only grow at their ends.
Longer ==
    \A k \in Keys : /\ Len(way'[k]) \in Nat /\ Len(way'[k]) >= Len(way[k])
                    /\ \A d \in 1..Len(way[k]) : way'[k][d] = way[k][d]

LEMMA SameLonger ==
  ASSUME WayInv, way' = way
  PROVE  Longer
BY WayEnd DEF Longer

\* A thread that stays where it is stays on its way.
LEMMA OnWayStay ==
  ASSUME IndInv, WayInv, Longer, NEW u \in Threads, pc'[u] # "idle" => pc[u] # "idle",
         call'[u] = call[u], walk'[u].curr = walk[u].curr, walk'[u].depth = walk[u].depth,
         pc'[u] = "descend" => pc[u] = "descend" /\ crit'[u].next = crit[u].next
  PROVE  OnWay(u)'
<1> SUFFICES ASSUME pc'[u] # "idle" PROVE OnWay(u)'
  BY DEF OnWay
<1> DEFINE k == call[u].key
           d == walk[u].depth
           w == way[k]
           x == way'[k]
<1>1. k \in Keys /\ d \in 1..Len(w) /\ w[d] = walk[u].curr
  BY AtWay
<1>2. /\ w \in Seq(PAddr) /\ Len(w) \in Nat /\ Len(x) \in Nat /\ Len(x) >= Len(w)
      /\ \A i \in 1..Len(w) : x[i] = w[i]
  BY <1>1, WayEnd DEF Longer
<1>3. d \in 1..Len(x) /\ x[d] = walk[u].curr
  BY <1>1, <1>2
<1>4. ASSUME pc[u] = "descend" PROVE d < Len(x) /\ x[d + 1] = crit[u].next
  <2>1. d < Len(w) /\ w[d + 1] = crit[u].next
    BY <1>4 DEF WayInv, OnWay
  <2>2. d + 1 \in 1..Len(w)
    BY <1>1, <1>2, <2>1
  <2> HIDE DEF w, x, d, k
  <2>3. x[d + 1] = w[d + 1] /\ d < Len(x)
    BY <1>1, <1>2, <2>1, <2>2
  <2> QED BY <2>1, <2>3
<1> QED BY <1>3, <1>4 DEF OnWay

\* Every step leaves its thread on the way of its key.
LEMMA StepOnWay ==
  ASSUME IndInv, WayInv, Longer, NEW t \in Threads, Step(t)
  PROVE  OnWay(t)'
<1>1. CASE refetch(t)
  <2> DEFINE k == call[t].key
             d == walk[t].depth
             w == way[k]
             x == way'[k]
  <2>1. /\ walk' = walk /\ call' = call /\ pc[t] = "refetch" /\ pc'[t] = "descend"
        /\ crit'[t].next = base_at(t)
    BY <1>1 DEF refetch, Goto, IndInv, TypeOK, base_at
  <2>2. base_at(t) \in PAddr
    <3>1. lock(t) = P_UNLOCKED
      BY <2>1 DEF IndInv, ThreadInv
    <3> QED BY <3>1, AtBucket DEF lock, IndInv, SubPLists, base_at
  <2>3. k \in Keys /\ d \in 1..Len(w) /\ w[d] = walk[t].curr /\ d < Len(w) /\ w[d + 1] = base_at(t)
    BY <2>1, <2>2, AtWay
  <2>4. /\ w \in Seq(PAddr) /\ Len(w) \in Nat /\ Len(x) \in Nat /\ Len(x) >= Len(w)
        /\ \A i \in 1..Len(w) : x[i] = w[i]
    BY <2>3, WayEnd DEF Longer
  <2> HIDE DEF k, d, w, x
  <2>5. d + 1 \in 1..Len(w)
    BY <2>3, <2>4
  <2>6. d \in 1..Len(x) /\ x[d] = walk[t].curr /\ d < Len(x) /\ x[d + 1] = base_at(t)
    BY <2>3, <2>4, <2>5
  <2> QED BY <2>1, <2>6 DEF OnWay, k, d, w, x
<1>2. CASE descend(t)
  <2> DEFINE k == call[t].key
             d == walk[t].depth
             w == way[k]
             x == way'[k]
  <2>1. /\ call' = call /\ pc[t] = "descend" /\ pc'[t] = "acquire"
        /\ walk'[t].curr = crit[t].next /\ walk'[t].depth = d + 1
    BY <1>2 DEF descend, Goto, IndInv, TypeOK
  <2>2. k \in Keys /\ d \in 1..Len(w)
    BY <2>1, AtWay
  <2>3. d < Len(w) /\ w[d + 1] = crit[t].next
    BY <2>1 DEF WayInv, OnWay
  <2>4. /\ w \in Seq(PAddr) /\ Len(w) \in Nat /\ Len(x) \in Nat /\ Len(x) >= Len(w)
        /\ \A i \in 1..Len(w) : x[i] = w[i]
    BY <2>2, WayEnd DEF Longer
  <2> HIDE DEF k, d, w, x
  <2>5. d + 1 \in 1..Len(w)
    BY <2>2, <2>3, <2>4
  <2>6. d + 1 \in 1..Len(x) /\ x[d + 1] = crit[t].next
    BY <2>3, <2>4, <2>5
  <2> QED BY <2>1, <2>6 DEF OnWay, k, d, w, x
<1>3. CASE unlock_E(t)
  BY <1>3 DEF unlock_E, Goto, IndInv, TypeOK, OnWay
<1>4. CASE publish(t) \/ unlock_P(t)
  <2>1. /\ walk'[t].curr = walk[t].curr /\ walk'[t].depth = walk[t].depth /\ call' = call
        /\ pc[t] # "idle" /\ pc'[t] # "descend"
    BY <1>4 DEF publish, unlock_P, Goto, IndInv, TypeOK
  <2> QED BY <2>1, OnWayStay
<1>5. CASE \/ acquire_E(t) \/ acquire_P(t) \/ read_elist(t) \/ rehash(t)
           \/ miss(t) \/ contains_hit(t) \/ insert_exists(t) \/ remove_hit(t) \/ insert_append(t)
           \/ insert_empty(t)
  <2>1. walk' = walk /\ call' = call /\ pc[t] # "idle" /\ pc'[t] # "descend"
    BY <1>5 DEF acquire_E, acquire_P, read_elist, rehash, rehash_alloc, rehash_move, rehash_free, miss,
                contains_hit, insert_exists, remove_hit, insert_append, insert_empty, Decide, Goto, IndInv, TypeOK
  <2> QED BY <2>1, OnWayStay
<1> QED BY <1>1, <1>2, <1>3, <1>4, <1>5 DEF Step, contains, insert, remove, Traverse

LEMMA OthersOnWay ==
  ASSUME IndInv, WayInv, Longer, NEW t \in Threads, Others(t), OnWay(t)'
  PROVE  \A u \in Threads : OnWay(u)'
<1> SUFFICES ASSUME NEW u \in Threads, u # t PROVE OnWay(u)'
  OBVIOUS
<1>1. pc'[u] = pc[u] /\ call'[u] = call[u] /\ walk'[u] = walk[u] /\ crit'[u] = crit[u]
  BY DEF Others
<1> QED BY <1>1, OnWayStay

\* A call starts at the root.
LEMMA InvokeOnWay ==
  ASSUME IndInv, WayInv, way' = way, NEW t \in Threads, NEW c \in Calls(t), Invoke(t, c)
  PROVE  OnWay(t)'
<1>1. call'[t] = c /\ walk'[t].curr = Root /\ walk'[t].depth = 1 /\ pc'[t] = "acquire"
  BY DEF Invoke, Start, Goto, IndInv, TypeOK
<1>2. c.key \in Keys
  BY DEF Calls
<1>3. 1 \in 1..Len(way[c.key]) /\ way[c.key][1] = Root
  BY <1>2, WayEnd DEF WayInv
<1> QED BY <1>1, <1>3 DEF OnWay

\* What a write of a thread's bucket pointer does to the ways: the bucket of
\* key k at depth d is t's bucket, or it is left alone.
LEMMA BucketOnWay ==
  ASSUME IndInv, WayInv, NEW t \in Threads, pc[t] # "idle", NEW v, BaseFrame(walk[t].curr, bucket(t), v),
         NEW k \in Keys, NEW d \in 1..Len(way[k])
  PROVE  LET p == way[k][d]
             b == level_hash(k, d, plist[p].size)
         IN  /\ plist'[p].size = plist[p].size
             /\ child(plist, p, d, k) = plist[p].base[b]
             /\ child(plist', p, d, k) = plist'[p].base[b]
             /\ \/ <<p, b>> = At(t) /\ child(plist', p, d, k) = v /\ child(plist, p, d, k) = base_at(t)
                   /\ d = walk[t].depth
                \/ <<p, b>> # At(t) /\ child(plist', p, d, k) = child(plist, p, d, k)
<1> DEFINE p == way[k][d]
           b == level_hash(k, d, plist[p].size)
           c == walk[t].curr
           q == bucket(t)
<1>1. p \in PAddr /\ b \in DOMAIN plist[p].base
  BY WayPlace
<1>2. b \in DOMAIN plist[p].lock
  BY <1>1, SameDomain DEF IndInv
<1>3. plist'[p].size = plist[p].size
  BY <1>1 DEF BaseFrame
<1>4. child(plist, p, d, k) = plist[p].base[b]
  BY DEF child
<1>5. child(plist', p, d, k) = plist'[p].base[b]
  BY <1>3 DEF child
<1>6. At(t) = <<c, q>> /\ base_at(t) = plist[c].base[q]
  BY DEF At, base_at
<1>7. CASE p = c /\ b = q
  <2>1. call[t].key \in Keys /\ walk[t].depth \in 1..Len(way[call[t].key]) /\ way[call[t].key][walk[t].depth] = c
    BY AtWay
  <2>2. d = walk[t].depth
    BY <1>7, <2>1, WayDepth
  <2> QED BY <1>3, <1>4, <1>5, <1>6, <1>7, <2>2 DEF BaseFrame
<1>8. CASE ~(p = c /\ b = q)
  <2> HIDE DEF p, b, c, q
  <2>1. <<p, b>> # <<c, q>>
    BY <1>8
  <2>2. plist'[p].base[b] = plist[p].base[b]
    BY <1>1, <1>2, <2>1 DEF BaseFrame, c, q
  <2> QED BY <1>3, <1>4, <1>5, <1>6, <2>1, <2>2 DEF p, b
<1> QED BY <1>7, <1>8

\* insert_empty writes an E-list into a bucket at the end of a way.
LEMMA InsertEmptyWays ==
  ASSUME IndInv, WayInv, NEW t \in Threads, Step(t), insert_empty(t), way' = [k \in Keys |-> Lengthen(k)]
  PROVE  way' = way /\ WayInv'
<1> DEFINE e == FreshE
<1>1. /\ BaseFrame(walk[t].curr, bucket(t), e) /\ pc[t] # "idle" /\ e \notin PAddr /\ base_at(t) \notin PAddr
  <2>1. pc[t] = "work" /\ HasFreeE
    BY DEF insert_empty
  <2>2. base_at(t) \in EAddr \cup {Null}
    BY <2>1, HeldIsElist DEF InCrit, base_at
  <2> QED BY <2>1, <2>2, OwnFrames, FreshEType, ConstAssumption
<1> HIDE DEF e
<1>2. ASSUME NEW k \in Keys, NEW d \in 1..Len(way[k])
      PROVE  /\ plist'[way[k][d]].size = plist[way[k][d]].size
             /\ \/ child(plist', way[k][d], d, k) = child(plist, way[k][d], d, k)
                \/ child(plist', way[k][d], d, k) \notin PAddr /\ child(plist, way[k][d], d, k) \notin PAddr
  <2>1. \/ child(plist', way[k][d], d, k) = e /\ child(plist, way[k][d], d, k) = base_at(t)
        \/ child(plist', way[k][d], d, k) = child(plist, way[k][d], d, k)
    BY <1>1, BucketOnWay
  <2>2. plist'[way[k][d]].size = plist[way[k][d]].size
    BY <1>1, BucketOnWay
  <2> QED BY <1>1, <2>1, <2>2
<1>3. ASSUME NEW k \in Keys PROVE child(plist', way[k][Len(way[k])], Len(way[k]), k) \notin PAddr
  <2>1. child(plist, way[k][Len(way[k])], Len(way[k]), k) \notin PAddr
    BY DEF WayInv, end
  <2> QED BY <1>2, <2>1, WayEnd
<1>4. way' = way
  BY <1>3, WaySame
<1>5. \A k \in Keys : end(k)' \notin PAddr
  BY <1>3, <1>4 DEF end
<1>6. ASSUME NEW k \in Keys, NEW d \in 1..(Len(way[k]) - 1)
      PROVE  child(plist', way[k][d], d, k) = child(plist, way[k][d], d, k)
  <2>1. d \in 1..Len(way[k]) /\ d + 1 \in 1..Len(way[k])
    BY WayEnd
  <2>2. child(plist, way[k][d], d, k) = way[k][d + 1]
    BY DEF WayInv
  <2>3. way[k][d + 1] \in PAddr
    BY <2>1, WayEnd
  <2> QED BY <1>2, <2>1, <2>2, <2>3
<1>7. \A u \in Threads : OnWay(u)'
  BY <1>4, SameLonger, StepOthers, StepOnWay, OthersOnWay
<1>8. WayInv'
  BY <1>2, <1>4, <1>5, <1>6, <1>7, WayStays
<1> QED BY <1>4, <1>8

\* The way of key k leads through the bucket of thread t and ends there.
EndsAt(k, t) == <<way[k][Len(way[k])], level_hash(k, Len(way[k]), plist[way[k][Len(way[k])]].size)>> = At(t)

\* publish makes the ways that end at the bucket one longer.
LEMMA PublishLengthens ==
  ASSUME IndInv, WayInv, NEW t \in Threads, publish(t), way' = [k \in Keys |-> Lengthen(k)], NEW k \in Keys
  PROVE  /\ crit[t].next \in PAddr
         /\ base_at(t) \notin PAddr
         /\ EndsAt(k, t) => way'[k] = Append(way[k], crit[t].next) /\ Len(way[k]) = walk[t].depth
         /\ ~EndsAt(k, t) => way'[k] = way[k]
<1> DEFINE w == way[k]
           d == Len(w)
           n == crit[t].next
<1>1. /\ pc[t] = "publish" /\ BaseFrame(walk[t].curr, bucket(t), n)
  BY OwnFrames DEF publish
<1>2. n \in PAddr
  BY <1>1 DEF IndInv, ThreadInv
<1>3. base_at(t) \notin PAddr
  <2>1. base_at(t) \in EAddr \cup {Null}
    BY <1>1, HeldIsElist DEF InCrit, base_at
  <2> QED BY <2>1, ConstAssumption
<1>4. d \in 1..Len(w)
  BY WayEnd
<1>5. child(plist, w[d], d, k) \notin PAddr
  BY DEF WayInv, end
<1>6. way'[k] = Lengthen(k)
  OBVIOUS
<1>7. CASE EndsAt(k, t)
  <2>1. child(plist', w[d], d, k) = n /\ d = walk[t].depth
    BY <1>1, <1>4, <1>7, BucketOnWay DEF EndsAt
  <2> QED BY <1>2, <1>3, <1>6, <1>7, <2>1 DEF Lengthen
<1>8. CASE ~EndsAt(k, t)
  <2>1. child(plist', w[d], d, k) = child(plist, w[d], d, k)
    BY <1>1, <1>4, <1>8, BucketOnWay DEF EndsAt
  <2> QED BY <1>2, <1>3, <1>5, <1>6, <1>8, <2>1 DEF Lengthen
<1> QED BY <1>7, <1>8

\* A way after publish: its old part, and the new P-list at its end.
LEMMA PublishedWay ==
  ASSUME IndInv, WayInv, NEW t \in Threads, publish(t), way' = [k \in Keys |-> Lengthen(k)], NEW k \in Keys
  PROVE  /\ way'[k] \in Seq(PAddr) /\ Len(way[k]) \in Nat /\ Len(way[k]) >= 1
         /\ \A d \in 1..Len(way[k]) : way'[k][d] = way[k][d]
         /\ EndsAt(k, t) => Len(way'[k]) = Len(way[k]) + 1 /\ way'[k][Len(way[k]) + 1] = crit[t].next
         /\ ~EndsAt(k, t) => Len(way'[k]) = Len(way[k])
<1> DEFINE w == way[k]
           n == crit[t].next
<1>1. w \in Seq(PAddr) /\ Len(w) \in Nat /\ Len(w) >= 1
  BY WayEnd DEF WayInv
<1>2. n \in PAddr
  BY PublishLengthens
<1>3. CASE EndsAt(k, t)
  <2>1. way'[k] = Append(w, n)
    BY <1>3, PublishLengthens
  <2>2. Append(w, n) \in Seq(PAddr) /\ Len(Append(w, n)) = Len(w) + 1 /\ Append(w, n)[Len(w) + 1] = n
    <3> HIDE DEF w, n
    <3> QED BY <1>1, <1>2
  <2>3. \A d \in 1..Len(w) : Append(w, n)[d] = w[d]
    <3> HIDE DEF w, n
    <3> QED BY <1>1, <1>2
  <2> QED BY <1>1, <1>3, <2>1, <2>2, <2>3
<1>4. CASE ~EndsAt(k, t)
  BY <1>1, <1>4, PublishLengthens
<1> QED BY <1>3, <1>4

LEMMA PublishWays ==
  ASSUME IndInv, WayInv, PrivateInv, NEW t \in Threads, Step(t), publish(t), FillInv(t),
         way' = [k \in Keys |-> Lengthen(k)]
  PROVE  WayInv' /\ Longer
<1> DEFINE n == crit[t].next
           c == walk[t].curr
<1>1. pc[t] = "publish" /\ BaseFrame(c, bucket(t), n) /\ pc[t] # "idle"
  BY OwnFrames DEF publish
<1>2. n \in PAddr /\ plist[n].size >= 2 /\ n # c /\ plist[n].size \in Nat
  <2>1. /\ n \in PAddr /\ plist[n].size = 2 * walk[t].count /\ walk[t].count \in Nat /\ walk[t].count >= 2
    BY <1>1 DEF IndInv, ThreadInv, TypeOK
  <2> QED BY <1>1, <2>1 DEF PrivateInv
<1>3. plist'[n].size = plist[n].size /\ \A b \in DOMAIN plist[n].base : plist'[n].base[b] = plist[n].base[b]
  <2>1. DOMAIN plist[n].base = DOMAIN plist[n].lock
    BY <1>2, SameDomain DEF IndInv
  <2> QED BY <1>1, <1>2, <2>1 DEF BaseFrame
<1>4. base_at(t) \notin PAddr
  BY PublishLengthens, ConstAssumption, <1>1, HeldIsElist DEF InCrit, base_at
<1>5. ASSUME NEW k \in Keys, NEW d \in 1..Len(way[k])
      PROVE  way[k][d] # n
  BY <1>1, WayNotPrivate
<1>6. ASSUME NEW k \in Keys, NEW d \in 1..Len(way'[k])
      PROVE  plist'[way'[k][d]].size >= 2
  <2>1. CASE d \in 1..Len(way[k])
    <3>1. way'[k][d] = way[k][d] /\ plist'[way[k][d]].size = plist[way[k][d]].size
      BY <1>1, <2>1, PublishedWay, BucketOnWay
    <3> QED BY <2>1, <3>1, WayPlace
  <2>2. CASE d \notin 1..Len(way[k])
    <3>1. way'[k][d] = n
      BY <2>2, PublishedWay
    <3> QED BY <1>2, <1>3, <3>1
  <2> QED BY <2>1, <2>2
<1>7. ASSUME NEW k \in Keys, NEW d \in 1..(Len(way'[k]) - 1)
      PROVE  child(plist', way'[k][d], d, k) = way'[k][d + 1]
  <2>1. d \in 1..Len(way[k]) /\ way'[k][d] = way[k][d]
    BY PublishedWay
  <2>2. CASE d = Len(way[k])
    <3>1. EndsAt(k, t) /\ way'[k][d + 1] = n
      BY <2>2, PublishedWay
    <3>2. child(plist', way[k][d], d, k) = n
      BY <1>1, <2>1, <2>2, <3>1, BucketOnWay DEF EndsAt
    <3> QED BY <2>1, <3>1, <3>2
  <2>3. CASE d # Len(way[k])
    <3>1. d \in 1..(Len(way[k]) - 1) /\ d + 1 \in 1..Len(way[k])
      BY <2>1, <2>3, WayEnd
    <3>2. child(plist, way[k][d], d, k) = way[k][d + 1] /\ way[k][d + 1] \in PAddr
      BY <3>1, WayEnd DEF WayInv
    <3>3. child(plist', way[k][d], d, k) = child(plist, way[k][d], d, k)
      BY <1>1, <1>4, <2>1, <3>2, BucketOnWay
    <3>4. way'[k][d + 1] = way[k][d + 1]
      BY <3>1, PublishedWay
    <3> QED BY <2>1, <3>2, <3>3, <3>4
  <2> QED BY <2>2, <2>3
<1>8. ASSUME NEW k \in Keys PROVE end(k)' \notin PAddr
  <2> DEFINE d == Len(way[k])
  <2>1. end(k)' = child(plist', way'[k][Len(way'[k])], Len(way'[k]), k) /\ d \in Nat
    BY WayEnd DEF end
  <2>2. CASE EndsAt(k, t)
    <3> DEFINE b == level_hash(k, d + 1, plist[n].size)
    <3>1. end(k)' = plist'[n].base[b]
      BY <1>3, <2>1, <2>2, PublishedWay DEF child
    <3>2. b \in DOMAIN plist[n].base
      <4>1. b \in 0..(plist[n].size - 2)
        <5>1. d + 1 \in Nat /\ k \in Nat
          BY <2>1, KeyNat
        <5> HIDE DEF d, n
        <5> QED BY <1>2, <5>1, LevelHashRange DEF n
      <4>2. DOMAIN plist[n].base = 0..(plist[n].size - 1)
        BY <1>2 DEF IndInv, TypeOK, PListOf
      <4> QED BY <1>2, <4>1, <4>2
    <3>3. plist[n].base[b] \in EAddr \cup {Null}
      BY <1>1, <3>2 DEF FillInv
    <3> QED BY <1>3, <3>1, <3>2, <3>3, ConstAssumption
  <2>3. CASE ~EndsAt(k, t)
    <3>1. way'[k] = way[k]
      BY <2>3, PublishLengthens
    <3>2. child(plist', way[k][d], d, k) = child(plist, way[k][d], d, k)
      BY <1>1, <2>3, WayEnd, BucketOnWay DEF EndsAt
    <3>3. end(k)' = end(k)
      BY <2>1, <3>1, <3>2 DEF end
    <3> QED BY <3>3 DEF WayInv
  <2> QED BY <2>2, <2>3
<1>9. ASSUME NEW k \in Keys, NEW j \in Keys, NEW d \in 1..Len(way'[k]), NEW e \in 1..Len(way'[j]),
             way'[k][d] = way'[j][e]
      PROVE  d = e
  <2>1. ASSUME NEW i \in Keys, NEW f \in 1..Len(way'[i])
        PROVE  \/ f \in 1..Len(way[i]) /\ way'[i][f] = way[i][f] /\ way'[i][f] # n
               \/ f = walk[t].depth + 1 /\ way'[i][f] = n
    <3>1. CASE f \in 1..Len(way[i])
      BY <1>5, <3>1, PublishedWay
    <3>2. CASE f \notin 1..Len(way[i])
      <4>1. EndsAt(i, t) /\ f = Len(way[i]) + 1 /\ way'[i][f] = n
        BY <3>2, PublishedWay
      <4> QED BY <4>1, PublishLengthens
    <3> QED BY <3>1, <3>2
  <2>2. CASE way'[k][d] = n
    BY <1>9, <2>1, <2>2
  <2>3. CASE way'[k][d] # n
    <3>1. d \in 1..Len(way[k]) /\ e \in 1..Len(way[j]) /\ way[k][d] = way[j][e]
      BY <1>9, <2>1, <2>3
    <3> QED BY <3>1, WayDepth
  <2> QED BY <2>2, <2>3
<1>10. Longer
  BY PublishedWay DEF Longer
<1>11. \A u \in Threads : OnWay(u)'
  BY <1>10, StepOthers, StepOnWay, OthersOnWay
<1>12. way' \in [Keys -> Seq(PAddr)]
  BY PublishedWay
<1>13. \A k \in Keys : Len(way'[k]) >= 1 /\ way'[k][1] = Root
  <2> SUFFICES ASSUME NEW k \in Keys PROVE Len(way'[k]) >= 1 /\ way'[k][1] = Root
    OBVIOUS
  <2>1. way[k][1] = Root /\ 1 \in 1..Len(way[k])
    BY WayEnd DEF WayInv
  <2> QED BY <2>1, PublishedWay
<1> QED BY <1>6, <1>7, <1>8, <1>9, <1>10, <1>11, <1>12, <1>13 DEF WayInv

-----------------------------------------------------------------------------
(* FillInv *)

\* The bucket of a key in the P-list that a rehash fills.
LEMMA FillBucket ==
  ASSUME IndInv, NEW t \in Threads, pc[t] \in {"rehash", "publish"}, NEW k \in Keys
  PROVE  /\ crit[t].next \in PAddr /\ plist[crit[t].next].size = 2 * walk[t].count
         /\ level_hash(k, walk[t].depth + 1, 2 * walk[t].count) \in DOMAIN plist[crit[t].next].base
<1> DEFINE n == crit[t].next
           c == 2 * walk[t].count
           d == walk[t].depth + 1
<1>1. n \in PAddr /\ plist[n].size = c /\ walk[t].count >= 2
  BY DEF IndInv, ThreadInv
<1>2. walk[t].count \in Nat /\ walk[t].depth \in Nat
  BY DEF IndInv, TypeOK
<1>3. c \in Nat /\ c >= 2 /\ d \in Nat /\ k \in Nat
  BY <1>1, <1>2, KeyNat
<1> HIDE DEF c, d, n
<1>4. level_hash(k, d, c) \in 0..(c - 2)
  BY <1>3, LevelHashRange
<1>5. DOMAIN plist[n].base = 0..(c - 1)
  BY <1>1 DEF IndInv, TypeOK, PListOf
<1>6. level_hash(k, d, c) \in DOMAIN plist[n].base
  BY <1>3, <1>4, <1>5
<1> QED BY <1>1, <1>6 DEF c, d, n

\* A thread does not touch what another has in hand to rehash.
LEMMA FillOthers ==
  ASSUME IndInv, OwnInv, PrivateInv, NEW t \in Threads, Others(t), PairsStep(t), BaseStep(t),
         NEW u \in Threads, u # t, FillInv(u)
  PROVE  FillInv(u)'
<1> SUFFICES ASSUME pc'[u] \in {"rehash", "publish"} PROVE FillInv(u)'
  BY DEF FillInv
<1> DEFINE n == crit[u].next
           h(k) == level_hash(k, walk[u].depth + 1, 2 * walk[u].count)
<1>1. pc'[u] = pc[u] /\ walk'[u] = walk[u] /\ crit'[u] = crit[u]
  BY DEF Others
<1>2. crit[u].base \in EAddr /\ crit[u].base # Null
  BY <1>1, ConstAssumption DEF FillInv
<1>3. elist'[crit[u].base].pairs = elist[crit[u].base].pairs
  BY <1>1, <1>2, HandUntouched DEF InCrit
<1>4. /\ plist'[n].base = plist[n].base
      /\ \A b \in DOMAIN plist[n].base : plist[n].base[b] \in EAddr =>
            elist'[plist[n].base[b]].pairs = elist[plist[n].base[b]].pairs
  BY <1>1, FillUntouched
<1>5. \A b \in DOMAIN plist[n].base : plist[n].base[b] \in EAddr \cup {Null}
  BY <1>1 DEF FillInv
<1>6. ASSUME NEW k \in Keys PROVE h(k) \in DOMAIN plist[n].base
  BY <1>1, FillBucket
<1>7. ASSUME NEW k \in Keys, NEW v \in Vals[k]
      PROVE  Among(crit[u].pairs, crit[u].i - 1, k, v)
               <=> /\ plist'[n].base[h(k)] # Null
                   /\ Among(elist'[plist'[n].base[h(k)]].pairs, Len(elist'[plist'[n].base[h(k)]].pairs), k, v)
  <2> DEFINE e == plist[n].base[h(k)]
  <2>1. Among(crit[u].pairs, crit[u].i - 1, k, v) <=> e # Null /\ Among(elist[e].pairs, Len(elist[e].pairs), k, v)
    BY <1>1 DEF FillInv
  <2>2. e \in EAddr \cup {Null} /\ (e \in EAddr => elist'[e].pairs = elist[e].pairs) /\ plist'[n].base[h(k)] = e
    BY <1>4, <1>5, <1>6
  <2> HIDE DEF e, h
  <2> QED BY <2>1, <2>2
<1>8. \A b \in DOMAIN plist'[n].base : plist'[n].base[b] \in EAddr \cup {Null}
  BY <1>4, <1>5
<1> QED BY <1>1, <1>2, <1>3, <1>7, <1>8 DEF FillInv

\* rehash starts with nothing moved.
LEMMA RehashAllocFill ==
  ASSUME IndInv, OwnInv, NEW t \in Threads, rehash_alloc(t)
  PROVE  FillInv(t)'
<1> DEFINE n == FreshP
           new == InitPList(Home[t], walk[t].count * 2)
           s == elist[crit[t].base].pairs
<1>1. /\ n \in PAddr /\ plist' = [plist EXCEPT ![n] = new] /\ pc'[t] = "rehash"
      /\ crit[t].base # Null /\ walk' = walk /\ elist' = elist
  BY DEF rehash_alloc, HasFreeP, FreshP, Goto, IndInv, TypeOK
<1>2. crit'[t].pairs = s /\ crit'[t].next = n /\ crit'[t].i = 1 /\ crit'[t].base = crit[t].base
  <2>1. crit \in [Threads -> [base : Ptr, pairs : Seq(Pair), next : PAddr \cup {Null}, i : Nat \ {0}]]
    BY DEF IndInv, TypeOK
  <2>2. crit' = [crit EXCEPT ![t].next = n, ![t].i = 1, ![t].pairs = s]
    BY DEF rehash_alloc
  <2> HIDE DEF n, s
  <2> QED BY <2>1, <2>2
<1>3. new.base = [b \in 0..(walk[t].count * 2 - 1) |-> Null]
  BY DEF InitPList
<1>4. crit[t].base \in EAddr /\ s \in Seq(Pair)
  BY <1>1, HandInUse DEF IndInv, TypeOK
<1>5. walk[t].count \in Nat /\ walk[t].count >= 2 /\ walk[t].depth \in Nat
  BY DEF IndInv, ThreadInv, TypeOK
<1> HIDE DEF n, new, s
<1>6. plist'[n] = new
  BY <1>1 DEF IndInv, TypeOK
<1>7. 1 <= Len(s) + 1
  BY <1>4
<1>8. \A k, v : ~Among(s, 1 - 1, k, v)
  BY DEF Among
<1>9. ASSUME NEW k \in Keys
      PROVE  new.base[level_hash(k, walk[t].depth + 1, 2 * walk[t].count)] = Null
  <2> DEFINE c == 2 * walk[t].count
             d == walk[t].depth + 1
  <2>1. c \in Nat /\ c >= 2 /\ d \in Nat /\ k \in Nat /\ walk[t].count * 2 = c
    BY <1>5, KeyNat
  <2> HIDE DEF c, d
  <2>2. level_hash(k, d, c) \in 0..(c - 2)
    BY <2>1, LevelHashRange
  <2>3. level_hash(k, d, c) \in 0..(c - 1)
    BY <2>1, <2>2
  <2> QED BY <1>3, <2>1, <2>3 DEF c, d
<1>10. \A b \in DOMAIN new.base : new.base[b] = Null
  BY <1>3
<1>11. crit'[t].base \in EAddr /\ elist'[crit'[t].base].pairs = crit'[t].pairs
  BY <1>1, <1>2, <1>4 DEF s
<1> QED BY <1>1, <1>2, <1>6, <1>7, <1>8, <1>9, <1>10, <1>11 DEF FillInv

LEMMA AmongNext ==
  ASSUME NEW c, NEW i \in Nat, i >= 1, NEW k, NEW v
  PROVE  Among(c, i, k, v) <=> Among(c, i - 1, k, v) \/ (c[i].key = k /\ c[i].val = v)
<1>1. 1..i = 1..(i - 1) \cup {i}
  OBVIOUS
<1> QED BY <1>1, Zenon DEF Among

\* One turn of rehash's loop: one more pair is where its key leads.
LEMMA RehashMoveFill ==
  ASSUME IndInv, OwnInv, ContentInv, NEW t \in Threads, rehash_move(t), FillInv(t)
  PROVE  FillInv(t)'
<1> DEFINE n == crit[t].next
           c == crit[t].pairs
           i == crit[t].i
           h(k) == level_hash(k, walk[t].depth + 1, 2 * walk[t].count)
           base == crit[t].base
<1>1. CopyInv(t) /\ PrivateInv
  BY DEF ContentInv
<1>2. PICK b, e : MovesTo(t, b, e)
  BY <1>1, RehashMoves
<1>3. /\ pc[t] = "rehash" /\ pc' = pc /\ walk' = walk /\ crit'[t] = [crit[t] EXCEPT !.i = i + 1]
      /\ i \in 1..Len(c) /\ n \in PAddr /\ c[i] \in Pair
  BY <1>1, RehashMoves
<1>4. crit[t] \in [base : Ptr, pairs : Seq(Pair), next : PAddr \cup {Null}, i : Nat \ {0}]
  BY DEF IndInv, TypeOK
<1>5. crit'[t].pairs = c /\ crit'[t].next = n /\ crit'[t].i = i + 1 /\ crit'[t].base = base
  BY <1>3, <1>4
<1>6. walk[t].count \in Nat /\ walk[t].count >= 2 /\ walk[t].depth \in Nat /\ plist[n].size = 2 * walk[t].count
  BY <1>3 DEF IndInv, ThreadInv, TypeOK
<1>7. /\ b = h(c[i].key) /\ b \in DOMAIN plist[n].base /\ e \in EAddr
      /\ plist'[n].base = [plist[n].base EXCEPT ![b] = e]
      /\ \A x \in EAddr : x # e => elist'[x] = elist[x]
      /\ \/ plist[n].base[b] = Null /\ elist[e].state = "free" /\ elist'[e].pairs = <<c[i]>>
         \/ plist[n].base[b] = e /\ elist'[e].pairs = Append(elist[e].pairs, c[i])
  <2>1. walk[t].count * 2 = 2 * walk[t].count
    BY <1>6
  <2> QED BY <1>2, <2>1 DEF MovesTo
<1>8. c \in Seq(Pair) /\ \A x \in EAddr : elist[x].pairs \in Seq(Pair)
  BY <1>4 DEF IndInv, TypeOK
<1>9. /\ base \in EAddr /\ elist[base].pairs = c
      /\ \A q \in DOMAIN plist[n].base : plist[n].base[q] \in EAddr \cup {Null}
      /\ \A k \in Keys : \A v \in Vals[k] :
            Among(c, i - 1, k, v) <=> plist[n].base[h(k)] # Null
                /\ Among(elist[plist[n].base[h(k)]].pairs, Len(elist[plist[n].base[h(k)]].pairs), k, v)
  BY <1>3 DEF FillInv
<1>10. ASSUME NEW k \in Keys PROVE h(k) \in DOMAIN plist[n].base
  BY <1>3, FillBucket
<1>11. base # e
  <2>1. LeadsTo(walk[t].curr, bucket(t), base) /\ walk[t].curr \in PAddr /\ bucket(t) \in DOMAIN plist[walk[t].curr].base
    BY AtBucket, HandLeads
  <2>2. elist[base].state # "free"
    BY <1>9, <2>1, OneBucket
  <2>3. ASSUME plist[n].base[b] = base PROVE FALSE
    <3>1. LeadsTo(n, b, base)
      BY <2>3 DEF LeadsTo
    <3> DEFINE p == walk[t].curr
    <3> HIDE DEF n, base, c, i, h, p
    <3>2. p \in PAddr /\ bucket(t) \in DOMAIN plist[p].base /\ LeadsTo(p, bucket(t), base)
      BY <2>1 DEF p
    <3>3. p = n
      BY <1>3, <1>7, <1>9, <3>1, <3>2, OneBucket
    <3> QED BY <1>1, <1>3, <3>3 DEF PrivateInv, p, n
  <2> QED BY <1>7, <2>2, <2>3
<1>12. ASSUME NEW q \in DOMAIN plist[n].base, q # b, plist[n].base[q] \in EAddr
       PROVE  plist[n].base[q] # e
  <2> DEFINE x == plist[n].base[q]
  <2>1. LeadsTo(n, q, x) /\ x \in EAddr
    BY <1>12 DEF LeadsTo
  <2> HIDE DEF x, n, c, i, h, base
  <2>2. elist[x].state # "free"
    BY <1>3, <1>12, <2>1, OneBucket
  <2>3. ASSUME plist[n].base[b] = x PROVE FALSE
    <3>1. LeadsTo(n, b, x)
      BY <2>3 DEF LeadsTo
    <3> QED BY <1>3, <1>7, <1>12, <2>1, <3>1, OneBucket
  <2> QED BY <1>7, <2>2, <2>3 DEF x
<1> HIDE DEF n, c, i, h, base
<1>13. elist'[base].pairs = c /\ i + 1 <= Len(c) + 1 /\ i \in Nat /\ i >= 1 /\ (i + 1) - 1 = i
  BY <1>3, <1>7, <1>8, <1>9, <1>11
<1>14. \A q \in DOMAIN plist'[n].base : plist'[n].base[q] \in EAddr \cup {Null}
  BY <1>7, <1>9
<1>15. ASSUME NEW k \in Keys, NEW v \in Vals[k]
       PROVE  Among(c, i, k, v) <=> plist'[n].base[h(k)] # Null
                /\ Among(elist'[plist'[n].base[h(k)]].pairs, Len(elist'[plist'[n].base[h(k)]].pairs), k, v)
  <2>1. Among(c, i, k, v) <=> Among(c, i - 1, k, v) \/ (c[i].key = k /\ c[i].val = v)
    BY <1>13, AmongNext
  <2>2. CASE h(k) = b
    <3>1. plist'[n].base[h(k)] = e /\ e # Null
      BY <1>7, <1>10, <2>2, ConstAssumption
    <3>2. In(elist'[e].pairs, k, v) <=> Among(c, i - 1, k, v) \/ (c[i].key = k /\ c[i].val = v)
      <4>1. CASE plist[n].base[b] = Null /\ elist'[e].pairs = <<c[i]>>
        <5>1. ~Among(c, i - 1, k, v)
          BY <1>9, <2>2, <4>1
        <5>2. In(<<c[i]>>, k, v) <=> c[i].key = k /\ c[i].val = v
          BY <1>3 DEF In, Among
        <5> QED BY <4>1, <5>1, <5>2
      <4>2. CASE plist[n].base[b] = e /\ elist'[e].pairs = Append(elist[e].pairs, c[i])
        <5>1. Among(c, i - 1, k, v) <=> In(elist[e].pairs, k, v)
          BY <1>9, <2>2, <3>1, <4>2 DEF In
        <5>2. elist[e].pairs \in Seq(Pair)
          BY <1>7, <1>8
        <5>3. In(Append(elist[e].pairs, c[i]), k, v) <=> In(elist[e].pairs, k, v) \/ (c[i].key = k /\ c[i].val = v)
          BY <1>3, <5>2, InAppend
        <5> QED BY <4>2, <5>1, <5>3
      <4> QED BY <1>7, <4>1, <4>2
    <3> QED BY <2>1, <3>1, <3>2 DEF In
  <2>3. CASE h(k) # b
    <3> DEFINE x == plist[n].base[h(k)]
    <3>1. plist'[n].base[h(k)] = x /\ x \in EAddr \cup {Null}
      BY <1>7, <1>9, <1>10, <2>3
    <3>2. x # Null => elist'[x] = elist[x]
      BY <1>7, <1>10, <1>12, <2>3, <3>1
    <3>3. c[i].key # k
      BY <1>7, <2>3
    <3>4. Among(c, i - 1, k, v) <=> x # Null /\ Among(elist[x].pairs, Len(elist[x].pairs), k, v)
      BY <1>9
    <3> HIDE DEF x
    <3> QED BY <2>1, <3>1, <3>2, <3>3, <3>4
  <2> QED BY <2>2, <2>3
<1>16. pc'[t] = "rehash"
  BY <1>3
<1>17. walk' = walk
  BY <1>3
<1> QED BY <1>5, <1>9, <1>13, <1>14, <1>15, <1>16, <1>17 DEF FillInv, n, c, i, h, base

LEMMA RehashFreeFill ==
  ASSUME IndInv, NEW t \in Threads, rehash_free(t), FillInv(t)
  PROVE  FillInv(t)'
<1>1. /\ pc[t] = "rehash" /\ pc'[t] = "publish" /\ walk' = walk /\ crit' = crit /\ plist' = plist
      /\ crit[t].i > Len(crit[t].pairs)
  BY DEF rehash_free, Goto, IndInv, TypeOK
<1>2. \A e \in EAddr : elist'[e].pairs = elist[e].pairs
  <2> DEFINE x == crit[t].base
  <2>1. elist' = elist \/ elist' = [elist EXCEPT ![x].state = "freed"]
    BY DEF rehash_free
  <2> HIDE DEF x
  <2>2. ASSUME NEW e \in EAddr PROVE elist'[e].pairs = elist[e].pairs
    <3>1. elist'[e] = elist[e] \/ elist'[e] = [elist[e] EXCEPT !.state = "freed"]
      BY <2>1 DEF IndInv, TypeOK
    <3>2. elist[e] \in [id : Nat, state : {"free", "live", "freed"}, pairs : Seq(Pair)]
      BY DEF IndInv, TypeOK
    <3> QED BY <3>1, <3>2
  <2> QED BY <2>2
<1> DEFINE n == crit[t].next
           h(k) == level_hash(k, walk[t].depth + 1, 2 * walk[t].count)
<1>3. crit[t].i = Len(crit[t].pairs) + 1
  <2>1. crit[t].i <= Len(crit[t].pairs) + 1
    BY <1>1 DEF FillInv
  <2>2. crit[t].pairs \in Seq(Pair) /\ crit[t].i \in Nat
    BY DEF IndInv, TypeOK
  <2> QED BY <1>1, <2>1, <2>2
<1>4. ASSUME NEW k \in Keys PROVE plist[n].base[h(k)] \in EAddr \cup {Null}
  BY <1>1, FillBucket DEF FillInv
<1>5. ASSUME NEW k \in Keys, NEW v \in Vals[k]
      PROVE  Among(crit[t].pairs, crit[t].i - 1, k, v)
               <=> /\ plist[n].base[h(k)] # Null
                   /\ Among(elist'[plist[n].base[h(k)]].pairs, Len(elist'[plist[n].base[h(k)]].pairs), k, v)
  <2> DEFINE e == plist[n].base[h(k)]
  <2>1. Among(crit[t].pairs, crit[t].i - 1, k, v) <=> e # Null /\ Among(elist[e].pairs, Len(elist[e].pairs), k, v)
    BY <1>1 DEF FillInv
  <2>2. e # Null => elist'[e].pairs = elist[e].pairs
    BY <1>2, <1>4
  <2> HIDE DEF h
  <2> QED BY <2>1, <2>2
<1> QED BY <1>1, <1>2, <1>3, <1>5 DEF FillInv

LEMMA StepFill ==
  ASSUME IndInv, OwnInv, ContentInv, NEW t \in Threads, Step(t), \A u \in Threads : FillInv(u)
  PROVE  \A u \in Threads : FillInv(u)'
<1>1. CopyInv(t) /\ PrivateInv
  BY DEF ContentInv
<1>2. Others(t) /\ PairsStep(t) /\ BaseStep(t)
  BY <1>1, StepOthers, StepPairs, StepBases
<1>3. \A u \in Threads : u # t => FillInv(u)'
  BY <1>1, <1>2, FillOthers
<1>4. CASE rehash(t)
  BY <1>3, <1>4, RehashAllocFill, RehashMoveFill, RehashFreeFill DEF rehash
<1>5. CASE Traverse(t) \/ publish(t) \/ unlock_P(t) \/ unlock_E(t)
  <2>1. pc'[t] \notin {"rehash", "publish"}
    BY <1>5 DEF Traverse, acquire_E, acquire_P, refetch, descend, read_elist, publish, unlock_P, unlock_E,
                Goto, IndInv, TypeOK
  <2> QED BY <1>3, <2>1 DEF FillInv
<1>6. CASE \/ miss(t) \/ contains_hit(t) \/ insert_exists(t) \/ remove_hit(t) \/ insert_append(t)
           \/ insert_empty(t)
  <2>1. pc'[t] \notin {"rehash", "publish"}
    BY <1>6 DEF miss, contains_hit, insert_exists, remove_hit, insert_append, insert_empty, Decide, Goto,
                IndInv, TypeOK
  <2> QED BY <1>3, <2>1 DEF FillInv
<1> QED BY <1>4, <1>5, <1>6 DEF Step, contains, insert, remove

-----------------------------------------------------------------------------
(* FreshInv and FilledInv *)

\* A thread that stays at its bucket, and its bucket's pointer.
Stays(u) ==
    /\ pc[u] # "idle" /\ call'[u] = call[u] /\ walk'[u].curr = walk[u].curr
    /\ walk'[u].depth = walk[u].depth /\ walk'[u].count = walk[u].count

LEMMA BaseAtKept ==
  ASSUME IndInv, WayInv, WayKept, NEW u \in Threads, Stays(u)
  PROVE  base_at(u)' = base_at(u)
<1> DEFINE k == call[u].key
           d == walk[u].depth
<1>1. k \in Keys /\ d \in 1..Len(way[k]) /\ way[k][d] = walk[u].curr
  BY AtWay DEF Stays
<1>2. plist'[walk[u].curr].base = plist[walk[u].curr].base
  BY <1>1 DEF WayKept
<1>3. bucket(u)' = bucket(u)
  BY DEF Stays, bucket
<1> QED BY <1>2, <1>3 DEF base_at, Stays

LEMMA BaseAtWritten ==
  ASSUME IndInv, NEW t \in Threads, NEW v, BaseFrame(walk[t].curr, bucket(t), v),
         NEW u \in Threads, Stays(u)
  PROVE  /\ At(u) = At(t) => base_at(u)' = v /\ base_at(u) = base_at(t)
         /\ At(u) # At(t) => base_at(u)' = base_at(u)
<1> DEFINE p == walk[u].curr
           b == bucket(u)
           c == walk[t].curr
           q == bucket(t)
<1>1. b' = b /\ walk'[u].curr = p
  BY DEF Stays, bucket
<1>2. p \in PAddr /\ b \in DOMAIN plist[p].lock /\ At(u) = <<p, b>> /\ At(t) = <<c, q>>
  BY AtBucket
<1>3. base_at(u)' = plist'[p].base[b] /\ base_at(u) = plist[p].base[b] /\ base_at(t) = plist[c].base[q]
  BY <1>1 DEF base_at
<1>4. BaseFrame(c, q, v)
  OBVIOUS
<1> HIDE DEF p, b, c, q
<1>5. CASE p = c /\ b = q
  BY <1>2, <1>3, <1>4, <1>5 DEF BaseFrame
<1>6. CASE ~(p = c /\ b = q)
  <2>1. <<p, b>> # <<c, q>>
    BY <1>6
  <2>2. plist'[p].base[b] = plist[p].base[b]
    BY <1>2, <1>4, <2>1 DEF BaseFrame
  <2> QED BY <1>2, <1>3, <2>1, <2>2
<1> QED BY <1>5, <1>6

LEMMA OtherStays ==
  ASSUME NEW t \in Threads, Others(t), NEW u \in Threads, u # t, pc[u] # "idle"
  PROVE  /\ Stays(u) /\ walk'[u] = walk[u] /\ crit'[u] = crit[u] /\ pc'[u] = pc[u] /\ call'[u] = call[u]
BY DEF Others, Stays

\* The E-list at the bucket of u, when it is the work of others, stays so.
StillOthers(u) ==
    base_at(u) \in EAddr /\ ByOthers(u, base_at(u)) =>
        u \notin writers'[base_at(u)] /\ \E v \in Threads : v \in writers'[base_at(u)] /\ "insert" \in Mix[v]

\* The E-list a bucket leads to is in use.
LEMMA BaseInUse ==
  ASSUME IndInv, OwnInv, NEW u \in Threads, base_at(u) \in EAddr
  PROVE  elist[base_at(u)].state # "free" /\ LeadsTo(walk[u].curr, bucket(u), base_at(u))
<1> DEFINE p == walk[u].curr
           b == bucket(u)
           e == base_at(u)
<1>1. p \in PAddr /\ b \in DOMAIN plist[p].base
  BY AtBucket
<1>2. LeadsTo(p, b, e)
  BY DEF LeadsTo, base_at
<1> HIDE DEF p, b, e
<1>3. elist[e].state # "free"
  BY <1>1, <1>2, OneBucket DEF e
<1> QED BY <1>2, <1>3 DEF e, p, b

\* A step of t makes nobody but t and t's authors a writer.
LEMMA SignedBy ==
  ASSUME NEW t \in Threads, Others(t), NEW e \in EAddr, elist[e].state # "free"
  PROVE  /\ writers[e] \subseteq Sign(e)
         /\ Puts(e) => Sign(e) \subseteq writers[e] \cup Authors(t)
         /\ ~Puts(e) => Sign(e) = writers[e]
<1>1. \A v \in Threads : v # t => ~Moves(v)
  BY DEF Others, Moves
<1>2. UNION {Authors(v) : v \in {u \in Threads : Moves(u)}} \subseteq Authors(t)
  BY <1>1
<1> QED BY <1>2 DEF Sign

\* Only the thread that has it in hand puts pairs into the E-list of a bucket.
LEMMA OthersStill ==
  ASSUME IndInv, OwnInv, PrivateInv, writers' = [e \in EAddr |-> Sign(e)],
         NEW t \in Threads, Others(t), PairsStep(t), NEW u \in Threads, u # t
  PROVE  StillOthers(u)
<1> SUFFICES ASSUME base_at(u) \in EAddr, ByOthers(u, base_at(u))
             PROVE  /\ u \notin writers'[base_at(u)]
                    /\ \E v \in Threads : v \in writers'[base_at(u)] /\ "insert" \in Mix[v]
  BY DEF StillOthers
<1> DEFINE e == base_at(u)
<1>1. elist[e].state # "free" /\ LeadsTo(walk[u].curr, bucket(u), e) /\ e \in EAddr
  BY BaseInUse
<1>2. ByOthers(u, e) /\ writers'[e] = Sign(e)
  OBVIOUS
<1> HIDE DEF e
<1>3. ASSUME pc[t] = "rehash", NEW b \in DOMAIN plist[crit[t].next].base, plist[crit[t].next].base[b] = e
      PROVE  FALSE
  <2> DEFINE n == crit[t].next
             p == walk[u].curr
             q == bucket(u)
  <2>1. n \in PAddr /\ LeadsTo(n, b, e) /\ b \in DOMAIN plist[n].base
    BY <1>3 DEF IndInv, ThreadInv, LeadsTo
  <2>2. p # n
    BY <1>3 DEF PrivateInv
  <2>3. p \in PAddr /\ q \in DOMAIN plist[p].base /\ LeadsTo(p, q, e)
    BY <1>1, AtBucket
  <2> HIDE DEF n, p, q
  <2> QED BY <1>1, <2>1, <2>2, <2>3, OneBucket
<1>4. Puts(e) => crit[t].base = e
  BY <1>1, <1>3 DEF PairsStep, Puts
<1>5. Puts(e) => Authors(t) \subseteq {t} \cup writers[e]
  BY <1>4 DEF Authors
<1>6. writers[e] \subseteq Sign(e) /\ Sign(e) \subseteq writers[e] \cup {t}
  BY <1>1, <1>5, SignedBy
<1>7. u \notin Sign(e) /\ \E v \in Threads : v \in Sign(e) /\ "insert" \in Mix[v]
  BY <1>2, <1>6 DEF ByOthers
<1> QED BY <1>2, <1>7 DEF e

\* Steps that write no E-list.
LEMMA QuietStill ==
  ASSUME IndInv, OwnInv, writers' = [e \in EAddr |-> Sign(e)], elist' = elist, NEW u \in Threads
  PROVE  StillOthers(u)
<1>1. base_at(u) \in EAddr => elist[base_at(u)].state # "free"
  BY BaseInUse
<1>2. \A e \in EAddr : ~Puts(e)
  BY DEF Puts, IndInv, TypeOK
<1> QED BY <1>1, <1>2 DEF StillOthers, ByOthers, Sign

\* An insert_empty is the only writer of the E-list it allocates.
LEMMA EmptySigned ==
  ASSUME NEW t \in Threads, Others(t), Moves(t), crit[t].base = Null,
         NEW e \in EAddr, elist[e].state = "free", elist'[e].state # "free"
  PROVE  Sign(e) = {t}
<1>1. \A v \in Threads : Moves(v) <=> v = t
  BY DEF Others, Moves
<1>2. Authors(t) = {t}
  BY DEF Authors
<1>3. {u \in Threads : Moves(u)} = {t}
  BY <1>1
<1>4. UNION {Authors(v) : v \in {u \in Threads : Moves(u)}} = {t}
  BY <1>2, <1>3
<1> QED BY <1>4 DEF Sign, Puts

\* What FreshInv and FilledInv say of a thread that another leaves alone.
LEMMA FreshStay ==
  ASSUME NEW u \in Threads, FreshInv(u), FilledInv(u), ~overwritten' => ~overwritten,
         base_at(u)' = base_at(u), walk'[u].snap = walk[u].snap, walk'[u].copy = walk[u].copy,
         crit'[u].base = crit[u].base, pc[u] # "idle",
         pc[u] = "punlock" /\ crit[u].base # Null => pc'[u] = "punlock",
         pc'[u] = "work" => pc[u] = "work",
         pc'[u] \in {"acquire", "locked"} => pc[u] \in {"acquire", "locked"},
         pc'[u] \in {"acquire", "locked", "work"} => StillOthers(u)
  PROVE  FreshInv(u)' /\ FilledInv(u)'
<1>1. FreshInv(u)'
  BY DEF FreshInv
<1>2. FilledInv(u)'
  BY DEF FilledInv, StillOthers, ByOthers
<1> QED BY <1>1, <1>2

LEMMA IdleFresh ==
  ASSUME IndInv', OwnInv', NEW u \in Threads, pc'[u] = "idle"
  PROVE  FreshInv(u)' /\ FilledInv(u)'
<1>1. crit'[u].base = Null
  BY DEF OwnInv, HandInv, InCrit
<1> QED BY <1>1 DEF FreshInv, FilledInv

\* Steps that write no bucket pointer.
LEMMA KeptFresh ==
  ASSUME IndInv, OwnInv, ContentInv, WayInv, IndInv', OwnInv', NEW t \in Threads, Step(t),
         ~(call[t].op = "insert" /\ insert_empty(t)), ~publish(t),
         \A u \in Threads : FreshInv(u) /\ FilledInv(u), ~overwritten' => ~overwritten,
         writers' = [e \in EAddr |-> Sign(e)]
  PROVE  \A u \in Threads : FreshInv(u)' /\ FilledInv(u)'
<1>1. WayKept /\ Others(t) /\ PairsStep(t) /\ PrivateInv
  BY StepKeepsWays, StepOthers, StepPairs DEF ContentInv
<1>2. ASSUME NEW u \in Threads, u # t PROVE FreshInv(u)' /\ FilledInv(u)'
  <2>1. CASE pc[u] = "idle"
    BY <1>1, <1>2, <2>1, IdleFresh DEF Others
  <2>2. CASE pc[u] # "idle"
    <3>1. Stays(u) /\ walk'[u] = walk[u] /\ crit'[u] = crit[u] /\ pc'[u] = pc[u]
      BY <1>1, <1>2, <2>2, OtherStays
    <3>2. base_at(u)' = base_at(u)
      BY <1>1, <3>1, BaseAtKept
    <3>3. StillOthers(u)
      BY <1>1, <1>2, OthersStill
    <3> QED BY <2>2, <3>1, <3>2, <3>3, FreshStay
  <2> QED BY <2>1, <2>2
<1>3. CASE unlock_E(t)
  <2>1. pc'[t] = "idle"
    BY <1>3 DEF unlock_E, Goto, IndInv, TypeOK
  <2> QED BY <1>2, <2>1, IdleFresh
<1>4. CASE descend(t)
  <2> DEFINE p == crit[t].next
             d == walk[t].depth + 1
             c == walk[t].count * 2
             b == level_hash(call[t].key, d, c)
             snap == IF IsLocalP(t, p) THEN Null ELSE plist[p].base[b]
  <2>1. /\ pc[t] = "descend" /\ pc'[t] = "acquire" /\ call' = call /\ crit'[t] = NoCrit
        /\ walk'[t] = [curr |-> p, depth |-> d, count |-> c,
                       copy |-> ~IsLocalP(t, p), old |-> ~IsLocalP(t, p), snap |-> snap]
    <3>0. t \in DOMAIN pc /\ t \in DOMAIN crit
      BY DEF IndInv, TypeOK
    <3>1. pc[t] = "descend" /\ pc'[t] = "acquire" /\ call' = call /\ crit'[t] = NoCrit
      BY <1>4, <3>0 DEF descend, Goto
    <3>2. walk'[t] = [curr |-> p, depth |-> d, count |-> c,
                      copy |-> ~IsLocalP(t, p), old |-> ~IsLocalP(t, p), snap |-> snap]
      BY <1>4 DEF descend, IndInv, TypeOK
    <3> QED BY <3>1, <3>2
  <2>2. p \in PAddr
    BY <2>1 DEF IndInv, ThreadInv
  <2>3. walk'[t].curr = p /\ bucket(t)' = b /\ walk'[t].snap = snap /\ walk'[t].copy = ~IsLocalP(t, p)
    BY <2>1 DEF bucket
  <2>4. base_at(t)' = plist[p].base[b]
    <3>1. base_at(t)' = plist'[p].base[b]
      BY <2>3 DEF base_at
    <3>2. plist' = [plist EXCEPT ![walk[t].curr].live = @ /\ ~FreesCurr(t)]
      BY <1>4 DEF descend
    <3> HIDE DEF p, b
    <3>3. plist'[p].base = plist[p].base
      <4> DEFINE live == plist[walk[t].curr].live /\ ~FreesCurr(t)
      <4>0. plist' = [plist EXCEPT ![walk[t].curr].live = live]
        BY <3>2
      <4> HIDE DEF live
      <4>1. plist'[p] = plist[p] \/ plist'[p] = [plist[p] EXCEPT !.live = live]
        BY <2>2, <4>0 DEF IndInv, TypeOK
      <4>2. plist[p] \in PListOf(plist[p].size)
        BY <2>2 DEF IndInv, TypeOK
      <4> QED BY <4>1, <4>2 DEF PListOf
    <3> QED BY <3>1, <3>3
  <2>5. crit'[t].base = Null
    BY <2>1 DEF NoCrit
  <2>6. Null \notin EAddr
    BY ConstAssumption
  <2> HIDE DEF p, b, d, c
  <2>7. FreshInv(t)'
    BY <2>3, <2>4, <2>5, <2>6 DEF FreshInv
  <2>8. FilledInv(t)'
    <3>1. CASE IsLocalP(t, p)
      <4>1. ~walk'[t].copy /\ pc'[t] # "work"
        BY <2>1, <2>3, <3>1
      <4> QED BY <4>1 DEF FilledInv
    <3>2. CASE ~IsLocalP(t, p)
      <4>1. walk'[t].snap = base_at(t)' /\ pc'[t] # "work"
        BY <2>1, <2>3, <2>4, <3>2
      <4> QED BY <2>6, <4>1 DEF FilledInv
    <3> QED BY <3>1, <3>2
  <2> QED BY <1>2, <2>7, <2>8
<1>5. CASE read_elist(t)
  <2> DEFINE e == curr_base(t)
  <2>1. /\ pc[t] = "locked" /\ pc'[t] = "work" /\ walk' = walk /\ call' = call /\ plist' = plist /\ elist' = elist
        /\ crit'[t].base = e
    BY <1>5 DEF read_elist, Goto, IndInv, TypeOK
  <2>2. base_at(t) \in EAddr \cup {Null} /\ e \in EAddr \cup {Null}
    BY <2>1, HeldIsElist DEF InCrit, base_at
  <2>3. base_at(t)' = base_at(t)
    BY <2>1 DEF base_at, bucket
  <2>4. e = IF walk[t].copy THEN walk[t].snap ELSE base_at(t)
    BY DEF curr_base, base_at
  <2>5. PAddr \cap EAddr = {} /\ Null \notin PAddr
    BY ConstAssumption
  <2> HIDE DEF e
  <2>6. FreshInv(t)'
    BY <2>1, <2>2, <2>3, <2>4, <2>5 DEF FreshInv
  <2>7. FilledInv(t)'
    <3>1. CASE walk[t].copy
      <4>1. StillOthers(t)
        BY <2>1, QuietStill
      <4> QED BY <2>1, <2>3, <2>4, <3>1, <4>1 DEF FilledInv, StillOthers, ByOthers
    <3>2. CASE ~walk[t].copy
      <4>1. crit'[t].base = Null => base_at(t) \notin EAddr
        BY <2>1, <2>4, <3>2, ConstAssumption
      <4> QED BY <2>1, <2>3, <4>1 DEF FilledInv
    <3> QED BY <3>1, <3>2
  <2> QED BY <1>2, <2>6, <2>7
<1>6. CASE unlock_P(t)
  <2>1. /\ pc[t] = "punlock" /\ pc'[t] = "acquire" /\ crit'[t].base = Null /\ call' = call
        /\ walk'[t].curr = walk[t].curr /\ walk'[t].depth = walk[t].depth /\ walk'[t].count = walk[t].count
        /\ walk'[t].snap = walk[t].snap
    <3>0. t \in DOMAIN pc /\ t \in DOMAIN crit
      BY DEF IndInv, TypeOK
    <3>1. pc[t] = "punlock" /\ pc'[t] = "acquire" /\ crit'[t].base = Null /\ call' = call
      BY <1>6, <3>0 DEF unlock_P, Goto, NoCrit
    <3>2. walk'[t] = [walk[t] EXCEPT !.old = FALSE]
      BY <1>6 DEF unlock_P, IndInv, TypeOK
    <3>3. /\ walk'[t].curr = walk[t].curr /\ walk'[t].depth = walk[t].depth /\ walk'[t].count = walk[t].count
          /\ walk'[t].snap = walk[t].snap
      BY <3>2 DEF IndInv, TypeOK
    <3> QED BY <3>1, <3>3
  <2>2. base_at(t)' = base_at(t)
    BY <1>1, <2>1, BaseAtKept DEF Stays
  <2>3. base_at(t) \in PAddr
    BY <2>1 DEF IndInv, ThreadInv, base_at
  <2>4. base_at(t) \notin EAddr
    BY <2>3, ConstAssumption
  <2>5. FreshInv(t)'
    BY <2>1, <2>2, <2>3 DEF FreshInv
  <2>6. FilledInv(t)'
    BY <2>2, <2>4 DEF FilledInv
  <2> QED BY <1>2, <2>5, <2>6
<1>7. CASE \/ acquire_E(t) \/ acquire_P(t) \/ refetch(t) \/ rehash(t)
           \/ miss(t) \/ contains_hit(t) \/ insert_exists(t) \/ remove_hit(t) \/ insert_append(t)
  <2>1. /\ walk' = walk /\ call' = call /\ pc[t] \notin {"idle", "punlock"} /\ pc'[t] # "work"
        /\ pc'[t] \in {"acquire", "locked"} => pc[t] \in {"acquire", "locked"}
    BY <1>7 DEF acquire_E, acquire_P, refetch, rehash, rehash_alloc, rehash_move, rehash_free, miss,
                contains_hit, insert_exists, remove_hit, insert_append, Decide, Goto, IndInv, TypeOK
  <2>2. crit'[t].base = crit[t].base
    <3>1. crit \in [Threads -> [base : Ptr, pairs : Seq(Pair), next : PAddr \cup {Null}, i : Nat \ {0}]]
      BY DEF IndInv, TypeOK
    <3>2. ASSUME NEW x, NEW y, NEW z,
                 \/ crit' = crit
                 \/ crit' = [crit EXCEPT ![t].next = x]
                 \/ crit' = [crit EXCEPT ![t].i = x]
                 \/ crit' = [crit EXCEPT ![t].next = x, ![t].i = y, ![t].pairs = z]
          PROVE  crit'[t].base = crit[t].base
      BY <3>1, <3>2
    <3>3. CASE refetch(t)
      BY <3>2, <3>3 DEF refetch
    <3>4. CASE rehash_alloc(t)
      BY <3>2, <3>4 DEF rehash_alloc
    <3>5. CASE rehash_move(t)
      <4>1. crit' = [crit EXCEPT ![t].i = crit[t].i + 1]
        BY <3>1, <3>5 DEF rehash_move
      <4> QED BY <3>2, <4>1
    <3>6. CASE rehash_free(t)
      BY <3>2, <3>6 DEF rehash_free
    <3> QED BY <1>7, <3>3, <3>4, <3>5, <3>6 DEF rehash, acquire_E, acquire_P, miss, contains_hit,
               insert_exists, remove_hit, insert_append, Decide
  <2>3. base_at(t)' = base_at(t)
    BY <1>1, <2>1, BaseAtKept DEF Stays
  <2>4. pc'[t] \in {"acquire", "locked"} => StillOthers(t)
    <3>1. pc'[t] \in {"acquire", "locked"} => elist' = elist
      BY <1>7 DEF acquire_E, acquire_P, refetch, rehash, rehash_alloc, rehash_move, rehash_free, miss,
                  contains_hit, insert_exists, remove_hit, insert_append, Decide, Goto, IndInv, TypeOK
    <3> QED BY <3>1, QuietStill
  <2> QED BY <1>2, <2>1, <2>2, <2>3, <2>4, FreshStay
<1> QED BY <1>3, <1>4, <1>5, <1>6, <1>7 DEF Step, contains, insert, remove, Traverse

\* insert_empty fills an empty bucket, or the history knows it did not.
LEMMA EmptyUnlessOverwritten ==
  ASSUME IndInv, NEW t \in Threads, call[t].op = "insert", insert_empty(t), ~overwritten',
         overwritten' = (overwritten \/ \E u \in Threads : Overwrites(u))
  PROVE  base_at(t) = Null /\ ~overwritten
<1>1. /\ pc[t] = "work" /\ pc'[t] = "unlock" /\ call[t].op = "insert" /\ crit[t].base = Null
  BY DEF insert_empty, Decide, Goto, IndInv, TypeOK
<1>2. ~Overwrites(t) /\ ~overwritten
  OBVIOUS
<1> QED BY <1>1, <1>2 DEF Overwrites, base_at

LEMMA InsertEmptyFresh ==
  ASSUME IndInv, OwnInv, ContentInv, IndInv', OwnInv', NEW t \in Threads, Step(t), call[t].op = "insert", insert_empty(t),
         \A u \in Threads : FreshInv(u) /\ FilledInv(u),
         overwritten' = (overwritten \/ \E u \in Threads : Overwrites(u)),
         writers' = [e \in EAddr |-> Sign(e)]
  PROVE  \A u \in Threads : FreshInv(u)' /\ FilledInv(u)'
<1> DEFINE e == FreshE
           new == NewEList(Home[t], <<NewPair(t)>>)
<1>1. /\ pc[t] = "work" /\ pc'[t] = "unlock" /\ crit[t].base = Null /\ walk' = walk /\ call' = call /\ crit' = crit
      /\ e \in EAddr /\ elist' = [elist EXCEPT ![e] = new]
  BY FreshEType DEF insert_empty, Decide, Goto, IndInv, TypeOK
<1>2. BaseFrame(walk[t].curr, bucket(t), e) /\ Others(t) /\ PairsStep(t) /\ PrivateInv
  BY OwnFrames, StepOthers, StepPairs DEF ContentInv
<1>3. writers'[e] = {t}
  <2>1. elist[e].state = "free" /\ elist'[e].state = "live"
    BY <1>1 DEF insert_empty, HasFreeE, FreshE, NewEList, IndInv, TypeOK
  <2>2. Moves(t)
    BY <1>1 DEF Moves
  <2> HIDE DEF e
  <2> QED BY <1>1, <1>2, <2>1, <2>2, EmptySigned
<1>4. "insert" \in Mix[t]
  <2>1. call[t] \in Calls(t) /\ call[t].op = "insert"
    BY <1>1 DEF ContentInv, CopyInv
  <2> QED BY <2>1 DEF Calls
<1>5. ~overwritten' => base_at(t) = Null /\ ~overwritten
  BY EmptyUnlessOverwritten
<1>6. Null \notin EAddr /\ Null \notin PAddr
  BY ConstAssumption
<1> HIDE DEF e, new
<1>7. ASSUME NEW u \in Threads, u # t PROVE FreshInv(u)' /\ FilledInv(u)'
  <2>1. CASE pc[u] = "idle"
    BY <1>2, <1>7, <2>1, IdleFresh DEF Others
  <2>2. CASE pc[u] # "idle"
    <3>1. Stays(u) /\ walk'[u] = walk[u] /\ crit'[u] = crit[u] /\ pc'[u] = pc[u]
      BY <1>2, <1>7, <2>2, OtherStays
    <3>2. CASE At(u) # At(t)
      <4>1. base_at(u)' = base_at(u)
        BY <1>2, <3>1, <3>2, BaseAtWritten
      <4>2. StillOthers(u)
        BY <1>2, <1>7, OthersStill
      <4> QED BY <1>5, <2>2, <3>1, <4>1, <4>2, FreshStay
    <3>3. CASE At(u) = At(t)
      <4>1. base_at(u)' = e /\ base_at(u) = base_at(t)
        BY <1>2, <3>1, <3>3, BaseAtWritten
      <4>2. ~overwritten' => walk[u].snap \notin EAddr /\ (crit[u].base # Null => pc[u] = "punlock")
        BY <1>5, <1>6, <2>2, <4>1 DEF FreshInv
      <4>3. FreshInv(u)'
        BY <3>1, <4>2 DEF FreshInv
      <4>4. FilledInv(u)'
        BY <1>3, <1>4, <1>7, <4>1 DEF FilledInv, ByOthers
      <4> QED BY <4>3, <4>4
    <3> QED BY <3>2, <3>3
  <2> QED BY <2>1, <2>2
<1>8. FreshInv(t)'
  <2>1. ~overwritten' => walk[t].snap \notin EAddr
    BY <1>1, <1>5, <1>6 DEF FreshInv
  <2> QED BY <1>1, <2>1 DEF FreshInv
<1>9. FilledInv(t)'
  BY <1>1 DEF FilledInv
<1> QED BY <1>7, <1>8, <1>9

LEMMA PublishFresh ==
  ASSUME IndInv, OwnInv, IndInv', OwnInv', NEW t \in Threads, Step(t), publish(t),
         \A u \in Threads : FreshInv(u) /\ FilledInv(u), ~overwritten' => ~overwritten,
         writers' = [e \in EAddr |-> Sign(e)]
  PROVE  \A u \in Threads : FreshInv(u)' /\ FilledInv(u)'
<1> DEFINE n == crit[t].next
<1>1. /\ pc[t] = "publish" /\ pc'[t] = "punlock" /\ walk'[t].snap = n /\ crit' = crit
  BY DEF publish, Goto, IndInv, TypeOK
<1>2. BaseFrame(walk[t].curr, bucket(t), n) /\ Others(t) /\ elist' = elist
  BY OwnFrames, StepOthers DEF publish
<1>3. n \in PAddr /\ n \notin EAddr
  BY <1>1, ConstAssumption DEF IndInv, ThreadInv
<1> HIDE DEF n
<1>4. ASSUME NEW u \in Threads, u # t PROVE FreshInv(u)' /\ FilledInv(u)'
  <2>1. CASE pc[u] = "idle"
    BY <1>2, <1>4, <2>1, IdleFresh DEF Others
  <2>2. CASE pc[u] # "idle"
    <3>1. Stays(u) /\ walk'[u] = walk[u] /\ crit'[u] = crit[u] /\ pc'[u] = pc[u]
      BY <1>2, <1>4, <2>2, OtherStays
    <3>2. CASE At(u) # At(t)
      <4>1. base_at(u)' = base_at(u)
        BY <1>2, <3>1, <3>2, BaseAtWritten
      <4>2. StillOthers(u)
        BY <1>2, QuietStill
      <4> QED BY <2>2, <3>1, <4>1, <4>2, FreshStay
    <3>3. CASE At(u) = At(t)
      <4>1. base_at(u)' = n
        BY <1>2, <3>1, <3>3, BaseAtWritten
      <4>2. crit[u].base = Null
        <5>1. pc[u] \notin InCrit
          BY <1>1, <1>4, <3>3 DEF IndInv, MutualExclusion, InCrit
        <5> QED BY <5>1 DEF OwnInv, HandInv
      <4>3. FreshInv(u)'
        BY <1>3, <3>1, <4>1, <4>2 DEF FreshInv
      <4>4. FilledInv(u)'
        BY <1>3, <4>1 DEF FilledInv
      <4> QED BY <4>3, <4>4
    <3> QED BY <3>2, <3>3
  <2> QED BY <2>1, <2>2
<1>5. FreshInv(t)' /\ FilledInv(t)'
  BY <1>1, <1>3 DEF FreshInv, FilledInv
<1> QED BY <1>4, <1>5

\* A call reads the root.
LEMMA StartFresh ==
  ASSUME IndInv, OwnInv, NEW t \in Threads, NEW c \in Calls(t), Invoke(t, c)
  PROVE  /\ pc'[t] = "acquire" /\ call'[t] = c /\ base_at(t)' = walk'[t].snap /\ crit'[t].base = Null
         /\ walk'[t].snap = plist[Root].base[level_hash(c.key, 1, PLIST_SIZE)]
<1>1. /\ pc[t] = "idle" /\ pc'[t] = "acquire" /\ call'[t] = c /\ walk'[t] = Start(c.key) /\ crit' = crit /\ plist' = plist
  BY DEF Invoke, Goto, IndInv, TypeOK
<1>2. crit[t].base = Null
  BY <1>1 DEF OwnInv, HandInv, InCrit
<1>3. /\ walk'[t].curr = Root /\ walk'[t].depth = 1 /\ walk'[t].count = PLIST_SIZE
      /\ walk'[t].snap = plist[Root].base[level_hash(c.key, 1, PLIST_SIZE)]
  BY <1>1 DEF Start
<1>4. base_at(t)' = walk'[t].snap
  BY <1>1, <1>3 DEF base_at, bucket
<1> QED BY <1>1, <1>2, <1>3, <1>4

LEMMA InvokeFresh ==
  ASSUME IndInv, OwnInv, WayInv, IndInv', OwnInv', NEW t \in Threads, NEW c \in Calls(t), Invoke(t, c),
         \A u \in Threads : FreshInv(u) /\ FilledInv(u), ~overwritten' => ~overwritten,
         writers' = [e \in EAddr |-> Sign(e)]
  PROVE  \A u \in Threads : FreshInv(u)' /\ FilledInv(u)'
<1>1. WayKept /\ Others(t) /\ elist' = elist
  BY InvokeKeepsWays, InvokeOthers
<1>2. ASSUME NEW u \in Threads, u # t PROVE FreshInv(u)' /\ FilledInv(u)'
  <2>1. CASE pc[u] = "idle"
    BY <1>1, <1>2, <2>1, IdleFresh DEF Others
  <2>2. CASE pc[u] # "idle"
    <3>1. Stays(u) /\ walk'[u] = walk[u] /\ crit'[u] = crit[u] /\ pc'[u] = pc[u]
      BY <1>1, <1>2, <2>2, OtherStays
    <3>2. base_at(u)' = base_at(u)
      BY <1>1, <3>1, BaseAtKept
    <3>3. StillOthers(u)
      BY <1>1, QuietStill
    <3> QED BY <2>2, <3>1, <3>2, <3>3, FreshStay
  <2> QED BY <2>1, <2>2
<1>3. pc'[t] = "acquire" /\ base_at(t)' = walk'[t].snap /\ crit'[t].base = Null
  BY StartFresh
<1>4. Null \notin EAddr
  BY ConstAssumption
<1>5. FreshInv(t)' /\ FilledInv(t)'
  BY <1>3, <1>4 DEF FreshInv, FilledInv
<1> QED BY <1>2, <1>5

LEMMA StepFresh ==
  ASSUME IndInv, OwnInv, ContentInv, WayInv, IndInv', OwnInv', NEW t \in Threads, Step(t),
         \A u \in Threads : FreshInv(u) /\ FilledInv(u),
         overwritten' = (overwritten \/ \E u \in Threads : Overwrites(u)),
         writers' = [e \in EAddr |-> Sign(e)]
  PROVE  \A u \in Threads : FreshInv(u)' /\ FilledInv(u)'
<1>1. CASE call[t].op = "insert" /\ insert_empty(t)
  BY <1>1, InsertEmptyFresh
<1>2. CASE publish(t)
  BY <1>2, PublishFresh
<1>3. CASE ~(call[t].op = "insert" /\ insert_empty(t)) /\ ~publish(t)
  BY <1>3, KeptFresh
<1> QED BY <1>1, <1>2, <1>3

-----------------------------------------------------------------------------
(* What a step does to the map *)

\* Only the thread that has it in hand writes the E-list a way ends in.
LEMMA EndPairsKept ==
  ASSUME IndInv, OwnInv, ContentInv, WayInv, NEW t \in Threads, PairsStep(t), NEW k \in Keys, end(k) \in EAddr,
         ~(pc[t] = "work" /\ crit[t].base = end(k))
  PROVE  elist'[end(k)].pairs = elist[end(k)].pairs
<1> DEFINE e == end(k)
           p == way[k][Len(way[k])]
           b == level_hash(k, Len(way[k]), plist[p].size)
<1>1. p \in PAddr /\ b \in DOMAIN plist[p].base /\ LeadsTo(p, b, e) /\ elist[e].state # "free"
  BY EndOwned
<1>2. ASSUME pc[t] = "rehash", NEW c \in DOMAIN plist[crit[t].next].base, plist[crit[t].next].base[c] = e
      PROVE  FALSE
  <2> DEFINE n == crit[t].next
  <2>1. n \in PAddr /\ LeadsTo(n, c, e) /\ c \in DOMAIN plist[n].base
    BY <1>2 DEF IndInv, ThreadInv, LeadsTo
  <2>2. p # n
    BY <1>2, WayEnd, WayNotPrivate DEF ContentInv
  <2> HIDE DEF n, e, p, b
  <2> QED BY <1>1, <2>1, <2>2, OneBucket DEF e
<1> HIDE DEF p, b
<1> QED BY <1>1, <1>2 DEF PairsStep

\* Steps that change neither a way nor an E-list at its end.
LEMMA FindKept ==
  ASSUME NEW k, end(k)' = end(k), end(k) \in EAddr => elist'[end(k)].pairs = elist[end(k)].pairs
  PROVE  Find(k)' = Find(k)
BY DEF Find

LEMMA QuietMap ==
  ASSUME IndInv, OwnInv, ContentInv, WayInv, NEW t \in Threads, Step(t), way' = [k \in Keys |-> Lengthen(k)],
         ~(call[t].op = "insert" /\ (insert_empty(t) \/ insert_append(t))), ~publish(t),
         ~(call[t].op = "remove" /\ remove_hit(t))
  PROVE  MapOf' = MapOf
<1>1. WayKept /\ PairsStep(t)
  BY StepKeepsWays, StepPairs DEF ContentInv
<1>2. \A k \in Keys : end(k)' = end(k)
  BY <1>1, KeptWays
<1>3. \A k \in Keys : end(k) \in EAddr => elist'[end(k)].pairs = elist[end(k)].pairs
  <2>1. CASE elist' = elist
    BY <2>1
  <2>2. CASE pc[t] # "work"
    BY <1>1, <2>2, EndPairsKept
  <2> QED BY <2>1, <2>2
          DEF Step, contains, insert, remove, Traverse, rehash, acquire_E, acquire_P, refetch, descend, read_elist,
              miss, contains_hit, insert_exists, rehash_alloc, rehash_move, rehash_free, publish, unlock_P, unlock_E
<1>4. \A k \in Keys : Find(k)' = Find(k)
  BY <1>2, <1>3, FindKept
<1> QED BY <1>4 DEF MapOf

\* The E-list a thread has in hand is where the way of its key ends.
LEMMA HandIsEnd ==
  ASSUME IndInv, OwnInv, ContentInv, WayInv, NEW t \in Threads, FreshInv(t), ~overwritten,
         pc[t] = "work", crit[t].base # Null
  PROVE  /\ call[t].key \in Keys /\ end(call[t].key) = crit[t].base /\ crit[t].base \in EAddr
         /\ e_pairs(t) = elist[crit[t].base].pairs /\ e_pairs(t) \in Seq(Pair) /\ Sound(e_pairs(t))
         /\ Find(call[t].key) = ValOf(e_pairs(t), call[t].key)
<1>1. e_pairs(t) \in Seq(Pair) /\ Sound(e_pairs(t)) /\ crit[t].base \in EAddr
  BY InHand
<1>2. e_pairs(t) = elist[crit[t].base].pairs
  BY DEF e_pairs, ContentInv, CopyInv
<1>3. base_at(t) = crit[t].base
  BY DEF FreshInv
<1>4. base_at(t) \notin PAddr
  BY <1>1, <1>3, ConstAssumption
<1>5. call[t].key \in Keys /\ end(call[t].key) = crit[t].base
  BY <1>3, <1>4, AtWay
<1> QED BY <1>1, <1>2, <1>5 DEF Find

\* The writes of an E-list in place.
LEMMA WriteFind ==
  ASSUME IndInv, OwnInv, ContentInv, WayInv, NEW t \in Threads, Step(t), FreshInv(t), ~overwritten,
         pc[t] = "work", crit[t].base # Null, NEW s, elist' = [elist EXCEPT ![crit[t].base].pairs = s],
         WayKept, way' = [k \in Keys |-> Lengthen(k)], NEW k \in Keys
  PROVE  /\ end(k) = crit[t].base => Find(k)' = ValOf(s, k) /\ Find(k) = ValOf(e_pairs(t), k)
         /\ end(k) # crit[t].base => Find(k)' = Find(k) /\ k # call[t].key
<1> DEFINE x == crit[t].base
<1>1. /\ end(call[t].key) = x /\ x \in EAddr /\ e_pairs(t) = elist[x].pairs
  BY HandIsEnd
<1>2. end(k)' = end(k)
  BY KeptWays
<1>3. elist'[x].pairs = s
  <2>1. elist[x] \in [id : Nat, state : {"free", "live", "freed"}, pairs : Seq(Pair)]
    BY <1>1 DEF IndInv, TypeOK
  <2> HIDE DEF x
  <2> QED BY <1>1, <2>1 DEF IndInv, TypeOK, x
<1>4. CASE end(k) = x
  BY <1>1, <1>2, <1>3, <1>4 DEF Find
<1>5. CASE end(k) # x
  <2>1. PairsStep(t)
    BY StepPairs DEF ContentInv
  <2>2. end(k) \in EAddr => elist'[end(k)].pairs = elist[end(k)].pairs
    BY <1>5, <2>1, EndPairsKept
  <2> QED BY <1>1, <1>2, <1>5, <2>2, FindKept
<1> QED BY <1>4, <1>5

\* remove_hit takes its key out of the map and reports what it was bound to.
LEMMA RemoveMap ==
  ASSUME IndInv, OwnInv, ContentInv, WayInv, NEW t \in Threads, Step(t), FreshInv(t), ~overwritten,
         call[t].op = "remove", remove_hit(t), way' = [k \in Keys |-> Lengthen(k)]
  PROVE  /\ call[t].key \in Keys
         /\ MapOf' = [MapOf EXCEPT ![call[t].key] = Absent]
         /\ MapOf[call[t].key] # Absent
         /\ ret'[t] = [status |-> TRUE, result |-> MapOf[call[t].key]] /\ pc'[t] = "unlock"
<1> DEFINE s == e_pairs(t)
           key == call[t].key
           i == Slot(t)
           r == EdgeSwap(s, i)
<1>1. /\ pc[t] = "work" /\ Holds(t) /\ elist' = [elist EXCEPT ![crit[t].base].pairs = r]
      /\ ret'[t] = [status |-> TRUE, result |-> s[i].val] /\ pc'[t] = "unlock" /\ pc'[t] # "punlock"
  BY DEF remove_hit, Decide, Goto, IndInv, TypeOK
<1>2. crit[t].base # Null /\ Matches(s, key) # {}
  BY <1>1 DEF Holds
<1>3. key \in Keys /\ s \in Seq(Pair) /\ Sound(s) /\ Find(key) = ValOf(s, key)
  BY <1>1, <1>2, HandIsEnd
<1>4. i \in 1..Len(s) /\ s[i].key = key
  BY <1>2, <1>3, FirstMatchIsMatch DEF Slot
<1>5. ValOf(s, key) = s[i].val
  BY <1>2 DEF ValOf, Slot
<1>6. Find(key) # Absent
  BY <1>2, <1>3, ValOfIn
<1>7. WayKept
  <2>1. ~publish(t)
    BY <1>1 DEF publish
  <2> QED BY <2>1, StepKeepsWays
<1>8. ASSUME NEW k \in Keys PROVE Find(k)' = IF k = key THEN Absent ELSE Find(k)
  <2>1. ValOf(r, k) = IF k = key THEN Absent ELSE ValOf(s, k)
    <3> HIDE DEF s, i
    <3>1. ValOf(r, k) = IF k = s[i].key THEN Absent ELSE ValOf(s, k)
      BY <1>3, <1>4, ValOfSwap
    <3> QED BY <1>4, <3>1
  <2> HIDE DEF s, r, i
  <2>2. CASE end(k) = crit[t].base
    <3>1. Find(k)' = ValOf(r, k) /\ Find(k) = ValOf(s, k)
      BY <1>1, <1>2, <1>7, <2>2, WriteFind DEF s
    <3> QED BY <2>1, <3>1
  <2>3. CASE end(k) # crit[t].base
    <3>1. Find(k)' = Find(k) /\ k # key
      BY <1>1, <1>2, <1>7, <2>3, WriteFind
    <3> QED BY <3>1
  <2> QED BY <2>2, <2>3
<1>9. MapOf' = [MapOf EXCEPT ![key] = Absent]
  BY <1>8 DEF MapOf
<1>10. MapOf[key] = Find(key)
  BY <1>3 DEF MapOf
<1> QED BY <1>1, <1>3, <1>5, <1>6, <1>9, <1>10

\* insert_append binds its key, which was unbound.
LEMMA AppendMap ==
  ASSUME IndInv, OwnInv, ContentInv, WayInv, NEW t \in Threads, Step(t), FreshInv(t), ~overwritten,
         call[t].op = "insert", insert_append(t), way' = [k \in Keys |-> Lengthen(k)]
  PROVE  /\ call[t].key \in Keys
         /\ MapOf' = [MapOf EXCEPT ![call[t].key] = call[t].val]
         /\ MapOf[call[t].key] = Absent
         /\ ret'[t] = [status |-> TRUE, result |-> 0] /\ pc'[t] = "unlock"
<1> DEFINE s == e_pairs(t)
           key == call[t].key
           p == NewPair(t)
           r == Append(s, p)
<1>1. /\ pc[t] = "work" /\ crit[t].base # Null /\ ~Holds(t) /\ elist' = [elist EXCEPT ![crit[t].base].pairs = r]
      /\ ret'[t] = [status |-> TRUE, result |-> 0] /\ pc'[t] = "unlock" /\ Len(s) < ELIST_SIZE
  BY DEF insert_append, Decide, Goto, IndInv, TypeOK
<1>2. Matches(s, key) = {}
  BY <1>1 DEF Holds
<1>3. key \in Keys /\ s \in Seq(Pair) /\ Sound(s) /\ Find(key) = ValOf(s, key)
  BY <1>1, HandIsEnd
<1>4. call[t] \in Calls(t)
  BY <1>1 DEF ContentInv, CopyInv
<1>5. p \in Pair /\ p.val \in Vals[p.key] /\ p.key = key /\ p.val = call[t].val
  BY <1>4, NewPairGenuine DEF NewPair
<1>6. Find(key) = Absent
  BY <1>2, <1>3 DEF ValOf
<1>7. WayKept
  <2>1. ~publish(t)
    BY <1>1 DEF publish
  <2>2. ~insert_empty(t)
    BY <1>1 DEF insert_empty
  <2> QED BY <2>1, <2>2, StepKeepsWays
<1>8. Sound(r)
  <2> HIDE DEF s, p
  <2>1. \A j \in 1..Len(s) : s[j].key # p.key
    BY <1>2, <1>5 DEF Matches
  <2> QED BY <1>1, <1>3, <1>5, <2>1, AppendSound
<1>9. ASSUME NEW k \in Keys PROVE Find(k)' = IF k = key THEN call[t].val ELSE Find(k)
  <2>1. ValOf(r, k) = IF k = key THEN call[t].val ELSE ValOf(s, k)
    <3> HIDE DEF s, p
    <3>1. ValOf(r, k) = IF k = p.key THEN p.val ELSE ValOf(s, k)
      BY <1>3, <1>5, <1>8, ValOfAppend
    <3> QED BY <1>5, <3>1
  <2> HIDE DEF s, r, p
  <2>2. CASE end(k) = crit[t].base
    <3>1. Find(k)' = ValOf(r, k) /\ Find(k) = ValOf(s, k)
      BY <1>1, <1>7, <2>2, WriteFind DEF s
    <3> QED BY <2>1, <3>1
  <2>3. CASE end(k) # crit[t].base
    <3>1. Find(k)' = Find(k) /\ k # key
      BY <1>1, <1>7, <2>3, WriteFind
    <3> QED BY <3>1
  <2> QED BY <2>2, <2>3
<1>10. MapOf' = [MapOf EXCEPT ![key] = call[t].val]
  BY <1>9 DEF MapOf
<1>11. MapOf[key] = Find(key)
  BY <1>3 DEF MapOf
<1> QED BY <1>1, <1>3, <1>6, <1>10, <1>11

\* What the bucket of a thread holds is what the ways that end there find.
LEMMA EndsAtBucket ==
  ASSUME IndInv, WayInv, NEW t \in Threads, pc[t] # "idle", NEW k \in Keys, EndsAt(k, t)
  PROVE  end(k) = base_at(t)
<1> DEFINE p == way[k][Len(way[k])]
           b == level_hash(k, Len(way[k]), plist[p].size)
<1>1. p = walk[t].curr /\ b = bucket(t)
  BY DEF EndsAt, At
<1> QED BY <1>1 DEF end, child, base_at

LEMMA OwnEndsAt ==
  ASSUME IndInv, WayInv, NEW t \in Threads, pc[t] # "idle", base_at(t) \notin PAddr
  PROVE  call[t].key \in Keys /\ EndsAt(call[t].key, t)
<1> DEFINE k == call[t].key
           d == walk[t].depth
<1>1. /\ k \in Keys /\ way[k][d] = walk[t].curr /\ d = Len(way[k])
      /\ bucket(t) = level_hash(k, d, plist[walk[t].curr].size)
  BY AtWay
<1> QED BY <1>1 DEF EndsAt, At

\* insert_empty binds its key, when the bucket is empty indeed.
LEMMA EmptyMap ==
  ASSUME IndInv, OwnInv, ContentInv, WayInv, NEW t \in Threads, Step(t), base_at(t) = Null,
         call[t].op = "insert", insert_empty(t), way' = [k \in Keys |-> Lengthen(k)]
  PROVE  /\ call[t].key \in Keys
         /\ MapOf' = [MapOf EXCEPT ![call[t].key] = call[t].val]
         /\ MapOf[call[t].key] = Absent
         /\ ret'[t] = [status |-> TRUE, result |-> 0] /\ pc'[t] = "unlock"
<1> DEFINE key == call[t].key
           e == FreshE
           p == NewPair(t)
           s == <<p>>
<1>1. /\ pc[t] = "work" /\ crit[t].base = Null /\ elist' = [elist EXCEPT ![e] = NewEList(Home[t], s)]
      /\ ret'[t] = [status |-> TRUE, result |-> 0] /\ pc'[t] = "unlock" /\ e \in EAddr
  BY FreshEType DEF insert_empty, Decide, Goto, IndInv, TypeOK
<1>2. BaseFrame(walk[t].curr, bucket(t), e) /\ way' = way /\ PairsStep(t)
  BY OwnFrames, InsertEmptyWays, StepPairs DEF ContentInv
<1>3. call[t] \in Calls(t)
  BY <1>1 DEF ContentInv, CopyInv
<1>4. p \in Pair /\ p.val \in Vals[p.key] /\ p.key = key /\ p.val = call[t].val
  BY <1>3, NewPairGenuine DEF NewPair
<1>5. Null \notin PAddr /\ Null \notin EAddr
  BY ConstAssumption
<1>6. key \in Keys /\ EndsAt(key, t)
  BY <1>1, <1>5, OwnEndsAt
<1>7. elist'[e].pairs = s
  BY <1>1 DEF NewEList, IndInv, TypeOK
<1>8. ASSUME NEW k \in Keys PROVE ValOf(s, k) = IF k = key THEN call[t].val ELSE Absent
  <2> HIDE DEF p
  <2>1. Sound(s)
    BY <1>4, SingleSound
  <2>2. ValOf(s, k) = IF k = p.key THEN p.val ELSE Absent
    BY <1>4, <2>1, ValOfSingle
  <2> QED BY <1>4, <2>2
<1> HIDE DEF e, s, p
<1>9. ASSUME NEW k \in Keys PROVE Find(k)' = (IF k = key THEN call[t].val ELSE Find(k)) /\ (k = key => Find(k) = Absent)
  <2> DEFINE q == way[k][Len(way[k])]
  <2>1. end(k)' = child(plist', q, Len(way[k]), k) /\ end(k) = child(plist, q, Len(way[k]), k)
    BY <1>2 DEF end
  <2>2. CASE EndsAt(k, t)
    <3>1. end(k)' = e
      BY <1>1, <1>2, <2>1, <2>2, WayEnd, BucketOnWay DEF EndsAt
    <3>2. Find(k)' = ValOf(s, k)
      BY <1>1, <1>7, <3>1 DEF Find
    <3>3. end(k) = Null
      BY <1>1, <2>2, EndsAtBucket
    <3>4. Find(k) = Absent
      BY <1>5, <3>3 DEF Find
    <3> QED BY <1>8, <3>2, <3>4
  <2>3. CASE ~EndsAt(k, t)
    <3>1. end(k)' = end(k)
      BY <1>1, <1>2, <2>1, <2>3, WayEnd, BucketOnWay DEF EndsAt
    <3>2. end(k) \in EAddr => elist'[end(k)].pairs = elist[end(k)].pairs
      BY <1>1, <1>2, <1>5, EndPairsKept
    <3>3. Find(k)' = Find(k)
      BY <3>1, <3>2, FindKept
    <3> QED BY <1>6, <2>3, <3>3
  <2> QED BY <2>2, <2>3
<1>10. MapOf' = [MapOf EXCEPT ![key] = call[t].val]
  BY <1>9 DEF MapOf
<1>11. MapOf[key] = Absent
  BY <1>6, <1>9 DEF MapOf
<1> QED BY <1>1, <1>6, <1>10, <1>11

\* publish changes the way to every key of the bucket and what is found there
\* under none.
LEMMA PublishMap ==
  ASSUME IndInv, OwnInv, ContentInv, WayInv, NEW t \in Threads, Step(t), FreshInv(t), FillInv(t), ~overwritten,
         publish(t), way' = [k \in Keys |-> Lengthen(k)]
  PROVE  MapOf' = MapOf
<1> DEFINE n == crit[t].next
           c == crit[t].pairs
           x == crit[t].base
           h(k) == level_hash(k, walk[t].depth + 1, 2 * walk[t].count)
<1>1. pc[t] = "publish" /\ BaseFrame(walk[t].curr, bucket(t), n) /\ elist' = elist
  BY OwnFrames DEF publish
<1>2. /\ x \in EAddr /\ elist[x].pairs = c /\ crit[t].i = Len(c) + 1
      /\ \A b \in DOMAIN plist[n].base : plist[n].base[b] \in EAddr \cup {Null}
      /\ \A k \in Keys : \A v \in Vals[k] : Among(c, crit[t].i - 1, k, v) <=>
            plist[n].base[h(k)] # Null /\ In(elist[plist[n].base[h(k)]].pairs, k, v)
  BY <1>1 DEF FillInv, In
<1>3. c \in Seq(Pair) /\ Sound(c)
  BY DEF IndInv, TypeOK, ContentInv, CopyInv, Sound
<1>4. x # Null /\ x \notin PAddr /\ Null \notin EAddr
  BY <1>2, ConstAssumption
<1>5. base_at(t) = x
  <2>1. x # Null /\ pc[t] # "punlock" => base_at(t) = x
    BY DEF FreshInv
  <2> QED BY <1>1, <1>4, <2>1
<1>6. crit[t].i - 1 = Len(c)
  BY <1>2, <1>3
<1>7. n \in PAddr /\ n # walk[t].curr /\ plist[n].size = 2 * walk[t].count
  <2>1. ThreadInv(t) /\ PrivateInv
    BY DEF IndInv, ContentInv
  <2>2. n \in PAddr /\ plist[n].size = 2 * walk[t].count
    BY <1>1, <2>1 DEF ThreadInv
  <2>3. n # walk[t].curr
    BY <1>1, <2>1 DEF PrivateInv
  <2> QED BY <2>2, <2>3
<1>8. plist'[n].size = plist[n].size /\ \A b \in DOMAIN plist[n].base : plist'[n].base[b] = plist[n].base[b]
  <2>1. DOMAIN plist[n].base = DOMAIN plist[n].lock
    BY <1>7, SameDomain DEF IndInv
  <2> QED BY <1>1, <1>7, <2>1 DEF BaseFrame
<1>9. ASSUME NEW k \in Keys PROVE h(k) \in DOMAIN plist[n].base
  BY <1>1, FillBucket
<1>10. ASSUME NEW k \in Keys PROVE Find(k)' = Find(k)
  <2>1. CASE EndsAt(k, t)
    <3> DEFINE e == plist[n].base[h(k)]
    <3>1. Find(k) = ValOf(c, k)
      <4>1. end(k) = x
        BY <1>1, <1>5, <2>1, EndsAtBucket
      <4> QED BY <1>2, <4>1 DEF Find
    <3>2. end(k)' = e
      <4>1. end(k)' = child(plist', way'[k][Len(way'[k])], Len(way'[k]), k)
        BY DEF end
      <4>2. Len(way'[k]) = walk[t].depth + 1 /\ way'[k][Len(way'[k])] = n
        BY <2>1, PublishLengthens, PublishedWay
      <4>3. child(plist', n, walk[t].depth + 1, k) = plist'[n].base[h(k)]
        BY <1>7, <1>8 DEF child
      <4> QED BY <1>8, <1>9, <4>1, <4>2, <4>3
    <3>3. e \in EAddr \cup {Null}
      BY <1>2, <1>9
    <3>4. \A v \in Vals[k] : In(c, k, v) <=> e # Null /\ In(elist[e].pairs, k, v)
      BY <1>2, <1>6 DEF In
    <3> HIDE DEF e, c, x, n, h
    <3>5. CASE e = Null
      <4>1. ValOf(c, k) = Absent
        BY <1>3, <3>4, <3>5, ValOfAbsent
      <4> QED BY <1>4, <3>1, <3>2, <3>5, <4>1 DEF Find
    <3>6. CASE e \in EAddr
      <4>1. elist[e].pairs \in Seq(Pair) /\ Sound(elist[e].pairs)
        BY <3>6 DEF IndInv, TypeOK, ContentInv, ElistSane, Sound
      <4>2. e # Null
        BY <1>4, <3>6
      <4>3. ValOf(c, k) = ValOf(elist[e].pairs, k)
        BY <1>3, <3>4, <4>1, <4>2, ValOfSame
      <4> QED BY <1>1, <3>1, <3>2, <3>6, <4>3 DEF Find
    <3> QED BY <3>3, <3>5, <3>6
  <2>2. CASE ~EndsAt(k, t)
    <3> DEFINE q == way[k][Len(way[k])]
    <3>1. way'[k] = way[k]
      BY <2>2, PublishLengthens
    <3>2. end(k)' = child(plist', q, Len(way[k]), k) /\ end(k) = child(plist, q, Len(way[k]), k)
      BY <3>1 DEF end
    <3>3. end(k)' = end(k)
      BY <1>1, <2>2, <3>2, WayEnd, BucketOnWay DEF EndsAt
    <3> QED BY <1>1, <3>3, FindKept
  <2> QED BY <2>1, <2>2
<1> QED BY <1>10 DEF MapOf

-----------------------------------------------------------------------------
(* The steps of ConcurrentMap *)

\* What an operation of kind op that has seen vs may answer without a change.
AnswersOf(op, vs) ==
    CASE op = "contains" -> {[status |-> v # Absent, result |-> IF v = Absent THEN 0 ELSE v] : v \in vs}
      [] op = "insert" -> {[status |-> FALSE, result |-> v] : v \in vs \ {Absent}}
      [] op = "remove" -> {[status |-> FALSE, result |-> 0] : v \in vs \cap {Absent}}

LEMMA AnswersNow ==
  ASSUME NEW t \in Threads, pc[t] # "idle"
  PROVE  Map!Answers(t) = AnswersOf(call[t].op, seen[t])
<1>1. CallOf[t] = call[t]
  BY DEF CallOf
<1> QED BY <1>1 DEF Map!Answers, AnswersOf, Absent, Map!Absent

LEMMA AnswersNext ==
  ASSUME NEW t \in Threads, pc'[t] # "idle"
  PROVE  Map!Answers(t)' = AnswersOf(call'[t].op, seen'[t])
<1>1. CallOf'[t] = call'[t]
  BY DEF CallOf
<1> QED BY <1>1 DEF Map!Answers, AnswersOf, Absent, Map!Absent

LEMMA AnswersGrow ==
  ASSUME NEW op \in OpKinds, NEW vs, NEW ws, vs \subseteq ws
  PROVE  AnswersOf(op, vs) \subseteq AnswersOf(op, ws)
<1>1. op \in {"contains", "insert", "remove"}
  BY DEF OpKinds
<1>2. CASE op = "contains"
  BY <1>2 DEF AnswersOf
<1>3. CASE op = "insert"
  BY <1>3 DEF AnswersOf
<1>4. CASE op = "remove"
  BY <1>4 DEF AnswersOf
<1> QED BY <1>1, <1>2, <1>3, <1>4

LEMMA SameNone ==
  Map!NoRes = NoRes /\ Map!NoCall = NoCall /\ Map!Absent = Absent
BY DEF NoCall, NoRes, Map!NoCall, Map!NoRes, Map!Absent, Absent

LEMMA MapStutter ==
  ASSUME map' = map, seen' = seen, CallOf' = CallOf, RetOf' = RetOf, DoneOf' = DoneOf
  PROVE  [Map!Next]_(Map!vars)
BY DEF Map!vars

LEMMA MapInvoke ==
  ASSUME NEW t \in Threads, CallOf[t] = NoCall, NEW c \in Calls(t), CallOf' = [CallOf EXCEPT ![t] = c],
         seen' = [seen EXCEPT ![t] = {map[c.key]}], RetOf' = [RetOf EXCEPT ![t] = NoRes],
         map' = map, DoneOf' = DoneOf
  PROVE  Map!Next
<1>1. Map!Invoke(t)
  BY SameNone DEF Map!Invoke
<1> QED BY <1>1 DEF Map!Next

LEMMA MapReturn ==
  ASSUME NEW t \in Threads, CallOf[t] # NoCall,
         NEW r, r \in IF DoneOf[t] # NoRes THEN {DoneOf[t]} ELSE Map!Answers(t),
         RetOf' = [RetOf EXCEPT ![t] = r], CallOf' = [CallOf EXCEPT ![t] = NoCall],
         DoneOf' = [DoneOf EXCEPT ![t] = NoRes], seen' = [seen EXCEPT ![t] = {}], map' = map
  PROVE  Map!Next
<1>1. Map!Return(t)
  BY SameNone DEF Map!Return
<1> QED BY <1>1 DEF Map!Next

LEMMA MapInsert ==
  ASSUME NEW t \in Threads, CallOf[t].op = "insert", DoneOf[t] = NoRes, map[CallOf[t].key] = Absent,
         DoneOf' = [DoneOf EXCEPT ![t] = [status |-> TRUE, result |-> 0]],
         map' = [map EXCEPT ![CallOf[t].key] = CallOf[t].val], CallOf' = CallOf, RetOf' = RetOf,
         seen' = [u \in Threads |-> IF CallOf[u] # NoCall /\ CallOf[u].key = CallOf[t].key
                                    THEN seen[u] \cup {CallOf[t].val} ELSE seen[u]]
  PROVE  Map!Next
<1>1. Map!CommitInsert(t)
  BY SameNone DEF Map!CommitInsert, Map!Bind
<1> QED BY <1>1 DEF Map!Next

LEMMA MapRemove ==
  ASSUME NEW t \in Threads, CallOf[t].op = "remove", DoneOf[t] = NoRes, map[CallOf[t].key] # Absent,
         DoneOf' = [DoneOf EXCEPT ![t] = [status |-> TRUE, result |-> map[CallOf[t].key]]],
         map' = [map EXCEPT ![CallOf[t].key] = Absent], CallOf' = CallOf, RetOf' = RetOf,
         seen' = [u \in Threads |-> IF CallOf[u] # NoCall /\ CallOf[u].key = CallOf[t].key
                                    THEN seen[u] \cup {Absent} ELSE seen[u]]
  PROVE  Map!Next
<1>1. Map!CommitRemove(t)
  BY SameNone DEF Map!CommitRemove, Map!Bind
<1> QED BY <1>1 DEF Map!Next

-----------------------------------------------------------------------------
(* SeenInv *)

\* What an operation has seen grows by the binding after the step.
LEMMA SeenGrows ==
  ASSUME History, NEW u \in Threads, pc'[u] # "idle"
  PROVE  /\ map'[call'[u].key] \in seen'[u]
         /\ pc[u] # "idle" => seen[u] \subseteq seen'[u] /\ seen'[u] = seen[u] \cup {map'[call'[u].key]}
         /\ pc[u] = "idle" => seen'[u] = {map'[call'[u].key]}
<1>1. seen'[u] = (IF pc[u] = "idle" THEN {} ELSE seen[u]) \cup {map'[call'[u].key]}
  BY DEF History
<1> QED BY <1>1

LEMMA SeenIdle ==
  ASSUME History, NEW u \in Threads, pc'[u] = "idle"
  PROVE  SeenOf(u)' /\ seen'[u] = {}
<1>1. seen'[u] = {}
  BY DEF History
<1> QED BY <1>1 DEF SeenOf

\* A thread that goes on with its operation and decides nothing.
LEMMA SeenStay ==
  ASSUME IndInv, History, NEW u \in Threads, SeenOf(u), pc[u] # "idle", pc'[u] # "idle", call'[u] = call[u],
         ~overwritten' => ~overwritten,
         walk'[u].copy /\ walk'[u].snap = Null => walk[u].copy /\ walk[u].snap = Null,
         pc'[u] = "work" => pc[u] = "work" /\ crit'[u].base = crit[u].base,
         pc'[u] = "unlock" => pc[u] = "unlock" /\ ret'[u] = ret[u]
  PROVE  SeenOf(u)'
<1>1. map'[call'[u].key] \in seen'[u] /\ seen[u] \subseteq seen'[u]
  BY SeenGrows
<1>2. Map!Answers(u) \subseteq Map!Answers(u)'
  <2>1. call[u].op \in OpKinds
    BY DEF IndInv, TypeOK
  <2> QED BY <1>1, <2>1, AnswersNow, AnswersNext, AnswersGrow
<1> QED BY <1>1, <1>2 DEF SeenOf

\* A thread that decides its result.
LEMMA SeenDecided ==
  ASSUME IndInv, History, NEW t \in Threads, SeenOf(t), pc[t] # "idle", pc'[t] = "unlock", call'[t] = call[t],
         walk'[t] = walk[t],
         ~overwritten' /\ (call[t].op = "contains" \/ ~ret'[t].status) => ret'[t] \in AnswersOf(call[t].op, seen'[t]),
         ret'[t].status /\ call[t].op = "insert" => ret'[t].result = 0
  PROVE  SeenOf(t)'
<1>1. map'[call'[t].key] \in seen'[t] /\ seen[t] \subseteq seen'[t]
  BY SeenGrows
<1>2. Map!Answers(t)' = AnswersOf(call[t].op, seen'[t])
  BY AnswersNext
<1> QED BY <1>1, <1>2 DEF SeenOf

-----------------------------------------------------------------------------
(* What an operation has seen, step by step *)

\* A bucket on the way of a key that is empty: the key is unbound.
LEMMA EmptyOnWay ==
  ASSUME IndInv, WayInv, NEW k \in Keys, NEW d \in 1..Len(way[k]), child(plist, way[k][d], d, k) = Null
  PROVE  MapOf[k] = Absent
<1>1. Null \notin PAddr /\ Null \notin EAddr
  BY ConstAssumption
<1>2. way[k] \in Seq(PAddr) /\ Len(way[k]) \in Nat
  BY WayEnd
<1>3. d = Len(way[k])
  <2> SUFFICES ASSUME d # Len(way[k]) PROVE FALSE
    OBVIOUS
  <2>1. d \in 1..(Len(way[k]) - 1) /\ d + 1 \in 1..Len(way[k])
    BY <1>2
  <2>2. child(plist, way[k][d], d, k) = way[k][d + 1]
    BY <2>1 DEF WayInv
  <2>3. way[k][d + 1] \in PAddr
    BY <1>2, <2>1
  <2> QED BY <1>1, <2>2, <2>3
<1>4. Find(k) = Absent
  BY <1>1, <1>3 DEF Find, end
<1> QED BY <1>4 DEF MapOf

LEMMA HistoryKeepsFlag ==
  ASSUME History, ~overwritten'
  PROVE  ~overwritten
BY DEF History

LEMMA SeenOthers ==
  ASSUME IndInv, History, NEW t \in Threads, Others(t), NEW u \in Threads, u # t, SeenOf(u)
  PROVE  SeenOf(u)'
<1>1. /\ pc'[u] = pc[u] /\ call'[u] = call[u] /\ walk'[u] = walk[u]
      /\ crit'[u] = crit[u] /\ ret'[u] = ret[u]
  BY DEF Others
<1>2. CASE pc[u] = "idle"
  BY <1>1, <1>2, SeenIdle
<1>3. CASE pc[u] # "idle"
  BY <1>1, <1>3, SeenStay, HistoryKeepsFlag
<1> QED BY <1>2, <1>3

\* A thread that is given a bucket to read: an empty one means an unbound key.
LEMMA SeenArrives ==
  ASSUME IndInv, History, NEW t \in Threads, pc'[t] = "acquire",
         walk'[t].copy /\ walk'[t].snap = Null => map'[call'[t].key] = Absent
  PROVE  SeenOf(t)'
<1>1. map'[call'[t].key] \in seen'[t]
  BY SeenGrows
<1> QED BY <1>1 DEF SeenOf

LEMMA DescendSeen ==
  ASSUME IndInv, OwnInv, ContentInv, WayInv, map = MapOf, History, map' = map, NEW t \in Threads, descend(t)
  PROVE  SeenOf(t)'
<1>1. /\ pc[t] = "descend" /\ pc'[t] = "acquire" /\ call'[t] = call[t]
      /\ walk'[t].copy = ~IsLocalP(t, crit[t].next)
      /\ ~IsLocalP(t, crit[t].next) =>
           walk'[t].snap = plist[crit[t].next].base[level_hash(call[t].key, walk[t].depth + 1, walk[t].count * 2)]
  BY DEF IndInv, TypeOK, descend, Goto
<1> DEFINE k == call[t].key
           d == walk[t].depth + 1
<1>2. /\ k \in Keys /\ walk[t].depth \in Nat /\ walk[t].depth < Len(way[k]) /\ way[k][d] = crit[t].next
      /\ d \in 1..Len(way[k])
  <2>1. /\ k \in Keys /\ walk[t].depth \in 1..Len(way[k])
    BY <1>1, AtWay
  <2>2. way[k] \in Seq(PAddr) /\ Len(way[k]) \in Nat
    BY <2>1, WayEnd
  <2>3. walk[t].depth < Len(way[k]) /\ way[k][d] = crit[t].next
    BY <1>1 DEF WayInv, OnWay
  <2> QED BY <2>1, <2>2, <2>3
<1>3. plist[crit[t].next].size = walk[t].count * 2
  <2>1. ThreadInv(t) /\ walk[t].count \in Nat
    BY DEF IndInv, TypeOK
  <2>2. plist[crit[t].next].size = 2 * walk[t].count
    BY <1>1, <2>1 DEF ThreadInv
  <2> QED BY <2>1, <2>2
<1>4. ~IsLocalP(t, crit[t].next) => walk'[t].snap = child(plist, way[k][d], d, k)
  BY <1>1, <1>2, <1>3 DEF child
<1>5. walk'[t].copy /\ walk'[t].snap = Null => map'[call'[t].key] = Absent
  BY <1>1, <1>2, <1>4, EmptyOnWay
<1> QED BY <1>1, <1>5, SeenArrives

LEMMA InvokeSeen ==
  ASSUME IndInv, OwnInv, WayInv, map = MapOf, History, map' = map, NEW t \in Threads, NEW c \in Calls(t), Invoke(t, c)
  PROVE  SeenOf(t)'
<1>1. /\ pc'[t] = "acquire" /\ call'[t] = c
      /\ walk'[t].snap = plist[Root].base[level_hash(c.key, 1, PLIST_SIZE)]
  BY StartFresh
<1>2. c.key \in Keys
  BY DEF Calls
<1>3. 1 \in 1..Len(way[c.key]) /\ way[c.key][1] = Root /\ plist[Root].size = PLIST_SIZE
  <2>1. Len(way[c.key]) \in Nat
    BY <1>2, WayEnd
  <2>2. Len(way[c.key]) >= 1 /\ way[c.key][1] = Root
    BY <1>2 DEF WayInv
  <2>3. plist[Root].size = PLIST_SIZE
    BY DEF IndInv, SubPLists
  <2> QED BY <2>1, <2>2, <2>3
<1>4. walk'[t].snap = child(plist, way[c.key][1], 1, c.key)
  BY <1>1, <1>3 DEF child
<1>5. walk'[t].copy /\ walk'[t].snap = Null => map'[call'[t].key] = Absent
  BY <1>1, <1>2, <1>3, <1>4, EmptyOnWay
<1> QED BY <1>1, <1>5, SeenArrives

LEMMA ReadSeen ==
  ASSUME IndInv, OwnInv, ContentInv, WayInv, SeenInv, History, NEW t \in Threads, read_elist(t)
  PROVE  SeenOf(t)'
<1>1. /\ pc[t] = "locked" /\ pc'[t] = "work" /\ call'[t] = call[t] /\ walk'[t] = walk[t]
      /\ crit'[t].base = curr_base(t)
  BY DEF IndInv, TypeOK, read_elist, Goto
<1>2. map'[call'[t].key] \in seen'[t] /\ seen[t] \subseteq seen'[t]
  BY <1>1, SeenGrows
<1>3. /\ map[call[t].key] \in seen[t]
      /\ walk[t].copy /\ walk[t].snap = Null => Absent \in seen[t]
  BY <1>1 DEF SeenInv, SeenOf
<1>4. crit'[t].base = Null => Absent \in seen[t]
  <2>1. CASE walk[t].copy
    BY <1>1, <1>3, <2>1 DEF curr_base
  <2>2. CASE ~walk[t].copy /\ curr_base(t) = Null
    <3>1. base_at(t) = Null
      BY <2>2 DEF curr_base, base_at
    <3>2. MapOf[call[t].key] = Absent
      BY <1>1, <3>1, AtWay, EmptyOnWay
    <3> QED BY <1>3, <3>2 DEF SeenInv
  <2> QED BY <1>1, <2>1, <2>2
<1> QED BY <1>1, <1>2, <1>3, <1>4 DEF SeenOf

LEMMA MissSeen ==
  ASSUME IndInv, OwnInv, ContentInv, WayInv, SeenInv, History, NEW t \in Threads, FreshInv(t),
         miss(t), call[t].op \in {"contains", "remove"}
  PROVE  SeenOf(t)'
<1>1. /\ pc[t] = "work" /\ pc'[t] = "unlock" /\ call'[t] = call[t] /\ walk'[t] = walk[t]
      /\ ret'[t] = [status |-> FALSE, result |-> 0] /\ ~Holds(t)
  BY DEF IndInv, TypeOK, miss, Decide, Goto
<1>2. seen[t] \subseteq seen'[t] /\ SeenOf(t)
  BY <1>1, SeenGrows DEF SeenInv
<1>3. ~overwritten => Absent \in seen[t]
  <2>1. CASE crit[t].base = Null
    BY <1>1, <1>2, <2>1 DEF SeenOf
  <2>2. CASE crit[t].base # Null /\ ~overwritten
    <3>1. /\ call[t].key \in Keys /\ Find(call[t].key) = ValOf(e_pairs(t), call[t].key)
      BY <1>1, <2>2, HandIsEnd
    <3>2. Matches(e_pairs(t), call[t].key) = {}
      BY <1>1, <2>2 DEF Holds
    <3>3. MapOf[call[t].key] = Absent
      BY <3>1, <3>2 DEF MapOf, ValOf
    <3> QED BY <1>1, <1>2, <3>3 DEF SeenInv, SeenOf
  <2> QED BY <2>1, <2>2
<1>4. ~overwritten' => ret'[t] \in AnswersOf(call[t].op, seen'[t])
  <2>1. Absent \in seen'[t] => ret'[t] \in AnswersOf("contains", seen'[t])
    BY <1>1 DEF AnswersOf, Absent
  <2>2. Absent \in seen'[t] => ret'[t] \in AnswersOf("remove", seen'[t])
    BY <1>1 DEF AnswersOf
  <2> QED BY <1>2, <1>3, <2>1, <2>2, HistoryKeepsFlag
<1> QED BY <1>1, <1>2, <1>4, SeenDecided

LEMMA HitSeen ==
  ASSUME IndInv, OwnInv, ContentInv, WayInv, SeenInv, History, NEW t \in Threads, FreshInv(t),
         \/ call[t].op = "contains" /\ contains_hit(t)
         \/ call[t].op = "insert" /\ insert_exists(t)
  PROVE  SeenOf(t)'
<1> DEFINE v == e_pairs(t)[Slot(t)].val
<1>1. /\ pc[t] = "work" /\ pc'[t] = "unlock" /\ call'[t] = call[t] /\ walk'[t] = walk[t] /\ Holds(t)
      /\ call[t].op = "contains" => ret'[t] = [status |-> TRUE, result |-> v]
      /\ call[t].op = "insert" => ret'[t] = [status |-> FALSE, result |-> v]
  BY DEF IndInv, TypeOK, contains_hit, insert_exists, Decide, Goto
<1>2. seen[t] \subseteq seen'[t] /\ SeenOf(t)
  BY <1>1, SeenGrows DEF SeenInv
<1>3. ~overwritten => v \in seen[t] /\ v # Absent
  <2> SUFFICES ASSUME ~overwritten PROVE v \in seen[t] /\ v # Absent
    OBVIOUS
  <2>1. crit[t].base # Null /\ Matches(e_pairs(t), call[t].key) # {}
    BY <1>1 DEF Holds
  <2>2. /\ call[t].key \in Keys /\ Find(call[t].key) = ValOf(e_pairs(t), call[t].key)
        /\ e_pairs(t) \in Seq(Pair) /\ Sound(e_pairs(t))
    BY <1>1, <2>1, HandIsEnd
  <2>3. ValOf(e_pairs(t), call[t].key) = v
    BY <2>1 DEF ValOf, Slot
  <2>4. v # Absent
    BY <2>1, <2>2, <2>3, ValOfIn
  <2>5. MapOf[call[t].key] = v
    BY <2>2, <2>3 DEF MapOf
  <2> QED BY <1>1, <1>2, <2>4, <2>5 DEF SeenInv, SeenOf
<1>4. ~overwritten' => ret'[t] \in AnswersOf(call[t].op, seen'[t])
  <2> SUFFICES ASSUME ~overwritten' PROVE ret'[t] \in AnswersOf(call[t].op, seen'[t])
    OBVIOUS
  <2>1. v \in seen'[t] /\ v # Absent
    BY <1>2, <1>3, HistoryKeepsFlag
  <2>2. CASE call[t].op = "contains"
    <3>1. ret'[t] = [status |-> v # Absent, result |-> IF v = Absent THEN 0 ELSE v]
      BY <1>1, <2>1, <2>2
    <3> QED BY <2>1, <2>2, <3>1 DEF AnswersOf
  <2>3. CASE call[t].op = "insert"
    <3>1. ret'[t] = [status |-> FALSE, result |-> v]
      BY <1>1, <2>3
    <3> QED BY <2>1, <2>3, <3>1 DEF AnswersOf
  <2> QED BY <2>2, <2>3
<1>5. ret'[t].status /\ call[t].op = "insert" => ret'[t].result = 0
  BY <1>1
<1> QED BY <1>1, <1>2, <1>4, <1>5, SeenDecided

LEMMA ChangeSeen ==
  ASSUME IndInv, SeenInv, History, NEW t \in Threads,
         \/ call[t].op = "remove" /\ remove_hit(t)
         \/ call[t].op = "insert" /\ (insert_append(t) \/ insert_empty(t))
  PROVE  SeenOf(t)'
<1>1. /\ pc[t] = "work" /\ pc'[t] = "unlock" /\ call'[t] = call[t] /\ walk'[t] = walk[t]
      /\ ret'[t].status = TRUE /\ (call[t].op = "insert" => ret'[t].result = 0)
  BY DEF IndInv, TypeOK, remove_hit, insert_append, insert_empty, Decide, Goto
<1> QED BY <1>1, SeenDecided DEF SeenInv

LEMMA MoveOnSeen ==
  ASSUME IndInv, SeenInv, History, NEW t \in Threads,
         \/ acquire_E(t) \/ acquire_P(t) \/ refetch(t) \/ rehash(t) \/ publish(t) \/ unlock_P(t)
  PROVE  SeenOf(t)'
<1>0. SeenOf(t)
  BY DEF SeenInv
<1>1. CASE acquire_E(t) \/ acquire_P(t) \/ refetch(t) \/ rehash_alloc(t) \/ rehash_free(t) \/ unlock_P(t)
  <2>1. /\ pc[t] # "idle" /\ pc'[t] \notin {"idle", "work", "unlock"} /\ call'[t] = call[t]
        /\ walk'[t].copy = walk[t].copy /\ walk'[t].snap = walk[t].snap
    <3> USE DEF IndInv, TypeOK, Goto
    <3>1. CASE acquire_E(t) \/ acquire_P(t) \/ refetch(t)
      BY <3>1 DEF acquire_E, acquire_P, refetch
    <3>2. CASE rehash_alloc(t) \/ rehash_free(t)
      BY <3>2 DEF rehash_alloc, rehash_free
    <3>3. CASE unlock_P(t)
      BY <3>3 DEF unlock_P
    <3> QED BY <1>1, <3>1, <3>2, <3>3
  <2> QED BY <1>0, <2>1, SeenStay, HistoryKeepsFlag
<1>2. CASE rehash_move(t)
  <2>1. /\ pc[t] = "rehash" /\ pc'[t] = "rehash" /\ call'[t] = call[t] /\ walk'[t] = walk[t]
    BY <1>2 DEF IndInv, TypeOK, rehash_move
  <2> QED BY <1>0, <2>1, SeenStay, HistoryKeepsFlag
<1>3. CASE publish(t)
  <2>1. /\ pc[t] = "publish" /\ pc'[t] = "punlock" /\ call'[t] = call[t] /\ walk'[t].snap = crit[t].next
    BY <1>3 DEF IndInv, TypeOK, publish, Goto
  <2>2. crit[t].next \in PAddr
    BY <2>1 DEF IndInv, ThreadInv
  <2>3. walk'[t].snap # Null
    BY <2>1, <2>2, ConstAssumption
  <2> QED BY <1>0, <2>1, <2>3, SeenStay, HistoryKeepsFlag
<1> QED BY <1>1, <1>2, <1>3 DEF rehash

LEMMA StepSeen ==
  ASSUME IndInv, OwnInv, ContentInv, WayInv, SeenInv, History, way' = [k \in Keys |-> Lengthen(k)], map' = MapOf',
         NEW t \in Threads, FreshInv(t), Step(t)
  PROVE  SeenInv'
<1>1. SeenOf(t)'
  <2>1. CASE acquire_E(t) \/ acquire_P(t) \/ refetch(t) \/ rehash(t) \/ publish(t) \/ unlock_P(t)
    BY <2>1, MoveOnSeen
  <2>2. CASE descend(t)
    <3>1. pc[t] = "descend"
      BY <2>2 DEF descend
    <3>2. MapOf' = MapOf
      BY <3>1, QuietMap DEF insert_empty, insert_append, publish, remove_hit
    <3>3. map = MapOf /\ map' = map
      BY <3>2 DEF SeenInv
    <3> QED BY <2>2, <3>3, DescendSeen
  <2>3. CASE read_elist(t)
    BY <2>3, ReadSeen
  <2>4. CASE miss(t) /\ call[t].op \in {"contains", "remove"}
    BY <2>4, MissSeen
  <2>5. CASE \/ call[t].op = "contains" /\ contains_hit(t)
             \/ call[t].op = "insert" /\ insert_exists(t)
    BY <2>5, HitSeen
  <2>6. CASE \/ call[t].op = "remove" /\ remove_hit(t)
             \/ call[t].op = "insert" /\ (insert_append(t) \/ insert_empty(t))
    BY <2>6, ChangeSeen
  <2>7. CASE unlock_E(t)
    <3>1. pc'[t] = "idle"
      BY <2>7 DEF IndInv, TypeOK, unlock_E, Goto
    <3> QED BY <3>1, SeenIdle
  <2> QED BY <2>1, <2>2, <2>3, <2>4, <2>5, <2>6, <2>7 DEF Step, contains, insert, remove, Traverse
<1>2. \A u \in Threads : SeenOf(u)'
  BY <1>1, StepOthers, SeenOthers DEF SeenInv
<1>3. seen' = [u \in Threads |-> seen'[u]]
  BY DEF History
<1> QED BY <1>2, <1>3 DEF SeenInv

-----------------------------------------------------------------------------
(* LinInv is inductive *)

LEMMA StepWay ==
  ASSUME IndInv, OwnInv, ContentInv, WayInv, way' = [k \in Keys |-> Lengthen(k)], NEW t \in Threads, Step(t),
         FillInv(t)
  PROVE  WayInv'
<1>1. CASE call[t].op = "insert" /\ insert_empty(t)
  BY <1>1, InsertEmptyWays
<1>2. CASE publish(t)
  BY <1>2, PublishWays DEF ContentInv
<1>3. CASE ~(call[t].op = "insert" /\ insert_empty(t)) /\ ~publish(t)
  <2>1. WayKept
    BY <1>3, StepKeepsWays
  <2>2. way' = way
    BY <2>1, KeptWays
  <2>3. \A u \in Threads : OnWay(u)'
    BY <2>2, SameLonger, StepOnWay, StepOthers, OthersOnWay
  <2> QED BY <2>1, <2>3, KeptWays
<1> QED BY <1>1, <1>2, <1>3

LEMMA StepLin ==
  ASSUME IndInv, OwnInv, ContentInv, LinInv, IndInv', OwnInv', History, NEW t \in Threads, Step(t)
  PROVE  LinInv'
<1>1. way' = [k \in Keys |-> Lengthen(k)] /\ map' = MapOf'
  BY HistoryShape DEF LinInv, SeenInv, IndInv
<1>2. WayInv /\ SeenInv /\ \A u \in Threads : FillInv(u) /\ FreshInv(u) /\ FilledInv(u)
  BY DEF LinInv
<1>3. WayInv'
  BY <1>1, <1>2, StepWay
<1>4. \A u \in Threads : FillInv(u)'
  BY <1>2, StepFill
<1>5. \A u \in Threads : FreshInv(u)' /\ FilledInv(u)'
  <2>1. overwritten' = (overwritten \/ \E u \in Threads : Overwrites(u)) /\ writers' = [e \in EAddr |-> Sign(e)]
    BY DEF History
  <2> QED BY <1>2, <2>1, StepFresh
<1>6. SeenInv'
  BY <1>1, <1>2, StepSeen
<1> QED BY <1>3, <1>4, <1>5, <1>6 DEF LinInv

LEMMA InvokeMap ==
  ASSUME IndInv, WayInv, way' = [k \in Keys |-> Lengthen(k)], NEW t \in Threads, NEW c, Invoke(t, c)
  PROVE  WayKept /\ way' = way /\ MapOf' = MapOf
<1>1. WayKept /\ elist' = elist
  BY InvokeKeepsWays
<1>2. way' = way /\ \A k \in Keys : end(k)' = end(k)
  BY <1>1, KeptWays
<1>3. \A k \in Keys : Find(k)' = Find(k)
  BY <1>1, <1>2, FindKept
<1> QED BY <1>1, <1>2, <1>3 DEF MapOf

LEMMA InvokeFill ==
  ASSUME IndInv, NEW t \in Threads, NEW c \in Calls(t), Invoke(t, c), NEW u \in Threads, FillInv(u)
  PROVE  FillInv(u)'
<1>1. CASE u = t
  <2>1. pc'[t] = "acquire"
    BY DEF Invoke, Goto, IndInv, TypeOK
  <2> QED BY <1>1, <2>1 DEF FillInv
<1>2. CASE u # t
  <2>1. pc'[u] = pc[u] /\ walk'[u] = walk[u] /\ crit'[u] = crit[u] /\ plist' = plist /\ elist' = elist
    BY <1>2, InvokeOthers DEF Others, Invoke
  <2> QED BY <2>1 DEF FillInv
<1> QED BY <1>1, <1>2

LEMMA InvokeLin ==
  ASSUME IndInv, OwnInv, ContentInv, LinInv, IndInv', OwnInv', History,
         NEW t \in Threads, NEW c \in Calls(t), Invoke(t, c)
  PROVE  LinInv'
<1>1. way' = [k \in Keys |-> Lengthen(k)] /\ map' = MapOf'
  BY HistoryShape DEF LinInv, SeenInv, IndInv
<1>2. WayInv /\ SeenInv /\ \A u \in Threads : FillInv(u) /\ FreshInv(u) /\ FilledInv(u)
  BY DEF LinInv
<1>3. WayKept /\ way' = way /\ MapOf' = MapOf
  BY <1>1, <1>2, InvokeMap
<1>4. WayInv'
  <2>1. \A u \in Threads : OnWay(u)'
    BY <1>2, <1>3, SameLonger, InvokeOnWay, InvokeOthers, OthersOnWay
  <2> QED BY <1>1, <1>2, <1>3, <2>1, KeptWays
<1>5. \A u \in Threads : FillInv(u)'
  BY <1>2, InvokeFill
<1>6. \A u \in Threads : FreshInv(u)' /\ FilledInv(u)'
  <2>1. writers' = [e \in EAddr |-> Sign(e)]
    BY DEF History
  <2> QED BY <1>2, <2>1, InvokeFresh, HistoryKeepsFlag
<1>7. SeenInv'
  <2>1. map = MapOf /\ map' = map
    BY <1>1, <1>2, <1>3 DEF SeenInv
  <2>2. SeenOf(t)'
    BY <1>2, <2>1, InvokeSeen
  <2>3. \A u \in Threads : SeenOf(u)'
    BY <1>2, <2>2, InvokeOthers, SeenOthers DEF SeenInv
  <2>4. seen' = [u \in Threads |-> seen'[u]]
    BY DEF History
  <2> QED BY <1>1, <2>3, <2>4 DEF SeenInv
<1> QED BY <1>4, <1>5, <1>6, <1>7 DEF LinInv

LEMMA WayStutter ==
  ASSUME WayInv, UNCHANGED <<plist, pc, call, walk, crit, way>>
  PROVE  WayInv'
<1>1. \A t \in Threads : OnWay(t)'
  BY DEF WayInv, OnWay
<1>2. \A k \in Keys : end(k)' \notin PAddr
  BY DEF WayInv, end, child
<1> QED BY <1>1, <1>2, WayStays

LEMMA FinishedLin ==
  ASSUME IndInv, OwnInv, LinInv, IndInv', OwnInv', History, Finished
  PROVE  LinInv'
<1>1. UNCHANGED <<plist, elist, pc, call, walk, crit>> /\ \A t \in Threads : pc'[t] = "idle"
  BY DEF Finished, AllDone, vars
<1>2. UNCHANGED <<way, map>>
  BY <1>1 DEF History, Contents
<1>3. WayInv'
  BY <1>1, <1>2, WayStutter DEF LinInv
<1>4. \A t \in Threads : FillInv(t)'
  BY <1>1 DEF FillInv
<1>5. \A t \in Threads : FreshInv(t)' /\ FilledInv(t)'
  BY <1>1, IdleFresh
<1>6. SeenInv'
  <2>1. \A t \in Threads : SeenOf(t)'
    BY <1>1, SeenIdle
  <2>2. MapOf' = MapOf
    BY <1>1, <1>2 DEF MapOf, Find, end, child
  <2>3. seen' = [u \in Threads |-> seen'[u]]
    BY DEF History
  <2> QED BY <1>2, <2>1, <2>2, <2>3 DEF SeenInv, LinInv
<1> QED BY <1>3, <1>4, <1>5, <1>6 DEF LinInv

LEMMA StutterLin ==
  ASSUME LinInv, UNCHANGED lvars
  PROVE  LinInv'
<1>1. UNCHANGED <<plist, elist, pc, call, walk, crit, ret, map, seen, overwritten, way, writers>>
  BY DEF lvars, vars, hvars
<1>2. WayInv'
  BY <1>1, WayStutter DEF LinInv
<1>3. \A t \in Threads : FillInv(t)'
  <2> SUFFICES ASSUME NEW t \in Threads, pc[t] \in {"rehash", "publish"} PROVE FillInv(t)'
    BY <1>1 DEF FillInv
  <2> DEFINE e(k) == plist[crit[t].next].base[level_hash(k, walk[t].depth + 1, 2 * walk[t].count)]
             moved == \A k \in Keys : \A v \in Vals[k] :
                Among(crit[t].pairs, crit[t].i - 1, k, v)
                   <=> e(k) # Null /\ Among(elist[e(k)].pairs, Len(elist[e(k)].pairs), k, v)
  <2>1. FillInv(t)
    BY DEF LinInv
  <2>2. moved
    BY <2>1 DEF FillInv
  <2>3. moved'
    BY <1>1, <2>2, Zenon
  <2> QED BY <1>1, <2>1, <2>3 DEF FillInv
<1>4. \A t \in Threads : FreshInv(t)' /\ FilledInv(t)'
  <2>1. \A t \in Threads : base_at(t)' = base_at(t)
    BY <1>1 DEF base_at, bucket
  <2>2. \A t \in Threads : FreshInv(t)'
    BY <1>1, <2>1 DEF LinInv, FreshInv
  <2>3. \A t \in Threads : FilledInv(t)'
    BY <1>1, <2>1 DEF LinInv, FilledInv, ByOthers
  <2> QED BY <2>2, <2>3
<1>5. SeenInv'
  <2>1. MapOf' = MapOf
    BY <1>1 DEF MapOf, Find, end, child
  <2>2. ASSUME NEW t \in Threads PROVE SeenOf(t)'
    <3>1. pc[t] # "idle" => Map!Answers(t)' = Map!Answers(t)
      BY <1>1, AnswersNow, AnswersNext
    <3>2. SeenOf(t)
      BY DEF LinInv, SeenInv
    <3> QED BY <1>1, <3>1, <3>2 DEF SeenOf
  <2> QED BY <1>1, <2>1, <2>2 DEF SeenInv, LinInv
<1> QED BY <1>2, <1>3, <1>4, <1>5 DEF LinInv

LEMMA NextLin == IndInv /\ OwnInv /\ ContentInv /\ LinInv /\ IndInv' /\ OwnInv' /\ [LNext]_lvars => LinInv'
<1> SUFFICES ASSUME IndInv, OwnInv, ContentInv, LinInv, IndInv', OwnInv', [LNext]_lvars PROVE LinInv'
  OBVIOUS
<1>1. CASE UNCHANGED lvars
  BY <1>1, StutterLin
<1>2. CASE LNext
  <2>1. History
    BY <1>2 DEF LNext
  <2>2. ASSUME NEW t \in Threads, NEW c \in Calls(t), Invoke(t, c) PROVE LinInv'
    BY <2>1, <2>2, InvokeLin
  <2>3. ASSUME NEW t \in Threads, Step(t) PROVE LinInv'
    BY <2>1, <2>3, StepLin
  <2>4. CASE Finished
    BY <2>1, <2>4, FinishedLin
  <2> QED BY <1>2, <2>2, <2>3, <2>4 DEF LNext, Next
<1> QED BY <1>1, <1>2

LEMMA RootWay ==
  ASSUME LInit, NEW k \in Keys
  PROVE  way[k] = <<Root>> /\ Len(way[k]) = 1 /\ way[k][1] = Root /\ end(k) = Null /\ plist[Root].size >= 2
<1>1. way[k] = <<Root>> /\ Len(way[k]) = 1 /\ way[k][1] = Root
  BY DEF LInit
<1>2. Root \in PAddr /\ PLIST_SIZE \in Nat /\ PLIST_SIZE >= 2
  BY ConstAssumption
<1>3. plist[Root] = InitPList(HostPool, PLIST_SIZE)
  BY <1>2 DEF LInit, Init
<1>4. plist[Root].size = PLIST_SIZE /\ plist[Root].base = [b \in 0..(PLIST_SIZE - 1) |-> Null]
  BY <1>3 DEF InitPList
<1>5. level_hash(k, 1, PLIST_SIZE) \in 0..(PLIST_SIZE - 1)
  <2>1. level_hash(k, 1, PLIST_SIZE) \in 0..(PLIST_SIZE - 2)
    BY <1>2, KeyNat, LevelHashRange
  <2> QED BY <1>2, <2>1
<1>6. end(k) = Null
  <2>1. end(k) = plist[Root].base[level_hash(k, 1, PLIST_SIZE)]
    BY <1>1, <1>4 DEF end, child
  <2> QED BY <1>4, <1>5, <2>1
<1> QED BY <1>1, <1>2, <1>4, <1>6

LEMMA InitLin == LInit => LinInv
<1> SUFFICES ASSUME LInit PROVE LinInv
  OBVIOUS
<1>1. Null \notin PAddr /\ Null \notin EAddr /\ Root \in PAddr
  BY ConstAssumption
<1>2. \A t \in Threads : pc[t] = "idle" /\ crit[t].base = Null
  BY DEF LInit, Init, NoCrit
<1>3. WayInv
  <2>1. way \in [Keys -> Seq(PAddr)]
    BY <1>1 DEF LInit
  <2>2. ASSUME NEW k \in Keys
        PROVE  LET w == way[k] IN
                 /\ Len(w) >= 1 /\ w[1] = Root /\ end(k) \notin PAddr
                 /\ \A d \in 1..Len(w) : plist[w[d]].size >= 2
                 /\ \A d \in 1..(Len(w) - 1) : child(plist, w[d], d, k) = w[d + 1]
    BY <1>1, RootWay
  <2>3. ASSUME NEW k \in Keys, NEW j \in Keys, NEW d \in 1..Len(way[k]), NEW c \in 1..Len(way[j])
        PROVE  d = c
    BY RootWay
  <2>4. \A t \in Threads : OnWay(t)
    BY <1>2 DEF OnWay
  <2> QED BY <2>1, <2>2, <2>3, <2>4 DEF WayInv
<1>4. SeenInv
  BY <1>2 DEF SeenInv, SeenOf, LInit
<1>5. ASSUME NEW t \in Threads PROVE FillInv(t) /\ FreshInv(t) /\ FilledInv(t)
  BY <1>2 DEF FillInv, FreshInv, FilledInv
<1> QED BY <1>3, <1>4, <1>5 DEF LinInv

LEMMA LinSpec == LSpec => Spec
<1>1. LInit => Init
  BY DEF LInit
<1>2. [LNext]_lvars => [Next]_vars
  BY DEF LNext, lvars
<1> QED BY <1>1, <1>2, PTL DEF LSpec, Spec

\* In every reachable state the way each key leads through the P-lists is the
\* one the threads in the middle of an operation stand on, a rehash has copied
\* its E-list exactly, and what an operation has read or decided was true at
\* some moment since its call, through every interleaving of acquire, rehash,
\* publish and the writes of E-lists.
THEOREM LinInvariant == LSpec => []LinInv
<1>1. LSpec => []IndInv /\ []OwnInv /\ []ContentInv
  BY LinSpec, Inductive, OwnInvariant, ContentInvariant, PTL
<1> QED BY <1>1, InitLin, NextLin, PTL DEF LSpec

-----------------------------------------------------------------------------
(* Every step up to the first overwriting one is a step of ConcurrentMap *)

LEMMA InCall ==
  ASSUME IndInv, NEW u \in Threads
  PROVE  /\ pc[u] = "idle" => CallOf[u] = NoCall
         /\ pc[u] # "idle" => CallOf[u] = call[u] /\ CallOf[u] # NoCall /\ call[u].key \in Keys /\ RetOf[u] = NoRes
<1>1. call[u].op \in OpKinds /\ ThreadInv(u)
  BY DEF IndInv, TypeOK
<1>2. call[u] # NoCall
  BY <1>1 DEF OpKinds, NoCall
<1> QED BY <1>1, <1>2 DEF CallOf, RetOf, ThreadInv

\* A step of t in the middle of its call: only t's decision is news.
LEMMA MidCall ==
  ASSUME IndInv, NEW t \in Threads, Others(t), pc[t] # "idle", pc'[t] # "idle", call'[t] = call[t]
  PROVE  /\ CallOf' = CallOf /\ RetOf' = RetOf
         /\ DoneOf' = [DoneOf EXCEPT ![t] = DoneOf'[t]]
         /\ \A u \in Threads : call'[u] = call[u] /\ (pc'[u] = "idle" <=> pc[u] = "idle")
<1>1. \A u \in Threads : call'[u] = call[u] /\ (pc'[u] = "idle" <=> pc[u] = "idle")
  BY DEF Others
<1>2. \A u \in Threads \ {t} : pc'[u] = pc[u] /\ ret'[u] = ret[u]
  BY DEF Others
<1>3. CallOf' = CallOf
  BY <1>1 DEF CallOf
<1>4. RetOf' = RetOf
  <2>1. \A u \in Threads : RetOf'[u] = RetOf[u]
    BY <1>1, <1>2 DEF RetOf
  <2> QED BY <2>1 DEF RetOf
<1>5. DoneOf' = [DoneOf EXCEPT ![t] = DoneOf'[t]]
  <2>1. \A u \in Threads \ {t} : DoneOf'[u] = DoneOf[u]
    BY <1>1, <1>2 DEF DoneOf
  <2> QED BY <2>1 DEF DoneOf
<1> QED BY <1>1, <1>3, <1>4, <1>5

LEMMA SeenSame ==
  ASSUME SeenInv, History, map' = map,
         \A u \in Threads : call'[u] = call[u] /\ (pc'[u] = "idle" <=> pc[u] = "idle")
  PROVE  seen' = seen
<1>1. ASSUME NEW u \in Threads PROVE seen'[u] = seen[u]
  <2>1. CASE pc[u] = "idle"
    BY <2>1, SeenIdle DEF SeenInv, SeenOf
  <2>2. CASE pc[u] # "idle"
    <3>1. seen'[u] = seen[u] \cup {map[call[u].key]}
      BY <2>2, SeenGrows
    <3>2. map[call[u].key] \in seen[u]
      BY <2>2 DEF SeenInv, SeenOf
    <3> QED BY <3>1, <3>2
  <2> QED BY <2>1, <2>2
<1>2. seen = [u \in Threads |-> seen[u]] /\ seen' = [u \in Threads |-> seen'[u]]
  BY DEF SeenInv, History
<1> QED BY <1>1, <1>2

LEMMA SeenBind ==
  ASSUME IndInv, SeenInv, History, NEW k \in Keys, \A j \in Keys : j # k => map'[j] = map[j],
         \A u \in Threads : call'[u] = call[u] /\ (pc'[u] = "idle" <=> pc[u] = "idle")
  PROVE  seen' = [u \in Threads |-> IF CallOf[u] # NoCall /\ CallOf[u].key = k
                                    THEN seen[u] \cup {map'[k]} ELSE seen[u]]
<1>2. ASSUME NEW u \in Threads
      PROVE  seen'[u] = IF CallOf[u] # NoCall /\ CallOf[u].key = k THEN seen[u] \cup {map'[k]} ELSE seen[u]
  <2>1. CASE pc[u] = "idle"
    BY <2>1, SeenIdle, InCall DEF SeenInv, SeenOf
  <2>2. CASE pc[u] # "idle"
    <3>1. seen'[u] = seen[u] \cup {map'[call[u].key]}
      BY <2>2, SeenGrows
    <3>2. map[call[u].key] \in seen[u]
      BY <2>2 DEF SeenInv, SeenOf
    <3>3. CallOf[u] = call[u] /\ CallOf[u] # NoCall /\ call[u].key \in Keys
      BY <2>2, InCall
    <3> QED BY <3>1, <3>2, <3>3
  <2> QED BY <2>1, <2>2
<1>3. seen' = [u \in Threads |-> seen'[u]]
  BY DEF History
<1> QED BY <1>2, <1>3

\* A step of t that changes neither the map nor what t has done.
LEMMA QuietStutter ==
  ASSUME IndInv, SeenInv, History, map' = map, NEW t \in Threads, Others(t), pc[t] # "idle", pc'[t] # "idle",
         call'[t] = call[t], DoneOf'[t] = DoneOf[t]
  PROVE  [Map!Next]_(Map!vars)
<1>1. CallOf' = CallOf /\ RetOf' = RetOf
  BY MidCall
<1>2. DoneOf' = DoneOf
  <2>1. DoneOf' = [DoneOf EXCEPT ![t] = DoneOf[t]]
    BY MidCall
  <2> QED BY <2>1 DEF DoneOf
<1>3. seen' = seen
  BY MidCall, SeenSame
<1> QED BY <1>1, <1>2, <1>3, MapStutter

LEMMA ChangeIsCommit ==
  ASSUME IndInv, SeenInv, History, map' = MapOf', NEW t \in Threads, Others(t), pc[t] = "work", pc'[t] = "unlock",
         call'[t] = call[t], call[t].key \in Keys,
         \/ /\ call[t].op = "insert" /\ MapOf' = [MapOf EXCEPT ![call[t].key] = call[t].val]
            /\ MapOf[call[t].key] = Absent /\ ret'[t] = [status |-> TRUE, result |-> 0]
         \/ /\ call[t].op = "remove" /\ MapOf' = [MapOf EXCEPT ![call[t].key] = Absent]
            /\ MapOf[call[t].key] # Absent
            /\ ret'[t] = [status |-> TRUE, result |-> MapOf[call[t].key]]
  PROVE  [Map!Next]_(Map!vars)
<1>1. /\ CallOf' = CallOf /\ RetOf' = RetOf /\ CallOf[t] = call[t]
      /\ DoneOf' = [DoneOf EXCEPT ![t] = DoneOf'[t]]
      /\ \A u \in Threads : call'[u] = call[u] /\ (pc'[u] = "idle" <=> pc[u] = "idle")
  BY MidCall, InCall
<1>2. DoneOf[t] = NoRes /\ DoneOf'[t] = ret'[t]
  BY DEF DoneOf
<1>3. DoneOf' = [DoneOf EXCEPT ![t] = ret'[t]]
  BY <1>1, <1>2
<1>4. map = MapOf
  BY DEF SeenInv
<1>5. CASE /\ call[t].op = "insert" /\ MapOf' = [MapOf EXCEPT ![call[t].key] = call[t].val]
           /\ MapOf[call[t].key] = Absent /\ ret'[t] = [status |-> TRUE, result |-> 0]
  <2>1. map' = [map EXCEPT ![call[t].key] = call[t].val]
    BY <1>4, <1>5
  <2>2. seen' = [u \in Threads |-> IF CallOf[u] # NoCall /\ CallOf[u].key = CallOf[t].key
                                   THEN seen[u] \cup {CallOf[t].val} ELSE seen[u]]
    <3>1. map'[call[t].key] = call[t].val /\ \A j \in Keys : j # call[t].key => map'[j] = map[j]
      BY <1>4, <2>1 DEF MapOf
    <3>2. seen' = [u \in Threads |-> IF CallOf[u] # NoCall /\ CallOf[u].key = call[t].key
                                     THEN seen[u] \cup {map'[call[t].key]} ELSE seen[u]]
      BY <1>1, <3>1, SeenBind
    <3> QED BY <1>1, <3>1, <3>2
  <2>3. /\ CallOf[t].op = "insert" /\ map[CallOf[t].key] = Absent
        /\ map' = [map EXCEPT ![CallOf[t].key] = CallOf[t].val]
        /\ DoneOf' = [DoneOf EXCEPT ![t] = [status |-> TRUE, result |-> 0]]
    BY <1>1, <1>3, <1>4, <1>5, <2>1
  <2>4. Map!Next
    BY <1>1, <1>2, <2>2, <2>3, MapInsert
  <2> QED BY <2>4
<1>6. CASE /\ call[t].op = "remove" /\ MapOf' = [MapOf EXCEPT ![call[t].key] = Absent]
           /\ MapOf[call[t].key] # Absent
           /\ ret'[t] = [status |-> TRUE, result |-> MapOf[call[t].key]]
  <2>1. map' = [map EXCEPT ![call[t].key] = Absent]
    BY <1>4, <1>6
  <2>2. seen' = [u \in Threads |-> IF CallOf[u] # NoCall /\ CallOf[u].key = CallOf[t].key
                                   THEN seen[u] \cup {Absent} ELSE seen[u]]
    <3>1. map'[call[t].key] = Absent /\ \A j \in Keys : j # call[t].key => map'[j] = map[j]
      BY <1>4, <2>1 DEF MapOf
    <3>2. seen' = [u \in Threads |-> IF CallOf[u] # NoCall /\ CallOf[u].key = call[t].key
                                     THEN seen[u] \cup {map'[call[t].key]} ELSE seen[u]]
      BY <1>1, <3>1, SeenBind
    <3> QED BY <1>1, <3>1, <3>2
  <2>3. /\ CallOf[t].op = "remove" /\ map[CallOf[t].key] # Absent
        /\ map' = [map EXCEPT ![CallOf[t].key] = Absent]
        /\ DoneOf' = [DoneOf EXCEPT ![t] = [status |-> TRUE, result |-> map[CallOf[t].key]]]
    BY <1>1, <1>3, <1>4, <1>6, <2>1
  <2>4. Map!Next
    BY <1>1, <1>2, <2>2, <2>3, MapRemove
  <2> QED BY <2>4
<1> QED BY <1>5, <1>6

LEMMA UnlockIsReturn ==
  ASSUME IndInv, SeenInv, History, map' = map, NEW t \in Threads, Others(t), unlock_E(t), ~overwritten
  PROVE  [Map!Next]_(Map!vars)
<1>1. /\ pc[t] = "unlock" /\ pc'[t] = "idle" /\ call'[t] = call[t] /\ ret' = ret
      /\ \A u \in Threads \ {t} : pc'[u] = pc[u] /\ call'[u] = call[u]
  BY DEF IndInv, TypeOK, unlock_E, Goto, Others
<1>2. CallOf[t] = call[t] /\ CallOf[t] # NoCall
  BY <1>1, InCall
<1>3. ret[t] \in IF DoneOf[t] # NoRes THEN {DoneOf[t]} ELSE Map!Answers(t)
  <2>1. CASE ret[t].status /\ call[t].op # "contains"
    <3>1. DoneOf[t] = ret[t]
      BY <1>1, <2>1 DEF DoneOf
    <3>2. DoneOf[t] # NoRes
      BY <2>1, <3>1 DEF NoRes
    <3> QED BY <3>1, <3>2
  <2>2. CASE ~(ret[t].status /\ call[t].op # "contains")
    <3>1. DoneOf[t] = NoRes
      BY <2>2 DEF DoneOf
    <3>2. ret[t] \in Map!Answers(t)
      BY <1>1, <2>2 DEF SeenInv, SeenOf
    <3> QED BY <3>1, <3>2
  <2> QED BY <2>1, <2>2
<1>4. CallOf' = [CallOf EXCEPT ![t] = NoCall]
  BY <1>1 DEF CallOf
<1>5. DoneOf' = [DoneOf EXCEPT ![t] = NoRes]
  BY <1>1 DEF DoneOf
<1>6. RetOf' = [RetOf EXCEPT ![t] = ret[t]]
  BY <1>1 DEF RetOf
<1>7. seen' = [seen EXCEPT ![t] = {}]
  <2>1. seen'[t] = {}
    BY <1>1, SeenIdle
  <2>2. ASSUME NEW u \in Threads, u # t PROVE seen'[u] = seen[u]
    <3>1. CASE pc[u] = "idle"
      BY <1>1, <2>2, <3>1, SeenIdle DEF SeenInv, SeenOf
    <3>2. CASE pc[u] # "idle"
      <4>1. seen'[u] = seen[u] \cup {map[call[u].key]}
        BY <1>1, <2>2, <3>2, SeenGrows
      <4>2. map[call[u].key] \in seen[u]
        BY <3>2 DEF SeenInv, SeenOf
      <4> QED BY <4>1, <4>2
    <3> QED BY <3>1, <3>2
  <2>3. seen = [u \in Threads |-> seen[u]] /\ seen' = [u \in Threads |-> seen'[u]]
    BY DEF SeenInv, History
  <2> QED BY <2>1, <2>2, <2>3
<1> QED BY <1>2, <1>3, <1>4, <1>5, <1>6, <1>7, MapReturn

LEMMA InvokeIsInvoke ==
  ASSUME IndInv, SeenInv, History, map' = map, NEW t \in Threads, NEW c \in Calls(t), Invoke(t, c)
  PROVE  [Map!Next]_(Map!vars)
<1>1. /\ pc[t] = "idle" /\ pc'[t] = "acquire" /\ call' = [call EXCEPT ![t] = c] /\ call'[t] = c /\ ret' = ret
      /\ \A u \in Threads \ {t} : pc'[u] = pc[u] /\ call'[u] = call[u]
  BY DEF IndInv, TypeOK, Invoke, Goto
<1>2. CallOf[t] = NoCall
  BY <1>1, InCall
<1>3. CallOf' = [CallOf EXCEPT ![t] = c]
  BY <1>1 DEF CallOf
<1>4. DoneOf' = DoneOf
  <2>1. \A u \in Threads : DoneOf'[u] = DoneOf[u]
    BY <1>1 DEF DoneOf
  <2> QED BY <2>1 DEF DoneOf
<1>5. RetOf' = [RetOf EXCEPT ![t] = NoRes]
  BY <1>1 DEF RetOf
<1>6. seen' = [seen EXCEPT ![t] = {map[c.key]}]
  <2>1. seen'[t] = {map[c.key]}
    BY <1>1, SeenGrows
  <2>2. ASSUME NEW u \in Threads, u # t PROVE seen'[u] = seen[u]
    <3>1. CASE pc[u] = "idle"
      BY <1>1, <2>2, <3>1, SeenIdle DEF SeenInv, SeenOf
    <3>2. CASE pc[u] # "idle"
      <4>1. seen'[u] = seen[u] \cup {map[call[u].key]}
        BY <1>1, <2>2, <3>2, SeenGrows
      <4>2. map[call[u].key] \in seen[u]
        BY <3>2 DEF SeenInv, SeenOf
      <4> QED BY <4>1, <4>2
    <3> QED BY <3>1, <3>2
  <2>3. seen = [u \in Threads |-> seen[u]] /\ seen' = [u \in Threads |-> seen'[u]]
    BY DEF SeenInv, History
  <2> QED BY <2>1, <2>2, <2>3
<1> QED BY <1>2, <1>3, <1>4, <1>5, <1>6, MapInvoke

LEMMA StepIsMap ==
  ASSUME IndInv, OwnInv, ContentInv, LinInv, IndInv', History, NEW t \in Threads, Step(t), ~overwritten'
  PROVE  [Map!Next]_(Map!vars)
<1>1. way' = [k \in Keys |-> Lengthen(k)] /\ map' = MapOf'
  BY HistoryShape DEF LinInv, SeenInv, IndInv
<1>2. WayInv /\ SeenInv /\ map = MapOf /\ FillInv(t) /\ FreshInv(t)
  BY DEF LinInv, SeenInv
<1>3. Others(t) /\ ~overwritten
  BY StepOthers, HistoryKeepsFlag
<1>4. CASE unlock_E(t)
  <2>1. pc[t] = "unlock"
    BY <1>4 DEF unlock_E
  <2>2. MapOf' = MapOf
    BY <1>1, <1>2, <2>1, QuietMap DEF insert_empty, insert_append, publish, remove_hit
  <2> QED BY <1>1, <1>2, <1>3, <1>4, <2>2, UnlockIsReturn
<1>5. CASE \/ call[t].op = "remove" /\ remove_hit(t)
           \/ call[t].op = "insert" /\ (insert_append(t) \/ insert_empty(t))
  <2>1. pc[t] = "work" /\ pc'[t] = "unlock" /\ call'[t] = call[t]
    BY <1>5 DEF IndInv, TypeOK, remove_hit, insert_append, insert_empty, Decide, Goto
  <2>2. CASE call[t].op = "remove" /\ remove_hit(t)
    BY <1>1, <1>2, <1>3, <2>1, <2>2, RemoveMap, ChangeIsCommit
  <2>3. CASE call[t].op = "insert" /\ insert_append(t)
    BY <1>1, <1>2, <1>3, <2>1, <2>3, AppendMap, ChangeIsCommit
  <2>4. CASE call[t].op = "insert" /\ insert_empty(t)
    <3>1. base_at(t) = Null
      BY <2>4, EmptyUnlessOverwritten DEF History
    <3> QED BY <1>1, <1>2, <1>3, <2>1, <2>4, <3>1, EmptyMap, ChangeIsCommit
  <2> QED BY <1>5, <2>2, <2>3, <2>4
<1>6. CASE publish(t)
  <2>1. pc[t] = "publish" /\ pc'[t] = "punlock" /\ call'[t] = call[t]
    BY <1>6 DEF IndInv, TypeOK, publish, Goto
  <2>2. DoneOf'[t] = DoneOf[t]
    BY <2>1 DEF DoneOf
  <2>3. MapOf' = MapOf
    BY <1>1, <1>2, <1>3, <1>6, PublishMap
  <2> QED BY <1>1, <1>2, <1>3, <2>1, <2>2, <2>3, QuietStutter
<1>7. CASE \/ acquire_E(t) \/ acquire_P(t) \/ refetch(t) \/ descend(t) \/ read_elist(t) \/ rehash(t) \/ unlock_P(t)
  <2>1. pc[t] \notin {"idle", "unlock"} /\ pc'[t] \notin {"idle", "unlock"} /\ call'[t] = call[t]
    BY <1>7 DEF IndInv, TypeOK, acquire_E, acquire_P, refetch, descend, read_elist, rehash, rehash_alloc,
                rehash_move, rehash_free, unlock_P, Goto
  <2>2. DoneOf'[t] = DoneOf[t]
    BY <2>1 DEF DoneOf
  <2>3. MapOf' = MapOf
    <3>1. ~insert_empty(t) /\ ~insert_append(t) /\ ~remove_hit(t)
      <4>1. insert_empty(t) \/ insert_append(t) \/ remove_hit(t) => pc'[t] = "unlock"
        BY DEF IndInv, TypeOK, insert_empty, insert_append, remove_hit, Decide, Goto
      <4> QED BY <2>1, <4>1
    <3>2. CASE ~publish(t)
      BY <1>1, <1>2, <3>1, <3>2, QuietMap
    <3>3. CASE publish(t)
      BY <1>1, <1>2, <1>3, <3>3, PublishMap
    <3> QED BY <3>2, <3>3
  <2> QED BY <1>1, <1>2, <1>3, <2>1, <2>2, <2>3, QuietStutter
<1>8. CASE \/ call[t].op \in {"contains", "remove"} /\ miss(t)
           \/ call[t].op = "contains" /\ contains_hit(t)
           \/ call[t].op = "insert" /\ insert_exists(t)
  <2>1. pc[t] = "work" /\ pc'[t] = "unlock" /\ call'[t] = call[t]
    BY <1>8 DEF IndInv, TypeOK, miss, contains_hit, insert_exists, Decide, Goto
  <2>2. DoneOf'[t] = DoneOf[t]
    <3>1. ~ret'[t].status \/ call[t].op = "contains"
      BY <1>8 DEF IndInv, TypeOK, miss, contains_hit, insert_exists, Decide
    <3> QED BY <2>1, <3>1 DEF DoneOf
  <2>3. MapOf' = MapOf
    <3>1. plist' = plist /\ elist' = elist
      BY <1>8 DEF miss, contains_hit, insert_exists
    <3>2. map' = map
      BY <3>1 DEF History, Contents
    <3> QED BY <1>1, <1>2, <3>2
  <2> QED BY <1>1, <1>2, <1>3, <2>1, <2>2, <2>3, QuietStutter
<1> QED BY <1>4, <1>5, <1>6, <1>7, <1>8 DEF Step, contains, insert, remove, Traverse

LEMMA FinishedIsStutter ==
  ASSUME IndInv, SeenInv, History, Finished
  PROVE  [Map!Next]_(Map!vars)
<1>1. UNCHANGED <<plist, elist, pc, call, ret>>
  BY DEF Finished, vars
<1>2. map' = map
  BY <1>1 DEF History, Contents
<1>3. seen' = seen
  BY <1>1, <1>2, SeenSame
<1> QED BY <1>1, <1>2, <1>3, MapStutter DEF CallOf, RetOf, DoneOf

LEMMA NextIsMap ==
  ASSUME IndInv, OwnInv, ContentInv, LinInv, IndInv', LNext, ~overwritten'
  PROVE  [Map!Next]_(Map!vars)
<1>1. History /\ WayInv /\ SeenInv /\ map = MapOf
  BY DEF LNext, LinInv, SeenInv
<1>2. ASSUME NEW t \in Threads, NEW c \in Calls(t), Invoke(t, c) PROVE [Map!Next]_(Map!vars)
  <2>1. way' = [k \in Keys |-> Lengthen(k)] /\ map' = MapOf'
    BY <1>1, HistoryShape DEF IndInv
  <2>2. map' = map
    BY <1>1, <1>2, <2>1, InvokeMap
  <2> QED BY <1>1, <1>2, <2>2, InvokeIsInvoke
<1>3. ASSUME NEW t \in Threads, Step(t) PROVE [Map!Next]_(Map!vars)
  BY <1>1, <1>3, StepIsMap
<1>4. CASE Finished
  BY <1>1, <1>4, FinishedIsStutter
<1> QED BY <1>2, <1>3, <1>4 DEF LNext, Next

LEMMA InitIsMap == LInit => Map!Init
<1> SUFFICES ASSUME LInit PROVE Map!Init
  OBVIOUS
<1>1. \A k \in Keys : end(k) = Null
  BY RootWay
<1>2. Null \notin EAddr
  BY ConstAssumption
<1>3. map = [k \in Keys |-> Absent]
  BY <1>1, <1>2 DEF LInit, MapOf, Find
<1>4. \A t \in Threads : pc[t] = "idle" /\ ret[t] = [status |-> FALSE, result |-> 0]
  BY DEF LInit, Init
<1>5. CallOf = [t \in Threads |-> NoCall] /\ DoneOf = [t \in Threads |-> NoRes]
  BY <1>4 DEF CallOf, DoneOf
<1>6. RetOf = [t \in Threads |-> [status |-> FALSE, result |-> 0]]
  BY <1>4 DEF RetOf
<1>7. seen = [t \in Threads |-> {}]
  BY DEF LInit
<1> QED BY <1>3, <1>5, <1>6, <1>7, SameNone DEF Map!Init

-----------------------------------------------------------------------------
(* Theorems *)

LEMMA LinSafe == LSpec => []IndInv /\ []OwnInv /\ []ContentInv
BY LinSpec, Inductive, OwnInvariant, ContentInvariant, PTL

\* contains, insert and remove are linearizable up to the first insert that
\* takes a filled bucket for an empty one: every other step of the code, the
\* rehashes and the write-backs of remote copies too, is a step of
\* ConcurrentMap or a stutter.
THEOREM LinearizableHolds == LSpec => LinearizableUnlessOverwritten
<1> DEFINE A == ~overwritten' => [Map!Next]_(Map!vars)
<1>1. IndInv /\ OwnInv /\ ContentInv /\ LinInv /\ IndInv' /\ [LNext]_lvars => [A]_lvars
  <2> SUFFICES ASSUME IndInv, OwnInv, ContentInv, LinInv, IndInv', LNext, ~overwritten'
               PROVE  [Map!Next]_(Map!vars)
    OBVIOUS
  <2> QED BY NextIsMap
<1>2. LInit => Map!Init
  BY InitIsMap
<1> QED BY <1>1, <1>2, LinSafe, LinInvariant, PTL DEF LSpec, LinearizableUnlessOverwritten

\* What an insert overwrites is an E-list that the inserts of other threads
\* have allocated and filled, without a pair of the inserting thread's own.
THEOREM OverwritesOthersOnlyHolds == LSpec => OverwritesOthersOnly
<1> DEFINE B(t) == plist[walk[t].curr].base[bucket(t)]
           A == \A t \in Threads : Overwrites(t) => B(t) \in EAddr /\ ByOthers(t, B(t))
<1>1. IndInv /\ LinInv /\ [LNext]_lvars => [A]_lvars
  <2> SUFFICES ASSUME IndInv, LinInv, NEW t \in Threads, Overwrites(t)
               PROVE  B(t) \in EAddr /\ ByOthers(t, B(t))
    BY DEF A
  <2>1. pc[t] = "work" /\ crit[t].base = Null /\ B(t) # Null
    BY DEF Overwrites
  <2>2. B(t) \in EAddr
    BY <2>1, HeldIsElist DEF InCrit
  <2> QED BY <2>1, <2>2 DEF LinInv, FilledInv, base_at
<1>2. LSpec => [][A]_lvars
  BY <1>1, LinSafe, LinInvariant, PTL DEF LSpec
<1> QED BY <1>2 DEF OverwritesOthersOnly

\* With at most one inserting thread, contains, insert and remove are
\* linearizable without a condition: the table implements ConcurrentMap.
THEOREM SingleInserterLinearizable ==
  ASSUME \A t, u \in Threads : "insert" \in Mix[t] /\ "insert" \in Mix[u] => t = u
  PROVE  LSpec => Map!Spec
<1>1. LInit => ~overwritten
  BY DEF LInit
<1>2. IndInv /\ ContentInv /\ LinInv /\ ~overwritten /\ [LNext]_lvars => ~overwritten'
  <2> SUFFICES ASSUME IndInv, ContentInv, LinInv, ~overwritten, LNext PROVE ~overwritten'
    BY DEF lvars, hvars
  <2>1. ASSUME NEW t \in Threads, Overwrites(t) PROVE FALSE
    <3>1. pc[t] = "work" /\ crit[t].base = Null /\ base_at(t) # Null /\ call[t].op = "insert"
      BY <2>1 DEF Overwrites, base_at
    <3>2. base_at(t) \in EAddr
      BY <3>1, HeldIsElist DEF InCrit, base_at
    <3>3. PICK u \in Threads : u # t /\ "insert" \in Mix[u]
      BY <3>1, <3>2 DEF LinInv, FilledInv, ByOthers
    <3>4. "insert" \in Mix[t]
      BY <3>1 DEF ContentInv, CopyInv, Calls
    <3> QED BY <3>3, <3>4
  <2> QED BY <2>1 DEF LNext, History
<1>3. LSpec => []~overwritten
  BY <1>1, <1>2, LinSafe, LinInvariant, PTL DEF LSpec
<1>4. IndInv /\ OwnInv /\ ContentInv /\ LinInv /\ IndInv' /\ ~overwritten' /\ [LNext]_lvars => [Map!Next]_(Map!vars)
  <2>1. CASE LNext
    BY <2>1, NextIsMap
  <2>2. CASE UNCHANGED lvars
    <3>1. UNCHANGED <<map, seen, pc, call, ret>>
      BY <2>2 DEF lvars, vars, hvars
    <3>2. CallOf' = CallOf /\ RetOf' = RetOf /\ DoneOf' = DoneOf
      BY <3>1 DEF CallOf, RetOf, DoneOf
    <3> QED BY <3>1, <3>2, MapStutter
  <2> QED BY <2>1, <2>2
<1> QED BY <1>3, <1>4, InitIsMap, LinSafe, LinInvariant, PTL DEF LSpec, Map!Spec
=============================================================================
