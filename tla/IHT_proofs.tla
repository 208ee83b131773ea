----------------------------- MODULE IHT_proofs -----------------------------
(***************************************************************************)
(* Proofs about IHT: the inductive invariant IndInv, and what follows from *)
(* it for every number of threads, every size of the lists and every tree. *)
(***************************************************************************)
EXTENDS IHT, WellFoundedInduction, TLAPS

-----------------------------------------------------------------------------
(* Lemmas about the operators *)

\* Exclusive or yields a natural number.
LEMMA BitXorNat == \A a, b \in Nat : BitXor(a, b) \in Nat
BY DEF BitXor, BitOf

\* A key hashes to a bucket of the P-list, and never to the last one.
LEMMA LevelHashRange ==
  ASSUME NEW k \in Nat, NEW d \in Nat, NEW c \in Nat, c >= 2
  PROVE  level_hash(k, d, c) \in 0..(c - 2)
<1>1. BitXor(d, k) \in Nat
  BY BitXorNat
<1>2. \A x \in Nat : x % (c - 1) \in 0..(c - 2)
  OBVIOUS
<1> QED BY <1>1, <1>2 DEF level_hash

\* The linear search finds an index of the list that holds the key.
LEMMA FirstMatchIsMatch ==
  ASSUME NEW s \in Seq(Pair), NEW k, Matches(s, k) # {}
  PROVE  FirstMatch(s, k) \in 1..Len(s) /\ s[FirstMatch(s, k)].key = k
<1> DEFINE M == Matches(s, k)
           R == OpToRel(<, Nat)
<1>1. M \subseteq Nat
  BY DEF Matches
<1>2. IsWellFoundedOn(R, Nat)
  BY NatLessThanWellFounded
<1>3. \A x, y \in Nat : y < x => <<y, x>> \in R
  BY DEF OpToRel
<1>4. M # {}
  OBVIOUS
<1> HIDE DEF M, R
<1>5. PICK m \in M : \A j \in M : ~(<<j, m>> \in R)
  BY <1>1, <1>2, <1>4, WFMin
<1>6. ASSUME NEW j \in M PROVE m <= j
  <2>1. m \in Nat /\ j \in Nat
    BY <1>1, <1>5
  <2>2. ~(j < m)
    BY <2>1, <1>3, <1>5
  <2> QED BY <2>1, <2>2
<1> QED BY <1>5, <1>6 DEF FirstMatch, Matches, M

\* The least element principle as induction: a set of numbers that has 0 and
\* every successor has all of them.
LEMMA SetInduction ==
  ASSUME NEW S, 0 \in S, \A n \in Nat : n \in S => n + 1 \in S
  PROVE  \A n \in Nat : n \in S
<1> DEFINE B == {n \in Nat : n \notin S}
           R == OpToRel(<, Nat)
<1> SUFFICES ASSUME B # {} PROVE FALSE
  OBVIOUS
<1>1. IsWellFoundedOn(R, Nat)
  BY NatLessThanWellFounded
<1>2. \A x, y \in Nat : y < x => <<y, x>> \in R
  BY DEF OpToRel
<1>3. B \subseteq Nat
  OBVIOUS
<1> HIDE DEF R
<1>4. PICK m \in B : \A j \in B : ~(<<j, m>> \in R)
  <2> HIDE DEF B
  <2> QED BY <1>1, <1>3, WFMin
<1>5. m \in Nat /\ m \notin S /\ m # 0
  BY <1>4
<1>6. m - 1 \in Nat /\ m - 1 < m /\ (m - 1) + 1 = m
  BY <1>5
<1>7. m - 1 \notin B
  BY <1>2, <1>4, <1>5, <1>6
<1> QED BY <1>5, <1>6, <1>7

\* g is Shl on 0..n.
ShlTo(n, g) == g[0] = 1 /\ \A i \in 0..(n - 1) : g[i + 1] = 2 * g[i]

LEMMA ShlToExists == \A n \in Nat : \E g \in [0..n -> Nat] : ShlTo(n, g)
<1> DEFINE S == {n \in Nat : \E g \in [0..n -> Nat] : ShlTo(n, g)}
<1>1. 0 \in S
  <2>1. [i \in 0..0 |-> 1] \in [0..0 -> Nat] /\ ShlTo(0, [i \in 0..0 |-> 1])
    BY DEF ShlTo
  <2> QED BY <2>1
<1>2. ASSUME NEW n \in Nat, n \in S PROVE n + 1 \in S
  <2>1. PICK g \in [0..n -> Nat] : ShlTo(n, g)
    BY <1>2
  <2> DEFINE h == [i \in 0..(n + 1) |-> IF i = n + 1 THEN 2 * g[n] ELSE g[i]]
  <2>2. h \in [0..(n + 1) -> Nat]
    OBVIOUS
  <2>3. h[0] = 1
    BY <2>1 DEF ShlTo
  <2>4. ASSUME NEW i \in 0..((n + 1) - 1) PROVE h[i + 1] = 2 * h[i]
    <3>1. CASE i = n
      BY <3>1
    <3>2. CASE i # n
      <4>1. i \in 0..(n - 1) /\ i + 1 # n + 1 /\ i + 1 \in 0..(n + 1) /\ i \in 0..(n + 1) /\ i # n + 1
        BY <3>2
      <4>2. h[i + 1] = g[i + 1] /\ h[i] = g[i]
        BY <4>1
      <4> QED BY <2>1, <4>1, <4>2 DEF ShlTo
    <3> QED BY <3>1, <3>2
  <2> HIDE DEF h
  <2>5. ShlTo(n + 1, h)
    BY <2>3, <2>4 DEF ShlTo
  <2> QED BY <2>2, <2>5
<1> HIDE DEF S
<1>3. \A n \in Nat : n \in S
  BY <1>1, <1>2, SetInduction
<1> QED BY <1>3 DEF S

LEMMA ShlToUnique ==
  ASSUME NEW n \in Nat, NEW m \in Nat, n <= m,
         NEW g \in [0..n -> Nat], NEW h \in [0..m -> Nat], ShlTo(n, g), ShlTo(m, h)
  PROVE  \A i \in 0..n : g[i] = h[i]
<1> DEFINE S == {i \in Nat : i \in 0..n => g[i] = h[i]}
<1>1. 0 \in S
  BY DEF ShlTo
<1>2. ASSUME NEW i \in Nat, i \in S PROVE i + 1 \in S
  <2>1. CASE i + 1 \in 0..n
    <3>1. i \in 0..(n - 1) /\ i \in 0..(m - 1) /\ i \in 0..n
      BY <2>1
    <3>2. g[i + 1] = 2 * g[i] /\ h[i + 1] = 2 * h[i]
      BY <3>1 DEF ShlTo
    <3> QED BY <1>2, <3>1, <3>2
  <2>2. CASE i + 1 \notin 0..n
    BY <2>2
  <2> QED BY <2>1, <2>2
<1> HIDE DEF S
<1>3. \A i \in Nat : i \in S
  BY <1>1, <1>2, SetInduction
<1> QED BY <1>3 DEF S

\* The factor of an extended read doubles from one level to the next.
LEMMA ShlDoubles == Shl[0] = 1 /\ \A n \in Nat : Shl[n] \in Nat /\ Shl[n + 1] = 2 * Shl[n]
<1> DEFINE G(n) == CHOOSE g \in [0..n -> Nat] : ShlTo(n, g)
           f == [n \in Nat |-> G(n)[n]]
<1>1. \A n \in Nat : G(n) \in [0..n -> Nat] /\ ShlTo(n, G(n))
  BY ShlToExists
<1> HIDE DEF G
<1>2. f[0] = 1
  BY <1>1 DEF ShlTo
<1>3. ASSUME NEW n \in Nat PROVE f[n] \in Nat /\ f[n + 1] = 2 * f[n]
  <2>1. G(n + 1)[n] = G(n)[n]
    <3> DEFINE m == n + 1
               g == G(n)
               h == G(m)
    <3>1. /\ m \in Nat /\ n <= m /\ n \in 0..n
          /\ g \in [0..n -> Nat] /\ ShlTo(n, g) /\ h \in [0..m -> Nat] /\ ShlTo(m, h)
      BY <1>1
    <3> HIDE DEF m, g, h
    <3>2. \A i \in 0..n : g[i] = h[i]
      BY <3>1, ShlToUnique
    <3> QED BY <3>1, <3>2 DEF g, h, m
  <2>2. G(n + 1)[n + 1] = 2 * G(n + 1)[n]
    <3>1. ShlTo(n + 1, G(n + 1)) /\ n \in 0..((n + 1) - 1)
      BY <1>1
    <3> QED BY <3>1 DEF ShlTo
  <2>3. f[n] = G(n)[n] /\ f[n + 1] = G(n + 1)[n + 1]
    OBVIOUS
  <2>4. G(n)[n] \in Nat
    BY <1>1
  <2> HIDE DEF f
  <2> QED BY <2>1, <2>2, <2>3, <2>4
<1>4. f = [n \in Nat |-> IF n = 0 THEN 1 ELSE 2 * f[n - 1]]
  <2>1. ASSUME NEW n \in Nat PROVE f[n] = IF n = 0 THEN 1 ELSE 2 * f[n - 1]
    <3>1. CASE n = 0
      BY <1>2, <3>1
    <3>2. CASE n # 0
      <4>1. n - 1 \in Nat /\ (n - 1) + 1 = n
        BY <3>2
      <4>2. f[(n - 1) + 1] = 2 * f[n - 1]
        BY <1>3, <4>1
      <4> QED BY <3>2, <4>1, <4>2
    <3> QED BY <3>1, <3>2
  <2> DEFINE h == [n \in Nat |-> IF n = 0 THEN 1 ELSE 2 * f[n - 1]]
  <2>2. \A n \in Nat : h[n] = f[n]
    BY <2>1
  <2> QED BY <2>2
<1> HIDE DEF f
<1>5. Shl = [n \in Nat |-> IF n = 0 THEN 1 ELSE 2 * Shl[n - 1]]
  BY <1>4 DEF Shl
<1>6. Shl[0] = 1
  BY <1>5
<1>7. ASSUME NEW n \in Nat PROVE Shl[n + 1] = 2 * Shl[n]
  <2>1. n + 1 \in Nat /\ n + 1 # 0 /\ (n + 1) - 1 = n
    OBVIOUS
  <2> QED BY <1>5, <2>1
<1> DEFINE S == {n \in Nat : Shl[n] \in Nat}
<1>8. 0 \in S /\ \A n \in Nat : n \in S => n + 1 \in S
  BY <1>6, <1>7
<1>9. \A n \in Nat : n \in S
  <2> HIDE DEF S
  <2> QED BY <1>8, SetInduction
<1> QED BY <1>6, <1>7, <1>9

-----------------------------------------------------------------------------
(* Lemmas about the state *)

\* The bucket a thread is at is a bucket of the P-list it stands on.
LEMMA BucketInList ==
  ASSUME TypeOK, NEW t \in Threads, ThreadInv(t)
  PROVE  /\ bucket(t) \in 0..(walk[t].count - 1)
         /\ walk[t].curr \in PAddr
         /\ plist[walk[t].curr] \in PListOf(walk[t].count)
<1>1. /\ call[t].key \in Nat /\ walk[t].depth \in Nat
      /\ walk[t].count \in Nat /\ walk[t].count >= 2 /\ walk[t].curr \in PAddr
  BY DEF TypeOK, ThreadInv
<1>2. bucket(t) \in 0..(walk[t].count - 2)
  BY <1>1, LevelHashRange DEF bucket
<1> QED BY <1>1, <1>2 DEF TypeOK, ThreadInv

\* Writing the pairs or the state of an E-list keeps it an E-list.
LEMMA EListWrite ==
  ASSUME NEW f \in [EAddr -> [id : Nat, state : {"free", "live", "freed"}, pairs : Seq(Pair)]],
         NEW e, NEW s \in Seq(Pair)
  PROVE  /\ [f EXCEPT ![e].pairs = s]
              \in [EAddr -> [id : Nat, state : {"free", "live", "freed"}, pairs : Seq(Pair)]]
         /\ [f EXCEPT ![e].state = "freed"]
              \in [EAddr -> [id : Nat, state : {"free", "live", "freed"}, pairs : Seq(Pair)]]
<1> DEFINE S == Seq(Pair)
           R == [id : Nat, state : {"free", "live", "freed"}, pairs : S]
<1>1. ASSUME NEW x \in R
      PROVE  [x EXCEPT !.pairs = s] \in R /\ [x EXCEPT !.state = "freed"] \in R
  <2> s \in S
    OBVIOUS
  <2> HIDE DEF S
  <2> QED OBVIOUS
<1>2. f \in [EAddr -> R]
  OBVIOUS
<1> HIDE DEF R
<1>3. [f EXCEPT ![e].pairs = s] \in [EAddr -> R]
  BY <1>1, <1>2
<1>4. [f EXCEPT ![e].state = "freed"] \in [EAddr -> R]
  BY <1>1, <1>2
<1> QED BY <1>3, <1>4 DEF R

\* A step of t that leaves the lock words and base pointers alone, and does
\* not move t into or out of a critical section, preserves the invariant
\* when it leaves t in a consistent state.
LEMMA QuietStep ==
  ASSUME IndInv, TypeOK', NEW t \in Threads,
         \A p \in PAddr : /\ plist'[p].lock = plist[p].lock
                          /\ plist'[p].base = plist[p].base
                          /\ plist'[p].size = plist[p].size,
         \A u \in Threads \ {t} : /\ walk'[u] = walk[u] /\ call'[u] = call[u]
                                  /\ pc'[u] = pc[u] /\ crit'[u] = crit[u],
         pc[t] \in InCrit <=> pc'[t] \in InCrit,
         pc[t] \in InCrit => walk'[t] = walk[t] /\ call'[t] = call[t],
         pc[t] # "punlock", pc'[t] # "punlock",
         ThreadInv(t)'
  PROVE  IndInv'
<1>1. \A u \in Threads \ {t} : bucket(u)' = bucket(u) /\ At(u)' = At(u)
  BY DEF bucket, At
<1>2. pc[t] \in InCrit => At(t)' = At(t)
  BY DEF bucket, At
<1>3. MutualExclusion'
  BY <1>1, <1>2 DEF IndInv, MutualExclusion
<1>4. SubPLists'
  <2>1. \A u \in Threads : pc[u] = "punlock" => pc'[u] = "punlock" /\ At(u)' = At(u)
    BY <1>1
  <2>2. Root \in PAddr
    BY ConstAssumption
  <2> QED BY <2>1, <2>2 DEF IndInv, SubPLists
<1>5. ASSUME NEW u \in Threads, u # t PROVE ThreadInv(u)'
  <2>1. walk[u].curr \in PAddr
    BY DEF IndInv, TypeOK
  <2> QED BY <1>1, <1>5, <2>1 DEF IndInv, ThreadInv, lock
<1> QED BY <1>3, <1>4, <1>5 DEF IndInv

\* A step of t that writes l and v into the lock and the base of the bucket
\* t is at, which t holds or finds free.  It preserves the invariant when l
\* is E_LOCKED exactly if t holds the bucket after it, a sub-P-list is never
\* taken out of the bucket, and t is left in a consistent state.
LEMMA OwnBucketStep ==
  ASSUME IndInv, TypeOK', NEW t \in Threads, NEW l, NEW v,
         \A p \in PAddr : /\ plist'[p].size = plist[p].size
                          /\ DOMAIN plist'[p].lock = DOMAIN plist[p].lock,
         \A p \in PAddr : \A b \in DOMAIN plist[p].lock :
            <<p, b>> # At(t) => /\ plist'[p].lock[b] = plist[p].lock[b]
                                /\ plist'[p].base[b] = plist[p].base[b],
         plist'[walk[t].curr].lock[bucket(t)] = l,
         plist'[walk[t].curr].base[bucket(t)] = v,
         \A u \in Threads \ {t} : /\ walk'[u] = walk[u] /\ call'[u] = call[u]
                                  /\ pc'[u] = pc[u] /\ crit'[u] = crit[u],
         pc[t] \in InCrit \/ lock(t) = E_UNLOCKED,
         pc'[t] \in InCrit => At(t)' = At(t),
         l = E_LOCKED <=> pc'[t] \in InCrit,
         l = P_UNLOCKED => v \in PAddr,
         v \in PAddr => plist[v].size = 2 * walk[t].count /\ (l = P_UNLOCKED \/ pc'[t] = "punlock"),
         plist[walk[t].curr].base[bucket(t)] \in PAddr => v \in PAddr,
         ThreadInv(t)'
  PROVE  IndInv'
<1> DEFINE c == walk[t].curr
           b == bucket(t)
<1>1. /\ c \in PAddr /\ b \in DOMAIN plist[c].lock /\ At(t) = <<c, b>>
      /\ plist[c].size = walk[t].count
  BY BucketInList DEF IndInv, PListOf, At, ThreadInv
<1>2. \A u \in Threads \ {t} : bucket(u)' = bucket(u) /\ At(u)' = At(u)
  BY DEF bucket, At
<1>3. /\ lock(t) # P_UNLOCKED
      /\ \A u \in Threads \ {t} : pc[u] \in InCrit => At(u) # At(t)
  <2>1. pc[t] \in InCrit => lock(t) = E_LOCKED
    BY <1>1 DEF IndInv, MutualExclusion, lock
  <2>2. CASE pc[t] \in InCrit
    BY <2>1, <2>2 DEF IndInv, MutualExclusion, E_LOCKED, P_UNLOCKED
  <2>3. CASE lock(t) = E_UNLOCKED
    BY <2>3, <1>1 DEF IndInv, MutualExclusion, lock, E_LOCKED, E_UNLOCKED, P_UNLOCKED
  <2> QED BY <2>2, <2>3
<1> HIDE DEF c, b
<1>4. MutualExclusion'
  <2>1. ASSUME NEW u \in Threads, NEW w \in Threads,
               pc'[u] \in InCrit, pc'[w] \in InCrit, At(u)' = At(w)'
        PROVE  u = w
    BY <2>1, <1>2, <1>3 DEF IndInv, MutualExclusion
  <2>2. ASSUME NEW p \in PAddr, NEW q \in DOMAIN plist'[p].lock
        PROVE  plist'[p].lock[q] = E_LOCKED <=> \E u \in Threads : pc'[u] \in InCrit /\ At(u)' = <<p, q>>
    <3>1. CASE <<p, q>> = At(t)
      BY <3>1, <1>1, <1>2, <1>3 DEF c, b
    <3>2. CASE <<p, q>> # At(t)
      <4>1. plist'[p].lock[q] = E_LOCKED <=> \E u \in Threads : pc[u] \in InCrit /\ At(u) = <<p, q>>
        BY <3>2 DEF IndInv, MutualExclusion
      <4>2. \A u \in Threads : pc[u] \in InCrit /\ At(u) = <<p, q>> <=> pc'[u] \in InCrit /\ At(u)' = <<p, q>>
        BY <3>2, <1>2
      <4> QED BY <4>1, <4>2
    <3> QED BY <3>1, <3>2
  <2> QED BY <2>1, <2>2 DEF MutualExclusion
<1>5. SubPLists'
  <2>1. plist'[Root].size = PLIST_SIZE
    BY ConstAssumption DEF IndInv, SubPLists
  <2>2. ASSUME NEW p \in PAddr, NEW q \in DOMAIN plist'[p].lock
        PROVE  /\ plist'[p].lock[q] = P_UNLOCKED => plist'[p].base[q] \in PAddr
               /\ plist'[p].base[q] \in PAddr =>
                     /\ plist'[plist'[p].base[q]].size = 2 * plist'[p].size
                     /\ \/ plist'[p].lock[q] = P_UNLOCKED
                        \/ \E u \in Threads : pc'[u] = "punlock" /\ At(u)' = <<p, q>>
    <3>1. CASE <<p, q>> = At(t)
      BY <3>1, <1>1 DEF c, b, InCrit
    <3>2. CASE <<p, q>> # At(t)
      <4>1. \A u \in Threads : pc[u] = "punlock" /\ At(u) = <<p, q>> => pc'[u] = "punlock" /\ At(u)' = <<p, q>>
        BY <3>2, <1>2
      <4> QED BY <3>2, <4>1 DEF IndInv, SubPLists
    <3> QED BY <3>1, <3>2
  <2> QED BY <2>1, <2>2 DEF SubPLists
<1>6. ASSUME NEW u \in Threads, u # t PROVE ThreadInv(u)'
  <2>1. ThreadInv(u) /\ walk[u].curr \in PAddr /\ bucket(u) \in DOMAIN plist[walk[u].curr].lock
    BY BucketInList DEF IndInv, PListOf
  <2>2. CASE At(u) = At(t)
    <3>1. walk[u].curr = c /\ bucket(u) = b
      BY <2>2, <1>1 DEF At
    <3>2. pc[u] \notin {"refetch", "punlock"}
      BY <3>1, <2>1, <1>3, <1>6, <2>2 DEF ThreadInv, lock, InCrit, c, b
    <3> QED BY <3>1, <3>2, <2>1, <1>1, <1>2, <1>6 DEF ThreadInv, c, b
  <2>3. CASE At(u) # At(t)
    BY <2>1, <2>3, <1>2, <1>6 DEF ThreadInv, lock, At
  <2> QED BY <2>2, <2>3
<1> QED BY <1>4, <1>5, <1>6 DEF IndInv

-----------------------------------------------------------------------------
(* Initial states *)

\* The first P-list is empty and unlocked, and nobody has started.
LEMMA InitInv == Init => IndInv
<1> SUFFICES ASSUME Init PROVE IndInv
  OBVIOUS
<1>1. \A p \in PAddr :
        /\ p = Root => plist[p] = InitPList(HostPool, PLIST_SIZE)
        /\ p # Root => plist[p] = [InitPList(HostPool, 0) EXCEPT !.live = FALSE]
  BY DEF Init
<1>2. ASSUME NEW id \in Nat, NEW n \in Nat
      PROVE  /\ InitPList(id, n) \in PListOf(n)
             /\ \A b \in DOMAIN InitPList(id, n).lock :
                   InitPList(id, n).lock[b] = E_UNLOCKED /\ InitPList(id, n).base[b] = Null
  BY DEF InitPList, PListOf, LockStates, Ptr
<1>3. /\ \A p \in PAddr : plist[p].size \in Nat /\ plist[p] \in PListOf(plist[p].size)
      /\ \A p \in PAddr : \A b \in DOMAIN plist[p].lock :
            plist[p].lock[b] = E_UNLOCKED /\ plist[p].base[b] = Null
      /\ plist[Root].size = PLIST_SIZE
  <2>1. ASSUME NEW p \in PAddr, p = Root
        PROVE  /\ plist[p].size = PLIST_SIZE /\ plist[p] \in PListOf(PLIST_SIZE)
               /\ \A b \in DOMAIN plist[p].lock :
                     plist[p].lock[b] = E_UNLOCKED /\ plist[p].base[b] = Null
    <3> DEFINE z == InitPList(HostPool, PLIST_SIZE)
    <3>1. PLIST_SIZE \in Nat /\ HostPool \in Nat
      BY ConstAssumption
    <3>2. /\ z \in PListOf(PLIST_SIZE)
          /\ \A b \in DOMAIN z.lock : z.lock[b] = E_UNLOCKED /\ z.base[b] = Null
      BY <1>2, <3>1
    <3>3. plist[p] = z
      BY <1>1, <2>1
    <3> HIDE DEF z
    <3>4. z.size = PLIST_SIZE
      BY <3>2 DEF PListOf
    <3> QED BY <3>2, <3>3, <3>4
  <2>2. ASSUME NEW p \in PAddr, p # Root
        PROVE  /\ plist[p].size = 0 /\ plist[p] \in PListOf(0)
               /\ \A b \in DOMAIN plist[p].lock :
                     plist[p].lock[b] = E_UNLOCKED /\ plist[p].base[b] = Null
    <3> DEFINE z == InitPList(HostPool, 0)
    <3>1. /\ z \in PListOf(0)
          /\ \A b \in DOMAIN z.lock : z.lock[b] = E_UNLOCKED /\ z.base[b] = Null
      BY <1>2, ConstAssumption
    <3>2. plist[p] = [z EXCEPT !.live = FALSE]
      BY <1>1, <2>2
    <3> HIDE DEF z
    <3> QED BY <3>1, <3>2 DEF PListOf
  <2> QED BY <2>1, <2>2, ConstAssumption
<1>4. TypeOK
  <2>1. plist = [p \in PAddr |-> plist[p]]
    BY DEF Init
  <2>2. elist \in [EAddr -> [id : Nat, state : {"free", "live", "freed"}, pairs : Seq(Pair)]]
    BY ConstAssumption DEF Init
  <2>3. /\ pc \in [Threads -> PCs]
        /\ call \in [Threads -> [op : OpKinds, key : Nat, val : Nat]]
        /\ bufs \in [Threads -> Int]
        /\ ret \in [Threads -> [status : BOOLEAN, result : Nat]]
        /\ todo \in [Threads -> Nat]
    BY ConstAssumption DEF Init, PCs, OpKinds
  <2>4. walk \in [Threads -> [curr : PAddr, depth : Nat, count : Nat, copy : BOOLEAN,
                             old : BOOLEAN, snap : Ptr]]
    BY ConstAssumption DEF Init, NoWalk, Ptr
  <2>5. crit \in [Threads -> [base : Ptr, pairs : Seq(Pair), next : PAddr \cup {Null}, i : Nat \ {0}]]
    BY DEF Init, NoCrit, Ptr
  <2> QED BY <1>3, <2>1, <2>2, <2>3, <2>4, <2>5 DEF TypeOK
<1>5. MutualExclusion
  BY <1>3 DEF Init, MutualExclusion, InCrit, E_LOCKED, E_UNLOCKED
<1>6. SubPLists
  BY <1>3, ConstAssumption DEF SubPLists, P_UNLOCKED, E_UNLOCKED
<1>7. \A t \in Threads : ThreadInv(t)
  BY <1>3, ConstAssumption DEF Init, ThreadInv, NoWalk, NoCrit
<1> QED BY <1>4, <1>5, <1>6, <1>7 DEF IndInv

-----------------------------------------------------------------------------
(* Steps that write no lock word and no base pointer *)

\* A call reads the root, so its copy is up to date.
LEMMA InvokeInv ==
  ASSUME IndInv, NEW t \in Threads, NEW c \in Calls(t), Invoke(t, c)
  PROVE  IndInv'
<1>1. c \in [op : OpKinds, key : Nat, val : Nat] /\ c.key \in Keys
  <2>1. /\ \A k \in Keys : k \in Nat
        /\ \A n \in UNION {Vals[k] : k \in Keys} : n \in Nat
    BY ConstAssumption
  <2>2. CASE c \in [op : Mix[t] \cap {"contains", "remove"}, key : Keys, val : {0}]
    BY <2>1, <2>2 DEF OpKinds
  <2>3. CASE c \in [op : Mix[t] \cap {"insert"}, key : Keys, val : UNION {Vals[k] : k \in Keys}]
    BY <2>1, <2>3 DEF OpKinds
  <2> QED BY <2>2, <2>3 DEF Calls
<1>2. Start(c.key) \in [curr : PAddr, depth : Nat, count : Nat, copy : BOOLEAN,
                       old : BOOLEAN, snap : Ptr]
  <2>1. level_hash(c.key, 1, PLIST_SIZE) \in 0..(PLIST_SIZE - 2)
    BY <1>1, ConstAssumption, LevelHashRange
  <2>2. plist[Root] \in PListOf(PLIST_SIZE)
    BY ConstAssumption DEF IndInv, TypeOK, SubPLists
  <2>3. plist[Root].base[level_hash(c.key, 1, PLIST_SIZE)] \in Ptr
    BY <2>1, <2>2, ConstAssumption DEF PListOf
  <2> QED BY <2>3, ConstAssumption DEF Start
<1>3. TypeOK'
  <2>1. pc' \in [Threads -> PCs]
    BY DEF IndInv, TypeOK, Invoke, Goto, PCs
  <2>2. todo' \in [Threads -> Nat]
    BY DEF IndInv, TypeOK, Invoke
  <2>3. call' \in [Threads -> [op : OpKinds, key : Nat, val : Nat]]
    BY <1>1 DEF IndInv, TypeOK, Invoke
  <2>4. walk' \in [Threads -> [curr : PAddr, depth : Nat, count : Nat, copy : BOOLEAN,
                       old : BOOLEAN, snap : Ptr]]
    BY <1>2 DEF IndInv, TypeOK, Invoke
  <2>5. bufs' \in [Threads -> Int]
    BY DEF IndInv, TypeOK, Invoke
  <2> QED BY <2>1, <2>2, <2>3, <2>4, <2>5 DEF IndInv, TypeOK, Invoke
<1>4. /\ pc[t] = "idle" /\ pc'[t] = "acquire" /\ call'[t] = c /\ walk'[t] = Start(c.key)
      /\ plist' = plist /\ crit' = crit
      /\ \A u \in Threads \ {t} : /\ walk'[u] = walk[u] /\ call'[u] = call[u]
                                  /\ pc'[u] = pc[u] /\ crit'[u] = crit[u]
  BY DEF IndInv, TypeOK, Invoke, Goto
<1>5. ThreadInv(t)'
  <2>1. plist[Root].size = PLIST_SIZE /\ ThreadInv(t)
    BY DEF IndInv, SubPLists
  <2> QED BY <1>1, <1>4, <2>1, ConstAssumption DEF ThreadInv, Start, bucket
<1> QED BY <1>3, <1>4, <1>5, QuietStep DEF InCrit

\* The bucket a thread holds is no sub-P-list before publish, and neither is
\* the thread's copy of it.
LEMMA HeldIsElist ==
  ASSUME IndInv, NEW t \in Threads, pc[t] \in InCrit, pc[t] # "punlock"
  PROVE  /\ plist[walk[t].curr].base[bucket(t)] \in EAddr \cup {Null}
         /\ curr_base(t) \in EAddr \cup {Null}
<1> DEFINE c == walk[t].curr
           b == bucket(t)
<1>1. ThreadInv(t) /\ walk[t].snap \in Ptr
  BY DEF IndInv, TypeOK
<1>2. c \in PAddr /\ b \in DOMAIN plist[c].lock /\ plist[c].base[b] \in Ptr /\ At(t) = <<c, b>>
  BY BucketInList, <1>1 DEF IndInv, PListOf, At
<1>3. plist[c].lock[b] # P_UNLOCKED
  BY <1>2 DEF IndInv, MutualExclusion, E_LOCKED, P_UNLOCKED
<1>4. \A u \in Threads : pc[u] = "punlock" => At(u) # <<c, b>>
  BY <1>2 DEF IndInv, MutualExclusion, InCrit
<1>5. plist[c].base[b] \notin PAddr
  BY <1>2, <1>3, <1>4 DEF IndInv, SubPLists
<1>6. walk[t].snap \notin PAddr
  BY <1>1, <1>5 DEF ThreadInv
<1> QED BY <1>1, <1>2, <1>5, <1>6 DEF curr_base, Ptr

\* What a thread works on is the content of an E-list.
LEMMA EPairsType ==
  ASSUME TypeOK, NEW t \in Threads, ThreadInv(t), crit[t].base # Null
  PROVE  crit[t].base \in EAddr /\ e_pairs(t) \in Seq(Pair)
<1>1. crit[t].base \in EAddr
  BY DEF TypeOK, ThreadInv, Ptr
<1> QED BY <1>1 DEF TypeOK, e_pairs

\* The value a hit reports is the value of a pair.
LEMMA HitValue ==
  ASSUME TypeOK, NEW t \in Threads, ThreadInv(t), Holds(t)
  PROVE  e_pairs(t)[Slot(t)].val \in Nat
<1>1. e_pairs(t) \in Seq(Pair)
  BY EPairsType DEF Holds
<1>2. Slot(t) \in 1..Len(e_pairs(t))
  BY <1>1, FirstMatchIsMatch DEF Holds, Slot
<1>3. e_pairs(t)[Slot(t)] \in Pair
  BY <1>1, <1>2
<1> QED BY <1>3 DEF Pair

\* A failed acquire found P_UNLOCKED.
LEMMA AcquirePInv ==
  ASSUME IndInv, NEW t \in Threads, acquire_P(t)
  PROVE  IndInv'
<1>1. TypeOK'
  BY DEF IndInv, TypeOK, acquire_P, Goto, PCs
<1>2. /\ pc[t] = "acquire" /\ pc'[t] = "refetch" /\ lock(t) = P_UNLOCKED
      /\ plist' = plist /\ walk' = walk /\ call' = call /\ crit' = crit
      /\ \A u \in Threads \ {t} : pc'[u] = pc[u]
  BY DEF IndInv, TypeOK, acquire_P, Goto
<1>3. ThreadInv(t)'
  BY <1>2 DEF IndInv, ThreadInv, bucket, lock
<1> QED BY <1>1, <1>2, <1>3, QuietStep DEF InCrit

\* The base read after a failed acquire is the sub-P-list.
LEMMA RefetchInv ==
  ASSUME IndInv, NEW t \in Threads, refetch(t)
  PROVE  IndInv'
<1> DEFINE p == plist[walk[t].curr].base[bucket(t)]
<1>1. p \in PAddr /\ plist[p].size = 2 * walk[t].count
  <2>1. ThreadInv(t) /\ lock(t) = P_UNLOCKED
    BY DEF IndInv, ThreadInv, refetch
  <2>2. walk[t].curr \in PAddr /\ bucket(t) \in DOMAIN plist[walk[t].curr].lock
    BY <2>1, BucketInList DEF IndInv, PListOf
  <2> QED BY <2>1, <2>2 DEF IndInv, SubPLists, ThreadInv, lock
<1> HIDE DEF p
<1>2. /\ pc[t] = "refetch" /\ pc' = [pc EXCEPT ![t] = "descend"]
      /\ crit' = [crit EXCEPT ![t].next = p]
      /\ bufs' = [bufs EXCEPT ![t] = @ + 1]
      /\ UNCHANGED <<plist, elist, call, walk, ret, todo>>
  BY DEF refetch, Goto, p
<1>3. crit' \in [Threads -> [base : Ptr, pairs : Seq(Pair), next : PAddr \cup {Null}, i : Nat \ {0}]]
  BY <1>1, <1>2 DEF IndInv, TypeOK
<1>4. TypeOK'
  <2>1. bufs' \in [Threads -> Int]
    BY <1>2 DEF IndInv, TypeOK
  <2>2. pc' \in [Threads -> PCs]
    BY <1>2 DEF IndInv, TypeOK, PCs
  <2> QED BY <1>2, <1>3, <2>1, <2>2 DEF IndInv, TypeOK
<1>5. /\ pc'[t] = "descend" /\ crit'[t].next = p /\ crit'[t].base = crit[t].base
      /\ \A u \in Threads \ {t} : pc'[u] = pc[u] /\ crit'[u] = crit[u]
  BY <1>2 DEF IndInv, TypeOK
<1>6. ThreadInv(t)'
  BY <1>1, <1>2, <1>5 DEF IndInv, ThreadInv, bucket
<1> QED BY <1>2, <1>4, <1>5, <1>6, QuietStep DEF InCrit

\* Going down a level doubles the count, as rehash doubled the size.
LEMMA DescendInv ==
  ASSUME IndInv, NEW t \in Threads, descend(t)
  PROVE  IndInv'
<1> DEFINE p == crit[t].next
           w == walk'[t]
           frees == FreesCurr(t)
           count == walk[t].count * 2
           depth == walk[t].depth + 1
           b == level_hash(call[t].key, depth, count)
<1>1. /\ ThreadInv(t) /\ walk[t].curr \in PAddr /\ call[t].key \in Nat
      /\ walk[t].count \in Nat /\ walk[t].depth \in Nat
  BY DEF IndInv, TypeOK
<1>2. p \in PAddr /\ plist[p].size = count /\ plist[p] \in PListOf(count) /\ count \in Nat
  BY <1>1 DEF IndInv, TypeOK, ThreadInv, descend
<1>3. b \in 0..(count - 2) /\ count >= 2 /\ depth \in Nat
  <2>1. count \in Nat /\ count >= 2 /\ depth \in Nat
    BY <1>1 DEF ThreadInv
  <2> HIDE DEF count, depth
  <2> QED BY <1>1, <2>1, LevelHashRange
<1>4. plist[p].base[b] \in Ptr
  BY <1>2, <1>3 DEF PListOf
<1>5. walk' = [walk EXCEPT ![t] =
         [curr |-> p, depth |-> depth, count |-> count,
          copy |-> ~IsLocalP(t, p), old |-> ~IsLocalP(t, p),
          snap |-> IF IsLocalP(t, p) THEN Null ELSE plist[p].base[b]]]
  BY DEF descend
<1>6. /\ plist' = [plist EXCEPT ![walk[t].curr].live = @ /\ ~frees]
      /\ crit' = [crit EXCEPT ![t] = NoCrit]
      /\ pc[t] = "descend" /\ pc' = [pc EXCEPT ![t] = "acquire"]
      /\ UNCHANGED <<elist, call, ret, todo>>
  BY DEF descend, Goto
<1>7. bufs' \in [Threads -> Int]
  <2>1. bufs \in [Threads -> Int] /\ CurrBufs(t) \in Int /\ (IF IsLocalP(t, p) THEN 0 ELSE 1) \in Int
    BY DEF IndInv, TypeOK, CurrBufs
  <2> QED BY <2>1 DEF descend
<1> HIDE DEF p, count, depth, b, frees
<1>8. walk' \in [Threads -> [curr : PAddr, depth : Nat, count : Nat, copy : BOOLEAN,
                             old : BOOLEAN, snap : Ptr]]
  <2>1. IsLocalP(t, p) \in BOOLEAN
    BY DEF IsLocalP
  <2> QED BY <1>2, <1>3, <1>4, <1>5, <2>1 DEF IndInv, TypeOK, Ptr
<1>9. /\ plist' = [q \in PAddr |-> plist'[q]]
      /\ \A q \in PAddr : /\ plist'[q].lock = plist[q].lock /\ plist'[q].base = plist[q].base
                          /\ plist'[q].size = plist[q].size
                          /\ plist'[q] \in PListOf(plist[q].size)
  BY <1>1, <1>6 DEF IndInv, TypeOK, PListOf
<1>10. TypeOK'
  <2>1. crit' \in [Threads -> [base : Ptr, pairs : Seq(Pair), next : PAddr \cup {Null}, i : Nat \ {0}]]
    BY <1>6 DEF IndInv, TypeOK, NoCrit, Ptr
  <2> QED BY <1>6, <1>7, <1>8, <1>9, <2>1 DEF IndInv, TypeOK, PCs
<1>11. /\ pc'[t] = "acquire" /\ crit'[t] = NoCrit
       /\ w.curr = p /\ w.depth = depth /\ w.count = count
       /\ w.snap = IF IsLocalP(t, p) THEN Null ELSE plist[p].base[b]
       /\ \A u \in Threads \ {t} : pc'[u] = pc[u] /\ crit'[u] = crit[u] /\ walk'[u] = walk[u]
  BY <1>5, <1>6 DEF IndInv, TypeOK
<1>12. bucket(t)' = b
  BY <1>6, <1>11 DEF bucket, b
<1>13. ThreadInv(t)'
  <2>1. count >= 2 /\ plist'[p].size = count /\ plist'[p].base = plist[p].base
    BY <1>1, <1>2, <1>3, <1>9
  <2>2. call'[t].key \in Keys
    BY <1>1, <1>6 DEF ThreadInv
  <2>3. crit'[t].base \notin PAddr
    BY <1>11, ConstAssumption DEF NoCrit
  <2>4. w.snap \in PAddr => plist'[p].base[b] \in PAddr
    BY <1>11, <2>1, ConstAssumption
  <2> QED BY <1>11, <1>12, <2>1, <2>2, <2>3, <2>4 DEF ThreadInv
<1> QED BY <1>6, <1>9, <1>10, <1>11, <1>13, QuietStep DEF InCrit

\* The E-list of a locked bucket is read, into a copy when it is remote.
LEMMA ReadElistInv ==
  ASSUME IndInv, NEW t \in Threads, read_elist(t)
  PROVE  IndInv'
<1> DEFINE e == curr_base(t)
           pairs == IF IsRemoteE(t, e) THEN elist[e].pairs ELSE <<>>
<1>1. e \in EAddr \cup {Null}
  BY HeldIsElist DEF read_elist, InCrit
<1>2. pairs \in Seq(Pair)
  BY <1>1 DEF IndInv, TypeOK, IsRemoteE
<1>3. bufs' \in [Threads -> Int]
  <2>1. (IF IsRemoteE(t, e) THEN 1 ELSE 0) \in Int
    OBVIOUS
  <2> QED BY <2>1 DEF IndInv, TypeOK, read_elist
<1>4. /\ crit' = [crit EXCEPT ![t] = [base |-> e, next |-> Null, i |-> 1, pairs |-> pairs]]
      /\ pc[t] = "locked" /\ pc' = [pc EXCEPT ![t] = "work"]
      /\ UNCHANGED <<plist, elist, call, walk, ret, todo>>
  BY DEF read_elist, Goto
<1> HIDE DEF e, pairs
<1>5. crit' \in [Threads -> [base : Ptr, pairs : Seq(Pair), next : PAddr \cup {Null}, i : Nat \ {0}]]
  BY <1>1, <1>2, <1>4 DEF IndInv, TypeOK, Ptr
<1>6. TypeOK'
  <2>1. pc' \in [Threads -> PCs]
    BY <1>4 DEF IndInv, TypeOK, PCs
  <2> QED BY <1>3, <1>4, <1>5, <2>1 DEF IndInv, TypeOK
<1>7. /\ pc'[t] = "work" /\ crit'[t].base = e
      /\ \A u \in Threads \ {t} : pc'[u] = pc[u] /\ crit'[u] = crit[u]
  BY <1>4 DEF IndInv, TypeOK
<1>8. ThreadInv(t)'
  BY <1>1, <1>4, <1>7, ConstAssumption DEF IndInv, ThreadInv, bucket
<1> QED BY <1>4, <1>6, <1>7, <1>8, QuietStep DEF InCrit

\* An operation that has its result, and has changed at most an E-list.
LEMMA DecideInv ==
  ASSUME IndInv, NEW t \in Threads, NEW s \in BOOLEAN, NEW r \in Nat,
         pc[t] = "work", Decide(t, s, r), plist' = plist,
         elist' \in [EAddr -> [id : Nat, state : {"free", "live", "freed"}, pairs : Seq(Pair)]]
  PROVE  IndInv'
<1>1. TypeOK'
  <2>1. pc' \in [Threads -> PCs]
    BY DEF IndInv, TypeOK, Decide, Goto, PCs
  <2>2. ret' \in [Threads -> [status : BOOLEAN, result : Nat]]
    BY DEF IndInv, TypeOK, Decide
  <2> QED BY <2>1, <2>2 DEF IndInv, TypeOK, Decide
<1>2. /\ pc'[t] = "unlock" /\ walk' = walk /\ call' = call /\ crit' = crit
      /\ \A u \in Threads \ {t} : pc'[u] = pc[u]
  BY DEF IndInv, TypeOK, Decide, Goto
<1>3. ThreadInv(t)'
  BY <1>2 DEF IndInv, ThreadInv, bucket
<1> QED BY <1>1, <1>2, <1>3, QuietStep DEF InCrit

\* Lookups and failed updates change nothing shared.
LEMMA LookupInv ==
  ASSUME IndInv, NEW t \in Threads, miss(t) \/ contains_hit(t) \/ insert_exists(t)
  PROVE  IndInv'
<1>1. TypeOK /\ ThreadInv(t)
  BY DEF IndInv
<1>2. elist \in [EAddr -> [id : Nat, state : {"free", "live", "freed"}, pairs : Seq(Pair)]]
  BY DEF IndInv, TypeOK
<1>3. CASE miss(t)
  BY <1>2, <1>3, DecideInv DEF miss
<1>4. CASE contains_hit(t)
  BY <1>1, <1>2, <1>4, HitValue, DecideInv DEF contains_hit
<1>5. CASE insert_exists(t)
  BY <1>1, <1>2, <1>5, HitValue, DecideInv DEF insert_exists
<1> QED BY <1>3, <1>4, <1>5

\* The edge swap of remove leaves a list of pairs.
LEMMA EdgeSwapType ==
  ASSUME NEW s \in Seq(Pair), NEW k, Matches(s, k) # {}
  PROVE  EdgeSwap(s, FirstMatch(s, k)) \in Seq(Pair)
<1>1. Len(s) \in Nat /\ Len(s) >= 1
  BY DEF Matches
<1>2. \A j \in 1..Len(s) : s[j] \in Pair
  OBVIOUS
<1>3. EdgeSwap(s, FirstMatch(s, k)) \in [1..(Len(s) - 1) -> Pair]
  BY <1>1, <1>2 DEF EdgeSwap
<1> QED BY <1>1, <1>3

\* remove and insert write one E-list and nothing else.
LEMMA UpdateInv ==
  ASSUME IndInv, NEW t \in Threads, remove_hit(t) \/ insert_append(t)
  PROVE  IndInv'
<1>1. TypeOK /\ ThreadInv(t)
  BY DEF IndInv
<1>2. ASSUME NEW s \in Seq(Pair), elist' = [elist EXCEPT ![crit[t].base].pairs = s]
      PROVE  elist' \in [EAddr -> [id : Nat, state : {"free", "live", "freed"}, pairs : Seq(Pair)]]
  BY <1>2, EListWrite DEF IndInv, TypeOK
<1>3. CASE remove_hit(t)
  <2>1. e_pairs(t) \in Seq(Pair) /\ Matches(e_pairs(t), call[t].key) # {}
    BY <1>1, <1>3, EPairsType DEF remove_hit, Holds
  <2>2. EdgeSwap(e_pairs(t), Slot(t)) \in Seq(Pair)
    BY <2>1, EdgeSwapType DEF Slot
  <2>3. e_pairs(t)[Slot(t)].val \in Nat
    BY <1>1, <1>3, HitValue DEF remove_hit
  <2> QED BY <1>2, <1>3, <2>2, <2>3, DecideInv DEF remove_hit
<1>4. CASE insert_append(t)
  <2>1. e_pairs(t) \in Seq(Pair)
    BY <1>1, <1>4, EPairsType DEF insert_append
  <2>2. NewPair(t) \in Pair
    BY <1>1, <1>4 DEF TypeOK, ThreadInv, insert_append, NewPair, Pair
  <2>3. Append(e_pairs(t), NewPair(t)) \in Seq(Pair)
    BY <2>1, <2>2
  <2> QED BY <1>2, <1>4, <2>3, DecideInv DEF insert_append
<1> QED BY <1>3, <1>4

\* The old E-list is freed once its pairs are in the new P-list.
LEMMA RehashFreeInv ==
  ASSUME IndInv, NEW t \in Threads, rehash_free(t)
  PROVE  IndInv'
<1>1. TypeOK'
  <2>1. pc' \in [Threads -> PCs]
    BY DEF IndInv, TypeOK, rehash_free, Goto, PCs
  <2>2. elist' \in [EAddr -> [id : Nat, state : {"free", "live", "freed"}, pairs : Seq(Pair)]]
    BY EListWrite DEF IndInv, TypeOK, rehash_free
  <2>3. bufs' \in [Threads -> Int]
    <3>1. EBufs(t) \in Int
      BY DEF EBufs
    <3> QED BY <3>1 DEF IndInv, TypeOK, rehash_free
  <2> QED BY <2>1, <2>2, <2>3 DEF IndInv, TypeOK, rehash_free
<1>2. /\ pc[t] = "rehash" /\ pc'[t] = "publish"
      /\ plist' = plist /\ walk' = walk /\ call' = call /\ crit' = crit
      /\ \A u \in Threads \ {t} : pc'[u] = pc[u]
  BY DEF IndInv, TypeOK, rehash_free, Goto
<1>3. ThreadInv(t)'
  BY <1>2 DEF IndInv, ThreadInv, bucket
<1> QED BY <1>1, <1>2, <1>3, QuietStep DEF InCrit

-----------------------------------------------------------------------------
(* Steps that write the lock or the base of the thread's own bucket *)

\* All that a write of a lock word, or of a base pointer, does to the P-lists.
LockFrame(c, b, l) ==
    /\ plist' = [p \in PAddr |-> plist'[p]]
    /\ \A p \in PAddr : /\ plist'[p].size = plist[p].size
                        /\ plist'[p] \in PListOf(plist[p].size)
                        /\ DOMAIN plist'[p].lock = DOMAIN plist[p].lock
                        /\ plist'[p].base = plist[p].base
    /\ \A p \in PAddr : \A q \in DOMAIN plist[p].lock :
          <<p, q>> # <<c, b>> => plist'[p].lock[q] = plist[p].lock[q]
    /\ plist'[c].lock[b] = l

BaseFrame(c, b, v) ==
    /\ plist' = [p \in PAddr |-> plist'[p]]
    /\ \A p \in PAddr : /\ plist'[p].size = plist[p].size
                        /\ plist'[p] \in PListOf(plist[p].size)
                        /\ plist'[p].lock = plist[p].lock
    /\ \A p \in PAddr : \A q \in DOMAIN plist[p].lock :
          <<p, q>> # <<c, b>> => plist'[p].base[q] = plist[p].base[q]
    /\ plist'[c].base[b] = v

\* Writing one lock word changes that word and no other.
LEMMA LockWrite ==
  ASSUME TypeOK, NEW c \in PAddr, NEW b \in 0..(plist[c].size - 1), NEW l \in LockStates,
         NEW live \in BOOLEAN,
         \/ plist' = [plist EXCEPT ![c].lock[b] = l]
         \/ plist' = [plist EXCEPT ![c].lock[b] = l, ![c].live = live]
  PROVE  LockFrame(c, b, l)
<1>1. plist' = [p \in PAddr |-> plist'[p]]
  BY DEF TypeOK
<1>2. \A p \in PAddr : p # c => plist'[p] = plist[p]
  BY DEF TypeOK
<1>3. \/ plist'[c] = [plist[c] EXCEPT !.lock[b] = l]
      \/ plist'[c] = [plist[c] EXCEPT !.lock[b] = l, !.live = live]
  BY DEF TypeOK
<1>4. \A p \in PAddr : plist[p] \in PListOf(plist[p].size)
  BY DEF TypeOK
<1>5. /\ plist[c].lock \in [0..(plist[c].size - 1) -> LockStates]
      /\ DOMAIN plist[c] = {"id", "size", "live", "lock", "base"}
  BY <1>4 DEF PListOf
<1>6. [plist[c].lock EXCEPT ![b] = l] \in [0..(plist[c].size - 1) -> LockStates]
  BY <1>5
<1>7. /\ plist'[c].size = plist[c].size /\ plist'[c].base = plist[c].base
      /\ plist'[c].lock = [plist[c].lock EXCEPT ![b] = l]
  BY <1>3, <1>5
<1>8. plist'[c] \in PListOf(plist[c].size)
  BY <1>3, <1>4, <1>6 DEF PListOf
<1> QED BY <1>1, <1>2, <1>4, <1>5, <1>7, <1>8 DEF LockFrame

\* Writing one base pointer changes that pointer and no other.
LEMMA BaseWrite ==
  ASSUME TypeOK, NEW c \in PAddr, NEW b \in 0..(plist[c].size - 1), NEW v \in Ptr,
         plist' = [plist EXCEPT ![c].base[b] = v]
  PROVE  BaseFrame(c, b, v)
<1>1. plist' = [p \in PAddr |-> plist'[p]]
  BY DEF TypeOK
<1>2. \A p \in PAddr : p # c => plist'[p] = plist[p]
  BY DEF TypeOK
<1>3. plist'[c] = [plist[c] EXCEPT !.base[b] = v]
  BY DEF TypeOK
<1>4. \A p \in PAddr : plist[p] \in PListOf(plist[p].size)
  BY DEF TypeOK
<1>5. /\ plist[c].base \in [0..(plist[c].size - 1) -> Ptr]
      /\ DOMAIN plist[c].lock = 0..(plist[c].size - 1)
      /\ DOMAIN plist[c] = {"id", "size", "live", "lock", "base"}
  BY <1>4 DEF PListOf
<1>6. [plist[c].base EXCEPT ![b] = v] \in [0..(plist[c].size - 1) -> Ptr]
  BY <1>5
<1>7. /\ plist'[c].size = plist[c].size /\ plist'[c].lock = plist[c].lock
      /\ plist'[c].base = [plist[c].base EXCEPT ![b] = v]
  BY <1>3, <1>5
<1>8. plist'[c] \in PListOf(plist[c].size)
  <2> DEFINE n == plist[c].size
             f == [plist[c].base EXCEPT ![b] = v]
  <2>1. plist'[c] = [plist[c] EXCEPT !.base = f]
    BY <1>3
  <2>2. plist[c] \in PListOf(n) /\ f \in [0..(n - 1) -> Ptr]
    BY <1>4, <1>6
  <2> HIDE DEF f, n
  <2> QED BY <2>1, <2>2 DEF PListOf
<1>9. \A q \in DOMAIN plist[c].lock : q # b => plist'[c].base[q] = plist[c].base[q]
  BY <1>5, <1>7
<1>10. plist'[c].base[b] = v
  BY <1>5, <1>7
<1> QED BY <1>1, <1>2, <1>4, <1>7, <1>8, <1>9, <1>10 DEF BaseFrame

\* A free E-list is an E-list.
LEMMA FreshEType == HasFreeE => FreshE \in EAddr
BY DEF HasFreeE, FreshE

\* Which word of the P-lists each of these steps writes.
LEMMA OwnFrames ==
  ASSUME IndInv, NEW t \in Threads
  PROVE  LET c == walk[t].curr
             b == bucket(t)
         IN  /\ acquire_E(t) => LockFrame(c, b, E_LOCKED)
             /\ unlock_E(t) => LockFrame(c, b, E_UNLOCKED)
             /\ unlock_P(t) => LockFrame(c, b, P_UNLOCKED)
             /\ insert_empty(t) => BaseFrame(c, b, FreshE)
             /\ publish(t) => BaseFrame(c, b, crit[t].next)
<1> DEFINE c == walk[t].curr
           b == bucket(t)
           live == plist[c].live /\ ~FreesCurr(t)
<1>1. TypeOK /\ ThreadInv(t)
  BY DEF IndInv
<1>2. c \in PAddr /\ b \in 0..(plist[c].size - 1)
  BY <1>1, BucketInList DEF ThreadInv
<1>3. ASSUME acquire_E(t) PROVE LockFrame(c, b, E_LOCKED)
  <2>1. plist' = [plist EXCEPT ![c].lock[b] = E_LOCKED]
    BY <1>3 DEF acquire_E
  <2> HIDE DEF c, b
  <2> QED BY <1>1, <1>2, <2>1, LockWrite DEF LockStates
<1>4. ASSUME unlock_E(t) PROVE LockFrame(c, b, E_UNLOCKED)
  <2>1. plist' = [plist EXCEPT ![c].lock[b] = E_UNLOCKED, ![c].live = @ /\ ~FreesCurr(t)]
    BY <1>4 DEF unlock_E
  <2> HIDE DEF c, b
  <2>2. live \in BOOLEAN
    OBVIOUS
  <2>3. plist' = [plist EXCEPT ![c].lock[b] = E_UNLOCKED, ![c].live = live]
    BY <1>1, <1>2, <2>1 DEF TypeOK, PListOf
  <2> HIDE DEF live
  <2> QED BY <1>1, <1>2, <2>2, <2>3, LockWrite DEF LockStates
<1>5. ASSUME unlock_P(t) PROVE LockFrame(c, b, P_UNLOCKED)
  <2>1. plist' = [plist EXCEPT ![c].lock[b] = P_UNLOCKED]
    BY <1>5 DEF unlock_P
  <2> HIDE DEF c, b
  <2> QED BY <1>1, <1>2, <2>1, LockWrite DEF LockStates
<1>6. ASSUME insert_empty(t) PROVE BaseFrame(c, b, FreshE)
  <2> DEFINE v == FreshE
  <2>1. plist' = [plist EXCEPT ![c].base[b] = v]
    BY <1>6 DEF insert_empty, change_bucket_pointer
  <2>2. v \in Ptr
    BY <1>6, FreshEType DEF insert_empty, Ptr
  <2> HIDE DEF c, b, v
  <2>3. BaseFrame(c, b, v)
    BY <1>1, <1>2, <2>1, <2>2, BaseWrite
  <2> QED BY <2>3 DEF v
<1>7. ASSUME publish(t) PROVE BaseFrame(c, b, crit[t].next)
  <2> DEFINE v == crit[t].next
  <2>1. plist' = [plist EXCEPT ![c].base[b] = v]
    BY <1>7 DEF publish, change_bucket_pointer
  <2>2. v \in Ptr
    BY <1>1, <1>7 DEF publish, ThreadInv, Ptr
  <2> HIDE DEF c, b, v
  <2>3. BaseFrame(c, b, v)
    BY <1>1, <1>2, <2>1, <2>2, BaseWrite
  <2> QED BY <2>3 DEF v
<1> QED BY <1>3, <1>4, <1>5, <1>6, <1>7

\* A successful acquire takes a free bucket.
LEMMA AcquireEInv ==
  ASSUME IndInv, NEW t \in Threads, acquire_E(t)
  PROVE  IndInv'
<1> DEFINE c == walk[t].curr
           b == bucket(t)
<1>1. TypeOK /\ ThreadInv(t) /\ lock(t) = E_UNLOCKED
  BY DEF IndInv, acquire_E
<1>2. /\ c \in PAddr /\ b \in 0..(plist[c].size - 1) /\ b \in DOMAIN plist[c].lock
      /\ At(t) = <<c, b>>
  BY <1>1, BucketInList DEF PListOf, ThreadInv, At
<1>3. plist' = [plist EXCEPT ![c].lock[b] = E_LOCKED]
  BY DEF acquire_E
<1>4. /\ pc[t] = "acquire" /\ pc' = [pc EXCEPT ![t] = "locked"]
      /\ UNCHANGED <<elist, call, walk, crit, bufs, ret, todo>>
  BY DEF acquire_E, Goto
<1> HIDE DEF c, b
<1>5. LockFrame(c, b, E_LOCKED)
  BY OwnFrames DEF c, b
<1>6. TypeOK'
  BY <1>1, <1>4, <1>5 DEF LockFrame, TypeOK, PCs
<1>7. /\ pc'[t] = "locked" /\ At(t)' = At(t)
      /\ \A u \in Threads \ {t} : pc'[u] = pc[u]
  BY <1>1, <1>4 DEF TypeOK, At, bucket
<1>8. plist[c].base[b] \notin PAddr
  BY <1>1, <1>2 DEF IndInv, SubPLists, MutualExclusion, lock, InCrit,
                    E_LOCKED, E_UNLOCKED, P_UNLOCKED, c, b
<1>9. ThreadInv(t)'
  BY <1>1, <1>2, <1>4, <1>5, <1>7 DEF LockFrame, ThreadInv, bucket, c, b
<1> QED BY <1>1, <1>2, <1>4, <1>5, <1>6, <1>7, <1>8, <1>9, OwnBucketStep
        DEF LockFrame, InCrit, E_LOCKED, P_UNLOCKED, c, b

\* The unlock at the end of an operation gives back a bucket that t holds.
LEMMA UnlockEInv ==
  ASSUME IndInv, NEW t \in Threads, unlock_E(t)
  PROVE  IndInv'
<1> DEFINE c == walk[t].curr
           b == bucket(t)
<1>1. TypeOK /\ ThreadInv(t)
  BY DEF IndInv
<1>2. /\ c \in PAddr /\ b \in 0..(plist[c].size - 1) /\ b \in DOMAIN plist[c].lock
      /\ At(t) = <<c, b>>
  BY <1>1, BucketInList DEF PListOf, ThreadInv, At
<1>3. plist' = [plist EXCEPT ![c].lock[b] = E_UNLOCKED, ![c].live = @ /\ ~FreesCurr(t)]
  BY DEF unlock_E
<1>4. /\ pc[t] = "unlock" /\ pc' = [pc EXCEPT ![t] = "idle"]
      /\ walk' = [walk EXCEPT ![t] = NoWalk] /\ crit' = [crit EXCEPT ![t] = NoCrit]
      /\ UNCHANGED <<elist, call, ret, todo>>
  BY DEF unlock_E, Goto
<1>5. bufs' \in [Threads -> Int]
  <2>1. CurrBufs(t) \in Int /\ EBufs(t) \in Int
    BY DEF CurrBufs, EBufs
  <2> QED BY <1>1, <2>1 DEF TypeOK, unlock_E
<1>6. plist[c].base[b] \notin PAddr
  BY HeldIsElist, <1>4, ConstAssumption DEF InCrit
<1> HIDE DEF c, b
<1>7. LockFrame(c, b, E_UNLOCKED)
  BY OwnFrames DEF c, b
<1>8. TypeOK'
  <2>1. walk' \in [Threads -> [curr : PAddr, depth : Nat, count : Nat, copy : BOOLEAN,
                              old : BOOLEAN, snap : Ptr]]
    BY <1>1, <1>4, ConstAssumption DEF TypeOK, NoWalk, Ptr
  <2>2. crit' \in [Threads -> [base : Ptr, pairs : Seq(Pair), next : PAddr \cup {Null}, i : Nat \ {0}]]
    BY <1>1, <1>4 DEF TypeOK, NoCrit, Ptr
  <2>3. pc' \in [Threads -> PCs]
    BY <1>1, <1>4 DEF TypeOK, PCs
  <2> QED BY <1>1, <1>4, <1>5, <1>7, <2>1, <2>2, <2>3 DEF LockFrame, TypeOK
<1>9. /\ pc'[t] = "idle" /\ walk'[t] = NoWalk /\ crit'[t] = NoCrit
      /\ \A u \in Threads \ {t} : pc'[u] = pc[u] /\ walk'[u] = walk[u] /\ crit'[u] = crit[u]
  BY <1>1, <1>4 DEF TypeOK
<1>10. ThreadInv(t)'
  BY <1>7, <1>9, ConstAssumption DEF LockFrame, IndInv, SubPLists, ThreadInv, NoWalk, NoCrit
<1> QED BY <1>2, <1>4, <1>6, <1>7, <1>8, <1>9, <1>10, OwnBucketStep
        DEF LockFrame, InCrit, E_LOCKED, E_UNLOCKED, P_UNLOCKED, c, b

\* The permanent unlock leaves a bucket that points at a sub-P-list.
LEMMA UnlockPInv ==
  ASSUME IndInv, NEW t \in Threads, unlock_P(t)
  PROVE  IndInv'
<1> DEFINE c == walk[t].curr
           b == bucket(t)
<1>1. TypeOK /\ ThreadInv(t)
  BY DEF IndInv
<1>2. /\ c \in PAddr /\ b \in 0..(plist[c].size - 1) /\ b \in DOMAIN plist[c].lock
      /\ At(t) = <<c, b>>
  BY <1>1, BucketInList DEF PListOf, ThreadInv, At
<1>3. plist' = [plist EXCEPT ![c].lock[b] = P_UNLOCKED]
  BY DEF unlock_P
<1>4. /\ pc[t] = "punlock" /\ pc' = [pc EXCEPT ![t] = "acquire"]
      /\ walk' = [walk EXCEPT ![t].old = FALSE] /\ crit' = [crit EXCEPT ![t] = NoCrit]
      /\ UNCHANGED <<elist, call, ret, todo>>
  BY DEF unlock_P, Goto
<1>5. bufs' \in [Threads -> Int]
  <2>1. EBufs(t) \in Int
    BY DEF EBufs
  <2> QED BY <1>1, <2>1 DEF TypeOK, unlock_P
<1>6. plist[c].base[b] \in PAddr /\ plist[plist[c].base[b]].size = 2 * walk[t].count
  BY <1>1, <1>2, <1>4 DEF IndInv, SubPLists, ThreadInv
<1> HIDE DEF c, b
<1>7. LockFrame(c, b, P_UNLOCKED)
  BY OwnFrames DEF c, b
<1>8. TypeOK'
  <2>1. walk' \in [Threads -> [curr : PAddr, depth : Nat, count : Nat, copy : BOOLEAN,
                              old : BOOLEAN, snap : Ptr]]
    BY <1>1, <1>4, ZenonT(60) DEF TypeOK
  <2>2. crit' \in [Threads -> [base : Ptr, pairs : Seq(Pair), next : PAddr \cup {Null}, i : Nat \ {0}]]
    BY <1>1, <1>4 DEF TypeOK, NoCrit, Ptr
  <2>3. pc' \in [Threads -> PCs]
    BY <1>1, <1>4 DEF TypeOK, PCs
  <2> QED BY <1>1, <1>4, <1>5, <1>7, <2>1, <2>2, <2>3 DEF LockFrame, TypeOK
<1>9. /\ pc'[t] = "acquire" /\ crit'[t] = NoCrit
      /\ walk'[t].curr = c /\ walk'[t].depth = walk[t].depth
      /\ walk'[t].count = walk[t].count /\ walk'[t].snap = walk[t].snap
      /\ \A u \in Threads \ {t} : pc'[u] = pc[u] /\ walk'[u] = walk[u] /\ crit'[u] = crit[u]
  BY <1>1, <1>4 DEF TypeOK, c
<1>10. ThreadInv(t)'
  <2>1. bucket(t)' = b
    BY <1>4, <1>9 DEF bucket, b
  <2>2. plist'[c].size = plist[c].size /\ plist'[c].base = plist[c].base
    BY <1>2, <1>7 DEF LockFrame
  <2>3. walk[t].count >= 2 /\ plist[c].size = walk[t].count /\ (pc[t] # "idle" => call[t].key \in Keys)
    BY <1>1 DEF ThreadInv, c
  <2>4. crit'[t].base \notin PAddr
    BY <1>9, ConstAssumption DEF NoCrit
  <2>5. call'[t].key \in Keys
    BY <1>4, <2>3
  <2>6. plist'[c].base[b] \in PAddr
    BY <1>6, <2>2
  <2> QED BY <1>9, <2>1, <2>2, <2>3, <2>4, <2>5, <2>6 DEF ThreadInv
<1>11. /\ plist'[c].lock[b] = P_UNLOCKED /\ E_LOCKED # P_UNLOCKED
       /\ pc[t] \in InCrit /\ pc'[t] \notin InCrit
  BY <1>4, <1>7, <1>9 DEF LockFrame, InCrit, E_LOCKED, P_UNLOCKED
<1>12. \A u \in Threads \ {t} : /\ walk'[u] = walk[u] /\ call'[u] = call[u]
                                /\ pc'[u] = pc[u] /\ crit'[u] = crit[u]
  BY <1>4, <1>9
<1>13. /\ \A p \in PAddr : /\ plist'[p].size = plist[p].size
                           /\ DOMAIN plist'[p].lock = DOMAIN plist[p].lock
       /\ \A p \in PAddr : \A q \in DOMAIN plist[p].lock :
             <<p, q>> # At(t) => /\ plist'[p].lock[q] = plist[p].lock[q]
                                 /\ plist'[p].base[q] = plist[p].base[q]
       /\ plist'[c].base[b] = plist[c].base[b]
  BY <1>2, <1>7 DEF LockFrame
<1> QED BY <1>6, <1>8, <1>10, <1>11, <1>12, <1>13, OwnBucketStep DEF c, b

\* A new E-list goes into a bucket that is no sub-P-list.
LEMMA InsertEmptyInv ==
  ASSUME IndInv, NEW t \in Threads, insert_empty(t)
  PROVE  IndInv'
<1> DEFINE c == walk[t].curr
           b == bucket(t)
<1>1. TypeOK /\ ThreadInv(t)
  BY DEF IndInv
<1>2. /\ c \in PAddr /\ b \in 0..(plist[c].size - 1) /\ b \in DOMAIN plist[c].lock
      /\ At(t) = <<c, b>>
  BY <1>1, BucketInList DEF PListOf, ThreadInv, At
<1> DEFINE e == FreshE
           new == NewEList(Home[t], <<NewPair(t)>>)
<1>3. e \in EAddr /\ e \notin PAddr
  BY FreshEType, ConstAssumption DEF insert_empty
<1>4. /\ plist' = [plist EXCEPT ![c].base[b] = e]
      /\ elist' = [elist EXCEPT ![e] = new]
      /\ pc[t] = "work" /\ pc' = [pc EXCEPT ![t] = "unlock"]
      /\ ret' = [ret EXCEPT ![t] = [status |-> TRUE, result |-> 0]]
      /\ UNCHANGED <<call, walk, crit, bufs, todo>>
  BY DEF insert_empty, change_bucket_pointer, Decide, Goto
<1>5. new \in [id : Nat, state : {"free", "live", "freed"}, pairs : Seq(Pair)]
  <2>1. NewPair(t) \in Pair
    BY <1>1, <1>4 DEF TypeOK, ThreadInv, NewPair, Pair
  <2>2. <<NewPair(t)>> \in Seq(Pair)
    BY <2>1
  <2> QED BY <2>2, ConstAssumption DEF NewEList
<1>6. plist[c].base[b] \notin PAddr /\ plist[c].lock[b] = E_LOCKED
  <2>1. plist[c].base[b] \notin PAddr
    BY HeldIsElist, <1>4, ConstAssumption DEF InCrit
  <2> QED BY <1>2, <1>4, <2>1 DEF IndInv, MutualExclusion, InCrit
<1> HIDE DEF c, b, e, new
<1>7. BaseFrame(c, b, e)
  BY OwnFrames DEF c, b, e
<1>8. TypeOK'
  <2>1. elist' \in [EAddr -> [id : Nat, state : {"free", "live", "freed"}, pairs : Seq(Pair)]]
    BY <1>1, <1>4, <1>5 DEF TypeOK
  <2>2. ret' \in [Threads -> [status : BOOLEAN, result : Nat]]
    BY <1>1, <1>4 DEF TypeOK
  <2>3. pc' \in [Threads -> PCs]
    BY <1>1, <1>4 DEF TypeOK, PCs
  <2> QED BY <1>1, <1>4, <1>7, <2>1, <2>2, <2>3 DEF BaseFrame, TypeOK
<1>9. /\ pc'[t] = "unlock" /\ At(t)' = At(t) /\ bucket(t)' = bucket(t)
      /\ \A u \in Threads \ {t} : pc'[u] = pc[u]
  BY <1>1, <1>4 DEF TypeOK, At, bucket
<1>10. ThreadInv(t)'
  BY <1>1, <1>2, <1>4, <1>6, <1>7, <1>9 DEF BaseFrame, ThreadInv, c, b
<1>11. /\ plist'[c].lock[b] = E_LOCKED /\ E_LOCKED # P_UNLOCKED
       /\ pc[t] \in InCrit /\ pc'[t] \in InCrit
  BY <1>2, <1>4, <1>6, <1>7, <1>9 DEF BaseFrame, InCrit, E_LOCKED, P_UNLOCKED
<1>12. \A u \in Threads \ {t} : /\ walk'[u] = walk[u] /\ call'[u] = call[u]
                                /\ pc'[u] = pc[u] /\ crit'[u] = crit[u]
  BY <1>4, <1>9
<1> QED BY <1>2, <1>3, <1>6, <1>7, <1>8, <1>9, <1>10, <1>11, <1>12, OwnBucketStep DEF BaseFrame, c, b

\* publish puts a sub-P-list of the right size into the bucket t holds.
LEMMA PublishInv ==
  ASSUME IndInv, NEW t \in Threads, publish(t)
  PROVE  IndInv'
<1> DEFINE c == walk[t].curr
           b == bucket(t)
<1>1. TypeOK /\ ThreadInv(t)
  BY DEF IndInv
<1>2. /\ c \in PAddr /\ b \in 0..(plist[c].size - 1) /\ b \in DOMAIN plist[c].lock
      /\ At(t) = <<c, b>>
  BY <1>1, BucketInList DEF PListOf, ThreadInv, At
<1> DEFINE v == crit[t].next
<1>3. /\ plist' = [plist EXCEPT ![c].base[b] = v]
      /\ walk' = [walk EXCEPT ![t].snap = v]
      /\ pc[t] = "publish" /\ pc' = [pc EXCEPT ![t] = "punlock"]
      /\ UNCHANGED <<elist, call, crit, bufs, ret, todo>>
  BY DEF publish, change_bucket_pointer, Goto
<1>4. v \in PAddr /\ v \in Ptr /\ plist[v].size = 2 * walk[t].count
  BY <1>1, <1>3 DEF ThreadInv, Ptr
<1>5. plist[c].lock[b] = E_LOCKED
  BY <1>2, <1>3 DEF IndInv, MutualExclusion, InCrit
<1> HIDE DEF c, b, v
<1>6. BaseFrame(c, b, v)
  BY OwnFrames DEF c, b, v
<1>7. TypeOK'
  <2>1. walk' \in [Threads -> [curr : PAddr, depth : Nat, count : Nat, copy : BOOLEAN,
                              old : BOOLEAN, snap : Ptr]]
    BY <1>1, <1>3, <1>4, ZenonT(60) DEF TypeOK
  <2>2. pc' \in [Threads -> PCs]
    BY <1>1, <1>3 DEF TypeOK, PCs
  <2> QED BY <1>1, <1>3, <1>6, <2>1, <2>2 DEF BaseFrame, TypeOK
<1>8. /\ pc'[t] = "punlock"
      /\ walk'[t].curr = c /\ walk'[t].depth = walk[t].depth /\ walk'[t].count = walk[t].count
      /\ \A u \in Threads \ {t} : pc'[u] = pc[u] /\ walk'[u] = walk[u]
  BY <1>1, <1>3 DEF TypeOK, c
<1>9. bucket(t)' = b /\ At(t)' = At(t)
  BY <1>2, <1>3, <1>8 DEF bucket, b, At
<1>10. ThreadInv(t)'
  <2>1. plist'[c].size = plist[c].size /\ plist'[c].base[b] = v
    BY <1>2, <1>6 DEF BaseFrame
  <2>2. /\ walk[t].count >= 2 /\ plist[c].size = walk[t].count /\ crit[t].base \notin PAddr
        /\ (pc[t] # "idle" => call[t].key \in Keys)
    BY <1>1 DEF ThreadInv, c
  <2>3. call'[t].key \in Keys /\ crit'[t].base \notin PAddr
    BY <1>3, <2>2
  <2> QED BY <1>4, <1>8, <1>9, <2>1, <2>2, <2>3 DEF ThreadInv
<1>11. /\ plist'[c].lock[b] = E_LOCKED /\ E_LOCKED # P_UNLOCKED
       /\ pc[t] \in InCrit /\ pc'[t] \in InCrit
  BY <1>2, <1>3, <1>5, <1>6, <1>8 DEF BaseFrame, InCrit, E_LOCKED, P_UNLOCKED
<1>12. \A u \in Threads \ {t} : /\ walk'[u] = walk[u] /\ call'[u] = call[u]
                                /\ pc'[u] = pc[u] /\ crit'[u] = crit[u]
  BY <1>3, <1>8
<1> QED BY <1>2, <1>4, <1>6, <1>7, <1>8, <1>9, <1>10, <1>11, <1>12, OwnBucketStep
        DEF BaseFrame, c, b

-----------------------------------------------------------------------------
(* Building the sub-P-list *)

\* A new P-list takes an address nobody points at or stands on.
LEMMA RehashAllocInv ==
  ASSUME IndInv, NEW t \in Threads, rehash_alloc(t)
  PROVE  IndInv'
<1> DEFINE n == FreshP
           size == walk[t].count * 2
           new == InitPList(Home[t], size)
<1>1. TypeOK /\ ThreadInv(t)
  BY DEF IndInv
<1>2. n \in PAddr /\ plist[n].size = 0
  BY DEF rehash_alloc, HasFreeP, FreshP
<1>3. /\ plist' = [plist EXCEPT ![n] = new]
      /\ crit' = [crit EXCEPT ![t].next = n, ![t].i = 1, ![t].pairs = elist[crit[t].base].pairs]
      /\ pc[t] = "work" /\ pc' = [pc EXCEPT ![t] = "rehash"]
      /\ UNCHANGED <<elist, call, walk, ret, todo>>
  BY DEF rehash_alloc, Goto
<1>4. bufs' \in [Threads -> Int]
  <2>1. EBufs(t) \in Int
    BY DEF EBufs
  <2> QED BY <1>1, <2>1 DEF TypeOK, rehash_alloc
<1>5. size \in Nat /\ size >= 4 /\ size = 2 * walk[t].count
  BY <1>1 DEF TypeOK, ThreadInv
<1>6. elist[crit[t].base].pairs \in Seq(Pair)
  <2>1. crit[t].base \in EAddr
    BY <1>1, EPairsType DEF rehash_alloc
  <2> QED BY <1>1, <2>1 DEF TypeOK
<1> HIDE DEF n, size
<1>7. /\ new \in PListOf(size) /\ new.size = size /\ DOMAIN new.lock = 0..(size - 1)
      /\ \A b \in 0..(size - 1) : new.lock[b] = E_UNLOCKED /\ new.base[b] = Null
  BY <1>5, ConstAssumption DEF InitPList, PListOf, LockStates, Ptr
<1> HIDE DEF new
<1>8. /\ plist'[n] = new
      /\ \A p \in PAddr : p # n => plist'[p] = plist[p]
      /\ plist' = [p \in PAddr |-> plist'[p]]
  BY <1>1, <1>2, <1>3 DEF TypeOK
<1>9. TypeOK'
  <2>1. crit' \in [Threads -> [base : Ptr, pairs : Seq(Pair), next : PAddr \cup {Null}, i : Nat \ {0}]]
    <3> DEFINE x == [crit[t] EXCEPT !.next = n, !.i = 1, !.pairs = elist[crit[t].base].pairs]
               S == Seq(Pair)
               R == [base : Ptr, pairs : S, next : PAddr \cup {Null}, i : Nat \ {0}]
    <3>1. crit \in [Threads -> R] /\ crit' = [crit EXCEPT ![t] = x]
      BY <1>1, <1>3 DEF TypeOK
    <3>2. crit[t] \in R /\ elist[crit[t].base].pairs \in S
      BY <1>6, <3>1
    <3>3. x \in R
      <4> DEFINE y == crit[t]
                 s == elist[crit[t].base].pairs
      <4>1. y \in R /\ s \in S /\ x = [y EXCEPT !.next = n, !.i = 1, !.pairs = s]
        BY <3>2
      <4> HIDE DEF S, y, s, x
      <4>2. n \in PAddr \cup {Null} /\ 1 \in Nat \ {0}
        BY <1>2
      <4> QED BY <4>1, <4>2
    <3> HIDE DEF R, x
    <3>4. crit' \in [Threads -> R]
      BY <3>1, <3>3
    <3> QED BY <3>4 DEF R, S
  <2>2. pc' \in [Threads -> PCs]
    BY <1>1, <1>3 DEF TypeOK, PCs
  <2>3. \A p \in PAddr : plist'[p].size \in Nat /\ plist'[p] \in PListOf(plist'[p].size)
    BY <1>1, <1>5, <1>7, <1>8 DEF TypeOK
  <2> QED BY <1>1, <1>3, <1>4, <1>8, <2>1, <2>2, <2>3 DEF TypeOK
<1>10. /\ pc'[t] = "rehash" /\ crit'[t].next = n /\ crit'[t].base = crit[t].base
       /\ \A u \in Threads \ {t} : pc'[u] = pc[u] /\ crit'[u] = crit[u]
  BY <1>1, <1>3 DEF TypeOK
<1>11. \A u \in Threads : /\ bucket(u)' = bucket(u) /\ At(u)' = At(u)
                          /\ walk[u].curr \in PAddr /\ walk[u].curr # n
                          /\ At(u) = <<walk[u].curr, bucket(u)>>
                          /\ pc'[u] \in InCrit <=> pc[u] \in InCrit
                          /\ pc'[u] = "punlock" <=> pc[u] = "punlock"
  <2>1. \A u \in Threads : walk[u].curr \in PAddr /\ plist[walk[u].curr].size >= 2
    BY DEF IndInv, TypeOK, ThreadInv
  <2> QED BY <1>2, <1>3, <1>10, <2>1 DEF bucket, At, InCrit
<1>12. MutualExclusion'
  <2>1. ASSUME NEW p \in PAddr, NEW b \in DOMAIN plist'[p].lock
        PROVE  plist'[p].lock[b] = E_LOCKED <=> \E u \in Threads : pc'[u] \in InCrit /\ At(u)' = <<p, b>>
    <3>1. CASE p = n
      <4>1. plist'[p].lock[b] = E_UNLOCKED
        BY <3>1, <1>7, <1>8
      <4>2. \A u \in Threads : At(u)' # <<p, b>>
        BY <3>1, <1>11
      <4> QED BY <4>1, <4>2 DEF E_LOCKED, E_UNLOCKED
    <3>2. CASE p # n
      BY <3>2, <1>8, <1>11 DEF IndInv, MutualExclusion
    <3> QED BY <3>1, <3>2
  <2>2. ASSUME NEW u \in Threads, NEW w \in Threads,
               pc'[u] \in InCrit, pc'[w] \in InCrit, At(u)' = At(w)'
        PROVE  u = w
    BY <2>2, <1>11 DEF IndInv, MutualExclusion
  <2> QED BY <2>1, <2>2 DEF MutualExclusion
<1>13. SubPLists'
  <2>1. plist'[Root].size = PLIST_SIZE
    BY <1>2, <1>8, ConstAssumption DEF IndInv, SubPLists
  <2>2. ASSUME NEW p \in PAddr, NEW b \in DOMAIN plist'[p].lock
        PROVE  /\ plist'[p].lock[b] = P_UNLOCKED => plist'[p].base[b] \in PAddr
               /\ plist'[p].base[b] \in PAddr =>
                     /\ plist'[plist'[p].base[b]].size = 2 * plist'[p].size
                     /\ \/ plist'[p].lock[b] = P_UNLOCKED
                        \/ \E u \in Threads : pc'[u] = "punlock" /\ At(u)' = <<p, b>>
    <3>1. CASE p = n
      <4>1. plist'[p].lock[b] = E_UNLOCKED /\ plist'[p].base[b] = Null
        BY <3>1, <1>7, <1>8
      <4> QED BY <4>1, ConstAssumption DEF P_UNLOCKED, E_UNLOCKED
    <3>2. CASE p # n
      <4>1. plist'[p] = plist[p] /\ b \in DOMAIN plist[p].lock
        BY <3>2, <1>8
      <4>2. plist[p].size \in Nat /\ plist[p].size > 0
        BY <1>1, <4>1, SMTT(30) DEF TypeOK, PListOf
      <4>3. plist[p].base[b] \in PAddr => plist[p].base[b] # n
        BY <1>2, <4>1, <4>2 DEF IndInv, SubPLists
      <4> QED BY <1>8, <1>11, <4>1, <4>3 DEF IndInv, SubPLists
    <3> QED BY <3>1, <3>2
  <2> QED BY <2>1, <2>2 DEF SubPLists
<1>14. ASSUME NEW u \in Threads PROVE ThreadInv(u)'
  <2>1. ThreadInv(u)
    BY DEF IndInv
  <2>2. plist'[walk[u].curr] = plist[walk[u].curr]
    BY <1>8, <1>11
  <2>3. CASE u = t
    BY <1>2, <1>3, <1>5, <1>7, <1>8, <1>10, <1>11, <2>1, <2>2, <2>3 DEF ThreadInv
  <2>4. CASE u # t
    <3>1. walk[u].count \in Nat /\ walk[u].count >= 2
      BY <1>1, <2>1 DEF TypeOK, ThreadInv
    <3>2. ASSUME pc[u] \in {"descend", "rehash", "publish"}
          PROVE  /\ crit[u].next \in PAddr
                 /\ plist[crit[u].next].size = 2 * walk[u].count
                 /\ plist'[crit[u].next] = plist[crit[u].next]
      <4>1. crit[u].next \in PAddr /\ plist[crit[u].next].size = 2 * walk[u].count
        BY <2>1, <3>2 DEF ThreadInv
      <4>2. crit[u].next # n
        BY <1>2, <3>1, <4>1
      <4> QED BY <1>8, <4>1, <4>2
    <3>3. pc'[u] = pc[u] /\ crit'[u] = crit[u] /\ walk' = walk /\ call' = call /\ bucket(u)' = bucket(u)
      BY <1>3, <1>10, <1>11, <2>4
    <3> QED BY <2>1, <2>2, <3>2, <3>3 DEF ThreadInv, lock
  <2> QED BY <2>3, <2>4
<1> QED BY <1>9, <1>12, <1>13, <1>14 DEF IndInv

\* One pair goes into the new P-list: an empty bucket gets an E-list, and no
\* other bucket of any P-list changes.
LEMMA RehashMoveInv ==
  ASSUME IndInv, NEW t \in Threads, rehash_move(t)
  PROVE  IndInv'
<1> DEFINE pair == crit[t].pairs[crit[t].i]
           n    == crit[t].next
           b    == level_hash(pair.key, walk[t].depth + 1, walk[t].count * 2)
           e    == FreshE
           new  == NewEList(Home[t], <<pair>>)
           dest == plist[n].base[b]
<1>1. TypeOK /\ ThreadInv(t)
  BY DEF IndInv
<1>2. /\ pc[t] = "rehash" /\ crit' = [crit EXCEPT ![t].i = @ + 1]
      /\ UNCHANGED <<pc, call, walk, bufs, ret, todo>>
      /\ crit[t].i <= Len(crit[t].pairs)
  BY DEF rehash_move
<1>3. \/ /\ dest = Null /\ e \in EAddr
         /\ elist' = [elist EXCEPT ![e] = new]
         /\ plist' = [plist EXCEPT ![n].base[b] = e]
      \/ /\ elist' = [elist EXCEPT ![dest].pairs = Append(@, pair)]
         /\ plist' = plist
  BY FreshEType DEF rehash_move
<1>4. pair \in Pair /\ pair.key \in Nat
  <2>1. crit[t].pairs \in Seq(Pair) /\ crit[t].i \in 1..Len(crit[t].pairs)
    BY <1>1, <1>2 DEF TypeOK
  <2>2. pair \in Pair
    BY <2>1
  <2>3. \A x \in Pair : x.key \in Nat
    <3>1. \A k \in Keys : k \in Nat
      BY ConstAssumption
    <3> QED BY <3>1 DEF Pair
  <2> HIDE DEF pair
  <2> QED BY <2>2, <2>3
<1>5. n \in PAddr /\ plist[n].size = walk[t].count * 2 /\ b \in 0..(plist[n].size - 1)
  <2>1. /\ n \in PAddr /\ plist[n].size = walk[t].count * 2
        /\ walk[t].count * 2 \in Nat /\ walk[t].count * 2 >= 2 /\ walk[t].depth + 1 \in Nat
    BY <1>1, <1>2 DEF TypeOK, ThreadInv
  <2> DEFINE k == pair.key
             d == walk[t].depth + 1
             c == walk[t].count * 2
  <2>2. k \in Nat /\ d \in Nat /\ c \in Nat /\ c >= 2 /\ b = level_hash(k, d, c) /\ plist[n].size = c
    BY <1>4, <2>1
  <2> HIDE DEF k, d, c, b, n
  <2>3. b \in 0..(c - 2)
    BY <2>2, LevelHashRange
  <2> QED BY <2>1, <2>2, <2>3
<1> HIDE DEF n, b, e, pair
<1>6. elist' \in [EAddr -> [id : Nat, state : {"free", "live", "freed"}, pairs : Seq(Pair)]]
  <2>1. new \in [id : Nat, state : {"free", "live", "freed"}, pairs : Seq(Pair)]
    <3>1. <<pair>> \in Seq(Pair)
      BY <1>4
    <3> QED BY <3>1, ConstAssumption DEF NewEList
  <2> HIDE DEF new, dest
  <2>2. CASE elist' = [elist EXCEPT ![e] = new]
    BY <1>1, <2>1, <2>2 DEF TypeOK
  <2>3. CASE elist' = [elist EXCEPT ![dest].pairs = Append(@, pair)] /\ dest \in EAddr
    <3> DEFINE s == Append(elist[dest].pairs, pair)
    <3>1. s \in Seq(Pair)
      <4>1. elist[dest].pairs \in Seq(Pair)
        BY <1>1, <2>3 DEF TypeOK
      <4> QED BY <1>4, <4>1
    <3>2. elist' = [elist EXCEPT ![dest].pairs = s]
      BY <2>3
    <3> HIDE DEF s
    <3> QED BY <1>1, <3>1, <3>2, EListWrite DEF TypeOK
  <2>4. CASE elist' = [elist EXCEPT ![dest].pairs = Append(@, pair)] /\ dest \notin EAddr
    <3>1. elist' = elist
      BY <1>1, <2>4 DEF TypeOK
    <3> QED BY <1>1, <3>1 DEF TypeOK
  <2> QED BY <1>3, <2>2, <2>3, <2>4
<1>7. crit' \in [Threads -> [base : Ptr, pairs : Seq(Pair), next : PAddr \cup {Null}, i : Nat \ {0}]]
  <2>1. crit \in [Threads -> [base : Ptr, pairs : Seq(Pair), next : PAddr \cup {Null}, i : Nat \ {0}]]
    BY <1>1 DEF TypeOK
  <2>2. crit[t].i + 1 \in Nat \ {0}
    BY <2>1
  <2> QED BY <1>2, <2>1, <2>2
<1>8. \A u \in Threads : /\ crit'[u].base = crit[u].base /\ crit'[u].next = crit[u].next
                         /\ u # t => crit'[u] = crit[u]
  BY <1>1, <1>2, SMTT(30) DEF TypeOK
<1>9. CASE plist' = plist
  <2>1. TypeOK'
    BY <1>1, <1>2, <1>6, <1>7, <1>9 DEF TypeOK
  <2>2. ThreadInv(t)'
    BY <1>1, <1>2, <1>8, <1>9 DEF ThreadInv, bucket
  <2> QED BY <1>2, <1>8, <1>9, <2>1, <2>2, QuietStep
<1>10. CASE dest = Null /\ e \in EAddr /\ plist' = [plist EXCEPT ![n].base[b] = e]
  <2>1. BaseFrame(n, b, e)
    <3>1. e \in Ptr
      BY <1>10 DEF Ptr
    <3> QED BY <1>1, <1>5, <1>10, <3>1, BaseWrite
  <2>2. TypeOK'
    BY <1>1, <1>2, <1>6, <1>7, <2>1 DEF TypeOK, BaseFrame
  <2>3. \A u \in Threads : bucket(u)' = bucket(u) /\ At(u)' = At(u)
    BY <1>2 DEF bucket, At
  <2>4. MutualExclusion'
    BY <1>2, <2>1, <2>3 DEF IndInv, MutualExclusion, BaseFrame
  <2>5. e \notin PAddr /\ plist[n].base[b] \notin PAddr
    BY <1>10, ConstAssumption
  <2>6. \A p \in PAddr : \A q \in DOMAIN plist[p].lock :
          /\ plist[p].base[q] \in PAddr => plist'[p].base[q] = plist[p].base[q]
          /\ plist'[p].base[q] \in PAddr => plist[p].base[q] = plist'[p].base[q]
    BY <2>1, <2>5 DEF BaseFrame
  <2>7. SubPLists'
    <3>1. Root \in PAddr
      BY ConstAssumption
    <3>2. \A p \in PAddr : plist'[p].size = plist[p].size /\ plist'[p].lock = plist[p].lock
      BY <2>1 DEF BaseFrame
    <3> QED BY <1>2, <2>3, <2>6, <3>1, <3>2 DEF IndInv, SubPLists
  <2>8. ASSUME NEW u \in Threads PROVE ThreadInv(u)'
    <3>1. ThreadInv(u) /\ walk[u].curr \in PAddr /\ bucket(u) \in DOMAIN plist[walk[u].curr].lock
      BY BucketInList DEF IndInv, PListOf
    <3>2. plist[walk[u].curr].base[bucket(u)] \in PAddr => plist'[walk[u].curr].base[bucket(u)] \in PAddr
      BY <2>6, <3>1
    <3>3. \A p \in PAddr : plist'[p].size = plist[p].size /\ plist'[p].lock = plist[p].lock
      BY <2>1 DEF BaseFrame
    <3> QED BY <1>2, <1>8, <2>3, <3>1, <3>2, <3>3 DEF ThreadInv, lock
  <2> QED BY <2>2, <2>4, <2>7, <2>8 DEF IndInv
<1> QED BY <1>3, <1>9, <1>10

-----------------------------------------------------------------------------
(* Theorems *)

\* Every step of every thread preserves the invariant.
THEOREM NextInv == IndInv /\ [Next]_vars => IndInv'
<1> SUFFICES ASSUME IndInv, [Next]_vars PROVE IndInv'
  OBVIOUS
<1>1. CASE UNCHANGED vars
  <2>1. UNCHANGED <<plist, elist, pc, walk, call, crit, bufs, ret, todo>>
    BY <1>1 DEF vars
  <2>2. TypeOK'
    BY <2>1 DEF IndInv, TypeOK
  <2>3. \A t \in Threads : At(t)' = At(t) /\ bucket(t)' = bucket(t) /\ lock(t)' = lock(t)
    BY <2>1 DEF At, bucket, lock
  <2>4. MutualExclusion'
    BY <2>1, <2>3 DEF IndInv, MutualExclusion
  <2>5. SubPLists'
    BY <2>1, <2>3 DEF IndInv, SubPLists
  <2>6. \A t \in Threads : ThreadInv(t)'
    BY <2>1, <2>3 DEF IndInv, ThreadInv
  <2> QED BY <2>2, <2>4, <2>5, <2>6 DEF IndInv
<1>2. ASSUME NEW t \in Threads, NEW c \in Calls(t), Invoke(t, c) PROVE IndInv'
  BY <1>2, InvokeInv
<1>3. ASSUME NEW t \in Threads, Step(t) PROVE IndInv'
  <2>1. CASE Traverse(t)
    BY <2>1, AcquireEInv, AcquirePInv, RefetchInv, DescendInv, ReadElistInv DEF Traverse
  <2>2. CASE miss(t) \/ contains_hit(t) \/ insert_exists(t)
    BY <2>2, LookupInv
  <2>3. CASE remove_hit(t) \/ insert_append(t)
    BY <2>3, UpdateInv
  <2>4. CASE insert_empty(t)
    BY <2>4, InsertEmptyInv
  <2>5. CASE rehash(t)
    BY <2>5, RehashAllocInv, RehashMoveInv, RehashFreeInv DEF rehash
  <2>6. CASE publish(t) \/ unlock_P(t) \/ unlock_E(t)
    BY <2>6, PublishInv, UnlockPInv, UnlockEInv
  <2> QED BY <1>3, <2>1, <2>2, <2>3, <2>4, <2>5, <2>6 DEF Step, contains, insert, remove
<1>4. CASE Finished
  BY <1>1, <1>4 DEF Finished
<1> QED BY <1>1, <1>2, <1>3, <1>4 DEF Next

\* IndInv holds in every reachable state, whatever the threads, the sizes of
\* the lists, the addresses and the operations.
THEOREM Inductive == Spec => []IndInv
BY InitInv, NextInv, PTL DEF Spec

\* Memory and locals keep the shape the code gives them; the pointer a walk
\* goes down by is always a P-list.
THEOREM TypeCorrect == Spec => []TypeOK
<1>1. IndInv => TypeOK
  BY DEF IndInv
<1> QED BY <1>1, Inductive, PTL

\* acquire and unlock implement a lock: at most one thread is between them
\* for any bucket, and the lock word says whether one is.
THEOREM MutualExclusionHolds == Spec => []MutualExclusion
<1>1. IndInv => MutualExclusion
  BY DEF IndInv
<1> QED BY <1>1, Inductive, PTL

\* Under the lock a thread casts a base pointer to an E-list, after a failed
\* acquire to a P-list, and it is one.
THEOREM PointerKindsHolds == Spec => []PointerKinds
<1>1. IndInv => PointerKinds
  <2> SUFFICES ASSUME IndInv, NEW t \in Threads
               PROVE  /\ pc[t] = "locked" => curr_base(t) \notin PAddr
                      /\ pc[t] \in InCrit => crit[t].base \notin PAddr
                      /\ pc[t] = "refetch" => plist[walk[t].curr].base[bucket(t)] \in PAddr
                      /\ pc[t] = "descend" => crit[t].next \in PAddr
    BY DEF PointerKinds
  <2>1. ThreadInv(t)
    BY DEF IndInv
  <2>2. pc[t] = "locked" => curr_base(t) \notin PAddr
    BY HeldIsElist, ConstAssumption DEF InCrit
  <2>3. walk[t].curr \in PAddr /\ bucket(t) \in DOMAIN plist[walk[t].curr].lock
    BY <2>1, BucketInList DEF IndInv, PListOf
  <2>4. pc[t] = "refetch" => plist[walk[t].curr].base[bucket(t)] \in PAddr
    BY <2>1, <2>3 DEF IndInv, SubPLists, ThreadInv, lock
  <2> QED BY <2>1, <2>2, <2>4 DEF ThreadInv
<1> QED BY <1>1, Inductive, PTL

\* The depth and the count of a walk grow together.
LEMMA DepthStep ==
  ASSUME IndInv, DepthInv, Next
  PROVE  DepthInv'
<1> DEFINE Level(w) == w.depth >= 1 /\ w.count = PLIST_SIZE * Shl[w.depth - 1]
<1>1. \A t \in Threads : Level(walk[t]) /\ walk[t].depth \in Nat /\ walk[t].count \in Nat
  BY DEF DepthInv, IndInv, TypeOK
<1>2. PLIST_SIZE \in Nat /\ Shl[0] = 1
  BY ConstAssumption, ShlDoubles
<1>3. SUFFICES ASSUME NEW t \in Threads, NEW w,
                      walk' = [walk EXCEPT ![t] = w], Level(w)
               PROVE  DepthInv'
  <2>1. CASE walk' = walk
    BY <1>1, <2>1 DEF DepthInv
  <2>2. ASSUME NEW t \in Threads, NEW c \in Calls(t), Invoke(t, c) PROVE DepthInv'
    <3>1. walk' = [walk EXCEPT ![t] = Start(c.key)] /\ Level(Start(c.key))
      BY <1>2, <2>2 DEF Invoke, Start
    <3> QED BY <1>3, <3>1
  <2>3. ASSUME NEW t \in Threads, descend(t) PROVE DepthInv'
    <3> DEFINE d == walk[t].depth
               c == walk[t].count
               s == walk'[t]
    <3>1. /\ s.depth = d + 1 /\ s.count = c * 2
          /\ walk' = [walk EXCEPT ![t] = s]
      BY <2>3 DEF descend, IndInv, TypeOK
    <3>2. d \in Nat /\ d >= 1 /\ c \in Nat /\ c = PLIST_SIZE * Shl[d - 1]
      BY <1>1
    <3> HIDE DEF d, c, s
    <3>3. d - 1 \in Nat /\ (d - 1) + 1 = d /\ (d + 1) - 1 = d
      BY <3>2
    <3>4. Shl[d] = 2 * Shl[d - 1] /\ Shl[d - 1] \in Nat
      BY <3>3, ShlDoubles
    <3>5. c * 2 = PLIST_SIZE * Shl[d]
      <4> DEFINE x == Shl[d - 1]
      <4>1. x \in Nat /\ c = PLIST_SIZE * x /\ Shl[d] = 2 * x
        BY <3>2, <3>4
      <4> HIDE DEF x
      <4>2. (PLIST_SIZE * x) * 2 = PLIST_SIZE * (2 * x)
        BY <1>2, <4>1
      <4> QED BY <4>1, <4>2
    <3>6. Level(s)
      BY <3>1, <3>2, <3>3, <3>5
    <3> QED BY <1>3, <3>1, <3>6
  <2>4. ASSUME NEW t \in Threads, publish(t) \/ unlock_P(t) PROVE DepthInv'
    <3>1. /\ walk' = [walk EXCEPT ![t] = walk'[t]]
          /\ walk'[t].depth = walk[t].depth /\ walk'[t].count = walk[t].count
      BY <2>4 DEF publish, unlock_P, IndInv, TypeOK
    <3>2. Level(walk'[t])
      BY <1>1, <3>1
    <3> QED BY <1>3, <3>1, <3>2
  <2>5. ASSUME NEW t \in Threads, unlock_E(t) PROVE DepthInv'
    <3>1. walk' = [walk EXCEPT ![t] = NoWalk] /\ Level(NoWalk)
      BY <1>2, <2>5 DEF unlock_E, NoWalk
    <3> QED BY <1>3, <3>1
  <2>6. ASSUME NEW t \in Threads, Step(t) PROVE DepthInv'
    <3>1. CASE acquire_E(t) \/ acquire_P(t) \/ refetch(t) \/ read_elist(t)
      BY <2>1, <3>1 DEF acquire_E, acquire_P, refetch, read_elist
    <3>2. CASE miss(t) \/ contains_hit(t) \/ insert_exists(t) \/ remove_hit(t) \/ insert_append(t)
                \/ insert_empty(t)
      BY <2>1, <3>2 DEF miss, contains_hit, insert_exists, remove_hit, insert_append, insert_empty, Decide
    <3>3. CASE rehash(t)
      BY <2>1, <3>3 DEF rehash, rehash_alloc, rehash_move, rehash_free
    <3> QED BY <2>3, <2>4, <2>5, <2>6, <3>1, <3>2, <3>3 DEF Step, contains, insert, remove, Traverse
  <2>7. CASE Finished
    BY <2>1, <2>7 DEF Finished, vars
  <2> QED BY <2>2, <2>6, <2>7 DEF Next
<1>4. \A u \in Threads : walk'[u] = IF u = t THEN w ELSE walk[u]
  BY <1>3 DEF IndInv, TypeOK
<1>5. \A u \in Threads : Level(walk'[u])
  BY <1>1, <1>3, <1>4
<1> QED BY <1>5 DEF DepthInv

LEMMA DepthInvariant == Spec => []DepthInv
<1>1. Init => DepthInv
  <2>1. Shl[1 - 1] = 1 /\ PLIST_SIZE * Shl[1 - 1] = PLIST_SIZE
    BY ConstAssumption, ShlDoubles
  <2>2. NoWalk.depth = 1 /\ NoWalk.count = PLIST_SIZE
    BY DEF NoWalk
  <2> SUFFICES ASSUME Init, NEW t \in Threads
               PROVE  walk[t].depth >= 1 /\ walk[t].count = PLIST_SIZE * Shl[walk[t].depth - 1]
    BY DEF DepthInv
  <2>3. walk[t] = NoWalk
    BY DEF Init
  <2> QED BY <2>1, <2>2, <2>3
<1>2. IndInv /\ DepthInv /\ [Next]_vars => DepthInv'
  BY DepthStep DEF DepthInv, vars
<1> QED BY <1>1, <1>2, Inductive, PTL DEF Spec

\* The buckets a thread hashes over, the buckets it reads and the buckets the
\* P-list was allocated with are equally many, at every depth.
THEOREM WalkInBoundsHolds == Spec => []WalkInBounds
<1>1. IndInv /\ DepthInv => WalkInBounds
  <2> SUFFICES ASSUME IndInv, DepthInv, NEW t \in Threads
               PROVE  /\ plist[walk[t].curr].size = walk[t].count
                      /\ walk[t].count = PLIST_SIZE * Shl[walk[t].depth - 1]
                      /\ pc[t] = "descend" => plist[crit[t].next].size = PLIST_SIZE * Shl[walk[t].depth]
    BY DEF WalkInBounds
  <2> DEFINE d == walk[t].depth
             c == walk[t].count
  <2>1. plist[walk[t].curr].size = c /\ c = PLIST_SIZE * Shl[d - 1]
    BY DEF IndInv, ThreadInv, DepthInv
  <2>2. pc[t] = "descend" => plist[crit[t].next].size = 2 * c
    BY DEF IndInv, ThreadInv
  <2>3. d \in Nat /\ d >= 1
    BY DEF IndInv, TypeOK, DepthInv
  <2> HIDE DEF c, d
  <2>4. d - 1 \in Nat /\ (d - 1) + 1 = d
    BY <2>3
  <2>5. Shl[d] = 2 * Shl[d - 1] /\ Shl[d - 1] \in Nat /\ PLIST_SIZE \in Nat
    BY <2>4, ShlDoubles, ConstAssumption
  <2> DEFINE x == Shl[d - 1]
  <2>6. x \in Nat /\ c = PLIST_SIZE * x /\ Shl[d] = 2 * x
    BY <2>1, <2>5
  <2> HIDE DEF x
  <2>7. 2 * (PLIST_SIZE * x) = PLIST_SIZE * (2 * x)
    BY <2>5, <2>6
  <2>8. 2 * c = PLIST_SIZE * Shl[d]
    BY <2>6, <2>7
  <2> QED BY <2>1, <2>2, <2>8 DEF c, d
<1> QED BY <1>1, Inductive, DepthInvariant, PTL

\* A step that writes the bucket its thread holds, or takes, leaves the
\* permanently unlocked ones alone.
LEMMA OwnBucketPermanent ==
  ASSUME IndInv, NEW t \in Threads, NEW x,
         pc[t] \in InCrit \/ lock(t) = E_UNLOCKED,
         LockFrame(walk[t].curr, bucket(t), x) \/ BaseFrame(walk[t].curr, bucket(t), x)
  PROVE  KeepsPermanentUnlocks
<1> DEFINE c == walk[t].curr
           b == bucket(t)
<1>1. c \in PAddr /\ b \in DOMAIN plist[c].lock /\ At(t) = <<c, b>>
  BY BucketInList DEF IndInv, PListOf, At
<1>2. plist[c].lock[b] # P_UNLOCKED
  BY <1>1 DEF IndInv, MutualExclusion, lock, E_LOCKED, E_UNLOCKED, P_UNLOCKED
<1> HIDE DEF c, b
<1>3. CASE LockFrame(c, b, x)
  BY <1>2, <1>3 DEF LockFrame, KeepsPermanentUnlocks
<1>4. CASE BaseFrame(c, b, x)
  BY <1>2, <1>4 DEF BaseFrame, KeepsPermanentUnlocks
<1> QED BY <1>3, <1>4 DEF c, b

\* A rehash writes only buckets that point at nothing.
LEMMA RehashMovePermanent ==
  ASSUME IndInv, NEW t \in Threads, rehash_move(t)
  PROVE  KeepsPermanentUnlocks
<1> DEFINE n == crit[t].next
           b == level_hash(crit[t].pairs[crit[t].i].key, walk[t].depth + 1, walk[t].count * 2)
           e == FreshE
<1>1. CASE plist' = plist
  BY <1>1 DEF KeepsPermanentUnlocks
<1>2. CASE plist[n].base[b] = Null /\ plist' = [plist EXCEPT ![n].base[b] = e]
  <2>1. n \in PAddr
    BY DEF IndInv, ThreadInv, rehash_move
  <2> HIDE DEF n, b, e
  <2>2. /\ \A p \in PAddr : p # n => plist'[p] = plist[p]
        /\ plist'[n].lock = plist[n].lock
        /\ plist'[n].base = [plist[n].base EXCEPT ![b] = e]
    BY <1>2, <2>1 DEF IndInv, TypeOK, PListOf
  <2>3. DOMAIN plist[n].base = DOMAIN plist[n].lock
    BY <2>1 DEF IndInv, TypeOK, PListOf
  <2>4. ASSUME NEW q \in DOMAIN plist[n].lock, plist[n].lock[q] = P_UNLOCKED
        PROVE  plist'[n].base[q] = plist[n].base[q]
    <3>1. plist[n].base[q] \in PAddr
      BY <2>1, <2>4 DEF IndInv, SubPLists
    <3>2. q # b
      BY <1>2, <3>1, ConstAssumption
    <3> QED BY <2>2, <2>3, <3>2
  <2> QED BY <2>2, <2>4 DEF KeepsPermanentUnlocks
<1> QED BY <1>1, <1>2 DEF rehash_move

\* No step of an operation touches a permanently unlocked bucket.
LEMMA StepPermanent ==
  ASSUME IndInv, NEW t \in Threads, Step(t)
  PROVE  KeepsPermanentUnlocks
<1>1. CASE acquire_E(t)
  BY <1>1, OwnFrames, OwnBucketPermanent DEF acquire_E
<1>2. CASE unlock_E(t)
  BY <1>2, OwnFrames, OwnBucketPermanent DEF unlock_E, InCrit
<1>3. CASE unlock_P(t)
  BY <1>3, OwnFrames, OwnBucketPermanent DEF unlock_P, InCrit
<1>4. CASE insert_empty(t)
  BY <1>4, OwnFrames, OwnBucketPermanent DEF insert_empty, InCrit
<1>5. CASE publish(t)
  BY <1>5, OwnFrames, OwnBucketPermanent DEF publish, InCrit
<1>6. CASE descend(t)
  <2>1. plist' = [plist EXCEPT ![walk[t].curr].live = @ /\ ~FreesCurr(t)]
    BY <1>6 DEF descend
  <2>2. \A p \in PAddr : plist'[p].lock = plist[p].lock /\ plist'[p].base = plist[p].base
    BY <2>1 DEF IndInv, TypeOK, PListOf
  <2> QED BY <2>2 DEF KeepsPermanentUnlocks
<1>7. CASE rehash_alloc(t)
  <2>1. /\ FreshP \in PAddr /\ plist[FreshP].size = 0
        /\ plist' = [plist EXCEPT ![FreshP] = InitPList(Home[t], walk[t].count * 2)]
    BY <1>7 DEF rehash_alloc, HasFreeP, FreshP
  <2>2. DOMAIN plist[FreshP].lock = {}
    BY <2>1, SMTT(30) DEF IndInv, TypeOK, PListOf
  <2>3. \A p \in PAddr : p # FreshP => plist'[p] = plist[p]
    BY <2>1 DEF IndInv, TypeOK
  <2> QED BY <2>2, <2>3 DEF KeepsPermanentUnlocks
<1>8. CASE rehash_move(t)
  BY <1>8, RehashMovePermanent
<1>9. CASE plist' = plist
  BY <1>9 DEF KeepsPermanentUnlocks
<1> QED BY <1>1, <1>2, <1>3, <1>4, <1>5, <1>6, <1>7, <1>8, <1>9
        DEF Step, contains, insert, remove, Traverse, rehash, acquire_P, refetch, read_elist,
            miss, contains_hit, insert_exists, remove_hit, insert_append, rehash_free

\* Once P_UNLOCKED, a bucket keeps its lock word and its sub-P-list for ever.
THEOREM PermanentUnlockHolds == Spec => PermanentUnlock
<1>1. IndInv /\ [Next]_vars => [KeepsPermanentUnlocks]_vars
  <2> SUFFICES ASSUME IndInv, Next PROVE KeepsPermanentUnlocks \/ UNCHANGED vars
    OBVIOUS
  <2>1. ASSUME NEW t \in Threads, NEW c \in Calls(t), Invoke(t, c) PROVE KeepsPermanentUnlocks
    BY <2>1 DEF Invoke, KeepsPermanentUnlocks
  <2> QED BY <2>1, StepPermanent DEF Next, Finished
<1> QED BY <1>1, Inductive, PTL DEF Spec, PermanentUnlock
=============================================================================
