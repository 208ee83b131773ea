-------------------------- MODULE IHTMemory_proofs --------------------------
(***************************************************************************)
(* Proofs about the memory IHT uses and what it keeps there: OwnInv says   *)
(* who may hold the address of an E-list, BufInv counts the buffers of an  *)
(* operation, and ContentInv says that what is stored is sound.  They are  *)
(* inductive on top of IndInv.                                             *)
(***************************************************************************)
EXTENDS IHT_proofs

-----------------------------------------------------------------------------
(* What a step of t does to the state of others and to memory *)

Others(t) ==
    \A u \in Threads \ {t} :
        /\ pc'[u] = pc[u] /\ call'[u] = call[u] /\ walk'[u] = walk[u]
        /\ crit'[u] = crit[u] /\ bufs'[u] = bufs[u] /\ ret'[u] = ret[u]

\* The base pointers to E-lists are the old ones, but for one that leads from
\* bucket b of n to an E-list allocated in this step.
NewBase(n, b) ==
    \A p \in PAddr : \A q \in DOMAIN plist'[p].base :
        plist'[p].base[q] \in EAddr =>
            \/ q \in DOMAIN plist[p].base /\ plist[p].base[q] = plist'[p].base[q]
            \/ /\ p = n /\ q = b
               /\ elist[plist'[p].base[q]].state = "free"
               /\ elist'[plist'[p].base[q]].state = "live"

\* An E-list is allocated from free memory, and freed by the thread that has
\* it in hand and goes on to publish.
StateStep(t) ==
    \A e \in EAddr :
        \/ elist'[e].state = elist[e].state
        \/ elist[e].state = "free" /\ elist'[e].state = "live"
        \/ /\ elist'[e].state = "freed"
           /\ crit[t].base = e /\ pc'[t] = "publish" /\ At(t)' = At(t)

\* The P-lists are allocated, and never freed.
LiveStep == \A p \in PAddr : plist'[p].size # 0 => plist'[p].live

-----------------------------------------------------------------------------
(* Lemmas about the state *)

\* The bucket a thread is at, as a bucket of its P-list's bases and locks.
LEMMA AtBucket ==
  ASSUME IndInv, NEW t \in Threads
  PROVE  /\ At(t) = <<walk[t].curr, bucket(t)>>
         /\ walk[t].curr \in PAddr
         /\ bucket(t) \in DOMAIN plist[walk[t].curr].base
         /\ bucket(t) \in DOMAIN plist[walk[t].curr].lock
BY BucketInList DEF IndInv, PListOf, At

\* The locks and the bases of a P-list are as many.
LEMMA SameDomain ==
  ASSUME TypeOK, NEW p \in PAddr
  PROVE  DOMAIN plist[p].base = DOMAIN plist[p].lock
BY DEF TypeOK, PListOf

\* What a thread has in hand, its bucket leads to.
LEMMA HandLeads ==
  ASSUME NEW t \in Threads, NEW e, walk[t].snap = e \/ crit[t].base = e
  PROVE  LeadsTo(walk[t].curr, bucket(t), e)
BY DEF LeadsTo, At

-----------------------------------------------------------------------------
(* OwnInv *)

\* A bucket that leads to an E-list after a step did so before, or the E-list
\* is new.  c and b are where t stands after the step.
LEMMA LeadsBefore ==
  ASSUME IndInv, NEW t \in Threads, Others(t),
         NEW c \in PAddr, NEW b \in DOMAIN plist[c].base, At(t)' = <<c, b>>,
         walk'[t].snap \in EAddr => LeadsTo(c, b, walk'[t].snap),
         crit'[t].base \in EAddr => LeadsTo(c, b, crit'[t].base),
         NEW n, NEW m, NewBase(n, m),
         NEW e \in EAddr, NEW p \in PAddr, NEW q \in DOMAIN plist'[p].base, LeadsTo(p, q, e)'
  PROVE  \/ q \in DOMAIN plist[p].base /\ LeadsTo(p, q, e)
         \/ p = n /\ q = m /\ elist[e].state = "free" /\ elist'[e].state = "live"
<1>1. CASE plist'[p].base[q] = e
  BY <1>1 DEF NewBase, LeadsTo
<1>2. ASSUME NEW u \in Threads, At(u)' = <<p, q>>, walk'[u].snap = e \/ crit'[u].base = e
      PROVE  q \in DOMAIN plist[p].base /\ LeadsTo(p, q, e)
  <2>1. CASE u = t
    <3>1. p = c /\ q = b
      BY <1>2, <2>1
    <3> QED BY <1>2, <2>1, <3>1
  <2>2. CASE u # t
    <3>1. At(u)' = At(u) /\ walk'[u] = walk[u] /\ crit'[u] = crit[u]
      BY <2>2 DEF Others, At, bucket
    <3>2. walk[u].curr = p /\ bucket(u) = q
      BY <1>2, <3>1 DEF At
    <3>3. LeadsTo(p, q, e)
      BY <1>2, <3>1, <3>2, HandLeads
    <3> QED BY <3>2, <3>3, AtBucket
  <2> QED BY <2>1, <2>2
<1> QED BY <1>1, <1>2 DEF LeadsTo

\* A closed bucket stays closed.
LEMMA ClosedStays ==
  ASSUME IndInv, NEW t \in Threads, Others(t), KeepsPermanentUnlocks,
         pc[t] \in {"publish", "punlock"} => At(t)' = At(t) /\ Closed(walk[t].curr, bucket(t))',
         NEW p \in PAddr, NEW q \in DOMAIN plist[p].base, Closed(p, q)
  PROVE  Closed(p, q)'
<1>1. q \in DOMAIN plist[p].lock
  BY SameDomain DEF IndInv
<1>2. CASE plist[p].lock[q] = P_UNLOCKED
  BY <1>1, <1>2 DEF KeepsPermanentUnlocks, Closed
<1>3. ASSUME NEW u \in Threads, pc[u] \in {"publish", "punlock"}, At(u) = <<p, q>>
      PROVE  Closed(p, q)'
  <2>1. CASE u = t
    <3>1. walk'[t].curr = p /\ bucket(t)' = q
      BY <1>3, <2>1 DEF At
    <3> QED BY <1>3, <2>1, <3>1
  <2>2. CASE u # t
    BY <1>3, <2>2 DEF Others, At, bucket, Closed
  <2> QED BY <2>1, <2>2
<1> QED BY <1>2, <1>3 DEF Closed

\* A step preserves OwnInv when what t holds after it its bucket led to
\* before, and the one new base pointer leads to a new E-list.
LEMMA OwnStep ==
  ASSUME IndInv, OwnInv, NEW t \in Threads, Others(t), KeepsPermanentUnlocks,
         NEW c \in PAddr, NEW b \in DOMAIN plist[c].base, At(t)' = <<c, b>>,
         walk'[t].snap \in EAddr => LeadsTo(c, b, walk'[t].snap),
         crit'[t].base \in EAddr => LeadsTo(c, b, crit'[t].base),
         NEW n, NEW m, NewBase(n, m), StateStep(t), LiveStep, HandInv(t)',
         pc[t] \in {"publish", "punlock"} => At(t)' = At(t) /\ Closed(walk[t].curr, bucket(t))'
  PROVE  OwnInv'
<1>1. \A u \in Threads : HandInv(u)'
  <2> SUFFICES ASSUME NEW u \in Threads, u # t PROVE HandInv(u)'
    OBVIOUS
  <2>1. HandInv(u)
    BY DEF OwnInv
  <2> QED BY <2>1 DEF Others, HandInv
<1>2. ASSUME NEW e \in EAddr, NEW p \in PAddr, NEW q \in DOMAIN plist'[p].base, LeadsTo(p, q, e)'
      PROVE  \/ q \in DOMAIN plist[p].base /\ LeadsTo(p, q, e)
             \/ p = n /\ q = m /\ elist[e].state = "free" /\ elist'[e].state = "live"
  BY ONLY <1>2, IndInv, t \in Threads, Others(t), c \in PAddr, b \in DOMAIN plist[c].base,
          At(t)' = <<c, b>>, walk'[t].snap \in EAddr => LeadsTo(c, b, walk'[t].snap),
          crit'[t].base \in EAddr => LeadsTo(c, b, crit'[t].base), NewBase(n, m), LeadsBefore
<1>3. ASSUME NEW e \in EAddr, NEW p \in PAddr, NEW q \in DOMAIN plist[p].base, LeadsTo(p, q, e)
      PROVE  /\ elist[e].state # "free"
             /\ elist[e].state = "freed" => Closed(p, q)
             /\ \A r \in PAddr : \A s \in DOMAIN plist[r].base :
                   LeadsTo(r, s, e) => p = r /\ q = s
  BY <1>3 DEF OwnInv
<1>4. ASSUME NEW e \in EAddr, NEW p \in PAddr, NEW q \in DOMAIN plist'[p].base, LeadsTo(p, q, e)'
      PROVE  /\ elist'[e].state # "free"
             /\ elist'[e].state = "freed" => Closed(p, q)'
             /\ \A r \in PAddr : \A s \in DOMAIN plist'[r].base :
                   LeadsTo(r, s, e)' => p = r /\ q = s
  <2>1. CASE elist[e].state = "free"
    <3>1. p = n /\ q = m /\ elist'[e].state = "live"
      BY <1>2, <1>3, <1>4, <2>1
    <3>2. \A r \in PAddr : \A s \in DOMAIN plist'[r].base : LeadsTo(r, s, e)' => r = n /\ s = m
      BY <1>2, <1>3, <2>1
    <3> QED BY <3>1, <3>2
  <2>2. CASE elist[e].state # "free"
    <3>1. q \in DOMAIN plist[p].base /\ LeadsTo(p, q, e)
      BY <1>2, <1>4, <2>2
    <3>2. \A r \in PAddr : \A s \in DOMAIN plist'[r].base : LeadsTo(r, s, e)' => p = r /\ q = s
      BY <1>2, <1>3, <2>2, <3>1
    <3>3. CASE elist'[e].state = elist[e].state
      <4>1. elist[e].state = "freed" => Closed(p, q)'
        BY ONLY <1>3, <3>1, IndInv, t \in Threads, Others(t), KeepsPermanentUnlocks, e \in EAddr, p \in PAddr,
                pc[t] \in {"publish", "punlock"} => At(t)' = At(t) /\ Closed(walk[t].curr, bucket(t))',
                ClosedStays
      <4> QED BY <2>2, <3>2, <3>3, <4>1
    <3>4. CASE elist'[e].state = "freed" /\ crit[t].base = e /\ pc'[t] = "publish" /\ At(t)' = At(t)
      <4>1. LeadsTo(walk[t].curr, bucket(t), e)
        BY <3>4, HandLeads
      <4>2. walk[t].curr = p /\ bucket(t) = q
        BY <1>3, <3>1, <4>1, AtBucket
      <4>3. At(t)' = <<p, q>>
        BY <3>4, <4>2 DEF At
      <4>4. Closed(p, q)'
        BY <3>4, <4>3 DEF Closed
      <4>5. elist'[e].state # "free"
        BY <3>4
      <4> QED BY <3>2, <4>4, <4>5
    <3> QED BY <2>2, <3>3, <3>4 DEF StateStep
  <2> QED BY <2>1, <2>2
<1> QED BY <1>1, <1>4 DEF OwnInv, LiveStep

-----------------------------------------------------------------------------
(* The actions, one by one *)

\* A thread writes its own locals only.
LEMMA StepOthers ==
  ASSUME IndInv, NEW t \in Threads, Step(t)
  PROVE  Others(t)
<1> USE DEF IndInv, TypeOK, Others, Goto
<1>1. CASE Traverse(t)
  BY <1>1 DEF Traverse, acquire_E, acquire_P, refetch, descend, read_elist
<1>2. CASE miss(t) \/ contains_hit(t) \/ insert_exists(t) \/ remove_hit(t) \/ insert_append(t) \/ insert_empty(t)
  BY <1>2 DEF miss, contains_hit, insert_exists, remove_hit, insert_append, insert_empty, Decide
<1>3. CASE rehash(t)
  BY <1>3 DEF rehash, rehash_alloc, rehash_move, rehash_free
<1>4. CASE publish(t) \/ unlock_P(t) \/ unlock_E(t)
  BY <1>4 DEF publish, unlock_P, unlock_E
<1> QED BY <1>1, <1>2, <1>3, <1>4 DEF Step, contains, insert, remove

\* The same for the call of an operation.
LEMMA InvokeOthers ==
  ASSUME IndInv, NEW t \in Threads, NEW c, Invoke(t, c)
  PROVE  Others(t)
BY DEF IndInv, TypeOK, Others, Goto, Invoke

\* A step after which t stands where it stood and holds nothing else.
LEMMA OwnStay ==
  ASSUME IndInv, OwnInv, NEW t \in Threads, Step(t), At(t)' = At(t),
         walk'[t].snap \in EAddr => walk'[t].snap = walk[t].snap,
         crit'[t].base \in EAddr => crit'[t].base = crit[t].base,
         NEW n, NEW m, NewBase(n, m), StateStep(t), LiveStep, HandInv(t)',
         pc[t] \in {"publish", "punlock"} => Closed(walk[t].curr, bucket(t))'
  PROVE  OwnInv'
<1> DEFINE c == walk[t].curr
           b == bucket(t)
<1>1. c \in PAddr /\ b \in DOMAIN plist[c].base /\ At(t)' = <<c, b>>
  BY AtBucket
<1>2. walk'[t].snap \in EAddr => LeadsTo(c, b, walk'[t].snap)
  BY HandLeads
<1>3. crit'[t].base \in EAddr => LeadsTo(c, b, crit'[t].base)
  BY HandLeads
<1>4. Others(t) /\ KeepsPermanentUnlocks
  BY StepOthers, StepPermanent
<1>5. pc[t] \in {"publish", "punlock"} => At(t)' = At(t) /\ Closed(walk[t].curr, bucket(t))'
  OBVIOUS
<1> HIDE DEF c, b
<1> QED BY ONLY <1>1, <1>2, <1>3, <1>4, <1>5, IndInv, OwnInv, t \in Threads, NewBase(n, m), StateStep(t),
                LiveStep, HandInv(t)', OwnStep

\* Steps that change no base pointer and no E-list's state.
LEMMA KeepBases ==
  ASSUME OwnInv, NEW t,
         \A p \in PAddr : /\ plist'[p].base = plist[p].base /\ plist'[p].size = plist[p].size
                          /\ plist'[p].live = plist[p].live,
         \A e \in EAddr : elist'[e].state = elist[e].state
  PROVE  NewBase(0, 0) /\ StateStep(t) /\ LiveStep
<1>1. NewBase(0, 0)
  BY DEF NewBase
<1>2. StateStep(t)
  BY DEF StateStep
<1>3. LiveStep
  BY DEF LiveStep, OwnInv
<1> QED BY <1>1, <1>2, <1>3

\* A write of a lock word, in a P-list that is not freed by it.
LEMMA LockWriteLive ==
  ASSUME IndInv, OwnInv, NEW t \in Threads, acquire_E(t) \/ unlock_E(t) \/ unlock_P(t)
  PROVE  \A p \in PAddr : /\ plist'[p].base = plist[p].base /\ plist'[p].size = plist[p].size
                          /\ plist'[p].live = plist[p].live
<1> DEFINE c == walk[t].curr
           b == bucket(t)
<1>1. c \in PAddr /\ TypeOK /\ HandInv(t)
  BY AtBucket DEF IndInv, OwnInv
<1>2. ~FreesCurr(t)
  BY <1>1 DEF HandInv, FreesCurr
<1>3. \/ \E l : plist' = [plist EXCEPT ![c].lock[b] = l]
      \/ plist' = [plist EXCEPT ![c].lock[b] = E_UNLOCKED, ![c].live = @ /\ ~FreesCurr(t)]
  BY DEF acquire_E, unlock_E, unlock_P
<1>4. plist[c] \in PListOf(plist[c].size)
  BY <1>1 DEF TypeOK
<1> HIDE DEF c, b
<1>5. ASSUME NEW p \in PAddr, p # c PROVE plist'[p] = plist[p]
  BY <1>1, <1>3, <1>5 DEF TypeOK
<1>6. /\ plist'[c].base = plist[c].base /\ plist'[c].size = plist[c].size
      /\ plist'[c].live = plist[c].live
  <2>1. ASSUME NEW l, plist' = [plist EXCEPT ![c].lock[b] = l]
        PROVE  plist'[c] = [plist[c] EXCEPT !.lock[b] = l]
    BY <1>1, <2>1 DEF TypeOK
  <2>2. CASE \E l : plist' = [plist EXCEPT ![c].lock[b] = l]
    BY <1>4, <2>1, <2>2 DEF PListOf
  <2>3. CASE plist' = [plist EXCEPT ![c].lock[b] = E_UNLOCKED, ![c].live = @ /\ ~FreesCurr(t)]
    <3>1. plist'[c] = [plist[c] EXCEPT !.lock[b] = E_UNLOCKED, !.live = @ /\ ~FreesCurr(t)]
      BY <1>1, <2>3 DEF TypeOK
    <3> QED BY <1>2, <1>4, <3>1 DEF PListOf
  <2> QED BY <1>3, <2>2, <2>3
<1> QED BY <1>5, <1>6

\* acquire and the reread of the P-list give t no E-list.
LEMMA AcquireOwn ==
  ASSUME IndInv, OwnInv, NEW t \in Threads, Step(t), acquire_E(t) \/ acquire_P(t) \/ refetch(t)
  PROVE  OwnInv'
<1>1. /\ \A p \in PAddr : /\ plist'[p].base = plist[p].base /\ plist'[p].size = plist[p].size
                          /\ plist'[p].live = plist[p].live
      /\ elist' = elist /\ walk' = walk /\ call' = call /\ crit'[t].base = crit[t].base
      /\ pc[t] \in {"acquire", "refetch"} /\ pc'[t] \in PCs
  <2>1. CASE acquire_E(t)
    BY <2>1, LockWriteLive DEF acquire_E, Goto, PCs, IndInv, TypeOK
  <2>2. CASE acquire_P(t)
    BY <2>2 DEF acquire_P, Goto, PCs, IndInv, TypeOK
  <2>3. CASE refetch(t)
    BY <2>3 DEF refetch, Goto, PCs, IndInv, TypeOK
  <2> QED BY <2>1, <2>2, <2>3
<1>2. NewBase(0, 0) /\ StateStep(t) /\ LiveStep
  BY <1>1, KeepBases
<1>3. HandInv(t) /\ crit[t].base = Null
  BY <1>1 DEF OwnInv, HandInv, InCrit
<1>4. HandInv(t)'
  BY <1>1, <1>3 DEF HandInv
<1>5. At(t)' = At(t)
  BY <1>1 DEF At, bucket
<1> QED BY <1>1, <1>2, <1>4, <1>5, OwnStay

\* Steps under the lock that keep what t has in hand and free nothing.
LEMMA DecideOwn ==
  ASSUME IndInv, OwnInv, NEW t \in Threads, Step(t),
         \/ miss(t) \/ contains_hit(t) \/ insert_exists(t) \/ remove_hit(t) \/ insert_append(t)
  PROVE  OwnInv'
<1>1. /\ plist' = plist /\ walk' = walk /\ call' = call /\ crit' = crit
      /\ pc[t] = "work" /\ pc'[t] = "unlock"
      /\ elist' = elist \/ \E s : elist' = [elist EXCEPT ![crit[t].base].pairs = s]
  BY DEF miss, contains_hit, insert_exists, remove_hit, insert_append, Decide, Goto, IndInv, TypeOK
<1>2. \A e \in EAddr : elist'[e].state = elist[e].state
  <2>1. ASSUME NEW s, elist' = [elist EXCEPT ![crit[t].base].pairs = s], NEW e \in EAddr
        PROVE  elist'[e].state = elist[e].state
    <3>1. elist'[e] = elist[e] \/ elist'[e] = [elist[e] EXCEPT !.pairs = s]
      BY <2>1 DEF IndInv, TypeOK
    <3>2. elist[e] \in [id : Nat, state : {"free", "live", "freed"}, pairs : Seq(Pair)]
      BY DEF IndInv, TypeOK
    <3> QED BY <3>1, <3>2
  <2> QED BY <1>1, <2>1
<1>3. NewBase(0, 0) /\ StateStep(t) /\ LiveStep
  BY <1>1, <1>2, KeepBases
<1>4. HandInv(t)'
  BY <1>1 DEF OwnInv, HandInv, InCrit
<1>5. At(t)' = At(t)
  BY <1>1 DEF At, bucket
<1> QED BY <1>1, <1>3, <1>4, <1>5, OwnStay

\* rehash frees the E-list in hand, and its bucket is closed from then on.
LEMMA RehashFreeOwn ==
  ASSUME IndInv, OwnInv, NEW t \in Threads, Step(t), rehash_free(t)
  PROVE  OwnInv'
<1>1. /\ plist' = plist /\ walk' = walk /\ call' = call /\ crit' = crit
      /\ pc[t] = "rehash" /\ pc'[t] = "publish"
      /\ elist' = elist \/ elist' = [elist EXCEPT ![crit[t].base].state = "freed"]
  BY DEF rehash_free, Goto, IndInv, TypeOK
<1>2. At(t)' = At(t)
  BY <1>1 DEF At, bucket
<1>3. StateStep(t)
  BY <1>1, <1>2 DEF IndInv, TypeOK, StateStep
<1>4. NewBase(0, 0)
  BY <1>1 DEF NewBase
<1>5. LiveStep
  BY <1>1 DEF LiveStep, OwnInv
<1>6. HandInv(t)'
  BY <1>1 DEF OwnInv, HandInv, InCrit
<1> QED BY <1>1, <1>2, <1>3, <1>4, <1>5, <1>6, OwnStay

\* The permanent unlock closes the bucket for good.
LEMMA UnlockPOwn ==
  ASSUME IndInv, OwnInv, NEW t \in Threads, Step(t), unlock_P(t)
  PROVE  OwnInv'
<1> DEFINE c == walk[t].curr
           b == bucket(t)
<1>1. /\ elist' = elist /\ call' = call /\ crit'[t] = NoCrit
      /\ walk'[t] = [walk[t] EXCEPT !.old = FALSE] /\ pc'[t] = "acquire"
  BY DEF unlock_P, Goto, IndInv, TypeOK
<1>2. /\ walk'[t].curr = c /\ walk'[t].depth = walk[t].depth /\ walk'[t].count = walk[t].count
      /\ walk'[t].snap = walk[t].snap /\ walk'[t].old = FALSE
  BY <1>1 DEF IndInv, TypeOK
<1>3. bucket(t)' = b /\ At(t)' = At(t)
  BY <1>1, <1>2 DEF At, bucket
<1>4. \A p \in PAddr : /\ plist'[p].base = plist[p].base /\ plist'[p].size = plist[p].size
                       /\ plist'[p].live = plist[p].live
  BY LockWriteLive
<1>5. NewBase(0, 0) /\ StateStep(t) /\ LiveStep
  BY <1>1, <1>4, KeepBases
<1>6. HandInv(t)'
  BY <1>1, <1>2 DEF HandInv, NoCrit
<1>7. plist'[c].lock[b] = P_UNLOCKED
  BY OwnFrames DEF LockFrame
<1>8. Closed(walk[t].curr, bucket(t))'
  BY <1>2, <1>3, <1>7 DEF Closed
<1>9. crit'[t].base \notin EAddr
  BY <1>1, ConstAssumption DEF NoCrit
<1> QED BY <1>2, <1>3, <1>5, <1>6, <1>8, <1>9, OwnStay

\* publish takes the E-list out of the bucket t holds.
LEMMA PublishOwn ==
  ASSUME IndInv, OwnInv, NEW t \in Threads, Step(t), publish(t)
  PROVE  OwnInv'
<1> DEFINE c == walk[t].curr
           b == bucket(t)
           v == crit[t].next
<1>1. /\ elist' = elist /\ call' = call /\ crit' = crit
      /\ walk'[t] = [walk[t] EXCEPT !.snap = v] /\ pc[t] = "publish" /\ pc'[t] = "punlock"
      /\ plist' = [plist EXCEPT ![c].base[b] = v]
  BY DEF publish, Goto, change_bucket_pointer, IndInv, TypeOK
<1>2. /\ walk'[t].curr = c /\ walk'[t].depth = walk[t].depth /\ walk'[t].count = walk[t].count
      /\ walk'[t].snap = v /\ walk'[t].old = walk[t].old /\ walk'[t].copy = walk[t].copy
  BY <1>1 DEF IndInv, TypeOK
<1>3. bucket(t)' = b /\ At(t)' = At(t)
  BY <1>1, <1>2 DEF At, bucket
<1>4. v \in PAddr /\ v \notin EAddr
  BY <1>1, ConstAssumption DEF IndInv, ThreadInv
<1>5. c \in PAddr /\ plist[c] \in PListOf(plist[c].size)
  BY AtBucket DEF IndInv, TypeOK
<1> HIDE DEF c, b, v
<1>6. /\ \A p \in PAddr : p # c => plist'[p] = plist[p]
      /\ plist'[c] = [plist[c] EXCEPT !.base[b] = v]
  BY <1>1, <1>5 DEF IndInv, TypeOK
<1>7. /\ plist'[c].live = plist[c].live /\ plist'[c].size = plist[c].size
      /\ plist'[c].base = [plist[c].base EXCEPT ![b] = v]
  BY <1>5, <1>6 DEF PListOf
<1>8. NewBase(0, 0)
  <2> SUFFICES ASSUME NEW p \in PAddr, NEW q \in DOMAIN plist'[p].base, plist'[p].base[q] \in EAddr
               PROVE  q \in DOMAIN plist[p].base /\ plist[p].base[q] = plist'[p].base[q]
    BY DEF NewBase
  <2> QED BY <1>4, <1>6, <1>7
<1>9. StateStep(t) /\ LiveStep
  BY <1>1, <1>6, <1>7 DEF StateStep, LiveStep, OwnInv
<1>10. HandInv(t)'
  BY <1>1, <1>2 DEF OwnInv, HandInv, InCrit
<1>11. Closed(walk[t].curr, bucket(t))'
  BY <1>1, <1>2, <1>3 DEF Closed, At
<1> QED BY <1>1, <1>2, <1>3, <1>4, <1>8, <1>9, <1>10, <1>11, OwnStay

\* A new E-list in the bucket t holds: nothing led to it before.
LEMMA InsertEmptyOwn ==
  ASSUME IndInv, OwnInv, NEW t \in Threads, Step(t), insert_empty(t)
  PROVE  OwnInv'
<1> DEFINE c == walk[t].curr
           b == bucket(t)
           e == FreshE
<1>1. e \in EAddr /\ elist[e].state = "free"
  BY DEF insert_empty, HasFreeE, FreshE
<1>2. /\ elist' = [elist EXCEPT ![e] = NewEList(Home[t], <<NewPair(t)>>)]
      /\ plist' = [plist EXCEPT ![c].base[b] = e]
      /\ walk' = walk /\ call' = call /\ crit' = crit /\ pc[t] = "work" /\ pc'[t] = "unlock"
  BY DEF insert_empty, Decide, Goto, change_bucket_pointer, IndInv, TypeOK
<1>3. c \in PAddr /\ plist[c] \in PListOf(plist[c].size)
  BY AtBucket DEF IndInv, TypeOK
<1>4. At(t)' = At(t)
  BY <1>2 DEF At, bucket
<1> HIDE DEF c, b, e
<1>5. /\ elist'[e].state = "live"
      /\ \A x \in EAddr : x # e => elist'[x] = elist[x]
  BY <1>1, <1>2 DEF IndInv, TypeOK, NewEList
<1>6. /\ \A p \in PAddr : p # c => plist'[p] = plist[p]
      /\ plist'[c] = [plist[c] EXCEPT !.base[b] = e]
  BY <1>2, <1>3 DEF IndInv, TypeOK
<1>7. /\ plist'[c].live = plist[c].live /\ plist'[c].size = plist[c].size
      /\ plist'[c].base = [plist[c].base EXCEPT ![b] = e]
  BY <1>3, <1>6 DEF PListOf
<1>8. NewBase(c, b)
  <2> SUFFICES ASSUME NEW p \in PAddr, NEW q \in DOMAIN plist'[p].base, plist'[p].base[q] \in EAddr
               PROVE  \/ q \in DOMAIN plist[p].base /\ plist[p].base[q] = plist'[p].base[q]
                      \/ p = c /\ q = b /\ plist'[p].base[q] = e
    BY <1>1, <1>5 DEF NewBase
  <2> QED BY <1>6, <1>7
<1>9. StateStep(t) /\ LiveStep
  BY <1>1, <1>5, <1>6, <1>7 DEF StateStep, LiveStep, OwnInv
<1>10. HandInv(t)'
  BY <1>2 DEF OwnInv, HandInv, InCrit
<1> QED BY <1>2, <1>4, <1>8, <1>9, <1>10, OwnStay

\* A new P-list has empty buckets, and takes an address of size 0.
LEMMA RehashAllocOwn ==
  ASSUME IndInv, OwnInv, NEW t \in Threads, Step(t), rehash_alloc(t)
  PROVE  OwnInv'
<1> DEFINE n == FreshP
           new == InitPList(Home[t], walk[t].count * 2)
<1>1. n \in PAddr
  BY DEF rehash_alloc, HasFreeP, FreshP
<1>2. /\ plist' = [plist EXCEPT ![n] = new]
      /\ elist' = elist /\ walk' = walk /\ call' = call /\ crit'[t].base = crit[t].base
      /\ pc[t] = "work" /\ pc'[t] = "rehash"
  BY DEF rehash_alloc, Goto, IndInv, TypeOK
<1>3. new.live /\ \A q \in DOMAIN new.base : new.base[q] = Null
  BY DEF InitPList
<1>4. At(t)' = At(t)
  BY <1>2 DEF At, bucket
<1> HIDE DEF n, new
<1>5. plist'[n] = new /\ \A p \in PAddr : p # n => plist'[p] = plist[p]
  BY <1>1, <1>2 DEF IndInv, TypeOK
<1>6. NewBase(0, 0)
  <2> SUFFICES ASSUME NEW p \in PAddr, NEW q \in DOMAIN plist'[p].base, plist'[p].base[q] \in EAddr
               PROVE  q \in DOMAIN plist[p].base /\ plist[p].base[q] = plist'[p].base[q]
    BY DEF NewBase
  <2> QED BY <1>3, <1>5, ConstAssumption
<1>7. StateStep(t) /\ LiveStep
  BY <1>2, <1>3, <1>5 DEF StateStep, LiveStep, OwnInv
<1>8. HandInv(t)'
  BY <1>2 DEF OwnInv, HandInv, InCrit
<1> QED BY <1>2, <1>4, <1>6, <1>7, <1>8, OwnStay

\* rehash puts a pair into a new E-list, which it links to an empty bucket of
\* the new P-list, or into one it has made before.
LEMMA RehashMoveOwn ==
  ASSUME IndInv, OwnInv, NEW t \in Threads, Step(t), rehash_move(t)
  PROVE  OwnInv'
<1> DEFINE pair == crit[t].pairs[crit[t].i]
           n == crit[t].next
           b == level_hash(pair.key, walk[t].depth + 1, walk[t].count * 2)
           e == FreshE
           dest == plist[n].base[b]
<1>1. /\ walk' = walk /\ call' = call /\ crit'[t].base = crit[t].base
      /\ pc[t] = "rehash" /\ pc'[t] = "rehash"
  <2>1. /\ crit' = [crit EXCEPT ![t].i = @ + 1] /\ walk' = walk /\ call' = call
        /\ pc[t] = "rehash" /\ pc' = pc
    BY DEF rehash_move
  <2>2. crit \in [Threads -> [base : Ptr, pairs : Seq(Pair), next : PAddr \cup {Null}, i : Nat \ {0}]]
    BY DEF IndInv, TypeOK
  <2>3. crit'[t].base = crit[t].base
    BY <2>1, <2>2
  <2> QED BY <2>1, <2>3
<1>2. \/ /\ e \in EAddr /\ elist[e].state = "free"
         /\ elist' = [elist EXCEPT ![e] = NewEList(Home[t], <<pair>>)]
         /\ plist' = [plist EXCEPT ![n].base[b] = e]
      \/ /\ elist' = [elist EXCEPT ![dest].pairs = Append(@, pair)]
         /\ plist' = plist
  BY DEF rehash_move, HasFreeE, FreshE
<1>3. n \in PAddr /\ plist[n] \in PListOf(plist[n].size)
  BY <1>1 DEF IndInv, TypeOK, ThreadInv
<1>4. At(t)' = At(t)
  BY <1>1 DEF At, bucket
<1>5. HandInv(t)'
  BY <1>1 DEF OwnInv, HandInv, InCrit
<1> HIDE DEF n, b, e, pair
<1>6. CASE /\ e \in EAddr /\ elist[e].state = "free"
           /\ elist' = [elist EXCEPT ![e] = NewEList(Home[t], <<pair>>)]
           /\ plist' = [plist EXCEPT ![n].base[b] = e]
  <2>1. /\ elist'[e].state = "live"
        /\ \A x \in EAddr : x # e => elist'[x] = elist[x]
    BY <1>6 DEF IndInv, TypeOK, NewEList
  <2>2. /\ \A p \in PAddr : p # n => plist'[p] = plist[p]
        /\ plist'[n] = [plist[n] EXCEPT !.base[b] = e]
    BY <1>3, <1>6 DEF IndInv, TypeOK
  <2>3. /\ plist'[n].live = plist[n].live /\ plist'[n].size = plist[n].size
        /\ plist'[n].base = [plist[n].base EXCEPT ![b] = e]
    BY <1>3, <2>2 DEF PListOf
  <2>4. NewBase(n, b)
    <3> SUFFICES ASSUME NEW p \in PAddr, NEW q \in DOMAIN plist'[p].base, plist'[p].base[q] \in EAddr
                 PROVE  \/ q \in DOMAIN plist[p].base /\ plist[p].base[q] = plist'[p].base[q]
                        \/ p = n /\ q = b /\ plist'[p].base[q] = e
      BY <1>6, <2>1 DEF NewBase
    <3> QED BY <2>2, <2>3
  <2>5. StateStep(t) /\ LiveStep
    BY <1>6, <2>1, <2>2, <2>3 DEF StateStep, LiveStep, OwnInv
  <2> QED BY <1>1, <1>4, <1>5, <2>4, <2>5, OwnStay
<1>7. CASE elist' = [elist EXCEPT ![dest].pairs = Append(@, pair)] /\ plist' = plist
  <2> HIDE DEF dest
  <2>1. ASSUME NEW x \in EAddr PROVE elist'[x].state = elist[x].state
    <3> DEFINE s == Append(elist[dest].pairs, pair)
    <3>1. elist'[x] = elist[x] \/ elist'[x] = [elist[x] EXCEPT !.pairs = s]
      BY <1>7 DEF IndInv, TypeOK
    <3>2. elist[x] \in [id : Nat, state : {"free", "live", "freed"}, pairs : Seq(Pair)]
      BY DEF IndInv, TypeOK
    <3> HIDE DEF s
    <3> QED BY <3>1, <3>2
  <2>2. NewBase(0, 0) /\ StateStep(t) /\ LiveStep
    BY <1>7, <2>1, KeepBases
  <2> QED BY <1>1, <1>4, <1>5, <2>2, OwnStay
<1> QED BY <1>2, <1>6, <1>7

\* The base pointer read under the lock is one the bucket leads to.
LEMMA ReadElistOwn ==
  ASSUME IndInv, OwnInv, NEW t \in Threads, Step(t), read_elist(t)
  PROVE  OwnInv'
<1> DEFINE c == walk[t].curr
           b == bucket(t)
           e == curr_base(t)
<1>1. /\ plist' = plist /\ elist' = elist /\ walk' = walk /\ call' = call
      /\ crit'[t].base = e /\ pc[t] = "locked" /\ pc'[t] = "work"
  BY DEF read_elist, Goto, IndInv, TypeOK
<1>2. c \in PAddr /\ b \in DOMAIN plist[c].base /\ At(t) = <<c, b>>
  BY AtBucket
<1>3. At(t)' = <<c, b>>
  BY <1>1, <1>2 DEF At, bucket
<1>4. LeadsTo(c, b, e)
  BY <1>2 DEF LeadsTo, curr_base
<1>5. walk'[t].snap \in EAddr => LeadsTo(c, b, walk'[t].snap)
  BY <1>1, HandLeads
<1>6. crit'[t].base \in EAddr => LeadsTo(c, b, crit'[t].base)
  BY <1>1, <1>4
<1>7. NewBase(0, 0) /\ StateStep(t) /\ LiveStep
  BY <1>1, KeepBases
<1>8. HandInv(t)'
  BY <1>1 DEF OwnInv, HandInv, InCrit
<1>9. Others(t) /\ KeepsPermanentUnlocks /\ pc[t] \notin {"publish", "punlock"}
  BY <1>1, StepOthers, StepPermanent
<1> HIDE DEF c, b, e
<1> QED BY ONLY <1>2, <1>3, <1>5, <1>6, <1>7, <1>8, <1>9, IndInv, OwnInv, t \in Threads, OwnStep

\* A walk copies the base of the bucket it goes to.
LEMMA DescendOwn ==
  ASSUME IndInv, OwnInv, NEW t \in Threads, Step(t), descend(t)
  PROVE  OwnInv'
<1> DEFINE p == crit[t].next
           count == walk[t].count * 2
           depth == walk[t].depth + 1
           b == level_hash(call[t].key, depth, count)
           frees == FreesCurr(t)
<1>1. walk'[t] = [curr |-> p, depth |-> depth, count |-> count,
                  copy |-> ~IsLocalP(t, p), old |-> ~IsLocalP(t, p),
                  snap |-> IF IsLocalP(t, p) THEN Null ELSE plist[p].base[b]]
  BY DEF descend, IndInv, TypeOK
<1>2. /\ plist' = [plist EXCEPT ![walk[t].curr].live = @ /\ ~frees]
      /\ crit'[t] = NoCrit /\ pc[t] = "descend" /\ pc'[t] = "acquire"
      /\ elist' = elist /\ call' = call
  BY DEF descend, Goto, IndInv, TypeOK
<1>3. ~frees
  BY DEF OwnInv, HandInv, FreesCurr
<1> HIDE DEF count, depth, frees
<1>4. \A q \in PAddr : /\ plist'[q].base = plist[q].base /\ plist'[q].size = plist[q].size
                       /\ plist'[q].live = plist[q].live
  <2>1. ASSUME NEW q \in PAddr
        PROVE  plist'[q] = plist[q] \/ plist'[q] = [plist[q] EXCEPT !.live = @ /\ ~frees]
    BY <1>2 DEF IndInv, TypeOK
  <2>2. ASSUME NEW q \in PAddr PROVE plist[q] \in PListOf(plist[q].size)
    BY DEF IndInv, TypeOK
  <2> QED BY <1>3, <2>1, <2>2 DEF PListOf
<1>5. bucket(t)' = b /\ At(t)' = <<p, b>>
  BY <1>1, <1>2 DEF bucket, At
<1>6. p \in PAddr /\ b \in DOMAIN plist[p].base
  <2>1. /\ ThreadInv(t) /\ TypeOK /\ call[t].key \in Nat
        /\ walk[t].count \in Nat /\ walk[t].depth \in Nat
    BY DEF IndInv, TypeOK
  <2>2. count \in Nat /\ count >= 2 /\ depth \in Nat
    BY <2>1 DEF ThreadInv, count, depth
  <2>3. p \in PAddr /\ plist[p].size = count
    BY <1>2, <2>1 DEF ThreadInv, count
  <2>4. plist[p] \in PListOf(count)
    BY <2>1, <2>3 DEF TypeOK
  <2>5. b \in 0..(count - 2)
    BY <2>1, <2>2, LevelHashRange
  <2> HIDE DEF b
  <2> QED BY <2>2, <2>3, <2>4, <2>5 DEF PListOf
<1> HIDE DEF p, b
<1>7. walk'[t].snap \in EAddr => LeadsTo(p, b, walk'[t].snap)
  BY <1>1, ConstAssumption DEF LeadsTo
<1>8. crit'[t].base \notin EAddr
  BY <1>2, ConstAssumption DEF NoCrit
<1>9. NewBase(0, 0) /\ StateStep(t) /\ LiveStep
  BY <1>2, <1>4, KeepBases
<1>10. HandInv(t)'
  BY <1>1, <1>2 DEF HandInv, NoCrit
<1>11. Others(t) /\ KeepsPermanentUnlocks /\ pc[t] \notin {"publish", "punlock"}
  BY <1>2, StepOthers, StepPermanent
<1> QED BY ONLY <1>5, <1>6, <1>7, <1>8, <1>9, <1>10, <1>11, IndInv, OwnInv, t \in Threads, OwnStep

\* The root's bucket, which an operation starts at or a thread rests at.
LEMMA RootBucket ==
  ASSUME IndInv, NEW k \in Nat
  PROVE  /\ Root \in PAddr
         /\ level_hash(k, 1, PLIST_SIZE) \in DOMAIN plist[Root].base
<1>1. level_hash(k, 1, PLIST_SIZE) \in 0..(PLIST_SIZE - 2) /\ PLIST_SIZE \in Nat
  BY ConstAssumption, LevelHashRange
<1>2. plist[Root] \in PListOf(PLIST_SIZE)
  BY ConstAssumption DEF IndInv, TypeOK, SubPLists
<1> QED BY <1>1, <1>2, ConstAssumption DEF PListOf

\* unlock leaves t with nothing in hand.
LEMMA UnlockEOwn ==
  ASSUME IndInv, OwnInv, NEW t \in Threads, Step(t), unlock_E(t)
  PROVE  OwnInv'
<1> DEFINE b == level_hash(call[t].key, 1, PLIST_SIZE)
<1>1. /\ elist' = elist /\ call' = call /\ walk'[t] = NoWalk /\ crit'[t] = NoCrit
      /\ pc[t] = "unlock" /\ pc'[t] = "idle"
  BY DEF unlock_E, Goto, IndInv, TypeOK
<1>2. At(t)' = <<Root, b>>
  BY <1>1 DEF At, bucket, NoWalk
<1>3. Root \in PAddr /\ b \in DOMAIN plist[Root].base
  BY RootBucket DEF IndInv, TypeOK
<1>4. \A p \in PAddr : /\ plist'[p].base = plist[p].base /\ plist'[p].size = plist[p].size
                       /\ plist'[p].live = plist[p].live
  BY LockWriteLive
<1>5. NewBase(0, 0) /\ StateStep(t) /\ LiveStep
  BY <1>1, <1>4, KeepBases
<1>6. HandInv(t)'
  BY <1>1 DEF HandInv, NoCrit, NoWalk
<1>7. walk'[t].snap \notin EAddr /\ crit'[t].base \notin EAddr
  BY <1>1, ConstAssumption DEF NoCrit, NoWalk
<1>8. Others(t) /\ KeepsPermanentUnlocks /\ pc[t] \notin {"publish", "punlock"}
  BY <1>1, StepOthers, StepPermanent
<1> HIDE DEF b
<1> QED BY ONLY <1>2, <1>3, <1>5, <1>6, <1>7, <1>8, IndInv, OwnInv, t \in Threads, OwnStep

\* A call copies the base of its bucket of the root.
LEMMA InvokeOwn ==
  ASSUME IndInv, OwnInv, NEW t \in Threads, NEW c \in Calls(t), Invoke(t, c)
  PROVE  OwnInv'
<1> DEFINE b == level_hash(c.key, 1, PLIST_SIZE)
<1>1. /\ plist' = plist /\ elist' = elist /\ crit' = crit /\ call'[t] = c
      /\ walk'[t] = Start(c.key) /\ pc[t] = "idle" /\ pc'[t] = "acquire"
  BY DEF Invoke, Goto, IndInv, TypeOK
<1>2. At(t)' = <<Root, b>>
  BY <1>1 DEF At, bucket, Start
<1>3. Root \in PAddr /\ b \in DOMAIN plist[Root].base
  <2>1. c.key \in Keys
    BY DEF Calls
  <2>2. c.key \in Nat
    <3>1. \A k \in Keys : k \in Nat
      BY ConstAssumption
    <3> QED BY <2>1, <3>1
  <2> QED BY <2>2, RootBucket
<1>4. NewBase(0, 0) /\ StateStep(t) /\ LiveStep
  BY <1>1, KeepBases
<1>5. crit[t].base = Null
  BY <1>1 DEF OwnInv, HandInv, InCrit
<1>6. HandInv(t)'
  BY <1>1, <1>5 DEF HandInv, Start
<1>7. walk'[t].snap \in EAddr => LeadsTo(Root, b, walk'[t].snap)
  BY <1>1 DEF Start, LeadsTo
<1>8. crit'[t].base \notin EAddr
  BY <1>1, <1>5, ConstAssumption
<1>9. Others(t) /\ KeepsPermanentUnlocks /\ pc[t] \notin {"publish", "punlock"}
  BY <1>1, InvokeOthers DEF KeepsPermanentUnlocks
<1> HIDE DEF b
<1> QED BY ONLY <1>2, <1>3, <1>4, <1>6, <1>7, <1>8, <1>9, IndInv, OwnInv, t \in Threads, OwnStep

\* At the start nothing leads anywhere.
LEMMA InitOwn == Init => OwnInv
<1> SUFFICES ASSUME Init PROVE OwnInv
  OBVIOUS
<1>1. \A p \in PAddr :
        /\ p = Root => plist[p] = InitPList(HostPool, PLIST_SIZE)
        /\ p # Root => plist[p] = [InitPList(HostPool, 0) EXCEPT !.live = FALSE]
  BY DEF Init
<1>2. ASSUME NEW n PROVE /\ InitPList(HostPool, n).live
                         /\ \A b \in DOMAIN InitPList(HostPool, n).base : InitPList(HostPool, n).base[b] = Null
  BY DEF InitPList
<1>3. \A p \in PAddr : /\ plist[p].size # 0 => plist[p].live
                       /\ \A b \in DOMAIN plist[p].base : plist[p].base[b] = Null
  <2> DEFINE z == InitPList(HostPool, 0)
  <2>1. \A b \in DOMAIN z.base : z.base[b] = Null
    BY <1>2
  <2>2. [z EXCEPT !.live = FALSE].base = z.base /\ [z EXCEPT !.live = FALSE].size = 0
    BY DEF InitPList
  <2>3. ASSUME NEW p \in PAddr, p # Root PROVE plist[p] = [z EXCEPT !.live = FALSE]
    BY <1>1, <2>3
  <2> HIDE DEF z
  <2>4. ASSUME NEW p \in PAddr, p # Root
        PROVE  plist[p].size = 0 /\ \A b \in DOMAIN plist[p].base : plist[p].base[b] = Null
    BY <2>1, <2>2, <2>3, <2>4
  <2>5. ASSUME NEW p \in PAddr, p = Root
        PROVE  plist[p].live /\ \A b \in DOMAIN plist[p].base : plist[p].base[b] = Null
    BY <1>1, <1>2, <2>5
  <2> QED BY <2>4, <2>5
<1>4. \A t \in Threads : walk[t] = NoWalk /\ crit[t] = NoCrit
  BY DEF Init
<1>5. \A t \in Threads : HandInv(t)
  <2>1. NoWalk.copy = TRUE /\ NoCrit.base = Null
    BY DEF NoWalk, NoCrit
  <2> QED BY <1>4, <2>1 DEF HandInv
<1>6. \A e \in EAddr, p \in PAddr : \A b \in DOMAIN plist[p].base : ~LeadsTo(p, b, e)
  BY <1>3, <1>4, ConstAssumption DEF LeadsTo, NoWalk, NoCrit
<1> QED BY <1>3, <1>5, <1>6 DEF OwnInv

\* Every step preserves OwnInv.
LEMMA NextOwn == IndInv /\ OwnInv /\ [Next]_vars => OwnInv'
<1> SUFFICES ASSUME IndInv, OwnInv, [Next]_vars PROVE OwnInv'
  OBVIOUS
<1>1. CASE UNCHANGED vars
  BY <1>1 DEF vars, OwnInv, HandInv, LeadsTo, Closed, At, bucket
<1>2. ASSUME NEW t \in Threads, NEW c \in Calls(t), Invoke(t, c) PROVE OwnInv'
  BY <1>2, InvokeOwn
<1>3. ASSUME NEW t \in Threads, Step(t) PROVE OwnInv'
  <2>1. CASE Traverse(t)
    BY <1>3, <2>1, AcquireOwn, DescendOwn, ReadElistOwn DEF Traverse
  <2>2. CASE miss(t) \/ contains_hit(t) \/ insert_exists(t) \/ remove_hit(t) \/ insert_append(t)
    BY <1>3, <2>2, DecideOwn
  <2>3. CASE insert_empty(t)
    BY <1>3, <2>3, InsertEmptyOwn
  <2>4. CASE rehash(t)
    BY <1>3, <2>4, RehashAllocOwn, RehashMoveOwn, RehashFreeOwn DEF rehash
  <2>5. CASE publish(t) \/ unlock_P(t) \/ unlock_E(t)
    BY <1>3, <2>5, PublishOwn, UnlockPOwn, UnlockEOwn
  <2> QED BY <1>3, <2>1, <2>2, <2>3, <2>4, <2>5 DEF Step, contains, insert, remove
<1>4. CASE Finished
  BY <1>1, <1>4 DEF Finished
<1> QED BY <1>1, <1>2, <1>3, <1>4 DEF Next

\* In every reachable state one bucket at most leads to an E-list, stale
\* copies included, and a freed E-list hangs off closed buckets only.
THEOREM OwnInvariant == Spec => []OwnInv
BY InitOwn, NextOwn, Inductive, PTL DEF Spec

\* No thread works on an E-list that was freed, no unlocked bucket leads to
\* one, and the P-list a thread stands on is never freed.
THEOREM NoUseAfterFreeHolds == Spec => []NoUseAfterFree
<1>1. IndInv /\ OwnInv => NoUseAfterFree
  <2> SUFFICES ASSUME IndInv, OwnInv PROVE NoUseAfterFree
    OBVIOUS
  <2>1. ASSUME NEW t \in Threads PROVE plist[walk[t].curr].live
    <3>1. plist[walk[t].curr].size >= 2 /\ walk[t].curr \in PAddr
      BY DEF IndInv, TypeOK, ThreadInv
    <3>2. plist[walk[t].curr].size # 0
      BY <3>1
    <3> QED BY <3>1, <3>2 DEF OwnInv
  <2>2. ASSUME NEW p \in PAddr, NEW b \in DOMAIN plist[p].base, NEW e \in EAddr, LeadsTo(p, b, e),
               ~Closed(p, b)
        PROVE  elist[e].state = "live"
    <3>1. elist[e].state \in {"free", "live", "freed"}
      BY DEF IndInv, TypeOK
    <3> QED BY <2>2, <3>1 DEF OwnInv
  <2>3. ASSUME NEW t \in Threads, pc[t] \in {"work", "rehash"}, crit[t].base # Null
        PROVE  elist[crit[t].base].state = "live"
    <3> DEFINE c == walk[t].curr
               b == bucket(t)
    <3>1. c \in PAddr /\ b \in DOMAIN plist[c].base /\ b \in DOMAIN plist[c].lock /\ At(t) = <<c, b>>
      BY AtBucket
    <3>2. crit[t].base \in EAddr /\ LeadsTo(c, b, crit[t].base)
      BY <2>3, HandLeads, EPairsType DEF IndInv
    <3>3. ~Closed(c, b)
      <4>1. plist[c].lock[b] = E_LOCKED
        BY <2>3, <3>1 DEF IndInv, MutualExclusion, InCrit
      <4>2. ASSUME NEW u \in Threads, pc[u] \in {"publish", "punlock"}, At(u) = <<c, b>> PROVE FALSE
        BY <2>3, <3>1, <4>2 DEF IndInv, MutualExclusion, InCrit
      <4> QED BY <4>1, <4>2 DEF Closed, E_LOCKED, P_UNLOCKED
    <3> QED BY <2>2, <3>1, <3>2, <3>3
  <2>4. ASSUME NEW p \in PAddr, NEW b \in DOMAIN plist[p].base,
               plist[p].base[b] \in EAddr, plist[p].lock[b] = E_UNLOCKED
        PROVE  elist[plist[p].base[b]].state = "live"
    <3>1. b \in DOMAIN plist[p].lock
      BY SameDomain DEF IndInv
    <3>2. ~Closed(p, b)
      BY <2>4, <3>1 DEF Closed, IndInv, MutualExclusion, InCrit, E_LOCKED, E_UNLOCKED, P_UNLOCKED
    <3> QED BY <2>2, <2>4, <3>2 DEF LeadsTo
  <2> QED BY <2>1, <2>3, <2>4 DEF NoUseAfterFree
<1> QED BY <1>1, Inductive, OwnInvariant, PTL

-----------------------------------------------------------------------------
(* BufInv *)

\* An E-list that is in use stays in its pool.
IdStep == \A e \in EAddr : elist[e].state # "free" => elist'[e].id = elist[e].id

\* A thread has no free memory in hand.
LEMMA HandInUse ==
  ASSUME IndInv, OwnInv, NEW t \in Threads, crit[t].base # Null
  PROVE  crit[t].base \in EAddr /\ elist[crit[t].base].state # "free"
<1>1. crit[t].base \in EAddr
  BY EPairsType DEF IndInv
<1>2. LeadsTo(walk[t].curr, bucket(t), crit[t].base)
  BY HandLeads
<1> QED BY <1>1, <1>2, AtBucket DEF OwnInv

\* Writing the pairs or the state of an E-list does not move it.
LEMMA WriteKeepsId ==
  ASSUME IndInv, NEW x, NEW s, elist' = [elist EXCEPT ![x].pairs = s] \/ elist' = [elist EXCEPT ![x].state = s]
  PROVE  IdStep
<1> SUFFICES ASSUME NEW e \in EAddr PROVE elist'[e].id = elist[e].id
  BY DEF IdStep
<1>1. \/ elist'[e] = elist[e] \/ elist'[e] = [elist[e] EXCEPT !.pairs = s]
      \/ elist'[e] = [elist[e] EXCEPT !.state = s]
  BY DEF IndInv, TypeOK
<1>2. elist[e] \in [id : Nat, state : {"free", "live", "freed"}, pairs : Seq(Pair)]
  BY DEF IndInv, TypeOK
<1> QED BY <1>1, <1>2

\* An allocation takes free memory.
LEMMA AllocKeepsId ==
  ASSUME IndInv, HasFreeE, NEW x, elist' = [elist EXCEPT ![FreshE] = x]
  PROVE  IdStep
<1>1. FreshE \in EAddr /\ elist[FreshE].state = "free"
  BY DEF HasFreeE, FreshE
<1> QED BY <1>1 DEF IdStep, IndInv, TypeOK

\* No step moves an E-list that is in use to another pool.
LEMMA StepKeepsId ==
  ASSUME IndInv, NEW t \in Threads, Step(t)
  PROVE  IdStep
<1>1. CASE elist' = elist
  BY <1>1 DEF IdStep
<1>2. CASE remove_hit(t) \/ insert_append(t)
  BY <1>2, WriteKeepsId DEF remove_hit, insert_append
<1>3. CASE insert_empty(t)
  BY <1>3, AllocKeepsId DEF insert_empty
<1>4. CASE rehash_move(t)
  <2> DEFINE pair == crit[t].pairs[crit[t].i]
             dest == plist[crit[t].next].base[level_hash(pair.key, walk[t].depth + 1, walk[t].count * 2)]
  <2>1. \/ HasFreeE /\ elist' = [elist EXCEPT ![FreshE] = NewEList(Home[t], <<pair>>)]
        \/ elist' = [elist EXCEPT ![dest].pairs = Append(elist[dest].pairs, pair)]
    BY <1>4 DEF rehash_move
  <2> HIDE DEF pair, dest
  <2> QED BY <2>1, WriteKeepsId, AllocKeepsId
<1>5. CASE rehash_free(t)
  BY <1>1, <1>5, WriteKeepsId DEF rehash_free
<1> QED BY <1>1, <1>2, <1>3, <1>4, <1>5
        DEF Step, contains, insert, remove, Traverse, rehash, acquire_E, acquire_P, refetch, descend,
            read_elist, miss, contains_hit, insert_exists, rehash_alloc, publish, unlock_P, unlock_E, Decide

\* A remote E-list in hand stays remote.
LEMMA EBufsKept ==
  ASSUME IndInv, OwnInv, IdStep, NEW t \in Threads, crit'[t].base = crit[t].base
  PROVE  EBufs(t)' = EBufs(t)
<1>1. CASE crit[t].base = Null
  BY <1>1 DEF EBufs, IsRemoteE
<1>2. CASE crit[t].base # Null
  <2>1. elist'[crit[t].base].id = elist[crit[t].base].id
    BY <1>2, HandInUse DEF IdStep
  <2> QED BY <2>1 DEF EBufs, IsRemoteE
<1> QED BY <1>1, <1>2

\* The counts of buffers are numbers; a thread owes none for an E-list unless
\* it has one in hand.
LEMMA OwesType ==
  ASSUME IndInv, NEW t \in Threads
  PROVE  /\ CurrBufs(t) \in 0..1 /\ EBufs(t) \in 0..1 /\ Owes(t) \in 0..4 /\ bufs[t] \in Int
         /\ crit[t].base = Null => EBufs(t) = 0
<1>1. CurrBufs(t) \in 0..1 /\ EBufs(t) \in 0..1
  BY DEF CurrBufs, EBufs
<1>2. bufs[t] \in Int
  BY DEF IndInv, TypeOK
<1> QED BY <1>1, <1>2 DEF Owes, EBufs, IsRemoteE

\* A step that changes the buffers of t by as much as what t owes.
LEMMA BufStep ==
  ASSUME IndInv, OwnInv, BufInv, NEW t \in Threads, Step(t), NEW d \in Int,
         bufs'[t] = bufs[t] + d, call'[t] = call[t], Owes(t)' \in Int,
         Owes(t)' <= Owes(t) + d,
         call[t].op # "insert" => Owes(t)' = Owes(t) + d
  PROVE  BufInv'
<1>1. ASSUME NEW u \in Threads, u # t
      PROVE  bufs'[u] >= Owes(u)' /\ (call'[u].op # "insert" => bufs'[u] = Owes(u)')
  <2>1. /\ pc'[u] = pc[u] /\ call'[u] = call[u] /\ walk'[u] = walk[u]
        /\ crit'[u] = crit[u] /\ bufs'[u] = bufs[u]
    BY <1>1, StepOthers DEF Others
  <2>2. EBufs(u)' = EBufs(u)
    BY <2>1, StepKeepsId, EBufsKept
  <2>3. CurrBufs(u)' = CurrBufs(u)
    BY <2>1 DEF CurrBufs
  <2>4. Owes(u)' = Owes(u)
    BY <2>1, <2>2, <2>3 DEF Owes
  <2> QED BY <2>1, <2>4 DEF BufInv
<1>2. bufs[t] >= Owes(t) /\ (call[t].op # "insert" => bufs[t] = Owes(t)) /\ bufs[t] \in Int /\ Owes(t) \in Int
  BY OwesType DEF BufInv
<1>3. bufs'[t] >= Owes(t)' /\ (call'[t].op # "insert" => bufs'[t] = Owes(t)')
  BY <1>2
<1> QED BY <1>1, <1>3 DEF BufInv

\* Steps that read and give back nothing, and keep what t has in hand.
LEMMA IdleBuf ==
  ASSUME IndInv, OwnInv, BufInv, NEW t \in Threads, Step(t),
         bufs'[t] = bufs[t], call'[t] = call[t], crit'[t].base = crit[t].base,
         walk'[t].old = walk[t].old, walk'[t].copy = walk[t].copy,
         \/ pc'[t] = pc[t]
         \/ {pc[t], pc'[t]} \cap {"idle", "descend", "rehash"} = {}
  PROVE  BufInv'
<1>1. EBufs(t)' = EBufs(t)
  BY StepKeepsId, EBufsKept
<1>2. CurrBufs(t)' = CurrBufs(t)
  BY DEF CurrBufs
<1>3. Owes(t)' = Owes(t)
  BY <1>1, <1>2 DEF Owes
<1>4. Owes(t) \in Int /\ bufs[t] \in Int
  BY OwesType
<1>5. bufs'[t] = bufs[t] + 0 /\ Owes(t)' = Owes(t) + 0 /\ Owes(t)' \in Int /\ Owes(t)' <= Owes(t) + 0
  BY <1>3, <1>4
<1> QED BY <1>5, BufStep

\* The steps of IdleBuf.
LEMMA IdleStepsBuf ==
  ASSUME IndInv, OwnInv, BufInv, NEW t \in Threads, Step(t),
         \/ acquire_E(t) \/ acquire_P(t) \/ miss(t) \/ contains_hit(t) \/ insert_exists(t)
         \/ remove_hit(t) \/ insert_append(t) \/ insert_empty(t) \/ rehash_move(t) \/ publish(t)
  PROVE  BufInv'
<1>1. CASE acquire_E(t) \/ acquire_P(t)
  <2>1. /\ bufs' = bufs /\ call' = call /\ crit' = crit /\ walk' = walk
        /\ pc[t] = "acquire" /\ pc'[t] \in {"locked", "refetch"}
    BY <1>1 DEF acquire_E, acquire_P, Goto, IndInv, TypeOK
  <2>2. {pc[t], pc'[t]} \cap {"idle", "descend", "rehash"} = {}
    BY <2>1
  <2> QED BY <2>1, <2>2, IdleBuf
<1>2. CASE \/ miss(t) \/ contains_hit(t) \/ insert_exists(t) \/ remove_hit(t) \/ insert_append(t)
           \/ insert_empty(t)
  <2>1. /\ bufs' = bufs /\ call' = call /\ crit' = crit /\ walk' = walk
        /\ pc[t] = "work" /\ pc'[t] = "unlock"
    BY <1>2 DEF miss, contains_hit, insert_exists, remove_hit, insert_append, insert_empty,
                Decide, Goto, IndInv, TypeOK
  <2>2. {pc[t], pc'[t]} \cap {"idle", "descend", "rehash"} = {}
    BY <2>1
  <2> QED BY <2>1, <2>2, IdleBuf
<1>3. CASE rehash_move(t)
  <2>1. /\ crit' = [crit EXCEPT ![t].i = @ + 1] /\ walk' = walk /\ call' = call
        /\ bufs' = bufs /\ pc' = pc
    BY <1>3 DEF rehash_move
  <2>2. crit \in [Threads -> [base : Ptr, pairs : Seq(Pair), next : PAddr \cup {Null}, i : Nat \ {0}]]
    BY DEF IndInv, TypeOK
  <2>3. crit'[t].base = crit[t].base
    BY <2>1, <2>2
  <2> QED BY <2>1, <2>3, IdleBuf
<1>4. CASE publish(t)
  <2>1. /\ bufs' = bufs /\ call' = call /\ crit' = crit
        /\ walk' = [walk EXCEPT ![t].snap = crit[t].next]
        /\ pc[t] = "publish" /\ pc'[t] = "punlock"
    BY <1>4 DEF publish, Goto, IndInv, TypeOK
  <2>2. walk'[t].old = walk[t].old /\ walk'[t].copy = walk[t].copy
    BY <2>1 DEF IndInv, TypeOK
  <2>3. {pc[t], pc'[t]} \cap {"idle", "descend", "rehash"} = {}
    BY <2>1
  <2> QED BY <2>1, <2>2, <2>3, IdleBuf
<1> QED BY <1>1, <1>2, <1>3, <1>4

\* The buffer of the reread is owed until the descent.
LEMMA RefetchBuf ==
  ASSUME IndInv, OwnInv, BufInv, NEW t \in Threads, Step(t), refetch(t)
  PROVE  BufInv'
<1>1. /\ bufs'[t] = bufs[t] + 1 /\ call' = call /\ walk' = walk /\ crit'[t].base = crit[t].base
      /\ pc[t] = "refetch" /\ pc'[t] = "descend"
  BY DEF refetch, Goto, IndInv, TypeOK
<1>2. EBufs(t)' = EBufs(t) /\ CurrBufs(t)' = CurrBufs(t)
  BY <1>1, StepKeepsId, EBufsKept DEF CurrBufs
<1>3. CurrBufs(t) \in Int /\ EBufs(t) \in Int
  BY OwesType
<1>4. Owes(t) = CurrBufs(t) + EBufs(t) /\ Owes(t)' = CurrBufs(t) + 1 + EBufs(t)
  BY <1>1, <1>2, <1>3 DEF Owes
<1>5. Owes(t)' = Owes(t) + 1 /\ Owes(t)' \in Int /\ Owes(t)' <= Owes(t) + 1
  BY <1>3, <1>4
<1> QED BY <1>1, <1>5, BufStep

\* The descent gives back both buffers and may read a new one.
LEMMA DescendBuf ==
  ASSUME IndInv, OwnInv, BufInv, NEW t \in Threads, Step(t), descend(t)
  PROVE  BufInv'
<1> DEFINE x == IF IsLocalP(t, crit[t].next) THEN 0 ELSE 1
           d == x - 1 - CurrBufs(t)
<1>1. /\ bufs'[t] = (bufs[t] - 1 - CurrBufs(t)) + x /\ call' = call /\ crit'[t] = NoCrit
      /\ walk'[t].old = ~IsLocalP(t, crit[t].next) /\ walk'[t].copy = ~IsLocalP(t, crit[t].next)
      /\ pc[t] = "descend" /\ pc'[t] = "acquire"
  BY DEF descend, Goto, IndInv, TypeOK
<1>2. CurrBufs(t)' = x /\ EBufs(t)' = 0
  <2>1. EBufs(t)' = 0
    BY <1>1 DEF EBufs, IsRemoteE, NoCrit
  <2>2. CASE IsLocalP(t, crit[t].next) = TRUE
    <3>1. walk'[t].old = FALSE
      BY <1>1, <2>2
    <3> QED BY <2>1, <2>2, <3>1 DEF CurrBufs
  <2>3. CASE IsLocalP(t, crit[t].next) = FALSE
    <3>1. walk'[t].old = TRUE /\ walk'[t].copy = TRUE
      BY <1>1, <2>3
    <3> QED BY <2>1, <2>3, <3>1 DEF CurrBufs
  <2> QED BY <2>2, <2>3 DEF IsLocalP
<1>3. EBufs(t) = 0 /\ CurrBufs(t) \in Int /\ bufs[t] \in Int
  <2>1. crit[t].base = Null
    BY <1>1 DEF OwnInv, HandInv, InCrit
  <2> QED BY <2>1, OwesType
<1>4. x \in Int
  OBVIOUS
<1> HIDE DEF x
<1>5. Owes(t) = CurrBufs(t) + 1
  BY <1>1, <1>3 DEF Owes
<1>6. Owes(t)' = x
  BY <1>1, <1>2, <1>4 DEF Owes
<1>7. /\ d \in Int /\ bufs'[t] = bufs[t] + d
      /\ Owes(t)' = Owes(t) + d /\ Owes(t)' \in Int /\ Owes(t)' <= Owes(t) + d
  BY <1>1, <1>3, <1>4, <1>5, <1>6
<1> HIDE DEF d
<1> QED BY <1>1, <1>7, BufStep

\* A remote E-list is read into a buffer.
LEMMA ReadElistBuf ==
  ASSUME IndInv, OwnInv, BufInv, NEW t \in Threads, Step(t), read_elist(t)
  PROVE  BufInv'
<1> DEFINE d == IF IsRemoteE(t, curr_base(t)) THEN 1 ELSE 0
<1>1. /\ bufs'[t] = bufs[t] + d /\ call' = call /\ walk' = walk /\ elist' = elist
      /\ crit'[t].base = curr_base(t) /\ pc[t] = "locked" /\ pc'[t] = "work"
  BY DEF read_elist, Goto, IndInv, TypeOK
<1>2. EBufs(t)' = d /\ CurrBufs(t)' = CurrBufs(t)
  BY <1>1 DEF CurrBufs, EBufs, IsRemoteE
<1>3. EBufs(t) = 0 /\ CurrBufs(t) \in Int /\ bufs[t] \in Int
  <2>1. crit[t].base = Null
    BY <1>1 DEF OwnInv, HandInv, InCrit
  <2> QED BY <2>1, OwesType
<1>4. d \in Int
  OBVIOUS
<1> HIDE DEF d
<1>5. Owes(t) = CurrBufs(t) /\ Owes(t)' = CurrBufs(t) + d
  BY <1>1, <1>2, <1>3, <1>4 DEF Owes
<1>6. Owes(t)' = Owes(t) + d /\ Owes(t)' \in Int /\ Owes(t)' <= Owes(t) + d
  BY <1>3, <1>4, <1>5
<1> QED BY <1>1, <1>4, <1>6, BufStep

\* rehash reads the E-list again and gives that buffer back at its end.
LEMMA RehashBuf ==
  ASSUME IndInv, OwnInv, BufInv, NEW t \in Threads, Step(t), rehash_alloc(t) \/ rehash_free(t)
  PROVE  BufInv'
<1> DEFINE d == IF pc[t] = "work" THEN EBufs(t) ELSE 0 - EBufs(t)
<1>1. /\ call' = call /\ walk' = walk /\ crit'[t].base = crit[t].base
      /\ \/ pc[t] = "work" /\ pc'[t] = "rehash" /\ bufs'[t] = bufs[t] + EBufs(t)
         \/ pc[t] = "rehash" /\ pc'[t] = "publish" /\ bufs'[t] = bufs[t] - EBufs(t)
  BY DEF rehash_alloc, rehash_free, Goto, IndInv, TypeOK
<1>2. EBufs(t)' = EBufs(t) /\ CurrBufs(t)' = CurrBufs(t)
  BY <1>1, StepKeepsId, EBufsKept DEF CurrBufs
<1>3. CurrBufs(t) \in Int /\ EBufs(t) \in Int /\ bufs[t] \in Int
  BY OwesType
<1>4. d \in Int /\ bufs'[t] = bufs[t] + d
  BY <1>1, <1>3
<1>5. Owes(t) \in Int /\ Owes(t)' = Owes(t) + d
  BY <1>1, <1>2, <1>3 DEF Owes
<1> HIDE DEF d
<1>6. Owes(t)' \in Int /\ Owes(t)' <= Owes(t) + d
  BY <1>4, <1>5
<1> QED BY <1>1, <1>4, <1>5, <1>6, BufStep

\* After the permanent unlock the copy of the P-list is no longer owed: the
\* insert has forgotten it.
LEMMA UnlockPBuf ==
  ASSUME IndInv, OwnInv, BufInv, NEW t \in Threads, Step(t), unlock_P(t), call[t].op = "insert"
  PROVE  BufInv'
<1> DEFINE d == 0 - EBufs(t)
<1>1. /\ bufs'[t] = bufs[t] - EBufs(t) /\ call' = call /\ crit'[t] = NoCrit
      /\ walk'[t].old = FALSE /\ pc[t] = "punlock" /\ pc'[t] = "acquire"
  BY DEF unlock_P, Goto, IndInv, TypeOK
<1>2. EBufs(t)' = 0 /\ CurrBufs(t)' = 0
  BY <1>1 DEF CurrBufs, EBufs, IsRemoteE, NoCrit
<1>3. CurrBufs(t) \in 0..1 /\ EBufs(t) \in 0..1 /\ bufs[t] \in Int
  BY OwesType
<1>4. Owes(t) = CurrBufs(t) + EBufs(t) /\ Owes(t)' = 0
  BY <1>1, <1>2, <1>3 DEF Owes
<1>5. d \in Int /\ bufs'[t] = bufs[t] + d
  BY <1>1, <1>3
<1>6. Owes(t)' \in Int /\ Owes(t) + d >= 0
  BY <1>3, <1>4
<1>7. Owes(t)' <= Owes(t) + d
  BY <1>4, <1>6
<1> HIDE DEF d
<1> QED BY <1>1, <1>5, <1>6, <1>7, BufStep

\* The end of an operation gives back what is left.
LEMMA UnlockEBuf ==
  ASSUME IndInv, OwnInv, BufInv, NEW t \in Threads, Step(t), unlock_E(t)
  PROVE  BufInv'
<1> DEFINE d == 0 - CurrBufs(t) - EBufs(t)
<1>1. /\ bufs'[t] = bufs[t] - CurrBufs(t) - EBufs(t) /\ call' = call
      /\ pc[t] = "unlock" /\ pc'[t] = "idle"
  BY DEF unlock_E, Goto, IndInv, TypeOK
<1>2. CurrBufs(t) \in Int /\ EBufs(t) \in Int /\ bufs[t] \in Int
  BY OwesType
<1>3. Owes(t) = CurrBufs(t) + EBufs(t) /\ Owes(t)' = 0
  BY <1>1, <1>2 DEF Owes
<1>4. /\ d \in Int /\ bufs'[t] = bufs[t] + d
      /\ Owes(t)' = Owes(t) + d /\ Owes(t)' \in Int /\ Owes(t)' <= Owes(t) + d
  BY <1>1, <1>2, <1>3
<1> HIDE DEF d
<1> QED BY <1>1, <1>4, BufStep

\* A call reads the root into its first buffer.
LEMMA InvokeBuf ==
  ASSUME IndInv, OwnInv, BufInv, NEW t \in Threads, NEW c \in Calls(t), Invoke(t, c)
  PROVE  BufInv'
<1>1. /\ bufs'[t] = 1 /\ walk'[t] = Start(c.key) /\ crit' = crit /\ elist' = elist
      /\ pc[t] = "idle" /\ pc'[t] = "acquire"
  BY DEF Invoke, Goto, IndInv, TypeOK
<1>2. crit[t].base = Null
  BY <1>1 DEF OwnInv, HandInv, InCrit
<1>3. EBufs(t)' = 0 /\ CurrBufs(t)' = 1
  BY <1>1, <1>2 DEF CurrBufs, EBufs, IsRemoteE, Start
<1>4. Owes(t)' = 1
  BY <1>1, <1>3 DEF Owes
<1>5. ASSUME NEW u \in Threads, u # t
      PROVE  bufs'[u] >= Owes(u)' /\ (call'[u].op # "insert" => bufs'[u] = Owes(u)')
  <2>1. /\ pc'[u] = pc[u] /\ call'[u] = call[u] /\ walk'[u] = walk[u]
        /\ crit'[u] = crit[u] /\ bufs'[u] = bufs[u]
    BY <1>5, InvokeOthers DEF Others
  <2>2. EBufs(u)' = EBufs(u) /\ CurrBufs(u)' = CurrBufs(u)
    BY <1>1, <2>1 DEF EBufs, IsRemoteE, CurrBufs
  <2>3. Owes(u)' = Owes(u)
    BY <2>1, <2>2 DEF Owes
  <2> QED BY <2>1, <2>3 DEF BufInv
<1> QED BY <1>1, <1>4, <1>5 DEF BufInv

\* Every step preserves BufInv.
LEMMA NextBuf == IndInv /\ OwnInv /\ BufInv /\ [Next]_vars => BufInv'
<1> SUFFICES ASSUME IndInv, OwnInv, BufInv, [Next]_vars PROVE BufInv'
  OBVIOUS
<1>1. CASE UNCHANGED vars
  BY <1>1 DEF vars, BufInv, Owes, CurrBufs, EBufs, IsRemoteE
<1>2. ASSUME NEW t \in Threads, NEW c \in Calls(t), Invoke(t, c) PROVE BufInv'
  BY <1>2, InvokeBuf
<1>3. ASSUME NEW t \in Threads, Step(t) PROVE BufInv'
  <2>1. CASE Traverse(t)
    BY <1>3, <2>1, IdleStepsBuf, RefetchBuf, DescendBuf, ReadElistBuf DEF Traverse
  <2>2. CASE unlock_E(t)
    BY <1>3, <2>2, UnlockEBuf
  <2>3. CASE \/ miss(t) \/ contains_hit(t) \/ insert_exists(t)
             \/ remove_hit(t) \/ insert_append(t) \/ insert_empty(t) \/ publish(t)
    BY <1>3, <2>3, IdleStepsBuf
  <2>4. CASE rehash(t)
    BY <1>3, <2>4, IdleStepsBuf, RehashBuf DEF rehash
  <2>5. CASE insert(t) /\ unlock_P(t)
    BY <1>3, <2>5, UnlockPBuf DEF insert
  <2> QED BY <1>3, <2>1, <2>2, <2>3, <2>4, <2>5 DEF Step, contains, insert, remove
<1>4. CASE Finished
  BY <1>1, <1>4 DEF Finished
<1> QED BY <1>1, <1>2, <1>3, <1>4 DEF Next

\* In every reachable state an operation holds the buffers it will give back
\* from where it stands, and only an insert may hold more.
THEOREM BufInvariant == Spec => []BufInv
<1>1. Init => BufInv
  <2> SUFFICES ASSUME Init, NEW t \in Threads PROVE bufs[t] >= Owes(t) /\ bufs[t] = Owes(t)
    BY DEF BufInv
  <2>1. pc[t] = "idle" /\ bufs[t] = 0
    BY DEF Init
  <2>2. Owes(t) = 0
    BY <2>1 DEF Owes
  <2> QED BY <2>1, <2>2
<1> QED BY <1>1, NextBuf, Inductive, OwnInvariant, PTL DEF Spec

\* contains and remove return with every buffer given back, and no operation
\* gives back a buffer it has not read into.
THEOREM BuffersReturnedHolds == Spec => []BuffersReturned
<1>1. IndInv /\ BufInv => BuffersReturned
  <2> SUFFICES ASSUME IndInv, BufInv, NEW t \in Threads
               PROVE  bufs[t] >= 0 /\ (pc[t] = "idle" /\ call[t].op # "insert" => bufs[t] = 0)
    BY DEF BuffersReturned
  <2>1. bufs[t] >= Owes(t) /\ (call[t].op # "insert" => bufs[t] = Owes(t))
    BY DEF BufInv
  <2>2. Owes(t) \in 0..4 /\ bufs[t] \in Int
    BY OwesType
  <2>3. pc[t] = "idle" => Owes(t) = 0
    BY DEF Owes
  <2> QED BY <2>1, <2>2, <2>3
<1> QED BY <1>1, Inductive, BufInvariant, PTL

-----------------------------------------------------------------------------
(***************************************************************************)
(* The contents: ContentInv, which says that the E-lists and the copies of *)
(* them in use are sound, is inductive on top of IndInv and OwnInv.        *)
(***************************************************************************)

(* Lemmas about the pairs of an E-list *)

Sound(pairs) == Fits(pairs) /\ Genuine(pairs)

\* The empty list is sound.
LEMMA EmptySound == Sound(<<>>)
BY ConstAssumption DEF Sound, Fits, Genuine

\* A list of one pair is sound.
LEMMA SingleSound ==
  ASSUME NEW p \in Pair, p.val \in Vals[p.key]
  PROVE  Sound(<<p>>)
BY ConstAssumption DEF Sound, Fits, Genuine

\* The edge swap of remove keeps a list sound.
LEMMA EdgeSwapSound ==
  ASSUME NEW s \in Seq(Pair), Sound(s), NEW i \in 1..Len(s)
  PROVE  Sound(EdgeSwap(s, i))
<1> DEFINE n == Len(s)
           r == EdgeSwap(s, i)
<1>1. n \in Nat /\ n >= 1
  OBVIOUS
<1>2. \A j \in 1..n : s[j] \in Pair
  OBVIOUS
<1>3. r \in [1..(n - 1) -> Pair]
  BY <1>1, <1>2 DEF EdgeSwap
<1>4. r \in Seq(Pair) /\ Len(r) = n - 1
  BY <1>1, <1>3
<1>5. \A j \in 1..(n - 1) : r[j] = IF j = i THEN s[n] ELSE s[j]
  BY DEF EdgeSwap
<1> HIDE DEF r
<1>6. Fits(r)
  <2>1. Len(r) <= ELIST_SIZE
    BY <1>1, <1>4, ConstAssumption DEF Sound, Fits
  <2>2. ASSUME NEW j \in 1..Len(r), NEW k \in 1..Len(r), r[j].key = r[k].key PROVE j = k
    <3>1. j \in 1..n /\ k \in 1..n /\ n \in 1..n /\ j # n /\ k # n
      BY <1>1, <1>4
    <3>2. \A x, y \in 1..n : s[x].key = s[y].key => x = y
      BY DEF Sound, Fits
    <3> HIDE DEF n
    <3>3. r[j] = (IF j = i THEN s[n] ELSE s[j]) /\ r[k] = (IF k = i THEN s[n] ELSE s[k])
      BY <1>4, <1>5
    <3> QED BY <2>2, <3>1, <3>2, <3>3
  <2> QED BY <2>1, <2>2 DEF Fits
<1>7. Genuine(r)
  <2> SUFFICES ASSUME NEW j \in 1..Len(r) PROVE r[j].val \in Vals[r[j].key]
    BY DEF Genuine
  <2>1. j \in 1..(n - 1) /\ j \in 1..n /\ n \in 1..n
    BY <1>1, <1>4
  <2>2. PICK x \in 1..n : r[j] = s[x]
    BY <1>5, <2>1
  <2>3. s[x].val \in Vals[s[x].key]
    BY DEF Sound, Genuine
  <2> QED BY <2>2, <2>3
<1> QED BY <1>6, <1>7 DEF Sound, r

\* A pair appended to a list that has room and not its key keeps it sound.
LEMMA AppendSound ==
  ASSUME NEW s \in Seq(Pair), Sound(s), NEW p \in Pair, p.val \in Vals[p.key],
         Len(s) < ELIST_SIZE, \A j \in 1..Len(s) : s[j].key # p.key
  PROVE  Sound(Append(s, p))
<1> DEFINE n == Len(s)
           r == Append(s, p)
<1>1. n \in Nat /\ r \in Seq(Pair) /\ Len(r) = n + 1 /\ r[n + 1] = p
  OBVIOUS
<1>2. \A j \in 1..n : r[j] = s[j]
  OBVIOUS
<1>3. \A j \in 1..(n + 1) : j \in 1..n \/ j = n + 1
  BY <1>1
<1>4. \A j, k \in 1..n : s[j].key = s[k].key => j = k
  BY DEF Sound, Fits
<1>5. \A j \in 1..n : s[j].val \in Vals[s[j].key] /\ s[j].key # p.key
  BY DEF Sound, Genuine
<1>6. n + 1 <= ELIST_SIZE
  BY <1>1, ConstAssumption
<1> HIDE DEF n, r
<1>7. Fits(r)
  BY <1>1, <1>2, <1>3, <1>4, <1>5, <1>6 DEF Fits
<1>8. Genuine(r)
  BY <1>1, <1>2, <1>3, <1>5 DEF Genuine
<1> QED BY <1>7, <1>8 DEF Sound, r

-----------------------------------------------------------------------------
(* PrivateInv *)

\* The base pointers a step of t writes: those of a P-list it allocates, the
\* one of its bucket, or one of the P-list it fills.
BaseStep(t) ==
    \A p \in PAddr :
        \/ plist'[p].base = plist[p].base
        \/ /\ pc[t] = "work" /\ plist[p].size = 0
           /\ \A b \in DOMAIN plist'[p].base : plist'[p].base[b] = Null
        \/ /\ \/ pc[t] \in {"work", "publish"} /\ p = walk[t].curr
              \/ pc[t] = "rehash" /\ p = crit[t].next
           /\ DOMAIN plist'[p].base = DOMAIN plist[p].base
           /\ \A b \in DOMAIN plist[p].base :
                 \/ plist'[p].base[b] = plist[p].base[b]
                 \/ plist'[p].base[b] \in EAddr
                 \/ plist'[p].base[b] = crit[t].next /\ pc[t] = "publish" /\ pc'[t] = "punlock"

\* A step preserves PrivateInv when it links no P-list but the one t
\* publishes, and t goes on to the root or to the P-list a bucket gave it.
LEMMA PrivateKept ==
  ASSUME IndInv, PrivateInv, NEW t \in Threads, Others(t),
         BaseStep(t),
         \/ walk'[t].curr = walk[t].curr
         \/ walk'[t].curr = Root
         \/ walk'[t].curr = crit[t].next /\ pc[t] = "descend" /\ pc'[t] = "acquire",
         pc'[t] \in {"rehash", "publish"} =>
            pc[t] \in {"rehash", "publish"} /\ crit'[t].next = crit[t].next,
         pc'[t] = "descend" =>
            \E p \in PAddr : \E b \in DOMAIN plist[p].base : crit'[t].next = plist[p].base[b]
  PROVE  PrivateInv'
<1> SUFFICES ASSUME NEW u \in Threads, pc'[u] \in {"rehash", "publish"}
             PROVE  /\ crit'[u].next # Root
                    /\ \A p \in PAddr : \A b \in DOMAIN plist'[p].base :
                          plist'[p].base[b] # crit'[u].next
                    /\ \A w \in Threads :
                          /\ walk'[w].curr # crit'[u].next
                          /\ pc'[w] \in {"descend", "rehash", "publish"}
                               /\ crit'[w].next = crit'[u].next => w = u
  BY DEF PrivateInv
<1>1. pc[u] \in {"rehash", "publish"} /\ crit'[u].next = crit[u].next
  BY DEF Others
<1> DEFINE x == crit[u].next
<1>2. /\ x # Root
      /\ \A p \in PAddr : \A b \in DOMAIN plist[p].base : plist[p].base[b] # x
      /\ \A w \in Threads : walk[w].curr # x
      /\ \A w \in Threads : pc[w] \in {"descend", "rehash", "publish"} /\ crit[w].next = x => w = u
  BY <1>1 DEF PrivateInv
<1>3. x \in PAddr
  BY <1>1 DEF IndInv, ThreadInv
<1> HIDE DEF x
<1>4. ASSUME NEW p \in PAddr, NEW b \in DOMAIN plist'[p].base, plist'[p].base[b] = x PROVE FALSE
  <2>1. x = crit[t].next /\ pc[t] = "publish" /\ pc'[t] = "punlock"
    <3>1. b \in DOMAIN plist[p].base => plist[p].base[b] # x
      BY <1>2
    <3>2. x \notin EAddr /\ x # Null
      BY <1>3, ConstAssumption
    <3> QED BY <1>4, <3>1, <3>2 DEF BaseStep
  <2> QED BY <1>2, <2>1
<1>5. ASSUME NEW w \in Threads, walk'[w].curr = x PROVE FALSE
  <2>1. w = t /\ walk'[t].curr = x
    BY <1>2, <1>5 DEF Others
  <2>2. x = crit[t].next /\ pc[t] = "descend" /\ pc'[t] = "acquire"
    BY <1>2, <2>1
  <2> QED BY <1>2, <2>2
<1>6. ASSUME NEW w \in Threads, pc'[w] \in {"descend", "rehash", "publish"}, crit'[w].next = x
      PROVE  w = u
  <2>1. CASE w # t
    <3>1. pc'[w] = pc[w] /\ crit'[w] = crit[w]
      BY <2>1 DEF Others
    <3> QED BY <1>2, <1>6, <3>1
  <2>2. CASE w = t /\ pc'[t] = "descend"
    BY <1>2, <1>6, <2>2
  <2>3. CASE w = t /\ pc'[t] # "descend"
    BY <1>2, <1>6, <2>3
  <2> QED BY <2>1, <2>2, <2>3
<1>7. crit'[u].next = x
  BY <1>1 DEF x
<1> QED BY <1>2, <1>4, <1>5, <1>6, <1>7

\* rehash allocates a P-list that nothing points at.
LEMMA RehashAllocPrivate ==
  ASSUME IndInv, PrivateInv, NEW t \in Threads, Others(t), rehash_alloc(t)
  PROVE  PrivateInv'
<1> DEFINE n == FreshP
           new == InitPList(Home[t], walk[t].count * 2)
<1>1. n \in PAddr /\ plist[n].size = 0
  BY DEF rehash_alloc, HasFreeP, FreshP
<1>2. /\ plist' = [plist EXCEPT ![n] = new] /\ walk' = walk
      /\ pc[t] = "work" /\ pc'[t] = "rehash" /\ crit'[t].next = n
  BY DEF rehash_alloc, Goto, IndInv, TypeOK
<1>3. \A q \in DOMAIN new.base : new.base[q] = Null
  BY DEF InitPList
<1> HIDE DEF n, new
<1>4. plist'[n] = new /\ \A p \in PAddr : p # n => plist'[p] = plist[p]
  BY <1>1, <1>2 DEF IndInv, TypeOK
<1>5. n # Root
  BY <1>1, ConstAssumption DEF IndInv, SubPLists
<1>6. ASSUME NEW p \in PAddr, NEW b \in DOMAIN plist[p].base PROVE plist[p].base[b] # n
  <2>1. b \in DOMAIN plist[p].lock /\ plist[p].size \in Nat /\ plist[p].size > 0
    BY <1>6, SMTT(30) DEF IndInv, TypeOK, PListOf
  <2> QED BY <1>1, <2>1 DEF IndInv, SubPLists
<1>7. ASSUME NEW u \in Threads PROVE walk[u].curr # n
  <2>1. plist[walk[u].curr].size >= 2
    BY DEF IndInv, ThreadInv
  <2> QED BY <1>1, <2>1
<1>8. ASSUME NEW u \in Threads, pc[u] \in {"descend", "rehash", "publish"} PROVE crit[u].next # n
  <2>1. plist[crit[u].next].size = 2 * walk[u].count /\ walk[u].count \in Nat /\ walk[u].count >= 2
    BY <1>8 DEF IndInv, ThreadInv, TypeOK
  <2> QED BY <1>1, <2>1
<1>9. \A u \in Threads : u # t => pc'[u] = pc[u] /\ crit'[u] = crit[u]
  BY DEF Others
<1>10. ASSUME NEW p \in PAddr, NEW b \in DOMAIN plist'[p].base
       PROVE  \/ plist'[p].base[b] = Null
              \/ b \in DOMAIN plist[p].base /\ plist'[p].base[b] = plist[p].base[b]
  BY <1>3, <1>4
<1>11. ASSUME NEW u \in Threads, pc'[u] \in {"rehash", "publish"}
       PROVE  /\ crit'[u].next # Root /\ crit'[u].next # Null
              /\ \A p \in PAddr : \A b \in DOMAIN plist[p].base : plist[p].base[b] # crit'[u].next
              /\ \A w \in Threads :
                    /\ walk[w].curr # crit'[u].next
                    /\ pc'[w] \in {"descend", "rehash", "publish"} /\ crit'[w].next = crit'[u].next => w = u
  <2>1. CASE u = t
    <3>1. n # Null
      BY <1>1, ConstAssumption
    <3>2. \A w \in Threads : pc'[w] \in {"descend", "rehash", "publish"} /\ crit'[w].next = n => w = t
      BY <1>8, <1>9
    <3> QED BY <1>2, <1>5, <1>6, <1>7, <2>1, <3>1, <3>2
  <2>2. CASE u # t
    <3>1. pc[u] \in {"rehash", "publish"} /\ crit'[u].next = crit[u].next
      BY <1>9, <1>11, <2>2
    <3>2. crit[u].next \in PAddr /\ crit[u].next # Null
      BY <3>1, ConstAssumption DEF IndInv, ThreadInv
    <3>3. \A w \in Threads : pc'[w] \in {"descend", "rehash", "publish"} /\ crit'[w].next = crit[u].next => w = u
      <4>1. crit[u].next # n
        BY <1>8, <3>1
      <4> QED BY <1>2, <1>9, <3>1, <4>1 DEF PrivateInv
    <3> QED BY <3>1, <3>2, <3>3 DEF PrivateInv
  <2> QED BY <2>1, <2>2
<1> QED BY <1>2, <1>10, <1>11 DEF PrivateInv

\* rehash puts its next pair into E-list e, to which bucket b of the new
\* P-list leads: a new E-list or one it has made before.
MovesTo(t, b, e) ==
    LET pair == crit[t].pairs[crit[t].i]
        n    == crit[t].next
    IN  /\ b = level_hash(pair.key, walk[t].depth + 1, walk[t].count * 2)
        /\ b \in DOMAIN plist[n].base /\ e \in EAddr
        /\ plist'[n].base = [plist[n].base EXCEPT ![b] = e]
        /\ \A p \in PAddr : p # n => plist'[p] = plist[p]
        /\ \A x \in EAddr : x # e => elist'[x] = elist[x]
        /\ \/ plist[n].base[b] = Null /\ elist[e].state = "free" /\ elist'[e].pairs = <<pair>>
           \/ plist[n].base[b] = e /\ elist'[e].pairs = Append(elist[e].pairs, pair)

\* One turn of rehash's loop moves one pair.
LEMMA RehashMoves ==
  ASSUME IndInv, NEW t \in Threads, CopyInv(t), rehash_move(t)
  PROVE  /\ \E b, e : MovesTo(t, b, e)
         /\ pc[t] = "rehash" /\ pc' = pc /\ call' = call /\ walk' = walk /\ ret' = ret
         /\ crit'[t] = [crit[t] EXCEPT !.i = crit[t].i + 1]
         /\ crit[t].i \in 1..Len(crit[t].pairs)
         /\ crit[t].pairs[crit[t].i] \in Pair
         /\ crit[t].next \in PAddr
<1> DEFINE pair == crit[t].pairs[crit[t].i]
           n    == crit[t].next
           b    == level_hash(pair.key, walk[t].depth + 1, walk[t].count * 2)
           e    == FreshE
           new  == NewEList(Home[t], <<pair>>)
           dest == plist[n].base[b]
<1>1. TypeOK /\ ThreadInv(t)
  BY DEF IndInv
<1>2. /\ pc[t] = "rehash" /\ crit' = [crit EXCEPT ![t].i = @ + 1]
      /\ pc' = pc /\ call' = call /\ walk' = walk /\ ret' = ret
      /\ crit[t].i <= Len(crit[t].pairs)
  BY DEF rehash_move
<1>3. \/ /\ dest = Null /\ e \in EAddr /\ elist[e].state = "free"
         /\ elist' = [elist EXCEPT ![e] = new]
         /\ plist' = [plist EXCEPT ![n].base[b] = e]
      \/ /\ dest # Null
         /\ elist' = [elist EXCEPT ![dest].pairs = Append(@, pair)]
         /\ plist' = plist
  BY DEF rehash_move, HasFreeE, FreshE
<1>4. crit[t].pairs \in Seq(Pair) /\ crit[t].i \in 1..Len(crit[t].pairs)
  BY <1>1, <1>2 DEF TypeOK
<1>5. pair \in Pair /\ pair.key \in Nat
  <2>1. pair \in Pair
    BY <1>4
  <2>2. \A x \in Pair : x.key \in Nat
    <3>1. \A k \in Keys : k \in Nat
      BY ConstAssumption
    <3> QED BY <3>1 DEF Pair
  <2> HIDE DEF pair
  <2> QED BY <2>1, <2>2
<1>6. n \in PAddr /\ b \in DOMAIN plist[n].base
  <2>1. /\ n \in PAddr /\ plist[n].size = walk[t].count * 2
        /\ walk[t].count * 2 \in Nat /\ walk[t].count * 2 >= 2 /\ walk[t].depth + 1 \in Nat
    BY <1>1, <1>2 DEF TypeOK, ThreadInv
  <2> DEFINE k == pair.key
             d == walk[t].depth + 1
             c == walk[t].count * 2
  <2>2. k \in Nat /\ d \in Nat /\ c \in Nat /\ c >= 2 /\ b = level_hash(k, d, c) /\ plist[n].size = c
    BY <1>5, <2>1
  <2> HIDE DEF k, d, c, b, n
  <2>3. b \in 0..(c - 2)
    BY <2>2, LevelHashRange
  <2>4. DOMAIN plist[n].base = 0..(c - 1)
    BY <1>1, <2>1, <2>2 DEF TypeOK, PListOf
  <2> QED BY <2>1, <2>2, <2>3, <2>4
<1>7. crit'[t] = [crit[t] EXCEPT !.i = crit[t].i + 1]
  BY <1>1, <1>2 DEF TypeOK
<1> HIDE DEF b, e
<1>8. CASE /\ dest = Null /\ e \in EAddr /\ elist[e].state = "free"
           /\ elist' = [elist EXCEPT ![e] = new]
           /\ plist' = [plist EXCEPT ![n].base[b] = e]
  <2> HIDE DEF n, pair
  <2>1. elist'[e].pairs = <<pair>> /\ \A x \in EAddr : x # e => elist'[x] = elist[x]
    BY <1>1, <1>8 DEF TypeOK, NewEList
  <2>2. /\ plist'[n] = [plist[n] EXCEPT !.base[b] = e]
        /\ \A p \in PAddr : p # n => plist'[p] = plist[p]
    BY <1>1, <1>6, <1>8 DEF TypeOK
  <2>3. plist'[n].base = [plist[n].base EXCEPT ![b] = e]
    BY <1>1, <1>6, <2>2 DEF TypeOK, PListOf
  <2>4. MovesTo(t, b, e)
    BY <1>6, <1>8, <2>1, <2>2, <2>3 DEF MovesTo, n, pair, b
  <2> QED BY <1>2, <1>4, <1>5, <1>6, <1>7, <2>4 DEF n, pair
<1>9. CASE dest # Null /\ elist' = [elist EXCEPT ![dest].pairs = Append(@, pair)] /\ plist' = plist
  <2>1. dest \in EAddr
    BY <1>2, <1>6, <1>9 DEF CopyInv, Moved
  <2>2. elist[dest] \in [id : Nat, state : {"free", "live", "freed"}, pairs : Seq(Pair)]
    BY <1>1, <2>1 DEF TypeOK
  <2>3. plist[n].base = [plist[n].base EXCEPT ![b] = dest]
    <3>1. plist[n].base = [q \in DOMAIN plist[n].base |-> plist[n].base[q]]
      BY <1>1, <1>6 DEF TypeOK, PListOf
    <3> DEFINE f == plist[n].base
    <3>2. f = [q \in DOMAIN f |-> f[q]] /\ b \in DOMAIN f /\ dest = f[b]
      BY <1>6, <3>1
    <3> HIDE DEF f
    <3>3. f = [f EXCEPT ![b] = f[b]]
      BY <3>2
    <3> QED BY <3>2, <3>3 DEF f
  <2> DEFINE s == Append(elist[dest].pairs, pair)
  <2>4. elist' = [elist EXCEPT ![dest].pairs = s]
    BY <1>9
  <2> HIDE DEF dest, s
  <2>5. elist'[dest].pairs = s /\ \A x \in EAddr : x # dest => elist'[x] = elist[x]
    BY <1>1, <2>1, <2>2, <2>4 DEF TypeOK
  <2>6. MovesTo(t, b, dest)
    BY <1>6, <1>9, <2>1, <2>3, <2>5 DEF MovesTo, s, dest, b
  <2> QED BY <1>2, <1>4, <1>5, <1>6, <1>7, <2>6
<1> QED BY <1>3, <1>8, <1>9

\* The base pointers each step writes.
LEMMA StepBases ==
  ASSUME IndInv, OwnInv, NEW t \in Threads, CopyInv(t), Step(t)
  PROVE  BaseStep(t)
<1>1. CASE plist' = plist
  BY <1>1 DEF BaseStep
<1>2. CASE acquire_E(t) \/ unlock_E(t) \/ unlock_P(t)
  BY <1>2, LockWriteLive DEF BaseStep
<1>3. CASE descend(t)
  <2> DEFINE c == walk[t].curr
             live == plist[c].live /\ ~FreesCurr(t)
  <2>1. plist' = [plist EXCEPT ![c].live = live]
    BY <1>3 DEF descend
  <2> HIDE DEF c, live
  <2>2. ASSUME NEW p \in PAddr PROVE plist'[p].base = plist[p].base
    <3>1. plist'[p] = plist[p] \/ plist'[p] = [plist[p] EXCEPT !.live = live]
      BY <2>1 DEF IndInv, TypeOK
    <3>2. plist[p] \in PListOf(plist[p].size)
      BY DEF IndInv, TypeOK
    <3> QED BY <3>1, <3>2 DEF PListOf
  <2> QED BY <2>2 DEF BaseStep
<1>4. CASE insert_empty(t) \/ publish(t)
  <2> DEFINE c == walk[t].curr
             b == bucket(t)
  <2>1. PICK v : /\ plist' = [plist EXCEPT ![c].base[b] = v]
                 /\ v \in EAddr \/ (v = crit[t].next /\ pc[t] = "publish" /\ pc'[t] = "punlock")
                 /\ pc[t] \in {"work", "publish"}
    BY <1>4, FreshEType DEF insert_empty, publish, change_bucket_pointer, Goto, IndInv, TypeOK
  <2>2. c \in PAddr
    BY DEF IndInv, TypeOK
  <2> HIDE DEF b
  <2>3. /\ \A p \in PAddr : p # c => plist'[p] = plist[p]
        /\ plist'[c] = [plist[c] EXCEPT !.base[b] = v]
    BY <2>1, <2>2 DEF IndInv, TypeOK
  <2>4. plist'[c].base = [plist[c].base EXCEPT ![b] = v]
    BY <2>2, <2>3 DEF IndInv, TypeOK, PListOf
  <2>5. /\ DOMAIN plist'[c].base = DOMAIN plist[c].base
        /\ \A q \in DOMAIN plist[c].base : plist'[c].base[q] = plist[c].base[q] \/ plist'[c].base[q] = v
    BY <2>4
  <2> QED BY <2>1, <2>3, <2>5, ZenonT(60) DEF BaseStep
<1>5. CASE rehash_alloc(t)
  <2> DEFINE n == FreshP
             new == InitPList(Home[t], walk[t].count * 2)
  <2>1. n \in PAddr /\ plist[n].size = 0 /\ plist' = [plist EXCEPT ![n] = new] /\ pc[t] = "work"
    BY <1>5 DEF rehash_alloc, HasFreeP, FreshP
  <2>2. \A q \in DOMAIN new.base : new.base[q] = Null
    BY DEF InitPList
  <2> HIDE DEF n, new
  <2> QED BY <2>1, <2>2 DEF BaseStep, IndInv, TypeOK
<1>6. CASE rehash_move(t)
  <2>1. PICK b, e : MovesTo(t, b, e)
    BY <1>6, RehashMoves
  <2>2. pc[t] = "rehash"
    BY <1>6, RehashMoves
  <2> DEFINE n == crit[t].next
  <2>3. /\ e \in EAddr /\ plist'[n].base = [plist[n].base EXCEPT ![b] = e]
        /\ \A p \in PAddr : p # n => plist'[p] = plist[p]
    BY <2>1 DEF MovesTo
  <2> HIDE DEF n
  <2>4. /\ DOMAIN plist'[n].base = DOMAIN plist[n].base
        /\ \A q \in DOMAIN plist[n].base : plist'[n].base[q] = plist[n].base[q] \/ plist'[n].base[q] = e
    BY <2>3
  <2> QED BY <2>2, <2>3, <2>4 DEF BaseStep, n
<1> QED BY <1>1, <1>2, <1>3, <1>4, <1>5, <1>6
        DEF Step, contains, insert, remove, Traverse, rehash, acquire_P, refetch, read_elist, miss,
            contains_hit, insert_exists, remove_hit, insert_append, rehash_free

\* No step of any thread lets another reach a P-list that is being filled.
LEMMA StepPrivate ==
  ASSUME IndInv, OwnInv, PrivateInv, NEW t \in Threads, CopyInv(t), Step(t)
  PROVE  PrivateInv'
<1>1. Others(t) /\ BaseStep(t)
  BY StepOthers, StepBases
<1>2. CASE rehash_alloc(t)
  BY <1>1, <1>2, RehashAllocPrivate
<1>3. CASE \/ acquire_E(t) \/ acquire_P(t) \/ read_elist(t) \/ unlock_P(t)
           \/ miss(t) \/ contains_hit(t) \/ insert_exists(t) \/ remove_hit(t) \/ insert_append(t)
           \/ insert_empty(t) \/ rehash_free(t) \/ publish(t) \/ rehash_move(t)
  <2>1. walk'[t].curr = walk[t].curr
    <3>1. CASE publish(t) \/ unlock_P(t)
      BY <3>1 DEF IndInv, TypeOK, publish, unlock_P
    <3> QED BY <1>3, <3>1 DEF acquire_E, acquire_P, read_elist, miss, contains_hit, insert_exists,
               remove_hit, insert_append, insert_empty, rehash_free, rehash_move, Decide
  <2>2. pc'[t] # "descend" /\ (pc'[t] \in {"rehash", "publish"} => rehash_free(t) \/ rehash_move(t))
    BY <1>3 DEF IndInv, TypeOK, acquire_E, acquire_P, read_elist, unlock_P, miss, contains_hit, insert_exists,
                remove_hit, insert_append, insert_empty, rehash_free, publish, rehash_move, Decide, Goto
  <2>3. pc'[t] \in {"rehash", "publish"} => pc[t] = "rehash" /\ crit'[t].next = crit[t].next
    <3>1. CASE rehash_free(t)
      BY <3>1 DEF rehash_free
    <3>2. CASE rehash_move(t)
      <4>1. crit \in [Threads -> [base : Ptr, pairs : Seq(Pair), next : PAddr \cup {Null}, i : Nat \ {0}]]
        BY DEF IndInv, TypeOK
      <4>2. crit' = [crit EXCEPT ![t].i = @ + 1] /\ pc[t] = "rehash"
        BY <3>2 DEF rehash_move
      <4> QED BY <4>1, <4>2
    <3> QED BY <2>2, <3>1, <3>2
  <2> QED BY ONLY IndInv, PrivateInv, t \in Threads, <1>1, <2>1, <2>2, <2>3, PrivateKept
<1>4. CASE refetch(t)
  <2>1. /\ walk'[t].curr = walk[t].curr /\ pc'[t] = "descend"
        /\ crit'[t].next = plist[walk[t].curr].base[bucket(t)]
    BY <1>4 DEF refetch, Goto, IndInv, TypeOK
  <2>2. \E p \in PAddr : \E b \in DOMAIN plist[p].base : crit'[t].next = plist[p].base[b]
    BY <2>1, AtBucket
  <2> QED BY ONLY IndInv, PrivateInv, t \in Threads, <1>1, <2>1, <2>2, PrivateKept
<1>5. CASE descend(t)
  <2>1. walk'[t].curr = crit[t].next /\ pc[t] = "descend" /\ pc'[t] = "acquire"
    BY <1>5 DEF descend, Goto, IndInv, TypeOK
  <2> QED BY ONLY IndInv, PrivateInv, t \in Threads, <1>1, <2>1, PrivateKept
<1>6. CASE unlock_E(t)
  <2>1. walk'[t].curr = Root /\ pc'[t] = "idle"
    BY <1>6 DEF unlock_E, Goto, IndInv, TypeOK, NoWalk
  <2> QED BY ONLY IndInv, PrivateInv, t \in Threads, <1>1, <2>1, PrivateKept
<1> QED BY <1>2, <1>3, <1>4, <1>5, <1>6 DEF Step, contains, insert, remove, Traverse, rehash

-----------------------------------------------------------------------------
(* ContentInv *)

\* The E-lists a step of t writes: a new one, the one in its hand, or one of
\* the P-list it fills.
PairsStep(t) ==
    \A e \in EAddr :
        \/ elist'[e].pairs = elist[e].pairs
        \/ elist[e].state = "free"
        \/ pc[t] = "work" /\ crit[t].base = e
        \/ pc[t] = "rehash" /\ \E b \in DOMAIN plist[crit[t].next].base : plist[crit[t].next].base[b] = e

\* What t works on under the lock is sound and, but for the writes of t
\* itself, what the E-list holds.
LEMMA InHand ==
  ASSUME IndInv, ContentInv, NEW t \in Threads, crit[t].base # Null
  PROVE  e_pairs(t) \in Seq(Pair) /\ Sound(e_pairs(t)) /\ crit[t].base \in EAddr
<1>1. e_pairs(t) \in Seq(Pair) /\ crit[t].base \in EAddr
  BY EPairsType DEF IndInv
<1> QED BY <1>1 DEF e_pairs, ContentInv, CopyInv, Sound, ElistSane

\* The pair a running insert stores.
LEMMA NewPairGenuine ==
  ASSUME NEW t \in Threads, call[t] \in Calls(t), call[t].op = "insert"
  PROVE  NewPair(t) \in Pair /\ NewPair(t).val \in Vals[NewPair(t).key]
<1>1. call[t].key \in Keys /\ call[t].val \in Vals[call[t].key]
  BY DEF Calls
<1>2. call[t].val \in Nat
  BY <1>1, ConstAssumption
<1> QED BY <1>1, <1>2 DEF NewPair, Pair

\* Only memory is written that the writer has for itself.
LEMMA StepPairs ==
  ASSUME IndInv, NEW t \in Threads, CopyInv(t), Step(t)
  PROVE  PairsStep(t)
<1>1. CASE elist' = elist
  BY <1>1 DEF PairsStep
<1>2. CASE remove_hit(t) \/ insert_append(t)
  <2> DEFINE x == crit[t].base
  <2>1. PICK s : elist' = [elist EXCEPT ![x].pairs = s] /\ pc[t] = "work"
    BY <1>2 DEF remove_hit, insert_append
  <2> HIDE DEF x
  <2>2. \A e \in EAddr : e # x => elist'[e] = elist[e]
    BY <2>1 DEF IndInv, TypeOK
  <2> QED BY <2>1, <2>2 DEF PairsStep, x
<1>3. CASE insert_empty(t)
  <2>1. elist[FreshE].state = "free"
    BY <1>3 DEF insert_empty, HasFreeE, FreshE
  <2>2. \A e \in EAddr : e # FreshE => elist'[e] = elist[e]
    BY <1>3 DEF insert_empty, IndInv, TypeOK
  <2> QED BY <2>1, <2>2 DEF PairsStep
<1>4. CASE rehash_move(t)
  <2>1. PICK b, e : MovesTo(t, b, e)
    BY <1>4, RehashMoves
  <2>2. pc[t] = "rehash"
    BY <1>4, RehashMoves
  <2> QED BY <2>1, <2>2 DEF PairsStep, MovesTo
<1>5. CASE rehash_free(t)
  <2> DEFINE x == crit[t].base
  <2>1. elist' = elist \/ elist' = [elist EXCEPT ![x].state = "freed"]
    BY <1>5 DEF rehash_free
  <2> HIDE DEF x
  <2>2. ASSUME NEW e \in EAddr PROVE elist'[e].pairs = elist[e].pairs
    <3>1. elist'[e] = elist[e] \/ elist'[e] = [elist[e] EXCEPT !.state = "freed"]
      BY <2>1 DEF IndInv, TypeOK
    <3>2. elist[e] \in [id : Nat, state : {"free", "live", "freed"}, pairs : Seq(Pair)]
      BY DEF IndInv, TypeOK
    <3> QED BY <3>1, <3>2
  <2> QED BY <2>2 DEF PairsStep
<1> QED BY <1>1, <1>2, <1>3, <1>4, <1>5
        DEF Step, contains, insert, remove, Traverse, rehash, acquire_E, acquire_P, refetch, descend,
            read_elist, miss, contains_hit, insert_exists, rehash_alloc, publish, unlock_P, unlock_E, Decide

\* A pair that rehash appends to an E-list it has made fits: the list has no
\* more pairs than were moved, and none with this key.
LEMMA MoveAppends ==
  ASSUME IndInv, ContentInv, NEW t \in Threads, pc[t] = "rehash",
         crit[t].i \in 1..Len(crit[t].pairs), NEW e \in EAddr,
         NEW b \in DOMAIN plist[crit[t].next].base, plist[crit[t].next].base[b] = e
  PROVE  LET s == elist[e].pairs
             p == crit[t].pairs[crit[t].i]
         IN  /\ Len(s) < ELIST_SIZE /\ Len(s) < crit[t].i
             /\ \A j \in 1..Len(s) : s[j].key # p.key
<1> DEFINE s == elist[e].pairs
           c == crit[t].pairs
           i == crit[t].i
<1>1. s \in Seq(Pair) /\ c \in Seq(Pair) /\ i \in Nat /\ e # Null
  BY ConstAssumption DEF IndInv, TypeOK
<1>2. Len(s) < i /\ \A j \in 1..Len(s) : \E k \in 1..(i - 1) : s[j].key = c[k].key
  BY <1>1 DEF ContentInv, CopyInv, Moved, CameFrom
<1>3. Len(c) <= ELIST_SIZE /\ \A j, k \in 1..Len(c) : c[j].key = c[k].key => j = k
  BY DEF ContentInv, CopyInv, Fits
<1>4. i \in 1..Len(c) /\ Len(s) \in Nat /\ Len(c) \in Nat /\ ELIST_SIZE \in Nat
  BY <1>1, ConstAssumption
<1> HIDE DEF s, c, i
<1>5. Len(s) < ELIST_SIZE
  BY <1>2, <1>3, <1>4
<1>6. ASSUME NEW j \in 1..Len(s) PROVE s[j].key # c[i].key
  <2>1. PICK k \in 1..(i - 1) : s[j].key = c[k].key
    BY <1>2
  <2>2. k \in 1..Len(c) /\ k # i
    BY <1>4
  <2> QED BY <1>3, <1>4, <2>1, <2>2
<1> QED BY <1>2, <1>5, <1>6 DEF s, c, i

\* Whoever writes an E-list leaves it sound.
LEMMA StepSound ==
  ASSUME IndInv, ContentInv, NEW t \in Threads, Step(t), NEW e \in EAddr
  PROVE  Sound(elist'[e].pairs)
<1>1. Sound(elist[e].pairs)
  BY DEF ContentInv, ElistSane, Sound
<1>2. CopyInv(t)
  BY DEF ContentInv
<1>3. CASE elist'[e].pairs = elist[e].pairs
  BY <1>1, <1>3
<1>4. CASE remove_hit(t) \/ (insert(t) /\ insert_append(t))
  <2> DEFINE x == crit[t].base
             s == e_pairs(t)
  <2>1. x # Null /\ pc[t] = "work"
    BY <1>4 DEF remove_hit, insert_append, Holds
  <2>2. s \in Seq(Pair) /\ Sound(s) /\ x \in EAddr
    BY <2>1, InHand
  <2>3. PICK r : elist' = [elist EXCEPT ![x].pairs = r] /\ Sound(r)
    <3>1. CASE remove_hit(t)
      <4>1. elist' = [elist EXCEPT ![x].pairs = EdgeSwap(s, Slot(t))] /\ Slot(t) \in 1..Len(s)
        BY <2>2, <3>1, FirstMatchIsMatch DEF remove_hit, Holds, Slot
      <4> HIDE DEF s
      <4>2. Sound(EdgeSwap(s, Slot(t)))
        BY <2>2, <4>1, EdgeSwapSound
      <4> QED BY <4>1, <4>2
    <3>2. CASE insert(t) /\ insert_append(t)
      <4> DEFINE p == NewPair(t)
      <4>1. /\ elist' = [elist EXCEPT ![x].pairs = Append(s, p)] /\ Len(s) < ELIST_SIZE
            /\ Matches(s, call[t].key) = {}
        BY <2>1, <3>2 DEF insert_append, Holds
      <4>2. call[t].op = "insert" /\ call[t] \in Calls(t)
        BY <1>2, <2>1, <3>2 DEF CopyInv, insert
      <4>3. p \in Pair /\ p.val \in Vals[p.key] /\ p.key = call[t].key
        BY <4>2, NewPairGenuine DEF NewPair
      <4> HIDE DEF p, s
      <4>4. \A j \in 1..Len(s) : s[j].key # p.key
        BY <4>1, <4>3 DEF Matches
      <4>5. Sound(Append(s, p))
        BY <2>2, <4>1, <4>3, <4>4, AppendSound
      <4> QED BY <4>1, <4>5
    <3> QED BY <1>4, <3>1, <3>2
  <2> HIDE DEF x, s
  <2>4. elist[x] \in [id : Nat, state : {"free", "live", "freed"}, pairs : Seq(Pair)]
    BY <2>2 DEF IndInv, TypeOK
  <2>5. (e # x => elist'[e] = elist[e]) /\ elist'[x].pairs = r
    BY <2>2, <2>3, <2>4 DEF IndInv, TypeOK
  <2> QED BY <1>1, <2>3, <2>5
<1>5. CASE insert(t) /\ insert_empty(t)
  <2> DEFINE p == NewPair(t)
  <2>1. /\ call[t].op = "insert" /\ call[t] \in Calls(t)
        /\ FreshE \in EAddr /\ elist' = [elist EXCEPT ![FreshE] = NewEList(Home[t], <<p>>)]
    BY <1>2, <1>5, FreshEType DEF CopyInv, insert, insert_empty
  <2>2. p \in Pair /\ p.val \in Vals[p.key]
    BY <2>1, NewPairGenuine
  <2> HIDE DEF p
  <2>3. Sound(<<p>>)
    BY <2>2, SingleSound
  <2>4. (e # FreshE => elist'[e] = elist[e]) /\ elist'[FreshE].pairs = <<p>>
    BY <2>1 DEF IndInv, TypeOK, NewEList
  <2> QED BY <1>1, <2>3, <2>4
<1>6. CASE rehash_move(t)
  <2> DEFINE p == crit[t].pairs[crit[t].i]
  <2>1. PICK b, x : MovesTo(t, b, x)
    BY <1>2, <1>6, RehashMoves
  <2>2. pc[t] = "rehash" /\ crit[t].i \in 1..Len(crit[t].pairs) /\ p \in Pair
    BY <1>2, <1>6, RehashMoves
  <2>3. p.val \in Vals[p.key]
    BY <1>2, <2>2 DEF CopyInv, Genuine
  <2>4. /\ b \in DOMAIN plist[crit[t].next].base /\ x \in EAddr /\ (e # x => elist'[e] = elist[e])
        /\ \/ elist'[x].pairs = <<p>>
           \/ plist[crit[t].next].base[b] = x /\ elist'[x].pairs = Append(elist[x].pairs, p)
    BY <2>1 DEF MovesTo
  <2>5. CASE elist'[x].pairs = <<p>>
    <3> HIDE DEF p
    <3>1. Sound(<<p>>)
      BY <2>2, <2>3, SingleSound
    <3> QED BY <1>1, <2>4, <2>5, <3>1
  <2>6. CASE plist[crit[t].next].base[b] = x /\ elist'[x].pairs = Append(elist[x].pairs, p)
    <3> DEFINE s == elist[x].pairs
    <3>1. s \in Seq(Pair) /\ Sound(s)
      BY <2>4 DEF IndInv, TypeOK, ContentInv, ElistSane, Sound
    <3>2. Len(s) < ELIST_SIZE /\ \A j \in 1..Len(s) : s[j].key # p.key
      BY <2>2, <2>4, <2>6, MoveAppends
    <3> HIDE DEF p, s
    <3>3. Sound(Append(s, p))
      BY <2>2, <2>3, <3>1, <3>2, AppendSound
    <3>4. elist'[x].pairs = Append(s, p)
      BY <2>6 DEF s
    <3> QED BY <1>1, <2>4, <3>3, <3>4
  <2> QED BY <2>4, <2>5, <2>6
<1>7. CASE rehash_free(t)
  <2> DEFINE x == crit[t].base
  <2>1. elist' = elist \/ elist' = [elist EXCEPT ![x].state = "freed"]
    BY <1>7 DEF rehash_free
  <2> HIDE DEF x
  <2>2. elist'[e] = elist[e] \/ elist'[e] = [elist[e] EXCEPT !.state = "freed"]
    BY <2>1 DEF IndInv, TypeOK
  <2>3. elist[e] \in [id : Nat, state : {"free", "live", "freed"}, pairs : Seq(Pair)]
    BY DEF IndInv, TypeOK
  <2>4. elist'[e].pairs = elist[e].pairs
    BY <2>2, <2>3
  <2> QED BY <1>3, <2>4
<1>8. CASE elist' = elist
  BY <1>3, <1>8
<1>9. CASE insert(t)
  BY <1>4, <1>5, <1>6, <1>7, <1>8, <1>9
     DEF insert, Traverse, rehash, acquire_E, acquire_P, refetch, descend,
         read_elist, insert_exists, rehash_alloc, publish, unlock_P, unlock_E, Decide
<1> QED BY <1>4, <1>8, <1>9
        DEF Step, contains, remove, Traverse, acquire_E, acquire_P, refetch, descend,
            read_elist, miss, contains_hit, unlock_E, Decide

\* An E-list that bucket b of p and bucket c of q lead to.
LEMMA OneBucket ==
  ASSUME OwnInv, NEW e \in EAddr, NEW p \in PAddr, NEW b \in DOMAIN plist[p].base, LeadsTo(p, b, e),
         NEW q \in PAddr, NEW c \in DOMAIN plist[q].base, LeadsTo(q, c, e)
  PROVE  p = q /\ b = c /\ elist[e].state # "free"
BY DEF OwnInv

\* A thread does not write the E-list another has under the lock.
LEMMA HandUntouched ==
  ASSUME IndInv, OwnInv, PrivateInv, NEW t \in Threads, PairsStep(t),
         NEW u \in Threads, u # t, pc[u] \in InCrit, crit[u].base # Null
  PROVE  elist'[crit[u].base].pairs = elist[crit[u].base].pairs
<1> DEFINE e == crit[u].base
           c == walk[u].curr
           q == bucket(u)
<1>1. e \in EAddr /\ elist[e].state # "free"
  BY HandInUse
<1>2. c \in PAddr /\ q \in DOMAIN plist[c].base /\ LeadsTo(c, q, e) /\ At(u) = <<c, q>>
  BY AtBucket, HandLeads
<1>3. ASSUME pc[t] = "work", crit[t].base = e PROVE FALSE
  <2> DEFINE d == walk[t].curr
             r == bucket(t)
  <2>1. d \in PAddr /\ r \in DOMAIN plist[d].base /\ LeadsTo(d, r, e) /\ At(t) = <<d, r>>
    BY <1>3, AtBucket, HandLeads
  <2> HIDE DEF c, q, d, r, e
  <2>2. d = c /\ r = q
    BY <1>1, <1>2, <2>1, OneBucket
  <2>3. At(t) = At(u)
    BY <1>2, <2>1, <2>2
  <2> QED BY <1>3, <2>3 DEF IndInv, MutualExclusion, InCrit
<1>4. ASSUME pc[t] = "rehash", NEW b \in DOMAIN plist[crit[t].next].base, plist[crit[t].next].base[b] = e
      PROVE  FALSE
  <2> DEFINE n == crit[t].next
  <2>1. n \in PAddr /\ LeadsTo(n, b, e) /\ b \in DOMAIN plist[n].base
    BY <1>4 DEF IndInv, ThreadInv, LeadsTo
  <2> HIDE DEF n, c, q, e
  <2>2. n = c
    BY <1>1, <1>2, <2>1, OneBucket
  <2> QED BY <1>4, <2>2 DEF PrivateInv, n, c
<1> HIDE DEF e
<1>5. elist'[e].pairs = elist[e].pairs
  <2>1. \/ elist'[e].pairs = elist[e].pairs
        \/ elist[e].state = "free"
        \/ pc[t] = "work" /\ crit[t].base = e
        \/ pc[t] = "rehash" /\ \E b \in DOMAIN plist[crit[t].next].base : plist[crit[t].next].base[b] = e
    BY <1>1 DEF PairsStep
  <2> QED BY <1>1, <1>3, <1>4, <2>1
<1> QED BY <1>5 DEF e

\* A thread does not write the P-list another fills, nor its E-lists.
LEMMA FillUntouched ==
  ASSUME IndInv, OwnInv, PrivateInv, NEW t \in Threads, PairsStep(t), BaseStep(t),
         NEW u \in Threads, u # t, pc[u] \in {"rehash", "publish"}
  PROVE  /\ plist'[crit[u].next].base = plist[crit[u].next].base
         /\ \A b \in DOMAIN plist[crit[u].next].base :
               LET e == plist[crit[u].next].base[b]
               IN  e \in EAddr => elist'[e].pairs = elist[e].pairs
<1> DEFINE x == crit[u].next
<1>1. x \in PAddr /\ plist[x].size # 0
  <2>1. x \in PAddr /\ plist[x].size = 2 * walk[u].count /\ walk[u].count \in Nat /\ walk[u].count >= 2
    BY DEF IndInv, ThreadInv, TypeOK
  <2> QED BY <2>1
<1>2. /\ walk[t].curr # x
      /\ pc[t] \in {"descend", "rehash", "publish"} => crit[t].next # x
  BY DEF PrivateInv
<1> HIDE DEF x
<1>3. plist'[x].base = plist[x].base
  BY <1>1, <1>2 DEF BaseStep
<1>4. ASSUME NEW b \in DOMAIN plist[x].base, plist[x].base[b] \in EAddr
      PROVE  elist'[plist[x].base[b]].pairs = elist[plist[x].base[b]].pairs
  <2> DEFINE e == plist[x].base[b]
  <2>1. LeadsTo(x, b, e) /\ e \in EAddr
    BY <1>4 DEF LeadsTo
  <2>2. elist[e].state # "free"
    BY <1>1, <2>1, OneBucket
  <2>3. ASSUME pc[t] = "work", crit[t].base = e PROVE FALSE
    <3>1. /\ walk[t].curr \in PAddr /\ bucket(t) \in DOMAIN plist[walk[t].curr].base
          /\ LeadsTo(walk[t].curr, bucket(t), e)
      BY <2>3, AtBucket, HandLeads
    <3> HIDE DEF e
    <3>2. walk[t].curr = x
      BY <1>1, <2>1, <3>1, OneBucket
    <3> QED BY <1>2, <3>2
  <2>4. ASSUME pc[t] = "rehash", NEW c \in DOMAIN plist[crit[t].next].base, plist[crit[t].next].base[c] = e
        PROVE  FALSE
    <3> DEFINE n == crit[t].next
    <3>1. n \in PAddr /\ LeadsTo(n, c, e) /\ c \in DOMAIN plist[n].base
      BY <2>4 DEF IndInv, ThreadInv, LeadsTo
    <3> HIDE DEF n, e
    <3>2. n = x
      BY <1>1, <2>1, <3>1, OneBucket
    <3> QED BY <1>2, <2>4, <3>2 DEF n
  <2> HIDE DEF e
  <2>5. elist'[e].pairs = elist[e].pairs
    <3>1. \/ elist'[e].pairs = elist[e].pairs
          \/ elist[e].state = "free"
          \/ pc[t] = "work" /\ crit[t].base = e
          \/ pc[t] = "rehash" /\ \E c \in DOMAIN plist[crit[t].next].base : plist[crit[t].next].base[c] = e
      BY <2>1 DEF PairsStep
    <3> QED BY <2>2, <2>3, <2>4, <3>1
  <2> QED BY <2>5 DEF e
<1> QED BY <1>3, <1>4 DEF x

\* What another thread copied stays as sound as it was.
LEMMA CopyOthers ==
  ASSUME IndInv, OwnInv, ContentInv, NEW t \in Threads, Others(t), IdStep, PairsStep(t), BaseStep(t),
         NEW u \in Threads, u # t
  PROVE  CopyInv(u)'
<1>1. pc'[u] = pc[u] /\ call'[u] = call[u] /\ crit'[u] = crit[u]
  BY DEF Others
<1>2. CopyInv(u) /\ PrivateInv
  BY DEF ContentInv
<1>3. ASSUME pc[u] = "work", IsRemoteE(u, crit[u].base)'
      PROVE  crit[u].pairs = elist'[crit[u].base].pairs
  <2>1. crit[u].base # Null /\ elist'[crit[u].base].id # Home[u]
    BY <1>1, <1>3 DEF IsRemoteE
  <2>2. IsRemoteE(u, crit[u].base)
    BY <2>1, HandInUse DEF IdStep, IsRemoteE
  <2> QED BY <1>2, <1>3, <2>1, <2>2, HandUntouched DEF CopyInv, InCrit
<1>4. ASSUME pc[u] = "rehash" PROVE Moved(u)'
  <2> DEFINE x == crit[u].next
             i == crit[u].i
             s == crit[u].pairs
  <2>1. i <= Len(s) + 1
    BY <1>2, <1>4 DEF CopyInv, Moved
  <2>2. /\ plist'[x].base = plist[x].base
        /\ \A b \in DOMAIN plist[x].base :
              plist[x].base[b] \in EAddr => elist'[plist[x].base[b]].pairs = elist[plist[x].base[b]].pairs
    BY <1>2, <1>4, FillUntouched
  <2>3. ASSUME NEW b \in DOMAIN plist'[x].base, plist'[x].base[b] # Null
        PROVE  plist'[x].base[b] \in EAddr /\ CameFrom(elist'[plist'[x].base[b]].pairs, s, i)
    <3>1. b \in DOMAIN plist[x].base /\ plist'[x].base[b] = plist[x].base[b]
      BY <2>2, <2>3
    <3>2. plist[x].base[b] \in EAddr /\ CameFrom(elist[plist[x].base[b]].pairs, s, i)
      BY <1>2, <1>4, <2>3, <3>1 DEF CopyInv, Moved
    <3>3. elist'[plist[x].base[b]].pairs = elist[plist[x].base[b]].pairs
      BY <2>2, <3>1, <3>2
    <3> QED BY <3>1, <3>2, <3>3
  <2> QED BY <1>1, <2>1, <2>3 DEF Moved
<1> QED BY <1>1, <1>2, <1>3, <1>4 DEF CopyInv

\* Once a pair is moved, it is among the pairs that were.
LEMMA MovedOn ==
  ASSUME NEW s \in Seq(Pair), NEW c \in Seq(Pair), NEW i \in 1..Len(c)
  PROVE  /\ CameFrom(<<c[i]>>, c, i + 1)
         /\ CameFrom(s, c, i) => CameFrom(s, c, i + 1) /\ CameFrom(Append(s, c[i]), c, i + 1)
<1>1. i \in Nat /\ i \in 1..((i + 1) - 1) /\ c[i] \in Pair /\ 1..(i - 1) \subseteq 1..((i + 1) - 1)
  OBVIOUS
<1>2. CameFrom(<<c[i]>>, c, i + 1)
  BY <1>1 DEF CameFrom
<1>3. ASSUME CameFrom(s, c, i) PROVE CameFrom(s, c, i + 1)
  BY <1>1, <1>3 DEF CameFrom
<1>4. ASSUME CameFrom(s, c, i) PROVE CameFrom(Append(s, c[i]), c, i + 1)
  <2> DEFINE r == Append(s, c[i])
  <2>1. r \in Seq(Pair) /\ Len(r) = Len(s) + 1 /\ r[Len(s) + 1] = c[i] /\ \A j \in 1..Len(s) : r[j] = s[j]
    BY <1>1
  <2>2. Len(s) \in Nat /\ Len(s) < i
    BY <1>4 DEF CameFrom
  <2> HIDE DEF r
  <2>3. ASSUME NEW j \in 1..Len(r) PROVE \E k \in 1..((i + 1) - 1) : r[j].key = c[k].key
    <3>1. CASE j \in 1..Len(s)
      BY <1>1, <1>4, <2>1, <3>1 DEF CameFrom
    <3>2. CASE j = Len(s) + 1
      BY <1>1, <2>1, <3>2
    <3> QED BY <2>1, <2>2, <3>1, <3>2
  <2>4. CameFrom(r, c, i + 1)
    BY <1>1, <2>1, <2>2, <2>3 DEF CameFrom
  <2> QED BY <2>4 DEF r
<1> QED BY <1>2, <1>3, <1>4

\* A turn of rehash's loop: the moved pairs are one more.
LEMMA RehashMoveCopy ==
  ASSUME IndInv, OwnInv, NEW t \in Threads, CopyInv(t), rehash_move(t)
  PROVE  Moved(t)' /\ crit'[t].pairs = crit[t].pairs
<1> DEFINE n == crit[t].next
           c == crit[t].pairs
           i == crit[t].i
<1>1. PICK b, e : MovesTo(t, b, e)
  BY RehashMoves
<1>2. /\ pc[t] = "rehash" /\ crit'[t] = [crit[t] EXCEPT !.i = i + 1]
      /\ i \in 1..Len(c) /\ n \in PAddr
  BY RehashMoves
<1>3. crit[t] \in [base : Ptr, pairs : Seq(Pair), next : PAddr \cup {Null}, i : Nat \ {0}]
  BY DEF IndInv, TypeOK
<1>4. crit'[t].pairs = c /\ crit'[t].next = n /\ crit'[t].i = i + 1
  BY <1>2, <1>3
<1>5. /\ b \in DOMAIN plist[n].base /\ e \in EAddr
      /\ plist'[n].base = [plist[n].base EXCEPT ![b] = e]
      /\ \A x \in EAddr : x # e => elist'[x] = elist[x]
      /\ \/ plist[n].base[b] = Null /\ elist[e].state = "free" /\ elist'[e].pairs = <<c[i]>>
         \/ plist[n].base[b] = e /\ elist'[e].pairs = Append(elist[e].pairs, c[i])
  BY <1>1 DEF MovesTo
<1>6. \A q \in DOMAIN plist[n].base :
         plist[n].base[q] # Null =>
            plist[n].base[q] \in EAddr /\ CameFrom(elist[plist[n].base[q]].pairs, c, i)
  BY <1>2 DEF CopyInv, Moved
<1>7. c \in Seq(Pair) /\ \A x \in EAddr : elist[x].pairs \in Seq(Pair)
  BY <1>3 DEF IndInv, TypeOK
<1>8. i + 1 <= Len(c) + 1
  BY <1>2, <1>7
<1> HIDE DEF n, c, i
<1>9. ASSUME NEW q \in DOMAIN plist'[n].base, plist'[n].base[q] # Null
      PROVE  plist'[n].base[q] \in EAddr /\ CameFrom(elist'[plist'[n].base[q]].pairs, c, i + 1)
  <2>1. CASE q = b
    <3>1. plist'[n].base[q] = e
      BY <1>5, <2>1
    <3>2. CASE elist'[e].pairs = <<c[i]>>
      BY <1>2, <1>5, <1>7, <3>1, <3>2, MovedOn
    <3>3. CASE plist[n].base[b] = e /\ elist'[e].pairs = Append(elist[e].pairs, c[i])
      <4>1. e # Null
        BY <1>5, ConstAssumption
      <4>2. CameFrom(elist[e].pairs, c, i) /\ elist[e].pairs \in Seq(Pair)
        BY <1>5, <1>6, <1>7, <3>3, <4>1
      <4>3. CameFrom(Append(elist[e].pairs, c[i]), c, i + 1)
        BY <1>2, <1>7, <4>2, MovedOn
      <4> QED BY <1>5, <3>1, <3>3, <4>3
    <3> QED BY <1>5, <3>2, <3>3
  <2>2. CASE q # b
    <3> DEFINE x == plist[n].base[q]
    <3>1. q \in DOMAIN plist[n].base /\ plist'[n].base[q] = x
      BY <1>5, <1>9, <2>2
    <3>2. x \in EAddr /\ CameFrom(elist[x].pairs, c, i) /\ elist[x].pairs \in Seq(Pair)
      BY <1>6, <1>7, <1>9, <3>1
    <3>3. LeadsTo(n, q, x)
      BY DEF LeadsTo
    <3> HIDE DEF x
    <3>4. x # e
      <4>1. elist[x].state # "free"
        BY <1>2, <3>1, <3>2, <3>3, OneBucket
      <4>2. plist[n].base[b] # x
        <5> SUFFICES ASSUME plist[n].base[b] = x PROVE FALSE
          OBVIOUS
        <5>1. LeadsTo(n, b, x)
          BY DEF LeadsTo
        <5> QED BY <1>2, <1>5, <2>2, <3>1, <3>2, <3>3, <5>1, OneBucket
      <4> QED BY <1>5, <4>1, <4>2
    <3>5. CameFrom(elist[x].pairs, c, i + 1)
      BY <1>2, <1>7, <3>2, MovedOn
    <3>6. elist'[x] = elist[x]
      BY <1>5, <3>2, <3>4
    <3> QED BY <3>1, <3>2, <3>5, <3>6
  <2> QED BY <2>1, <2>2
<1>10. Moved(t)'
  BY <1>4, <1>8, <1>9 DEF Moved
<1> QED BY <1>4, <1>10 DEF c

\* A step leaves what its thread has copied sound.
LEMMA StepCopy ==
  ASSUME IndInv, OwnInv, ContentInv, NEW t \in Threads, Step(t)
  PROVE  CopyInv(t)'
<1>1. CopyInv(t)
  BY DEF ContentInv
<1>2. call' = call /\ pc[t] # "idle"
  BY DEF Step, contains, insert, remove, Traverse, rehash, acquire_E, acquire_P, refetch, descend,
         read_elist, miss, contains_hit, insert_exists, remove_hit, insert_append, insert_empty, rehash_alloc,
         rehash_move, rehash_free, publish, unlock_P, unlock_E, Decide
<1>3. call'[t] \in Calls(t)
  BY <1>1, <1>2 DEF CopyInv
<1>4. Sound(crit[t].pairs)
  BY <1>1 DEF CopyInv, Sound
<1>5. CASE descend(t) \/ unlock_P(t) \/ unlock_E(t)
  <2>1. crit'[t].pairs = <<>> /\ pc'[t] \notin {"work", "rehash"}
    <3>1. /\ crit' = [crit EXCEPT ![t] = NoCrit]
          /\ pc' = [pc EXCEPT ![t] = "acquire"] \/ pc' = [pc EXCEPT ![t] = "idle"]
      BY <1>5 DEF descend, unlock_P, unlock_E, Goto
    <3>2. DOMAIN crit = Threads /\ DOMAIN pc = Threads
      BY DEF IndInv, TypeOK
    <3> QED BY <3>1, <3>2 DEF NoCrit
  <2> QED BY <1>3, <2>1, EmptySound DEF CopyInv, Sound
<1>6. CASE crit' = crit /\ pc'[t] \notin {"work", "rehash"}
  BY <1>3, <1>4, <1>6 DEF CopyInv, Sound
<1>7. CASE refetch(t)
  <2>1. crit'[t].pairs = crit[t].pairs /\ pc'[t] \notin {"work", "rehash"}
    BY <1>7 DEF refetch, Goto, IndInv, TypeOK
  <2> QED BY <1>3, <1>4, <2>1 DEF CopyInv, Sound
<1>8. CASE read_elist(t)
  <2> DEFINE e == curr_base(t)
  <2>1. /\ elist' = elist /\ pc'[t] = "work" /\ pc[t] = "locked" /\ crit'[t].base = e
        /\ crit'[t].pairs = IF IsRemoteE(t, e) THEN elist[e].pairs ELSE <<>>
    BY <1>8 DEF read_elist, Goto, IndInv, TypeOK
  <2>2. e \in EAddr \cup {Null}
    BY <2>1, HeldIsElist DEF InCrit
  <2> HIDE DEF e
  <2>3. Sound(crit'[t].pairs)
    <3>1. CASE IsRemoteE(t, e)
      BY <2>1, <2>2, <3>1 DEF IsRemoteE, ContentInv, ElistSane, Sound
    <3>2. CASE ~IsRemoteE(t, e)
      BY <2>1, <3>2, EmptySound
    <3> QED BY <3>1, <3>2
  <2>4. IsRemoteE(t, crit[t].base)' => crit'[t].pairs = elist'[crit'[t].base].pairs
    BY <2>1 DEF IsRemoteE
  <2> QED BY <1>3, <2>1, <2>3, <2>4 DEF CopyInv, Sound
<1>9. CASE rehash_alloc(t)
  <2> DEFINE n == FreshP
             new == InitPList(Home[t], walk[t].count * 2)
             s == elist[crit[t].base].pairs
  <2>1. /\ n \in PAddr /\ plist' = [plist EXCEPT ![n] = new] /\ pc'[t] = "rehash"
        /\ crit[t].base # Null
    BY <1>9 DEF rehash_alloc, HasFreeP, FreshP, Goto, IndInv, TypeOK
  <2>2. crit'[t].pairs = s /\ crit'[t].next = n /\ crit'[t].i = 1
    <3>1. crit \in [Threads -> [base : Ptr, pairs : Seq(Pair), next : PAddr \cup {Null}, i : Nat \ {0}]]
      BY DEF IndInv, TypeOK
    <3>2. crit' = [crit EXCEPT ![t].next = n, ![t].i = 1, ![t].pairs = s]
      BY <1>9 DEF rehash_alloc
    <3> HIDE DEF n, s
    <3> QED BY <3>1, <3>2
  <2>3. \A q \in DOMAIN new.base : new.base[q] = Null
    BY DEF InitPList
  <2>4. crit[t].base \in EAddr /\ s \in Seq(Pair)
    BY <2>1, HandInUse DEF IndInv, TypeOK
  <2>5. Sound(s)
    BY <2>4 DEF ContentInv, ElistSane, Sound
  <2> HIDE DEF n, new, s
  <2>6. plist'[n] = new
    BY <2>1 DEF IndInv, TypeOK
  <2>7. 1 <= Len(s) + 1
    BY <2>4
  <2>8. Moved(t)'
    BY <2>2, <2>3, <2>6, <2>7 DEF Moved
  <2> QED BY <1>3, <2>1, <2>2, <2>5, <2>8 DEF CopyInv, Sound
<1>10. CASE rehash_move(t)
  <2>1. pc'[t] = "rehash"
    BY <1>10 DEF rehash_move
  <2>2. Moved(t)' /\ crit'[t].pairs = crit[t].pairs
    BY <1>1, <1>10, RehashMoveCopy
  <2> QED BY <1>3, <1>4, <2>1, <2>2 DEF CopyInv, Sound
<1>11. CASE \/ acquire_E(t) \/ acquire_P(t) \/ miss(t) \/ contains_hit(t) \/ insert_exists(t) \/ remove_hit(t)
            \/ insert_append(t) \/ insert_empty(t) \/ rehash_free(t) \/ publish(t)
  <2>1. crit' = crit /\ pc'[t] \notin {"work", "rehash"}
    BY <1>11 DEF acquire_E, acquire_P, miss, contains_hit, insert_exists, remove_hit, insert_append,
       insert_empty, rehash_free, publish, Decide, Goto, IndInv, TypeOK
  <2> QED BY <1>6, <2>1
<1> QED BY <1>5, <1>7, <1>8, <1>9, <1>10, <1>11 DEF Step, contains, insert, remove, Traverse, rehash

\* A hit finds the key, with a value it was inserted with.
LEMMA HitGenuine ==
  ASSUME IndInv, ContentInv, NEW t \in Threads, Holds(t)
  PROVE  e_pairs(t)[Slot(t)].val \in Vals[call[t].key]
<1> DEFINE s == e_pairs(t)
<1>1. s \in Seq(Pair) /\ Sound(s)
  BY InHand DEF Holds
<1>2. Slot(t) \in 1..Len(s) /\ s[Slot(t)].key = call[t].key
  BY <1>1, FirstMatchIsMatch DEF Holds, Slot
<1> QED BY <1>1, <1>2 DEF Sound, Genuine

\* An operation that succeeds has found a value of its key.
LEMMA StepResult ==
  ASSUME IndInv, OwnInv, ContentInv, NEW t \in Threads, Step(t),
         pc'[t] \in {"idle", "unlock"}, ret'[t].status, call'[t].op # "insert"
  PROVE  ret'[t].result \in Vals[call'[t].key]
<1>1. CASE unlock_E(t)
  <2>1. ret' = ret /\ call' = call /\ pc[t] = "unlock"
    BY <1>1 DEF unlock_E
  <2> QED BY <2>1 DEF ContentInv, ResultMatchesKey
<1>2. CASE contains_hit(t) \/ remove_hit(t)
  <2>1. /\ Holds(t) /\ call' = call /\ ret'[t].result = e_pairs(t)[Slot(t)].val
    BY <1>2 DEF contains_hit, remove_hit, Decide, IndInv, TypeOK
  <2> QED BY <2>1, HitGenuine
<1>3. CASE miss(t)
  BY <1>3 DEF miss, Decide, IndInv, TypeOK
<1>4. CASE Traverse(t)
  BY <1>4 DEF Traverse, acquire_E, acquire_P, refetch, descend, read_elist, Goto, IndInv, TypeOK
<1>5. CASE insert(t)
  <2>1. call' = call
    BY <1>5 DEF insert, Traverse, rehash, acquire_E, acquire_P, refetch, descend, read_elist, insert_exists,
                insert_append, insert_empty, rehash_alloc, rehash_move, rehash_free, publish, unlock_P,
                unlock_E, Decide
  <2> QED BY <1>5, <2>1 DEF insert
<1> QED BY <1>1, <1>2, <1>3, <1>4, <1>5 DEF Step, contains, remove

\* Every step of every thread preserves ContentInv.
LEMMA StepContent ==
  ASSUME IndInv, OwnInv, ContentInv, NEW t \in Threads, Step(t)
  PROVE  ContentInv'
<1>1. CopyInv(t) /\ PrivateInv
  BY DEF ContentInv
<1>2. Others(t) /\ IdStep /\ PairsStep(t) /\ BaseStep(t)
  BY <1>1, StepOthers, StepKeepsId, StepPairs, StepBases
<1>3. PrivateInv'
  BY <1>1, StepPrivate
<1>4. \A e \in EAddr : Sound(elist'[e].pairs)
  BY StepSound
<1>5. \A u \in Threads : CopyInv(u)'
  BY <1>2, CopyOthers, StepCopy
<1>6. ResultMatchesKey'
  <2> SUFFICES ASSUME NEW u \in Threads,
                      pc'[u] \in {"idle", "unlock"}, ret'[u].status, call'[u].op # "insert"
               PROVE  ret'[u].result \in Vals[call'[u].key]
    BY DEF ResultMatchesKey
  <2>1. CASE u = t
    BY <2>1, StepResult
  <2>2. CASE u # t
    <3>1. pc'[u] = pc[u] /\ ret'[u] = ret[u] /\ call'[u] = call[u]
      BY <1>2, <2>2 DEF Others
    <3> QED BY <3>1 DEF ContentInv, ResultMatchesKey
  <2> QED BY <2>1, <2>2
<1> QED BY <1>3, <1>4, <1>5, <1>6 DEF ContentInv, ElistSane, Sound

\* So does the call of an operation.
LEMMA InvokeContent ==
  ASSUME IndInv, OwnInv, ContentInv, NEW t \in Threads, NEW c \in Calls(t), Invoke(t, c)
  PROVE  ContentInv'
<1>1. Others(t) /\ CopyInv(t) /\ PrivateInv
  BY InvokeOthers DEF ContentInv
<1>2. /\ plist' = plist /\ elist' = elist /\ crit' = crit
      /\ pc[t] = "idle" /\ pc'[t] = "acquire" /\ call'[t] = c /\ walk'[t].curr = Root
  BY DEF Invoke, Goto, Start, IndInv, TypeOK
<1>3. PairsStep(t) /\ BaseStep(t) /\ IdStep
  BY <1>2 DEF PairsStep, BaseStep, IdStep
<1>4. PrivateInv'
  BY ONLY IndInv, t \in Threads, <1>1, <1>2, <1>3, PrivateKept
<1>5. CopyInv(t)'
  BY <1>1, <1>2 DEF CopyInv
<1>6. \A u \in Threads : CopyInv(u)'
  BY <1>1, <1>3, <1>5, CopyOthers
<1>7. ElistSane' /\ \A e \in EAddr : Genuine(elist'[e].pairs)
  BY <1>2 DEF ContentInv, ElistSane
<1>8. ResultMatchesKey'
  BY <1>1, <1>2 DEF ContentInv, ResultMatchesKey, Others
<1> QED BY <1>4, <1>6, <1>7, <1>8 DEF ContentInv

\* The empty table is sound.
LEMMA InitContent == Init => ContentInv
<1> SUFFICES ASSUME Init PROVE ContentInv
  OBVIOUS
<1>1. \A t \in Threads : pc[t] = "idle" /\ crit[t].pairs = <<>> /\ ret[t].status = FALSE
  BY DEF Init, NoCrit
<1>2. \A e \in EAddr : Sound(elist[e].pairs)
  BY EmptySound DEF Init
<1>3. \A t \in Threads : CopyInv(t)
  BY <1>1, EmptySound DEF CopyInv, Sound
<1>4. PrivateInv /\ ResultMatchesKey
  BY <1>1 DEF PrivateInv, ResultMatchesKey
<1> QED BY <1>2, <1>3, <1>4 DEF ContentInv, ElistSane, Sound

\* Every step preserves ContentInv.
LEMMA NextContent == IndInv /\ OwnInv /\ ContentInv /\ [Next]_vars => ContentInv'
<1> SUFFICES ASSUME IndInv, OwnInv, ContentInv, [Next]_vars PROVE ContentInv'
  OBVIOUS
<1>1. CASE UNCHANGED vars
  <2>1. PrivateInv'
    BY <1>1 DEF vars, ContentInv, PrivateInv
  <2>2. ElistSane' /\ \A e \in EAddr : Genuine(elist'[e].pairs)
    BY <1>1 DEF vars, ContentInv, ElistSane
  <2>3. ResultMatchesKey'
    BY <1>1 DEF vars, ContentInv, ResultMatchesKey
  <2>4. ASSUME NEW t \in Threads PROVE CopyInv(t)'
    BY <1>1 DEF vars, ContentInv, CopyInv, Moved, IsRemoteE
  <2> QED BY <2>1, <2>2, <2>3, <2>4 DEF ContentInv
<1>2. ASSUME NEW t \in Threads, NEW c \in Calls(t), Invoke(t, c) PROVE ContentInv'
  BY <1>2, InvokeContent
<1>3. ASSUME NEW t \in Threads, Step(t) PROVE ContentInv'
  BY <1>3, StepContent
<1>4. CASE Finished
  BY <1>1, <1>4 DEF Finished
<1> QED BY <1>1, <1>2, <1>3, <1>4 DEF Next

-----------------------------------------------------------------------------
(* Theorems *)

\* In every reachable state the E-lists are sound, in memory and in every copy
\* in use, and a P-list that a rehash fills is private to it.
THEOREM ContentInvariant == Spec => []ContentInv
BY InitContent, NextContent, Inductive, OwnInvariant, PTL DEF Spec

\* No E-list ever overflows its array or holds a key twice, whichever of
\* insert, write-back, remove and rehash wrote it last.
THEOREM ElistSaneHolds == Spec => []ElistSane
<1>1. ContentInv => ElistSane
  BY DEF ContentInv
<1> QED BY <1>1, ContentInvariant, PTL

\* The assertion of Client::Apply holds: a contains or remove that succeeds
\* reports a value that was inserted under its key.
THEOREM ResultMatchesKeyHolds == Spec => []ResultMatchesKey
<1>1. ContentInv => ResultMatchesKey
  BY DEF ContentInv
<1> QED BY <1>1, ContentInvariant, PTL
=============================================================================
