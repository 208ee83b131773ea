-------------------------------- MODULE IHT --------------------------------
(***************************************************************************)
(* The interlocked hash table of structures/iht_ds.h (class RdmaIHT).      *)
(*                                                                         *)
(* A tree of P-lists (arrays of bucket = base pointer + lock word) whose   *)
(* buckets hold E-lists (small arrays of key/value pairs).  A full E-list  *)
(* is rehashed into a P-list of twice its parent's size and the bucket's   *)
(* lock becomes P_UNLOCKED for ever.  The memory is spread over RDMA       *)
(* memory pools; a thread works directly on memory of its own pool and on  *)
(* private copies of all other memory.                                     *)
(*                                                                         *)
(* One action is one access to shared memory (an RDMA read, write or       *)
(* compare-and-swap, or the local store that replaces it) together with    *)
(* the thread-local code around it.  A thread uses one bucket of a P-list, *)
(* so of a private copy of a P-list only that bucket's base is kept.       *)
(***************************************************************************)
EXTENDS Integers, Sequences

CONSTANTS
    Threads,     \* client threads; each has an RdmaIHT object of its own
    Home,        \* Home[t] = self_.id, the id of the memory pool t works with
    PLIST_SIZE,  \* buckets of the root P-list (template parameter)
    ELIST_SIZE,  \* pairs of an E-list (template parameter)
    PAddr,       \* addresses the pools can hand out for P-lists
    EAddr,       \* addresses the pools can hand out for E-lists
    Root,        \* the address of the root P-list, known to every thread
    HostPool,    \* the id of the pool that owns the root
    Keys,        \* keys of the workload, as pre_hash (std::hash) maps them
    Vals,        \* Vals[k] = the values an insert of k may carry
    Mix,         \* Mix[t] = the kinds of operation thread t draws
    OpCount      \* OpCount[t] = the length of thread t's operation stream

Null       == 0                          \* remote_nullptr
Ptr        == PAddr \cup EAddr \cup {Null}
E_LOCKED   == 1
E_UNLOCKED == 2
P_UNLOCKED == 3
LockStates == {E_LOCKED, E_UNLOCKED, P_UNLOCKED}
OpKinds    == {"contains", "insert", "remove"}

ASSUME ConstAssumption ==
    /\ PLIST_SIZE \in Nat /\ PLIST_SIZE >= 2     \* level_hash divides by count - 1
    /\ ELIST_SIZE \in Nat \ {0}
    /\ Home \in [Threads -> Nat]
    /\ HostPool \in Nat
    /\ Null \notin PAddr \cup EAddr
    /\ PAddr \cap EAddr = {}
    /\ Root \in PAddr
    /\ Keys \subseteq 0..255                     \* the width of BitXor
    /\ Vals \in [Keys -> SUBSET Nat]
    /\ Mix \in [Threads -> SUBSET OpKinds]
    /\ OpCount \in [Threads -> Nat]

-----------------------------------------------------------------------------
(* Hashing *)

\* Bitwise exclusive or of two numbers below 256.
BitOf(a, b, w) == w * (((a \div w) + (b \div w)) % 2)
BitXor(a, b) ==
    BitOf(a, b, 1)  + BitOf(a, b, 2)  + BitOf(a, b, 4)  + BitOf(a, b, 8) +
    BitOf(a, b, 16) + BitOf(a, b, 32) + BitOf(a, b, 64) + BitOf(a, b, 128)

\* The bucket of key in a P-list of count buckets at this level; the last
\* bucket of a P-list is never used.
level_hash(key, level, count) == BitXor(level, key) % (count - 1)

\* 1 << n, by which an extended read multiplies the size of a P-list.
Shl[n \in Nat] == IF n = 0 THEN 1 ELSE 2 * Shl[n - 1]

-----------------------------------------------------------------------------
(* State *)

VARIABLES
    plist,   \* plist[p]: the P-list at address p (size 0: not allocated)
    elist,   \* elist[e]: the E-list at address e
    pc,      \* where each thread stands
    call,    \* the operation each thread runs: kind, key and value
    walk,    \* curr, depth, count, oldBucketBase of the running operation
    crit,    \* what the running operation read under the bucket's lock
    bufs,    \* pool buffers the operation has read into and not deallocated
    ret,     \* the HT_Res of each thread's last operation
    todo     \* operations left in each thread's stream

vars == <<plist, elist, pc, call, walk, crit, bufs, ret, todo>>

PCs == {"idle", "acquire", "refetch", "descend", "locked", "work",
        "rehash", "publish", "punlock", "unlock"}

\* Between a successful acquire and the write of unlock.
InCrit == {"locked", "work", "rehash", "publish", "punlock", "unlock"}

Pair  == [key : Keys, val : Nat]
Calls(t) ==
    [op : Mix[t] \cap {"contains", "remove"}, key : Keys, val : {0}]
      \cup {c \in [op : Mix[t] \cap {"insert"}, key : Keys, val : UNION {Vals[k] : k \in Keys}] :
              c.val \in Vals[c.key]}

\* A P-list as Allocate and InitPList leave it: size unlocked, empty buckets.
InitPList(id, size) ==
    [id   |-> id, size |-> size, live |-> TRUE,
     lock |-> [b \in 0..(size - 1) |-> E_UNLOCKED],
     base |-> [b \in 0..(size - 1) |-> Null]]

NewEList(id, pairs) == [id |-> id, state |-> "live", pairs |-> pairs]

\* Mutation: the copy of the root is allocated but never read.
StartUnread(key) ==
    [curr |-> Root, depth |-> 1, count |-> PLIST_SIZE, copy |-> TRUE, old |-> TRUE, snap |-> Null]

\* The locals of contains, insert and remove before their loop.  copy: curr
\* is a private copy of the P-list whose base for the bucket was snap.  Else
\* curr is the P-list itself.
Start(key) ==
    [curr |-> Root, depth |-> 1, count |-> PLIST_SIZE, copy |-> TRUE, old |-> TRUE,
     snap |-> plist[Root].base[level_hash(key, 1, PLIST_SIZE)]]

NoWalk == [curr |-> Root, depth |-> 1, count |-> PLIST_SIZE, copy |-> TRUE, old |-> TRUE,
           snap |-> Null]
NoCrit == [base |-> Null, pairs |-> <<>>, next |-> Null, i |-> 1]

FreshP == CHOOSE p \in PAddr : plist[p].size = 0
FreshE == CHOOSE e \in EAddr : elist[e].state = "free"
HasFreeP == \E p \in PAddr : plist[p].size = 0
HasFreeE == \E e \in EAddr : elist[e].state = "free"

-----------------------------------------------------------------------------
(* Views of a thread's locals *)

bucket(t) == level_hash(call[t].key, walk[t].depth, walk[t].count)
lock(t)   == plist[walk[t].curr].lock[bucket(t)]

\* is_local of an address; a null pointer needs no copy.
IsLocalE(t, e) == e # Null /\ elist[e].id = Home[t]
IsRemoteE(t, e) == e # Null /\ elist[e].id # Home[t]
IsLocalP(t, p) == plist[p].id = Home[t]

\* curr->buckets[bucket].base, in the private copy or in the P-list itself.
curr_base(t) == IF walk[t].copy THEN walk[t].snap ELSE plist[walk[t].curr].base[bucket(t)]

\* *e: the E-list itself when it is local, else the copy that was read.
e_pairs(t) == IF IsRemoteE(t, crit[t].base) THEN crit[t].pairs ELSE elist[crit[t].base].pairs

\* The linear search for key: the first index that holds it.
Matches(pairs, key) == {i \in 1..Len(pairs) : pairs[i].key = key}
FirstMatch(pairs, key) ==
    CHOOSE i \in Matches(pairs, key) : \A j \in Matches(pairs, key) : i <= j

\* Mutation: the last key moves into the hole without its value.
EdgeSwapKeyOnly(pairs, i) ==
    [j \in 1..(Len(pairs) - 1) |->
        IF j = i THEN [pairs[j] EXCEPT !.key = pairs[Len(pairs)].key] ELSE pairs[j]]

\* The last pair moves into the hole, the count drops by one.
EdgeSwap(pairs, i) ==
    [j \in 1..(Len(pairs) - 1) |-> IF j = i THEN pairs[Len(pairs)] ELSE pairs[j]]

Goto(t, label) == pc' = [pc EXCEPT ![t] = label]

\* if (oldBucketBase) Deallocate(curr): gives a private copy back, and would
\* free the P-list itself if curr were not a copy.
CurrBufs(t)  == IF walk[t].old /\ walk[t].copy THEN 1 ELSE 0
FreesCurr(t) == walk[t].old /\ ~walk[t].copy
EBufs(t)     == IF IsRemoteE(t, crit[t].base) THEN 1 ELSE 0

-----------------------------------------------------------------------------
(* Walking down the tree: the loop head shared by the three operations *)

\* Apply hands the next operation to the map, which reads the root.
Invoke(t, c) ==
    /\ pc[t] = "idle" /\ todo[t] > 0
    /\ Goto(t, "acquire")
    /\ todo' = [todo EXCEPT ![t] = @ - 1]
    /\ call' = [call EXCEPT ![t] = c]
    /\ walk' = [walk EXCEPT ![t] = Start(c.key)]
    /\ bufs' = [bufs EXCEPT ![t] = 1]
    /\ UNCHANGED <<plist, elist, crit, ret>>

\* Mutation: only P_UNLOCKED makes the compare-and-swap fail.
acquire_ELocked(t) ==
    /\ pc[t] = "acquire" /\ lock(t) # P_UNLOCKED
    /\ plist' = [plist EXCEPT ![walk[t].curr].lock[bucket(t)] = E_LOCKED]
    /\ Goto(t, "locked")
    /\ UNCHANGED <<elist, call, walk, crit, bufs, ret, todo>>

\* Mutation: a permanently unlocked bucket can be locked again.
acquire_EPermanent(t) ==
    /\ pc[t] = "acquire" /\ lock(t) # E_LOCKED
    /\ plist' = [plist EXCEPT ![walk[t].curr].lock[bucket(t)] = E_LOCKED]
    /\ Goto(t, "locked")
    /\ UNCHANGED <<elist, call, walk, crit, bufs, ret, todo>>

\* acquire: the compare-and-swap that finds E_UNLOCKED locks the bucket.
acquire_E(t) ==
    /\ pc[t] = "acquire" /\ lock(t) = E_UNLOCKED
    /\ plist' = [plist EXCEPT ![walk[t].curr].lock[bucket(t)] = E_LOCKED]
    /\ Goto(t, "locked")
    /\ UNCHANGED <<elist, call, walk, crit, bufs, ret, todo>>

\* Mutation: a failed acquire goes round the loop without descending.
acquire_PStay(t) ==
    /\ pc[t] = "acquire" /\ lock(t) = P_UNLOCKED
    /\ UNCHANGED vars

\* acquire: P_UNLOCKED is a permanent unlock, the bucket is a sub-P-list.
\* (On E_LOCKED the thread spins: the compare-and-swap changes nothing.)
acquire_P(t) ==
    /\ pc[t] = "acquire" /\ lock(t) = P_UNLOCKED
    /\ Goto(t, "refetch")
    /\ UNCHANGED <<plist, elist, call, walk, crit, bufs, ret, todo>>

\* Mutation: the base pointer of the stale copy is used, as TODO.md 4 says.
refetchStale(t) ==
    /\ pc[t] = "refetch"
    /\ crit' = [crit EXCEPT ![t].next = curr_base(t)]
    /\ bufs' = [bufs EXCEPT ![t] = @ + 1]
    /\ Goto(t, "descend")
    /\ UNCHANGED <<plist, elist, call, walk, ret, todo>>

\* Read the P-list again for a fresh base pointer.
refetch(t) ==
    /\ pc[t] = "refetch"
    /\ crit' = [crit EXCEPT ![t].next = plist[walk[t].curr].base[bucket(t)]]
    /\ bufs' = [bufs EXCEPT ![t] = @ + 1]
    /\ Goto(t, "descend")
    /\ UNCHANGED <<plist, elist, call, walk, ret, todo>>

\* Mutation: oldBucketBase stays true when curr becomes a local P-list.
descendOld(t) ==
    /\ pc[t] = "descend"
    /\ LET p     == crit[t].next
           depth == walk[t].depth + 1
           count == walk[t].count * 2
       IN  walk' = [walk EXCEPT ![t] =
              [curr |-> p, depth |-> depth, count |-> count,
               copy |-> ~IsLocalP(t, p), old |-> TRUE,
               snap |-> IF IsLocalP(t, p) THEN Null
                        ELSE plist[p].base[level_hash(call[t].key, depth, count)]]]
    /\ plist' = [plist EXCEPT ![walk[t].curr].live = @ /\ ~FreesCurr(t)]
    /\ crit' = [crit EXCEPT ![t] = NoCrit]
    /\ Goto(t, "acquire")
    /\ UNCHANGED <<elist, call, bufs, ret, todo>>

\* Mutation: the level grows with the count only, depth stays behind.
descendFlat(t) ==
    /\ pc[t] = "descend"
    /\ LET p     == crit[t].next
           count == walk[t].count * 2
       IN  walk' = [walk EXCEPT ![t] =
              [curr |-> p, depth |-> walk[t].depth, count |-> count,
               copy |-> ~IsLocalP(t, p), old |-> ~IsLocalP(t, p),
               snap |-> IF IsLocalP(t, p) THEN Null
                        ELSE plist[p].base[level_hash(call[t].key, walk[t].depth, count)]]]
    /\ crit' = [crit EXCEPT ![t] = NoCrit]
    /\ Goto(t, "acquire")
    /\ UNCHANGED <<plist, elist, call, bufs, ret, todo>>

\* Go on with the sub-P-list, in place when it is local and in a copy when
\* it is not; give the buffers of the level above back.
descend(t) ==
    /\ pc[t] = "descend"
    /\ LET p     == crit[t].next
           depth == walk[t].depth + 1
           count == walk[t].count * 2
       IN  /\ walk' = [walk EXCEPT ![t] =
                 [curr |-> p, depth |-> depth, count |-> count,
                  copy |-> ~IsLocalP(t, p), old |-> ~IsLocalP(t, p),
                  snap |-> IF IsLocalP(t, p) THEN Null
                           ELSE plist[p].base[level_hash(call[t].key, depth, count)]]]
           /\ bufs' = [bufs EXCEPT ![t] =
                 (@ - 1 - CurrBufs(t)) + (IF IsLocalP(t, p) THEN 0 ELSE 1)]
    /\ plist' = [plist EXCEPT ![walk[t].curr].live = @ /\ ~FreesCurr(t)]
    /\ crit' = [crit EXCEPT ![t] = NoCrit]
    /\ Goto(t, "acquire")
    /\ UNCHANGED <<elist, call, ret, todo>>

\* The bucket is locked: read its base pointer and the E-list behind it.
read_elist(t) ==
    /\ pc[t] = "locked"
    /\ LET e == curr_base(t)
       IN  /\ crit' = [crit EXCEPT ![t] =
                 [base |-> e, next |-> Null, i |-> 1,
                  pairs |-> IF IsRemoteE(t, e) THEN elist[e].pairs ELSE <<>>]]
           /\ bufs' = [bufs EXCEPT ![t] = @ + (IF IsRemoteE(t, e) THEN 1 ELSE 0)]
    /\ Goto(t, "work")
    /\ UNCHANGED <<plist, elist, call, walk, ret, todo>>

\* The result is decided, the unlock is next.
Decide(t, status, result) ==
    /\ ret' = [ret EXCEPT ![t] = [status |-> status, result |-> result]]
    /\ Goto(t, "unlock")
    /\ UNCHANGED <<call, walk, crit, bufs, todo>>

Holds(t) == crit[t].base # Null /\ Matches(e_pairs(t), call[t].key) # {}
Slot(t)  == FirstMatch(e_pairs(t), call[t].key)

\* Mutation: the copy of the P-list is not given back.
unlock_ELeak(t) ==
    /\ pc[t] = "unlock"
    /\ plist' = [plist EXCEPT ![walk[t].curr].lock[bucket(t)] = E_UNLOCKED]
    /\ bufs' = [bufs EXCEPT ![t] = @ - EBufs(t)]
    /\ walk' = [walk EXCEPT ![t] = NoWalk]
    /\ crit' = [crit EXCEPT ![t] = NoCrit]
    /\ Goto(t, "idle")
    /\ UNCHANGED <<elist, call, ret, todo>>

\* unlock(.., E_UNLOCKED), deallocation of what was read, and the return.
unlock_E(t) ==
    /\ pc[t] = "unlock"
    /\ plist' = [plist EXCEPT ![walk[t].curr].lock[bucket(t)] = E_UNLOCKED,
                              ![walk[t].curr].live = @ /\ ~FreesCurr(t)]
    /\ bufs' = [bufs EXCEPT ![t] = @ - CurrBufs(t) - EBufs(t)]
    /\ walk' = [walk EXCEPT ![t] = NoWalk]
    /\ crit' = [crit EXCEPT ![t] = NoCrit]
    /\ Goto(t, "idle")
    /\ UNCHANGED <<elist, call, ret, todo>>

-----------------------------------------------------------------------------
(* The three operations under the bucket's lock *)

\* contains and remove: an empty bucket or an E-list without the key.
miss(t) ==
    /\ pc[t] = "work" /\ ~Holds(t)
    /\ Decide(t, FALSE, 0)
    /\ UNCHANGED <<plist, elist>>

contains_hit(t) ==
    /\ pc[t] = "work" /\ Holds(t)
    /\ Decide(t, TRUE, e_pairs(t)[Slot(t)].val)
    /\ UNCHANGED <<plist, elist>>

\* Mutation: a changed remote copy is not written back.
remove_hitLocal(t) ==
    /\ pc[t] = "work" /\ Holds(t)
    /\ elist' = IF IsRemoteE(t, crit[t].base) THEN elist
                ELSE [elist EXCEPT ![crit[t].base].pairs = EdgeSwap(e_pairs(t), Slot(t))]
    /\ Decide(t, TRUE, e_pairs(t)[Slot(t)].val)
    /\ UNCHANGED plist

remove_hit(t) ==
    /\ pc[t] = "work" /\ Holds(t)
    /\ elist' = [elist EXCEPT ![crit[t].base].pairs = EdgeSwap(e_pairs(t), Slot(t))]
    /\ Decide(t, TRUE, e_pairs(t)[Slot(t)].val)
    /\ UNCHANGED plist

NewPair(t) == [key |-> call[t].key, val |-> call[t].val]

\* change_bucket_pointer: write the base of the bucket in the P-list itself.
change_bucket_pointer(t, ptr) ==
    plist' = [plist EXCEPT ![walk[t].curr].base[bucket(t)] = ptr]

insert_empty(t) ==
    /\ pc[t] = "work" /\ crit[t].base = Null /\ HasFreeE
    /\ elist' = [elist EXCEPT ![FreshE] = NewEList(Home[t], <<NewPair(t)>>)]
    /\ change_bucket_pointer(t, FreshE)
    /\ Decide(t, TRUE, 0)

insert_exists(t) ==
    /\ pc[t] = "work" /\ Holds(t)
    /\ Decide(t, FALSE, e_pairs(t)[Slot(t)].val)
    /\ UNCHANGED <<plist, elist>>

\* Mutation: a full E-list still counts as having room.
insert_appendFull(t) ==
    /\ pc[t] = "work" /\ crit[t].base # Null /\ ~Holds(t)
    /\ Len(e_pairs(t)) <= ELIST_SIZE
    /\ elist' = [elist EXCEPT ![crit[t].base].pairs = Append(e_pairs(t), NewPair(t))]
    /\ Decide(t, TRUE, 0)
    /\ UNCHANGED plist

insert_append(t) ==
    /\ pc[t] = "work" /\ crit[t].base # Null /\ ~Holds(t)
    /\ Len(e_pairs(t)) < ELIST_SIZE
    /\ elist' = [elist EXCEPT ![crit[t].base].pairs = Append(e_pairs(t), NewPair(t))]
    /\ Decide(t, TRUE, 0)
    /\ UNCHANGED plist

\* rehash, first part: allocate the sub-P-list and read the full E-list.
rehash_alloc(t) ==
    /\ pc[t] = "work" /\ crit[t].base # Null /\ ~Holds(t)
    /\ Len(e_pairs(t)) >= ELIST_SIZE
    /\ HasFreeP
    /\ plist' = [plist EXCEPT ![FreshP] = InitPList(Home[t], walk[t].count * 2)]
    /\ crit' = [crit EXCEPT ![t].next = FreshP, ![t].i = 1,
                            ![t].pairs = elist[crit[t].base].pairs]
    /\ bufs' = [bufs EXCEPT ![t] = @ + EBufs(t)]
    /\ Goto(t, "rehash")
    /\ UNCHANGED <<elist, call, walk, ret, todo>>

\* rehash, one turn of its loop: pair i goes to its bucket one level down.
rehash_move(t) ==
    /\ pc[t] = "rehash" /\ crit[t].i <= Len(crit[t].pairs)
    /\ LET pair == crit[t].pairs[crit[t].i]
           p    == crit[t].next
           b    == level_hash(pair.key, walk[t].depth + 1, walk[t].count * 2)
           dest == plist[p].base[b]
       IN  \/ /\ dest = Null /\ HasFreeE
              /\ elist' = [elist EXCEPT ![FreshE] = NewEList(Home[t], <<pair>>)]
              /\ plist' = [plist EXCEPT ![p].base[b] = FreshE]
           \/ /\ dest # Null
              /\ elist' = [elist EXCEPT ![dest].pairs = Append(@, pair)]
              /\ UNCHANGED plist
    /\ crit' = [crit EXCEPT ![t].i = @ + 1]
    /\ UNCHANGED <<pc, call, walk, bufs, ret, todo>>

\* rehash, last part: deallocate source, the E-list itself if it is local
\* and the copy if it is not.
rehash_free(t) ==
    /\ pc[t] = "rehash" /\ crit[t].i > Len(crit[t].pairs)
    /\ elist' = IF IsLocalE(t, crit[t].base)
                THEN [elist EXCEPT ![crit[t].base].state = "freed"] ELSE elist
    /\ bufs' = [bufs EXCEPT ![t] = @ - EBufs(t)]
    /\ Goto(t, "publish")
    /\ UNCHANGED <<plist, call, walk, crit, ret, todo>>

\* Mutation: only the private copy learns of the sub-P-list.
publishCopy(t) ==
    /\ pc[t] = "publish"
    /\ walk' = [walk EXCEPT ![t].snap = crit[t].next]
    /\ Goto(t, "punlock")
    /\ UNCHANGED <<plist, elist, call, crit, bufs, ret, todo>>

\* Point the bucket, and curr's copy of it, at the sub-P-list.
publish(t) ==
    /\ pc[t] = "publish"
    /\ change_bucket_pointer(t, crit[t].next)
    /\ walk' = [walk EXCEPT ![t].snap = crit[t].next]
    /\ Goto(t, "punlock")
    /\ UNCHANGED <<elist, call, crit, bufs, ret, todo>>

\* unlock(.., P_UNLOCKED) and back to the loop head with the same curr.
unlock_P(t) ==
    /\ pc[t] = "punlock"
    /\ plist' = [plist EXCEPT ![walk[t].curr].lock[bucket(t)] = P_UNLOCKED]
    /\ bufs' = [bufs EXCEPT ![t] = @ - EBufs(t)]
    /\ walk' = [walk EXCEPT ![t].old = FALSE]
    /\ crit' = [crit EXCEPT ![t] = NoCrit]
    /\ Goto(t, "acquire")
    /\ UNCHANGED <<elist, call, ret, todo>>

-----------------------------------------------------------------------------
(* Specification *)

Traverse(t) == acquire_E(t) \/ acquire_P(t) \/ refetch(t) \/ descend(t) \/ read_elist(t)

contains(t) ==
    /\ call[t].op = "contains"
    /\ Traverse(t) \/ miss(t) \/ contains_hit(t) \/ unlock_E(t)

rehash(t) == rehash_alloc(t) \/ rehash_move(t) \/ rehash_free(t)

insert(t) ==
    /\ call[t].op = "insert"
    /\ \/ Traverse(t) \/ insert_empty(t) \/ insert_exists(t) \/ insert_append(t)
       \/ rehash(t) \/ publish(t) \/ unlock_P(t) \/ unlock_E(t)

remove(t) ==
    /\ call[t].op = "remove"
    /\ Traverse(t) \/ miss(t) \/ remove_hit(t) \/ unlock_E(t)

Step(t) == contains(t) \/ insert(t) \/ remove(t)

AllDone == \A t \in Threads : pc[t] = "idle" /\ (todo[t] = 0 \/ Calls(t) = {})

\* Every stream has ended; the clients go on to Stop.
Finished == AllDone /\ UNCHANGED vars

\* InitAsFirst on the host, InitFromPointer everywhere else.
Init ==
    /\ plist = [p \in PAddr |-> IF p = Root THEN InitPList(HostPool, PLIST_SIZE)
                                ELSE [InitPList(HostPool, 0) EXCEPT !.live = FALSE]]
    /\ elist = [e \in EAddr |-> [id |-> HostPool, state |-> "free", pairs |-> <<>>]]
    /\ pc = [t \in Threads |-> "idle"]
    /\ call = [t \in Threads |-> [op |-> "contains", key |-> 0, val |-> 0]]
    /\ walk = [t \in Threads |-> NoWalk]
    /\ crit = [t \in Threads |-> NoCrit]
    /\ bufs = [t \in Threads |-> 0]
    /\ ret = [t \in Threads |-> [status |-> FALSE, result |-> 0]]
    /\ todo = OpCount

Next ==
    \/ \E t \in Threads : (\E c \in Calls(t) : Invoke(t, c)) \/ Step(t)
    \/ Finished

Spec == Init /\ [][Next]_vars

\* A thread that can step is scheduled eventually, and the driver goes on
\* drawing operations.  A spinning thread is promised nothing: the lock has
\* to be free for good before weak fairness gives it to a waiter.
Fairness ==
    \A t \in Threads : WF_vars((\E c \in Calls(t) : Invoke(t, c)) \/ Step(t))

FairSpec == Spec /\ Fairness

-----------------------------------------------------------------------------
(* Properties *)

\* A P-list of n buckets.
PListOf(n) ==
    [id : Nat, size : {n}, live : BOOLEAN,
     lock : [0..(n - 1) -> LockStates], base : [0..(n - 1) -> Ptr]]

\* Every variable has the shape the code gives it: lock words, base pointers
\* and E-lists in memory, and each thread's locals.  A refetched or newly
\* built child of a bucket is a P-list (the static_cast in the loop head).
TypeOK ==
    /\ plist = [p \in PAddr |-> plist[p]]
    /\ \A p \in PAddr : plist[p].size \in Nat /\ plist[p] \in PListOf(plist[p].size)
    /\ elist \in [EAddr -> [id : Nat, state : {"free", "live", "freed"}, pairs : Seq(Pair)]]
    /\ pc \in [Threads -> PCs]
    /\ call \in [Threads -> [op : OpKinds, key : Nat, val : Nat]]
    /\ walk \in [Threads -> [curr : PAddr, depth : Nat, count : Nat, copy : BOOLEAN,
                             old : BOOLEAN, snap : Ptr]]
    /\ crit \in [Threads -> [base : Ptr, pairs : Seq(Pair), next : PAddr \cup {Null}, i : Nat \ {0}]]
    /\ bufs \in [Threads -> Int]
    /\ ret \in [Threads -> [status : BOOLEAN, result : Nat]]
    /\ todo \in [Threads -> Nat]

\* The bucket whose lock a thread is after or holds.
At(t) == <<walk[t].curr, bucket(t)>>

\* acquire and unlock are a lock: a lock word is E_LOCKED exactly while one
\* thread is between its acquire and its unlock of that bucket.
MutualExclusion ==
    /\ \A t, u \in Threads :
          pc[t] \in InCrit /\ pc[u] \in InCrit /\ At(t) = At(u) => t = u
    /\ \A p \in PAddr : \A b \in DOMAIN plist[p].lock :
          plist[p].lock[b] = E_LOCKED <=> \E t \in Threads : pc[t] \in InCrit /\ At(t) = <<p, b>>

KeepsPermanentUnlocks ==
    \A p \in PAddr : \A b \in DOMAIN plist[p].lock :
       plist[p].lock[b] = P_UNLOCKED =>
          /\ plist'[p].lock[b] = P_UNLOCKED
          /\ plist'[p].base[b] = plist[p].base[b]

\* P_UNLOCKED is a permanent unlock: no step of any thread locks the bucket
\* again or changes the sub-P-list it points at, so a walk may go down
\* without the lock.
PermanentUnlock == [][KeepsPermanentUnlocks]_vars

\* No pointer is taken for the other kind of list (the error TODO.md 4
\* describes): what a thread casts to an E-list under the lock is an E-list
\* or null, and what it casts to a P-list after a failed acquire is a P-list.
PointerKinds ==
    \A t \in Threads :
      /\ pc[t] = "locked" => curr_base(t) \notin PAddr
      /\ pc[t] \in InCrit => crit[t].base \notin PAddr
      /\ pc[t] = "refetch" => plist[walk[t].curr].base[bucket(t)] \in PAddr
      /\ pc[t] = "descend" => crit[t].next \in PAddr

\* The count a thread hashes with, the 1 << (depth - 1) root sizes it reads
\* with and the size the P-list was allocated with are one and the same; so
\* is, one level down, what is read of the sub-P-list a thread goes on to.
\* Hence no access is past the end of a P-list, and no read is short of it.
WalkInBounds ==
    \A t \in Threads :
      /\ plist[walk[t].curr].size = walk[t].count
      /\ walk[t].count = PLIST_SIZE * Shl[walk[t].depth - 1]
      /\ pc[t] = "descend" => plist[crit[t].next].size = PLIST_SIZE * Shl[walk[t].depth]

\* The P-lists form a tree whose levels double in size, and the lock word of
\* a bucket tells what its base points at: P_UNLOCKED only ever stands over a
\* sub-P-list, and a sub-P-list is under P_UNLOCKED unless the thread that
\* published it has yet to unlock the bucket.
SubPLists ==
    /\ plist[Root].size = PLIST_SIZE
    /\ \A p \in PAddr : \A b \in DOMAIN plist[p].lock :
          /\ plist[p].lock[b] = P_UNLOCKED => plist[p].base[b] \in PAddr
          /\ plist[p].base[b] \in PAddr =>
                /\ plist[plist[p].base[b]].size = 2 * plist[p].size
                /\ \/ plist[p].lock[b] = P_UNLOCKED
                   \/ \E t \in Threads : pc[t] = "punlock" /\ At(t) = <<p, b>>

\* What a thread may rely on at each point of an operation: a copy never runs
\* ahead of the P-list it was read from, a failed acquire means P_UNLOCKED,
\* and the sub-P-list in hand is twice as large as the one it hangs off.
ThreadInv(t) ==
    /\ walk[t].count >= 2
    /\ plist[walk[t].curr].size = walk[t].count
    /\ walk[t].snap \in PAddr => plist[walk[t].curr].base[bucket(t)] \in PAddr
    /\ crit[t].base \notin PAddr
    /\ pc[t] # "idle" => call[t].key \in Keys
    /\ pc[t] = "refetch" => lock(t) = P_UNLOCKED
    /\ pc[t] \in {"descend", "rehash", "publish"} =>
          crit[t].next \in PAddr /\ plist[crit[t].next].size = 2 * walk[t].count
    /\ pc[t] = "punlock" => plist[walk[t].curr].base[bucket(t)] \in PAddr

\* The count of a walk is that of its depth.
DepthInv ==
    \A t \in Threads :
      walk[t].depth >= 1 /\ walk[t].count = PLIST_SIZE * Shl[walk[t].depth - 1]

\* The inductive invariant behind mutual exclusion, the permanent unlock, the
\* kinds of pointers and the bounds of the walk.
IndInv == TypeOK /\ MutualExclusion /\ SubPLists /\ \A t \in Threads : ThreadInv(t)

\* Nothing that was deallocated is used: neither the E-list a thread works on
\* (rehash frees the old one), nor one behind an unlocked bucket, nor the
\* P-list a thread stands on (freed if oldBucketBase were wrong).
NoUseAfterFree ==
    /\ \A t \in Threads :
          /\ pc[t] # "idle" => plist[walk[t].curr].live
          /\ pc[t] \in {"work", "rehash"} /\ crit[t].base # Null =>
                elist[crit[t].base].state = "live"
    /\ \A p \in PAddr : \A b \in DOMAIN plist[p].base :
          plist[p].base[b] \in EAddr /\ plist[p].lock[b] = E_UNLOCKED =>
             elist[plist[p].base[b]].state = "live"

\* An E-list never overflows its array and never holds a key twice, whoever
\* wrote it: an insert in place, a write-back of a remote copy or a rehash.
Fits(pairs) ==
    /\ Len(pairs) <= ELIST_SIZE
    /\ \A i, j \in 1..Len(pairs) : pairs[i].key = pairs[j].key => i = j

ElistSane == \A e \in EAddr : Fits(elist[e].pairs)

\* The assertion of Client::Apply: a contains or remove that succeeds reports
\* a value that was inserted under that key.
ResultMatchesKey ==
    \A t \in Threads :
      pc[t] \in {"idle", "unlock"} /\ ret[t].status /\ call[t].op # "insert" =>
         ret[t].result \in Vals[call[t].key]

\* contains and remove deallocate every buffer they read into, and no
\* operation deallocates more than it read.
BuffersReturned ==
    \A t \in Threads :
      /\ bufs[t] >= 0
      /\ pc[t] = "idle" /\ call[t].op # "insert" => bufs[t] = 0

-----------------------------------------------------------------------------
(* The inductive invariants behind these four, on top of IndInv *)

\* Bucket b of P-list p leads to E-list e: its base does, or what a thread at
\* the bucket has read, possibly long ago, from its copy of the P-list.
LeadsTo(p, b, e) ==
    \/ plist[p].base[b] = e
    \/ \E t \in Threads : (walk[t].snap = e \/ crit[t].base = e) /\ At(t) = <<p, b>>

\* Nobody can enter bucket b of P-list p any more, or somebody is on the way
\* to publish the sub-P-list that takes its place.
Closed(p, b) ==
    \/ plist[p].lock[b] = P_UNLOCKED
    \/ \E t \in Threads : pc[t] \in {"publish", "punlock"} /\ At(t) = <<p, b>>

\* A thread has an E-list in hand only under the lock it read it under, and
\* oldBucketBase is set only for a private copy.
HandInv(t) ==
    /\ crit[t].base # Null => pc[t] \in InCrit \ {"locked"}
    /\ walk[t].old => walk[t].copy

\* Stale pointers are harmless: only one bucket ever leads to an E-list, no
\* bucket leads to an address that can be handed out, and an E-list that has
\* been freed hangs off a closed bucket only.
OwnInv ==
    /\ \A p \in PAddr : plist[p].size # 0 => plist[p].live
    /\ \A t \in Threads : HandInv(t)
    /\ \A e \in EAddr, p \in PAddr : \A b \in DOMAIN plist[p].base :
          LeadsTo(p, b, e) =>
             /\ elist[e].state # "free"
             /\ elist[e].state = "freed" => Closed(p, b)
             /\ \A q \in PAddr : \A c \in DOMAIN plist[q].base :
                   LeadsTo(q, c, e) => p = q /\ b = c

\* The buffers an operation has to give back, from where it stands.
Owes(t) ==
    IF pc[t] = "idle" THEN 0
    ELSE CurrBufs(t) + (IF pc[t] = "descend" THEN 1 ELSE 0)
           + (IF pc[t] = "rehash" THEN EBufs(t) ELSE 0) + EBufs(t)

\* The buffers read into are those still to be given back; only an insert may
\* hold more (a rehash drops the copy of the parent).
BufInv ==
    \A t \in Threads : bufs[t] >= Owes(t) /\ (call[t].op # "insert" => bufs[t] = Owes(t))

\* The sub-P-list that a rehash fills is reached by nobody else: no base
\* points at it, and no thread stands on it or is about to.
PrivateInv ==
    \A t \in Threads : pc[t] \in {"rehash", "publish"} =>
        /\ crit[t].next # Root
        /\ \A p \in PAddr : \A b \in DOMAIN plist[p].base : plist[p].base[b] # crit[t].next
        /\ \A u \in Threads :
              /\ walk[u].curr # crit[t].next
              /\ pc[u] \in {"descend", "rehash", "publish"} /\ crit[u].next = crit[t].next => u = t

\* The values stand under keys they were inserted for.
Genuine(pairs) == \A i \in 1..Len(pairs) : pairs[i].val \in Vals[pairs[i].key]

\* The pairs s came from the first i - 1 of pairs.
CameFrom(s, pairs, i) ==
    /\ Len(s) < i
    /\ \A j \in 1..Len(s) : \E k \in 1..(i - 1) : s[j].key = pairs[k].key

\* The pairs a rehash has moved so far: what a bucket of the new P-list leads
\* to has come from the pairs before crit[t].i.
Moved(t) ==
    /\ crit[t].i <= Len(crit[t].pairs) + 1
    /\ \A b \in DOMAIN plist[crit[t].next].base :
          LET e == plist[crit[t].next].base[b]
          IN  e # Null => e \in EAddr /\ CameFrom(elist[e].pairs, crit[t].pairs, crit[t].i)

\* What a thread copied under the lock is sound, and until it writes is what
\* the E-list still holds.
CopyInv(t) ==
    /\ pc[t] # "idle" => call[t] \in Calls(t)
    /\ Fits(crit[t].pairs) /\ Genuine(crit[t].pairs)
    /\ pc[t] = "work" /\ IsRemoteE(t, crit[t].base) => crit[t].pairs = elist[crit[t].base].pairs
    /\ pc[t] = "rehash" => Moved(t)

\* The contents of E-lists: sound in memory and in every copy in use.
ContentInv ==
    /\ PrivateInv /\ ElistSane /\ ResultMatchesKey
    /\ \A e \in EAddr : Genuine(elist[e].pairs)
    /\ \A t \in Threads : CopyInv(t)

\* The locks make nobody wait for ever: every finite set of streams is done.
Termination == <>AllDone
=============================================================================
