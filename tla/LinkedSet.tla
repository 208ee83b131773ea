----------------------------- MODULE LinkedSet -----------------------------
(***************************************************************************)
(* The locked linked set of structures/linked_set.h: a lock word and a     *)
(* chain of nodes, each a bundle of key/value pairs.  The first node also  *)
(* keeps the number of pairs of the whole chain.                           *)
(*                                                                         *)
(* The module models every set of a table at once: the set at address l is *)
(* lock[l], nodes[l], total[l].  A process is in at most one operation of  *)
(* one set; frame[p] holds its locals.  One action is one RDMA access.     *)
(***************************************************************************)
EXTENDS Integers, Sequences, FiniteSetsExt

CONSTANTS
    Procs,            \* client threads and the server that rehashes
    Lists,            \* addresses of linked sets
    Keys,             \* keys, as std::hash maps them
    Vals,             \* values
    NODE_BUNDLE_SIZE  \* pairs of a node

ASSUME SetAssumption ==
    /\ Lists \subseteq Nat
    /\ Keys \subseteq Nat
    /\ Vals \subseteq Nat
    /\ NODE_BUNDLE_SIZE \in Nat \ {0}

LOCKED   == 1
UNLOCKED == 2
DELETED  == 3
RAW      == 0     \* memory no LinkedSet has been constructed in

VARIABLES
    lock,   \* lock[l]: the lock word of set l
    nodes,  \* nodes[l]: the chain, a sequence of sequences of pairs
    total,  \* total[l]: total_length of the first node
    frame   \* frame[p]: the set operation p runs

svars == <<lock, nodes, total, frame>>

Pair == [key : Keys, val : Vals]
Node == {s \in Seq(Pair) : Len(s) <= NODE_BUNDLE_SIZE}
Res  == [status : {"true", "false", "rehash_deleted"}, result : Vals \cup {0}]

\* Inside, between a successful acquire and the write of unlock.
Inside == {"walk", "write", "count", "add", "unlock"}

Nothing == [status |-> "false", result |-> 0]

\* The locals of an operation at its start, and of no operation: only the
\* result of the last one is left.
NewFrame(op, l, key, val) ==
    [at |-> "acquire", op |-> op, list |-> l, key |-> key, val |-> val, node |-> 1,
     buf |-> <<>>, total |-> 0, res |-> Nothing]
OutFrame(res) ==
    [at |-> "out", op |-> "none", list |-> 0, key |-> 0, val |-> 0, node |-> 1,
     buf |-> <<>>, total |-> 0, res |-> res]

\* p enters operation op on set l.
Enter(p, op, l, key, val) == frame' = [frame EXCEPT ![p] = NewFrame(op, l, key, val)]

\* p returns from its operation with result res.
Leave(p, res) == frame' = [frame EXCEPT ![p] = OutFrame(res)]

\* The sets ls as their constructor leaves them.
Construct(ls) ==
    /\ lock'  = [l \in Lists |-> IF l \in ls THEN UNLOCKED ELSE lock[l]]
    /\ nodes' = [l \in Lists |-> IF l \in ls THEN << <<>> >> ELSE nodes[l]]
    /\ total' = [l \in Lists |-> IF l \in ls THEN 0 ELSE total[l]]

-----------------------------------------------------------------------------
(* The lock *)

\* acquire: the compare-and-swap.  On a locked set it fails and is tried
\* again; on a deleted one the operation returns REHASH_DELETED.
acquire(p) ==
    LET l == frame[p].list
    IN  /\ frame[p].at = "acquire"
        /\ \/ /\ lock[l] = UNLOCKED
              /\ lock' = [lock EXCEPT ![l] = LOCKED]
              /\ frame' = [frame EXCEPT ![p].at = "walk"]
           \/ /\ lock[l] = DELETED
              /\ Leave(p, [status |-> "rehash_deleted", result |-> frame[p].val])
              /\ UNCHANGED lock
        /\ UNCHANGED <<nodes, total>>

\* unlock: a plain write of UNLOCKED; the operation returns.
unlock(p) ==
    /\ frame[p].at = "unlock"
    /\ lock' = [lock EXCEPT ![frame[p].list] = UNLOCKED]
    /\ Leave(p, frame[p].res)
    /\ UNCHANGED <<nodes, total>>

-----------------------------------------------------------------------------
(* The walk along the chain: one read of a node *)

Hits(pairs, key) == {i \in 1..Len(pairs) : pairs[i].key = key}

Node_(p)   == nodes[frame[p].list][frame[p].node]
IsLast(p)  == frame[p].node = Len(nodes[frame[p].list])
Found(p)   == Hits(Node_(p), frame[p].key) # {}
FoundAt(p) == Min(Hits(Node_(p), frame[p].key))
FoundVal(p) == Node_(p)[FoundAt(p)].val

\* p has read a node (and the total in it) and goes on to `at`.
Step(p, at, node, buf, res) ==
    /\ frame' = [frame EXCEPT ![p] = [@ EXCEPT !.at = at, !.node = node, !.buf = buf,
                                               !.total = total[frame[p].list], !.res = res]]
    /\ UNCHANGED <<lock, nodes, total>>

Walking(p, op) == frame[p].at = "walk" /\ frame[p].op = op

GoOn(p)       == ~Found(p) /\ ~IsLast(p) /\ Step(p, "walk", frame[p].node + 1, <<>>, frame[p].res)
Answer(p, s, v) == Step(p, "unlock", frame[p].node, <<>>, [status |-> s, result |-> v])

contains(p) ==
    /\ Walking(p, "contains")
    /\ \/ Found(p) /\ Answer(p, "true", FoundVal(p))
       \/ GoOn(p)
       \/ ~Found(p) /\ IsLast(p) /\ Answer(p, "false", 0)

\* Mutation: the length is cut without moving the last pair.
WithoutLast(pairs, i) == SubSeq(pairs, 1, Len(pairs) - 1)

\* The node with pair i replaced by the last one.
Without(pairs, i) == SubSeq([pairs EXCEPT ![i] = pairs[Len(pairs)]], 1, Len(pairs) - 1)

remove(p) ==
    /\ Walking(p, "remove")
    /\ \/ Found(p) /\ Step(p, "write", frame[p].node, << Without(Node_(p), FoundAt(p)) >>,
                           [status |-> "true", result |-> FoundVal(p)])
       \/ GoOn(p)
       \/ ~Found(p) /\ IsLast(p) /\ Answer(p, "false", 0)

\* Mutation: insert does not compare the keys it passes.
InsertBlind(p) ==
    LET kv   == [key |-> frame[p].key, val |-> frame[p].val]
        full == Len(Node_(p)) = NODE_BUNDLE_SIZE
        done == [status |-> "true", result |-> 0]
    IN  /\ Walking(p, "insert")
        /\ \/ full /\ ~IsLast(p) /\ Step(p, "walk", frame[p].node + 1, <<>>, frame[p].res)
           \/ full /\ IsLast(p) /\ Step(p, "write", frame[p].node, << Node_(p), <<kv>> >>, done)
           \/ ~full /\ Step(p, "write", frame[p].node, << Append(Node_(p), kv) >>, done)

\* insert looks no further than the first node with room.  A full last node
\* gets a new node behind it.
insert(p) ==
    LET kv   == [key |-> frame[p].key, val |-> frame[p].val]
        full == Len(Node_(p)) = NODE_BUNDLE_SIZE
        done == [status |-> "true", result |-> 0]
    IN  /\ Walking(p, "insert")
        /\ \/ Found(p) /\ Answer(p, "false", FoundVal(p))
           \/ full /\ GoOn(p)
           \/ ~Found(p) /\ full /\ IsLast(p)
                /\ Step(p, "write", frame[p].node, << Node_(p), <<kv>> >>, done)
           \/ ~Found(p) /\ ~full
                /\ Step(p, "write", frame[p].node, << Append(Node_(p), kv) >>, done)

-----------------------------------------------------------------------------
(* The writes at the end of insert and remove *)

\* The chain with node n replaced by buf: the node and, behind it, a new one.
Splice(chain, n, buf) == SubSeq(chain, 1, n - 1) \o buf \o SubSeq(chain, n + 1, Len(chain))

\* Write<Node>: the whole node, total_length of a first node included.
write(p) ==
    LET l == frame[p].list
    IN  /\ frame[p].at = "write"
        /\ nodes' = [nodes EXCEPT ![l] = Splice(@, frame[p].node, frame[p].buf)]
        /\ total' = IF frame[p].node = 1 THEN [total EXCEPT ![l] = frame[p].total] ELSE total
        /\ frame' = [frame EXCEPT ![p].at = "count"]
        /\ UNCHANGED lock

\* changeCount reads the first node ...
changeCount(p) ==
    /\ frame[p].at = "count"
    /\ frame' = [frame EXCEPT ![p] = [@ EXCEPT !.at = "add", !.buf = << nodes[frame[p].list][1] >>,
                                               !.total = total[frame[p].list]]]
    /\ UNCHANGED <<lock, nodes, total>>

\* Mutation: remove counts up as well.
IncrementOnly(op) == 1

Increment(op) == IF op = "insert" THEN 1 ELSE -1

\* ... and writes it back with the new total.
changeCountWrite(p) ==
    LET l == frame[p].list
    IN  /\ frame[p].at = "add"
        /\ nodes' = [nodes EXCEPT ![l] = Splice(@, 1, frame[p].buf)]
        /\ total' = [total EXCEPT ![l] = frame[p].total + Increment(frame[p].op)]
        /\ frame' = [frame EXCEPT ![p].at = "unlock"]
        /\ UNCHANGED lock

SetStep(p) ==
    \/ acquire(p) \/ contains(p) \/ insert(p) \/ remove(p)
    \/ write(p) \/ changeCount(p) \/ changeCountWrite(p) \/ unlock(p)

-----------------------------------------------------------------------------
(* What the rehash does to a set *)

\* Mutation: freeze goes on when the set is locked.
FreezeNoWait(l) == lock' = [lock EXCEPT ![l] = LOCKED] /\ UNCHANGED <<nodes, total, frame>>

\* freeze: takes the lock and keeps it; waits while the set is not UNLOCKED.
freeze(l) ==
    /\ lock[l] = UNLOCKED
    /\ lock' = [lock EXCEPT ![l] = LOCKED]
    /\ UNCHANGED <<nodes, total, frame>>

\* Mutation: melt gives the set back to its clients.
MeltUnlocks(l) == lock' = [lock EXCEPT ![l] = UNLOCKED] /\ UNCHANGED <<nodes, total, frame>>

\* melt: tells everyone who waits for the lock that the set is detached.
melt(l) == lock' = [lock EXCEPT ![l] = DELETED] /\ UNCHANGED <<nodes, total, frame>>

\* list_length reads the total with no lock.
list_length(l) == total[l]

-----------------------------------------------------------------------------
(* Views *)

\* The places of a chain, <<node, index>>, that hold a pair, and that hold key.
Filled(chain) == {s \in (1..Len(chain)) \X (1..NODE_BUNDLE_SIZE) : s[2] <= Len(chain[s[1]])}
Places(chain, key) == {s \in Filled(chain) : chain[s[1]][s[2]].key = key}

\* The number of pairs in a chain.
Pairs(chain) == Cardinality(Filled(chain))
=============================================================================
