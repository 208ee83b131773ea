# Verification of rdma_iht

TLA+ models, TLC runs and TLAPS proofs for the RDMA data structures of this
repository and for the session that runs benchmarks on them. `PROJECT.json`
lists the runs, the source lines behind each definition, the hazards, the
mutants that show each property can fail, the findings and the theorems.

## The system

| Part | State | Operations | Interacts through |
|---|---|---|---|
| `structures/iht_ds.h`, `RdmaIHT` | a tree of P-lists (arrays of base pointer + lock word) over E-lists (arrays of pairs), in RDMA memory pools | `contains`, `insert`, `remove`, `rehash`, `InitAsFirst`, `InitFromPointer` | RDMA reads, writes and compare-and-swaps of shared memory |
| `structures/linked_set.h`, `LinkedSet` | a lock word and a chain of nodes, each a bundle of pairs; the first node counts the pairs of the chain | `acquire`, `unlock`, `contains`, `insert`, `remove`, `changeCount`, `freeze`, `melt`, `foreach`, `list_length` | the same |
| `structures/hashtable.h`, `Hashtable` | a root (count, start of an array of linked sets) | `Init`, `contains`, `insert`, `remove`, `try_rehash` | the same; the root's address is sent as a `RemoteObjectProto` |
| `include/*.pb.cc`, `include/protos/*.pb.h` | messages: has bits, fields, unknown fields, a oneof that owns its submessage | accessors, `Clear`, parse, serialize, sizes, merge, copy, swap | ownership on the heap, the wire format |
| `role_client.h`, `Client` | operation stream, barrier, endpoint | `Run`, `Start`, `Apply`, `Stop` | a barrier with the threads of its node, messages with the server |
| `role_server.h`, `Server` | `done` | `Launch` | the `done` flag, messages with every client |
| `tcp.h`, `exchange_ptr.h` | listening socket, accepted sockets, endpoints | `accept_conn`, `send_to_all`, `recv_from_all`, `send_server`, `recv_server`, `ExchangePointer` | TCP |
| `main.cc` | pools, peers, threads | start everything, join, exit | all of the above |

What is hard about it:

- Threads of different nodes change one tree with one-sided RDMA. A thread that
  does not own a list works on a *private copy*, and a copy of a P-list may be
  older than the lock the thread holds. Locks are one word per bucket; after a
  rehash the word is `P_UNLOCKED` for ever and everybody walks past it without
  a lock.
- Buffers and lists are allocated and freed by hand; a flag (`oldBucketBase`)
  decides at run time whether `curr` is a private buffer or the tree itself.
- The hashtable's rehash runs against clients that hold addresses of the old
  array. It locks the old sets, shows the new array before it is filled, and at
  the end marks the old sets `DELETED`; its root is two words.
- The generated messages keep the same facts in several places: has bits against
  stored values, `ByteSizeLong` against what is written, byte groups of has bits
  in `Clear` and `MergeFrom`, the case of a oneof against the pointer it owns.
- A session is a protocol between processes: root pointers and acks go over one
  socket without a tag, barriers are met by different threads of one client,
  and a process that exits takes RDMA memory away from the others.

What makes each part correct: the table is linearizable, its locks exclude, no
pointer is taken for the wrong kind of list, no access leaves a list or touches
freed memory, and every operation ends. The hashtable's locks have one owner,
its counts are right, a rehash loses nothing, and waiting clients get on. A
message that is parsed, merged or copied is the message that was meant, and each
submessage has one owner. The session gives everybody the same
root, lets no process leave early, and ends.

## Modules

| Module | Models |
|---|---|
| `IHT` | `structures/iht_ds.h` and the operation streams of `Client::Apply` |
| `IHT_proofs` | proofs about `IHT`: locks, kinds of pointers, bounds |
| `IHTMemory_proofs` | proofs about `IHT`: lists and buffers that are freed, contents of E-lists, results |
| `ConcurrentMap` | abstract specification: a linearizable map |
| `IHTLin` | `IHT` with history variables and the refinement mapping to `ConcurrentMap` |
| `IHTLin_proofs` | proofs about `IHTLin`: where a key leads, linearizability |
| `LinkedSet` | `structures/linked_set.h`: every set of a table at once |
| `Hashtable` | `structures/hashtable.h`; extends `LinkedSet`, instantiates `RemoteObjectProto` |
| `Hashtable_proofs` | proofs about `Hashtable`: shape, owners of sets, frozen chains, `total_length` |
| `HashtableLin` | `Hashtable` with history variables and the refinement mapping to `ConcurrentMap` |
| `HashtableLin_proofs` | proofs about `HashtableLin`: where a key is, rehashes, linearizability |
| `Session` | `main.cc`, `tcp.h`, `exchange_ptr.h`, `role_client.h` (`Run`, `Start`, `Stop`), `role_server.h` |
| `Session_proofs` | proofs about `Session`: barriers, connections, shutdown |
| `Protobuf` | what the generated classes have in common: fields, has bits, entries of the wire format, sizes |
| `CounterProto`, `StopwatchProto`, `SummaryProto`, `RemoteObjectProto` | the classes without submessages |
| `Classes` | choice among them by name |
| `MetricProto` | the class with the oneof, and the heap its submessages live on |
| `Messages` | a program that uses two messages of a class in any order |
| `MessageMethods_proofs` | lemmas: what each method does to the parts of a message and to the heap |
| `Messages_proofs` | proofs about `Messages`: ownership, copies, parsing what was written, sizes |
| `MCIHT`, `MCIHTLin`, `MCHashtable`, `MCHashtableLin` | instances for TLC |

### IHT

Memory is `plist` and `elist`, indexed by address. `walk[t]` holds the locals
of the loop that all three operations share: `curr`, `depth`, `count`,
`oldBucketBase` (`old`), whether `curr` is a private copy (`copy`), and the one
base pointer of that copy the operation can use (`snap`). `crit[t]` holds what
the thread read under the lock: `base`, the copied `pairs`, the next P-list and
the loop index of a rehash. `bufs[t]` counts pool buffers.

One action is one access to shared memory together with the local code around
it. The loop head is `acquire_E` (the compare-and-swap wins), `acquire_P` (the
bucket is `P_UNLOCKED`), `refetch` (the extended read of `curr` after a failed
acquire), `descend`, `read_elist`. Under the lock come `miss`, `contains_hit`,
`remove_hit`, `insert_empty`, `insert_exists`, `insert_append`, and
`rehash_alloc`, `rehash_move` (one pair), `rehash_free`, `publish`. Unlocks are
`unlock_E` and `unlock_P`. A failed compare-and-swap on `E_LOCKED` changes
nothing and is a stutter.

Abstractions:

- Keys are the results of `pre_hash` and below 256, the width of `BitXor`
  (`MCIHT` compares `BitXor` with the `^^` of the library).
- `Allocate` returns an unused address; when none is left the model deadlocks,
  and deadlock is checked, so the address sets are large enough in every run.
  E-list addresses are never handed out twice, which makes use after free
  visible as such. The real pool may reuse them.
- A read or write of a whole list is one step. The lock protects an E-list, and
  of a P-list one bucket is used, whose base is one aligned word.
- `populate` is a loop of `insert`; `try_rehash` of this class is empty.
- The pool's own threads, alignment and the RDMA transport belong to rome and
  are external.

`IHTLin` adds no step, only history: `way[k]`, the P-lists that key `k` leads
through from the root down (it grows when the bucket at its end becomes a
P-list); `map`, what a lookup at the end of each way finds; `seen[t]`, the
values `map` had under `t`'s key since its call; `overwritten`, set by an
`insert_empty` on a bucket that is not empty; `acked`; and `writers[e]`, the
threads that have put pairs into E-list `e`, the writers of the list a rehash
splits included. The mapping to `ConcurrentMap` takes an operation that changes
the map to have done so when it goes on to unlock.

### LinkedSet and Hashtable

The set at address `l` is `lock[l]`, `nodes[l]` (the chain, a sequence of
sequences of pairs) and `total[l]`. `frame[p]` holds the locals of the set
operation that process `p` is in. One action is one RDMA access: `acquire`
(a failed compare-and-swap on `LOCKED` is a stutter, on `DELETED` the operation
returns `REHASH_DELETED`), a read of a node (`contains`, `insert`, `remove`),
`write`, the two accesses of `changeCount`, `unlock`.

`Hashtable` adds the root, the clients (`Invoke`, `readRoot`, the steps in a
set, `finish`, which starts over after `REHASH_DELETED`) and `try_rehash`, with
`rh` for its locals: `sumLengths`, `freezeSets`, `allocateSets`, `publish`,
`foreachNode`, `readd` (the callback, an `insert` of the server into the new
array), `meltSets`. `Init` of the host sends the address of the root to one
peer after the other (`sendRoot`), a peer polls for it (`TryDeliver`); the
address goes through the serializer and the parser of `RemoteObjectProto`.

Abstractions:

- `publish` writes the two words of the root one at a time, in either order. A
  client that reads the new count with the old start may index past the array;
  it then works on memory that is no set, and the model stops following it
  (`pc = "wild"`). Properties say where they leave it out.
- A node is read and written in one step: the lock protects it, and `foreach`
  reads frozen nodes. `list_length` reads without a lock, but one word.
- `populate` is a loop of `insert` before the workload. Its outcome is the
  initial state: `Populations` gives, for each set of the first array, the
  sequence of keys put into it.
- The allocator hands out arrays one behind the other and fresh nodes; a rehash
  goes on only if the new array fits into `Lists`. The code never frees a set or
  a node of a chain. Pool buffers are not counted.
- `main.cc` has the call of `try_rehash` commented out and runs `RdmaIHT`. The
  model calls it as the comment does: in one thread of the root's node.
- Peers are sent the root in any order. The error returns of `Init`
  (`hashtable.h:109` to `126`), which end the program, are left out.

`HashtableLin` adds history again: `map`, the map the sets stand for; `seen`, what
each operation has seen of it; `stored`, the keys an insert has put in a set and
released and no remove has since been called for; `known` and `clean`, whether an
operation's key has been stored since its call and whether no rehash was filling
its new array when it last read the root; `dropped`, the keys removed since the
rehash froze the old array; and the flags `holed`, `torn` and `shown` for a hole,
a half-written root that somebody met, and a rehash that shows.

### Messages

A message is `[has, val, unknown]`: the set of fields whose has bit is set, the
stored values, the unknown fields in order. A value stands for a number or for
the length of a string. The wire is a sequence of entries (tag, value, and for a
submessage its entries); sizes are counted in bytes, with the varint boundaries
of numbers below 2^21 (both sides of `SizesAgree` count with the same function).
`MetricProto` adds the case of the oneof and the address of the submessage;
`heap` maps addresses to submessages. The has bits are treated in the groups of
eight the code uses (`Low`, `High`), and `Clear` and `MergeFrom` touch a group
only when one of its bits is set.

`Messages` has one action per kind of method: set, clear, release and
set_allocated of a field, mutable, clear, release and set_allocated of a case of
the oneof, `Clear`, `MergeFrom`, `CopyFrom`, swap, and the parse of what the
other message serializes, of a field this version does not know, and of an end
of a group.

Abstractions: no arenas, so every message is on the heap; the pointer that
`clear_metric` leaves in the union is null here, as no accessor reads it while
the case is not set; malformed input, reflection, descriptors and cached sizes
are left out.

### Session

One node has a main thread, `ThreadCount` clients, the `Run` thread of its
master client (`closer`), and, on node 0, the server thread. `Hosts` are the
threads for which `self.id == host.id`, which are several when there are fewer
pools than threads. The barrier is a counter and a phase; `arrive_and_wait` is
two steps. In the third phase the `Run` thread of the master arrives instead of
its driver thread, as in the code.

Abstractions: TCP keeps the order of each connection and delivers whole
messages; `getInstance` is its unlocked test and its critical section, so that
two threads may both construct a `SocketManager`; bind and listen are one step
with the construction; the race on the `client_sockets` vector is modelled at
the granularity of one write and one accept (a reallocation during the read is
not); the driver calls `Client::Start` before the first operation and
`Client::Stop` after the last, as rome's `WorkloadDriver` does; `hostname[4] ==
'0'` is node 0; memory pools are set up before the model starts; error exits
other than a refused `connect` are left out.

## Runs

| Run | Instance | Shows |
|---|---|---|
| `iht_shared_pool` | 3 threads, 2 of them on one pool | locks, pointer kinds and walks, no use after free (with `OwnInv`), buffers of lookups and removes, permanence of `P_UNLOCKED` |
| `iht_two_pairs` | E-lists of two pairs, up to 5 operations, fair | E-lists never overflow or repeat a key; values belong to keys (with `ContentInv`); all streams end |
| `iht_inserters` | 2 threads, 2 pools, 2 operations each | linearizable up to the first overwrite of a filled bucket; nobody overwrites their own work |
| `iht_lost_insert` | the same | **violation**: an acknowledged insert is lost |
| `hashtable_live` | 2 clients, 1 rehash, a set of 2 pairs, fair | one owner per lock, right counts (with `TableInv`), frozen chains stay, every peer learns the root, calls return, the rehash ends |
| `hashtable_rehash` | 2 clients, 1 rehash, sets of 1 or 3 pairs | linearizable until a hole or a rehash; no pair lost or misplaced; a key is missed only in the middle of a rehash |
| `hashtable_duplicate` | 2 clients, no rehash | **violation**: a set holds a key twice |
| `hashtable_missed` | 2 clients, 1 rehash | **violation**: a present key is reported absent |
| `session_shutdown` | 2 nodes, 2 clients and 2 pools each, fair | safe shutdown, meaning of the ack for guests, barriers (with `HostInv`), connections accepted unless there are two managers; the session ends unless a connect was refused, a client missed the root or there are two managers |
| `session_early_exit` | 2 nodes, 2 clients, 1 pool each | **violation**: a node exits while another works |
| `session_stranded` | 2 nodes, 1 client, fair | **violation**: a client accepted late never gets the root |
| `messages` | 2 messages of each class, every pair of fields | has bits, merge, sizes, wire format and ownership agree |

Bounds.

- `IHT`: with `PLIST_SIZE = 2` only bucket 0 of the root is used, so all keys
  collide; keys 1 and 2 collide again one level down and part at depth 3. Two or
  three operations therefore reach an empty bucket, a hit, a full E-list, a
  rehash, a rehash of the result, and every mix of local and remote lists, which
  are the cases the code distinguishes.
- `Hashtable`: `INITIAL_SIZE` and `LOAD_FACTOR` are 1 instead of 10, a node
  holds 2 pairs, so one rehash has work to do and the chain of three keys has
  two nodes. Two clients with one operation each meet each other and the rehash
  at every step: the third key makes a chain grow, a remove makes a hole, and a
  client can wait for a frozen set, meet a deleted one and start over.
  `MaxRehash` is 1: a second rehash starts from a state like that of the first.
- `Session`: two nodes with two clients are the least session with a guest on
  the host's node, a guest elsewhere and a barrier that somebody waits at.
- `Messages`: values 0 (the default, set) and 200 (a varint of two bytes), every
  pair of fields of a class, which includes pairs within and across the byte
  groups of `SummaryProto`; at most `MaxUnknown` = 2 unknown fields.

`Session` runs do not check deadlock: a session ends, and one with a refused
connect, a stranded client or a second manager may hang. `Ends` states what
remains: in an instance without these, barriers, done flag and acks make the
session end. Besides the instance of the run it was checked with one node and one
to three threads and with two and three nodes of one thread, where a second
manager alone can make the session hang (the server waits for connections that
are queued at the first one); with two threads a node that case comes with a
stranded client.

Fairness. In `IHT` each thread is weakly fair: threads are scheduled, and the
driver goes on drawing operations. This gives a spinning thread the lock only
when it stays free, as a spin on compare-and-swap does; `Termination` holds
because the streams are finite. In `Session` each thread is weakly fair too:
accepts are served, written bytes arrive, and operations end (which
`Termination` checks). In `Hashtable` running threads, the sending host and the
polling peers are weakly fair, and so is `try_rehash` once it has begun. The
streams and the number of rehashes are finite, so a lock word that somebody
spins on is free for good in the end; with endless streams a spin on
compare-and-swap may starve.

### What the runs found

- *Lost insert* (`iht_ds.h:295`). `insert` locks the bucket and then takes the
  base pointer from a copy it read earlier. If the bucket was empty then and
  another thread has filled it since, the new E-list replaces the other one.
  `LinearizableUnlessOverwritten` shows this is the only way the table stops
  being linearizable. `OverwritesOthersOnly` says whose pairs are lost: those of a
  list into which only other threads have put any, by `writers`. A list the thread
  has written to itself shows in the copy it uses, whatever the pool: a stale
  non-null base is either still right or the bucket has become `P_UNLOCKED`, in
  which case the lock cannot be taken. A table with one inserting thread is
  linearizable (`SingleInserterLinearizable`).
- *Duplicate key* (`linked_set.h:170`). `insert` stops at the first node with
  room. After a remove from an earlier node it does not reach a later node that
  holds the key. `OnceUnlessHoled` shows there is no other way.
- *Missed key* (`hashtable.h:267`). The rehash shows the new array before it is
  filled. `FoundUnlessMidRehash` shows that a client which read the root before
  or after is not affected: it waits for the frozen set and starts over.
- *Early exit* (`role_client.h:252`) and *stranded client*
  (`exchange_ptr.h:30`): root messages and acks are not told apart, and the host
  sends to the sockets accepted so far.

Visible in the models, without a run of their own: an insert that rehashes
through a private copy of the parent does not give that copy back
(`oldBucketBase = false` at `iht_ds.h:348`; `BuffersReturned` is therefore about
lookups and removes); the host takes its own root message for the ack
(`GuestAckMeansDone` is about the other clients); with fewer pools than threads
there are several hosts and as many tables (`main.cc:178`); and the host's thread
can make a second `SocketManager` between the server's `listen` and its
assignment of `self`, as `getInstance` tests `self` before it takes the mutex and
not again behind it (`tcp.h:153`, although the comment on the mutex means to rule
that out). The server may then accept or answer at another manager than the
clients are connected to, and wait for ever. `Accepted` and `Ends` leave these
sessions out, and those with a refused connect, of which the repository promises
nothing; the safety properties hold in them.

## Proofs

All safety properties of `IHT`, `IHTLin`, `Hashtable`, `HashtableLin` and
`Session` that a run checks are theorems, for every value of the constants that
satisfies the modules' assumptions: invariants, action properties, and that both
tables implement `ConcurrentMap` as far as they do. Each rests on an inductive
invariant that TLC found to hold on the run's instance before it was proved. The
runs keep `OwnInv`, `ContentInv`, `TableInv` and `HostInv`, which say more about
the code than the properties that follow from them; `IndInv`, `BufInv`,
`CountInv` and `SessionInv`, which mostly join parts that the runs check one by
one, and `LinInv`, `WorkInv` and `KeyInv`, which are about history, are left to
their proofs.

### IHT

Assumption: `ConstAssumption` (`PLIST_SIZE >= 2` because `level_hash` takes a
remainder by `count - 1`, E-lists of at least one pair, keys below 256, P-list
and E-list addresses disjoint and none of them `Null`, `Root` a P-list, natural
values).

| Theorem | Inductive invariant | Says |
|---|---|---|
| `TypeCorrect`, `MutualExclusionHolds`, `PointerKindsHolds`, `WalkInBoundsHolds`, `PermanentUnlockHolds` | `IndInv` (`Inductive`) | locks exclude, no pointer is taken for the wrong kind of list, every P-list has the size it is read and hashed with, a `P_UNLOCKED` bucket never changes |
| `NoUseAfterFreeHolds` | `OwnInv` (`OwnInvariant`) | nothing that was freed is used |
| `BuffersReturnedHolds` | `BufInv` (`BufInvariant`) | lookups and removes give back every buffer |
| `ElistSaneHolds`, `ResultMatchesKeyHolds` | `ContentInv` (`ContentInvariant`) | no E-list overflows or repeats a key, results belong to keys |

`IndInv` is needed because none of its parts is inductive alone. `PointerKinds`
says that a thread that holds a lock finds no P-list in its copy. The copy may
be old, so one must know that a copy never runs ahead of memory (`ThreadInv`: if
the copy shows a P-list, so does memory), that a P-list in memory stands under
`P_UNLOCKED` unless its publisher is about to write that word (`SubPLists`), and
that the publisher is the one holder of the lock (`MutualExclusion`).
`WalkInBounds` says of the P-list in hand that its size is `count` and
`PLIST_SIZE` times `1 << (depth - 1)`, the factor of the extended read, and of
the next one that `1 << depth` is its factor. It needs that each level is twice
as large as the one above (`SubPLists`) and that the P-list in hand has the size
`count` (`ThreadInv`); the depth is a lemma on top of `IndInv`
(`DepthInvariant`). `Shl`, the shift, is a recursive function; its equation is
proved by induction over the set of numbers up to which it has a solution
(`SetInduction`). The proof has one lemma per action; `QuietStep` covers the
steps that change no lock word and no base, `OwnBucketStep` those that change
the one bucket the thread stands at, and `LevelHashRange` shows that a bucket
index is inside its list when the list has at least two buckets.

`OwnInv` answers for the pointers in old copies. `LeadsTo(p, b, e)` holds when
bucket `b` of P-list `p`, or what any thread at that bucket read of it at any
time, points at E-list `e`. Only one bucket leads to an E-list, so whoever frees
it under that bucket's lock frees it for all; and a freed E-list hangs off a
`Closed` bucket, which nobody can enter again. That the stale base of a private
copy is used after the lock is taken (the cause of the lost insert) is therefore
harmless for memory.

`BufInv` relates the count of buffers to the place in the code: `Owes(t)` is
what the operation still has to give back. `ContentInv` needs that the
sub-P-list a rehash fills is reached by nobody else (`PrivateInv`), that each
pair it holds came from the part of the old E-list already moved (`Moved`, which
is why no key is in it twice and why it cannot overflow), and that the copy made
under the lock is what the E-list still holds until its owner writes
(`CopyInv`).

### IHT as a map

| Theorem | Says |
|---|---|
| `LinInvariant` | `LinInv` is an invariant |
| `LinearizableHolds` | up to the first overwrite every step is a step of `ConcurrentMap` or a stutter |
| `OverwritesOthersOnlyHolds` | what an insert overwrites is an E-list that only other threads wrote to, one of them inserting |
| `SingleInserterLinearizable` | if at most one thread's `Mix` has inserts, `IHTLin` implements `ConcurrentMap` without a condition |

`LinInv` stands on `IndInv`, `OwnInv` and `ContentInv` and has five parts, none
inductive alone. `WayInv`: the way of a key follows the bases down to a bucket
that is not a P-list, P-lists are equally deep in all ways, and a thread in an
operation is on the way of its key, so that the bucket it locks is the one whose
E-list decides about its key. `FillInv`: what the new P-list of a rehash leads to
under a key is what the pairs moved so far hold under it; at `publish` these are
all, so the map stays when the way grows. `FreshInv`: until the first overwrite,
what a thread read of its bucket, however long ago, is what the bucket leads to
now, unless it was empty or has become a P-list; with the lock held only the
empty case is left, which is the lost insert. `FilledInv`: in a bucket that
a thread took for empty only other threads have put pairs since, one of which
inserts. `SeenInv`: the answer of an
operation that changes nothing was true at some moment since its call; for an
empty bucket that moment is when the copy of the P-list was made, not when the
lock was taken. With them, `remove_hit` maps to the abstract commit of a remove,
`insert_append` and `insert_empty` to that of an insert, `Invoke` and `unlock_E`
to call and return, and every other step to a stutter.

### Hashtable

Assumptions: `SetAssumption` and `TableAssumption` on sizes and populations. That
the clients receive the address `Init` sends is proved (`RootTravels`): the
serializer writes one entry, and the parser of `RemoteObjectProto` finds it.

`TableInv` (`TableInvariant`) says, phase by phase of `try_rehash`, what the
root is (`RehashInv`), which sets exist and which are out of use (`ArrayInv`),
who owns which lock (`OwnerInv`), and what a process may rely on inside a set
(`FrameInv`). From it: `Typed`, `Exclusive` (a locked set has exactly one
owner) and the action property `FrozenStaysProved` (nobody changes the chain of
a set that is frozen or behind the root, however old the address in hand).
`CountInv` (`CountInvariant`) adds that between the write of a node and that of
the total the count is behind by exactly one operation, and gives
`CountMatchesProved`. It rests on lemmas about the length of a chain under the
replacement of a node.

### Hashtable as a map

`WorkInv` (`WorkInvariant`) says what a process has learned on its way along a
chain and is still true: the nodes it has passed do not hold its key, without a
hole they are full, what it is about to write is made of the node as it is, and
the server works in a set only to insert into the new array. `KeyInv`
(`KeyInvariant`) says where each key is: in one place of a chain until a remove
has left a hole, in the set it hashes to unless a client met a half-written root,
and, once `foreach` has passed it, in the new array, on its way there, or removed
there. It also relates the map and what each operation has seen to the chains.
From them follow `OnceUnlessHoledProved`, `RightSetProved`,
`RehashKeepsKeysProved`, the action property `FoundProved`
(`FoundUnlessMidRehash`), and the refinement `LinearizableProved`
(`LinearizableUntilHoleOrRehash`), step by step: without a hole or a rehash that
shows, a write of a node is a commit and every other step is a call, a return or
a stutter.

### Session

Assumption: `SessionAssumption` (at least one node and one thread per node, and
from one pool to one per thread).

`SessionInv` (`SessionInvariant`) holds for any number of hosts and has four
parts: `BarrierInv`, where each client can be in each phase of its node's
barrier, and that the barrier's counter is the number of clients that arrived;
`LineInv`, every endpoint is queued or accepted once, and only the server's
manager accepts; `SelfInv`, a manager is made by the server or by a host that
found no `self`, once each; `LoopInv`, the loops over `client_sockets` stay in
it, and the server answers only when it has a message of every client, which is
the pigeonhole argument `LineBound`: as many sockets as clients, none twice, so
all of them. From it `SessionTyped` and `ClientsInStep`.

With a pool for each thread (`OneHost`) there is one host, and `HostInv`
(`HostInvariant`) says that every other client gets the root once, so that a
second message is the server's, and that the host and the server end up with the
same manager. `ShutdownIsSafe` and `AckMeansDone` follow. The hypothesis cannot
be dropped: with fewer pools `session_early_exit` violates `SafeShutdown`.

### Messages

Assumption: `MessagesAssumption` (values are natural numbers, and at least one
field is used). Values, the number of fields in use and the number of unknown
entries are not bounded in the proofs.

| Theorem | Says |
|---|---|
| `MessageInvariant` | `Inv` is an invariant |
| `UnsetDefaultProved` | what is not set has its default (`UnsetIsDefault`) |
| `OwnedOnceProved` | a submessage has one owner, and none is leaked |
| `CopyIsEqualProved` | a copy equals its source, shares no submessage with it and leaves it alone |
| `RoundTripProved` | what was written is what is read |
| `ConcatMergesProved` | parsing two messages in a row is `MergeFrom` |
| `SizesAgreeProved` | `ByteSizeLong` counts what is written |

`Inv` says of a class without submessages that its messages are sane (what is not
set has its default, what is unknown is no field), and of metrics that each owns
at most one sane message of the class its case names, that no two owners share
one, and that the heap holds nothing else. A message alone would not do: what a
metric's method changes is its own part of the heap, so the lemmas about a metric
(`States`) are stated for any heap of others' messages and hold for both metrics
at once.

Reading, writing and sizes all run an operator over a sequence (`Through`).
`MessageMethods_proofs` shows for each that one more entry at the end is one more
step, and proves the rest by induction over the set of sequences for which the
claim holds (`SeqInduct`), which avoids the induction theorems that take an
operator. `ConcatMergesProved` compares what two runs leave field by field: the
entries of a message set its fields one after the other, `MergeFrom` a group of
them at a time. For `SizesAgreeProved` both sides are sums over the fields in
order of their numbers, and a nested message counts with the prefix of its length.

### Only model-checked

- Liveness, which needs fairness: `Termination`, `Ends`, `AllGetRoot`,
  `Accepted`, `CallsReturn`, `RehashEnds`, `Joins`.

## Not modelled

- `structures/test_map.h`, `test_map2.h`: stand-ins to measure the RDMA layer;
  they promise no map behaviour.
- `context_manager.h`: a scope guard without state.
- arenas, reflection and descriptor tables of the generated protobuf code, and
  `AckProto`, an empty message that no code uses.
- scripts; QPS control and the metrics of the client: no logic of the data
  structures or the session.
- error exits of `tcp.h` other than a refused `connect`.
- rome (memory pools, RDMA, channels, workload driver): external, modelled from
  its use.

## Plan

Done: both tables with their comparison to the abstract map, the session with
the race in `getInstance`, the generated messages; proofs of every safety
property that a run checks.

Left: liveness stays with TLC, as above.
