----------------------------- MODULE Hashtable -----------------------------
(***************************************************************************)
(* The two-level hashtable of structures/hashtable.h: a root with a count  *)
(* and the address of an array of LinkedSets.  Clients read the root, then *)
(* operate on the set of their key; the server that owns the root doubles  *)
(* the array when it holds too many pairs.                                 *)
(*                                                                         *)
(* Every client is in one operation at a time and keeps starting over      *)
(* while the set it reaches is a deleted one.                              *)
(***************************************************************************)
EXTENDS LinkedSet

CONSTANTS
    Threads,       \* client threads
    Server,        \* the thread of the root's owner that calls try_rehash
    INITIAL_SIZE,  \* sets of the first array (template parameter)
    LOAD_FACTOR,   \* pairs per set from which an array is doubled (10)
    Populations,   \* what populate may have done: the keys inserted into each set, in order
    Mix,           \* Mix[t] = the kinds of operation thread t draws
    OpCount,       \* OpCount[t] = the number of operations of thread t
    MaxRehash      \* bound: calls of try_rehash

\* The allocator hands out arrays one behind the other, each twice as long as
\* the one before: the array at start has this many sets.
SizeAt(start) == start + INITIAL_SIZE

OpKinds == {"contains", "insert", "remove"}

keyhash(key, count) == key % count
indexAt(start, index) == start + index

\* populate inserts a key into the set it hashes to, and once.
Populated(pop) ==
    \A i \in 0..(INITIAL_SIZE - 1) : \A j, k \in 1..Len(pop[i]) :
        /\ keyhash(pop[i][j], INITIAL_SIZE) = i
        /\ pop[i][j] = pop[i][k] => j = k

ASSUME TableAssumption ==
    /\ Server \notin Threads /\ Procs = Threads \cup {Server}
    /\ INITIAL_SIZE \in Nat \ {0}
    /\ LOAD_FACTOR \in Nat
    /\ MaxRehash \in Nat
    /\ 0..(INITIAL_SIZE - 1) \subseteq Lists
    /\ Populations \subseteq [0..(INITIAL_SIZE - 1) -> Seq(Keys)]
    /\ \A pop \in Populations : Populated(pop)
    /\ Vals = Keys                          \* populate and the clients bind a key to itself
    /\ Mix \in [Threads -> SUBSET OpKinds]
    /\ OpCount \in [Threads -> Nat]

VARIABLES
    root,   \* the HashArray of the root: count and bucket_start
    call,   \* the operation each client runs
    pc,     \* where each client stands in it
    ret,    \* the result of each client's last operation
    todo,   \* operations left to each client
    rh,     \* the locals of try_rehash, and of Init on the host
    chan,   \* messages from the host's connection manager to each client
    own     \* the pointer to the root that each process holds

xvars == <<chan, own>>
tvars == <<root, call, pc, ret, todo, rh, xvars>>
vars  == <<svars, tvars>>

NoCall == [op |-> "none", key |-> 0, val |-> 0]
NoRes  == [status |-> FALSE, result |-> -1]
Calls(t) ==
    {c \in [op : Mix[t], key : Keys, val : Vals \cup {0}] :
        c.val = IF c.op = "insert" THEN c.key ELSE 0}

rhAt(at) == rh.at = at
Idle == [at |-> "idle", old |-> [count |-> 0, start |-> 0], i |-> 0, sum |-> 0,
         node |-> 1, todo |-> <<>>, calls |-> 0]

\* A pointer is the id of the pool's owner and the address in it.
RootPtr == [id |-> Server, address |-> 200]
NoPtr   == [id |-> Server, address |-> 0]

-----------------------------------------------------------------------------
(* Init: the host calls InitArray and sends every peer the address of its    *)
(* root.  populate, a loop of insert that the clients run before their       *)
(* workload, is summarised in the initial state.                             *)

RemoteObject == INSTANCE RemoteObjectProto

\* The chain of a set after the inserts of these keys.
Chain(ks) ==
    LET B == NODE_BUNDLE_SIZE
        n == IF ks = <<>> THEN 1 ELSE (Len(ks) + B - 1) \div B
    IN  [j \in 1..n |-> [i \in 1..Min({B, Len(ks) - (j - 1) * B}) |->
                            [key |-> ks[(j - 1) * B + i], val |-> ks[(j - 1) * B + i]]]]

InitArray ==
    /\ root = [count |-> INITIAL_SIZE, start |-> 0]
    /\ lock = [l \in Lists |-> IF l < INITIAL_SIZE THEN UNLOCKED ELSE RAW]

populate(pop) ==
    /\ nodes = [l \in Lists |-> IF l < INITIAL_SIZE THEN Chain(pop[l]) ELSE <<>>]
    /\ total = [l \in Lists |-> IF l < INITIAL_SIZE THEN Len(pop[l]) ELSE 0]

Init ==
    /\ InitArray
    /\ \E pop \in Populations : populate(pop)
    /\ frame = [p \in Procs |-> OutFrame(Nothing)]
    /\ call = [t \in Threads |-> NoCall]
    /\ pc = [t \in Threads |-> "join"]
    /\ ret = [t \in Threads |-> [status |-> FALSE, result |-> 0]]
    /\ todo = OpCount
    /\ rh = [Idle EXCEPT !.at = "send"]
    /\ chan = [t \in Threads |-> <<>>]
    /\ own = [p \in Procs |-> IF p = Server THEN RootPtr ELSE NoPtr]

told(t) == chan[t] # <<>> \/ own[t] # NoPtr
proto   == RemoteObject!set(RemoteObject!New, "raddr", RootPtr.address)
Wire    == RemoteObject!InternalSerialize(proto)

\* Mutation: the loop over the peers leaves at the last one.
SendButLast ==
    /\ rhAt("send")
    /\ \E t \in Threads :
         /\ ~told(t)
         /\ chan' = [chan EXCEPT ![t] = Append(@, Wire)]
         /\ rh' = IF Cardinality({u \in Threads : ~told(u)}) <= 2 THEN Idle ELSE rh
    /\ UNCHANGED <<svars, root, call, pc, ret, todo, own>>

\* Init on the host: one peer after the other.
sendRoot ==
    /\ rhAt("send")
    /\ \E t \in Threads :
         /\ ~told(t)
         /\ chan' = [chan EXCEPT ![t] = Append(@, Wire)]
         /\ rh' = IF \A u \in Threads \ {t} : told(u) THEN Idle ELSE rh
    /\ UNCHANGED <<svars, root, call, pc, ret, todo, own>>

\* Init on a peer: TryDeliver until there is a message, then decode it.
TryDeliver(t) ==
    /\ pc[t] = "join"
    /\ \/ chan[t] = <<>> /\ UNCHANGED vars
       \/ /\ chan[t] # <<>>
          /\ LET got == RemoteObject!InternalParse(RemoteObject!New, Head(chan[t]))
             IN  own' = [own EXCEPT ![t] = [id |-> Server, address |-> got.val["raddr"]]]
          /\ chan' = [chan EXCEPT ![t] = Tail(@)]
          /\ pc' = [pc EXCEPT ![t] = "idle"]
          /\ UNCHANGED <<svars, root, call, ret, todo, rh>>

-----------------------------------------------------------------------------
(* contains, insert and remove of the table *)

Invoke(t) ==
    /\ pc[t] = "idle" /\ todo[t] > 0
    /\ \E c \in Calls(t) : call' = [call EXCEPT ![t] = c]
    /\ pc' = [pc EXCEPT ![t] = "start"]
    /\ ret' = [ret EXCEPT ![t] = NoRes]
    /\ todo' = [todo EXCEPT ![t] = @ - 1]
    /\ UNCHANGED <<svars, root, rh, xvars>>

\* Read the root and the set its two words lead to.  A client that meets the
\* new count with the old start may index past the array: it then works on
\* whatever memory lies there, and the model follows it no further ("wild").
readRoot(t) ==
    LET index == keyhash(call[t].key, root.count)
    IN  /\ pc[t] = "start"
        /\ IF own[t] = RootPtr /\ index < SizeAt(root.start)
           THEN /\ pc' = [pc EXCEPT ![t] = "set"]
                /\ Enter(t, call[t].op, indexAt(root.start, index), call[t].key, call[t].val)
           ELSE /\ pc' = [pc EXCEPT ![t] = "wild"]
                /\ UNCHANGED frame
        /\ UNCHANGED <<lock, nodes, total, root, call, ret, todo, rh, xvars>>

setStep(t) ==
    /\ SetStep(t)
    /\ UNCHANGED tvars

\* Mutation: a client that found its set deleted reports that the key is absent.
FinishNoRetry(t) ==
    /\ pc[t] = "set" /\ frame[t].at = "out"
    /\ pc' = [pc EXCEPT ![t] = "idle"]
    /\ ret' = [ret EXCEPT ![t] = [status |-> frame[t].res.status = "true",
                                  result |-> frame[t].res.result]]
    /\ call' = [call EXCEPT ![t] = NoCall]
    /\ UNCHANGED <<svars, root, todo, rh, xvars>>

\* Mutation: a client starts over with the array it read first.
FinishSameArray(t) ==
    /\ pc[t] = "set" /\ frame[t].at = "out"
    /\ \/ /\ frame[t].res.status = "rehash_deleted"
          /\ Enter(t, call[t].op, indexAt(0, keyhash(call[t].key, INITIAL_SIZE)),
                   call[t].key, call[t].val)
          /\ UNCHANGED <<pc, ret, call>>
       \/ /\ frame[t].res.status # "rehash_deleted"
          /\ pc' = [pc EXCEPT ![t] = "idle"]
          /\ ret' = [ret EXCEPT ![t] = [status |-> frame[t].res.status = "true",
                                        result |-> frame[t].res.result]]
          /\ call' = [call EXCEPT ![t] = NoCall]
          /\ UNCHANGED frame
    /\ UNCHANGED <<lock, nodes, total, root, todo, rh, xvars>>

\* The set operation has returned: start over if the set was deleted.
finish(t) ==
    /\ pc[t] = "set" /\ frame[t].at = "out"
    /\ \/ /\ frame[t].res.status = "rehash_deleted"
          /\ pc' = [pc EXCEPT ![t] = "start"]
          /\ UNCHANGED <<ret, call>>
       \/ /\ frame[t].res.status # "rehash_deleted"
          /\ pc' = [pc EXCEPT ![t] = "idle"]
          /\ ret' = [ret EXCEPT ![t] = [status |-> frame[t].res.status = "true",
                                        result |-> frame[t].res.result]]
          /\ call' = [call EXCEPT ![t] = NoCall]
    /\ UNCHANGED <<svars, root, todo, rh, xvars>>

-----------------------------------------------------------------------------
(* try_rehash, called again and again by the owner of the root *)

newStart == rh.old.start + rh.old.count
newCount == rh.old.count * 2
oldList(i) == indexAt(rh.old.start, i)
OldLists == {oldList(i) : i \in 0..(rh.old.count - 1)}
\* Mutation: only as many new sets are constructed as there were old ones.
NewListsShort == {indexAt(newStart, i) : i \in 0..(rh.old.count - 1)}

NewLists == {indexAt(newStart, i) : i \in 0..(newCount - 1)}

\* try_rehash goes from set to set, and on to `next` behind the last one.
advance(next) ==
    rh' = IF rh.i + 1 = rh.old.count THEN [rh EXCEPT !.at = next, !.i = 0]
          ELSE [rh EXCEPT !.i = @ + 1]

try_rehash ==
    /\ rhAt("idle") /\ rh.calls < MaxRehash
    /\ rh' = [Idle EXCEPT !.at = "sum", !.old = root, !.calls = rh.calls + 1]
    /\ UNCHANGED <<svars, root, call, pc, ret, todo, xvars>>

\* Sum up the lengths; behind the last set, compare with the load factor.
sumLengths ==
    LET sum == rh.sum + list_length(oldList(rh.i))
    IN  /\ rhAt("sum")
        /\ rh' = IF rh.i + 1 < rh.old.count THEN [rh EXCEPT !.i = @ + 1, !.sum = sum]
                 ELSE IF sum < rh.old.count * LOAD_FACTOR THEN [Idle EXCEPT !.calls = rh.calls]
                 ELSE [rh EXCEPT !.at = "freeze", !.i = 0, !.sum = 0]
        /\ UNCHANGED <<svars, root, call, pc, ret, todo, xvars>>

freezeSets ==
    /\ rhAt("freeze")
    /\ freeze(oldList(rh.i))
    /\ advance("allocate")
    /\ UNCHANGED <<root, call, pc, ret, todo, xvars>>

\* The pool has room for the new array, or the process ends here.
allocateSets ==
    /\ rhAt("allocate") /\ NewLists \subseteq Lists
    /\ Construct(NewLists)
    /\ rh' = [rh EXCEPT !.at = "publish"]
    /\ UNCHANGED <<frame, root, call, pc, ret, todo, xvars>>

\* *root = hashArrayTemp: two words, in whatever order the copy stores them.
publish ==
    /\ rhAt("publish")
    /\ \/ root.count # newCount /\ root' = [root EXCEPT !.count = newCount]
       \/ root.start # newStart /\ root' = [root EXCEPT !.start = newStart]
    /\ rh' = IF root' = [count |-> newCount, start |-> newStart]
             THEN [rh EXCEPT !.at = "foreach"] ELSE rh
    /\ UNCHANGED <<svars, call, pc, ret, todo, xvars>>

\* Mutation: foreach does not visit the last node of a longer chain.
ForeachShort ==
    LET chain == nodes[oldList(rh.i)]
    IN  /\ rhAt("foreach")
        /\ IF rh.node < Len(chain)
           THEN rh' = [rh EXCEPT !.at = "readd", !.todo = chain[rh.node], !.node = @ + 1]
           ELSE rh' = IF rh.i + 1 = rh.old.count THEN [rh EXCEPT !.at = "melt", !.i = 0, !.node = 1]
                      ELSE [rh EXCEPT !.i = @ + 1, !.node = 1]
        /\ UNCHANGED <<svars, root, call, pc, ret, todo, xvars>>

\* Mutation: foreach never follows next.
ForeachStuck ==
    /\ rhAt("foreach")
    /\ rh' = [rh EXCEPT !.at = "readd", !.todo = nodes[oldList(rh.i)][1]]
    /\ UNCHANGED <<svars, root, call, pc, ret, todo, xvars>>

\* foreach reads the next node of the set, and goes on behind the last one.
foreachNode ==
    LET chain == nodes[oldList(rh.i)]
    IN  /\ rhAt("foreach")
        /\ IF rh.node <= Len(chain)
           THEN rh' = [rh EXCEPT !.at = "readd", !.todo = chain[rh.node], !.node = @ + 1]
           ELSE rh' = IF rh.i + 1 = rh.old.count THEN [rh EXCEPT !.at = "melt", !.i = 0, !.node = 1]
                      ELSE [rh EXCEPT !.i = @ + 1, !.node = 1]
        /\ UNCHANGED <<svars, root, call, pc, ret, todo, xvars>>

\* Mutation: the pairs are spread over the new array with the old count.
ReaddOldCount ==
    /\ rhAt("readd") /\ frame[Server].at = "out"
    /\ IF rh.todo = <<>> THEN rh' = [rh EXCEPT !.at = "foreach"] /\ UNCHANGED frame
       ELSE LET kv == Head(rh.todo)
            IN  /\ Enter(Server, "insert", indexAt(newStart, keyhash(kv.key, rh.old.count)),
                         kv.key, kv.val)
                /\ rh' = [rh EXCEPT !.todo = Tail(@)]
    /\ UNCHANGED <<lock, nodes, total, root, call, pc, ret, todo, xvars>>

\* The function foreach calls: insert the pair into its set of the new array.
readd ==
    /\ rhAt("readd") /\ frame[Server].at = "out"
    /\ IF rh.todo = <<>> THEN rh' = [rh EXCEPT !.at = "foreach"] /\ UNCHANGED frame
       ELSE LET kv == Head(rh.todo)
            IN  /\ Enter(Server, "insert", indexAt(newStart, keyhash(kv.key, newCount)),
                         kv.key, kv.val)
                /\ rh' = [rh EXCEPT !.todo = Tail(@)]
    /\ UNCHANGED <<lock, nodes, total, root, call, pc, ret, todo, xvars>>

readdStep == SetStep(Server) /\ UNCHANGED tvars

meltSets ==
    /\ rhAt("melt")
    /\ melt(oldList(rh.i))
    /\ IF rh.i + 1 = rh.old.count THEN rh' = [Idle EXCEPT !.calls = rh.calls]
       ELSE rh' = [rh EXCEPT !.i = @ + 1]
    /\ UNCHANGED <<root, call, pc, ret, todo, xvars>>

-----------------------------------------------------------------------------
(* Specification *)

Client(t) == TryDeliver(t) \/ Invoke(t) \/ readRoot(t) \/ setStep(t) \/ finish(t)
Rehash == try_rehash \/ sumLengths \/ freezeSets \/ allocateSets \/ publish
            \/ foreachNode \/ readd \/ readdStep \/ meltSets

Quiet == (\A t \in Threads : pc[t] \in {"idle", "wild"} /\ (pc[t] = "idle" => todo[t] = 0))
            /\ rh.at = "idle" /\ rh.calls = MaxRehash
Finished == Quiet /\ UNCHANGED vars

Next == (\E t \in Threads : Client(t)) \/ sendRoot \/ Rehash \/ Finished
Spec == Init /\ [][Next]_vars

\* A running thread takes its next step.  The streams are finite, so a lock
\* word that somebody spins on is free for good in the end.
Fairness ==
    /\ WF_vars(sendRoot)
    /\ \A t \in Threads : /\ WF_vars(TryDeliver(t))
                         /\ WF_vars(readRoot(t) \/ setStep(t) \/ finish(t))
    /\ WF_vars(Rehash /\ rh.at # "idle")

FairSpec == Spec /\ Fairness

-----------------------------------------------------------------------------
(* Properties *)

\* The variables keep their types, and a frame inside a set names one that has
\* been constructed (a client of a half-written root is not in a frame).
TypeOK ==
    /\ lock \in [Lists -> {RAW, LOCKED, UNLOCKED, DELETED}]
    /\ \A l \in Lists : \A n \in 1..Len(nodes[l]) : nodes[l][n] \in Node
    /\ total \in [Lists -> Int]
    /\ root.count \in Nat \ {0} /\ root.start \in Lists
    /\ pc \in [Threads -> {"join", "idle", "start", "set", "wild"}]
    /\ todo \in [Threads -> Nat]
    /\ \A p \in Procs : own[p] \in {NoPtr, RootPtr}
    /\ \A p \in Procs : frame[p].at # "out" => frame[p].list \in Lists /\ lock[frame[p].list] # RAW

\* The sets the rehash has frozen and not yet marked as deleted.
FrozenFrom == IF rhAt("melt") THEN rh.i ELSE 0
FrozenTo   == CASE rhAt("freeze") -> rh.i
                [] rh.at \in {"allocate", "publish", "foreach", "readd", "melt"} -> rh.old.count
                [] OTHER -> 0
Frozen     == {oldList(i) : i \in FrozenFrom..(FrozenTo - 1)}
Holders(l) == {p \in Procs : frame[p].at \in Inside /\ frame[p].list = l}

\* acquire, unlock, freeze and melt keep one owner per set: a locked set has
\* exactly one client inside, or none and the rehash has frozen it; a free or
\* deleted set has none.
OneOwner ==
    \A l \in Lists :
        Cardinality(Holders(l)) + (IF l \in Frozen THEN 1 ELSE 0) = IF lock[l] = LOCKED THEN 1 ELSE 0

\* total_length, which every insert and remove changes by reading and writing
\* back the first node, is the number of pairs whenever nobody is inside the
\* set: list_length may only be off by operations under way.
CountMatches ==
    \A l \in Lists : Holders(l) = {} => total[l] = Pairs(nodes[l])

-----------------------------------------------------------------------------
(* The inductive invariant behind TypeOK, OneOwner and FrozenStays *)

Frames ==
    [at : Inside \cup {"out", "acquire"}, op : OpKinds \cup {"none"}, list : Lists,
     key : Keys \cup {0}, val : Vals \cup {0}, node : Nat \ {0}, buf : Seq(Node), total : Int, res : Res]

SetTypes ==
    /\ lock \in [Lists -> {RAW, LOCKED, UNLOCKED, DELETED}]
    /\ nodes \in [Lists -> Seq(Node)]
    /\ total \in [Lists -> Int]
    /\ frame \in [Procs -> Frames]

Locals ==
    [at : {"send", "idle", "sum", "freeze", "allocate", "publish", "foreach", "readd", "melt"},
     old : [count : Nat, start : Nat], i : Nat, sum : Int, node : Nat \ {0},
     todo : Seq(Pair), calls : Nat]

TableTypes ==
    /\ root \in [count : Nat \ {0}, start : Lists]
    /\ call \in [Threads -> [op : OpKinds \cup {"none"}, key : Keys \cup {0}, val : Vals \cup {0}]]
    /\ pc \in [Threads -> {"join", "idle", "start", "set", "wild"}]
    /\ todo \in [Threads -> Nat]
    /\ rh \in Locals
    /\ chan \in [Threads -> Seq({Wire})]
    /\ own \in [Procs -> {NoPtr, RootPtr}]

\* The sets of the array that begins at start, and whether all exist.
ArrayAt(start) == start..(start + SizeAt(start) - 1)
Exists(start)  == \A l \in ArrayAt(start) : l \in Lists /\ lock[l] # RAW

\* Behind this address nothing has been constructed yet.
Top == IF rh.at \in {"publish", "foreach", "readd", "melt"} THEN newStart + newCount
       ELSE root.start + root.count

\* What try_rehash may rely on: the array it read is the array of the root
\* until it writes to the root, and the new one is in place behind it.
RehashInv ==
    /\ rh.at \in {"send", "idle", "sum", "freeze", "allocate"} => root.count = SizeAt(root.start)
    /\ rh.at \notin {"send", "idle"} => rh.old.count = SizeAt(rh.old.start) /\ rh.i < rh.old.count
    /\ rh.at \in {"sum", "freeze", "allocate"} => root = rh.old
    /\ rh.at = "publish" => /\ root.count \in {rh.old.count, newCount}
                            /\ root.start \in {rh.old.start, newStart}
    /\ rh.at \in {"foreach", "readd", "melt"} => root.count = newCount /\ root.start = newStart
    /\ rh.at \in {"publish", "foreach", "readd", "melt"} => Exists(rh.old.start) /\ Exists(newStart)

\* Which sets exist and which of them are out of use.
ArrayInv ==
    /\ Exists(root.start)
    /\ \A l \in Lists : l >= Top => lock[l] = RAW
    /\ \A l \in Lists : l < root.start => lock[l] = DELETED \/ l \in Frozen
    /\ \A l \in Lists : lock[l] # RAW => nodes[l] # <<>>

\* What a process may rely on inside a set.
FrameInv(p) ==
    LET f == frame[p]
    IN  /\ f.at # "out" => /\ lock[f.list] # RAW
                           /\ f.key \in Keys /\ f.op \in OpKinds
                           /\ f.op = "insert" => f.val \in Vals
        /\ f.at = "acquire" => f.node = 1
        /\ f.at \in Inside => f.node \in 1..Len(nodes[f.list])
        /\ f.at \in {"write", "add"} => f.buf # <<>>

CallInv(t) ==
    /\ pc[t] # "set" => frame[t].at = "out"
    /\ pc[t] \in {"start", "set"} => /\ call[t].key \in Keys /\ call[t].op \in OpKinds
                                     /\ call[t].op = "insert" => call[t].val \in Vals

\* Who owns a set: the process inside it or the rehash that has frozen it.
OwnerInv ==
    /\ \A p, q \in Procs : frame[p].at \in Inside /\ frame[q].at \in Inside
                             /\ frame[p].list = frame[q].list => p = q
    /\ \A p \in Procs : frame[p].at \in Inside =>
                             lock[frame[p].list] = LOCKED /\ frame[p].list \notin Frozen
    /\ \A l \in Frozen : lock[l] = LOCKED
    /\ \A l \in Lists : lock[l] = LOCKED => l \in Frozen \/ Holders(l) # {}

\* Sets exist before they are reached, and have one owner at a time.
TableInv ==
    /\ SetTypes /\ TableTypes /\ RehashInv /\ ArrayInv /\ OwnerInv
    /\ \A p \in Procs : FrameInv(p)
    /\ \A t \in Threads : CallInv(t)

\* Inside a set, between the write of a node and that of the total, the total
\* is one operation behind; what changeCount writes back is what it read.
CountFrame(p) ==
    LET f == frame[p]
        l == f.list
    IN  /\ f.at \in {"walk", "write", "unlock"} => total[l] = Pairs(nodes[l])
        /\ f.at \in {"count", "add"} => total[l] + Increment(f.op) = Pairs(nodes[l])
        /\ f.at \in {"write", "add"} => f.total = total[l]
        /\ f.at = "write" => Pairs(Splice(nodes[l], f.node, f.buf)) = Pairs(nodes[l]) + Increment(f.op)
        /\ f.at = "add" => f.buf = << nodes[l][1] >>

\* The inductive invariant behind CountMatches, on top of TableInv.
CountInv ==
    /\ CountMatches
    /\ \A p \in Procs : CountFrame(p)

\* Once the rehash has frozen a set, nobody changes its chain again: neither
\* while it is copied nor when the root has moved on and melt has released
\* the clients that still hold its address.
FrozenStays ==
    [][\A l \in Lists : (l \in Frozen \/ l < root.start) => nodes'[l] = nodes[l]]_vars

\* "Try to get the data from the machine, repeatedly trying until successful":
\* every peer learns the root of the host, however late it asks and while
\* others already rehash, and no operation starts without it.
Joins ==
    /\ \A t \in Threads : (pc[t] = "join") ~> (own[t] = own[Server])
    /\ [](\A t \in Threads : pc[t] # "join" => own[t] = own[Server])

\* Every operation returns, also one that waits for a frozen set or comes
\* back to a deleted one (a client that used a torn root excepted), and every
\* try_rehash ends.
CallsReturn == \A t \in Threads : (pc[t] = "start") ~> (pc[t] \in {"idle", "wild"})
RehashEnds == (rh.at # "idle") ~> (rh.at = "idle")
=============================================================================
