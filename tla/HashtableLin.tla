---------------------------- MODULE HashtableLin ----------------------------
(***************************************************************************)
(* Hashtable with the history needed to compare it with ConcurrentMap, and *)
(* to tell when a remove has left a hole or a rehash has begun to show     *)
(* its new array.                                                          *)
(***************************************************************************)
EXTENDS Hashtable

VARIABLES
    map,      \* the map the root and the sets stand for (MapOf below)
    seen,     \* seen[t]: bindings of t's key in the map since t's call
    holed,    \* a set has had a node with room before its last node
    shown,    \* a word of a new array has been written to the root
    torn,     \* a client has read one old and one new word of the root
    dropped,  \* keys clients removed since the rehash froze the old array
    stored,   \* keys that an insert has put into a set and released, and whose remove nobody has called since
    known,    \* known[t]: t's key has been stored since t called
    clean     \* clean[t]: no rehash was filling its new array at t's last read of the root

hvars == <<map, seen, holed, shown, torn, dropped, stored, known, clean>>
lvars == <<vars, hvars>>

Absent == -1

\* What a lookup of k in this chain finds: the first pair with the key.
Lookup(chain, k) ==
    LET ns == {n \in 1..Len(chain) : Hits(chain[n], k) # {}}
    IN  IF ns = {} THEN Absent ELSE chain[Min(ns)][Min(Hits(chain[Min(ns)], k))].val

ListOf(k) == indexAt(root.start, keyhash(k, root.count))
MapOf == [k \in Keys |-> IF ListOf(k) \in Lists THEN Lookup(nodes[ListOf(k)], k) ELSE Absent]

HasHole(chain) == \E n \in 1..(Len(chain) - 1) : Len(chain[n]) < NODE_BUNDLE_SIZE

\* Steps in which t's operation starts, reads the root, lets go of a set it
\* has inserted into, and returns.
Starts(t)  == pc[t] = "idle" /\ pc'[t] = "start"
Reads(t)   == pc[t] = "start" /\ pc'[t] # "start"
Stores(t)  == /\ frame[t].at = "unlock" /\ frame'[t].at = "out"
              /\ frame[t].op = "insert" /\ frame[t].res.status = "true"
Returns(t) == pc[t] = "set" /\ pc'[t] = "idle"

\* The keys whose remove is under way.
Removing == {call[t].key : t \in {u \in Threads : call[u].op = "remove"}}

History ==
    /\ map' = MapOf'
    /\ seen' = [t \in Threads |->
          IF pc'[t] \in {"join", "idle"} THEN {}
          ELSE (IF pc[t] = "idle" THEN {} ELSE seen[t]) \cup {map'[call'[t].key]}]
    /\ holed' = (holed \/ \E l \in Lists : HasHole(nodes'[l]))
    /\ shown' = (shown \/ root' # root)
    /\ torn' = (torn \/ (root.count # SizeAt(root.start)
                          /\ \E t \in Threads : Reads(t)))
    /\ dropped' = IF rh'.at = "allocate" THEN {}
                  ELSE dropped \cup {frame[t].key : t \in {u \in Threads :
                          frame[u].at = "write" /\ frame'[u].at = "count" /\ frame[u].op = "remove"}}
    /\ stored' = (stored \cup {frame[t].key : t \in {u \in Threads : Stores(u)}}) \ Removing'
    /\ known' = [t \in Threads |-> /\ Starts(t) \/ (known[t] /\ ~Returns(t))
                                  /\ call'[t].key \in stored']
    /\ clean' = [t \in Threads |-> IF Reads(t) THEN rh.at \notin {"publish", "foreach", "readd"}
                                   ELSE ~Returns(t) /\ clean[t]]

LInit ==
    /\ Init
    /\ map = MapOf
    /\ seen = [t \in Threads |-> {}]
    /\ holed = FALSE /\ shown = FALSE /\ torn = FALSE /\ dropped = {}
    /\ stored = {k \in Keys : map[k] # Absent}
    /\ known = [t \in Threads |-> FALSE] /\ clean = [t \in Threads |-> FALSE]
LNext == Next /\ History
LSpec == LInit /\ [][LNext]_lvars

-----------------------------------------------------------------------------
(* The refinement mapping: insert and remove take effect when they write     *)
(* the node.                                                                 *)

Committed(t) ==
    pc[t] = "set" /\ call[t].op # "contains" /\
    (frame[t].at \in {"count", "add"} \/ (frame[t].at \in {"unlock", "out"} /\ frame[t].res.status = "true"))

Map == INSTANCE ConcurrentMap WITH
    done <- [t \in Threads |-> IF Committed(t) THEN [status |-> TRUE, result |-> frame[t].res.result]
                               ELSE NoRes],
    CallSet <- Calls

-----------------------------------------------------------------------------
(* Properties *)

\* contains, insert and remove are linearizable until a remove leaves a hole in
\* a chain, through which a key can be stored twice, or a rehash writes to the
\* root; nothing else in the code breaks it.
LinearizableUntilHoleOrRehash ==
    [][~holed' /\ ~shown' => [Map!Next]_(Map!vars)]_lvars

\* Only a hole that a remove has left lets an insert store a key twice in a
\* set: insert compares the keys of every node it passes.
OnceUnlessHoled ==
    ~holed => \A l \in Lists, k \in Keys : Cardinality(Places(nodes[l], k)) <= 1

\* When the rehash starts to mark the old sets as deleted, every key they
\* hold is in its set of the new array, unless a client removed it there.
RehashKeepsKeys ==
    rhAt("melt") => \A l \in OldLists, k \in Keys \ dropped :
        Places(nodes[l], k) # {} => Places(nodes[indexAt(newStart, keyhash(k, newCount))], k) # {}

\* A pair is in the set its key hashes to in the array of that set, unless a
\* client has met a half-written root.
RightSet ==
    ~torn => \A l \in Lists, k \in Keys :
        Places(nodes[l], k) # {} =>
            \E start \in Lists : l \in start..(start + SizeAt(start) - 1)
                                  /\ l = indexAt(start, keyhash(k, SizeAt(start)))

\* contains misses a key that was there all along only if it read the root while a rehash
\* was filling the new array (or somebody met a half-written root): a client
\* that waited for a frozen set starts over and finds what was moved.
FoundUnlessMidRehash ==
    [][\A t \in Threads :
          Returns(t) /\ call[t].op = "contains" /\ known[t] /\ clean[t] /\ ~torn
            => ret'[t].status]_lvars

-----------------------------------------------------------------------------
(* The inductive invariants behind these properties, on top of TableInv and  *)
(* CountInv                                                                  *)

Has(chain, k) == \E n \in 1..Len(chain) : Hits(chain[n], k) # {}

\* What a process knows of the chain it is inside: the nodes it has passed do
\* not hold its key, and what it is about to write is made of the node as it is.
WorkFrame(p) ==
    LET f  == frame[p]
        c  == nodes[f.list]
        nd == c[f.node]
        kv == [key |-> f.key, val |-> f.val]
        i  == Min(Hits(nd, f.key))
    IN  /\ f.at \in {"walk", "write"} => \A n \in 1..(f.node - 1) : Hits(c[n], f.key) = {}
        /\ f.at = "write" /\ f.op = "insert" =>
              /\ Hits(nd, f.key) = {} /\ f.res.result = 0
              /\ \/ Len(nd) = NODE_BUNDLE_SIZE /\ f.node = Len(c) /\ f.buf = << nd, <<kv>> >>
                 \/ Len(nd) # NODE_BUNDLE_SIZE /\ f.buf = << Append(nd, kv) >>
        /\ f.at = "write" /\ f.op = "remove" =>
              Hits(nd, f.key) # {} /\ f.res.result = nd[i].val /\ f.buf = << Without(nd, i) >>
        /\ f.at \in {"write", "count", "add"} => f.op \in {"insert", "remove"} /\ f.res.status = "true"
        /\ f.at \in {"count", "add", "unlock"} /\ f.op = "insert" => Has(c, f.key)

\* The set operation of a client is that of its call.
CallFrame(t) ==
    /\ pc[t] \in {"join", "idle"} => call[t] = NoCall
    /\ pc[t] \notin {"join", "idle"} => call[t] \in Calls(t)
    /\ pc[t] = "set" /\ frame[t].at # "out" =>
          frame[t].op = call[t].op /\ frame[t].key = call[t].key /\ frame[t].val = call[t].val

\* The set that key k belongs to in the array a rehash leaves and in its new one.
oldHome(k) == indexAt(rh.old.start, keyhash(k, rh.old.count))
newHome(k) == indexAt(newStart, keyhash(k, newCount))

\* The server is inside a set only to insert into the new array.
ServerInv ==
    /\ frame[Server].at # "out" =>
          rh.at = "readd" /\ frame[Server].op = "insert" /\ frame[Server].list = newHome(frame[Server].key)
    /\ rh.at \in {"sum", "freeze", "allocate", "publish"} => rh.node = 1
    /\ rh.at \in {"sum", "freeze", "allocate", "publish", "foreach"} => rh.todo = <<>>
    /\ rh.at \in {"allocate", "publish"} => rh.i = 0
    /\ rh.at = "publish" => root # [count |-> newCount, start |-> newStart]
    /\ \A l \in Lists : lock[l] = DELETED => l < root.start

WorkInv == (\A p \in Procs : WorkFrame(p)) /\ (\A t \in Threads : CallFrame(t)) /\ ServerInv

\* Without a hole a chain holds a key in one place.
OnceInv ==
    ~holed => \A l \in Lists :
        /\ ~HasHole(nodes[l])
        /\ \A k \in Keys : \A s, u \in Places(nodes[l], k) : s = u

\* What foreach has passed of the old array is in the new one, is about to be
\* inserted there, or has been removed there.
Moved(k) == k \in dropped \/ Has(nodes[newHome(k)], k)
MoveInv ==
    rh.at \in {"foreach", "readd", "melt"} => \A k \in Keys :
        /\ \A i \in 0..(rh.old.count - 1) :
              (rh.at = "melt" \/ i < rh.i) /\ Has(nodes[oldList(i)], k) => Moved(k)
        /\ rh.at # "melt" => \A n \in 1..(rh.node - 1) :
              n <= Len(nodes[oldList(rh.i)]) /\ Hits(nodes[oldList(rh.i)][n], k) # {} =>
                 \/ Moved(k) \/ Hits(rh.todo, k) # {}
                 \/ frame[Server].at \in {"acquire", "walk", "write"} /\ frame[Server].key = k

\* Nobody who has read the root in one piece is in a wrong set: neither of the
\* array it read nor of the newest one, and not in that one before it is shown.
Right(l, k) ==
    \E start \in Lists : l \in start..(start + SizeAt(start) - 1)
                          /\ l = indexAt(start, keyhash(k, SizeAt(start)))
Newest == IF rh.at \in {"publish", "foreach", "readd", "melt"} THEN newStart ELSE root.start
PlaceFrame(p) ==
    frame[p].at # "out" =>
        /\ Right(frame[p].list, frame[p].key)
        /\ frame[p].list >= Newest => frame[p].list = indexAt(Newest, keyhash(frame[p].key, SizeAt(Newest)))
        /\ rh.at = "publish" => frame[p].list < newStart
PlaceInv ==
    ~torn => /\ \A l \in Lists, k \in Keys : Places(nodes[l], k) # {} => Right(l, k)
             /\ \A p \in Procs : PlaceFrame(p)

\* Where a key is that was stored and that nobody has asked to remove.
StoredInv ==
    /\ stored \subseteq Keys \ Removing
    /\ ~torn => /\ rh.at \in {"allocate", "publish"} => dropped = {}
                /\ \A k \in stored :
                      CASE rh.at = "publish" -> Has(nodes[oldHome(k)], k)
                        [] rh.at \in {"foreach", "readd"} ->
                             Has(nodes[newHome(k)], k) \/ (k \notin dropped /\ Has(nodes[oldHome(k)], k))
                        [] OTHER -> Has(nodes[ListOf(k)], k)

\* A contains that read the root before or after the copying either waits
\* for a set that will be deleted, or is inside one that holds its key.
FoundInv(t) ==
    LET f == frame[t]
    IN  /\ t \in DOMAIN ret
        /\ known[t] => call[t].key \in stored
        /\ pc[t] = "set" /\ clean[t] /\ f.at # "out" /\ rh.at \in {"publish", "foreach", "readd"} => f.list < newStart
        /\ pc[t] = "set" /\ clean[t] /\ known[t] /\ ~torn /\ call[t].op = "contains" =>
              /\ f.at = "walk" => Has(nodes[f.list], f.key)
              /\ f.at \in {"unlock", "out"} => f.res.status # "false"

\* The history of the map and of the operations under way.
SeenInv ==
    /\ map = MapOf /\ seen \in [Threads -> SUBSET (Vals \cup {Absent})]
    /\ ~shown => root.start = 0 /\ root.count = INITIAL_SIZE /\ ~torn /\ rh.at \notin {"foreach", "readd", "melt"}
    /\ \A t \in Threads :
          /\ pc[t] \in {"join", "idle"} => seen[t] = {}
          /\ pc[t] \notin {"join", "idle"} => map[call[t].key] \in seen[t]
          /\ ~holed /\ ~shown /\ pc[t] = "set" /\ ~Committed(t) /\ frame[t].at \in {"unlock", "out"}
                /\ frame[t].res.status # "rehash_deleted"
                => [status |-> frame[t].res.status = "true", result |-> frame[t].res.result] \in Map!Answers(t)

KeyInv == OnceInv /\ MoveInv /\ PlaceInv /\ StoredInv /\ SeenInv /\ \A t \in Threads : FoundInv(t)

-----------------------------------------------------------------------------
(* What comments and tests say of the table *)

\* "Will insert a value if it doesn't exist": no set holds a key twice.
KeyOnce == \A l \in Lists, k \in Keys : Cardinality(Places(nodes[l], k)) <= 1

\* "if the key was found or not": contains finds a key that was in the table
\* before it was called and that nobody has asked to remove.
AckedFound ==
    \A t \in Threads :
        pc[t] = "set" /\ frame[t].at = "unlock" /\ call[t].op = "contains"
          /\ known[t] => frame[t].res.status = "true"
=============================================================================
