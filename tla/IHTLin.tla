------------------------------- MODULE IHTLin -------------------------------
(***************************************************************************)
(* IHT with the history needed to compare it with ConcurrentMap: the       *)
(* bindings each running operation has overlapped, whether an insert has   *)
(* replaced the E-list of a bucket it took for empty, and whose inserts    *)
(* have put the pairs into each E-list.                                    *)
(***************************************************************************)
EXTENDS IHT

VARIABLES
    map,          \* the map the shared memory stands for (MapOf below)
    seen,         \* seen[t]: bindings of t's key in the map since t's call
    overwritten,  \* some insert_empty hit a bucket that was not empty
    acked,        \* keys inserted with success and never asked to be removed
    way,          \* way[k]: the P-lists that key k leads through, from the root down
    writers       \* writers[e]: the threads whose inserts put pairs into E-list e

hvars == <<map, seen, overwritten, acked, way, writers>>
lvars == <<vars, hvars>>

Absent == -1

\* What a lookup of key finds in an E-list with these pairs.
ValOf(pairs, key) ==
    IF Matches(pairs, key) = {} THEN Absent ELSE pairs[FirstMatch(pairs, key)].val

\* What the bucket of key in P-list p at this depth points at.
child(lists, p, depth, key) == lists[p].base[level_hash(key, depth, lists[p].size)]

\* What is found where the way of key ends: the map the memory stands for.
end(key) == child(plist, way[key][Len(way[key])], Len(way[key]), key)
Find(key) == IF end(key) \in EAddr THEN ValOf(elist[end(key)].pairs, key) ELSE Absent
MapOf == [k \in Keys |-> Find(k)]

\* What the ways and the map depend on: the bucket pointers and the pairs.
Contents == <<[p \in PAddr |-> plist[p].base], [e \in EAddr |-> elist[e].pairs]>>

\* This step is an insert_empty of t on a bucket that is not empty.
Overwrites(t) ==
    /\ pc[t] = "work" /\ pc'[t] = "unlock"
    /\ call[t].op = "insert" /\ crit[t].base = Null
    /\ plist[walk[t].curr].base[bucket(t)] # Null

\* Whose pairs the insert of t puts into an E-list: its own, next to those of
\* the list it appends to or whose pairs its rehash moves.
Authors(t) == {t} \cup (IF crit[t].base = Null THEN {} ELSE writers[crit[t].base])

\* This step is one of t's.
Moves(t) == <<pc'[t], crit'[t]>> # <<pc[t], crit[t]>>

\* E-list e is allocated or gets another pair in this step.
Puts(e) ==
    \/ elist[e].state = "free" /\ elist'[e].state # "free"
    \/ Len(elist'[e].pairs) > Len(elist[e].pairs)

Sign(e) ==
    (IF elist[e].state = "free" THEN {} ELSE writers[e])
      \cup (IF Puts(e) THEN UNION {Authors(t) : t \in {u \in Threads : Moves(u)}} ELSE {})

\* The way goes on when its last bucket has become a sub-P-list.
Lengthen(key) ==
    LET w    == way[key]
        next == child(plist', w[Len(w)], Len(w), key)
    IN  IF next \in PAddr THEN Append(w, next) ELSE w

History ==
    /\ IF Contents' = Contents THEN UNCHANGED <<way, map>>
       ELSE way' = [k \in Keys |-> Lengthen(k)] /\ map' = MapOf'
    /\ seen' = [t \in Threads |->
          IF pc'[t] = "idle" THEN {}
          ELSE (IF pc[t] = "idle" THEN {} ELSE seen[t]) \cup {map'[call'[t].key]}]
    /\ overwritten' = (overwritten \/ \E t \in Threads : Overwrites(t))
    /\ writers' = [e \in EAddr |-> Sign(e)]
    /\ acked' = (acked \cup {call[t].key : t \in {u \in Threads :
                     pc[u] = "unlock" /\ pc'[u] = "idle" /\ call[u].op = "insert" /\ ret[u].status}})
                \ {call'[t].key : t \in {u \in Threads : pc'[u] # "idle" /\ call'[u].op = "remove"}}

LInit ==
    /\ Init /\ way = [k \in Keys |-> <<Root>>] /\ map = MapOf
    /\ seen = [t \in Threads |-> {}] /\ overwritten = FALSE /\ acked = {}
    /\ writers = [e \in EAddr |-> {}]
LNext == Next /\ History
LSpec == LInit /\ [][LNext]_lvars

-----------------------------------------------------------------------------
(* The refinement mapping *)

NoCall == [op |-> "none", key |-> 0, val |-> 0]
NoRes  == [status |-> FALSE, result |-> Absent]

\* A thread is in a call unless it is idle.  An operation that changes the map
\* has done so when it goes on to unlock with success.
CallOf == [t \in Threads |-> IF pc[t] = "idle" THEN NoCall ELSE call[t]]
DoneOf == [t \in Threads |-> IF pc[t] = "unlock" /\ ret[t].status /\ call[t].op # "contains"
                             THEN ret[t] ELSE NoRes]
RetOf  == [t \in Threads |-> IF pc[t] = "idle" THEN ret[t] ELSE NoRes]

Map == INSTANCE ConcurrentMap WITH call <- CallOf, done <- DoneOf, ret <- RetOf, CallSet <- Calls

-----------------------------------------------------------------------------
(* Properties *)

\* contains, insert and remove are linearizable, each takes effect between its
\* call and its return through every interleaving with rehashes, up to the
\* first insert that takes a filled bucket for an empty one: nothing else in
\* the code breaks it.
LinearizableUnlessOverwritten ==
    Map!Init /\ [][~overwritten' => [Map!Next]_(Map!vars)]_lvars

\* E-list e is the work of other threads, and of an inserting one.
ByOthers(t, e) ==
    t \notin writers[e] /\ \E u \in Threads : u \in writers[e] /\ "insert" \in Mix[u]

\* The list an insert overwrites was built by the inserts of other threads
\* alone: the thread has not allocated it, and no pair that it ever held is one
\* the thread inserted or moved there.  So no insert undoes an insert of its
\* own thread, and a table with one inserting thread is linearizable.
OverwritesOthersOnly ==
    [][\A t \in Threads : Overwrites(t) =>
          LET base == plist[walk[t].curr].base[bucket(t)]
          IN  base \in EAddr /\ ByOthers(t, base)]_lvars

\* "We locked an elist, we can read the baseptr and progress": a key whose
\* insert reported success is in the table until somebody removes it.
AckedInsertStays == \A k \in acked : map[k] # Absent

-----------------------------------------------------------------------------
(* The inductive invariants behind these properties, on top of IndInv, OwnInv *)
(* and ContentInv                                                             *)

\* The base of the bucket that t is at, in the P-list itself.
base_at(t) == plist[walk[t].curr].base[bucket(t)]

\* A thread is on the way of its key, as deep as it thinks.
OnWay(t) ==
    LET w == way[call[t].key]
    IN  pc[t] # "idle" =>
          /\ walk[t].depth \in 1..Len(w) /\ w[walk[t].depth] = walk[t].curr
          /\ pc[t] = "descend" => walk[t].depth < Len(w) /\ w[walk[t].depth + 1] = crit[t].next

\* The way of a key follows the bases down to a bucket that is not a P-list,
\* and a P-list is as deep in every way.
WayInv ==
    /\ way \in [Keys -> Seq(PAddr)]
    /\ \A k \in Keys : LET w == way[k] IN
          /\ Len(w) >= 1 /\ w[1] = Root /\ end(k) \notin PAddr
          /\ \A d \in 1..Len(w) : plist[w[d]].size >= 2
          /\ \A d \in 1..(Len(w) - 1) : child(plist, w[d], d, k) = w[d + 1]
    /\ \A k, j \in Keys : \A d \in 1..Len(way[k]), c \in 1..Len(way[j]) :
          way[k][d] = way[j][c] => d = c
    /\ \A t \in Threads : OnWay(t)

\* Key k stands with value v among the first n pairs.
Among(pairs, n, k, v) == \E i \in 1..n : pairs[i].key = k /\ pairs[i].val = v

\* A rehash copies the E-list of its bucket exactly: what the new P-list leads
\* to under a key is what the pairs moved so far hold under it.
FillInv(t) ==
    pc[t] \in {"rehash", "publish"} =>
        /\ crit[t].base \in EAddr /\ elist[crit[t].base].pairs = crit[t].pairs
        /\ crit[t].i <= Len(crit[t].pairs) + 1
        /\ pc[t] = "publish" => crit[t].i = Len(crit[t].pairs) + 1
        /\ \A b \in DOMAIN plist[crit[t].next].base : plist[crit[t].next].base[b] \in EAddr \cup {Null}
        /\ \A k \in Keys : \A v \in Vals[k] :
              LET e == plist[crit[t].next].base[level_hash(k, walk[t].depth + 1, 2 * walk[t].count)]
              IN  Among(crit[t].pairs, crit[t].i - 1, k, v)
                    <=> e # Null /\ Among(elist[e].pairs, Len(elist[e].pairs), k, v)

\* Until an insert overwrites a list, what a thread has read of its bucket is
\* what the bucket still leads to, unless it was empty or has become a P-list.
FreshInv(t) ==
    ~overwritten =>
        /\ pc[t] # "idle" /\ walk[t].snap \in EAddr => base_at(t) \in PAddr \cup {walk[t].snap}
        /\ crit[t].base # Null /\ pc[t] # "punlock" => base_at(t) = crit[t].base

\* A bucket that t took for empty and that is not has been filled by other
\* threads since.
FilledInv(t) ==
    \/ pc[t] \in {"acquire", "locked"} /\ walk[t].copy /\ walk[t].snap = Null
    \/ pc[t] = "work" /\ crit[t].base = Null
    => (base_at(t) \in EAddr => ByOthers(t, base_at(t)))

\* The bindings an operation has overlapped: one that found its bucket empty
\* has seen its key unbound, and what an operation that changes nothing will
\* answer was true at some moment since its call.
SeenOf(t) ==
    /\ pc[t] = "idle" => seen[t] = {}
    /\ pc[t] # "idle" => map[call[t].key] \in seen[t]
    /\ pc[t] # "idle" /\ walk[t].copy /\ walk[t].snap = Null => Absent \in seen[t]
    /\ pc[t] = "work" /\ crit[t].base = Null => Absent \in seen[t]
    /\ ~overwritten /\ pc[t] = "unlock" /\ (call[t].op = "contains" \/ ~ret[t].status)
          => ret[t] \in Map!Answers(t)
    /\ pc[t] = "unlock" /\ ret[t].status /\ call[t].op = "insert" => ret[t].result = 0

SeenInv ==
    /\ map = MapOf /\ seen = [t \in Threads |-> seen[t]]
    /\ \A t \in Threads : SeenOf(t)

LinInv ==
    /\ WayInv /\ SeenInv
    /\ \A t \in Threads : FillInv(t) /\ FreshInv(t) /\ FilledInv(t)
=============================================================================
