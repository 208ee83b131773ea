--------------------------- MODULE ConcurrentMap ---------------------------
(***************************************************************************)
(* What a map shared by threads promises: every operation takes effect at  *)
(* one moment between its call and its return.                             *)
(*                                                                         *)
(* An operation that changes the map does so in Commit.  One that leaves   *)
(* it alone may answer for any moment since it was called: seen collects   *)
(* what its key was bound to at each of them.                              *)
(***************************************************************************)
EXTENDS Integers

CONSTANTS Threads, Keys, CallSet(_)

Absent == -1
NoCall == [op |-> "none", key |-> 0, val |-> 0]
NoRes  == [status |-> FALSE, result |-> Absent]

VARIABLES
    map,    \* the value each key is bound to, or Absent
    call,   \* the operation each thread is in, or NoCall
    seen,   \* the bindings of the key of a thread's operation since its call
    done,   \* the result of a committed operation, or NoRes
    ret     \* the result each thread got last, NoRes while it is in a call

vars == <<map, call, seen, done, ret>>

Init ==
    /\ map = [k \in Keys |-> Absent]
    /\ call = [t \in Threads |-> NoCall]
    /\ seen = [t \in Threads |-> {}]
    /\ done = [t \in Threads |-> NoRes]
    /\ ret = [t \in Threads |-> [status |-> FALSE, result |-> 0]]

Invoke(t) ==
    /\ call[t] = NoCall
    /\ \E c \in CallSet(t) :
          /\ call' = [call EXCEPT ![t] = c]
          /\ seen' = [seen EXCEPT ![t] = {map[c.key]}]
    /\ ret' = [ret EXCEPT ![t] = NoRes]
    /\ UNCHANGED <<map, done>>

\* Bind key to v, in view of every operation under way.
Bind(key, v) ==
    /\ map' = [map EXCEPT ![key] = v]
    /\ seen' = [u \in Threads |-> IF call[u] # NoCall /\ call[u].key = key
                                  THEN seen[u] \cup {v} ELSE seen[u]]
    /\ UNCHANGED <<call, ret>>

CommitInsert(t) ==
    /\ call[t].op = "insert" /\ done[t] = NoRes /\ map[call[t].key] = Absent
    /\ done' = [done EXCEPT ![t] = [status |-> TRUE, result |-> 0]]
    /\ Bind(call[t].key, call[t].val)

CommitRemove(t) ==
    /\ call[t].op = "remove" /\ done[t] = NoRes /\ map[call[t].key] # Absent
    /\ done' = [done EXCEPT ![t] = [status |-> TRUE, result |-> map[call[t].key]]]
    /\ Bind(call[t].key, Absent)

\* What an operation that changes nothing may answer.
Answers(t) ==
    CASE call[t].op = "contains" ->
           {[status |-> v # Absent, result |-> IF v = Absent THEN 0 ELSE v] : v \in seen[t]}
      [] call[t].op = "insert" -> {[status |-> FALSE, result |-> v] : v \in seen[t] \ {Absent}}
      [] call[t].op = "remove" -> {[status |-> FALSE, result |-> 0] : v \in seen[t] \cap {Absent}}

Return(t) ==
    /\ call[t] # NoCall
    /\ \E r \in IF done[t] # NoRes THEN {done[t]} ELSE Answers(t) :
          ret' = [ret EXCEPT ![t] = r]
    /\ call' = [call EXCEPT ![t] = NoCall]
    /\ done' = [done EXCEPT ![t] = NoRes]
    /\ seen' = [seen EXCEPT ![t] = {}]
    /\ UNCHANGED map

Next ==
    \E t \in Threads : Invoke(t) \/ CommitInsert(t) \/ CommitRemove(t) \/ Return(t)

Spec == Init /\ [][Next]_vars
=============================================================================
