------------------------------ MODULE Messages ------------------------------
(***************************************************************************)
(* A program that uses two messages of one class through the methods the   *)
(* protocol compiler generated for it, in any order.                       *)
(***************************************************************************)
EXTENDS MetricProto

CONSTANTS
    Values,      \* the numbers and the lengths of strings that are stored
    NestedValues, \* those that are stored in the nested message of a metric
    FieldsUsed,  \* how many of its fields are used of a class
    MaxUnknown   \* bound: the unknown fields a message collects

ASSUME MessagesAssumption ==
    /\ Values \subseteq Nat
    /\ NestedValues \subseteq Values
    /\ FieldsUsed \in Nat \ {0}
    /\ MaxUnknown \in Nat

VARIABLES
    kind,     \* the class of the two messages
    fields,   \* the fields that are used, of the messages or of those they own
    msg,      \* the two messages
    heap,     \* the nested messages
    held,     \* address of a nested message the program released from its owner
    heldCase  \* and its class

vars == <<kind, fields, msg, heap, held, heldCase>>

Kinds == FlatClasses \cup {"metric"}
Mine  == {"a", "b"}
Other(x) == IF x = "a" THEN "b" ELSE "a"

\* A field that no class has with this wire type.
Foreign == Entry(9, 0)
EndGroup == Entry(124, 0)

-----------------------------------------------------------------------------
(* The methods of the class of the messages.  A message is given and       *)
(* returned with the heap, as in MetricProto.                              *)

IsMetric == kind = "metric"
With(x)  == [m |-> msg[x], h |-> heap]
Flat(m)  == [m |-> m, h |-> heap]
Blank    == IF IsMetric THEN New ELSE ClassNew(kind)

Parsed(s, w)      == IF IsMetric THEN InternalParse(s, w) ELSE [s EXCEPT !.m = ClassParse(kind, @, w)]
Serialized(s)     == IF IsMetric THEN InternalSerialize(s.m, s.h) ELSE ClassSerialize(kind, s.m)
Size(s)           == IF IsMetric THEN ByteSizeLong(s.m, s.h) ELSE ClassSize(kind, s.m)
Merged(s, from)   == IF IsMetric THEN MergeFrom(s, from) ELSE [s EXCEPT !.m = ClassMerge(kind, @, from)]
Assigned(s, from) == IF IsMetric THEN CopyFrom(s, from) ELSE [s EXCEPT !.m = ClassCopyFrom(kind, @, from)]
Copied(from)      == IF IsMetric THEN Copy(from, heap) ELSE Flat(ClassCopy(kind, from))
Swapped(x, y)     == IF IsMetric THEN InternalSwap(x, y) ELSE ClassSwap(kind, x, y)

-----------------------------------------------------------------------------
\* Message x becomes s.m, the heap becomes s.h.
Becomes(x, s) ==
    /\ Len(s.m.unknown) <= MaxUnknown
    /\ msg' = [msg EXCEPT ![x] = s.m]
    /\ heap' = s.h
    /\ UNCHANGED <<kind, fields>>
KeepsHeld == UNCHANGED <<held, heldCase>>

FieldsOf(k) == IF k = "metric" THEN {{"count", "runtime_ns"}}
               ELSE LET names == Names(ClassSchema(k))
                    IN  kSubset(Min({FieldsUsed, Cardinality(names)}), names)

Init ==
    /\ kind \in Kinds
    /\ fields \in FieldsOf(kind)
    /\ msg = [x \in Mine |-> Blank]
    /\ heap = [p \in {} |-> 0]
    /\ held = Null
    /\ heldCase = NotSet

\* Accessors of the fields of a message.
SetField(x) ==
    \/ \E f \in fields, v \in Values : ~IsMetric /\ Becomes(x, Flat(ClassSet(kind, msg[x], f, v))) /\ KeepsHeld
    \/ \E v \in Values : IsMetric /\ Becomes(x, Flat(set_name(msg[x], v))) /\ KeepsHeld
ClearField(x) ==
    \/ \E f \in fields : ~IsMetric /\ Becomes(x, Flat(ClassUnset(kind, msg[x], f))) /\ KeepsHeld
    \/ IsMetric /\ Becomes(x, Flat(clear_name(msg[x]))) /\ KeepsHeld

\* A string is taken out of the message, or handed to it.
HasString == kind = "metric" \/ fields \cap {"units", "id"} # {}
ReleaseString(x) ==
    /\ HasString
    /\ Becomes(x, Flat(IF IsMetric THEN release_name(msg[x]) ELSE ClassRelease(kind, msg[x])))
    /\ KeepsHeld
AllocatedString(x, v) ==
    /\ HasString
    /\ Becomes(x, Flat(IF IsMetric THEN set_allocated_name(msg[x], v) ELSE ClassSetAllocated(kind, msg[x], v)))
    /\ KeepsHeld

\* The oneof: a field of the nested message is set through its mutable
\* accessor, the nested message is cleared, released or handed over.
SetNested(x) ==
    /\ IsMetric
    /\ \E c \in Cases, v \in NestedValues :
         \E f \in fields \cap Names(ClassSchema(c)) :
            LET s == mutable(With(x), c)
            IN  Becomes(x, [s EXCEPT !.h[s.m.ref] = ClassSet(c, @, f, v)])
    /\ KeepsHeld
Mutable(x) ==
    /\ IsMetric
    /\ \E c \in Cases : Becomes(x, mutable(With(x), c))
    /\ KeepsHeld
ClearNested(x) ==
    /\ IsMetric
    /\ \E c \in Cases : Becomes(x, clear_case(With(x), c))
    /\ KeepsHeld
Release(x) ==
    /\ IsMetric /\ held = Null
    /\ \E c \in Cases :
         /\ Becomes(x, release(With(x), c))
         /\ held' = released(With(x), c)
         /\ heldCase' = IF held' = Null THEN NotSet ELSE c
HandOver(x) ==
    /\ IsMetric
    /\ \E c \in (IF held = Null THEN Cases ELSE {heldCase}) : Becomes(x, set_allocated(With(x), c, held))
    /\ held' = Null
    /\ heldCase' = NotSet

\* Methods on whole messages.
ClearMessage(x) ==
    /\ Becomes(x, IF IsMetric THEN Clear(With(x)) ELSE Flat(ClassClear(kind, msg[x])))
    /\ KeepsHeld
Merge(x)  == Becomes(x, Merged(With(x), msg[Other(x)])) /\ KeepsHeld
Assign(x) == Becomes(x, Assigned(With(x), msg[Other(x)])) /\ KeepsHeld
Swap ==
    /\ msg' = [x \in Mine |-> Swapped(msg[x], msg[Other(x)])]
    /\ UNCHANGED <<kind, fields, heap>> /\ KeepsHeld

\* What arrives from another program: the other message, or a field that this
\* version does not know, or the end of a group and what follows it.
Receive(x) ==
    /\ \E w \in {Serialized(With(Other(x))), <<Foreign>>, <<EndGroup, Foreign>>} : Becomes(x, Parsed(With(x), w))
    /\ KeepsHeld

Next ==
    \/ \E x \in Mine :
         \/ SetField(x) \/ ClearField(x) \/ ReleaseString(x)
         \/ \E v \in Values \cup {-1} : AllocatedString(x, v)
         \/ SetNested(x) \/ Mutable(x) \/ ClearNested(x) \/ Release(x) \/ HandOver(x)
         \/ ClearMessage(x) \/ Merge(x) \/ Assign(x) \/ Receive(x)
    \/ Swap

Spec == Init /\ [][Next]_vars

-----------------------------------------------------------------------------
(* Properties. *)

\* A message by value: the nested message in the place of the pointer to it.
Value(s) == [has |-> s.m.has, val |-> s.m.val, unknown |-> s.m.unknown,
             sub |-> IF IsMetric /\ s.m.case # NotSet THEN <<s.m.case, s.h[s.m.ref]>> ELSE <<>>]

\* A field that is not set reads as its default, also in the message a metric
\* owns, whatever was set, merged, parsed or swapped before: the getters return
\* the stored value without looking at the has bit.
Unstale(m) == \A f \in DOMAIN m.val : f \notin m.has => m.val[f] = 0
UnsetIsDefault ==
    /\ \A x \in Mine : Unstale(msg[x])
    /\ \A p \in DOMAIN heap : Unstale(heap[p])

\* A message parsed from what _InternalSerialize writes is the message that was
\* written: fields set to their default and unknown fields survive too.
RoundTrip == \A x \in Mine : Value(Parsed(Flat(Blank), Serialized(With(x)))) = Value(With(x))

\* Parsing the bytes of two messages one after the other has the effect of
\* MergeFrom, also when both hold the same case of the oneof, or another one.
ConcatMerges ==
    \A x \in Mine :
       Value(Parsed(Flat(Blank), Serialized(With(x)) \o Serialized(With(Other(x)))))
         = Value(Merged(Copied(msg[x]), msg[Other(x)]))

\* ByteSizeLong, which the buffer is allocated with, is what is written.
SizesAgree == \A x \in Mine : Size(With(x)) = WireSize(Serialized(With(x)))

\* Every nested message on the heap has exactly one owner, one of the messages
\* or the program: none leaks and none is freed twice.
Owners == {<<x, msg[x].ref>> : x \in {y \in Mine : IsMetric /\ msg[y].case # NotSet}}
            \cup (IF held = Null THEN {} ELSE {<<"program", held>>})
OwnedOnce ==
    /\ DOMAIN heap = {o[2] : o \in Owners}
    /\ Cardinality(Owners) = Cardinality(DOMAIN heap)

\* State s is that of a copy of message y: it reads like y, y reads as before,
\* and the nested message s owns is not the one y owns.
IsCopy(s, y) ==
    /\ Value(s) = Value(With(y))
    /\ Value([m |-> msg[y], h |-> s.h]) = Value(With(y))
    /\ IsMetric /\ s.m.case # NotSet => s.m.ref # msg[y].ref

\* CopyFrom and the copy constructor make a message equal to their source, leave
\* the source as it was and share no nested message with it.  What the copy
\* constructor makes belongs to nobody else either.
CopyIsEqual ==
    \A x \in Mine :
       LET y == Other(x)
           copied == Copied(msg[y])
       IN  /\ IsCopy(Assigned(With(x), msg[y]), y)
           /\ IsCopy(copied, y)
           /\ IsMetric /\ copied.m.case # NotSet => copied.m.ref \notin DOMAIN heap
=============================================================================
