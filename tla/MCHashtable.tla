---------------------------- MODULE MCHashtable ----------------------------
(* Instances of Hashtable for TLC. *)
EXTENDS Hashtable, TLC

CONSTANTS t1, t2, srv

MCThreads == {t1, t2}
MCProcs   == {t1, t2, srv}
MCKeys    == {1, 2}
MCLists   == 0..(INITIAL_SIZE * (2^(MaxRehash + 1) - 1) - 1)
MCMix     == [t \in MCThreads |-> OpKinds]
MCOps     == [t \in MCThreads |-> 1]
MCPop     == [{0} -> {<<1, 2>>}]
=============================================================================
