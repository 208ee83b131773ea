------------------------------- MODULE MCIHT -------------------------------
(* Instances of IHT for TLC. *)
EXTENDS IHT, Bitwise, TLC

CONSTANTS t1, t2, t3

\* Keys 1, 2 and 3 share the only used bucket of a root of size 2; 1 and 2
\* collide again one level down and part at depth 3.
MCKeys == {1, 2, 3}
MCVals == [k \in MCKeys |-> {k}]

\* Two threads on pools of their own.
MCHome2 == t1 :> 0 @@ t2 :> 1

\* t2 and t3 share pool 1, so each works in place on what the other allocates.
MCHome3 == t1 :> 0 @@ t2 :> 1 @@ t3 :> 1
MCMix3  == t1 :> {"contains"} @@ t2 :> {"insert"} @@ t3 :> {"insert", "remove"}
MCOps3  == t1 :> 1 @@ t2 :> 2 @@ t3 :> 1

\* E-lists of two pairs: three inserts fill one and rehash it.
MCMixTwoPairs == t1 :> {"insert", "remove"} @@ t2 :> {"contains", "insert"}
MCOpsTwoPairs == t1 :> 4 @@ t2 :> 1

ASSUME BitXorIsBitwise == \A a, b \in 0..15 : BitXor(a, b) = a ^^ b
=============================================================================
