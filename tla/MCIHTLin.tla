------------------------------ MODULE MCIHTLin ------------------------------
(* Instances of IHTLin for TLC. *)
EXTENDS IHTLin, TLC

CONSTANTS t1, t2, t3

MCKeys  == {1, 2, 3}
MCVals  == [k \in MCKeys |-> {k}]
MCHome2 == t1 :> 0 @@ t2 :> 1
MCMix2  == [t \in {t1, t2} |-> OpKinds]
MCOps2  == [t \in {t1, t2} |-> 2]
=============================================================================
