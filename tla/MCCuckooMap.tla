---------------------------- MODULE MCCuckooMap ----------------------------
(* A key is the pair of its hashes.  Three keys share both buckets of the   *)
(* tables of 8 buckets and less, two of which share them up to 16 buckets;  *)
(* the others share one of them with somebody.                              *)
EXTENDS CuckooMap

MCKeys == {<<0, 0>>, <<8, 0>>, <<16, 8>>, <<0, 1>>, <<3, 3>>, <<1, 1>>, <<1, 6>>, <<2, 9>>}

MCh1 == [k \in MCKeys |-> k[1]]
MCh2 == [k \in MCKeys |-> k[2]]
=============================================================================
