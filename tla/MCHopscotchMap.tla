--------------------------- MODULE MCHopscotchMap ---------------------------
(* A key is its hash.  Five keys have the last of 8 buckets as their home,  *)
(* and four of them the last of 16, so that neighbourhoods wrap around.     *)
EXTENDS HopscotchMap

MCKeys == {15, 31, 47, 63, 7, 0, 16, 1}
MCHash == [key \in MCKeys |-> key]
=============================================================================
