--------------------------- MODULE MCRobinHoodMap ---------------------------
(* A key is its hash and a number that tells it from others with that hash. *)
EXTENDS RobinHoodMap

MCKeys == ({0, 1, 7} \X {1, 2}) \cup ({2, 8, 15} \X {1})
MCHash == [key \in MCKeys |-> key[1]]
=============================================================================
