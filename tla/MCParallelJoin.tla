--------------------------- MODULE MCParallelJoin ---------------------------
(***************************************************************************)
(* Instances of ParallelJoin for TLC.  Keys a and b have the same hash, c  *)
(* falls into the other partition, d shares c's slot in a small directory  *)
(* but has another tag.                                                    *)
(***************************************************************************)
EXTENDS ParallelJoin, TLC

CONSTANTS a, b, c, d

MCHash == a :> 1 @@ b :> 1 @@ c :> 5 @@ d :> 4

MCTag == [h \in 0 .. HashSize - 1 |-> {h % 3, (h + 1) % 3}]

Job(l, r, bl) == [left |-> l, right |-> r, build_left |-> bl]

\* Collisions, duplicates on both sides, nulls, partial last morsels, a
\* directory larger than the minimum, and columns without any row or key.
MCBuilds == { <<>>, <<Null>>, <<Null, a>>, <<b, d>>, <<a, Null, b>>, <<a, c, a>>,
              <<c, d, a>>, <<d, a, Null, b>>, <<c, a, d, c>>, <<a, c, b, d, a>> }

MCProbes == { <<>>, <<Null, c>>, <<a, b, a>>, <<c, d, a>>, <<c, a, Null, b, d>> }

\* Any two of them may follow each other on one context.
MCJobs == { Job(l, r, TRUE) : l \in MCBuilds, r \in MCProbes }
            \cup { Job(r, l, FALSE) : l \in MCBuilds, r \in MCProbes }
=============================================================================
