--------------------------- MODULE MCPlanExecutor ---------------------------
(***************************************************************************)
(* Small plans for PlanExecutor: bytes of two bits, pages of 17 bytes, and *)
(* two values to a page of an intermediate result.                         *)
(***************************************************************************)
EXTENDS PlanExecutor

A == <<97>>
B == <<98>>
Long == [k \in 1 .. 14 |-> IF k < 14 THEN 98 ELSE 97] \* pages of 13 and 1 characters

Scan(t, attrs) == [kind |-> "SCAN", table |-> t, output_attrs |-> attrs]

HashJoin(bl, l, r, la, ra, attrs) ==
  [kind |-> "JOIN", build_left |-> bl, left |-> l, right |-> r, left_attr |-> la,
   right_attr |-> ra, output_attrs |-> attrs]

I(c) == <<c, "INT32">>
S(c) == <<c, "VARCHAR">>

\* Key and name; the key has no nulls and three pages.
Names == [types |-> <<"INT32", "VARCHAR">>,
          rows  |-> << <<1, A>>, <<2, Null>>, <<3, Long>>, <<4, B>>, <<1, <<98, 97>>>> >>]

\* The first page of the last column has no null.
Facts == [types |-> <<"INT32", "VARCHAR", "INT32">>,
          rows  |-> << <<1, B, 1>>, <<1, Null, 2>>, <<4, A, 3>>, <<3, B, Null>> >>]

Nulls == [types |-> <<"INT32">>, rows |-> << <<Null>>, <<2>>, <<Null>> >>]

Nobody == [types |-> <<"INT32", "VARCHAR">>, rows |-> <<>>]

Tables == <<Names, Facts, Nulls, Nobody>>

MCPlans ==
  { [tables |-> Tables, root |-> n, nodes |->
      << Scan(0, <<I(0), S(1)>>),
         Scan(1, <<I(2), I(0), S(1)>>),
         Scan(2, <<I(0)>>),
         Scan(3, <<S(1), I(0)>>),
         HashJoin(TRUE,  0, 1, 0, 0, <<S(1), I(2), I(3), S(4)>>),
         HashJoin(FALSE, 0, 1, 0, 1, <<S(4), S(1), I(2)>>),
         HashJoin(TRUE,  2, 5, 0, 2, <<I(0), S(2)>>),
         HashJoin(FALSE, 3, 2, 1, 0, <<S(0), I(2)>>) >>] : n \in 0 .. 7 }

\* A column with two long strings one after the other.
MCLongPlans ==
  { [tables |-> << [types |-> <<"VARCHAR">>, rows |-> << <<A>>, <<Long>>, <<Long>>, <<B>> >>] >>,
     root   |-> 0, nodes |-> << Scan(0, <<S(0)>>) >>] }
=============================================================================
