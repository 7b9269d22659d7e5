--------------------------- MODULE MCTableLoader ---------------------------
(***************************************************************************)
(* Small files for TableLoader: an integer column and a string column,     *)
(* bytes of two bits and pages of 17 bytes, which hold two integers, or a  *)
(* string of ten characters.                                               *)
(***************************************************************************)
EXTENDS TableLoader

CONSTANTS p1, p2

MCTypes == <<"INT32", "VARCHAR">>

a == 97
b == 98
Short == <<a>>
Long  == [k \in 1 .. 14 |-> IF k < 14 THEN b ELSE a] \* pages of 13 and 1 characters

Title == <<Bad, Short>>

\* Rows of integers and nulls that end a page, or a byte of the bitmap, at
\* every place; a long string between short ones; a field that is no number; a
\* record that the parser refuses; a file with nothing but the header, and one
\* without.
MCContents ==
  { <<Title, <<5, Short>>, <<7, Empty>>, <<-3, Long>>, <<Empty, <<b>>>>, <<7, <<b, a>>>> >>,
    <<Title, <<Empty, Empty>>, <<Empty, <<a, b>>>>, <<5, Empty>> >>,
    <<Title, <<5, Short>>, <<Bad, Short>> >>,
    <<Title, <<7, Bad>> >>,
    <<Title>>,
    <<>> }

Compare(column, op, value) ==
  [kind |-> "CMP", column |-> column, op |-> op, value |-> value]

AtMost5   == Compare(1, "LEQ", 5)
IsNull    == Compare(1, "IS_NULL", 0)
LikeB     == Compare(2, "LIKE", <<b>>) \* 'b%'
BeforeB   == Compare(2, "LT", <<b>>)
NotAtMost == [kind |-> "NOT", left |-> AtMost5]
Both      == [kind |-> "AND", left |-> NotAtMost, right |-> LikeB]
Either    == [kind |-> "OR", left |-> IsNull, right |-> BeforeB]

MCStatements == {AtMost5, IsNull, LikeB, BeforeB, NotAtMost, Both, Either}
MCFilters    == {NoFilter, AtMost5, Both, Either}

MCLikeMatch == {<<<<b>>, <<b>>>>, <<<<b, a>>, <<b>>>>, <<Long, <<b>>>>}
=============================================================================
