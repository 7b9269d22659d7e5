------------------------------- MODULE Pages -------------------------------
(***************************************************************************)
(* The pages of a Column (src/include/plan.h): who writes them, who reads  *)
(* them.  A page of PageSize bytes holds, from its beginning, a header of  *)
(* four bytes, the items (values, or the end offsets of strings), the      *)
(* characters; and, up to its end, the bitmap of the rows that are not     *)
(* null.  A string too long for a page has pages of its own.               *)
(*                                                                         *)
(* Values are integers (INT32) and strings (VARCHAR), the types of the     *)
(* workload; a string is a sequence of characters, which are numbers.      *)
(***************************************************************************)
EXTENDS Integers, SequencesExt

CONSTANTS
  PageSize, \* PAGE_SIZE, in bytes
  ByteBits, \* bits of a byte of a bitmap: 8
  Null

HeaderBytes == 4
LongHeader  == 65535 \* header of the first page of a long string
RestHeader  == 65534 \* header of its other pages

\* A page holds at least one value, and a page of nulls has fewer rows than the
\* headers that mark long strings.
ASSUME PageAssumption ==
  /\ PageSize \in Nat /\ ByteBits \in Nat \ {0}
  /\ PageSize >= HeaderBytes + 5
  /\ ByteBits * (PageSize - HeaderBytes) < RestHeader

DataTypes == {"INT32", "VARCHAR"}

ValuesOf(type) == IF type = "INT32" THEN Int ELSE Seq(Int)

\* sizeof(int32_t), and of the uint16_t end offset of a string.
ItemBytes(type) == IF type = "INT32" THEN 4 ELSE 2

\* Bytes of a bitmap of n bits, the last of them perhaps used in part.
Bytes(n) == (n + ByteBits - 1) \div ByteBits
-----------------------------------------------------------------------------
(* A writer, and what all writers do alike.                                *)

NewWriter ==
  [pages |-> <<>>, rows |-> 0, items |-> <<>>, chars |-> <<>>,
   bits  |-> {},  \* indices of the bits that are set
   bytes |-> 0]   \* size of the bitmap, where it is a vector

DataEnd(type, w) ==
  HeaderBytes + Len(w.items) * ItemBytes(type) + Len(w.chars)

\* Whether extra bytes of data and one more bit do not fit on the page.
PageFull(type, w, extra) ==
  DataEnd(type, w) + extra + w.rows \div ByteBits + 1 > PageSize

\* The page as it is written out, with a bitmap of so many bytes.
PageOf(w, bytes) ==
  [rows  |-> w.rows, items |-> w.items, chars |-> w.chars, bytes |-> bytes,
   bits  |-> { b \in w.bits : b < bytes * ByteBits }]

IsLong(s) == Len(s) > PageSize - 7

PieceBytes == PageSize - HeaderBytes

LongPages(s) ==
  [k \in 1 .. (Len(s) + PieceBytes - 1) \div PieceBytes |->
     [rows  |-> IF k = 1 THEN LongHeader ELSE RestHeader,
      items |-> <<>>,
      chars |-> SubSeq(s, (k - 1) * PieceBytes + 1,
                          IF k * PieceBytes < Len(s) THEN k * PieceBytes ELSE Len(s)),
      bytes |-> 0, bits |-> {}]]

\* Bytes that the value adds to the data.
ExtraBytes(type, v) == ItemBytes(type) + (IF type = "VARCHAR" THEN Len(v) ELSE 0)

\* The value in the next row, its bit aside.
AddValue(type, w, v) ==
  IF type = "VARCHAR"
    THEN [w EXCEPT !.rows = @ + 1, !.chars = @ \o v,
                   !.items = Append(@, Len(w.chars) + Len(v))]
    ELSE [w EXCEPT !.rows = @ + 1, !.items = Append(@, v)]
-----------------------------------------------------------------------------
(* ColumnInserter: its bitmap is a buffer as large as a page, never        *)
(* cleared; every row sets or clears its own bit.                          *)

\* Faulty variant: the bytes of the bitmap that are full, only.
SaveInserted_Floor(w) ==
  [w EXCEPT !.pages = Append(@, PageOf(w, w.rows \div ByteBits)),
            !.rows = 0, !.items = <<>>, !.chars = <<>>]
SaveInserted(w) ==
  [w EXCEPT !.pages = Append(@, PageOf(w, Bytes(w.rows))),
            !.rows = 0, !.items = <<>>, !.chars = <<>>]

InsertShort(type, w, v) ==
  LET room == IF PageFull(type, w, ExtraBytes(type, v)) THEN SaveInserted(w) ELSE w
  IN  AddValue(type, [room EXCEPT !.bits = @ \cup {room.rows}], v)

InsertLong(w, s) ==
  LET saved == IF w.rows > 0 THEN SaveInserted(w) ELSE w
  IN  [saved EXCEPT !.pages = @ \o LongPages(s)]

Insert(type, w, v) ==
  IF type = "VARCHAR" /\ IsLong(v) THEN InsertLong(w, v) ELSE InsertShort(type, w, v)

\* Faulty variant: the bit of the row keeps the value it had on the page before.
InsertNull_Stale(type, w) ==
  LET room == IF PageFull(type, w, 0) THEN SaveInserted(w) ELSE w
  IN  [room EXCEPT !.rows = @ + 1]
InsertNull(type, w) ==
  LET room == IF PageFull(type, w, 0) THEN SaveInserted(w) ELSE w
  IN  [room EXCEPT !.bits = @ \ {room.rows}, !.rows = @ + 1]

Finalize(w) == IF w.rows # 0 THEN SaveInserted(w) ELSE w
-----------------------------------------------------------------------------
(* The writers with vectors: Table::to_columnar, and materialize.  The     *)
(* bitmap is as long as set_bitmap and unset_bitmap have made it; only     *)
(* some copies of unset_bitmap make it longer (grows).                     *)

\* Faulty variant: the bits of the page stay set.
SaveVectors_Kept(w) ==
  [NewWriter EXCEPT !.pages = Append(w.pages, PageOf(w, w.bytes)), !.bits = w.bits]
SaveVectors(w) ==
  [NewWriter EXCEPT !.pages = Append(w.pages, PageOf(w, w.bytes))]

set_bitmap(w) ==
  [w EXCEPT !.bits = @ \cup {w.rows}, !.bytes = IF @ > w.rows \div ByteBits THEN @ ELSE w.rows \div ByteBits + 1]

\* The copy of Table::to_columnar first makes the vector long enough.
grow_bitmap(w) ==
  IF w.bytes <= w.rows \div ByteBits THEN [w EXCEPT !.bytes = w.rows \div ByteBits + 1] ELSE w

\* The copy of materialize does not: past its end the vector is not changed.
unset_bitmap(w, grows) == IF grows THEN grow_bitmap(w) ELSE w

PutNull(type, w, grows) ==
  LET room == IF PageFull(type, w, 0) THEN SaveVectors(w) ELSE w
  IN  [unset_bitmap(room, grows) EXCEPT !.rows = @ + 1]

PutInt(w, v) ==
  LET room == IF PageFull("INT32", w, 4) THEN SaveVectors(w) ELSE w
  IN  AddValue("INT32", set_bitmap(room), v)

PutString(w, s) ==
  IF IsLong(s)
    THEN LET saved == IF w.rows > 0 THEN SaveVectors(w) ELSE w
         IN  [saved EXCEPT !.pages = @ \o LongPages(s)]
    ELSE LET room == IF PageFull("VARCHAR", w, 2 + Len(s)) THEN SaveVectors(w) ELSE w
         IN  AddValue("VARCHAR", set_bitmap(room), s)

Put(type, w, v, grows) ==
  IF v = Null THEN PutNull(type, w, grows)
  ELSE IF type = "INT32" THEN PutInt(w, v) ELSE PutString(w, v)

\* A column of a table, value by value.
WriteColumn(type, values, grows) ==
  LET w == FoldLeft(LAMBDA u, v : Put(type, u, v, grows), NewWriter, values)
  IN  (IF w.rows # 0 THEN SaveVectors(w) ELSE w).pages

\* Table::to_columnar.
to_columnar(types, rows) ==
  [num_rows |-> Len(rows),
   columns  |-> [c \in DOMAIN types |->
     [type  |-> types[c],
      pages |-> WriteColumn(types[c], [r \in DOMAIN rows |-> rows[r][c]], TRUE)]]]
-----------------------------------------------------------------------------
(* Readers.                                                                *)

IsText(p) == p.rows \notin {LongHeader, RestHeader}

\* A reader takes the bitmap to begin Bytes(rows) bytes before the end of the
\* page.  Where that is before the bitmap that was written, it reads bytes that
\* nobody has written as a bitmap: junk.
get_bitmap(p, i, junk) ==
  LET short == Bytes(p.rows) - p.bytes
      byte  == i \div ByteBits
  IN  IF byte < short THEN i % ByteBits \in junk
                      ELSE i - short * ByteBits \in p.bits

\* data_idx at row i: the rows before it that are not null.
DataIndex(p, i, junk) == Cardinality({ k \in 0 .. i - 1 : get_bitmap(p, k, junk) })

\* Item k of a page, 0 the first; Null stands for what is not an item.
Item(p, k) == IF k < Len(p.items) THEN p.items[k + 1] ELSE Null

StringAt(p, k) ==
  SubSeq(p.chars, (IF k = 0 THEN 0 ELSE p.items[k]) + 1, p.items[k + 1])

\* A row past the items reads as Null; the code reads whatever bytes follow.  Only
\* a page whose bitmap is too short has such rows.
ReadRow(type, p, i, junk) ==
  LET k == DataIndex(p, i, junk)
  IN  IF ~get_bitmap(p, i, junk) \/ k >= Len(p.items) THEN Null
      ELSE IF type = "INT32" THEN Item(p, k) ELSE StringAt(p, k)

ReadPage(type, values, p, junk) ==
  CASE p.rows = LongHeader /\ type = "VARCHAR" -> Append(values, p.chars)
    [] p.rows = RestHeader /\ type = "VARCHAR" ->
         [values EXCEPT ![Len(values)] = @ \o p.chars]
    [] OTHER -> values \o [i \in 1 .. p.rows |-> ReadRow(type, p, i - 1, junk)]

\* Table::from_columnar, and Table::copy_scan, for one column.
from_columnar(type, pages, junk) ==
  FoldLeft(LAMBDA values, p : ReadPage(type, values, p, junk), <<>>, pages)
-----------------------------------------------------------------------------
\* The data of a page does not run into its bitmap, the bitmap has a bit for
\* every row, and only the pages of long strings have the headers of those.
PageFits(type, p) ==
  /\ DataEnd(type, p) + p.bytes <= PageSize
  /\ IF p.items = <<>> /\ p.bytes = 0
       THEN p.rows \in {LongHeader, RestHeader}
       ELSE IsText(p) /\ p.bytes = Bytes(p.rows)

\* A page whose bitmap has no bit for its last rows.
ShortBitmap(pages) ==
  \E k \in DOMAIN pages : IsText(pages[k]) /\ pages[k].bytes < Bytes(pages[k].rows)
=============================================================================
