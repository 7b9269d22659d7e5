---------------------------- MODULE Pages_proofs ----------------------------
(***************************************************************************)
(* What TableLoader_proofs and PlanExecutor_proofs need to know of Pages,  *)
(* for pages and bytes of any size: the pages that are written are well    *)
(* formed, and what is read from them is what was written.                 *)
(***************************************************************************)
EXTENDS Pages, SequenceTheorems, FiniteSetTheorems, WellFoundedInduction, TLAPS

-----------------------------------------------------------------------------
(* Bytes of a bitmap.                                                      *)

LEMMA PageSizes ==
  /\ PageSize \in Nat /\ PageSize >= 9
  /\ ByteBits \in Nat \ {0}
  /\ ByteBits * (PageSize - 4) < 65534
BY PageAssumption DEF HeaderBytes, RestHeader

LEMMA Division ==
  ASSUME NEW n \in Nat, NEW d \in Nat \ {0}
  PROVE  /\ n \div d \in Nat
         /\ d * (n \div d) \in Nat
         /\ d * (n \div d) <= n /\ n < d * (n \div d) + d
         /\ (n + d) \div d = n \div d + 1
OBVIOUS

LEMMA FullBytes ==
  ASSUME NEW n \in Nat
  PROVE  n \div ByteBits \in Nat
<1>1. ByteBits \in Nat \ {0}
  BY PageSizes
<1> QED
  BY <1>1, Division

\* The next row needs the byte that n \div ByteBits counts from zero.
LEMMA BytesOfRows ==
  ASSUME NEW n \in Nat
  PROVE  /\ Bytes(n) \in Nat
         /\ Bytes(n + 1) = n \div ByteBits + 1
         /\ n # 0 => Bytes(n) # 0
         /\ n <= ByteBits * Bytes(n)
<1> DEFINE m == n + ByteBits - 1
<1>1. ByteBits \in Nat \ {0} /\ m \in Nat /\ n + 1 + ByteBits - 1 = n + ByteBits
  BY PageSizes
<1>2. /\ m \div ByteBits \in Nat
      /\ m < ByteBits * (m \div ByteBits) + ByteBits
      /\ ByteBits * (m \div ByteBits) \in Nat
  BY <1>1, Division
<1>3. Bytes(n) = m \div ByteBits
  BY DEF Bytes
<1>4. (n + ByteBits) \div ByteBits = n \div ByteBits + 1
  BY <1>1, Division
<1>5. Bytes(n + 1) = n \div ByteBits + 1
  BY <1>1, <1>4 DEF Bytes
<1>6. n <= ByteBits * (m \div ByteBits)
  BY <1>1, <1>2
<1>7. n # 0 => m \div ByteBits # 0
  BY <1>1, <1>2, <1>6
<1> HIDE DEF m
<1> QED
  BY <1>2, <1>3, <1>5, <1>6, <1>7

LEMMA NoBytes == Bytes(0) = 0
<1>1. ByteBits \in Nat \ {0}
  BY PageSizes
<1>2. (0 + ByteBits - 1) \div ByteBits = 0
  BY <1>1
<1> QED
  BY <1>2 DEF Bytes

\* No page has as many rows as the headers of long strings say.
LEMMA RowsAreNoHeader ==
  ASSUME NEW n \in Nat, Bytes(n) <= PageSize - 4
  PROVE  n < 65534
<1>1. /\ n <= ByteBits * Bytes(n) /\ Bytes(n) \in Nat /\ ByteBits \in Nat \ {0}
      /\ PageSize - 4 \in Nat /\ ByteBits * (PageSize - 4) < 65534
  BY BytesOfRows, PageSizes
<1>2. PICK d \in Nat : PageSize - 4 = Bytes(n) + d
  <2>1. PageSize - 4 - Bytes(n) \in Nat /\ PageSize - 4 = Bytes(n) + (PageSize - 4 - Bytes(n))
    BY <1>1
  <2> QED
    BY <2>1
<1>3. /\ ByteBits * (Bytes(n) + d) = ByteBits * Bytes(n) + ByteBits * d
      /\ ByteBits * d \in Nat /\ ByteBits * Bytes(n) \in Nat
  BY <1>1
<1> QED
  BY <1>1, <1>2, <1>3
-----------------------------------------------------------------------------
(* Writers.                                                                *)

IsSequence(s) == \E S : s \in Seq(S)

PagesOK(type, pages) ==
  /\ IsSequence(pages)
  /\ \A k \in DOMAIN pages : PageFits(type, pages[k])

IsWriter(w) ==
  w = [pages |-> w.pages, rows |-> w.rows, items |-> w.items, chars |-> w.chars,
       bits |-> w.bits, bytes |-> w.bytes]

\* The page that is being written has room for its bitmap, and before its first
\* row it is empty.
WriterOK(type, w) ==
  /\ IsWriter(w)
  /\ PagesOK(type, w.pages)
  /\ w.rows \in Nat /\ w.items \in Seq(Int) /\ w.chars \in Seq(Int)
  /\ DataEnd(type, w) + Bytes(w.rows) <= PageSize
  /\ w.rows = 0 => w.items = <<>> /\ w.chars = <<>>

LEMMA PagesAppend ==
  ASSUME NEW type, NEW pages, PagesOK(type, pages), NEW p, PageFits(type, p)
  PROVE  PagesOK(type, Append(pages, p))
<1>1. PICK S : pages \in Seq(S)
  BY DEF PagesOK, IsSequence
<1>2. Append(pages, p) \in Seq(S \cup {p})
  BY <1>1
<1>3. ASSUME NEW k \in DOMAIN Append(pages, p)
      PROVE  \/ Append(pages, p)[k] = p
             \/ k \in DOMAIN pages /\ Append(pages, p)[k] = pages[k]
  BY <1>1
<1> QED
  BY <1>2, <1>3 DEF PagesOK, IsSequence

LEMMA PagesConcat ==
  ASSUME NEW type, NEW a, PagesOK(type, a), NEW b, PagesOK(type, b)
  PROVE  PagesOK(type, a \o b)
<1>1. PICK S : a \in Seq(S)
  BY DEF PagesOK, IsSequence
<1>2. PICK T : b \in Seq(T)
  BY DEF PagesOK, IsSequence
<1>3. a \in Seq(S \cup T) /\ b \in Seq(S \cup T)
  BY <1>1, <1>2
<1>4. a \o b \in Seq(S \cup T)
  BY <1>3
<1>5. ASSUME NEW k \in DOMAIN (a \o b)
      PROVE  \/ k \in DOMAIN a /\ (a \o b)[k] = a[k]
             \/ k - Len(a) \in DOMAIN b /\ (a \o b)[k] = b[k - Len(a)]
  BY <1>3
<1> QED
  BY <1>4, <1>5 DEF PagesOK, IsSequence

LEMMA DataEndType ==
  ASSUME NEW type, NEW w, w.items \in Seq(Int), w.chars \in Seq(Int)
  PROVE  /\ DataEnd(type, w) \in Nat /\ DataEnd(type, w) >= 4
         /\ w.items = <<>> /\ w.chars = <<>> => DataEnd(type, w) = 4
<1>1. Len(w.items) \in Nat /\ Len(w.chars) \in Nat /\ Len(<<>>) = 0
  OBVIOUS
<1>2. ItemBytes(type) \in {2, 4}
  BY DEF ItemBytes
<1> DEFINE n == Len(w.items)
<1>3. n * ItemBytes(type) \in Nat /\ (n = 0 => n * ItemBytes(type) = 0)
  BY <1>1, <1>2
<1> HIDE DEF n
<1>4. DataEnd(type, w) = 4 + n * ItemBytes(type) + Len(w.chars)
  BY DEF DataEnd, HeaderBytes, n
<1>5. w.items = <<>> => n = 0
  BY <1>1 DEF n
<1>6. w.chars = <<>> => Len(w.chars) = 0
  BY <1>1
<1> QED
  BY <1>1, <1>3, <1>4, <1>5, <1>6

LEMMA EmptyWriter ==
  ASSUME NEW type
  PROVE  WriterOK(type, NewWriter)
<1>1. IsWriter(NewWriter)
  BY DEF IsWriter, NewWriter
<1>2. /\ NewWriter.pages = <<>> /\ NewWriter.rows = 0
      /\ NewWriter.items = <<>> /\ NewWriter.chars = <<>>
  BY DEF NewWriter
<1>3. <<>> \in Seq(Int) /\ DOMAIN <<>> = {}
  OBVIOUS
<1>4. DataEnd(type, NewWriter) = 4
  BY <1>2, <1>3, DataEndType
<1> QED
  BY <1>1, <1>2, <1>3, <1>4, NoBytes, PageSizes DEF WriterOK, PagesOK, IsSequence

\* save_page, for a page with rows.
LEMMA SaveOK ==
  ASSUME NEW type, NEW w, WriterOK(type, w), w.rows # 0
  PROVE  /\ WriterOK(type, SaveInserted(w))
         /\ SaveInserted(w).rows = 0
<1> DEFINE p == PageOf(w, Bytes(w.rows))
           s == SaveInserted(w)
<1>1. /\ p.rows = w.rows /\ p.items = w.items /\ p.chars = w.chars
      /\ p.bytes = Bytes(w.rows)
  BY DEF PageOf
<1>2. /\ s.pages = Append(w.pages, p) /\ s.rows = 0
      /\ s.items = <<>> /\ s.chars = <<>> /\ IsWriter(s)
  <2>1. PICK g, r, i, c, t, y :
          w = [pages |-> g, rows |-> r, items |-> i, chars |-> c, bits |-> t, bytes |-> y]
    BY DEF WriterOK, IsWriter
  <2>2. s = [w EXCEPT !.pages = Append(w.pages, p), !.rows = 0,
                      !.items = <<>>, !.chars = <<>>]
    BY DEF SaveInserted
  <2>3. w.pages = g
    BY <2>1
  <2> HIDE DEF p, s
  <2>4. s = [pages |-> Append(g, p), rows |-> 0, items |-> <<>>,
             chars |-> <<>>, bits |-> t, bytes |-> y]
    BY <2>1, <2>2, <2>3
  <2> QED
    BY <2>3, <2>4 DEF IsWriter
<1> HIDE DEF p, s
<1>3. /\ w.rows \in Nat /\ w.items \in Seq(Int) /\ w.chars \in Seq(Int)
      /\ DataEnd(type, w) + Bytes(w.rows) <= PageSize
      /\ PagesOK(type, w.pages)
  BY DEF WriterOK
<1>4. DataEnd(type, p) = DataEnd(type, w)
  BY <1>1 DEF DataEnd
<1>5. /\ DataEnd(type, w) \in Nat /\ DataEnd(type, w) >= 4
      /\ Bytes(w.rows) \in Nat /\ Bytes(w.rows) # 0
  BY <1>3, DataEndType, BytesOfRows
<1>6. Bytes(w.rows) <= PageSize - 4
  BY <1>3, <1>5, PageSizes
<1>7. w.rows < 65534
  BY <1>3, <1>6, RowsAreNoHeader
<1>8. PageFits(type, p)
  BY <1>1, <1>3, <1>4, <1>5, <1>7 DEF PageFits, IsText, LongHeader, RestHeader
<1>9. PagesOK(type, s.pages)
  BY <1>2, <1>3, <1>8, PagesAppend
<1>10. <<>> \in Seq(Int)
  OBVIOUS
<1>11. DataEnd(type, s) = 4
  BY <1>2, <1>10, DataEndType
<1>12. WriterOK(type, s)
  BY <1>2, <1>9, <1>10, <1>11, NoBytes, PageSizes DEF WriterOK
<1> QED
  BY <1>2, <1>12 DEF s

\* The test for room at the head of insert and insert_null.
Room(type, w, extra) == IF PageFull(type, w, extra) THEN SaveInserted(w) ELSE w

LEMMA RoomOK ==
  ASSUME NEW type, NEW w, WriterOK(type, w), NEW extra \in Nat, extra + 5 <= PageSize
  PROVE  LET room == Room(type, w, extra)
         IN  /\ WriterOK(type, room)
             /\ DataEnd(type, room) + extra + room.rows \div ByteBits + 1 <= PageSize
<1>1. ASSUME NEW u, WriterOK(type, u), u.rows = 0
      PROVE  DataEnd(type, u) + extra + u.rows \div ByteBits + 1 <= PageSize
  <2>1. DataEnd(type, u) = 4
    BY <1>1, DataEndType DEF WriterOK
  <2>2. 0 \div ByteBits = 0
    BY PageSizes
  <2> QED
    BY <1>1, <2>1, <2>2, PageSizes
<1>2. CASE PageFull(type, w, extra)
  <2>1. w.rows # 0
    <3> SUFFICES ASSUME w.rows = 0 PROVE FALSE
      OBVIOUS
    <3>1. DataEnd(type, w) + extra + w.rows \div ByteBits + 1 <= PageSize
      BY <1>1
    <3>2. DataEnd(type, w) = 4 /\ w.rows \div ByteBits = 0
      <4>1. DataEnd(type, w) = 4
        BY DataEndType DEF WriterOK
      <4> QED
        BY <4>1, PageSizes
    <3> QED
      BY <1>2, <3>1, <3>2, PageSizes DEF PageFull
  <2>2. WriterOK(type, SaveInserted(w)) /\ SaveInserted(w).rows = 0
    BY <2>1, SaveOK
  <2> QED
    BY <1>1, <1>2, <2>2 DEF Room
<1>3. CASE ~PageFull(type, w, extra)
  <2>1. /\ w.rows \in Nat /\ DataEnd(type, w) \in Nat /\ w.rows \div ByteBits \in Nat
    <3>1. w.rows \in Nat /\ DataEnd(type, w) \in Nat
      BY DataEndType DEF WriterOK
    <3> QED
      BY <3>1, PageSizes, Division
  <2> QED
    BY <1>3, <2>1, PageSizes DEF Room, PageFull
<1> QED
  BY <1>2, <1>3

\* A value that fits, its bit set or not, keeps the writer well formed.
LEMMA AddValueOK ==
  ASSUME NEW type \in DataTypes, NEW u, WriterOK(type, u), NEW v \in ValuesOf(type),
         NEW bits,
         DataEnd(type, u) + ExtraBytes(type, v) + u.rows \div ByteBits + 1 <= PageSize
  PROVE  WriterOK(type, AddValue(type, [u EXCEPT !.bits = bits], v))
<1> DEFINE n == AddValue(type, [u EXCEPT !.bits = bits], v)
<1>1. PICK g, r, i, c, t, y :
        u = [pages |-> g, rows |-> r, items |-> i, chars |-> c, bits |-> t, bytes |-> y]
  BY DEF WriterOK, IsWriter
<1>2. /\ r \in Nat /\ i \in Seq(Int) /\ c \in Seq(Int)
      /\ PagesOK(type, g)
  BY <1>1 DEF WriterOK
<1>3. r + 1 \in Nat /\ r + 1 # 0 /\ Bytes(r + 1) = r \div ByteBits + 1
  <2>1. Bytes(r + 1) = r \div ByteBits + 1
    BY <1>2, BytesOfRows
  <2> QED
    BY <1>2, <2>1
<1>4. /\ DataEnd(type, u) \in Nat
      /\ DataEnd(type, u) + ExtraBytes(type, v) + Bytes(r + 1) <= PageSize
  <2>1. u.rows = r /\ u.items \in Seq(Int) /\ u.chars \in Seq(Int)
    BY <1>1, <1>2
  <2>2. DataEnd(type, u) \in Nat
    BY <2>1, DataEndType
  <2>3. r \div ByteBits \in Nat
    BY <1>2, FullBytes
  <2>4. ExtraBytes(type, v) \in Int
    <3>1. type = "VARCHAR" => Len(v) \in Int
      BY DEF ValuesOf
    <3> QED
      BY <3>1 DEF ExtraBytes, ItemBytes, DataTypes
  <2>5. DataEnd(type, u) + ExtraBytes(type, v) + r \div ByteBits + 1 <= PageSize
    BY <2>1
  <2> QED
    BY <1>3, <2>2, <2>3, <2>4, <2>5, PageSizes
<1>5. CASE type = "INT32"
  <2>1. n = [pages |-> g, rows |-> r + 1, items |-> Append(i, v), chars |-> c,
             bits |-> bits, bytes |-> y]
    BY <1>1, <1>5 DEF AddValue
  <2>2. v \in Int
    BY <1>5 DEF ValuesOf
  <2>3. Append(i, v) \in Seq(Int) /\ Len(Append(i, v)) = Len(i) + 1
    BY <1>2, <2>2
  <2>4. DataEnd(type, n) = DataEnd(type, u) + 4 /\ ExtraBytes(type, v) = 4
    <3>1. n.items = Append(i, v) /\ n.chars = c /\ u.items = i /\ u.chars = c
      BY <1>1, <2>1
    <3>2. DataEnd(type, n) = 4 + (Len(i) + 1) * 4 + Len(c)
      BY <1>5, <2>3, <3>1 DEF DataEnd, ItemBytes, HeaderBytes
    <3>3. DataEnd(type, u) = 4 + Len(i) * 4 + Len(c)
      BY <1>5, <3>1 DEF DataEnd, ItemBytes, HeaderBytes
    <3>4. ExtraBytes(type, v) = 4
      BY <1>5 DEF ExtraBytes, ItemBytes
    <3> QED
      BY <1>2, <3>2, <3>3, <3>4
  <2> HIDE DEF n
  <2>5. /\ n.rows = r + 1 /\ n.items = Append(i, v) /\ n.chars = c /\ n.pages = g
        /\ IsWriter(n)
    BY <2>1 DEF IsWriter
  <2>6. DataEnd(type, n) + Bytes(n.rows) <= PageSize
    BY <1>4, <2>4, <2>5
  <2>7. WriterOK(type, n)
    BY <1>2, <1>3, <2>3, <2>5, <2>6 DEF WriterOK
  <2> QED
    BY <2>7 DEF n
<1>6. CASE type = "VARCHAR"
  <2> DEFINE e == Len(c) + Len(v)
  <2>1. n = [pages |-> g, rows |-> r + 1, items |-> Append(i, e), chars |-> c \o v,
             bits |-> bits, bytes |-> y]
    BY <1>1, <1>6 DEF AddValue
  <2>2. v \in Seq(Int) /\ e \in Int
    BY <1>2, <1>6 DEF ValuesOf
  <2>3. /\ c \o v \in Seq(Int) /\ Len(c \o v) = e
        /\ Append(i, e) \in Seq(Int) /\ Len(Append(i, e)) = Len(i) + 1
    BY <1>2, <2>2
  <2>4. DataEnd(type, n) = DataEnd(type, u) + 2 + Len(v)
    <3> HIDE DEF n, e
    <3>3. n.items = Append(i, e) /\ n.chars = c \o v
      BY <2>1
    <3>1. DataEnd(type, n) = 4 + (Len(i) + 1) * 2 + e
      BY <1>6, <2>3, <3>3 DEF DataEnd, ItemBytes, HeaderBytes
    <3>2. DataEnd(type, u) = 4 + Len(i) * 2 + Len(c)
      BY <1>1, <1>6 DEF DataEnd, ItemBytes, HeaderBytes
    <3> QED
      BY <3>1, <3>2, <1>2, <2>2 DEF e
  <2>5. ExtraBytes(type, v) = 2 + Len(v)
    BY <1>6 DEF ExtraBytes, ItemBytes
  <2> HIDE DEF n, e
  <2>6. /\ n.rows = r + 1 /\ n.items = Append(i, e) /\ n.chars = c \o v /\ n.pages = g
        /\ IsWriter(n)
    BY <2>1 DEF IsWriter
  <2>7. DataEnd(type, u) \in Nat /\ Len(v) \in Nat
    BY <1>4, <2>2
  <2>8. DataEnd(type, n) + Bytes(n.rows) <= PageSize
    BY <1>4, <2>4, <2>5, <2>6, <2>7
  <2>9. WriterOK(type, n)
    BY <1>2, <1>3, <2>3, <2>6, <2>8 DEF WriterOK
  <2> QED
    BY <2>9 DEF n
<1> QED
  BY <1>5, <1>6 DEF DataTypes

\* insert.
LEMMA InsertShortOK ==
  ASSUME NEW type \in DataTypes, NEW w, WriterOK(type, w), NEW v \in ValuesOf(type),
         ~(type = "VARCHAR" /\ IsLong(v))
  PROVE  WriterOK(type, InsertShort(type, w, v))
<1> DEFINE extra == ExtraBytes(type, v)
           room == Room(type, w, extra)
<1>1. extra \in Nat /\ extra + 5 <= PageSize
  <2>1. CASE type = "INT32"
    BY <2>1, PageSizes DEF ExtraBytes, ItemBytes
  <2>2. CASE type = "VARCHAR"
    <3>1. v \in Seq(Int) /\ Len(v) <= PageSize - 7
      BY <2>2, PageSizes DEF ValuesOf, IsLong
    <3>2. extra = 2 + Len(v) /\ Len(v) \in Nat
      BY <2>2, <3>1 DEF ExtraBytes, ItemBytes
    <3> HIDE DEF extra
    <3> QED
      BY <3>1, <3>2, PageSizes
  <2> QED
    BY <2>1, <2>2 DEF DataTypes
<1> HIDE DEF extra
<1>2. /\ WriterOK(type, room)
      /\ DataEnd(type, room) + extra + room.rows \div ByteBits + 1 <= PageSize
  BY <1>1, RoomOK
<1>3. InsertShort(type, w, v) =
        AddValue(type, [room EXCEPT !.bits = room.bits \cup {room.rows}], v)
  BY DEF InsertShort, Room, extra
<1> HIDE DEF room
<1> QED
  BY <1>2, <1>3, AddValueOK, ZenonT(30) DEF extra

\* insert_null.
LEMMA InsertNullOK ==
  ASSUME NEW type \in DataTypes, NEW w, WriterOK(type, w)
  PROVE  WriterOK(type, InsertNull(type, w))
<1> DEFINE room == Room(type, w, 0)
           n == InsertNull(type, w)
<1>1. /\ WriterOK(type, room)
      /\ DataEnd(type, room) + 0 + room.rows \div ByteBits + 1 <= PageSize
  BY PageSizes, RoomOK
<1>2. n = [room EXCEPT !.bits = room.bits \ {room.rows}, !.rows = room.rows + 1]
  BY DEF InsertNull, Room
<1> HIDE DEF room, n
<1>3. PICK g, r, i, c, t, y :
        room = [pages |-> g, rows |-> r, items |-> i, chars |-> c, bits |-> t, bytes |-> y]
  BY <1>1 DEF WriterOK, IsWriter
<1>4. n = [pages |-> g, rows |-> r + 1, items |-> i, chars |-> c, bits |-> t \ {r},
           bytes |-> y]
  BY <1>2, <1>3
<1>5. /\ r \in Nat /\ i \in Seq(Int) /\ c \in Seq(Int) /\ PagesOK(type, g)
  BY <1>1, <1>3 DEF WriterOK
<1>6. r + 1 \in Nat /\ r + 1 # 0 /\ Bytes(r + 1) = r \div ByteBits + 1
      /\ r \div ByteBits \in Nat
  <2>1. Bytes(r + 1) = r \div ByteBits + 1
    BY <1>5, BytesOfRows
  <2>2. r \div ByteBits \in Nat
    BY <1>5, FullBytes
  <2> QED
    BY <1>5, <2>1, <2>2
<1>7. DataEnd(type, n) = DataEnd(type, room) /\ DataEnd(type, room) \in Nat
  BY <1>3, <1>4, <1>5, DataEndType DEF DataEnd
<1>8. DataEnd(type, n) + Bytes(n.rows) <= PageSize
  BY <1>1, <1>3, <1>4, <1>6, <1>7, PageSizes
<1>9. IsWriter(n)
  BY <1>4 DEF IsWriter
<1> HIDE DEF DataEnd, Bytes
<1>10. WriterOK(type, n)
  BY <1>4, <1>5, <1>6, <1>8, <1>9 DEF WriterOK
<1> QED
  BY <1>10 DEF n

\* The pages of a long string.
LEMMA LongPagesOK ==
  ASSUME NEW type, NEW s \in Seq(Int)
  PROVE  PagesOK(type, LongPages(s))
<1> DEFINE B == PieceBytes
           K == (Len(s) + B - 1) \div B
           pages == LongPages(s)
<1>1. /\ B \in Nat /\ B > 0 /\ B = PageSize - 4
      /\ Len(s) \in Nat /\ PageSize \in Nat
  BY PageSizes DEF PieceBytes, HeaderBytes
<1>3. /\ DOMAIN pages = 1 .. K
      /\ pages = [k \in 1 .. K |-> pages[k]]
      /\ \A k \in 1 .. K :
           /\ pages[k].rows = IF k = 1 THEN LongHeader ELSE RestHeader
           /\ pages[k].items = <<>> /\ pages[k].bytes = 0
           /\ pages[k].chars = SubSeq(s, (k - 1) * B + 1, IF k * B < Len(s) THEN k * B ELSE Len(s))
  BY DEF LongPages
<1> HIDE DEF B
<1>2. K \in Nat
  <2> DEFINE m == Len(s) + B - 1
  <2>1. m \in Nat /\ B \in Nat \ {0}
    BY <1>1
  <2> HIDE DEF m
  <2>2. m \div B \in Nat
    BY <2>1, Division
  <2> QED
    BY <2>2 DEF m
<1> HIDE DEF pages, K
<1>4. ASSUME NEW k \in 1 .. K
      PROVE  PageFits(type, pages[k])
  <2> DEFINE lo == (k - 1) * B + 1
             hi == IF k * B < Len(s) THEN k * B ELSE Len(s)
             p  == pages[k]
  <2>1. /\ p.rows = IF k = 1 THEN LongHeader ELSE RestHeader
        /\ p.items = <<>> /\ p.bytes = 0
        /\ p.chars = SubSeq(s, lo, hi)
    BY <1>3
  <2>2. k \in Int /\ k * B \in Int /\ (k - 1) * B = k * B - B
    BY <1>1, <1>2
  <2>3. lo \in Int /\ hi \in Int /\ hi - lo + 1 <= B
    BY <1>1, <2>2
  <2> HIDE DEF lo, hi, p
  <2>4. \A i \in lo .. hi : s[i] \in { s[j] : j \in lo .. hi }
    OBVIOUS
  <2>5. Len(SubSeq(s, lo, hi)) = IF lo <= hi THEN hi - lo + 1 ELSE 0
    BY <2>3, <2>4, SubSeqProperties
  <2>6. Len(p.chars) \in Nat /\ Len(p.chars) <= B
    BY <1>1, <2>1, <2>3, <2>5
  <2>7. DataEnd(type, p) = 4 + Len(p.chars)
    <3>1. Len(p.items) * ItemBytes(type) = 0
      BY <2>1 DEF ItemBytes
    <3> QED
      BY <2>6, <3>1 DEF DataEnd, HeaderBytes
  <2>8. DataEnd(type, p) + p.bytes <= PageSize
    <3>1. 4 + Len(p.chars) + 0 <= PageSize
      BY <1>1, <2>6
    <3> QED
      BY <2>1, <2>7, <3>1
  <2> QED
    BY <2>1, <2>8 DEF PageFits, p
<1>5. pages \in Seq({ pages[k] : k \in 1 .. K })
  <2> DEFINE S == { pages[k] : k \in 1 .. K }
  <2>1. \A k \in 1 .. K : pages[k] \in S
    OBVIOUS
  <2> HIDE DEF S
  <2>2. pages \in [1 .. K -> S]
    BY <1>3, <2>1
  <2>3. pages \in Seq(S)
    BY <1>2, <2>2
  <2> QED
    BY <2>3 DEF S
<1>6. PagesOK(type, pages)
  BY <1>3, <1>4, <1>5 DEF PagesOK, IsSequence
<1> QED
  BY <1>6 DEF pages

\* insert of a long string.
LEMMA InsertLongOK ==
  ASSUME NEW type, NEW w, WriterOK(type, w), NEW s \in Seq(Int)
  PROVE  WriterOK(type, InsertLong(w, s))
<1> DEFINE saved == IF w.rows > 0 THEN SaveInserted(w) ELSE w
           n == InsertLong(w, s)
<1>1. WriterOK(type, saved)
  BY SaveOK DEF WriterOK
<1>2. n = [saved EXCEPT !.pages = saved.pages \o LongPages(s)]
  BY DEF InsertLong
<1> HIDE DEF saved, n
<1>3. PICK g, r, i, c, t, y :
        saved = [pages |-> g, rows |-> r, items |-> i, chars |-> c, bits |-> t, bytes |-> y]
  BY <1>1 DEF WriterOK, IsWriter
<1>4. n = [pages |-> g \o LongPages(s), rows |-> r, items |-> i, chars |-> c, bits |-> t,
           bytes |-> y]
  BY <1>2, <1>3
<1>5. PagesOK(type, g \o LongPages(s))
  BY <1>1, <1>3, LongPagesOK, PagesConcat DEF WriterOK
<1>6. DataEnd(type, n) = DataEnd(type, saved)
  BY <1>3, <1>4 DEF DataEnd
<1>7. IsWriter(n)
  BY <1>4 DEF IsWriter
<1>8. /\ n.pages = g \o LongPages(s) /\ n.rows = saved.rows
      /\ n.items = saved.items /\ n.chars = saved.chars
  BY <1>3, <1>4
<1>9. WriterOK(type, n)
  BY <1>1, <1>5, <1>6, <1>7, <1>8 DEF WriterOK
<1> QED
  BY <1>9 DEF n

LEMMA InsertOK ==
  ASSUME NEW type \in DataTypes, NEW w, WriterOK(type, w), NEW v \in ValuesOf(type)
  PROVE  WriterOK(type, Insert(type, w, v))
<1>1. CASE type = "VARCHAR" /\ IsLong(v)
  BY <1>1, InsertLongOK DEF Insert, ValuesOf
<1>2. CASE ~(type = "VARCHAR" /\ IsLong(v))
  BY <1>2, InsertShortOK DEF Insert
<1> QED
  BY <1>1, <1>2

LEMMA FinalizeOK ==
  ASSUME NEW type, NEW w, WriterOK(type, w)
  PROVE  WriterOK(type, Finalize(w))
BY SaveOK DEF Finalize
-----------------------------------------------------------------------------
(* Induction.                                                              *)

\* Every set of naturals has a least element, so that induction holds.
LEMMA LeastNat ==
  ASSUME NEW T, T \subseteq Nat, T # {}
  PROVE  \E m \in T : \A k \in T : m <= k
<1> DEFINE R == OpToRel(<, Nat)
<1>1. IsWellFoundedOn(R, Nat)
  BY NatLessThanWellFounded
<1>2. \A x, y \in Nat : <<y, x>> \in R <=> y < x
  BY DEF OpToRel
<1> HIDE DEF R
<1>3. PICK m \in T : \A k \in T : ~(<<k, m>> \in R)
  BY <1>1, WFMin
<1>4. \A k \in T : ~(k < m) /\ k \in Nat /\ m \in Nat
  BY <1>2, <1>3
<1>5. \A k \in T : m <= k
  BY <1>4
<1> QED
  BY <1>5

LEMMA Induction ==
  ASSUME NEW T, 0 \in T, \A n \in Nat : n \in T => n + 1 \in T
  PROVE  \A n \in Nat : n \in T
<1> SUFFICES ASSUME NEW n \in Nat, n \notin T PROVE FALSE
  OBVIOUS
<1> DEFINE U == { k \in Nat : k \notin T }
<1>1. PICK m \in U : \A k \in U : m <= k
  BY LeastNat
<1>2. m # 0 /\ m \in Nat
  BY <1>1
<1>3. m - 1 \in Nat /\ ~(m <= m - 1)
  BY <1>2
<1>4. m - 1 \in T
  BY <1>1, <1>3
<1>5. (m - 1) + 1 \in T
  BY <1>3, <1>4
<1>6. (m - 1) + 1 = m
  BY <1>2
<1> QED
  BY <1>5, <1>6
-----------------------------------------------------------------------------
(* Folds: reading pages, putting values into a writer, and collecting the  *)
(* values of an intermediate result in pages of so many values.            *)

Collect(size, pages, v) ==
  IF pages = <<>> \/ Len(Last(pages)) >= size
    THEN Append(pages, <<v>>)
    ELSE [pages EXCEPT ![Len(pages)] = Append(@, v)]

Reading(type, junk)  == [kind |-> "read", type |-> type, junk |-> junk]
Putting(type, grows) == [kind |-> "put", type |-> type, grows |-> grows]
Collecting(size)     == [kind |-> "collect", size |-> size]

Step(o, a, x) ==
  IF o.kind = "read" THEN ReadPage(o.type, a, x, o.junk)
  ELSE IF o.kind = "put" THEN Put(o.type, a, x, o.grows)
  ELSE [a EXCEPT !.num_rows = @ + 1, !.pages = Collect(o.size, @, x)]

\* The recursive function in FoldLeft, for n elements.
Folds(h, o, s, w, n) ==
  h = [d \in SUBSET (1 .. n) |->
         IF d = {} THEN s ELSE Step(o, h[d \ {Max(d)}], w[Max(d)])]

Fold(o, s, w) == (CHOOSE h : Folds(h, o, s, w, Len(w)))[1 .. Len(w)]

LEMMA LastIsMax ==
  ASSUME NEW n \in Nat, NEW d \in SUBSET (1 .. n + 1), n + 1 \in d
  PROVE  Max(d) = n + 1
<1>1. \A y \in d : n + 1 >= y
  OBVIOUS
<1>2. \A x \in d : (\A y \in d : x >= y) => x = n + 1
  OBVIOUS
<1> QED
  BY <1>1, <1>2 DEF Max

LEMMA FoldsExist ==
  ASSUME NEW o, NEW s, NEW w
  PROVE  \A n \in Nat : \E h : Folds(h, o, s, w, n)
<1> DEFINE T == { n \in Nat : \E h : Folds(h, o, s, w, n) }
<1>1. 0 \in T
  <2> DEFINE h == [d \in SUBSET (1 .. 0) |-> s]
  <2>1. 1 .. 0 = {}
    OBVIOUS
  <2>2. \A d \in SUBSET (1 .. 0) : d = {}
    BY <2>1
  <2>3. Folds(h, o, s, w, 0)
    BY <2>2 DEF Folds
  <2> QED BY <2>3
<1>2. ASSUME NEW n \in Nat, n \in T PROVE n + 1 \in T
  <2>1. PICK h : Folds(h, o, s, w, n)
    BY <1>2
  <2> DEFINE g == [d \in SUBSET (1 .. n + 1) |->
                     IF n + 1 \in d THEN Step(o, h[d \ {n + 1}], w[n + 1]) ELSE h[d]]
  <2>2. PICK gg : gg = g
    OBVIOUS
  <2>3. ASSUME NEW d \in SUBSET (1 .. n + 1)
        PROVE  gg[d] = IF d = {} THEN s ELSE Step(o, gg[d \ {Max(d)}], w[Max(d)])
    <3>1. CASE n + 1 \in d
      <4>1. Max(d) = n + 1
        BY <3>1, LastIsMax
      <4>2. d \ {n + 1} \in SUBSET (1 .. n + 1) /\ n + 1 \notin d \ {n + 1}
        OBVIOUS
      <4>3. gg[d \ {n + 1}] = h[d \ {n + 1}]
        BY <2>2, <4>2
      <4>4. gg[d] = Step(o, h[d \ {n + 1}], w[n + 1])
        BY <2>2, <3>1
      <4>5. d # {}
        BY <3>1
      <4> QED BY <4>1, <4>3, <4>4, <4>5
    <3>2. CASE n + 1 \notin d
      <4>1. d \in SUBSET (1 .. n)
        BY <3>2
      <4>2. gg[d] = h[d]
        BY <2>2, <3>2
      <4>3. PICK e : e = d \ {Max(d)}
        OBVIOUS
      <4>4. e \in SUBSET (1 .. n + 1) /\ n + 1 \notin e
        BY <3>2, <4>3
      <4>5. gg[e] = h[e]
        BY <2>2, <4>4
      <4>6. h[d] = IF d = {} THEN s ELSE Step(o, h[d \ {Max(d)}], w[Max(d)])
        BY <2>1, <4>1 DEF Folds
      <4> QED BY <4>2, <4>3, <4>5, <4>6
    <3> QED BY <3>1, <3>2
  <2>4. gg = [d \in SUBSET (1 .. n + 1) |-> gg[d]]
    BY <2>2
  <2>5. gg = [d \in SUBSET (1 .. n + 1) |->
                IF d = {} THEN s ELSE Step(o, gg[d \ {Max(d)}], w[Max(d)])]
    BY <2>3, <2>4
  <2>6. Folds(gg, o, s, w, n + 1)
    BY <2>5 DEF Folds
  <2>7. \E f : Folds(f, o, s, w, n + 1)
    BY <2>6
  <2> HIDE DEF g
  <2> QED BY <2>7
<1> HIDE DEF T
<1>3. \A n \in Nat : n \in T
  BY <1>1, <1>2, Induction
<1> QED
  BY <1>3 DEF T

LEMMA FoldsAgree ==
  ASSUME NEW o, NEW s, NEW n \in Nat, NEW m \in Nat, NEW v, NEW w, NEW g, NEW h, n <= m,
         Folds(g, o, s, v, n), Folds(h, o, s, w, m), \A i \in 1 .. n : v[i] = w[i]
  PROVE  g[1 .. n] = h[1 .. n]
<1> DEFINE T == { k \in Nat : k <= n => \A d \in SUBSET (1 .. k) : g[d] = h[d] }
<1>1. /\ \A d \in SUBSET (1 .. n) :
           g[d] = IF d = {} THEN s ELSE Step(o, g[d \ {Max(d)}], v[Max(d)])
      /\ \A d \in SUBSET (1 .. m) :
           h[d] = IF d = {} THEN s ELSE Step(o, h[d \ {Max(d)}], w[Max(d)])
  BY DEF Folds
<1>2. 1 .. n \subseteq 1 .. m
  OBVIOUS
<1>3. 0 \in T
  <2>1. \A d \in SUBSET (1 .. 0) : d = {} /\ d \in SUBSET (1 .. n) /\ d \in SUBSET (1 .. m)
    OBVIOUS
  <2> QED BY <1>1, <2>1
<1>4. ASSUME NEW k \in Nat, k \in T PROVE k + 1 \in T
  <2> SUFFICES ASSUME k + 1 <= n, NEW d \in SUBSET (1 .. k + 1) PROVE g[d] = h[d]
    OBVIOUS
  <2>1. \A e \in SUBSET (1 .. k) : g[e] = h[e]
    BY <1>4
  <2>2. CASE k + 1 \notin d
    <3>1. d \in SUBSET (1 .. k)
      BY <2>2
    <3> QED BY <2>1, <3>1
  <2>3. CASE k + 1 \in d
    <3>1. Max(d) = k + 1
      BY <2>3, LastIsMax
    <3>2. d \in SUBSET (1 .. n) /\ d \in SUBSET (1 .. m) /\ d # {}
      BY <1>2, <2>3
    <3>3. d \ {k + 1} \in SUBSET (1 .. k)
      OBVIOUS
    <3>4. v[k + 1] = w[k + 1]
      OBVIOUS
    <3>5. g[d] = Step(o, g[d \ {k + 1}], v[k + 1]) /\ h[d] = Step(o, h[d \ {k + 1}], w[k + 1])
      BY <1>1, <3>1, <3>2
    <3> QED BY <2>1, <3>3, <3>4, <3>5
  <2> QED BY <2>2, <2>3
<1> HIDE DEF T
<1>5. n \in T
  BY <1>3, <1>4, Induction
<1>6. \A d \in SUBSET (1 .. n) : g[d] = h[d]
  BY <1>5 DEF T
<1> QED
  BY <1>6

LEMMA FoldIs ==
  ASSUME NEW o, NEW s, NEW w, Len(w) \in Nat, NEW h, Folds(h, o, s, w, Len(w))
  PROVE  Fold(o, s, w) = h[1 .. Len(w)]
<1> DEFINE g == CHOOSE f : Folds(f, o, s, w, Len(w))
<1>1. Folds(g, o, s, w, Len(w))
  BY FoldsExist
<1>2. Len(w) <= Len(w)
  OBVIOUS
<1> HIDE DEF g
<1>3. g[1 .. Len(w)] = h[1 .. Len(w)]
  BY <1>1, <1>2, FoldsAgree
<1> QED
  BY <1>3 DEF Fold, g

LEMMA FoldEmpty ==
  ASSUME NEW o, NEW s
  PROVE  Fold(o, s, <<>>) = s
<1>1. PICK w : w = <<>>
  OBVIOUS
<1>2. Len(w) = 0
  BY <1>1
<1>3. PICK h : Folds(h, o, s, w, 0)
  BY FoldsExist
<1>4. Fold(o, s, w) = h[1 .. 0]
  BY <1>2, <1>3, FoldIs
<1>5. 1 .. 0 \in SUBSET (1 .. 0) /\ 1 .. 0 = {}
  OBVIOUS
<1>6. h[1 .. 0] = s
  BY <1>3, <1>5 DEF Folds
<1> QED
  BY <1>1, <1>4, <1>6

\* The last element comes after the others.
LEMMA FoldLast ==
  ASSUME NEW o, NEW s, NEW S, NEW v \in Seq(S), NEW c
  PROVE  Fold(o, s, Append(v, c)) = Step(o, Fold(o, s, v), c)
<1>1. PICK w : w = Append(v, c)
  OBVIOUS
<1>2. PICK n \in Nat : n = Len(v)
  OBVIOUS
<1>3. v \in Seq(S \cup {c}) /\ c \in S \cup {c}
  OBVIOUS
<1>4. /\ Len(w) = n + 1 /\ w[n + 1] = c
      /\ \A i \in 1 .. n : v[i] = w[i]
  BY <1>1, <1>2, <1>3
<1>5. PICK g : Folds(g, o, s, v, n)
  BY FoldsExist
<1>6. n + 1 \in Nat /\ n <= n + 1
  OBVIOUS
<1>7. PICK h : Folds(h, o, s, w, n + 1)
  BY <1>6, FoldsExist
<1>8. Fold(o, s, v) = g[1 .. n]
  BY <1>2, <1>5, FoldIs
<1>9. Fold(o, s, w) = h[1 .. n + 1]
  BY <1>4, <1>6, <1>7, FoldIs
<1>10. g[1 .. n] = h[1 .. n]
  BY <1>4, <1>5, <1>6, <1>7, FoldsAgree
<1>11. h[1 .. n + 1] = Step(o, h[1 .. n], c)
  <2>1. PICK d : d = 1 .. n + 1
    OBVIOUS
  <2>2. d \in SUBSET (1 .. n + 1) /\ n + 1 \in d /\ d # {} /\ d \ {n + 1} = 1 .. n
    BY <2>1
  <2>3. Max(d) = n + 1
    BY <2>2, LastIsMax
  <2>4. h[d] = IF d = {} THEN s ELSE Step(o, h[d \ {Max(d)}], w[Max(d)])
    BY <1>7, <2>2 DEF Folds
  <2> QED BY <1>4, <2>1, <2>2, <2>3, <2>4
<1> QED
  BY <1>1, <1>8, <1>9, <1>10, <1>11

\* from_columnar reads the pages in their order.
LEMMA ReadIs ==
  ASSUME NEW type, NEW junk, NEW pages, IsSequence(pages)
  PROVE  from_columnar(type, pages, junk) = Fold(Reading(type, junk), <<>>, pages)
<1> DEFINE n == Len(pages)
           o == Reading(type, junk)
           Reads(h) == h = [d \in SUBSET (1 .. n) |->
                              IF d = {} THEN <<>>
                              ELSE ReadPage(type, h[d \ {Max(d)}], pages[Max(d)], junk)]
           r == CHOOSE h : Reads(h)
<1>1. n \in Nat /\ DOMAIN pages = 1 .. n
  BY DEF IsSequence
<1>2. \A a, x : Step(o, a, x) = ReadPage(type, a, x, junk)
  BY DEF Step, Reading
<1> HIDE DEF o, n
<1>3. PICK h : Folds(h, o, <<>>, pages, n)
  BY <1>1, FoldsExist
<1>4. Reads(h)
  BY <1>2, <1>3 DEF Folds
<1>5. Reads(r)
  BY <1>4
<1>6. from_columnar(type, pages, junk) = r[1 .. n]
  BY <1>1 DEF from_columnar, FoldLeft, MapThenFoldSet
<1> HIDE DEF r
<1>7. Folds(r, o, <<>>, pages, n)
  BY <1>2, <1>5 DEF Folds
<1> QED
  BY <1>1, <1>6, <1>7, FoldIs DEF n, o

\* WriteColumn puts the values in their order.
LEMMA PutsAre ==
  ASSUME NEW type, NEW grows, NEW values, IsSequence(values)
  PROVE  FoldLeft(LAMBDA u, v : Put(type, u, v, grows), NewWriter, values)
           = Fold(Putting(type, grows), NewWriter, values)
<1> DEFINE n == Len(values)
           o == Putting(type, grows)
           Puts(h) == h = [d \in SUBSET (1 .. n) |->
                             IF d = {} THEN NewWriter
                             ELSE Put(type, h[d \ {Max(d)}], values[Max(d)], grows)]
           r == CHOOSE h : Puts(h)
<1>1. n \in Nat /\ DOMAIN values = 1 .. n
  BY DEF IsSequence
<1>2. \A a, x : Step(o, a, x) = Put(type, a, x, grows)
  BY DEF Step, Putting
<1> HIDE DEF o, n
<1>3. PICK h : Folds(h, o, NewWriter, values, n)
  BY <1>1, FoldsExist
<1>4. Puts(h)
  BY <1>2, <1>3 DEF Folds
<1>5. Puts(r)
  BY <1>4
<1>6. FoldLeft(LAMBDA u, v : Put(type, u, v, grows), NewWriter, values) = r[1 .. n]
  BY <1>1 DEF FoldLeft, MapThenFoldSet
<1> HIDE DEF r
<1>7. Folds(r, o, NewWriter, values, n)
  BY <1>2, <1>5 DEF Folds
<1> QED
  BY <1>1, <1>6, <1>7, FoldIs DEF n, o
-----------------------------------------------------------------------------
(* The rows of a page, on paper or still with its writer.                  *)

\* The rows before row i that are not null.
DataBits(w, i) == Cardinality({ j \in 0 .. i - 1 : j \in w.bits })

WrittenRow(type, w, i) ==
  IF i \notin w.bits THEN Null
  ELSE IF type = "INT32" THEN w.items[DataBits(w, i) + 1] ELSE StringAt(w, DataBits(w, i))

Written(type, w) == [i \in 1 .. w.rows |-> WrittenRow(type, w, i - 1)]

ValueIn(S, type, v) == IF type = "INT32" THEN v \in S ELSE v \in Seq(S)

\* There is an item for every row that is not null, and the strings lie one after
\* the other.
Consistent(S, type, w) ==
  /\ w.rows \in Nat
  /\ DataBits(w, w.rows) = Len(w.items)
  /\ w.chars \in Seq(S)
  /\ w.items = <<>> => w.chars = <<>>
  /\ IF type = "INT32"
       THEN w.items \in Seq(S) /\ w.chars = <<>>
       ELSE /\ w.items \in Seq(Nat)
            /\ \A k \in 1 .. Len(w.items) : w.items[k] <= Len(w.chars)
            /\ w.items # <<>> => w.items[Len(w.items)] = Len(w.chars)

LEMMA BitsBefore ==
  ASSUME NEW w, NEW i \in Nat
  PROVE  IsFiniteSet({ j \in 0 .. i - 1 : j \in w.bits }) /\ DataBits(w, i) \in Nat
<1>1. IsFiniteSet(0 .. i - 1)
  <2>1. 0 \in Int /\ i - 1 \in Int
    OBVIOUS
  <2> QED BY <2>1, FS_Interval
<1>2. IsFiniteSet({ j \in 0 .. i - 1 : j \in w.bits })
  <2>1. { j \in 0 .. i - 1 : j \in w.bits } \subseteq 0 .. i - 1
    OBVIOUS
  <2> QED BY <1>1, <2>1, FS_Subset
<1> QED
  BY <1>2, FS_CardinalityType DEF DataBits

LEMMA BitsNext ==
  ASSUME NEW w, NEW i \in Nat
  PROVE  DataBits(w, i + 1) = DataBits(w, i) + (IF i \in w.bits THEN 1 ELSE 0)
<1> DEFINE A(n) == { j \in 0 .. n - 1 : j \in w.bits }
<1>1. A(i + 1) = IF i \in w.bits THEN A(i) \cup {i} ELSE A(i)
  <2>1. \A j : j \in 0 .. (i + 1) - 1 <=> j \in 0 .. i - 1 \/ j = i
    OBVIOUS
  <2> QED BY <2>1
<1>2. IsFiniteSet(A(i)) /\ Cardinality(A(i)) \in Nat
  BY BitsBefore DEF DataBits
<1>3. i \notin A(i)
  OBVIOUS
<1>4. Cardinality(A(i) \cup {i}) = Cardinality(A(i)) + 1
  BY <1>2, <1>3, FS_AddElement
<1>5. DataBits(w, i + 1) = Cardinality(A(i + 1)) /\ DataBits(w, i) = Cardinality(A(i))
  BY DEF DataBits
<1> HIDE DEF A
<1> QED
  BY <1>1, <1>2, <1>4, <1>5

\* The item of a row is one of the page.
LEMMA BitsLess ==
  ASSUME NEW w, NEW n \in Nat, NEW i \in 0 .. n - 1, i \in w.bits
  PROVE  DataBits(w, i) \in Nat /\ DataBits(w, i) < DataBits(w, n)
<1>1. i \in Nat /\ i + 1 \in Nat
  OBVIOUS
<1>2. DataBits(w, i + 1) = DataBits(w, i) + 1 /\ DataBits(w, i) \in Nat
  BY <1>1, BitsNext, BitsBefore
<1>3. { j \in 0 .. (i + 1) - 1 : j \in w.bits } \subseteq { j \in 0 .. n - 1 : j \in w.bits }
  OBVIOUS
<1>4. DataBits(w, i + 1) <= DataBits(w, n) /\ DataBits(w, n) \in Nat
  BY <1>3, BitsBefore, FS_Subset DEF DataBits
<1> QED
  BY <1>2, <1>4

\* Only the bits of rows count.
LEMMA BitsAgree ==
  ASSUME NEW u, NEW w, NEW n \in Nat, \A j \in 0 .. n - 1 : j \in u.bits <=> j \in w.bits
  PROVE  \A i \in 0 .. n : DataBits(u, i) = DataBits(w, i)
<1> SUFFICES ASSUME NEW i \in 0 .. n PROVE DataBits(u, i) = DataBits(w, i)
  OBVIOUS
<1>1. \A j \in 0 .. i - 1 : j \in 0 .. n - 1
  OBVIOUS
<1>2. { j \in 0 .. i - 1 : j \in u.bits } = { j \in 0 .. i - 1 : j \in w.bits }
  BY <1>1
<1> QED
  BY <1>2 DEF DataBits

LEMMA SameRowsWritten ==
  ASSUME NEW S, NEW type, NEW u, NEW w, Consistent(S, type, w),
         u.rows = w.rows, u.items = w.items, u.chars = w.chars,
         \A j \in 0 .. w.rows - 1 : j \in u.bits <=> j \in w.bits
  PROVE  Consistent(S, type, u) /\ Written(type, u) = Written(type, w)
<1>1. PICK n \in Nat : n = w.rows
  BY DEF Consistent
<1>2. \A i \in 0 .. n : DataBits(u, i) = DataBits(w, i)
  BY <1>1, BitsAgree
<1>3. Consistent(S, type, u)
  BY <1>1, <1>2 DEF Consistent
<1>4. ASSUME NEW i \in 1 .. n
      PROVE  WrittenRow(type, u, i - 1) = WrittenRow(type, w, i - 1)
  <2>1. i - 1 \in 0 .. n - 1 /\ i - 1 \in 0 .. n
    OBVIOUS
  <2>2. DataBits(u, i - 1) = DataBits(w, i - 1)
    BY <1>2, <2>1
  <2>3. i - 1 \in u.bits <=> i - 1 \in w.bits
    BY <1>1, <2>1
  <2> QED BY <2>2, <2>3 DEF WrittenRow, StringAt
<1>5. Written(type, u) = Written(type, w)
  BY <1>1, <1>4 DEF Written
<1> QED
  BY <1>3, <1>5

\* The page is read as it was written, if its bitmap is complete.
LEMMA BitmapExact ==
  ASSUME NEW S, NEW type, NEW p, Consistent(S, type, p), p.bytes = Bytes(p.rows), NEW junk,
         NEW i \in 0 .. p.rows - 1
  PROVE  /\ get_bitmap(p, i, junk) <=> i \in p.bits
         /\ DataIndex(p, i, junk) = DataBits(p, i) /\ DataBits(p, i) \in Nat
         /\ Len(p.items) \in Nat /\ i \in p.bits => DataBits(p, i) < Len(p.items)
<1>1. PICK n \in Nat : n = p.rows
  BY DEF Consistent
<1>2. Bytes(n) \in Nat /\ ByteBits \in Nat \ {0} /\ i \in Nat
  BY <1>1, BytesOfRows, PageSizes
<1>3. ASSUME NEW k \in Nat PROVE get_bitmap(p, k, junk) <=> k \in p.bits
  <2>1. Bytes(p.rows) - p.bytes = 0
    BY <1>1, <1>2
  <2>2. k \div ByteBits \in Nat /\ k - 0 * ByteBits = k
    BY <1>2, FullBytes
  <2> QED BY <2>1, <2>2 DEF get_bitmap
<1>4. DataIndex(p, i, junk) = DataBits(p, i)
  <2>1. { k \in 0 .. i - 1 : get_bitmap(p, k, junk) } = { k \in 0 .. i - 1 : k \in p.bits }
    BY <1>3
  <2> QED BY <2>1 DEF DataIndex, DataBits
<1>5. DataBits(p, n) = Len(p.items) /\ Len(p.items) \in Nat
  BY <1>1, BitsBefore DEF Consistent
<1>6. i \in p.bits => DataBits(p, i) < Len(p.items)
  BY <1>1, <1>5, BitsLess
<1> QED
  BY <1>2, <1>3, <1>4, <1>5, <1>6, BitsBefore

LEMMA ReadsWritten ==
  ASSUME NEW S, NEW type \in DataTypes, NEW p, Consistent(S, type, p),
         p.bytes = Bytes(p.rows), IsText(p), NEW junk, NEW u
  PROVE  ReadPage(type, u, p, junk) = u \o Written(type, p)
<1>1. ASSUME NEW i \in 0 .. p.rows - 1
      PROVE  ReadRow(type, p, i, junk) = WrittenRow(type, p, i)
  <2>1. /\ get_bitmap(p, i, junk) <=> i \in p.bits
        /\ DataIndex(p, i, junk) = DataBits(p, i) /\ DataBits(p, i) \in Nat
        /\ Len(p.items) \in Nat /\ i \in p.bits => DataBits(p, i) < Len(p.items)
    BY BitmapExact
  <2> QED BY <2>1 DEF ReadRow, WrittenRow, Item
<1>2. [i \in 1 .. p.rows |-> ReadRow(type, p, i - 1, junk)] = Written(type, p)
  <2>1. \A i \in 1 .. p.rows : i - 1 \in 0 .. p.rows - 1
    BY DEF Consistent
  <2> QED BY <1>1, <2>1 DEF Written
<1> QED
  BY <1>2 DEF ReadPage, IsText

LEMMA WrittenType ==
  ASSUME NEW S, NEW type, NEW w, Consistent(S, type, w)
  PROVE  IsSequence(Written(type, w)) /\ Len(Written(type, w)) = w.rows
<1> DEFINE f == Written(type, w)
           T == { f[i] : i \in 1 .. w.rows }
<1>1. w.rows \in Nat
  BY DEF Consistent
<1>2. f = [i \in 1 .. w.rows |-> f[i]] /\ \A i \in 1 .. w.rows : f[i] \in T
  BY DEF Written
<1> HIDE DEF f, T
<1>3. f \in [1 .. w.rows -> T]
  BY <1>2
<1>4. f \in Seq(T)
  BY <1>1, <1>3, SeqDef
<1>5. Len(f) = w.rows
  BY <1>1, <1>2, <1>4
<1> QED
  BY <1>4, <1>5 DEF IsSequence, f

LEMMA SubSeqOfConcat ==
  ASSUME NEW S, NEW c \in Seq(S), NEW v \in Seq(S)
  PROVE  /\ \A lo \in Nat \ {0}, hi \in Nat :
              hi <= Len(c) => SubSeq(c \o v, lo, hi) = SubSeq(c, lo, hi)
         /\ SubSeq(c \o v, Len(c) + 1, Len(c) + Len(v)) = v
<1>1. c \o v \in Seq(S) /\ Len(c \o v) = Len(c) + Len(v) /\ Len(c) \in Nat /\ Len(v) \in Nat
  OBVIOUS
<1>2. ASSUME NEW lo \in Nat \ {0}, NEW hi \in Nat, hi <= Len(c)
      PROVE  SubSeq(c \o v, lo, hi) = SubSeq(c, lo, hi)
  <2>1. PICK d : d = c \o v
    OBVIOUS
  <2>2. \A i \in lo .. hi : c[i] \in S /\ d[i] = c[i]
    <3> SUFFICES ASSUME NEW i \in lo .. hi PROVE c[i] \in S /\ d[i] = c[i]
      OBVIOUS
    <3>1. i \in 1 .. Len(c)
      BY <1>1, <1>2
    <3> QED BY <2>1, <3>1, ConcatProperties
  <2>3. \A i \in lo .. hi : d[i] \in S
    BY <2>2
  <2>4. PICK s, t : s = SubSeq(c, lo, hi) /\ t = SubSeq(d, lo, hi)
    OBVIOUS
  <2>5. /\ s \in Seq(S) /\ Len(s) = IF lo <= hi THEN hi - lo + 1 ELSE 0
        /\ \A i \in 1 .. hi - lo + 1 : s[i] = c[lo + i - 1]
    BY <2>2, <2>4, SubSeqProperties
  <2>6. /\ t \in Seq(S) /\ Len(t) = IF lo <= hi THEN hi - lo + 1 ELSE 0
        /\ \A i \in 1 .. hi - lo + 1 : t[i] = d[lo + i - 1]
    BY <2>3, <2>4, SubSeqProperties
  <2>7. ASSUME NEW i \in 1 .. Len(s) PROVE s[i] = t[i]
    <3>1. lo <= hi /\ i \in 1 .. hi - lo + 1 /\ lo + i - 1 \in lo .. hi
      BY <2>5
    <3> QED BY <2>2, <2>5, <2>6, <3>1
  <2>8. s = t
    BY <2>5, <2>6, <2>7, SeqEqual
  <2> QED BY <2>1, <2>4, <2>8
<1>3. SubSeq(c \o v, Len(c) + 1, Len(c) + Len(v)) = v
  OBVIOUS
<1> QED
  BY <1>2, <1>3

\* n is w with one more row, its value or its string behind the others.
Added(type, n, w, v) ==
  /\ n.rows = w.rows + 1
  /\ IF type = "INT32"
       THEN n.items = Append(w.items, v) /\ n.chars = w.chars
       ELSE n.items = Append(w.items, Len(w.chars) + Len(v)) /\ n.chars = w.chars \o v
  /\ w.rows \in n.bits
  /\ \A j \in 0 .. w.rows - 1 : j \in n.bits <=> j \in w.bits

LEMMA AddedBits ==
  ASSUME NEW w, NEW n, w.rows \in Nat, \A j \in 0 .. w.rows - 1 : j \in n.bits <=> j \in w.bits
  PROVE  /\ \A i \in 0 .. w.rows : DataBits(n, i) = DataBits(w, i)
         /\ DataBits(n, w.rows + 1) = DataBits(w, w.rows) + (IF w.rows \in n.bits THEN 1 ELSE 0)
<1>1. \A i \in 0 .. w.rows : DataBits(n, i) = DataBits(w, i)
  BY BitsAgree
<1>2. DataBits(n, w.rows + 1) = DataBits(n, w.rows) + (IF w.rows \in n.bits THEN 1 ELSE 0)
  BY BitsNext
<1>3. w.rows \in 0 .. w.rows
  OBVIOUS
<1> QED
  BY <1>1, <1>2, <1>3

\* The value comes after the rows that were there.
LEMMA AppendRow ==
  ASSUME NEW S, NEW type, NEW w, Consistent(S, type, w), NEW n, NEW v, n.rows = w.rows + 1,
         \A i \in 0 .. w.rows - 1 : WrittenRow(type, n, i) = WrittenRow(type, w, i),
         WrittenRow(type, n, w.rows) = v
  PROVE  Written(type, n) = Append(Written(type, w), v)
<1>1. PICK r \in Nat : r = w.rows
  BY DEF Consistent
<1>2. PICK f, T : f = Written(type, w) /\ f \in Seq(T) /\ Len(f) = r
  BY <1>1, WrittenType DEF IsSequence
<1>3. PICK g : g = Written(type, n)
  OBVIOUS
<1>4. g = [i \in 1 .. r + 1 |-> WrittenRow(type, n, i - 1)]
  BY <1>1, <1>3 DEF Written
<1>5. \A i \in 1 .. r : g[i] = f[i]
  <2> SUFFICES ASSUME NEW i \in 1 .. r PROVE g[i] = f[i]
    OBVIOUS
  <2>1. i - 1 \in 0 .. r - 1 /\ i \in 1 .. r + 1
    OBVIOUS
  <2>2. f[i] = WrittenRow(type, w, i - 1)
    BY <1>1, <1>2 DEF Written
  <2> QED BY <1>1, <1>4, <2>1, <2>2
<1>6. g[r + 1] = v
  BY <1>1, <1>4
<1>7. Append(f, v) \in Seq(T \cup {v}) /\ f \in Seq(T \cup {v})
  BY <1>2
<1>8. PICK h : h = Append(f, v)
  OBVIOUS
<1>9. h = [i \in 1 .. r + 1 |-> h[i]] /\ h[r + 1] = v /\ \A i \in 1 .. r : h[i] = f[i]
  <2>1. v \in T \cup {v}
    OBVIOUS
  <2>2. h \in Seq(T \cup {v}) /\ Len(h) = r + 1
    BY <1>2, <1>7, <1>8, <2>1, AppendProperties
  <2>3. h[r + 1] = v /\ \A i \in 1 .. r : h[i] = f[i]
    BY <1>2, <1>7, <1>8, <2>1, AppendProperties
  <2> QED BY <2>2, <2>3, LenProperties
<1>10. \A i \in 1 .. r + 1 : g[i] = h[i]
  <2> SUFFICES ASSUME NEW i \in 1 .. r + 1 PROVE g[i] = h[i]
    OBVIOUS
  <2>1. i = r + 1 \/ i \in 1 .. r
    OBVIOUS
  <2> QED BY <1>5, <1>6, <1>9, <2>1
<1>11. g = h
  <2>1. g = [i \in 1 .. r + 1 |-> g[i]]
    BY <1>4
  <2> QED BY <1>9, <1>10, <2>1
<1> QED
  BY <1>2, <1>3, <1>8, <1>11

LEMMA AddedString ==
  ASSUME NEW S, NEW w, Consistent(S, "VARCHAR", w), NEW v \in Seq(S), NEW n,
         Added("VARCHAR", n, w, v)
  PROVE  /\ Consistent(S, "VARCHAR", n)
         /\ Written("VARCHAR", n) = Append(Written("VARCHAR", w), v)
<1>1. PICK r \in Nat : r = w.rows
  BY DEF Consistent
<1>2. PICK i, c : i = w.items /\ c = w.chars
  OBVIOUS
<1>3. /\ i \in Seq(Nat) /\ c \in Seq(S) /\ DataBits(w, r) = Len(i)
      /\ i = <<>> => c = <<>>
      /\ \A k \in 1 .. Len(i) : i[k] <= Len(c)
      /\ i # <<>> => i[Len(i)] = Len(c)
  BY <1>1, <1>2 DEF Consistent
<1>4. PICK m \in Nat, e \in Nat, l \in Nat : m = Len(i) /\ e = Len(c) + Len(v) /\ l = Len(c)
  BY <1>3
<1>5. /\ n.rows = r + 1 /\ n.items = Append(i, e) /\ n.chars = c \o v
      /\ r \in n.bits /\ \A j \in 0 .. r - 1 : j \in n.bits <=> j \in w.bits
  BY <1>1, <1>2, <1>4 DEF Added
<1>6. /\ \A x \in 0 .. r : DataBits(n, x) = DataBits(w, x)
      /\ DataBits(n, r + 1) = m + 1
  BY <1>1, <1>3, <1>4, <1>5, AddedBits
<1>7. PICK y : y = Append(i, e)
  OBVIOUS
<1>8. /\ y \in Seq(Nat) /\ Len(y) = m + 1 /\ y[m + 1] = e
      /\ \A k \in 1 .. m : y[k] = i[k]
  BY <1>3, <1>4, <1>7
<1>9. PICK d \in Seq(S) : d = c \o v /\ Len(d) = e
  <2>1. c \o v \in Seq(S) /\ Len(c \o v) = e
    BY <1>3, <1>4, ConcatProperties
  <2> QED BY <2>1
<1>10. Consistent(S, "VARCHAR", n)
  <2>1. \A k \in 1 .. m + 1 : y[k] <= e
    <3> SUFFICES ASSUME NEW k \in 1 .. m + 1 PROVE y[k] <= e
      OBVIOUS
    <3>1. CASE k = m + 1
      BY <1>8, <3>1
    <3>2. CASE k # m + 1
      <4>1. k \in 1 .. m
        BY <3>2
      <4>2. i[k] <= Len(c) /\ i[k] \in Nat
        BY <1>3, <1>4, <4>1
      <4>3. Len(c) <= e /\ Len(c) \in Nat
        BY <1>3, <1>4
      <4> QED BY <1>8, <4>1, <4>2, <4>3
    <3> QED BY <3>1, <3>2
  <2>2. y # <<>> /\ r + 1 \in Nat
    BY <1>8
  <2> QED BY <1>5, <1>6, <1>7, <1>8, <1>9, <2>1, <2>2 DEF Consistent
<1>11. ASSUME NEW x \in 0 .. r - 1
       PROVE  WrittenRow("VARCHAR", n, x) = WrittenRow("VARCHAR", w, x)
  <2>1. CASE x \notin w.bits
    BY <1>5, <2>1 DEF WrittenRow
  <2>2. CASE x \in w.bits
    <3>1. PICK k \in Nat : k = DataBits(w, x) /\ k < m
      BY <1>3, <1>4, <2>2, BitsLess
    <3>2. DataBits(n, x) = k
      BY <1>6, <3>1
    <3>3. k + 1 \in 1 .. m /\ (k # 0 => k \in 1 .. m)
      BY <3>1
    <3>4. PICK lo \in Nat \ {0}, hi \in Nat :
             lo = (IF k = 0 THEN 0 ELSE i[k]) + 1 /\ hi = i[k + 1]
      BY <1>3, <1>4, <3>3
    <3>5. hi <= Len(c)
      BY <1>3, <1>4, <3>3, <3>4
    <3>6. SubSeq(c \o v, lo, hi) = SubSeq(c, lo, hi)
      BY <1>3, <3>5, SubSeqOfConcat
    <3>7. y[k + 1] = i[k + 1] /\ (k # 0 => y[k] = i[k])
      BY <1>8, <3>3
    <3>8. StringAt(n, k) = SubSeq(c \o v, lo, hi)
      BY <1>5, <1>7, <3>4, <3>7 DEF StringAt
    <3>9. StringAt(w, k) = SubSeq(c, lo, hi)
      BY <1>2, <3>4 DEF StringAt
    <3>10. x \in n.bits
      BY <1>5, <2>2
    <3> QED BY <2>2, <3>1, <3>2, <3>6, <3>8, <3>9, <3>10 DEF WrittenRow
  <2> QED BY <2>1, <2>2
<1>12. WrittenRow("VARCHAR", n, r) = v
  <2>1. DataBits(n, r) = m /\ r \in 0 .. r
    BY <1>3, <1>4, <1>6
  <2>2. (IF m = 0 THEN 0 ELSE y[m]) = l
    <3>1. CASE m = 0
      <4>1. i = <<>>
        BY <1>3, <1>4, <3>1, EmptySeq
      <4> QED BY <1>3, <1>4, <3>1, <4>1
    <3>2. CASE m # 0
      <4>1. i # <<>> /\ m \in 1 .. m
        BY <1>3, <1>4, <3>2
      <4> QED BY <1>3, <1>4, <1>8, <3>2, <4>1
    <3> QED BY <3>1, <3>2
  <2>3. StringAt(n, m) = SubSeq(c \o v, l + 1, e)
    BY <1>5, <1>7, <1>8, <2>2 DEF StringAt
  <2>4. SubSeq(c \o v, l + 1, e) = v
    BY <1>3, <1>4, SubSeqOfConcat
  <2> QED BY <1>5, <2>1, <2>3, <2>4 DEF WrittenRow
<1>13. Written("VARCHAR", n) = Append(Written("VARCHAR", w), v)
  BY <1>1, <1>5, <1>11, <1>12, AppendRow
<1> QED
  BY <1>10, <1>13

LEMMA AddedInt ==
  ASSUME NEW S, NEW w, Consistent(S, "INT32", w), NEW v \in S, NEW n,
         Added("INT32", n, w, v)
  PROVE  /\ Consistent(S, "INT32", n)
         /\ Written("INT32", n) = Append(Written("INT32", w), v)
<1>1. PICK r \in Nat : r = w.rows
  BY DEF Consistent
<1>2. PICK i : i = w.items
  OBVIOUS
<1>3. i \in Seq(S) /\ DataBits(w, r) = Len(i) /\ w.chars = <<>> /\ w.chars \in Seq(S)
  BY <1>1, <1>2 DEF Consistent
<1>4. PICK m \in Nat : m = Len(i)
  BY <1>3
<1>5. /\ n.rows = r + 1 /\ n.items = Append(i, v) /\ n.chars = w.chars
      /\ r \in n.bits /\ \A j \in 0 .. r - 1 : j \in n.bits <=> j \in w.bits
  BY <1>1, <1>2 DEF Added
<1>6. /\ \A x \in 0 .. r : DataBits(n, x) = DataBits(w, x)
      /\ DataBits(n, r + 1) = m + 1
  BY <1>1, <1>3, <1>4, <1>5, AddedBits
<1>7. PICK y : y = Append(i, v)
  OBVIOUS
<1>8. /\ y \in Seq(S) /\ Len(y) = m + 1 /\ y[m + 1] = v
      /\ \A k \in 1 .. m : y[k] = i[k]
  BY <1>3, <1>4, <1>7
<1>9. Consistent(S, "INT32", n)
  BY <1>3, <1>5, <1>6, <1>7, <1>8 DEF Consistent
<1>10. ASSUME NEW x \in 0 .. r - 1
       PROVE  WrittenRow("INT32", n, x) = WrittenRow("INT32", w, x)
  <2>1. CASE x \notin w.bits
    BY <1>5, <2>1 DEF WrittenRow
  <2>2. CASE x \in w.bits
    <3>1. PICK k \in Nat : k = DataBits(w, x) /\ k < m
      BY <1>3, <1>4, <2>2, BitsLess
    <3>2. DataBits(n, x) = k /\ k + 1 \in 1 .. m
      BY <1>6, <3>1
    <3> QED BY <1>2, <1>5, <1>7, <1>8, <2>2, <3>1, <3>2 DEF WrittenRow
  <2> QED BY <2>1, <2>2
<1>11. WrittenRow("INT32", n, r) = v
  BY <1>3, <1>4, <1>5, <1>6, <1>7, <1>8 DEF WrittenRow
<1>12. Written("INT32", n) = Append(Written("INT32", w), v)
  BY <1>1, <1>5, <1>10, <1>11, AppendRow
<1> QED
  BY <1>9, <1>12

LEMMA AddedValue ==
  ASSUME NEW S, NEW type \in DataTypes, NEW w, Consistent(S, type, w),
         NEW v, ValueIn(S, type, v), NEW n, Added(type, n, w, v)
  PROVE  Consistent(S, type, n) /\ Written(type, n) = Append(Written(type, w), v)
BY AddedInt, AddedString DEF DataTypes, ValueIn

LEMMA AddedNull ==
  ASSUME NEW S, NEW type, NEW w, Consistent(S, type, w), NEW n,
         n.rows = w.rows + 1, n.items = w.items, n.chars = w.chars,
         w.rows \notin n.bits, \A j \in 0 .. w.rows - 1 : j \in n.bits <=> j \in w.bits
  PROVE  Consistent(S, type, n) /\ Written(type, n) = Append(Written(type, w), Null)
<1>1. PICK r \in Nat : r = w.rows
  BY DEF Consistent
<1>2. /\ \A x \in 0 .. r : DataBits(n, x) = DataBits(w, x)
      /\ DataBits(n, r + 1) = DataBits(w, r)
  <2>1. DataBits(w, r) \in Nat
    BY BitsBefore
  <2> QED BY <1>1, <2>1, AddedBits
<1>3. Consistent(S, type, n)
  BY <1>1, <1>2 DEF Consistent
<1>4. ASSUME NEW x \in 0 .. r - 1
      PROVE  WrittenRow(type, n, x) = WrittenRow(type, w, x)
  <2>1. DataBits(n, x) = DataBits(w, x) /\ (x \in n.bits <=> x \in w.bits)
    BY <1>1, <1>2
  <2> QED BY <2>1 DEF WrittenRow, StringAt
<1>5. WrittenRow(type, n, r) = Null
  BY <1>1 DEF WrittenRow
<1>6. Written(type, n) = Append(Written(type, w), Null)
  BY <1>1, <1>4, <1>5, AppendRow
<1> QED
  BY <1>3, <1>6
-----------------------------------------------------------------------------
(* A long string is read as a whole.                                       *)

LEMMA SubSeqJoin ==
  ASSUME NEW S, NEW s \in Seq(S), NEW a \in Nat, NEW b \in Nat, a <= b, b <= Len(s)
  PROVE  SubSeq(s, 1, a) \o SubSeq(s, a + 1, b) = SubSeq(s, 1, b)
<1>1. \A i \in 1 .. Len(s) : s[i] \in S
  BY ElementOfSeq
<1>2. PICK x, y, z : x = SubSeq(s, 1, a) /\ y = SubSeq(s, a + 1, b) /\ z = SubSeq(s, 1, b)
  OBVIOUS
<1>3. Len(s) \in Nat /\ 1 .. a \subseteq 1 .. Len(s) /\ a + 1 .. b \subseteq 1 .. Len(s)
      /\ 1 .. b \subseteq 1 .. Len(s)
  OBVIOUS
<1>4. x \in Seq(S) /\ Len(x) = a /\ \A i \in 1 .. a : x[i] = s[i]
  <2>1. \A i \in 1 .. a : s[i] \in S
    BY <1>1, <1>3
  <2>2. Len(x) = IF 1 <= a THEN a - 1 + 1 ELSE 0
    BY <1>2, <2>1, SubSeqProperties
  <2>3. x \in Seq(S) /\ \A i \in 1 .. a - 1 + 1 : x[i] = s[1 + i - 1]
    BY <1>2, <2>1, SubSeqProperties
  <2>4. Len(x) = a
    BY <2>2
  <2>5. \A i \in 1 .. a : i \in 1 .. a - 1 + 1 /\ 1 + i - 1 = i
    OBVIOUS
  <2>6. \A i \in 1 .. a : x[i] = s[i]
    BY <2>3, <2>5
  <2> QED BY <2>3, <2>4, <2>6
<1>5. y \in Seq(S) /\ Len(y) = b - a /\ \A i \in 1 .. b - a : y[i] = s[a + i]
  <2>1. \A i \in a + 1 .. b : s[i] \in S
    BY <1>1, <1>3
  <2>2. Len(y) = IF a + 1 <= b THEN b - (a + 1) + 1 ELSE 0
    BY <1>2, <2>1, SubSeqProperties
  <2>3. y \in Seq(S) /\ \A i \in 1 .. b - (a + 1) + 1 : y[i] = s[a + 1 + i - 1]
    BY <1>2, <2>1, SubSeqProperties
  <2> QED BY <2>2, <2>3
<1>6. z \in Seq(S) /\ Len(z) = b /\ \A i \in 1 .. b : z[i] = s[i]
  <2>1. \A i \in 1 .. b : s[i] \in S
    BY <1>1, <1>3
  <2>2. Len(z) = IF 1 <= b THEN b - 1 + 1 ELSE 0
    BY <1>2, <2>1, SubSeqProperties
  <2>3. z \in Seq(S) /\ \A i \in 1 .. b - 1 + 1 : z[i] = s[1 + i - 1]
    BY <1>2, <2>1, SubSeqProperties
  <2>4. Len(z) = b
    BY <2>2
  <2>5. \A i \in 1 .. b : i \in 1 .. b - 1 + 1 /\ 1 + i - 1 = i
    OBVIOUS
  <2>6. \A i \in 1 .. b : z[i] = s[i]
    BY <2>3, <2>5
  <2> QED BY <2>3, <2>4, <2>6
<1>7. PICK w : w = x \o y
  OBVIOUS
<1>8. /\ w \in Seq(S) /\ Len(w) = b
      /\ \A i \in 1 .. b : w[i] = IF i <= a THEN x[i] ELSE y[i - a]
  <2>1. w \in Seq(S) /\ Len(w) = Len(x) + Len(y)
    BY <1>4, <1>5, <1>7, ConcatProperties
  <2>2. \A i \in 1 .. Len(x) + Len(y) : w[i] = IF i <= Len(x) THEN x[i] ELSE y[i - Len(x)]
    BY <1>4, <1>5, <1>7, ConcatProperties
  <2>3. Len(x) = a /\ Len(x) + Len(y) = b
    BY <1>4, <1>5
  <2> QED BY <2>1, <2>2, <2>3
<1>9. \A i \in 1 .. b : w[i] = z[i]
  <2> SUFFICES ASSUME NEW i \in 1 .. b PROVE w[i] = z[i]
    OBVIOUS
  <2>1. CASE i <= a
    <3>1. i \in 1 .. a
      BY <2>1
    <3>2. w[i] = x[i] /\ z[i] = s[i]
      BY <1>6, <1>8, <2>1
    <3> QED BY <1>4, <3>1, <3>2
  <2>2. CASE i > a
    <3>1. PICK j \in 1 .. b - a : j = i - a /\ i = a + j
      BY <2>2
    <3>2. y[j] = s[i]
      BY <1>5, <3>1
    <3>3. w[i] = y[j]
      BY <1>8, <2>2, <3>1
    <3>4. z[i] = s[i]
      BY <1>6
    <3> QED BY <3>1, <3>2, <3>3, <3>4
  <2> QED BY <2>1, <2>2
<1>10. w = z
  BY <1>6, <1>8, <1>9, SeqEqual
<1> QED
  BY <1>2, <1>7, <1>10

\* How the bytes of a string divide into pages.
LEMMA Pieces ==
  ASSUME NEW n \in Nat \ {0}, NEW B \in Nat \ {0}
  PROVE  /\ (n + B - 1) \div B \in Nat \ {0}
         /\ n <= ((n + B - 1) \div B) * B
         /\ \A k \in Nat : k < (n + B - 1) \div B => k * B \in Nat /\ k * B < n
<1> DEFINE m == n + B - 1
           K == m \div B
<1>1. m \in Nat
  OBVIOUS
<1>2. K \in Nat /\ B * K \in Nat /\ B * K <= m /\ m < B * K + B
  BY <1>1, Division
<1> HIDE DEF K
<1>3. K * B = B * K
  BY <1>2
<1>4. n <= K * B
  BY <1>2, <1>3
<1>5. K # 0
  BY <1>2, <1>4
<1>6. ASSUME NEW k \in Nat, k < K PROVE k * B \in Nat /\ k * B < n
  <2>1. PICK d \in Nat : K = k + 1 + d
    <3>1. K - k - 1 \in Nat /\ K = k + 1 + (K - k - 1)
      BY <1>2, <1>6
    <3> QED BY <3>1
  <2>2. (k + 1 + d) * B = k * B + B + d * B /\ d * B \in Nat /\ k * B \in Nat
    OBVIOUS
  <2> QED BY <1>2, <1>3, <2>1, <2>2
<1> QED
  BY <1>2, <1>4, <1>5, <1>6 DEF K

LEMMA FirstPages ==
  ASSUME NEW S, NEW l \in Seq(S), NEW k \in Nat, k + 1 <= Len(l)
  PROVE  SubSeq(l, 1, k + 1) = Append(SubSeq(l, 1, k), l[k + 1]) /\ SubSeq(l, 1, k) \in Seq(S)
<1>1. Len(l) \in Nat
  OBVIOUS
<1>2. \A i \in 1 .. Len(l) : l[i] \in S
  BY ElementOfSeq
<1>3. \A i \in 1 .. k : l[i] \in S
  BY <1>1, <1>2
<1>4. SubSeq(l, 1, k) \in Seq(S)
  BY <1>3, SubSeqProperties
<1>5. SubSeq(l, k + 1, k + 1) = <<l[k + 1]>>
  <2>1. PICK c \in S : c = l[k + 1]
    BY <1>1, <1>2
  <2>2. PICK y, z : y = SubSeq(l, k + 1, k + 1) /\ z = <<c>>
    OBVIOUS
  <2>3. \A i \in k + 1 .. k + 1 : l[i] \in S
    BY <2>1
  <2>4. k + 1 \in Int
    OBVIOUS
  <2>5. /\ y \in Seq(S) /\ Len(y) = 1 /\ y[1] = l[k + 1]
    <3>1. Len(y) = IF k + 1 <= k + 1 THEN (k + 1) - (k + 1) + 1 ELSE 0
      BY <2>2, <2>3, <2>4, SubSeqProperties
    <3>2. y \in Seq(S) /\ \A i \in 1 .. (k + 1) - (k + 1) + 1 : y[i] = l[(k + 1) + i - 1]
      BY <2>2, <2>3, <2>4, SubSeqProperties
    <3> QED BY <3>1, <3>2
  <2>6. z \in Seq(S) /\ Len(z) = 1 /\ z[1] = c
    BY <2>1, <2>2
  <2>7. y = z
    BY <2>1, <2>5, <2>6, SeqEqual
  <2> QED BY <2>1, <2>2, <2>7
<1>6. SubSeq(l, 1, k + 1) = SubSeq(l, 1, k) \o SubSeq(l, k + 1, k + 1)
  BY SubSeqJoin
<1>7. l[k + 1] \in S
  BY <1>1, <1>2
<1>8. Append(SubSeq(l, 1, k), l[k + 1]) = SubSeq(l, 1, k) \o <<l[k + 1]>>
  BY <1>4, <1>7, AppendIsConcat
<1> QED
  BY <1>4, <1>5, <1>6, <1>8

LEMMA FoldOneMore ==
  ASSUME NEW o, NEW s, NEW v, IsSequence(v), NEW c
  PROVE  Fold(o, s, Append(v, c)) = Step(o, Fold(o, s, v), c)
BY FoldLast DEF IsSequence

LEMMA ReadsFirst ==
  ASSUME NEW u, NEW p, p.rows = LongHeader, NEW junk
  PROVE  ReadPage("VARCHAR", u, p, junk) = Append(u, p.chars)
BY DEF ReadPage, LongHeader, RestHeader

LEMMA ReplaceLast ==
  ASSUME NEW S, NEW f \in Seq(S), NEW x, NEW y
  PROVE  [Append(f, x) EXCEPT ![Len(f) + 1] = y] = Append(f, y)
<1> DEFINE T == S \cup {x, y}
<1>1. f \in Seq(T) /\ x \in T /\ y \in T
  OBVIOUS
<1> HIDE DEF T
<1>2. PICK n \in Nat : n = Len(f)
  OBVIOUS
<1>3. PICK g, h : g = Append(f, x) /\ h = Append(f, y)
  OBVIOUS
<1>4. g \in Seq(T) /\ Len(g) = n + 1 /\ \A i \in 1 .. n : g[i] = f[i]
  BY <1>1, <1>2, <1>3, AppendProperties
<1>5. h \in Seq(T) /\ Len(h) = n + 1 /\ h[n + 1] = y /\ \A i \in 1 .. n : h[i] = f[i]
  BY <1>1, <1>2, <1>3, AppendProperties
<1>6. PICK k : k = [g EXCEPT ![n + 1] = y]
  OBVIOUS
<1>7. n + 1 \in 1 .. Len(g)
  BY <1>4
<1>8. /\ k \in Seq(T) /\ Len(k) = n + 1
      /\ \A i \in 1 .. n + 1 : k[i] = IF i = n + 1 THEN y ELSE g[i]
  BY <1>1, <1>4, <1>6, <1>7, ExceptSeq
<1>9. \A i \in 1 .. n + 1 : k[i] = h[i]
  <2> SUFFICES ASSUME NEW i \in 1 .. n + 1 PROVE k[i] = h[i]
    OBVIOUS
  <2>1. CASE i = n + 1
    BY <1>5, <1>8, <2>1
  <2>2. CASE i # n + 1
    <3>1. i \in 1 .. n
      BY <2>2
    <3> QED BY <1>4, <1>5, <1>8, <2>2, <3>1
  <2> QED BY <2>1, <2>2
<1>10. k = h
  BY <1>5, <1>8, <1>9, SeqEqual
<1> QED
  BY <1>2, <1>3, <1>6, <1>10

LEMMA ReadsLong ==
  ASSUME NEW S, NEW s \in Seq(S), s # <<>>, NEW pages, IsSequence(pages), NEW junk, NEW u,
         NEW f, f = Fold(Reading("VARCHAR", junk), u, pages), IsSequence(f)
  PROVE  /\ IsSequence(LongPages(s))
         /\ Fold(Reading("VARCHAR", junk), u, pages \o LongPages(s)) = Append(f, s)
<1> DEFINE o == Reading("VARCHAR", junk)
           B == PieceBytes
           K == (Len(s) + B - 1) \div B
           L == LongPages(s)
           hi(k) == IF k * B < Len(s) THEN k * B ELSE Len(s)
<1>1. B \in Nat \ {0}
  BY PageSizes DEF PieceBytes, HeaderBytes
<1> HIDE DEF B
<1>2. PICK n \in Nat \ {0} : n = Len(s)
  BY EmptySeq
<1>3. /\ K \in Nat \ {0} /\ n <= K * B
      /\ \A k \in Nat : k < K => k * B \in Nat /\ k * B < n
  BY <1>1, <1>2, Pieces
<1>4. /\ L = [k \in 1 .. K |-> L[k]]
      /\ \A k \in 1 .. K :
           /\ L[k].rows = IF k = 1 THEN LongHeader ELSE RestHeader
           /\ L[k].chars = SubSeq(s, (k - 1) * B + 1, hi(k))
  BY DEF LongPages, B
<1> HIDE DEF K, L
<1>5. PICK T : L \in Seq(T) /\ Len(L) = K
  <2> DEFINE T == { L[k] : k \in 1 .. K }
  <2>1. \A k \in 1 .. K : L[k] \in T
    OBVIOUS
  <2> HIDE DEF T
  <2>2. L \in [1 .. K -> T]
    BY <1>4, <2>1
  <2>3. L \in Seq(T)
    BY <1>3, <2>2, SeqDef
  <2>4. Len(L) = K
    BY <1>3, <1>4, <2>3
  <2> QED BY <2>3, <2>4
<1>6. PICK P : pages \in Seq(P)
  BY DEF IsSequence
<1>7. PICK F : f \in Seq(F)
  BY DEF IsSequence
<1>8. \A a, x : Step(o, a, x) = ReadPage("VARCHAR", a, x, junk)
  BY DEF Step, Reading
<1>9. f = Fold(o, u, pages)
  OBVIOUS
<1> HIDE DEF o
<1> DEFINE V == { k \in Nat : k + 1 <= K =>
                    Fold(o, u, pages \o SubSeq(L, 1, k + 1)) = Append(f, SubSeq(s, 1, hi(k + 1))) }
<1>10. ASSUME NEW k \in Nat, k + 1 <= K
       PROVE  /\ Fold(o, u, pages \o SubSeq(L, 1, k + 1))
                   = ReadPage("VARCHAR", Fold(o, u, pages \o SubSeq(L, 1, k)), L[k + 1], junk)
              /\ k + 1 \in 1 .. K
  <2>1. /\ SubSeq(L, 1, k + 1) = Append(SubSeq(L, 1, k), L[k + 1])
        /\ SubSeq(L, 1, k) \in Seq(T)
    BY <1>5, <1>10, FirstPages
  <2>2. k + 1 \in 1 .. K
    BY <1>3, <1>10
  <2>3. L[k + 1] \in T
    BY <1>5, <2>2, ElementOfSeq
  <2>4. PICK q, c : q = SubSeq(L, 1, k) /\ c = L[k + 1]
    OBVIOUS
  <2>5. q \in Seq(P \cup T) /\ pages \in Seq(P \cup T) /\ c \in P \cup T
    BY <1>6, <2>1, <2>3, <2>4
  <2>6. pages \o Append(q, c) = Append(pages \o q, c) /\ pages \o q \in Seq(P \cup T)
    BY <2>5
  <2>7. Fold(o, u, Append(pages \o q, c)) = Step(o, Fold(o, u, pages \o q), c)
    <3>1. IsSequence(pages \o q)
      BY <2>6 DEF IsSequence
    <3> QED BY <3>1, FoldOneMore
  <2> QED BY <1>8, <2>1, <2>2, <2>4, <2>6, <2>7
<1>11. 0 \in V
  <2>1. /\ Fold(o, u, pages \o SubSeq(L, 1, 0 + 1))
             = ReadPage("VARCHAR", Fold(o, u, pages \o SubSeq(L, 1, 0)), L[0 + 1], junk)
        /\ 0 + 1 \in 1 .. K
    BY <1>3, <1>10
  <2>2. SubSeq(L, 1, 0) = <<>>
    BY SubSeqEmpty
  <2>3. pages \o SubSeq(L, 1, 0) = pages
    BY <1>6, <2>2, ConcatEmptySeq
  <2>4. L[0 + 1].rows = LongHeader /\ L[0 + 1].chars = SubSeq(s, 1, hi(0 + 1))
    <3>1. (0 + 1 - 1) * B + 1 = 1
      BY <1>1
    <3> HIDE DEF hi
    <3> QED BY <1>4, <2>1, <3>1
  <2>5. ReadPage("VARCHAR", f, L[0 + 1], junk) = Append(f, L[0 + 1].chars)
    BY <2>4, ReadsFirst
  <2> HIDE DEF hi
  <2> QED BY <1>9, <2>1, <2>3, <2>4, <2>5
<1>12. ASSUME NEW k \in Nat, k \in V PROVE k + 1 \in V
  <2> SUFFICES ASSUME k + 1 + 1 <= K
               PROVE  Fold(o, u, pages \o SubSeq(L, 1, k + 1 + 1))
                        = Append(f, SubSeq(s, 1, hi(k + 1 + 1)))
    OBVIOUS
  <2>1. PICK m \in Nat \ {0} : m = k + 1
    OBVIOUS
  <2>2. /\ Fold(o, u, pages \o SubSeq(L, 1, m + 1))
             = ReadPage("VARCHAR", Fold(o, u, pages \o SubSeq(L, 1, m)), L[m + 1], junk)
        /\ m + 1 \in 1 .. K
    BY <1>10, <2>1
  <2>3. m < K /\ m \in 1 .. K
    BY <1>3, <2>1
  <2>4. m * B \in Nat /\ m * B < n
    BY <1>3, <2>3
  <2>5. PICK a \in Nat : a = m * B
    BY <2>4
  <2>6. hi(m) = a
    BY <1>2, <2>4, <2>5
  <2>7. Fold(o, u, pages \o SubSeq(L, 1, m)) = Append(f, SubSeq(s, 1, a))
    <3>1. k + 1 <= K
      BY <2>1, <2>3
    <3> QED BY <1>12, <2>1, <2>6, <3>1
  <2>8. PICK b \in Nat : b = hi(m + 1) /\ a <= b /\ b <= Len(s)
    <3>1. (m + 1) * B = a + B /\ a + B \in Nat
      BY <1>1, <2>5
    <3> QED BY <1>1, <1>2, <2>4, <2>5, <3>1
  <2>9. L[m + 1].rows = RestHeader /\ L[m + 1].chars = SubSeq(s, a + 1, b)
    <3>1. m + 1 # 1 /\ (m + 1 - 1) * B + 1 = a + 1
      BY <1>1, <2>1, <2>5
    <3> HIDE DEF hi
    <3> QED BY <1>4, <2>2, <2>8, <3>1, SMTT(30)
  <2>10. SubSeq(s, 1, a) \o SubSeq(s, a + 1, b) = SubSeq(s, 1, b)
    BY <2>8, SubSeqJoin
  <2> HIDE DEF hi, V
  <2>11. PICK g, x : g = Append(f, x) /\ x = SubSeq(s, 1, a)
    OBVIOUS
  <2>12. g \in Seq(F \cup {x}) /\ f \in Seq(F \cup {x}) /\ Len(g) = Len(f) + 1
         /\ g[Len(f) + 1] = x
    BY <1>7, <2>11
  <2>13. \A y : [g EXCEPT ![Len(g)] = y] = Append(f, y)
    BY <1>7, <2>11, <2>12, ReplaceLast
  <2>14. ReadPage("VARCHAR", g, L[m + 1], junk) = [g EXCEPT ![Len(g)] = g[Len(g)] \o L[m + 1].chars]
    BY <2>9 DEF ReadPage, RestHeader, LongHeader
  <2>15. g[Len(g)] \o L[m + 1].chars = SubSeq(s, 1, b)
    BY <2>9, <2>10, <2>11, <2>12
  <2>16. Fold(o, u, pages \o SubSeq(L, 1, m + 1)) = Append(f, SubSeq(s, 1, b))
    BY <2>2, <2>7, <2>11, <2>13, <2>14, <2>15
  <2>17. k + 1 + 1 = m + 1
    BY <2>1
  <2> QED BY <2>8, <2>16, <2>17
<1>13. Fold(o, u, pages \o L) = Append(f, s)
  <2>1. K - 1 \in Nat /\ (K - 1) + 1 = K
    BY <1>3
  <2> HIDE DEF V
  <2>2. K - 1 \in V
    BY <1>11, <1>12, <2>1, Induction
  <2>3. Fold(o, u, pages \o SubSeq(L, 1, (K - 1) + 1)) = Append(f, SubSeq(s, 1, hi((K - 1) + 1)))
    BY <2>1, <2>2 DEF V
  <2>4. hi(K) = Len(s)
    <3>1. PICK m \in Nat : m = K * B
      <4>1. K * B \in Nat
        BY <1>1, <1>3
      <4> QED BY <4>1
    <3>2. ~(m < n)
      BY <1>3, <3>1
    <3> QED BY <1>2, <3>1, <3>2
  <2>5. SubSeq(L, 1, K) = L /\ SubSeq(s, 1, Len(s)) = s
    BY <1>5, SubSeqFull
  <2> HIDE DEF hi
  <2> QED BY <2>1, <2>3, <2>4, <2>5
<1>14. IsSequence(L)
  BY <1>5 DEF IsSequence
<1> QED
  BY <1>13, <1>14 DEF o, L
-----------------------------------------------------------------------------
(* Sequences of whatever elements.                                         *)

LEMMA SequenceLaws ==
  ASSUME NEW a, IsSequence(a), NEW b, IsSequence(b), NEW x
  PROVE  /\ IsSequence(<<>>) /\ IsSequence(Append(a, x)) /\ IsSequence(a \o b)
         /\ a \o <<>> = a
         /\ a \o Append(b, x) = Append(a \o b, x)
<1>1. PICK S : a \in Seq(S)
  BY DEF IsSequence
<1>2. PICK T : b \in Seq(T)
  BY DEF IsSequence
<1>3. PICK U : U = S \cup T \cup {x}
  OBVIOUS
<1>4. a \in Seq(U) /\ b \in Seq(U) /\ x \in U
  BY <1>1, <1>2, <1>3
<1>5. Append(a, x) \in Seq(U) /\ a \o b \in Seq(U) /\ <<>> \in Seq(U) /\ Append(b, x) \in Seq(U)
  BY <1>4
<1>6. a \o <<>> = a
  BY <1>4, ConcatEmptySeq
<1>7. a \o Append(b, x) = Append(a \o b, x)
  BY <1>4, <1>5
<1> QED
  BY <1>5, <1>6, <1>7 DEF IsSequence

\* What is read from the pages, whatever the bytes are that nobody wrote.
Reads(type, pages, u) ==
  IsSequence(u) /\ \A junk : Fold(Reading(type, junk), <<>>, pages) = u

LEMMA ReadsOnePage ==
  ASSUME NEW S, NEW type \in DataTypes, NEW pages, IsSequence(pages), NEW u, Reads(type, pages, u),
         NEW p, Consistent(S, type, p), p.bytes = Bytes(p.rows), IsText(p)
  PROVE  Reads(type, Append(pages, p), u \o Written(type, p))
<1>1. ASSUME NEW junk
      PROVE  Fold(Reading(type, junk), <<>>, Append(pages, p)) = u \o Written(type, p)
  <2>1. PICK o : o = Reading(type, junk)
    OBVIOUS
  <2>2. Fold(o, <<>>, Append(pages, p)) = Step(o, Fold(o, <<>>, pages), p)
    BY FoldOneMore
  <2>3. Fold(o, <<>>, pages) = u
    BY <2>1 DEF Reads
  <2>4. Step(o, u, p) = ReadPage(type, u, p, junk)
    BY <2>1 DEF Step, Reading
  <2>5. ReadPage(type, u, p, junk) = u \o Written(type, p)
    BY ReadsWritten
  <2> QED BY <2>1, <2>2, <2>3, <2>4, <2>5
<1>2. IsSequence(Written(type, p)) /\ IsSequence(u)
  BY WrittenType DEF Reads
<1>3. IsSequence(u \o Written(type, p))
  BY <1>2, SequenceLaws
<1> QED
  BY <1>1, <1>3 DEF Reads

LEMMA ReadsLongString ==
  ASSUME NEW S, NEW s \in Seq(S), s # <<>>, NEW pages, IsSequence(pages), NEW u,
         Reads("VARCHAR", pages, u)
  PROVE  Reads("VARCHAR", pages \o LongPages(s), Append(u, s))
<1>1. IsSequence(u)
  BY DEF Reads
<1>2. ASSUME NEW junk
      PROVE  Fold(Reading("VARCHAR", junk), <<>>, pages \o LongPages(s)) = Append(u, s)
  <2>1. u = Fold(Reading("VARCHAR", junk), <<>>, pages)
    BY DEF Reads
  <2> QED BY <1>1, <2>1, ReadsLong
<1> QED
  BY <1>1, <1>2, SequenceLaws DEF Reads
-----------------------------------------------------------------------------
(* The writers with vectors.                                               *)

PageShape(S, type, p) ==
  /\ p.chars \in Seq(S)
  /\ IsText(p) => Consistent(S, type, p) /\ p.bytes \in Nat /\ p.bytes <= Bytes(p.rows)
  /\ type = "INT32" => IsText(p)

\* done are the values so far; those of the page that is being written are not
\* read yet.
VectorsOK(S, type, grows, w, done) ==
  /\ IsWriter(w)
  /\ IsSequence(w.pages) /\ \A k \in DOMAIN w.pages : PageShape(S, type, w.pages[k])
  /\ Consistent(S, type, w)
  /\ w.rows = 0 => w.items = <<>>
  /\ DataEnd(type, w) + Bytes(w.rows) <= PageSize
  /\ w.bytes \in Nat /\ w.bytes <= Bytes(w.rows)
  /\ \A b \in w.bits : b \in Nat /\ b < w.rows /\ b \div ByteBits < w.bytes
  /\ grows => w.bytes = Bytes(w.rows) /\ ~ShortBitmap(w.pages)
  /\ \/ ShortBitmap(w.pages)
     \/ \E u : Reads(type, w.pages, u) /\ done = u \o Written(type, w)

LEMMA EndOfData ==
  ASSUME NEW type, NEW w, Len(w.items) \in Nat, Len(w.chars) \in Nat
  PROVE  /\ DataEnd(type, w) \in Nat /\ DataEnd(type, w) >= 4
         /\ Len(w.items) = 0 /\ Len(w.chars) = 0 => DataEnd(type, w) = 4
<1>1. PICK n \in Nat, m \in Nat : n = Len(w.items) /\ m = Len(w.chars)
  OBVIOUS
<1>2. ItemBytes(type) \in {2, 4}
  BY DEF ItemBytes
<1>3. n * ItemBytes(type) \in Nat /\ (n = 0 => n * ItemBytes(type) = 0)
  BY <1>2
<1>4. DataEnd(type, w) = 4 + n * ItemBytes(type) + m
  BY <1>1 DEF DataEnd, HeaderBytes
<1> QED
  BY <1>1, <1>3, <1>4

LEMMA ConsistentLengths ==
  ASSUME NEW S, NEW type, NEW w, Consistent(S, type, w)
  PROVE  Len(w.items) \in Nat /\ Len(w.chars) \in Nat
BY DEF Consistent

LEMMA BytesGrow ==
  ASSUME NEW n \in Nat
  PROVE  /\ Bytes(n + 1) = n \div ByteBits + 1 /\ Bytes(n) \in Nat
         /\ n \div ByteBits \in Nat
         /\ Bytes(n) <= Bytes(n + 1)
<1>1. ByteBits \in Nat \ {0}
  BY PageSizes
<1>2. Bytes(n + 1) = n \div ByteBits + 1 /\ Bytes(n) \in Nat /\ n \div ByteBits \in Nat
  BY BytesOfRows, FullBytes
<1>3. PICK B \in Nat \ {0} : B = ByteBits
  BY <1>1
<1>4. PICK q \in Nat, m \in Nat : q = n \div B /\ m = n + B - 1
  BY <1>2, <1>3
<1>5. B * q \in Nat /\ B * q <= n /\ n < B * q + B
  BY <1>4, Division
<1>6. PICK p \in Nat : p = m \div B /\ B * p \in Nat /\ B * p <= m
  BY <1>4, Division
<1>7. p <= q + 1
  <2> SUFFICES ASSUME q + 2 <= p PROVE FALSE
    BY <1>6
  <2>1. PICK d \in Nat : p = q + 2 + d
    <3>1. p - q - 2 \in Nat /\ p = q + 2 + (p - q - 2)
      OBVIOUS
    <3> QED BY <3>1
  <2>2. B * (q + 2 + d) = B * q + B + B + B * d /\ B * d \in Nat
    OBVIOUS
  <2> QED BY <1>4, <1>5, <1>6, <2>1, <2>2
<1> QED
  BY <1>2, <1>3, <1>4, <1>6, <1>7 DEF Bytes

LEMMA BitInBytes ==
  ASSUME NEW b \in Nat, NEW n \in Nat, b \div ByteBits < n
  PROVE  b < n * ByteBits
<1>1. PICK B \in Nat \ {0} : B = ByteBits
  BY PageSizes
<1>2. PICK q \in Nat : q = b \div B
  BY <1>1, FullBytes
<1>3. B * q \in Nat /\ b < B * q + B
  BY <1>2, Division
<1>4. PICK d \in Nat : n = q + 1 + d
  <2>1. n - q - 1 \in Nat /\ n = q + 1 + (n - q - 1)
    BY <1>1, <1>2
  <2> QED BY <2>1
<1>5. (q + 1 + d) * B = B * q + B + d * B /\ d * B \in Nat
  OBVIOUS
<1> QED
  BY <1>1, <1>3, <1>4, <1>5

LEMMA WrittenNothing ==
  ASSUME NEW type, NEW w, w.rows = 0
  PROVE  Written(type, w) = <<>>
<1>1. 1 .. 0 = {}
  OBVIOUS
<1>2. Written(type, w) = [i \in {} |-> WrittenRow(type, w, i - 1)]
  BY <1>1 DEF Written
<1> QED
  BY <1>2

LEMMA AppendMembers ==
  ASSUME NEW a, IsSequence(a), NEW p
  PROVE  /\ \A k \in DOMAIN Append(a, p) :
              Append(a, p)[k] = p \/ (k \in DOMAIN a /\ Append(a, p)[k] = a[k])
         /\ \A k \in DOMAIN a : k \in DOMAIN Append(a, p) /\ Append(a, p)[k] = a[k]
         /\ \E k \in DOMAIN Append(a, p) : Append(a, p)[k] = p
<1>1. PICK S : a \in Seq(S)
  BY DEF IsSequence
<1>2. Len(a) \in Nat /\ DOMAIN a = 1 .. Len(a)
  BY <1>1
<1>3. /\ Len(Append(a, p)) = Len(a) + 1 /\ DOMAIN Append(a, p) = 1 .. Len(a) + 1
      /\ \A k \in 1 .. Len(a) : Append(a, p)[k] = a[k]
      /\ Append(a, p)[Len(a) + 1] = p
  BY <1>1
<1> QED
  BY <1>2, <1>3

LEMMA ConcatMembers ==
  ASSUME NEW a, IsSequence(a), NEW b, IsSequence(b)
  PROVE  /\ \A k \in DOMAIN (a \o b) :
              \/ k \in DOMAIN a /\ (a \o b)[k] = a[k]
              \/ \E l \in DOMAIN b : (a \o b)[k] = b[l]
         /\ \A k \in DOMAIN a : k \in DOMAIN (a \o b) /\ (a \o b)[k] = a[k]
<1>1. PICK S : a \in Seq(S)
  BY DEF IsSequence
<1>2. PICK T : b \in Seq(T)
  BY DEF IsSequence
<1>3. a \in Seq(S \cup T) /\ b \in Seq(S \cup T)
  BY <1>1, <1>2
<1>4. PICK n \in Nat, m \in Nat : n = Len(a) /\ m = Len(b) /\ DOMAIN a = 1 .. n /\ DOMAIN b = 1 .. m
  BY <1>3
<1>5. /\ DOMAIN (a \o b) = 1 .. n + m
      /\ \A k \in 1 .. n + m : (a \o b)[k] = IF k <= n THEN a[k] ELSE b[k - n]
  BY <1>3, <1>4
<1>6. ASSUME NEW k \in 1 .. n + m, ~(k <= n)
      PROVE  \E l \in DOMAIN b : (a \o b)[k] = b[l]
  <2>1. k - n \in 1 .. m
    BY <1>6
  <2> QED BY <1>4, <1>5, <1>6, <2>1
<1> QED
  BY <1>4, <1>5, <1>6

LEMMA ShortOneMore ==
  ASSUME NEW a, IsSequence(a), NEW p
  PROVE  ShortBitmap(Append(a, p)) <=> ShortBitmap(a) \/ (IsText(p) /\ p.bytes < Bytes(p.rows))
BY AppendMembers DEF ShortBitmap

LEMMA ShortConcat ==
  ASSUME NEW a, IsSequence(a), NEW b, IsSequence(b), \A l \in DOMAIN b : ~IsText(b[l])
  PROVE  ShortBitmap(a \o b) <=> ShortBitmap(a)
BY ConcatMembers DEF ShortBitmap

\* The page of the rows so far is written out.
LEMMA SaveVectorsOK ==
  ASSUME NEW S, NEW type \in DataTypes, NEW grows \in BOOLEAN, NEW w, NEW done,
         VectorsOK(S, type, grows, w, done)
  PROVE  /\ VectorsOK(S, type, grows, SaveVectors(w), done)
         /\ SaveVectors(w).rows = 0
<1> DEFINE p == PageOf(w, w.bytes)
           n == SaveVectors(w)
<1>1. /\ p.rows = w.rows /\ p.items = w.items /\ p.chars = w.chars /\ p.bytes = w.bytes
      /\ p.bits = { b \in w.bits : b < w.bytes * ByteBits }
  BY DEF PageOf
<1>2. /\ n.pages = Append(w.pages, p) /\ n.rows = 0 /\ n.items = <<>> /\ n.chars = <<>>
      /\ n.bits = {} /\ n.bytes = 0 /\ IsWriter(n)
  <2>1. SaveVectors(w) = [pages |-> Append(w.pages, p), rows |-> 0, items |-> <<>>,
                          chars |-> <<>>, bits |-> {}, bytes |-> 0]
    <3>1. SaveVectors(w) = [NewWriter EXCEPT !.pages = Append(w.pages, p)]
      BY DEF SaveVectors
    <3>2. PICK a : a = Append(w.pages, p)
      OBVIOUS
    <3>3. [NewWriter EXCEPT !.pages = a] = [pages |-> a, rows |-> 0, items |-> <<>>,
                                            chars |-> <<>>, bits |-> {}, bytes |-> 0]
      <4>1. PICK e, z, b : e = <<>> /\ z = 0 /\ b = {}
        OBVIOUS
      <4>2. NewWriter = [pages |-> e, rows |-> z, items |-> e, chars |-> e, bits |-> b, bytes |-> z]
        BY <4>1 DEF NewWriter
      <4>3. [NewWriter EXCEPT !.pages = a]
              = [pages |-> a, rows |-> z, items |-> e, chars |-> e, bits |-> b, bytes |-> z]
        BY <4>2
      <4> QED BY <4>1, <4>3
    <3> QED BY <3>1, <3>2, <3>3
  <2> QED BY <2>1 DEF IsWriter
<1> HIDE DEF p, n
<1>3. /\ IsSequence(w.pages) /\ \A k \in DOMAIN w.pages : PageShape(S, type, w.pages[k])
      /\ Consistent(S, type, w) /\ w.bytes \in Nat /\ w.bytes <= Bytes(w.rows)
      /\ DataEnd(type, w) + Bytes(w.rows) <= PageSize
      /\ \A b \in w.bits : b \in Nat /\ b < w.rows /\ b \div ByteBits < w.bytes
      /\ w.rows \in Nat
  BY DEF VectorsOK, Consistent
<1>4. p.bits = w.bits
  BY <1>1, <1>3, BitInBytes
<1>5. Consistent(S, type, p) /\ Written(type, p) = Written(type, w)
  BY <1>1, <1>3, <1>4, SameRowsWritten
<1>6. IsText(p)
  <2>1. DataEnd(type, w) \in Nat /\ DataEnd(type, w) >= 4
    BY <1>3, ConsistentLengths, EndOfData
  <2>2. Bytes(w.rows) \in Nat
    BY <1>3, BytesOfRows
  <2>3. Bytes(w.rows) <= PageSize - 4
    BY <1>3, <2>1, <2>2, PageSizes
  <2>4. w.rows < 65534
    BY <1>3, <2>3, RowsAreNoHeader
  <2> QED BY <1>1, <1>3, <2>4 DEF IsText, LongHeader, RestHeader
<1>7. PageShape(S, type, p)
  BY <1>1, <1>3, <1>5, <1>6 DEF PageShape, Consistent
<1>8. IsSequence(n.pages) /\ \A k \in DOMAIN n.pages : PageShape(S, type, n.pages[k])
  BY <1>2, <1>3, <1>7, AppendMembers, SequenceLaws
<1>9. Consistent(S, type, n)
  <2>1. DataBits(n, 0) = 0
    <3>1. { j \in 0 .. 0 - 1 : j \in n.bits } = {}
      BY <1>2
    <3> QED BY <3>1, FS_EmptySet DEF DataBits
  <2>2. <<>> \in Seq(S) /\ <<>> \in Seq(Nat) /\ Len(<<>>) = 0
    OBVIOUS
  <2>3. \A k \in 1 .. Len(n.items) : FALSE
    BY <1>2, <2>2
  <2>4. n.rows \in Nat /\ DataBits(n, n.rows) = Len(n.items)
    BY <1>2, <2>1, <2>2
  <2> QED BY <1>2, <2>2, <2>3, <2>4 DEF Consistent
<1>10. Bytes(n.rows) = 0 /\ DataEnd(type, n) + Bytes(n.rows) <= PageSize
  <2>1. Len(n.items) = 0 /\ Len(n.chars) = 0
    BY <1>2
  <2>2. DataEnd(type, n) = 4
    BY <2>1, EndOfData
  <2> QED BY <1>2, <2>2, NoBytes, PageSizes
<1>11. grows => ~ShortBitmap(n.pages)
  <2> SUFFICES ASSUME grows PROVE ~ShortBitmap(n.pages)
    OBVIOUS
  <2>1. w.bytes = Bytes(w.rows) /\ ~ShortBitmap(w.pages)
    BY DEF VectorsOK
  <2>2. ~(p.bytes < Bytes(p.rows))
    BY <1>1, <1>3, <2>1
  <2> QED BY <1>2, <1>3, <2>1, <2>2, ShortOneMore
<1>12. \/ ShortBitmap(n.pages)
       \/ \E u : Reads(type, n.pages, u) /\ done = u \o Written(type, n)
  <2>1. ASSUME ~ShortBitmap(n.pages)
        PROVE  \E u : Reads(type, n.pages, u) /\ done = u \o Written(type, n)
    <3>1. ~ShortBitmap(w.pages) /\ ~(p.bytes < Bytes(p.rows))
      BY <1>2, <1>3, <1>6, <2>1, ShortOneMore
    <3>2. p.bytes = Bytes(p.rows)
      <4>1. Bytes(w.rows) \in Nat
        BY <1>3, BytesOfRows
      <4> QED BY <1>1, <1>3, <3>1, <4>1
    <3>3. PICK u : Reads(type, w.pages, u) /\ done = u \o Written(type, w)
      BY <3>1 DEF VectorsOK
    <3>4. Reads(type, n.pages, u \o Written(type, p))
      BY <1>2, <1>3, <1>5, <1>6, <3>2, <3>3, ReadsOnePage
    <3>5. IsSequence(done) /\ Reads(type, n.pages, done)
      BY <1>5, <3>3, <3>4 DEF Reads
    <3>6. done = done \o Written(type, n)
      BY <1>2, <3>5, WrittenNothing, SequenceLaws, ZenonT(30)
    <3> QED BY <3>5, <3>6
  <2> QED BY <2>1
<1>13. VectorsOK(S, type, grows, n, done)
  <2>1. \A b \in n.bits : b \in Nat /\ b < n.rows /\ b \div ByteBits < n.bytes
    BY <1>2
  <2>2. n.bytes \in Nat /\ n.bytes = Bytes(n.rows)
    BY <1>2, <1>10
  <2>3. n.bytes <= Bytes(n.rows)
    BY <1>2, <1>10
  <2> QED BY <1>2, <1>8, <1>9, <1>10, <1>11, <1>12, <2>1, <2>2, <2>3 DEF VectorsOK
<1> QED
  BY <1>2, <1>13 DEF n

\* The row after those of u, in n.
LEMMA NextRowOK ==
  ASSUME NEW S, NEW type \in DataTypes, NEW grows \in BOOLEAN, NEW u, NEW done,
         VectorsOK(S, type, grows, u, done), NEW n, NEW v,
         IsWriter(n), n.pages = u.pages, n.rows = u.rows + 1, Consistent(S, type, n),
         Written(type, n) = Append(Written(type, u), v),
         DataEnd(type, n) + Bytes(n.rows) <= PageSize,
         n.bytes \in Nat, u.bytes <= n.bytes, n.bytes <= Bytes(n.rows),
         grows => n.bytes = Bytes(n.rows),
         \A b \in n.bits : b \in u.bits \/ (b = u.rows /\ n.bytes = Bytes(n.rows))
  PROVE  VectorsOK(S, type, grows, n, Append(done, v))
<1>1. /\ IsSequence(u.pages) /\ \A k \in DOMAIN u.pages : PageShape(S, type, u.pages[k])
      /\ Consistent(S, type, u) /\ u.rows \in Nat /\ u.bytes \in Nat
      /\ \A b \in u.bits : b \in Nat /\ b < u.rows /\ b \div ByteBits < u.bytes
      /\ grows => ~ShortBitmap(u.pages)
  BY DEF VectorsOK, Consistent
<1>2. /\ Bytes(n.rows) = u.rows \div ByteBits + 1 /\ u.rows \div ByteBits \in Nat
  BY <1>1, BytesGrow
<1>3. ASSUME NEW b \in n.bits
      PROVE  b \in Nat /\ b < n.rows /\ b \div ByteBits < n.bytes
  <2>1. CASE b \in u.bits
    <3>1. b \in Nat /\ b < u.rows /\ b \div ByteBits < u.bytes /\ b \div ByteBits \in Nat
      BY <1>1, <2>1, FullBytes
    <3> QED BY <1>1, <3>1
  <2>2. CASE b = u.rows /\ n.bytes = Bytes(n.rows)
    BY <1>1, <1>2, <2>2
  <2> QED BY <2>1, <2>2
<1>4. n.rows # 0
  BY <1>1
<1>5. \/ ShortBitmap(n.pages)
      \/ \E x : Reads(type, n.pages, x) /\ Append(done, v) = x \o Written(type, n)
  <2>1. ASSUME ~ShortBitmap(u.pages)
        PROVE  \E x : Reads(type, n.pages, x) /\ Append(done, v) = x \o Written(type, n)
    <3>1. PICK x : Reads(type, u.pages, x) /\ done = x \o Written(type, u)
      BY <2>1 DEF VectorsOK
    <3>2. IsSequence(x) /\ IsSequence(Written(type, u))
      BY <1>1, <3>1, WrittenType DEF Reads
    <3>3. x \o Append(Written(type, u), v) = Append(x \o Written(type, u), v)
      BY <3>2, SequenceLaws
    <3> QED BY <3>1, <3>3
  <2> QED BY <2>1
<1> QED
  BY <1>1, <1>3, <1>4, <1>5 DEF VectorsOK

LEMMA AddedEnd ==
  ASSUME NEW S, NEW type \in DataTypes, NEW u, Consistent(S, type, u), NEW v,
         ValueIn(S, type, v), NEW n, Added(type, n, u, v)
  PROVE  /\ ExtraBytes(type, v) \in Nat
         /\ DataEnd(type, n) = DataEnd(type, u) + ExtraBytes(type, v)
<1>1. CASE type = "INT32"
  <2>1. u.items \in Seq(S) /\ u.chars = <<>> /\ v \in S
    BY <1>1 DEF Consistent, ValueIn
  <2>2. n.items = Append(u.items, v) /\ n.chars = u.chars
    BY <1>1 DEF Added
  <2>3. Len(n.items) = Len(u.items) + 1 /\ Len(u.items) \in Nat /\ Len(u.chars) = 0
    BY <2>1, <2>2
  <2>4. DataEnd(type, n) = 4 + (Len(u.items) + 1) * 4 + 0
    BY <1>1, <2>2, <2>3 DEF DataEnd, ItemBytes, HeaderBytes
  <2>5. DataEnd(type, u) = 4 + Len(u.items) * 4 + 0
    BY <1>1, <2>3 DEF DataEnd, ItemBytes, HeaderBytes
  <2>6. ExtraBytes(type, v) = 4
    BY <1>1 DEF ExtraBytes, ItemBytes
  <2> QED BY <2>3, <2>4, <2>5, <2>6
<1>2. CASE type = "VARCHAR"
  <2>1. u.items \in Seq(Nat) /\ u.chars \in Seq(S) /\ v \in Seq(S)
    BY <1>2 DEF Consistent, ValueIn
  <2>2. n.items = Append(u.items, Len(u.chars) + Len(v)) /\ n.chars = u.chars \o v
    BY <1>2 DEF Added
  <2>3. PICK a \in Nat, c \in Nat, l \in Nat : a = Len(u.items) /\ c = Len(u.chars) /\ l = Len(v)
    BY <2>1
  <2>4. Len(n.chars) = c + l /\ Len(n.items) = a + 1
    BY <2>1, <2>2, <2>3
  <2>5. DataEnd(type, n) = 4 + (a + 1) * 2 + (c + l)
    BY <1>2, <2>4 DEF DataEnd, ItemBytes, HeaderBytes
  <2>6. DataEnd(type, u) = 4 + a * 2 + c
    BY <1>2, <2>3 DEF DataEnd, ItemBytes, HeaderBytes
  <2>7. ExtraBytes(type, v) = 2 + l
    BY <1>2, <2>3 DEF ExtraBytes, ItemBytes
  <2>8. 4 + (a + 1) * 2 + (c + l) = (4 + a * 2 + c) + (2 + l) /\ 2 + l \in Nat
    OBVIOUS
  <2> QED BY <2>5, <2>6, <2>7, <2>8
<1> QED
  BY <1>1, <1>2 DEF DataTypes

ValueSet(type, n, u, v) ==
  /\ IsWriter(n) /\ n.pages = u.pages
  /\ n.rows = u.rows + 1
  /\ IF type = "INT32"
       THEN n.items = Append(u.items, v) /\ n.chars = u.chars
       ELSE n.items = Append(u.items, Len(u.chars) + Len(v)) /\ n.chars = u.chars \o v
  /\ n.bits = u.bits \cup {u.rows}
  /\ n.bytes = IF u.bytes > u.rows \div ByteBits THEN u.bytes ELSE u.rows \div ByteBits + 1

LEMMA AddedWriter ==
  ASSUME NEW type \in DataTypes, NEW u, IsWriter(u), NEW v,
         NEW n, n = AddValue(type, set_bitmap(u), v)
  PROVE  ValueSet(type, n, u, v)
<1>1. PICK g, r, i, c, t, y :
        u = [pages |-> g, rows |-> r, items |-> i, chars |-> c, bits |-> t, bytes |-> y]
  BY DEF IsWriter
<1>2. PICK z : z = IF u.bytes > u.rows \div ByteBits THEN u.bytes ELSE u.rows \div ByteBits + 1
  OBVIOUS
<1>3. PICK m : m = set_bitmap(u)
  OBVIOUS
<1>6. m = [pages |-> g, rows |-> r, items |-> i, chars |-> c, bits |-> t \cup {r}, bytes |-> z]
  <2>1. PICK b : b = t \cup {r}
    OBVIOUS
  <2>2. set_bitmap(u) = [u EXCEPT !.bits = b, !.bytes = z]
    BY <1>1, <1>2, <2>1 DEF set_bitmap
  <2> QED BY <1>1, <1>3, <2>1, <2>2
<1>7. n = AddValue(type, m, v)
  BY <1>3
<1>4. CASE type = "INT32"
  <2>1. n = [pages |-> g, rows |-> r + 1, items |-> Append(i, v), chars |-> c,
             bits |-> t \cup {r}, bytes |-> z]
    <3>1. n = [m EXCEPT !.rows = @ + 1, !.items = Append(@, v)]
      BY <1>4, <1>7 DEF AddValue
    <3> QED BY <1>6, <3>1
  <2>2. /\ IsWriter(n) /\ n.pages = u.pages /\ n.rows = u.rows + 1
        /\ n.items = Append(u.items, v) /\ n.chars = u.chars
        /\ n.bits = u.bits \cup {u.rows} /\ n.bytes = z
    BY <1>1, <2>1 DEF IsWriter
  <2> QED BY <1>2, <1>4, <2>2 DEF ValueSet
<1>5. CASE type = "VARCHAR"
  <2>1. n = [pages |-> g, rows |-> r + 1, items |-> Append(i, Len(c) + Len(v)), chars |-> c \o v,
             bits |-> t \cup {r}, bytes |-> z]
    <3>1. n = [m EXCEPT !.rows = @ + 1, !.chars = @ \o v,
                        !.items = Append(@, Len(m.chars) + Len(v))]
      BY <1>5, <1>7 DEF AddValue
    <3> QED BY <1>6, <3>1
  <2>2. /\ IsWriter(n) /\ n.pages = u.pages /\ n.rows = u.rows + 1
        /\ n.items = Append(u.items, Len(u.chars) + Len(v)) /\ n.chars = u.chars \o v
        /\ n.bits = u.bits \cup {u.rows} /\ n.bytes = z
    BY <1>1, <2>1 DEF IsWriter
  <2> QED BY <1>2, <1>5, <2>2 DEF ValueSet
<1> QED
  BY <1>4, <1>5 DEF DataTypes

\* A value that there is room for.
LEMMA SetValueOK ==
  ASSUME NEW S, NEW type \in DataTypes, NEW grows \in BOOLEAN, NEW u, NEW done,
         VectorsOK(S, type, grows, u, done), NEW v, ValueIn(S, type, v),
         DataEnd(type, u) + ExtraBytes(type, v) + u.rows \div ByteBits + 1 <= PageSize
  PROVE  VectorsOK(S, type, grows, AddValue(type, set_bitmap(u), v), Append(done, v))
<1> PICK n : n = AddValue(type, set_bitmap(u), v)
  OBVIOUS
<1>1. /\ IsWriter(u) /\ Consistent(S, type, u) /\ u.rows \in Nat /\ u.bytes \in Nat
      /\ u.bytes <= Bytes(u.rows)
      /\ \A b \in u.bits : b \in Nat /\ b < u.rows
  BY DEF VectorsOK, Consistent
<1>2. /\ IsWriter(n) /\ n.pages = u.pages /\ n.rows = u.rows + 1
      /\ IF type = "INT32"
           THEN n.items = Append(u.items, v) /\ n.chars = u.chars
           ELSE n.items = Append(u.items, Len(u.chars) + Len(v)) /\ n.chars = u.chars \o v
      /\ n.bits = u.bits \cup {u.rows}
      /\ n.bytes = IF u.bytes > u.rows \div ByteBits THEN u.bytes ELSE u.rows \div ByteBits + 1
  <2>1. ValueSet(type, n, u, v)
    BY <1>1, AddedWriter
  <2> QED BY <2>1 DEF ValueSet
<1>3. Added(type, n, u, v)
  BY <1>1, <1>2 DEF Added
<1>4. Consistent(S, type, n) /\ Written(type, n) = Append(Written(type, u), v)
  BY <1>1, <1>3, AddedValue
<1>5. ExtraBytes(type, v) \in Nat /\ DataEnd(type, n) = DataEnd(type, u) + ExtraBytes(type, v)
  BY <1>1, <1>3, AddedEnd
<1>6. /\ Bytes(n.rows) = u.rows \div ByteBits + 1 /\ u.rows \div ByteBits \in Nat
      /\ Bytes(u.rows) <= Bytes(n.rows) /\ Bytes(u.rows) \in Nat
  BY <1>1, <1>2, BytesGrow
<1>7. DataEnd(type, u) \in Nat
  BY <1>1, ConsistentLengths, EndOfData
<1>8. DataEnd(type, n) + Bytes(n.rows) <= PageSize
  BY <1>5, <1>6, <1>7, PageSizes
<1>9. n.bytes = Bytes(n.rows) /\ n.bytes \in Nat /\ u.bytes <= n.bytes /\ n.bytes <= Bytes(n.rows)
  BY <1>1, <1>2, <1>6
<1>10. VectorsOK(S, type, grows, n, Append(done, v))
  BY <1>2, <1>4, <1>8, <1>9, NextRowOK
<1> QED
  BY <1>10

SpaceFor(type, w, extra) == IF PageFull(type, w, extra) THEN SaveVectors(w) ELSE w

LEMMA SpaceOK ==
  ASSUME NEW S, NEW type \in DataTypes, NEW grows \in BOOLEAN, NEW w, NEW done,
         VectorsOK(S, type, grows, w, done), NEW extra \in Nat, extra + 5 <= PageSize,
         NEW u, u = SpaceFor(type, w, extra)
  PROVE  /\ VectorsOK(S, type, grows, u, done)
         /\ DataEnd(type, u) + extra + u.rows \div ByteBits + 1 <= PageSize
<1>1. CASE PageFull(type, w, extra)
  <2>1. VectorsOK(S, type, grows, u, done) /\ u.rows = 0
    BY <1>1, SaveVectorsOK DEF SpaceFor
  <2>2. u.items = <<>> /\ Consistent(S, type, u)
    BY <2>1 DEF VectorsOK
  <2>3. u.chars = <<>>
    BY <2>2 DEF Consistent
  <2>4. DataEnd(type, u) = 4
    <3>1. Len(u.items) = 0 /\ Len(u.chars) = 0
      BY <2>2, <2>3
    <3> QED BY <3>1, EndOfData
  <2>5. 0 \div ByteBits = 0
    BY PageSizes
  <2> QED BY <2>1, <2>4, <2>5, PageSizes
<1>2. CASE ~PageFull(type, w, extra)
  <2>1. u = w
    BY <1>2 DEF SpaceFor
  <2>2. Consistent(S, type, w) /\ w.rows \in Nat
    BY DEF VectorsOK, Consistent
  <2>3. DataEnd(type, w) \in Nat /\ w.rows \div ByteBits \in Nat
    BY <2>2, ConsistentLengths, EndOfData, FullBytes
  <2>4. ~(DataEnd(type, w) + extra + w.rows \div ByteBits + 1 > PageSize)
    BY <1>2 DEF PageFull
  <2> QED BY <2>1, <2>3, <2>4, PageSizes
<1> QED
  BY <1>1, <1>2

LEMMA PutNullOK ==
  ASSUME NEW S, NEW type \in DataTypes, NEW grows \in BOOLEAN, NEW w, NEW done,
         VectorsOK(S, type, grows, w, done)
  PROVE  VectorsOK(S, type, grows, PutNull(type, w, grows), Append(done, Null))
<1>1. PICK u : u = SpaceFor(type, w, 0)
  OBVIOUS
<1>2. PICK n : n = [unset_bitmap(u, grows) EXCEPT !.rows = @ + 1]
  OBVIOUS
<1>3. PutNull(type, w, grows) = n
  BY <1>1, <1>2 DEF PutNull, SpaceFor
<1>4. /\ VectorsOK(S, type, grows, u, done)
      /\ DataEnd(type, u) + 0 + u.rows \div ByteBits + 1 <= PageSize
  BY <1>1, SpaceOK, PageSizes
<1>5. /\ IsWriter(u) /\ Consistent(S, type, u) /\ u.rows \in Nat /\ u.bytes \in Nat
      /\ u.bytes <= Bytes(u.rows) /\ (grows => u.bytes = Bytes(u.rows))
      /\ \A b \in u.bits : b \in Nat /\ b < u.rows
  BY <1>4 DEF VectorsOK, Consistent
<1>6. PICK z : z = IF grows /\ u.bytes <= u.rows \div ByteBits THEN u.rows \div ByteBits + 1 ELSE u.bytes
  OBVIOUS
<1>7. /\ IsWriter(n) /\ n.pages = u.pages /\ n.rows = u.rows + 1 /\ n.items = u.items
      /\ n.chars = u.chars /\ n.bits = u.bits /\ n.bytes = z
  <2>1. PICK g, r, i, c, t, y :
          u = [pages |-> g, rows |-> r, items |-> i, chars |-> c, bits |-> t, bytes |-> y]
    BY <1>5 DEF IsWriter
  <2>2. PICK m : m = unset_bitmap(u, grows)
    OBVIOUS
  <2>3. m = [pages |-> g, rows |-> r, items |-> i, chars |-> c, bits |-> t, bytes |-> z]
    BY <1>6, <2>1, <2>2 DEF unset_bitmap, grow_bitmap
  <2>4. n = [pages |-> g, rows |-> r + 1, items |-> i, chars |-> c, bits |-> t, bytes |-> z]
    BY <1>2, <2>2, <2>3
  <2> QED BY <2>1, <2>4 DEF IsWriter
<1>8. u.rows \notin n.bits
  <2>1. ~(u.rows < u.rows)
    BY <1>5
  <2> QED BY <1>5, <1>7, <2>1
<1>9. Consistent(S, type, n) /\ Written(type, n) = Append(Written(type, u), Null)
  <2>1. \A j \in 0 .. u.rows - 1 : j \in n.bits <=> j \in u.bits
    BY <1>7
  <2>2. Consistent(S, type, u)
    BY <1>5
  <2> QED BY <1>7, <1>8, <2>1, <2>2, AddedNull
<1>10. /\ Bytes(n.rows) = u.rows \div ByteBits + 1 /\ u.rows \div ByteBits \in Nat
       /\ Bytes(u.rows) <= Bytes(n.rows) /\ Bytes(u.rows) \in Nat
  BY <1>5, <1>7, BytesGrow
<1>11. DataEnd(type, n) = DataEnd(type, u) /\ DataEnd(type, u) \in Nat
  <2>1. DataEnd(type, u) \in Nat
    BY <1>5, ConsistentLengths, EndOfData
  <2> QED BY <1>7, <2>1 DEF DataEnd
<1>12. DataEnd(type, n) + Bytes(n.rows) <= PageSize
  BY <1>4, <1>10, <1>11, PageSizes
<1>13. /\ n.bytes \in Nat /\ u.bytes <= n.bytes /\ n.bytes <= Bytes(n.rows)
       /\ grows => n.bytes = Bytes(n.rows)
  BY <1>5, <1>6, <1>7, <1>10
<1>14. \A b \in n.bits : b \in u.bits \/ (b = u.rows /\ n.bytes = Bytes(n.rows))
  BY <1>7
<1>15. VectorsOK(S, type, grows, n, Append(done, Null))
  BY <1>4, <1>7, <1>9, <1>12, <1>13, <1>14, NextRowOK
<1> QED
  BY <1>3, <1>15

LEMMA PutIntOK ==
  ASSUME NEW S, NEW grows \in BOOLEAN, NEW w, NEW done,
         VectorsOK(S, "INT32", grows, w, done), NEW v \in S
  PROVE  VectorsOK(S, "INT32", grows, PutInt(w, v), Append(done, v))
<1>1. PICK u : u = SpaceFor("INT32", w, 4)
  OBVIOUS
<1>2. PutInt(w, v) = AddValue("INT32", set_bitmap(u), v)
  BY <1>1 DEF PutInt, SpaceFor
<1>3. ExtraBytes("INT32", v) = 4 /\ ValueIn(S, "INT32", v) /\ "INT32" \in DataTypes
  BY DEF ExtraBytes, ItemBytes, ValueIn, DataTypes
<1>4. 4 \in Nat /\ 4 + 5 <= PageSize
  BY PageSizes
<1>5. /\ VectorsOK(S, "INT32", grows, u, done)
      /\ DataEnd("INT32", u) + 4 + u.rows \div ByteBits + 1 <= PageSize
  BY <1>1, <1>3, <1>4, SpaceOK
<1> QED
  BY <1>2, <1>3, <1>5, SetValueOK

LEMMA LongPagesShape ==
  ASSUME NEW S, NEW s \in Seq(S), s # <<>>
  PROVE  /\ IsSequence(LongPages(s))
         /\ \A k \in DOMAIN LongPages(s) :
              PageShape(S, "VARCHAR", LongPages(s)[k]) /\ ~IsText(LongPages(s)[k])
<1> DEFINE B == PieceBytes
           K == (Len(s) + B - 1) \div B
           L == LongPages(s)
<1>1. B \in Nat /\ B > 0
  BY PageSizes DEF PieceBytes, HeaderBytes
<1>2. PICK n \in Nat \ {0} : n = Len(s)
  BY EmptySeq
<1>3. K \in Nat \ {0} /\ \A k \in Nat : k < K => k * B \in Nat /\ k * B < n
  BY <1>1, <1>2, Pieces
<1>4. /\ DOMAIN L = 1 .. K /\ L = [k \in 1 .. K |-> L[k]]
      /\ \A k \in 1 .. K :
           /\ L[k].rows = IF k = 1 THEN LongHeader ELSE RestHeader
           /\ L[k].chars = SubSeq(s, (k - 1) * B + 1, IF k * B < Len(s) THEN k * B ELSE Len(s))
  BY DEF LongPages
<1> HIDE DEF B, K, L
<1>5. ASSUME NEW k \in 1 .. K
      PROVE  L[k].chars \in Seq(S)
  <2>1. PICK a \in Nat : a = (k - 1) * B
    <3>1. k - 1 \in Nat /\ k - 1 < K
      BY <1>3
    <3> QED BY <1>3, <3>1
  <2>2. PICK c \in Int : c = k * B
    BY <1>1, <1>3
  <2>3. PICK hi \in Int : hi = IF c < n THEN c ELSE n
    OBVIOUS
  <2>4. hi <= n /\ n = Len(s)
    BY <1>2, <2>3
  <2>5. L[k].chars = SubSeq(s, a + 1, hi)
    BY <1>2, <1>4, <2>1, <2>2, <2>3
  <2>6. \A i \in a + 1 .. hi : s[i] \in S
    <3>1. \A i \in a + 1 .. hi : i \in 1 .. Len(s)
      BY <2>4
    <3> QED BY <3>1, ElementOfSeq
  <2>7. SubSeq(s, a + 1, hi) \in Seq(S)
    BY <2>6, SubSeqProperties
  <2> QED BY <2>5, <2>7
<1>6. \A k \in 1 .. K : ~IsText(L[k])
  BY <1>4 DEF IsText, LongHeader, RestHeader
<1>7. \A k \in 1 .. K : PageShape(S, "VARCHAR", L[k])
  BY <1>5, <1>6 DEF PageShape
<1>8. IsSequence(L)
  <2>1. PICK T : T = { L[k] : k \in 1 .. K }
    OBVIOUS
  <2>2. \A k \in 1 .. K : L[k] \in T
    BY <2>1
  <2>3. L \in Seq(T)
    BY <1>3, <1>4, <2>2
  <2> QED BY <2>3 DEF IsSequence
<1> QED
  BY <1>4, <1>6, <1>7, <1>8 DEF L

LEMMA PutLongOK ==
  ASSUME NEW S, NEW grows \in BOOLEAN, NEW u, NEW done,
         VectorsOK(S, "VARCHAR", grows, u, done), u.rows = 0, NEW s \in Seq(S), s # <<>>
  PROVE  VectorsOK(S, "VARCHAR", grows, [u EXCEPT !.pages = @ \o LongPages(s)], Append(done, s))
<1>1. PICK L : L = LongPages(s)
  OBVIOUS
<1>2. PICK n : n = [u EXCEPT !.pages = @ \o L]
  OBVIOUS
<1>3. /\ IsWriter(u) /\ IsSequence(u.pages)
      /\ \A k \in DOMAIN u.pages : PageShape(S, "VARCHAR", u.pages[k])
      /\ Consistent(S, "VARCHAR", u)
  BY DEF VectorsOK
<1>4. /\ IsWriter(n) /\ n.pages = u.pages \o L /\ n.rows = u.rows /\ n.items = u.items
      /\ n.chars = u.chars /\ n.bits = u.bits /\ n.bytes = u.bytes
  <2>1. PICK g, r, i, c, t, y :
          u = [pages |-> g, rows |-> r, items |-> i, chars |-> c, bits |-> t, bytes |-> y]
    BY <1>3 DEF IsWriter
  <2>2. n = [pages |-> g \o L, rows |-> r, items |-> i, chars |-> c, bits |-> t, bytes |-> y]
    BY <1>2, <2>1
  <2> QED BY <2>1, <2>2 DEF IsWriter
<1>5. /\ IsSequence(L)
      /\ \A k \in DOMAIN L : PageShape(S, "VARCHAR", L[k]) /\ ~IsText(L[k])
  BY <1>1, LongPagesShape
<1>6. IsSequence(n.pages) /\ \A k \in DOMAIN n.pages : PageShape(S, "VARCHAR", n.pages[k])
  <2>1. PICK g : g = u.pages /\ IsSequence(g) /\ n.pages = g \o L
    BY <1>3, <1>4
  <2>2. IsSequence(g \o L)
    BY <1>5, <2>1, SequenceLaws
  <2>3. ASSUME NEW k \in DOMAIN (g \o L)
        PROVE  PageShape(S, "VARCHAR", (g \o L)[k])
    <3>1. \/ k \in DOMAIN g /\ (g \o L)[k] = g[k]
          \/ \E l \in DOMAIN L : (g \o L)[k] = L[l]
      BY <1>5, <2>1, <2>3, ConcatMembers
    <3> QED BY <1>3, <1>5, <2>1, <3>1
  <2> QED BY <2>1, <2>2, <2>3
<1>7. Consistent(S, "VARCHAR", n)
  BY <1>3, <1>4, SameRowsWritten
<1>8. ShortBitmap(n.pages) <=> ShortBitmap(u.pages)
  BY <1>3, <1>4, <1>5, ShortConcat
<1>9. \/ ShortBitmap(n.pages)
      \/ \E x : Reads("VARCHAR", n.pages, x) /\ Append(done, s) = x \o Written("VARCHAR", n)
  <2>1. ASSUME ~ShortBitmap(u.pages)
        PROVE  \E x : Reads("VARCHAR", n.pages, x) /\ Append(done, s) = x \o Written("VARCHAR", n)
    <3>1. PICK x : Reads("VARCHAR", u.pages, x) /\ done = x \o Written("VARCHAR", u)
      BY <2>1 DEF VectorsOK
    <3>2. Written("VARCHAR", u) = <<>> /\ Written("VARCHAR", n) = <<>>
      BY <1>4, WrittenNothing
    <3>3. IsSequence(x) /\ IsSequence(Append(x, s)) /\ done = x /\ Append(x, s) = Append(x, s) \o <<>>
      BY <3>1, <3>2, SequenceLaws DEF Reads
    <3>4. Reads("VARCHAR", n.pages, Append(x, s))
      BY <1>1, <1>3, <1>4, <3>1, ReadsLongString
    <3> QED BY <3>2, <3>3, <3>4
  <2> QED BY <1>8, <2>1
<1>10. DataEnd("VARCHAR", n) = DataEnd("VARCHAR", u)
  BY <1>4 DEF DataEnd
<1>11. VectorsOK(S, "VARCHAR", grows, n, Append(done, s))
  <2>1. /\ n.rows = 0 => n.items = <<>>
        /\ DataEnd("VARCHAR", n) + Bytes(n.rows) <= PageSize
        /\ n.bytes \in Nat /\ n.bytes <= Bytes(n.rows)
        /\ \A b \in n.bits : b \in Nat /\ b < n.rows /\ b \div ByteBits < n.bytes
        /\ grows => n.bytes = Bytes(n.rows) /\ ~ShortBitmap(n.pages)
    BY <1>4, <1>8, <1>10 DEF VectorsOK
  <2> QED BY <1>4, <1>6, <1>7, <1>9, <2>1 DEF VectorsOK
<1> QED
  BY <1>1, <1>2, <1>11

LEMMA PutStringOK ==
  ASSUME NEW S, NEW grows \in BOOLEAN, NEW w, NEW done,
         VectorsOK(S, "VARCHAR", grows, w, done), NEW s \in Seq(S)
  PROVE  VectorsOK(S, "VARCHAR", grows, PutString(w, s), Append(done, s))
<1>1. "VARCHAR" \in DataTypes /\ Len(s) \in Nat
  BY DEF DataTypes
<1>2. CASE IsLong(s)
  <2>1. PICK u : u = IF w.rows > 0 THEN SaveVectors(w) ELSE w
    OBVIOUS
  <2>2. PutString(w, s) = [u EXCEPT !.pages = @ \o LongPages(s)]
    BY <1>2, <2>1 DEF PutString
  <2>3. VectorsOK(S, "VARCHAR", grows, u, done) /\ u.rows = 0
    <3>1. w.rows \in Nat
      BY DEF VectorsOK, Consistent
    <3> QED BY <1>1, <2>1, <3>1, SaveVectorsOK
  <2>4. s # <<>>
    <3>1. Len(s) > PageSize - 7
      BY <1>2 DEF IsLong
    <3>2. Len(s) > 0
      BY <1>1, <3>1, PageSizes
    <3> QED BY <3>2
  <2> QED BY <2>2, <2>3, <2>4, PutLongOK
<1>3. CASE ~IsLong(s)
  <2>1. PICK u : u = SpaceFor("VARCHAR", w, 2 + Len(s))
    OBVIOUS
  <2>2. PutString(w, s) = AddValue("VARCHAR", set_bitmap(u), s)
    BY <1>3, <2>1 DEF PutString, SpaceFor
  <2>3. ExtraBytes("VARCHAR", s) = 2 + Len(s) /\ ValueIn(S, "VARCHAR", s)
    BY DEF ExtraBytes, ItemBytes, ValueIn
  <2>4. 2 + Len(s) \in Nat /\ (2 + Len(s)) + 5 <= PageSize
    <3>1. ~(Len(s) > PageSize - 7)
      BY <1>3 DEF IsLong
    <3> QED BY <1>1, <3>1, PageSizes
  <2>5. /\ VectorsOK(S, "VARCHAR", grows, u, done)
        /\ DataEnd("VARCHAR", u) + (2 + Len(s)) + u.rows \div ByteBits + 1 <= PageSize
    BY <1>1, <2>1, <2>4, SpaceOK
  <2>6. DataEnd("VARCHAR", u) + ExtraBytes("VARCHAR", s) + u.rows \div ByteBits + 1 <= PageSize
    BY <2>3, <2>5
  <2> QED BY <1>1, <2>2, <2>3, <2>5, <2>6, SetValueOK
<1> QED
  BY <1>2, <1>3

LEMMA PutOK ==
  ASSUME NEW S, NEW type \in DataTypes, NEW grows \in BOOLEAN, NEW w, NEW done,
         VectorsOK(S, type, grows, w, done), NEW v, v = Null \/ ValueIn(S, type, v)
  PROVE  VectorsOK(S, type, grows, Put(type, w, v, grows), Append(done, v))
<1>1. CASE v = Null
  <2>1. Put(type, w, v, grows) = PutNull(type, w, grows)
    BY <1>1 DEF Put
  <2> QED BY <1>1, <2>1, PutNullOK
<1>2. CASE v # Null /\ type = "INT32"
  <2>1. Put(type, w, v, grows) = PutInt(w, v) /\ v \in S
    BY <1>2 DEF Put, ValueIn
  <2> QED BY <1>2, <2>1, PutIntOK
<1>3. CASE v # Null /\ type = "VARCHAR"
  <2>1. Put(type, w, v, grows) = PutString(w, v) /\ v \in Seq(S)
    BY <1>3 DEF Put, ValueIn
  <2> QED BY <1>3, <2>1, PutStringOK
<1> QED
  BY <1>1, <1>2, <1>3 DEF DataTypes

LEMMA NothingWritten ==
  ASSUME NEW S, NEW type \in DataTypes, NEW grows \in BOOLEAN
  PROVE  VectorsOK(S, type, grows, NewWriter, <<>>)
<1>1. PICK n : n = NewWriter
  OBVIOUS
<1>2. /\ n.pages = <<>> /\ n.rows = 0 /\ n.items = <<>> /\ n.chars = <<>>
      /\ n.bits = {} /\ n.bytes = 0 /\ IsWriter(n)
  BY <1>1 DEF NewWriter, IsWriter
<1>3. <<>> \in Seq(S) /\ <<>> \in Seq(Nat) /\ Len(<<>>) = 0 /\ DOMAIN <<>> = {} /\ IsSequence(<<>>)
  <2>1. <<>> \in Seq(S) /\ <<>> \in Seq(Nat) /\ Len(<<>>) = 0 /\ DOMAIN <<>> = {}
    OBVIOUS
  <2> QED BY <2>1 DEF IsSequence
<1>4. Consistent(S, type, n)
  <2>1. DataBits(n, 0) = 0
    <3>1. { j \in 0 .. 0 - 1 : j \in n.bits } = {}
      BY <1>2
    <3> QED BY <3>1, FS_EmptySet DEF DataBits
  <2>2. \A k \in 1 .. Len(n.items) : FALSE
    BY <1>2, <1>3
  <2>3. n.rows \in Nat /\ DataBits(n, n.rows) = Len(n.items)
    BY <1>2, <1>3, <2>1
  <2> QED BY <1>2, <1>3, <2>2, <2>3 DEF Consistent
<1>5. Bytes(n.rows) = 0 /\ DataEnd(type, n) + Bytes(n.rows) <= PageSize
  <2>1. Len(n.items) = 0 /\ Len(n.chars) = 0
    BY <1>2, <1>3
  <2>2. DataEnd(type, n) = 4
    BY <2>1, EndOfData
  <2> QED BY <1>2, <2>2, NoBytes, PageSizes
<1>6. ~ShortBitmap(n.pages)
  BY <1>2, <1>3 DEF ShortBitmap
<1>7. Reads(type, n.pages, <<>>)
  BY <1>2, <1>3, FoldEmpty DEF Reads
<1>8. <<>> = <<>> \o Written(type, n)
  BY <1>2, <1>3, WrittenNothing, SequenceLaws
<1>9. VectorsOK(S, type, grows, n, <<>>)
  <2>1. /\ n.bytes \in Nat /\ n.bytes <= Bytes(n.rows) /\ n.bytes = Bytes(n.rows)
        /\ \A b \in n.bits : b \in Nat /\ b < n.rows /\ b \div ByteBits < n.bytes
    BY <1>2, <1>5
  <2>2. IsSequence(n.pages) /\ \A k \in DOMAIN n.pages : PageShape(S, type, n.pages[k])
    BY <1>2, <1>3
  <2> QED BY <1>2, <1>4, <1>5, <1>6, <1>7, <1>8, <2>1, <2>2 DEF VectorsOK
<1> QED
  BY <1>1, <1>9

\* What from_columnar reads from the pages of a column is what Table::to_columnar or
\* materialize have written there value by value, whatever the bytes are that nobody
\* wrote; unless a bitmap is too short, which it is not where unset_bitmap grows it.
THEOREM WriteReads ==
  ASSUME NEW S, NEW type \in DataTypes, NEW grows \in BOOLEAN, NEW values, IsSequence(values),
         \A i \in DOMAIN values : values[i] = Null \/ ValueIn(S, type, values[i]),
         NEW pages, pages = WriteColumn(type, values, grows)
  PROVE  /\ IsSequence(pages) /\ \A k \in DOMAIN pages : PageShape(S, type, pages[k])
         /\ grows => ~ShortBitmap(pages)
         /\ ShortBitmap(pages) \/ \A junk : from_columnar(type, pages, junk) = values
<1>1. PICK V : values \in Seq(V)
  BY DEF IsSequence
<1>2. PICK N \in Nat : N = Len(values) /\ DOMAIN values = 1 .. N
  BY <1>1
<1>3. PICK o : o = Putting(type, grows)
  OBVIOUS
<1> DEFINE first(n) == SubSeq(values, 1, n)
           T == { n \in Nat : n <= N => VectorsOK(S, type, grows, Fold(o, NewWriter, first(n)), first(n)) }
<1>4. 0 \in T
  <2>1. first(0) = <<>>
    OBVIOUS
  <2>2. Fold(o, NewWriter, <<>>) = NewWriter
    BY FoldEmpty
  <2> QED BY <2>1, <2>2, NothingWritten
<1>5. ASSUME NEW n \in Nat, n \in T
      PROVE  n + 1 \in T
  <2> SUFFICES ASSUME n + 1 <= N
               PROVE  VectorsOK(S, type, grows, Fold(o, NewWriter, first(n + 1)), first(n + 1))
    OBVIOUS
  <2>1. first(n + 1) = Append(first(n), values[n + 1]) /\ first(n) \in Seq(V)
    BY <1>1, <1>2, FirstPages
  <2>2. VectorsOK(S, type, grows, Fold(o, NewWriter, first(n)), first(n))
    BY <1>5
  <2>3. n + 1 \in DOMAIN values
    BY <1>2
  <2>4. PICK v : v = values[n + 1] /\ (v = Null \/ ValueIn(S, type, v))
    BY <2>3
  <2>5. PICK w : w = Fold(o, NewWriter, first(n))
    OBVIOUS
  <2> HIDE DEF first
  <2>6. Fold(o, NewWriter, Append(first(n), v)) = Step(o, w, v)
    BY <2>1, <2>5, FoldLast
  <2>7. Step(o, w, v) = Put(type, w, v, grows)
    BY <1>3 DEF Step, Putting
  <2>8. VectorsOK(S, type, grows, Put(type, w, v, grows), Append(first(n), v))
    BY <2>2, <2>4, <2>5, PutOK
  <2> QED BY <2>1, <2>4, <2>6, <2>7, <2>8
<1>6. N \in T
  <2> HIDE DEF T
  <2> QED BY <1>4, <1>5, Induction
<1>7. first(N) = values
  BY <1>1, <1>2, SubSeqFull
<1>8. PICK w : w = Fold(o, NewWriter, values)
  OBVIOUS
<1>9. VectorsOK(S, type, grows, w, values)
  <2> HIDE DEF first
  <2>1. VectorsOK(S, type, grows, Fold(o, NewWriter, first(N)), first(N))
    BY <1>6
  <2> QED BY <1>7, <1>8, <2>1
<1> HIDE DEF T, first
<1>10. FoldLeft(LAMBDA u, v : Put(type, u, v, grows), NewWriter, values) = w
  BY <1>3, <1>8, PutsAre
<1>11. PICK e : e = IF w.rows # 0 THEN SaveVectors(w) ELSE w
  OBVIOUS
<1>12. pages = e.pages
  BY <1>10, <1>11 DEF WriteColumn
<1>13. VectorsOK(S, type, grows, e, values) /\ e.rows = 0
  BY <1>9, <1>11, SaveVectorsOK
<1>14. /\ IsSequence(pages) /\ \A k \in DOMAIN pages : PageShape(S, type, pages[k])
       /\ grows => ~ShortBitmap(pages)
  BY <1>12, <1>13 DEF VectorsOK
<1>15. ASSUME ~ShortBitmap(pages), NEW junk
       PROVE  from_columnar(type, pages, junk) = values
  <2>1. PICK u : Reads(type, pages, u) /\ values = u \o Written(type, e)
    BY <1>12, <1>13, <1>15 DEF VectorsOK
  <2>2. Written(type, e) = <<>> /\ IsSequence(u)
    BY <1>13, <2>1, WrittenNothing DEF Reads
  <2>3. values = u
    BY <2>1, <2>2, SequenceLaws
  <2>4. from_columnar(type, pages, junk) = Fold(Reading(type, junk), <<>>, pages)
    BY <1>14, ReadIs
  <2> QED BY <2>1, <2>3, <2>4 DEF Reads
<1> QED
  BY <1>14, <1>15
=============================================================================
