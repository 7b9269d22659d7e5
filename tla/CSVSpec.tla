------------------------------ MODULE CSVSpec ------------------------------
(***************************************************************************)
(* What the CSV parser promises for a text as a whole: the records it      *)
(* reads, or that it rejects it.  One character at a time, without chunks  *)
(* and without looking ahead; what a quote, an escape or a carriage return *)
(* means is decided by the character that follows, which is then read.     *)
(***************************************************************************)
EXTENDS Integers, SequencesExt

\* The state carries the configuration: escape is "quote" (the default) or
\* "backslash"; with has_trailing_comma every field is followed by a comma, the
\* last included.
Start(escape, has_trailing_comma) ==
  [escape |-> escape, has_trailing_comma |-> has_trailing_comma,
   mode   |-> "out",  \* "out" of or "in" quotes, "esc": in quotes after an
                      \* escape, "cr": after a carriage return
   field  |-> <<>>,   \* the field being read
   fresh  |-> FALSE,  \* a comma has just been read
   ended  |-> FALSE,  \* a record separator has just been read
   record |-> <<>>,   \* the fields of this record
   records |-> <<>>,
   ok     |-> TRUE]

EndRecord(s, mode) ==
  LET record == IF s.has_trailing_comma THEN s.record ELSE Append(s.record, s.field)
      fits   == s.records = <<>> \/ Len(record) = Len(s.records[1])
  IN  IF (s.has_trailing_comma => s.fresh) /\ fits
        THEN [s EXCEPT !.mode = mode, !.field = <<>>, !.fresh = FALSE, !.ended = TRUE,
                       !.record = <<>>, !.records = Append(@, record)]
        ELSE [s EXCEPT !.mode = mode, !.ok = FALSE]

AddToField(s, c, mode) ==
  [s EXCEPT !.mode = mode, !.field = Append(@, c), !.fresh = FALSE, !.ended = FALSE]

ReadOut(s, c) ==
  CASE c = ","     -> [s EXCEPT !.mode = "out", !.field = <<>>, !.fresh = TRUE,
                                !.ended = FALSE, !.record = Append(@, s.field)]
    [] c = "lf"    -> EndRecord(s, "out")
    [] c = "cr"    -> EndRecord(s, "cr")
    [] c = "quote" -> [s EXCEPT !.mode = "in", !.fresh = FALSE, !.ended = FALSE]
    [] OTHER       -> AddToField(s, c, "out")

ReadIn(s, c) ==
  CASE c = s.escape -> [s EXCEPT !.mode = "esc"]
    [] c = "quote" /\ s.escape # "quote" -> [s EXCEPT !.mode = "out"]
    [] OTHER -> AddToField(s, c, "in")

ReadAny(s, c) ==
  CASE s.mode = "out"  -> ReadOut(s, c)
    [] s.mode = "in"   -> ReadIn(s, c)
    [] s.mode = "cr"   -> IF c = "lf" THEN [s EXCEPT !.mode = "out"] ELSE ReadOut(s, c)
    [] s.mode = "esc"  -> IF c \in {"quote", s.escape}
                            THEN AddToField(s, c, "in")
                            ELSE IF s.escape = "quote"
                                   THEN ReadOut(s, c)
                                   ELSE ReadIn(AddToField(s, s.escape, "in"), c)

\* After an error the rest is not read.
ReadChar(s, c) == IF s.ok THEN ReadAny(s, c) ELSE s

\* The last record need not be separated.  A text that ends inside quotes is
\* rejected, and so is one that ends with the closing quote when quotes are
\* escaped by quotes.
End(s) ==
  IF ~s.ok \/ s.ended THEN s
  ELSE IF s.mode \in {"in", "esc"} THEN [s EXCEPT !.ok = FALSE]
  ELSE EndRecord(s, "out")

\* The state after the text, and after its end.
ReadText(start, text) == FoldLeft(ReadChar, start, text)
ReadAll(start, text) == End(ReadText(start, text))
=============================================================================
