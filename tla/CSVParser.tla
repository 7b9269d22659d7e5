----------------------------- MODULE CSVParser -----------------------------
(***************************************************************************)
(* CSVParser (src/src/csv_parser.cpp): execute is called with one chunk of *)
(* the text after the other, finish at the end.  A chunk may end anywhere: *)
(* the parser looks one character ahead, and when that character is in the *)
(* next chunk it returns and remembers why (escaping, newlining).          *)
(*                                                                         *)
(* One action is one turn of the loop of execute, or one of the two        *)
(* resumptions before it.  Characters are classes: x stands for all that   *)
(* have no meaning.                                                        *)
(***************************************************************************)
EXTENDS Integers, SequencesExt

CONSTANTS
  MaxText,  \* bound: characters of the text
  MaxChunk  \* bound: characters of a chunk

ASSUME BoundsAssumption == MaxText \in Nat /\ MaxChunk \in Nat

Chars == {"x", ",", "quote", "backslash", "cr", "lf"}

VARIABLES
  escape, has_trailing_comma, \* configuration, never changed
  current_field, col_idx, row_idx, num_cols,
  after_first_row, quoted, after_field_sep, after_record_sep,
  escaping, newlining,        \* what a chunk ended in the middle of
  call,    \* "none", "execute", "closing" (execute called by finish), "over"
  rest,    \* of the chunk: buffer[i ..]
  error,   \* what the call returns
  fields,  \* history: the calls of on_field
  text     \* history: all the characters given to execute

config     == <<escape, has_trailing_comma>>
position   == <<col_idx, row_idx, num_cols, after_first_row>>
separators == <<after_field_sep, after_record_sep>>
suspended  == <<escaping, newlining>>
vars == <<config, current_field, position, quoted, separators, suspended,
          call, rest, error, fields, text>>
-----------------------------------------------------------------------------
(* Parts of a turn.                                                        *)

Running == call \in {"execute", "closing"}
InLoop == Running /\ ~escaping /\ ~newlining /\ rest # <<>>

Push(c) == current_field' = Append(current_field, c)

\* on_field and clear.
Emit ==
  /\ fields' = Append(fields, [row |-> row_idx, col |-> col_idx, text |-> current_field])
  /\ current_field' = <<>>

Return ==
  /\ call' = IF call = "closing" THEN "over" ELSE "none"
  /\ UNCHANGED error

Fail(e) ==
  /\ error' = e
  /\ call' = "over"

\* The end of a turn in which c was read and no separator.
NoSeparator == after_field_sep' = FALSE /\ after_record_sep' = FALSE

\* Columns of the record that ends here.
Columns == IF has_trailing_comma THEN col_idx ELSE col_idx + 1

RecordError ==
  IF has_trailing_comma /\ ~after_field_sep THEN "NoTrailingComma"
  ELSE IF after_first_row /\ Columns # num_cols THEN "InconsistentColumns"
  ELSE "Ok"

\* The record ends, and the loop goes on with the characters of left.
EndRecord(left) ==
  IF RecordError # "Ok"
    THEN /\ Fail(RecordError)
         /\ UNCHANGED <<position, current_field, fields, rest>>
    ELSE /\ after_first_row' = TRUE
         /\ num_cols' = Columns
         /\ IF has_trailing_comma THEN UNCHANGED <<fields, current_field>> ELSE Emit
         /\ col_idx' = 0
         /\ row_idx' = row_idx + 1
         /\ rest' = left
         /\ UNCHANGED <<call, error>>

\* An escape inside quotes has been read, and left follows.
AfterEscape(left) ==
  IF Head(left) \in {"quote", escape}
    THEN /\ Push(Head(left))
         /\ rest' = Tail(left)
         /\ UNCHANGED quoted
    ELSE /\ rest' = left
         /\ IF escape = "quote"
              THEN quoted' = FALSE /\ UNCHANGED current_field
              ELSE Push(escape) /\ UNCHANGED quoted

WithoutLineFeed(s) == IF s # <<>> /\ Head(s) = "lf" THEN Tail(s) ELSE s
-----------------------------------------------------------------------------
(* execute.                                                                *)

Execute(chunk) ==
  /\ call = "none"
  /\ call' = "execute"
  /\ rest' = chunk
  /\ text' = text \o chunk
  /\ UNCHANGED <<config, current_field, position, quoted, separators, suspended,
                 error, fields>>

ResumeEscaping ==
  /\ Running
  /\ escaping
  /\ AfterEscape(rest)
  /\ escaping' = FALSE
  /\ UNCHANGED <<config, position, separators, newlining, call, error, fields, text>>

\* after_field_sep keeps its value.
ResumeNewlining ==
  /\ Running
  /\ newlining
  /\ EndRecord(WithoutLineFeed(rest))
  /\ IF RecordError = "Ok"
       THEN after_record_sep' = TRUE /\ newlining' = FALSE
       ELSE UNCHANGED <<after_record_sep, newlining>>
  /\ UNCHANGED <<config, quoted, after_field_sep, escaping, text>>

\* A character without a meaning where it stands.
Plain(c) ==
  \/ c = "x"
  \/ c \in {",", "cr", "lf"} /\ quoted
  \/ c = "backslash" /\ ~(quoted /\ escape = "backslash")

ReadPlain ==
  /\ InLoop
  /\ Plain(Head(rest))
  /\ Push(Head(rest))
  /\ rest' = Tail(rest)
  /\ NoSeparator
  /\ UNCHANGED <<config, position, quoted, suspended, call, error, fields, text>>

ReadComma ==
  /\ InLoop
  /\ Head(rest) = "," /\ ~quoted
  /\ Emit
  /\ col_idx' = col_idx + 1
  /\ rest' = Tail(rest)
  /\ after_field_sep' = TRUE
  /\ after_record_sep' = FALSE
  /\ UNCHANGED <<config, row_idx, num_cols, after_first_row, quoted, suspended,
                 call, error, text>>

\* A carriage return outside quotes is the last character of the chunk.
CutInSeparator == Head(rest) = "cr" /\ Len(rest) = 1 /\ ~quoted

ReadSeparator ==
  /\ InLoop
  /\ Head(rest) \in {"cr", "lf"} /\ ~quoted
  /\ ~CutInSeparator
  /\ EndRecord(IF Head(rest) = "cr" THEN WithoutLineFeed(Tail(rest)) ELSE Tail(rest))
  /\ IF RecordError = "Ok"
       THEN after_field_sep' = FALSE /\ after_record_sep' = TRUE
       ELSE UNCHANGED separators
  /\ UNCHANGED <<config, quoted, suspended, text>>

SuspendNewlining ==
  /\ InLoop
  /\ CutInSeparator
  /\ newlining' = TRUE
  /\ rest' = <<>>
  /\ Return
  /\ UNCHANGED <<config, current_field, position, quoted, separators, escaping,
                 fields, text>>

\* A quote that opens, or that closes because it cannot be an escape.
ReadQuote ==
  /\ InLoop
  /\ Head(rest) = "quote" /\ ~(quoted /\ escape = "quote")
  /\ quoted' = ~quoted
  /\ rest' = Tail(rest)
  /\ NoSeparator
  /\ UNCHANGED <<config, current_field, position, suspended, call, error, fields, text>>

AtEscape == InLoop /\ quoted /\ Head(rest) = escape

ReadEscape ==
  /\ AtEscape
  /\ Len(rest) > 1
  /\ AfterEscape(Tail(rest))
  /\ NoSeparator
  /\ UNCHANGED <<config, position, suspended, call, error, fields, text>>

\* Faulty variant: an escape at the end of a chunk stands for itself.
Suspend_Literal ==
  /\ Push(escape)
  /\ UNCHANGED escaping
Suspend ==
  /\ escaping' = TRUE
  /\ UNCHANGED current_field

SuspendEscaping ==
  /\ AtEscape
  /\ Len(rest) = 1
  /\ Suspend
  /\ rest' = <<>>
  /\ Return
  /\ UNCHANGED <<config, position, quoted, separators, newlining, fields, text>>

EndOfChunk ==
  /\ Running /\ ~escaping /\ ~newlining
  /\ rest = <<>>
  /\ Return
  /\ UNCHANGED <<config, current_field, position, quoted, separators, suspended,
                 rest, fields, text>>
-----------------------------------------------------------------------------
(* finish.                                                                 *)

\* finish goes through execute once more.
Closing == newlining \/ ~after_record_sep

Finish ==
  /\ call = "none"
  /\ CASE quoted  -> Fail("QuoteNotClosed") /\ UNCHANGED rest
       [] ~quoted /\ Closing ->
            /\ call' = "closing"
            /\ rest' = IF newlining THEN <<>> ELSE <<"lf">>
            /\ UNCHANGED error
       [] OTHER -> call' = "over" /\ UNCHANGED <<rest, error>>
  /\ UNCHANGED <<config, current_field, position, quoted, separators, suspended,
                 fields, text>>

Over == call = "over" /\ UNCHANGED vars
-----------------------------------------------------------------------------
Init ==
  /\ escape \in {"quote", "backslash"}
  /\ has_trailing_comma \in BOOLEAN
  /\ current_field = <<>> /\ col_idx = 0 /\ row_idx = 0 /\ num_cols = 0
  /\ after_first_row = FALSE /\ quoted = FALSE
  /\ after_field_sep = FALSE /\ after_record_sep = FALSE
  /\ escaping = FALSE /\ newlining = FALSE
  /\ call = "none" /\ rest = <<>> /\ error = "Ok"
  /\ fields = <<>> /\ text = <<>>

Turn ==
  \/ ResumeEscaping \/ ResumeNewlining
  \/ ReadPlain \/ ReadComma \/ ReadSeparator \/ ReadQuote \/ ReadEscape
  \/ SuspendNewlining \/ SuspendEscaping \/ EndOfChunk

Next ==
  \/ \E n \in 1 .. MaxChunk :
       /\ Len(text) + n <= MaxText
       /\ \E chunk \in [1 .. n -> Chars] : Execute(chunk)
  \/ Turn
  \/ Finish
  \/ Over

Spec == Init /\ [][Next]_vars
-----------------------------------------------------------------------------
(* Properties.                                                             *)

Whole == INSTANCE CSVSpec

\* The calls of on_field for a sequence of records.
CallsFor(records) ==
  FlattenSeq([r \in DOMAIN records |->
    [k \in DOMAIN records[r] |-> [row |-> r - 1, col |-> k - 1, text |-> records[r][k]]]])

\* However the text was cut into chunks, the parser accepts it exactly if it
\* is accepted as a whole, and then has handed out the same fields with the
\* same row and column numbers (execute, finish).
ChunkingInvisible ==
  call = "over" =>
    LET whole == Whole!ReadAll(Whole!Start(escape, has_trailing_comma), text)
    IN  /\ error = "Ok" <=> whole.ok
        /\ whole.ok => fields = CallsFor(whole.records)
=============================================================================
