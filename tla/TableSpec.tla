----------------------------- MODULE TableSpec -----------------------------
(***************************************************************************)
(* What loading a table promises, without parser, caches, bitmaps and      *)
(* pages: the file of a path is read once, and every call for that path    *)
(* answers with the records of that version which the filter accepts, in   *)
(* the order of the file.  A file with a malformed field is not kept.      *)
(***************************************************************************)
EXTENDS Integers, SequencesExt

CONSTANTS
  Paths, Contents,
  Filters,
  Records(_),   \* the records of a file
  WellFormed(_),
  Accepts(_, _) \* whether a filter accepts a record

VARIABLES
  files,  \* on disk
  known,  \* per path the records read, <<records>>, or <<>>
  call,   \* [path, filter] of the call that runs, or of the last one
  status, \* "idle", "running", "done" or "failed"
  answer  \* the records of the last answer

vars == <<files, known, call, status, answer>>

\* The records that the filter accepts, in their order.
Chosen(records, filter) ==
  LET chosen[n \in 0 .. Len(records)] ==
        IF n = 0 THEN <<>>
        ELSE IF Accepts(filter, records[n]) THEN Append(chosen[n - 1], records[n])
        ELSE chosen[n - 1]
  IN  chosen[Len(records)]

Init ==
  /\ files \in [Paths -> Contents]
  /\ known = [p \in Paths |-> <<>>]
  /\ call \in [path : Paths, filter : Filters]
  /\ status = "idle"
  /\ answer = <<>>

\* Somebody writes the files anew, between two calls.
Rewrite ==
  /\ status # "running"
  /\ files' \in [Paths -> Contents]
  /\ UNCHANGED <<known, call, status, answer>>

Call ==
  /\ status # "running"
  /\ status' = "running"
  /\ call' \in [path : Paths, filter : Filters]
  /\ answer' = <<>>
  /\ UNCHANGED <<files, known>>

\* The file is read, as a whole, before anything is answered.
Read ==
  /\ status = "running"
  /\ known[call.path] = <<>>
  /\ WellFormed(files[call.path])
  /\ known' = [known EXCEPT ![call.path] = <<Records(files[call.path])>>]
  /\ UNCHANGED <<files, call, status, answer>>

Answer ==
  /\ status = "running"
  /\ known[call.path] # <<>>
  /\ status' = "done"
  /\ answer' = Chosen(known[call.path][1], call.filter)
  /\ UNCHANGED <<files, known, call>>

Fail ==
  /\ status = "running"
  /\ known[call.path] = <<>>
  /\ ~WellFormed(files[call.path])
  /\ status' = "failed"
  /\ UNCHANGED <<files, known, call, answer>>

Next == Rewrite \/ Call \/ Read \/ Answer \/ Fail

Spec == Init /\ [][Next]_vars
=============================================================================
