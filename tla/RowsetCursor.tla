---------------------------- MODULE RowsetCursor ----------------------------
(***************************************************************************)
(* What an application may expect of the fetch functions: the rows of a    *)
(* query's answer are numbered 1 .. size; a rowset is a run of consecutive *)
(* rows that begins after row number "first"; the next rowset begins where *)
(* this one ends, and only a scrollable cursor goes elsewhere.             *)
(***************************************************************************)
EXTENDS Integers, Sequences

VARIABLES size,        \* number of rows of the answer
          scrollable,
          first,       \* rows before the rowset; -1 before the first row
          rows         \* the numbers of the rows in the rowset

vars == <<size, scrollable, first, rows>>

Init == size = 0 /\ scrollable = FALSE /\ first = 0 /\ rows = <<>>

Open ==
  /\ size' \in Nat /\ scrollable' \in BOOLEAN
  /\ first' = 0 /\ rows' = <<>>

Advance ==
  /\ first' = IF first < 0 THEN 0 ELSE first + Len(rows)
  /\ rows' = <<>>
  /\ UNCHANGED <<size, scrollable>>

Jump ==
  /\ scrollable
  /\ first' \in Int /\ -1 <= first' /\ first' <= size
  /\ rows' = <<>>
  /\ UNCHANGED <<size, scrollable>>

Take ==
  /\ first >= 0 /\ first + Len(rows) < size
  /\ rows' = Append(rows, first + Len(rows) + 1)
  /\ UNCHANGED <<size, scrollable, first>>

Next == Open \/ Advance \/ Jump \/ Take

Spec == Init /\ [][Next]_vars
=============================================================================
