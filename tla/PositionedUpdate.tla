-------------------------- MODULE PositionedUpdate --------------------------
(***************************************************************************)
(* Positioned updates and deletes (driver/cursor.c: SQLSetPos and its      *)
(* setpos_ functions, batch_insert; driver/execute.c: WHERE CURRENT OF;    *)
(* driver/results.c: set_dynamic_result).  The rows of a table are its     *)
(* key values, in the order the query returns them.  The driver changes a  *)
(* row by the key it finds at result->data_cursor; which row that is must  *)
(* follow from the rowset that the application sees.  A fetch is one step, *)
(* with the effect that module Fetch establishes.                          *)
(***************************************************************************)
EXTENDS Integers, Sequences, FiniteSets, Functions

CONSTANTS MaxRow,     \* bound: rows are 1 .. MaxRow
          MaxArray,   \* bound: SQL_ATTR_ROW_ARRAY_SIZE
          Practices   \* what happens beyond the careful use below

(***************************************************************************)
(* "refetch": with a static cursor, fetch again a rowset with the row that *)
(*     the last positioned operation worked on;                            *)
(* "empty": operate on a rowset without rows;                              *)
(* "after_delete": operate again on a row deleted, or, with a dynamic      *)
(*     cursor, on any row of a rowset a row was deleted from;              *)
(* "delete_current": DELETE WHERE CURRENT OF a dynamic cursor;             *)
(* "position": WHERE CURRENT OF when the position is not the first row;    *)
(* "add_row": SQL_ADD of one row other than the first of the buffers;      *)
(* "others": rows are inserted, or deleted by others, under a dynamic      *)
(*     cursor;                                                             *)
(* "errors": the server refuses a change.                                  *)
(***************************************************************************)
\* uint arithmetic; stands for 2^32, which is beyond the model checker.
UintSize == 1048576

ASSUME PositionedAssumption ==
  /\ MaxRow \in Nat /\ MaxArray \in 1 .. UintSize - 1
  /\ Practices \subseteq {"refetch", "empty", "after_delete", "delete_current",
                          "position", "others", "errors", "add_row"}

Row == 1 .. MaxRow

VARIABLES
  table,       \* the rows at the server
  res,         \* the result in the driver: rows, data_cursor, cursor_row; fault
  cursor_type, array_size, current_row, rows_found_in_set,
  seen,        \* the rowset in the application's buffers
  position,    \* the row of the rowset that SQLSetPos made the current one
  deleted,     \* rows of it that were deleted through the cursor
  op,          \* the positioned operation under way
  last         \* what the last one was to change, and did

cursorVars == <<cursor_type, array_size, current_row, rows_found_in_set>>
vars == <<table, res, cursor_type, array_size, current_row, rows_found_in_set,
          seen, position, deleted, op, last>>

TypeOK ==
  /\ table \subseteq Row
  /\ res \in [rows : Seq(Row), data_cursor : 0 .. MaxRow, cursor_row : -1 .. MaxRow,
              fault : BOOLEAN]
  /\ cursor_type \in {"none", "static", "dynamic"}
  /\ array_size \in 1 .. MaxArray
  /\ current_row \in -1 .. MaxRow /\ rows_found_in_set \in 0 .. MaxArray
  /\ seen \in Seq(Row) /\ Len(seen) <= MaxArray /\ position \in 1 .. MaxArray
  /\ deleted \subseteq Row
  /\ op \in [kind : {"none", "update", "delete", "add"}, irow : 0 .. MaxArray,
            by : {"setpos", "current_of"}, new : Seq(Row),
             pos : 1 .. MaxArray + 1, end : 0 .. MaxArray, affected : 0 .. MaxArray, ok : BOOLEAN]
  /\ last \in [named : SUBSET Row, changed : SUBSET Row, missing : SUBSET Row,
               rc : {"none", "success", "info", "error"}]

NoOp == [kind |-> "none", irow |-> 0, by |-> "setpos", pos |-> 1, end |-> 0,
         new |-> <<>>, affected |-> 0, ok |-> TRUE]
NoReport == [named |-> {}, changed |-> {}, missing |-> {}, rc |-> "none"]

Init ==
  /\ table = Row
  /\ res = [rows |-> <<>>, data_cursor |-> 0, cursor_row |-> -1, fault |-> FALSE]
  /\ cursor_type = "none" /\ array_size = 1 /\ current_row = 0 /\ rows_found_in_set = 0
  /\ seen = <<>> /\ position = 1 /\ deleted = {} /\ op = NoOp /\ last = NoReport

-----------------------------------------------------------------------------
(* The answer of the server: the rows there are, in their order. *)
Answer ==
  CHOOSE s \in [1 .. Cardinality(table) -> table] :
    \A i, j \in DOMAIN s : i < j => s[i] < s[j]

\* Mutant: the row number is taken from the start of the result.
SetCurrentFromStart(r, irow) ==
  [r EXCEPT !.data_cursor = IF irow = 0 THEN 0 ELSE irow - 1, !.cursor_row = irow - 1]

\* Mutant: rows are counted from 0.
SetCurrentOneBeyond(r, irow) ==
  IF irow > 0 /\ current_row + irow > Len(r.rows) THEN [r EXCEPT !.fault = TRUE]
  ELSE [r EXCEPT !.data_cursor = IF current_row < 0 THEN 0 ELSE current_row + irow,
                 !.cursor_row = current_row + irow]

(***************************************************************************)
(* set_current_cursor_data: walks to a row, unless cursor_row says that    *)
(* the result is there; a null pointer is followed beyond the end.         *)
(***************************************************************************)
SetCurrent(r, irow) ==
  LET row_pos == IF irow = 0 THEN current_row ELSE current_row + irow - 1
      size == Len(r.rows)
  IN IF r.cursor_row = row_pos THEN r
     ELSE IF size > 0 /\ row_pos > size THEN [r EXCEPT !.fault = TRUE]
     ELSE [r EXCEPT !.data_cursor = IF size = 0 \/ row_pos < 0 THEN 0 ELSE row_pos,
                    !.cursor_row = row_pos]

(* my_SQLExecute: the result of before is freed. *)
Executed(r) == [r EXCEPT !.rows = Answer, !.data_cursor = 0, !.cursor_row = -1]

(* set_dynamic_result, called for dynamic cursors *)
Refreshed(r) == IF cursor_type = "dynamic" THEN SetCurrent(Executed(r), 0) ELSE r

Execute(type, size) ==
  /\ cursor_type = "none"
  /\ cursor_type' = type /\ array_size' = size
  /\ res' = Executed(res)
  /\ current_row' = 0 /\ rows_found_in_set' = 0
  /\ seen' = <<>> /\ position' = 1 /\ deleted' = {} /\ last' = NoReport
  /\ UNCHANGED <<table, op>>

Idle == cursor_type # "none" /\ op = NoOp /\ ~res.fault

\* The statement has no result: until the next execution, which resets them,
\* its calls are refused and its numbers read by nothing.
WithoutResult ==
  /\ cursor_type' = "none"
  /\ res' = [res EXCEPT !.rows = <<>>, !.data_cursor = 0, !.cursor_row = -1]
  /\ current_row' = 0 /\ rows_found_in_set' = 0
  /\ seen' = <<>> /\ position' = 1 /\ deleted' = {}
  /\ UNCHANGED <<table, array_size, op>>

CloseCursor == Idle /\ WithoutResult /\ last' = NoReport

(***************************************************************************)
(* set_dynamic_result fails: my_SQLExecute has freed the old result and    *)
(* has no new one; the fetch or the SQLSetPos it was called for goes no    *)
(* further.                                                                *)
(***************************************************************************)
RefreshFails ==
  /\ Idle /\ cursor_type = "dynamic"
  /\ WithoutResult
  /\ last' = [NoReport EXCEPT !.rc = "error"]

(* my_SQLExtendedFetch: the row to go to, of "size" rows *)
Target(orientation, irow, size) ==
  CASE orientation = "next" ->
         IF current_row < 0 THEN 0 ELSE current_row + rows_found_in_set
    [] orientation = "prior" ->
         IF current_row <= 0 THEN -1 ELSE current_row - array_size
    [] orientation = "absolute" -> irow - 1
    [] orientation = "relative" -> current_row + irow

\* The last positioned operation did not work on a row fetched now.
NotRefetched(first, end) ==
  "refetch" \in Practices \/ cursor_type = "dynamic" \/ res.cursor_row \notin first .. end - 1

Fetch(orientation, irow) ==
  LET r == Refreshed(res)
      size == Len(r.rows)
      t == Target(orientation, irow, size)
      first == IF t > size THEN size ELSE t
      end == IF first + array_size > size THEN size ELSE first + array_size
  IN /\ Idle
     /\ last' = NoReport /\ position' = 1
     /\ UNCHANGED <<table, cursor_type, array_size, op>>
     /\ IF r.fault
        THEN res' = r /\ UNCHANGED <<current_row, rows_found_in_set, seen, deleted>>
        ELSE /\ t < 0 \/ NotRefetched(first, end)
             /\ deleted' = {}
             /\ current_row' = IF t < 0 THEN -1 ELSE first
             /\ rows_found_in_set' = IF t < 0 THEN 0 ELSE end - first
             /\ seen' = IF t < 0 THEN <<>> ELSE SubSeq(r.rows, first + 1, end)
             /\ res' = [r EXCEPT !.data_cursor = IF t < 0 THEN 0 ELSE first]

-----------------------------------------------------------------------------
(* SQLSetPos(SQL_POSITION) *)
SetPosition(irow) ==
  LET r == Refreshed(res)
      row == current_row + irow - 1
  IN /\ Idle /\ irow <= rows_found_in_set /\ irow <= Len(res.rows)
     /\ res' = IF r.fault THEN r
               ELSE [r EXCEPT !.cursor_row = row,
                              !.data_cursor = IF row > Len(r.rows) THEN Len(r.rows) ELSE row]
     /\ position' = irow /\ last' = NoReport
     /\ UNCHANGED <<table, cursorVars, seen, deleted, op>>

\* The rows of the rowset that an operation on row irow, 0 for all, is to change.
Named(irow) ==
  IF irow = 0 THEN Range(seen) ELSE IF irow \in DOMAIN seen THEN {seen[irow]} ELSE {}

Careful(kind, by, irow) ==
  /\ "empty" \in Practices \/ rows_found_in_set > 0
  /\ "after_delete" \in Practices
       \/ IF cursor_type = "dynamic" THEN deleted = {} ELSE Named(irow) \cap deleted = {}

\* Mutant: one row too few is processed for the whole rowset.
LastRowShort(irow) == IF irow = 0 THEN rows_found_in_set - 1 ELSE irow

\* rowset_end of setpos_update and setpos_delete
LastRow(irow) == IF irow = 0 THEN rows_found_in_set ELSE irow

(* SQLSetPos(SQL_UPDATE or SQL_DELETE): the loop is entered in any case. *)
SetPos(kind, irow) ==
  /\ Idle /\ irow <= rows_found_in_set /\ irow <= Len(res.rows)
  /\ Careful(kind, "setpos", irow)
  /\ res' = Refreshed(res)
  /\ op' = [NoOp EXCEPT !.kind = kind, !.irow = irow,
              !.pos = IF irow = 0 THEN 1 ELSE irow, !.end = IF irow = 0 /\ LastRow(0) = 0 THEN 1 ELSE LastRow(irow)]
  /\ last' = [NoReport EXCEPT !.named = Named(irow)]
  /\ position' = IF irow = 0 THEN position ELSE irow
  /\ UNCHANGED <<table, cursorVars, seen, deleted>>

(* UPDATE or DELETE ... WHERE CURRENT OF: do_my_pos_cursor, row 1 always *)
WhereCurrentOf(kind) ==
  /\ Idle /\ Careful(kind, "current_of", position)
  /\ "position" \in Practices \/ position = 1
  /\ kind = "delete" /\ cursor_type = "dynamic" => "delete_current" \in Practices
  /\ op' = [NoOp EXCEPT !.kind = kind, !.irow = 1, !.by = "current_of", !.pos = 1, !.end = 1]
  /\ last' = [NoReport EXCEPT !.named = Named(position)]
  /\ UNCHANGED <<table, res, cursorVars, seen, position, deleted>>

Running == op.kind # "none" /\ ~res.fault

\* setpos_delete: the row is gone if the server has found it.
Deletes(hit) == hit /\ op.kind = "delete"

(* The loop of setpos_update, or of setpos_delete: build_where_clause and  *)
(* exec_stmt_query for one row; an error does not end the loop.            *)
ChangeRow(ok) ==
  LET r == SetCurrent(res, op.pos)
      row == r.rows[r.data_cursor + 1]
      hit == ok /\ row \in table
  IN /\ Running /\ op.kind # "add" /\ op.pos <= op.end
     /\ ok \/ "errors" \in Practices
     /\ IF r.fault \/ r.data_cursor = Len(r.rows)
        THEN res' = [r EXCEPT !.fault = TRUE] /\ UNCHANGED <<table, deleted, op, last>>
        ELSE /\ res' = r
             /\ table' = IF Deletes(hit) THEN table \ {row} ELSE table
             /\ deleted' = IF Deletes(hit) THEN deleted \cup {row} ELSE deleted
             /\ op' = [op EXCEPT !.pos = @ + 1, !.ok = ok,
                         !.affected = IF hit THEN @ + 1 ELSE @]
             /\ last' = [last EXCEPT !.changed = IF hit THEN @ \cup {row} ELSE @,
                           !.missing = IF ok /\ ~hit THEN @ \cup {row} ELSE @]
     /\ UNCHANGED <<cursorVars, seen, position>>

\* Mutant: the rows deleted are not taken off the rowset.
RowsLeftAll(affected) == rows_found_in_set

\* Mutant: one row too many is taken off.
RowsLeftOneLess(affected) ==
  IF cursor_type = "dynamic" THEN (rows_found_in_set - affected - 1) % UintSize
  ELSE rows_found_in_set

\* rows_found_in_set after a delete, for the fetch of the next rowset
RowsLeft(affected) ==
  IF cursor_type = "dynamic" THEN (rows_found_in_set - affected) % UintSize
  ELSE rows_found_in_set

(* update_setpos_status, or update_status for WHERE CURRENT OF: the result *)
(* of the last row decides.                                                *)
ChangeReturns ==
  /\ Running /\ op.kind # "add" /\ op.pos > op.end
  /\ last' = [last EXCEPT !.rc = IF ~op.ok THEN "error"
                                 ELSE IF op.by = "current_of" /\ op.affected = 0 THEN "info"
                                 ELSE "success"]
  /\ rows_found_in_set' = IF op.kind = "delete" /\ op.by = "setpos"
                          THEN RowsLeft(op.affected) ELSE rows_found_in_set
  /\ op' = NoOp
  /\ UNCHANGED <<table, res, cursor_type, array_size, current_row, seen, position, deleted>>

-----------------------------------------------------------------------------
(***************************************************************************)
(* SQLSetPos(SQL_ADD), SQLBulkOperations(SQL_ADD): the application's       *)
(* buffers hold rows "new"; the first one is inserted, or all of them.     *)
(***************************************************************************)
Add(irow, new) ==
  /\ Idle
  /\ cursor_type = "static" \/ "others" \in Practices
  /\ irow > 1 => "add_row" \in Practices
  /\ res' = Refreshed(res)
  /\ op' = [NoOp EXCEPT !.kind = "add", !.irow = irow, !.new = new,
              !.end = IF irow = 0 THEN Len(new) ELSE 1]
  /\ last' = [NoReport EXCEPT !.named = IF irow = 0 THEN Range(new) ELSE {new[irow]}]
  /\ UNCHANGED <<table, cursorVars, seen, position, deleted>>

(* One INSERT of batch_insert, of rows op.pos .. end: as many as the       *)
(* network buffer holds.                                                   *)
InsertRows(end, ok) ==
  LET rows == {op.new[i] : i \in op.pos .. end} IN
    /\ Running /\ op.kind = "add" /\ op.pos <= end /\ end <= op.end
    /\ ok \/ "errors" \in Practices \/ rows \cap table # {}
    /\ ok => rows \cap table = {}
    /\ IF ok
       THEN /\ table' = table \cup rows
            /\ last' = [last EXCEPT !.changed = @ \cup rows,
                          !.rc = IF end = op.end THEN "success" ELSE @]
            /\ op' = IF end = op.end THEN NoOp ELSE [op EXCEPT !.pos = end + 1]
       ELSE last' = [last EXCEPT !.rc = "error"] /\ op' = NoOp /\ UNCHANGED table
    /\ UNCHANGED <<res, cursorVars, seen, position, deleted>>

(* Other clients *)
OthersChange(r) ==
  /\ cursor_type = "dynamic" => "others" \in Practices
  /\ ~res.fault
  /\ table' = IF r \in table THEN table \ {r} ELSE table \cup {r}
  /\ UNCHANGED <<res, cursorVars, seen, position, deleted, op, last>>

-----------------------------------------------------------------------------
Requests == {<<"next", 0>>, <<"prior", 0>>, <<"relative", 0>>}
              \cup ({"absolute"} \X (1 .. MaxRow + 1))

NewRows == {s \in [1 .. array_size -> Row \ table] :
              \A i, j \in DOMAIN s : s[i] = s[j] => i = j}

Next ==
  \/ \E type \in {"static", "dynamic"}, size \in 1 .. MaxArray : Execute(type, size)
  \/ CloseCursor
  \/ RefreshFails
  \/ \E r \in Requests : Fetch(r[1], r[2])
  \/ \E irow \in 1 .. MaxArray : SetPosition(irow)
  \/ \E kind \in {"update", "delete"} :
       WhereCurrentOf(kind) \/ \E irow \in 0 .. MaxArray : SetPos(kind, irow)
  \/ \E irow \in 0 .. array_size, new \in NewRows : Add(irow, new)
  \/ \E ok \in BOOLEAN : ChangeRow(ok) \/ \E end \in 1 .. MaxArray : InsertRows(end, ok)
  \/ ChangeReturns
  \/ \E r \in Row : OthersChange(r)

Spec == Init /\ [][Next]_vars

-----------------------------------------------------------------------------
(* What must hold *)

(***************************************************************************)
(* An operation changes no row but those that its row number means in the  *)
(* rowset that the application sees: data_cursor, cursor_row and           *)
(* current_row together always lead to that row.                           *)
(***************************************************************************)
NamedRowsOnly == last.changed \subseteq last.named

(***************************************************************************)
(* SQL_SUCCESS says that every row meant was changed, but for rows that    *)
(* other clients deleted.                                                  *)
(***************************************************************************)
SuccessMeansChanged ==
  last.rc = "success" => last.named \subseteq last.changed \cup last.missing

(* No row is looked for beyond the end of the result in memory. *)
MemorySafe == ~res.fault

(***************************************************************************)
(* The next rowset begins with the first row behind this one that the      *)
(* result has, and has as many as fit: also when rows of this rowset were  *)
(* deleted through a dynamic cursor, whose result has lost them.           *)
(***************************************************************************)
RowsBehind(r, rows) == {x \in Range(rows) : x > r}

Follows ==
  LET behind == RowsBehind(seen[Len(seen)], res'.rows)
      next == Range(seen')
  IN /\ next \subseteq behind
     /\ \A x \in behind \ next : Len(seen') = array_size /\ \A y \in next : y < x

NextRowsetFollows == [][Fetch("next", 0) /\ seen # <<>> => Follows]_vars
=============================================================================
