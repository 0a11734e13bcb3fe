------------------------------- MODULE Fetch --------------------------------
(***************************************************************************)
(* Fetching rowsets (driver/results.c: my_SQLExtendedFetch, SQLFetch,      *)
(* SQLFetchScroll, SQLExtendedFetch; driver/my_stmt.c: the scroller).  A   *)
(* row is its number in the answer of the query without LIMIT.  There are  *)
(* three kinds of result:                                                  *)
(*   "stored"    all rows in memory, scrollable (mysql_store_result),      *)
(*   "stream"    read from the connection row by row (mysql_use_result),   *)
(*   "scroller"  prefetched in chunks by adding LIMIT to the query.        *)
(* The last two are forward-only.  One step reads one row, or one chunk.   *)
(***************************************************************************)
EXTENDS Integers, Sequences

CONSTANTS MaxRows,    \* bound: rows of the table
          MaxArray,   \* bound: SQL_ATTR_ROW_ARRAY_SIZE
          Offsets,    \* offsets of LIMIT
          Limits,     \* row counts of LIMIT and of SQL_ATTR_MAX_ROWS; 0 for none there
          Prefetch,   \* values of the PREFETCH option, without 0
          Practices   \* what happens beyond the careful use below

(***************************************************************************)
(* "continue": fetch the rows after a rowset for which fetching returned   *)
(*     SQL_ERROR because its only row could not be converted;              *)
(* "server_errors": the server answers a query of the scroller, or goes on *)
(*     with a stream, with an error other than a lost connection.          *)
(***************************************************************************)
ASSUME FetchAssumption ==
  /\ MaxRows \in Nat /\ MaxArray \in Nat \ {0}
  /\ Offsets \cup Limits \subseteq 0 .. MaxRows /\ 0 \in Offsets \cap Limits
  /\ Prefetch \subseteq Nat \ {0}
  /\ Practices \subseteq {"continue", "server_errors"}

VARIABLES
  query,      \* the query being executed, and what the driver decided about it
  chunk,      \* the rows in memory, or on their way: after "base", "size" of them
  data_cursor, end_of_set,          \* positions in the chunk
  current_row, rows_found_in_set,
  array_size,
  next_offset, limit_count,         \* of the scroller
  pc, call,   \* the fetch under way, or the last one
  errno,      \* mysql_errno of the connection
  fault       \* memory that is not a row of the result was used

stmtVars == <<query, chunk, data_cursor, end_of_set, current_row,
              rows_found_in_set, array_size, next_offset, limit_count>>
vars == <<query, chunk, data_cursor, end_of_set, current_row, rows_found_in_set,
          array_size, next_offset, limit_count, pc, call, errno, fault>>

NoLimit == -1
Null == -1       \* a null position: the end of the rows
Freed == -2      \* a position in rows that are not in memory any more

MinOf(a, b) == IF a <= b THEN a ELSE b
MaxOf(a, b) == IF a >= b THEN a ELSE b

(***************************************************************************)
(* table: rows the query has without LIMIT; offset, limit: its LIMIT;      *)
(* bad: the row whose value cannot be converted, if any; prefetch: the     *)
(* PREFETCH option; row_count, total_rows: of the scroller.                *)
(***************************************************************************)
Query == [kind : {"none", "stored", "stream", "scroller"},
          table : 0 .. MaxRows, bad : 0 .. MaxRows,
          offset : Offsets, limit : Limits \cup {NoLimit},
          max_rows : Limits, row_count : Nat, total_rows : Nat]

Call == [rows : Seq(Nat), want : Nat, array : 1 .. MaxArray, save : Nat \cup {Null, Freed},
         stop : BOOLEAN,     \* no further row was found
         failed : BOOLEAN,   \* res is SQL_ERROR
         rc : {"none", "success", "info", "error", "no_data"},
         status : [1 .. MaxArray -> {"none", "ok", "error", "norow"}]]

TypeOK ==
  /\ query \in Query
  /\ chunk \in [base : Nat, size : Nat]
  /\ {data_cursor, end_of_set} \subseteq Nat \cup {Null, Freed}
  /\ current_row \in Nat \cup {-1} /\ rows_found_in_set \in Nat
  /\ array_size \in 1 .. MaxArray
  /\ next_offset \in Nat /\ limit_count \in Nat
  /\ pc \in {"idle", "reading"} /\ call \in Call
  /\ errno \in {"none", "lost", "other"} /\ fault \in BOOLEAN

NoQuery == [kind |-> "none", table |-> 0, bad |-> 0, offset |-> 0, limit |-> NoLimit,
            max_rows |-> 0, row_count |-> 0, total_rows |-> 0]
NoCall == [rows |-> <<>>, want |-> 0, array |-> 1, save |-> Null, stop |-> FALSE, failed |-> FALSE,
           rc |-> "none", status |-> [i \in 1 .. MaxArray |-> "none"]]

Init ==
  /\ query = NoQuery /\ chunk = [base |-> 0, size |-> 0]
  /\ data_cursor = 0 /\ end_of_set = Null
  /\ current_row = 0 /\ rows_found_in_set = 0 /\ array_size = 1
  /\ next_offset = 0 /\ limit_count = 0
  /\ pc = "idle" /\ call = NoCall
  /\ errno = "none" /\ fault = FALSE

-----------------------------------------------------------------------------
(* Rows a query has after LIMIT offset, count; a count of 0 is none.       *)
Answered(table, offset, count) == MaxOf(0, MinOf(table - offset, count))

(* Rows wanted by LIMIT and SQL_ATTR_MAX_ROWS.  The server counts them,    *)
(* but for the scroller, whose queries all have a LIMIT of its own.        *)
Count(q) ==
  IF q.limit = NoLimit THEN IF q.max_rows = 0 THEN MaxRows ELSE q.max_rows
  ELSE IF q.max_rows > 0 THEN MinOf(q.limit, q.max_rows) ELSE q.limit

AnswerSize(q) == Answered(q.table, q.offset, Count(q))

(* calc_prefetch_number: a multiple of the rowset, if not beyond max_rows. *)
PrefetchNumber(selected, size, max_rows) ==
  LET whole == IF size > 1 /\ selected % size > 0
               THEN size * (selected \div size + 1)
               ELSE IF size > selected THEN size ELSE selected
  IN IF max_rows > 0 /\ max_rows < whole THEN max_rows ELSE whole

(* scroller_create *)
Scroller(q, selected) ==
  LET total == IF q.limit = NoLimit THEN q.max_rows
               ELSE IF q.max_rows > 0 THEN MinOf(q.limit, q.max_rows) ELSE q.limit
      number == PrefetchNumber(selected, array_size, q.max_rows)
  IN [q EXCEPT !.total_rows = total,
               !.row_count = IF q.limit # NoLimit /\ number > total THEN total ELSE number]

\* What a position is when the rows are freed: the end is a null pointer.
Outlived(position) == IF position \in {Null, chunk.size} THEN Null ELSE Freed

(* my_SQLExecute, do_query: the statement's position is reset, end_of_set  *)
(* is left from the result before.                                         *)
Execute(q, selected) ==
  LET full == IF q.kind = "scroller" THEN Scroller(q, selected) ELSE q
      count == IF q.kind = "scroller" THEN full.row_count ELSE Count(q)
  IN /\ pc = "idle" /\ query.kind = "none"
     /\ query' = full
     /\ chunk' = [base |-> q.offset, size |-> Answered(q.table, q.offset, count)]
     /\ next_offset' = IF q.kind = "scroller" THEN q.offset + full.row_count ELSE 0
     /\ limit_count' = IF q.kind = "scroller" THEN full.row_count ELSE 0
     /\ current_row' = 0 /\ rows_found_in_set' = 0
     /\ data_cursor' = 0
     /\ call' = NoCall /\ errno' = "none"
     /\ UNCHANGED <<end_of_set, array_size, pc, fault>>

(* SQLFreeStmt(SQL_CLOSE) *)
CloseCursor ==
  /\ pc = "idle" /\ query.kind # "none"
  /\ query' = NoQuery /\ chunk' = [base |-> 0, size |-> 0]
  /\ current_row' = 0 /\ rows_found_in_set' = 0
  /\ data_cursor' = 0 /\ end_of_set' = Outlived(end_of_set)
  /\ next_offset' = 0 /\ limit_count' = 0
  /\ call' = NoCall
  /\ UNCHANGED <<array_size, pc, errno, fault>>

(* SQLSetStmtAttr(SQL_ATTR_ROW_ARRAY_SIZE), between any two fetches *)
SetArraySize(n) ==
  /\ pc = "idle" /\ array_size' = n
  /\ UNCHANGED <<query, chunk, data_cursor, end_of_set, current_row,
                 rows_found_in_set, next_offset, limit_count, pc, call, errno, fault>>

-----------------------------------------------------------------------------
(* num_rows *)
NumRows ==
  CASE query.kind = "stream" -> data_cursor
    [] query.kind = "scroller" ->
         (IF next_offset > 0 THEN next_offset - query.row_count ELSE 0) + chunk.size
    [] OTHER -> chunk.size

(* The row to go to, before it is compared with the rows there are. *)
Target(orientation, irow) ==
  CASE orientation = "next" ->
         IF current_row < 0 THEN 0 ELSE current_row + rows_found_in_set
    [] orientation = "prior" ->
         IF current_row <= 0 THEN -1 ELSE current_row - array_size
    [] orientation = "first" -> 0
    [] orientation = "last" -> NumRows - array_size
    [] orientation = "absolute" ->
         IF irow >= 0 THEN irow - 1
         ELSE IF NumRows + irow < 0 /\ -irow <= array_size THEN 0
         ELSE NumRows + irow
    [] orientation = "relative" ->
         IF current_row > 0 /\ current_row + irow < 0 /\ -irow <= array_size THEN 0
         ELSE current_row + irow
    [] orientation = "bookmark" ->
         IF irow < 0 /\ -irow <= array_size THEN 0 ELSE irow

(* row_seek to the remembered end of the rowset, or data_seek. *)
Sequential(t) == t # 0 /\ t = current_row + rows_found_in_set

\* Without "continue", no fetch goes on after the rowset with the error.
Careful(t) ==
  call.failed /\ query.kind # "stream" /\ "continue" \notin Practices => ~Sequential(t)

\* Mutant: the end of the rowset is used for every fetch of the next rowset.
SeekEndOfSet(t) ==
  data_cursor' = IF query.kind = "stream" THEN data_cursor
                 ELSE IF t = current_row + rows_found_in_set
                      THEN IF end_of_set = Null THEN chunk.size ELSE end_of_set
                 ELSE MinOf(t, chunk.size)

(* What is on the connection is read where it is. *)
Seek(t) ==
  data_cursor' = IF query.kind = "stream" THEN data_cursor
                 ELSE IF Sequential(t)
                      THEN IF end_of_set = Null THEN chunk.size ELSE end_of_set
                 ELSE MinOf(t, chunk.size)

\* Mutant: the cursor stays where the fetch would have gone.
FetchBeforeFirstFar(t) ==
  /\ t < 0
  /\ current_row' = t /\ rows_found_in_set' = 0 /\ data_cursor' = 0
  /\ call' = [call EXCEPT !.rc = "no_data", !.rows = <<>>, !.failed = FALSE]
  /\ UNCHANGED pc

(* Before the first row *)
FetchBeforeFirst(t) ==
  /\ t < 0
  /\ current_row' = -1 /\ rows_found_in_set' = 0 /\ data_cursor' = 0
  /\ call' = [call EXCEPT !.rc = "no_data", !.rows = <<>>, !.failed = FALSE]
  /\ UNCHANGED pc

(* After the last row of a stored result *)
FetchAfterLast(t) ==
  /\ query.kind = "stored" /\ t >= NumRows
  /\ current_row' = NumRows /\ rows_found_in_set' = 0 /\ Seek(NumRows)
  /\ call' = [call EXCEPT !.rc = "no_data", !.rows = <<>>, !.failed = FALSE]
  /\ UNCHANGED pc

FetchRows(t) ==
  /\ 0 <= t /\ (query.kind = "stored" => t < NumRows)
  /\ current_row' = t /\ Seek(t)
  /\ pc' = "reading"
  /\ call' = [call EXCEPT !.rc = "none", !.rows = <<>>, !.stop = FALSE, !.failed = FALSE,
                !.want = IF query.kind = "stored" THEN MinOf(NumRows - t, array_size)
                         ELSE array_size,
                !.array = array_size, !.save = data_cursor']
  /\ UNCHANGED rows_found_in_set

\* Bound: fetches of the scroller after its last row, which move it on.
OffsetBound == MaxRows + MaxArray

(* my_SQLExtendedFetch, before the loop.  The target of a forward-only     *)
(* fetch is never beyond the rows there are.                               *)
Fetch(orientation, irow) ==
  LET t == Target(orientation, irow) IN
    /\ pc = "idle" /\ query.kind # "none"
    /\ query.kind # "stored" => orientation = "next"
    /\ next_offset <= OffsetBound
    /\ Careful(t)
    /\ FetchBeforeFirst(t) \/ FetchAfterLast(t) \/ FetchRows(t)
    /\ UNCHANGED <<query, chunk, end_of_set, array_size, next_offset, limit_count,
                   errno, fault>>

-----------------------------------------------------------------------------
(* The loop of my_SQLExtendedFetch *)
Reading == pc = "reading" /\ Len(call.rows) < call.want /\ ~call.stop

AtEnd == data_cursor \in {chunk.size, Freed}

(* fetch_row, fill_fetch_buffers *)
ReadRow ==
  LET row == chunk.base + data_cursor + 1 IN
    /\ Reading /\ ~AtEnd
    /\ data_cursor' = data_cursor + 1
    /\ call' = [call EXCEPT !.rows = Append(@, row),
                  !.status[Len(call.rows) + 1] = IF row = query.bad THEN "error" ELSE "ok"]
    /\ UNCHANGED <<query, chunk, end_of_set, current_row, rows_found_in_set, array_size,
                   next_offset, limit_count, pc, errno, fault>>

(* fetch_row finds no row: the end, or rows that are not in memory. *)
NoRow ==
  /\ Reading /\ AtEnd
  /\ query.kind = "scroller" => data_cursor = Freed
  /\ call' = [call EXCEPT !.stop = TRUE]
  /\ fault' = (fault \/ data_cursor = Freed)
  /\ UNCHANGED <<stmtVars, pc, errno>>

(* The rest of a stream is not sent, or cannot be read. *)
StreamFails(error) ==
  /\ Reading /\ query.kind = "stream"
  /\ error = "other" => "server_errors" \in Practices
  /\ errno' = error
  /\ chunk' = [chunk EXCEPT !.size = data_cursor]
  /\ call' = [call EXCEPT !.stop = TRUE]
  /\ UNCHANGED <<query, data_cursor, end_of_set, current_row, rows_found_in_set,
                 array_size, next_offset, limit_count, pc, fault>>

\* scroller_prefetch: what is left to ask for with the offset at.
Remaining(at) == query.total_rows - (at - query.offset)

\* The last chunk is asked for: total_rows of 0 is no limit.
LastChunk(at) ==
  query.total_rows > 0 /\ at + query.row_count >= query.total_rows + query.offset

\* Mutant: the last chunk is asked for with the full row count.
ChunkCountFull(at) == limit_count

ChunkCount(at) == IF LastChunk(at) THEN Remaining(at) ELSE limit_count

ScrollerMoves ==
  Reading /\ query.kind = "scroller" /\ AtEnd /\ data_cursor # Freed

(* scroller_move and scroller_prefetch: all rows are there. *)
NoMoreChunks ==
  /\ ScrollerMoves /\ LastChunk(next_offset) /\ Remaining(next_offset) <= 0
  /\ next_offset' = next_offset + query.row_count
  /\ call' = [call EXCEPT !.stop = TRUE]
  /\ UNCHANGED <<query, chunk, data_cursor, end_of_set, current_row, rows_found_in_set,
                 array_size, limit_count, pc, errno, fault>>

(* ... the next chunk replaces the rows in memory, and its first row is    *)
(* read: save_position is taken after it.                                  *)
NextChunk ==
  LET count == ChunkCount(next_offset)
      size == Answered(query.table, next_offset, count)
      row == next_offset + 1
  IN /\ ScrollerMoves /\ ~(LastChunk(next_offset) /\ Remaining(next_offset) <= 0)
     /\ errno # "lost"
     /\ next_offset' = next_offset + query.row_count
     /\ limit_count' = count
     /\ chunk' = [base |-> next_offset, size |-> size]
     /\ end_of_set' = Outlived(end_of_set)
     /\ errno' = "none"
     /\ IF size = 0
        THEN /\ data_cursor' = 0
             /\ call' = [call EXCEPT !.stop = TRUE, !.save = Outlived(@)]
        ELSE /\ data_cursor' = 1
             /\ call' = [call EXCEPT !.rows = Append(@, row), !.save = 1,
                           !.status[Len(call.rows) + 1] =
                              IF row = query.bad THEN "error" ELSE "ok"]
     /\ UNCHANGED <<query, current_row, rows_found_in_set, array_size, pc, fault>>

(* A connection that was lost stays lost (AUTO_RECONNECT is not set). *)
(* ... the query fails: the offset has moved on, the rows are still there. *)
NextChunkFails(error) ==
  /\ ScrollerMoves /\ ~(LastChunk(next_offset) /\ Remaining(next_offset) <= 0)
  /\ error = "other" => errno # "lost" /\ "server_errors" \in Practices
  /\ next_offset' = next_offset + query.row_count
  /\ limit_count' = ChunkCount(next_offset)
  /\ call' = [call EXCEPT !.stop = TRUE]
  /\ errno' = error
  /\ UNCHANGED <<query, chunk, data_cursor, end_of_set, current_row, rows_found_in_set,
                 array_size, pc, fault>>

-----------------------------------------------------------------------------
(* After the loop *)
Result ==
  CASE \A i \in DOMAIN call.rows : call.rows[i] # query.bad -> "success"
    [] Len(call.rows) = 1 /\ call.rows[1] = query.bad -> "error"
    [] OTHER -> "info"

\* Mutant: an incomplete rowset is the end also if the connection was lost.
ReturnCodeUnasked(res) ==
  IF res # "error" /\ Len(call.rows) = 0 THEN "no_data" ELSE res

ReturnCode(res) ==
  IF res = "error" \/ Len(call.rows) = call.array THEN res
  ELSE IF errno = "lost" THEN "error"
  ELSE IF Len(call.rows) = 0 THEN "no_data" ELSE res

\* Mutant: statuses after the rows found are left as they are.
RestStatusKept(i) == call.status[i]

RestStatus(i) == IF errno = "lost" THEN "error" ELSE "norow"

FetchReturns ==
  /\ pc = "reading" /\ ~Reading
  /\ rows_found_in_set' = Len(call.rows)
  /\ IF Result = "error" \/ query.kind = "stream"
     THEN UNCHANGED <<end_of_set, data_cursor>>
     ELSE end_of_set' = data_cursor /\ data_cursor' = call.save
  /\ call' = [call EXCEPT !.rc = ReturnCode(Result), !.failed = (Result = "error"),
                !.want = 0, !.save = Null, !.stop = FALSE, !.status = [i \in 1 .. MaxArray |->
                              IF i \in Len(call.rows) + 1 .. call.array
                              THEN RestStatus(i) ELSE call.status[i]]]
  /\ pc' = "idle"
  /\ UNCHANGED <<query, chunk, current_row, array_size, next_offset, limit_count,
                 errno, fault>>

-----------------------------------------------------------------------------
Requests == ({"next", "prior", "first", "last"} \X {0})
              \cup ({"absolute", "relative", "bookmark"} \X (-(MaxRows + 1) .. MaxRows + 1))

(* LIMIT and SQL_ATTR_MAX_ROWS are left to the queries of the scroller.    *)
Queries == {q \in [kind : {"stored", "stream", "scroller"}, table : 0 .. MaxRows,
                   bad : 0 .. MaxRows, offset : Offsets,
                   limit : Limits \cup {NoLimit}, max_rows : Limits,
                   row_count : {0}, total_rows : {0}] :
              /\ q.limit = NoLimit => q.offset = 0
              /\ q.kind # "scroller" => q.limit = NoLimit /\ q.max_rows = 0}

Next ==
  \/ \E q \in Queries, p \in Prefetch : Execute(q, p)
  \/ CloseCursor
  \/ \E n \in 1 .. MaxArray : SetArraySize(n)
  \/ \E r \in Requests : Fetch(r[1], r[2])
  \/ ReadRow \/ NoRow \/ NoMoreChunks \/ NextChunk
  \/ \E e \in {"lost", "other"} : StreamFails(e) \/ NextChunkFails(e)
  \/ FetchReturns

Spec == Init /\ [][Next]_vars

-----------------------------------------------------------------------------
(* What must hold *)

(***************************************************************************)
(* The application's buffers hold the rows of the answer from current_row  *)
(* on, wherever row_seek, data_seek or a new chunk of the scroller left    *)
(* the position in memory.                                                 *)
(***************************************************************************)
RowsetExact ==
  \A i \in DOMAIN call.rows : call.rows[i] = query.offset + current_row + i

(***************************************************************************)
(* SQL_NO_DATA and an incomplete rowset say that the answer ends there,    *)
(* never that it was cut off by an error.                                  *)
(***************************************************************************)
EndOfData ==
  (call.rc \in {"success", "info", "no_data"} /\ Len(call.rows) < call.array)
    => current_row = -1 \/ current_row + Len(call.rows) = AnswerSize(query)

(***************************************************************************)
(* After a fetch that moved the cursor onto a rowset, the status array     *)
(* tells the rows that were converted, those that were not, and no other.  *)
(***************************************************************************)
StatusExact ==
  call.rc \in {"success", "info"} =>
    \A i \in 1 .. call.array :
      call.status[i] = IF i > Len(call.rows) THEN "norow"
                       ELSE IF call.rows[i] = query.bad THEN "error" ELSE "ok"

(* No row is read from rows that were freed. *)
MemorySafe == ~fault

(***************************************************************************)
(* Fetching implements the rowset cursor: forward-only results, streamed   *)
(* or prefetched, deliver each row once and in order.                      *)
(***************************************************************************)
Cursor == INSTANCE RowsetCursor
            WITH size <- AnswerSize(query),
                 scrollable <- query.kind = "stored",
                 first <- current_row,
                 rows <- [i \in DOMAIN call.rows |-> call.rows[i] - query.offset]

ImplementsRowsetCursor == Cursor!Spec
=============================================================================
