----------------------------- MODULE FetchProofs -----------------------------
(***************************************************************************)
(* What TLAPS proves of Fetch for tables, rowsets and chunks of any size:  *)
(* types and row statuses whatever the application and the server do, no   *)
(* use of freed rows unless the application continues after a failed       *)
(* fetch, and for the careful use (Practices = {}) that every rowset has   *)
(* the rows of the answer that it should, and that the driver implements   *)
(* the rowset cursor.                                                      *)
(***************************************************************************)
EXTENDS Fetch, TLAPS

(* Positions from which rows are read are never null pointers. *)
Typed ==
  /\ pc = "reading" => data_cursor \in Nat \cup {Freed}
  /\ query.kind = "stream" => data_cursor \in Nat

TypeInv == TypeOK /\ Typed

Positions == Nat \cup {Null, Freed}

StmtTypes ==
  /\ query \in Query /\ chunk \in [base : Nat, size : Nat]
  /\ data_cursor \in Positions /\ end_of_set \in Positions
  /\ current_row \in Nat \cup {-1} /\ rows_found_in_set \in Nat
  /\ array_size \in 1 .. MaxArray
  /\ next_offset \in Nat /\ limit_count \in Nat

LEMMA Types ==
  TypeOK <=> /\ StmtTypes /\ pc \in {"idle", "reading"} /\ call \in Call
             /\ errno \in {"none", "lost", "other"} /\ fault \in BOOLEAN
BY DEF TypeOK, StmtTypes, Positions

LEMMA TypesNext ==
  ASSUME StmtTypes', pc' \in {"idle", "reading"}, call' \in Call,
         errno' \in {"none", "lost", "other"}, fault' \in BOOLEAN
  PROVE  TypeOK'
BY DEF TypeOK, StmtTypes, Positions

LEMMA Constants ==
  /\ MaxRows \in Nat /\ MaxArray \in Nat \ {0} /\ 0 \in Offsets /\ 0 \in Limits
  /\ \A n \in Offsets \cup Limits : n \in 0 .. MaxRows
  /\ \A p \in Prefetch : p \in Nat \ {0}
BY FetchAssumption

LEMMA Nothing == NoQuery \in Query /\ NoCall \in Call
<1>1. NoQuery \in Query
  BY Constants DEF NoQuery, Query, NoLimit
<1>2. [i \in 1 .. MaxArray |-> "none"] \in [1 .. MaxArray -> {"none", "ok", "error", "norow"}]
  OBVIOUS
<1>3. 1 \in 1 .. MaxArray /\ <<>> \in Seq(Nat)
  BY Constants
<1> QED BY <1>1, <1>2, <1>3 DEF NoCall, Call, Null

-----------------------------------------------------------------------------
(* Sizes *)
LEMMA AnsweredType ==
  \A table, offset, count \in Int : Answered(table, offset, count) \in Nat
BY DEF Answered, MaxOf, MinOf

\* A chunk is not empty, and not larger than SQL_ATTR_MAX_ROWS.
LEMMA PrefetchSize ==
  ASSUME NEW selected \in Nat \ {0}, NEW size \in Nat \ {0}, NEW max_rows \in Nat
  PROVE  /\ PrefetchNumber(selected, size, max_rows) \in Nat \ {0}
         /\ max_rows > 0 => PrefetchNumber(selected, size, max_rows) <= max_rows
<1> DEFINE whole == IF size > 1 /\ selected % size > 0
                    THEN size * (selected \div size + 1)
                    ELSE IF size > selected THEN size ELSE selected
<1>1. whole \in Nat \ {0}
  <2>1. selected \div size + 1 \in Nat \ {0}
    BY Z3
  <2>2. \A m, n \in Nat \ {0} : m * n \in Nat \ {0}
    BY Z3
  <2>3. size * (selected \div size + 1) \in Nat \ {0}
    BY <2>1, <2>2
  <2> QED BY <2>3
<1> HIDE DEF whole
<1>2. PrefetchNumber(selected, size, max_rows)
        = IF max_rows > 0 /\ max_rows < whole THEN max_rows ELSE whole
  BY DEF PrefetchNumber, whole
<1> QED BY <1>1, <1>2

LEMMA QueryTypes ==
  ASSUME NEW q \in Queries
  PROVE  /\ q \in Query /\ q.kind \in {"stored", "stream", "scroller"}
         /\ q.table \in 0 .. MaxRows /\ q.offset \in 0 .. MaxRows
         /\ q.limit \in 0 .. MaxRows \cup {NoLimit} /\ q.max_rows \in 0 .. MaxRows
         /\ q.limit = NoLimit => q.offset = 0
         /\ q.kind # "scroller" => q.limit = NoLimit /\ q.max_rows = 0
<1>1. /\ q \in [kind : {"stored", "stream", "scroller"}, table : 0 .. MaxRows,
                bad : 0 .. MaxRows, offset : Offsets,
                limit : Limits \cup {NoLimit}, max_rows : Limits,
                row_count : {0}, total_rows : {0}]
      /\ q.limit = NoLimit => q.offset = 0
      /\ q.kind # "scroller" => q.limit = NoLimit /\ q.max_rows = 0
  BY DEF Queries
<1>2. q \in Query
  BY <1>1 DEF Query
<1>3. q.offset \in Offsets /\ q.limit \in Limits \cup {NoLimit} /\ q.max_rows \in Limits
  BY <1>1
<1> QED BY <1>1, <1>2, <1>3, Constants

(* How the sizes that the scroller works with relate to the answer: LIMIT  *)
(* is 0; or there is none; or total rows are asked for in all.             *)
Relates(table, offset, total, rows, answer) ==
  \/ total = 0 /\ rows = 0 /\ answer = 0
  \/ total = 0 /\ rows > 0 /\ offset = 0 /\ answer = table
  \/ 1 <= rows /\ rows <= total /\ answer = Answered(table, offset, total)

Sized(q) ==
  IF q.kind = "scroller"
  THEN Relates(q.table, q.offset, q.total_rows, q.row_count, AnswerSize(q))
  ELSE q.offset = 0 /\ AnswerSize(q) = q.table

LEMMA CountType ==
  ASSUME NEW q \in Query PROVE Count(q) \in 0 .. MaxRows /\ AnswerSize(q) \in Nat
<1>1. /\ q.table \in Nat /\ q.offset \in Nat /\ q.max_rows \in 0 .. MaxRows
      /\ q.limit = NoLimit \/ q.limit \in 0 .. MaxRows
  <2>1. q.offset \in Offsets /\ q.limit \in Limits \cup {NoLimit} /\ q.max_rows \in Limits
        /\ q.table \in 0 .. MaxRows
    BY DEF Query
  <2> QED BY <2>1, Constants
<1>2. Count(q) \in 0 .. MaxRows
  BY <1>1, Constants DEF Count, MinOf
<1>3. q.table \in Int /\ q.offset \in Int /\ Count(q) \in Int
  BY <1>1, <1>2
<1>4. AnswerSize(q) \in Nat
  BY <1>3, AnsweredType DEF AnswerSize
<1> QED BY <1>2, <1>4

LEMMA ScrollerSized ==
  ASSUME array_size \in 1 .. MaxArray, NEW q \in Queries, q.kind = "scroller",
         NEW selected \in Prefetch
  PROVE  LET f == Scroller(q, selected) IN
         /\ f \in Query /\ f.kind = "scroller" /\ f.table = q.table /\ f.offset = q.offset
         /\ f.bad = q.bad /\ Sized(f)
<1> DEFINE total == IF q.limit = NoLimit THEN q.max_rows
                    ELSE IF q.max_rows > 0 THEN MinOf(q.limit, q.max_rows) ELSE q.limit
           number == PrefetchNumber(selected, array_size, q.max_rows)
           rows == IF q.limit # NoLimit /\ number > total THEN total ELSE number
           f == Scroller(q, selected)
<1>1. f = [q EXCEPT !.total_rows = total, !.row_count = rows]
  BY DEF Scroller
<1>2. number \in Nat \ {0} /\ (q.max_rows > 0 => number <= q.max_rows)
  <2>1. selected \in Nat \ {0} /\ array_size \in Nat \ {0} /\ q.max_rows \in Nat
    BY QueryTypes, Constants
  <2> QED BY <2>1, PrefetchSize
<1> HIDE DEF number, f
<1>3. total \in 0 .. MaxRows
  BY QueryTypes, Constants DEF MinOf
<1>4. rows \in Nat
  BY <1>2, <1>3
<1> HIDE DEF rows
<1>5. /\ f \in Query /\ f.kind = "scroller" /\ f.table = q.table /\ f.offset = q.offset
      /\ f.bad = q.bad /\ f.limit = q.limit /\ f.max_rows = q.max_rows
      /\ f.total_rows = total /\ f.row_count = rows
  <2>1. q \in Query /\ total \in Nat /\ rows \in Nat
    BY <1>3, <1>4, QueryTypes
  <2> HIDE DEF total
  <2> QED BY <1>1, <2>1 DEF Query
<1>6. Count(f) = IF q.limit = NoLimit /\ q.max_rows = 0 THEN MaxRows ELSE total
  BY <1>5, QueryTypes DEF Count
<1>7. AnswerSize(f) = Answered(q.table, q.offset, Count(f))
  BY <1>5 DEF AnswerSize
<1>8. Sized(f)
  <2>1. CASE q.limit = NoLimit /\ q.max_rows = 0
    <3>1. total = 0 /\ rows > 0 /\ q.offset = 0
      BY <1>2, <2>1, QueryTypes DEF rows
    <3>2. Answered(q.table, 0, MaxRows) = q.table
      BY QueryTypes, Constants DEF Answered, MaxOf, MinOf
    <3> QED BY <1>5, <1>6, <1>7, <2>1, <3>1, <3>2 DEF Sized, Relates
  <2>2. CASE ~(q.limit = NoLimit /\ q.max_rows = 0) /\ total = 0
    <3>1. rows = 0
      BY <1>2, <2>2, QueryTypes DEF rows, MinOf
    <3>2. Answered(q.table, q.offset, 0) = 0
      BY QueryTypes DEF Answered, MaxOf, MinOf
    <3> QED BY <1>5, <1>6, <1>7, <2>2, <3>1, <3>2 DEF Sized, Relates
  <2>3. CASE ~(q.limit = NoLimit /\ q.max_rows = 0) /\ total # 0
    <3>1. 1 <= rows /\ rows <= total
      BY <1>2, <1>3, <2>3, QueryTypes DEF rows, MinOf
    <3> QED BY <1>5, <1>6, <1>7, <2>3, <3>1 DEF Sized, Relates
  <2> QED BY <2>1, <2>2, <2>3
<1> QED BY <1>5, <1>8 DEF f

-----------------------------------------------------------------------------
(* Types *)
LEMMA TargetType ==
  ASSUME StmtTypes, NEW r \in Requests PROVE Target(r[1], r[2]) \in Int /\ NumRows \in Int
<1>1. r[2] \in Int
  BY Constants DEF Requests
<1>2. r[1] \in {"next", "prior", "first", "last", "absolute", "relative", "bookmark"}
  BY DEF Requests
<1>3. /\ chunk.size \in Int /\ data_cursor \in Int /\ next_offset \in Int
      /\ query.row_count \in Int /\ current_row \in Int /\ rows_found_in_set \in Int
      /\ array_size \in Int
  BY Constants DEF StmtTypes, Query, Positions, Null, Freed
<1>4. NumRows \in Int
  BY <1>3 DEF NumRows
<1> HIDE DEF NumRows
<1> QED BY <1>1, <1>2, <1>3, <1>4 DEF Target

Codes == {"none", "success", "info", "error", "no_data"}
Statuses == [1 .. MaxArray -> {"none", "ok", "error", "norow"}]

LEMMA CallIs ==
  Call = [rows : Seq(Nat), want : Nat, array : 1 .. MaxArray, save : Positions,
          stop : BOOLEAN, failed : BOOLEAN, rc : Codes, status : Statuses]
BY DEF Call, Positions, Codes, Statuses

LEMMA CallFields ==
  ASSUME NEW c \in Call
  PROVE  /\ c.rows \in Seq(Nat) /\ Len(c.rows) \in Nat /\ c.want \in Nat
         /\ c.array \in 1 .. MaxArray /\ c.save \in Positions
         /\ c.stop \in BOOLEAN /\ c.failed \in BOOLEAN
         /\ c.rc \in Codes /\ c.status \in Statuses
BY CallIs

\* A fetch begins, and may be over at once.
LEMMA CallBegins ==
  ASSUME NEW c \in Call, NEW rc \in Codes, NEW want \in Nat, NEW array \in 1 .. MaxArray,
         NEW save \in Positions
  PROVE  /\ [c EXCEPT !.rc = rc, !.rows = <<>>, !.failed = FALSE] \in Call
         /\ [c EXCEPT !.rc = rc, !.rows = <<>>, !.stop = FALSE, !.failed = FALSE,
                      !.want = want, !.array = array, !.save = save] \in Call
<1>1. <<>> \in Seq(Nat)
  OBVIOUS
<1> QED BY <1>1, CallIs

LEMMA CallReads ==
  ASSUME NEW c \in Call, NEW row \in Nat, NEW status \in Statuses, NEW save \in Positions
  PROVE  /\ [c EXCEPT !.rows = Append(c.rows, row), !.status = status] \in Call
         /\ [c EXCEPT !.rows = Append(c.rows, row), !.save = save, !.status = status] \in Call
<1>1. Append(c.rows, row) \in Seq(Nat)
  BY CallFields
<1> QED BY <1>1, CallIs

LEMMA CallStops ==
  ASSUME NEW c \in Call, NEW save \in Positions
  PROVE  /\ [c EXCEPT !.stop = TRUE] \in Call
         /\ [c EXCEPT !.stop = TRUE, !.save = save] \in Call
BY CallIs

LEMMA CallReturns ==
  ASSUME NEW c \in Call, NEW rc \in Codes, NEW failed \in BOOLEAN, NEW status \in Statuses
  PROVE  [c EXCEPT !.rc = rc, !.failed = failed, !.want = 0, !.save = Null, !.stop = FALSE,
                   !.status = status] \in Call
<1>1. Null \in Positions /\ 0 \in Nat
  BY DEF Positions
<1> QED BY <1>1, CallIs

LEMMA OutlivedType == \A p : Outlived(p) \in {Null, Freed} /\ Outlived(p) \in Positions
BY DEF Outlived, Positions

LEMMA SeekType ==
  ASSUME StmtTypes, NEW t \in Nat, Seek(t)
  PROVE  /\ query.kind # "stream" => data_cursor' \in Nat \cup {Freed}
         /\ query.kind = "stream" => data_cursor' = data_cursor
BY DEF StmtTypes, Seek, Positions, Null, Freed, MinOf

LEMMA ChunkCountType ==
  ASSUME StmtTypes, ~(LastChunk(next_offset) /\ Remaining(next_offset) <= 0)
  PROVE  ChunkCount(next_offset) \in Nat
<1>1. query.total_rows \in Nat /\ query.offset \in Nat
  BY Constants DEF StmtTypes, Query
<1>2. next_offset \in Nat /\ limit_count \in Nat
  BY DEF StmtTypes
<1> HIDE DEF LastChunk
<1> QED BY <1>1, <1>2 DEF ChunkCount, Remaining

LEMMA StatusType ==
  ASSUME NEW c \in Call, NEW row \in Int
  PROVE  [c.status EXCEPT ![Len(c.rows) + 1] = IF row = query.bad THEN "error" ELSE "ok"]
           \in Statuses
<1>1. c.status \in Statuses
  BY CallFields
<1> QED BY <1>1 DEF Statuses

LEMMA InitTypes == Init => TypeInv
<1> SUFFICES ASSUME Init PROVE TypeInv
  OBVIOUS
<1>1. StmtTypes
  BY Nothing, Constants DEF Init, StmtTypes, Positions
<1>2. query.kind = "none" /\ pc = "idle"
  BY DEF Init, NoQuery
<1> QED BY <1>1, <1>2, Nothing, Types DEF Init, TypeInv, Typed

LEMMA ExecuteTypes ==
  ASSUME TypeInv, NEW q \in Queries, NEW selected \in Prefetch, Execute(q, selected)
  PROVE  TypeInv'
<1> DEFINE full == IF q.kind = "scroller" THEN Scroller(q, selected) ELSE q
           count == IF q.kind = "scroller" THEN full.row_count ELSE Count(q)
<1>1. StmtTypes /\ pc = "idle" /\ fault \in BOOLEAN
  BY Types DEF TypeInv, Execute
<1>2. full \in Query /\ full.row_count \in Nat /\ count \in Nat
  <2>1. full \in Query
    BY <1>1, QueryTypes, ScrollerSized DEF StmtTypes
  <2>2. full.row_count \in Nat
    BY <2>1 DEF Query
  <2>3. Count(q) \in Nat
    BY QueryTypes, CountType, Constants
  <2> HIDE DEF full
  <2> QED BY <2>1, <2>2, <2>3
<1>3. /\ query' = full
      /\ chunk' = [base |-> q.offset, size |-> Answered(q.table, q.offset, count)]
      /\ next_offset' = IF q.kind = "scroller" THEN q.offset + full.row_count ELSE 0
      /\ limit_count' = IF q.kind = "scroller" THEN full.row_count ELSE 0
      /\ current_row' = 0 /\ rows_found_in_set' = 0 /\ data_cursor' = 0
      /\ call' = NoCall /\ errno' = "none"
      /\ UNCHANGED <<end_of_set, array_size, pc, fault>>
  BY DEF Execute
<1> HIDE DEF full, count
<1>4. q.offset \in Nat /\ q.table \in Nat
  BY QueryTypes, Constants
<1>5. chunk' \in [base : Nat, size : Nat]
  <2>1. q.table \in Int /\ q.offset \in Int /\ count \in Int
    BY <1>2, <1>4
  <2>2. Answered(q.table, q.offset, count) \in Nat
    BY <2>1, AnsweredType
  <2> QED BY <1>3, <1>4, <2>2
<1>6. StmtTypes'
  <2>1. next_offset' \in Nat /\ limit_count' \in Nat
    BY <1>2, <1>3, <1>4
  <2> QED BY <1>1, <1>2, <1>3, <1>5, <2>1 DEF StmtTypes, Positions
<1> QED BY <1>1, <1>3, <1>6, Nothing, TypesNext DEF TypeInv, Typed

LEMMA FetchTypes ==
  ASSUME TypeInv, NEW r \in Requests, Fetch(r[1], r[2]) PROVE TypeInv'
<1> DEFINE t == Target(r[1], r[2])
<1>1. StmtTypes /\ pc = "idle" /\ call \in Call /\ errno \in {"none", "lost", "other"}
      /\ fault \in BOOLEAN /\ (query.kind = "stream" => data_cursor \in Nat)
  BY Types DEF TypeInv, Typed, Fetch
<1>2. t \in Int /\ NumRows \in Int /\ chunk.size \in Nat /\ array_size \in 1 .. MaxArray
      /\ (query.kind = "stored" => NumRows = chunk.size)
  BY <1>1, TargetType DEF StmtTypes, NumRows
<1>3. /\ FetchBeforeFirst(t) \/ FetchAfterLast(t) \/ FetchRows(t)
      /\ UNCHANGED <<query, chunk, end_of_set, array_size, next_offset, limit_count,
                     errno, fault>>
  BY DEF Fetch
<1> HIDE DEF t
<1>4. CASE FetchBeforeFirst(t)
  <2>1. current_row' = -1 /\ rows_found_in_set' = 0 /\ data_cursor' = 0 /\ pc' = pc
        /\ call' = [call EXCEPT !.rc = "no_data", !.rows = <<>>, !.failed = FALSE]
    BY <1>4 DEF FetchBeforeFirst
  <2>2. call' \in Call
    BY <1>1, <1>2, <2>1, CallBegins DEF Codes, Positions
  <2>3. StmtTypes'
    BY <1>1, <1>3, <2>1 DEF StmtTypes, Positions
  <2> QED BY <1>1, <1>3, <2>1, <2>2, <2>3, TypesNext DEF TypeInv, Typed
<1>5. CASE FetchAfterLast(t)
  <2>1. current_row' = chunk.size /\ rows_found_in_set' = 0 /\ Seek(chunk.size) /\ pc' = pc
        /\ query.kind = "stored"
        /\ call' = [call EXCEPT !.rc = "no_data", !.rows = <<>>, !.failed = FALSE]
    BY <1>2, <1>5 DEF FetchAfterLast
  <2>2. call' \in Call
    BY <1>1, <1>2, <2>1, CallBegins DEF Codes, Positions
  <2>3. data_cursor' \in Nat \cup {Freed}
    BY <1>1, <1>2, <2>1, SeekType
  <2>4. StmtTypes'
    BY <1>1, <1>2, <1>3, <2>1, <2>3 DEF StmtTypes, Positions
  <2> QED BY <1>1, <1>3, <2>1, <2>2, <2>4, TypesNext DEF TypeInv, Typed
<1>6. CASE FetchRows(t)
  <2> DEFINE want == IF query.kind = "stored" THEN MinOf(NumRows - t, array_size)
                     ELSE array_size
  <2>1. /\ 0 <= t /\ (query.kind = "stored" => t < NumRows)
        /\ current_row' = t /\ Seek(t) /\ pc' = "reading" /\ rows_found_in_set' = rows_found_in_set
        /\ call' = [call EXCEPT !.rc = "none", !.rows = <<>>, !.stop = FALSE, !.failed = FALSE,
                      !.want = want, !.array = array_size, !.save = data_cursor']
    BY <1>6 DEF FetchRows
  <2>2. want \in Nat /\ t \in Nat
    BY <1>2, <2>1 DEF MinOf
  <2>3. data_cursor' \in Nat \cup {Freed} /\ (query.kind = "stream" => data_cursor' \in Nat)
    BY <1>1, <2>1, <2>2, SeekType
  <2> HIDE DEF want
  <2>4. call' \in Call
    <3>1. PICK d \in Nat \cup {Freed} : d = data_cursor'
      BY <2>3
    <3>2. d \in Positions /\ "none" \in Codes
      BY DEF Positions, Codes
    <3> QED BY <1>1, <1>2, <2>1, <2>2, <3>1, <3>2, CallBegins
  <2>5. StmtTypes'
    BY <1>1, <1>3, <2>1, <2>2, <2>3 DEF StmtTypes, Positions
  <2> QED BY <1>1, <1>3, <2>1, <2>3, <2>4, <2>5, TypesNext DEF TypeInv, Typed
<1> QED BY <1>3, <1>4, <1>5, <1>6

LEMMA ReadRowTypes ==
  ASSUME TypeInv, ReadRow PROVE TypeInv'
<1> DEFINE row == chunk.base + data_cursor + 1
           status == [call.status EXCEPT ![Len(call.rows) + 1] =
                        IF row = query.bad THEN "error" ELSE "ok"]
<1>1. StmtTypes /\ pc = "reading" /\ call \in Call /\ errno \in {"none", "lost", "other"}
      /\ fault \in BOOLEAN /\ data_cursor \in Nat
  BY Types DEF TypeInv, Typed, ReadRow, Reading, AtEnd
<1>2. row \in Nat
  BY <1>1 DEF StmtTypes
<1>3. /\ data_cursor' = data_cursor + 1
      /\ call' = [call EXCEPT !.rows = Append(call.rows, row), !.status = status]
      /\ UNCHANGED <<query, chunk, end_of_set, current_row, rows_found_in_set, array_size,
                     next_offset, limit_count, pc, errno, fault>>
  BY DEF ReadRow
<1>4. call' \in Call
  <2>1. status \in Statuses
    BY <1>1, <1>2, StatusType
  <2> HIDE DEF status, row
  <2>2. Null \in Positions
    BY DEF Positions
  <2> QED BY <1>1, <1>2, <1>3, <2>1, <2>2, CallReads
<1>5. StmtTypes'
  BY <1>1, <1>3 DEF StmtTypes, Positions
<1> QED BY <1>1, <1>3, <1>4, <1>5, TypesNext DEF TypeInv, Typed

LEMMA NextChunkTypes ==
  ASSUME TypeInv, NextChunk PROVE TypeInv'
<1> DEFINE count == ChunkCount(next_offset)
           size == Answered(query.table, next_offset, count)
           row == next_offset + 1
           status == [call.status EXCEPT ![Len(call.rows) + 1] =
                        IF row = query.bad THEN "error" ELSE "ok"]
<1>1. /\ StmtTypes /\ pc = "reading" /\ call \in Call /\ fault \in BOOLEAN
      /\ query.kind = "scroller" /\ next_offset \in Nat
      /\ ~(LastChunk(next_offset) /\ Remaining(next_offset) <= 0)
  BY Types DEF TypeInv, NextChunk, ScrollerMoves, Reading, StmtTypes
<1>2. count \in Nat /\ size \in Nat /\ row \in Nat /\ query.row_count \in Nat
  <2>1. count \in Nat
    BY <1>1, ChunkCountType
  <2>2. query.table \in Nat /\ query.row_count \in Nat
    BY <1>1, Constants DEF StmtTypes, Query
  <2> HIDE DEF count
  <2>3. query.table \in Int /\ next_offset \in Int /\ count \in Int
    BY <1>1, <2>1, <2>2
  <2>4. size \in Nat
    BY <2>3, AnsweredType
  <2> QED BY <1>1, <2>1, <2>2, <2>4
<1>3. /\ next_offset' = next_offset + query.row_count /\ limit_count' = count
      /\ chunk' = [base |-> next_offset, size |-> size]
      /\ end_of_set' = Outlived(end_of_set) /\ errno' = "none"
      /\ UNCHANGED <<query, current_row, rows_found_in_set, array_size, pc, fault>>
      /\ \/ /\ data_cursor' = 0
            /\ call' = [call EXCEPT !.stop = TRUE, !.save = Outlived(call.save)]
         \/ /\ data_cursor' = 1
            /\ call' = [call EXCEPT !.rows = Append(call.rows, row), !.save = 1,
                                    !.status = status]
  BY DEF NextChunk
<1>4. status \in Statuses
  BY <1>1, <1>2, StatusType
<1> HIDE DEF count, size, row, status
<1>5. call' \in Call
  <2>1. [call EXCEPT !.stop = TRUE, !.save = Outlived(call.save)] \in Call
    BY <1>1, OutlivedType, CallStops
  <2>2. [call EXCEPT !.rows = Append(call.rows, row), !.save = 1, !.status = status] \in Call
    <3>1. 1 \in Positions
      BY DEF Positions
    <3> QED BY <1>1, <1>2, <1>4, <3>1, CallReads
  <2> QED BY <1>3, <2>1, <2>2
<1>6. StmtTypes'
  BY <1>1, <1>2, <1>3, OutlivedType DEF StmtTypes, Positions
<1>7. data_cursor' \in Nat
  BY <1>3
<1> QED BY <1>1, <1>3, <1>5, <1>6, <1>7, TypesNext DEF TypeInv, Typed

LEMMA FetchReturnsTypes ==
  ASSUME TypeInv, FetchReturns PROVE TypeInv'
<1> DEFINE status == [i \in 1 .. MaxArray |->
                        IF i \in Len(call.rows) + 1 .. call.array
                        THEN RestStatus(i) ELSE call.status[i]]
<1>1. StmtTypes /\ call \in Call /\ errno \in {"none", "lost", "other"} /\ fault \in BOOLEAN
      /\ (query.kind = "stream" => data_cursor \in Nat)
  BY Types DEF TypeInv, Typed
<1>2. /\ rows_found_in_set' = Len(call.rows)
      /\ \/ UNCHANGED <<end_of_set, data_cursor>>
         \/ query.kind # "stream" /\ end_of_set' = data_cursor /\ data_cursor' = call.save
      /\ call' = [call EXCEPT !.rc = ReturnCode(Result), !.failed = (Result = "error"),
                    !.want = 0, !.save = Null, !.stop = FALSE, !.status = status]
      /\ pc' = "idle"
      /\ UNCHANGED <<query, chunk, current_row, array_size, next_offset, limit_count,
                     errno, fault>>
  BY DEF FetchReturns
<1>3. status \in Statuses
  BY <1>1, CallFields DEF Statuses, RestStatus
<1>4. Result \in Codes /\ ReturnCode(Result) \in Codes
  <2>1. Result \in Codes
    BY DEF Result, Codes
  <2> HIDE DEF Result
  <2> QED BY <2>1 DEF ReturnCode, Codes
<1> HIDE DEF status
<1>5. call' \in Call
  <2>1. PICK rc \in Codes : rc = ReturnCode(Result)
    BY <1>4
  <2>2. PICK failed \in BOOLEAN : failed = (Result = "error")
    OBVIOUS
  <2> QED BY <1>1, <1>2, <1>3, <2>1, <2>2, CallReturns
<1>6. StmtTypes'
  BY <1>1, <1>2, CallFields DEF StmtTypes
<1> QED BY <1>1, <1>2, <1>5, <1>6, TypesNext DEF TypeInv, Typed

LEMMA NextTypes == TypeInv /\ [Next]_vars => TypeInv'
<1> SUFFICES ASSUME TypeInv, [Next]_vars PROVE TypeInv'
  OBVIOUS
<1>0. /\ StmtTypes /\ pc \in {"idle", "reading"} /\ call \in Call
      /\ errno \in {"none", "lost", "other"} /\ fault \in BOOLEAN /\ Typed
  BY Types DEF TypeInv
<1>1. ASSUME NEW q \in Queries, NEW p \in Prefetch, Execute(q, p) PROVE TypeInv'
  BY <1>1, ExecuteTypes
<1>2. CASE CloseCursor
  <2>1. StmtTypes'
    <3>1. [base |-> 0, size |-> 0] \in [base : Nat, size : Nat]
      OBVIOUS
    <3>2. 0 \in Positions
      BY DEF Positions
    <3> QED BY <1>0, <1>2, <3>1, <3>2, Nothing, OutlivedType DEF CloseCursor, StmtTypes
  <2>2. query'.kind = "none" /\ pc' = "idle" /\ call' = NoCall /\ errno' = errno /\ fault' = fault
    BY <1>2 DEF CloseCursor, NoQuery
  <2> QED BY <1>0, <2>1, <2>2, Nothing, TypesNext DEF TypeInv, Typed
<1>3. ASSUME NEW n \in 1 .. MaxArray, SetArraySize(n) PROVE TypeInv'
  <2>1. StmtTypes'
    BY <1>0, <1>3 DEF SetArraySize, StmtTypes
  <2> QED BY <1>0, <1>3, <2>1, TypesNext DEF SetArraySize, TypeInv, Typed
<1>4. ASSUME NEW r \in Requests, Fetch(r[1], r[2]) PROVE TypeInv'
  BY <1>4, FetchTypes
<1>5. CASE ReadRow
  BY <1>5, ReadRowTypes
<1>6. CASE NoRow
  <2>1. StmtTypes' /\ call' \in Call
    BY <1>0, <1>6, CallStops, OutlivedType DEF NoRow, stmtVars, StmtTypes
  <2> QED BY <1>0, <1>6, <2>1, TypesNext DEF NoRow, stmtVars, TypeInv, Typed
<1>7. CASE NoMoreChunks
  <2>1. next_offset' \in Nat
    <3>1. query.row_count \in Nat /\ next_offset \in Nat
      BY <1>0 DEF StmtTypes, Query
    <3> QED BY <1>7, <3>1 DEF NoMoreChunks
  <2>2. StmtTypes' /\ call' \in Call
    BY <1>0, <1>7, <2>1, CallStops, OutlivedType DEF NoMoreChunks, StmtTypes
  <2> QED BY <1>0, <1>7, <2>2, TypesNext DEF NoMoreChunks, TypeInv, Typed
<1>8. CASE NextChunk
  BY <1>8, NextChunkTypes
<1>9. ASSUME NEW e \in {"lost", "other"}, StreamFails(e) PROVE TypeInv'
  <2>1. data_cursor \in Nat
    BY <1>0, <1>9 DEF StreamFails, Typed
  <2>2. chunk' \in [base : Nat, size : Nat]
    BY <1>0, <1>9, <2>1 DEF StreamFails, StmtTypes
  <2>3. StmtTypes' /\ call' \in Call
    BY <1>0, <1>9, <2>2, CallStops, OutlivedType DEF StreamFails, StmtTypes
  <2> QED BY <1>0, <1>9, <2>3, TypesNext DEF StreamFails, TypeInv, Typed
<1>10. ASSUME NEW e \in {"lost", "other"}, NextChunkFails(e) PROVE TypeInv'
  <2>1. next_offset' \in Nat /\ limit_count' \in Nat
    <3>1. query.row_count \in Nat /\ next_offset \in Nat
      BY <1>0 DEF StmtTypes, Query
    <3>2. ChunkCount(next_offset) \in Nat
      BY <1>0, <1>10, ChunkCountType DEF NextChunkFails
    <3> QED BY <1>10, <3>1, <3>2 DEF NextChunkFails
  <2>2. StmtTypes' /\ call' \in Call
    BY <1>0, <1>10, <2>1, CallStops, OutlivedType DEF NextChunkFails, StmtTypes
  <2> QED BY <1>0, <1>10, <2>2, TypesNext DEF NextChunkFails, TypeInv, Typed
<1>11. CASE FetchReturns
  BY <1>11, FetchReturnsTypes
<1>12. CASE UNCHANGED vars
  <2>1. StmtTypes'
    BY <1>0, <1>12 DEF vars, StmtTypes
  <2> QED BY <1>0, <1>12, <2>1, TypesNext DEF vars, TypeInv, Typed
<1> QED BY <1>1, <1>2, <1>3, <1>4, <1>5, <1>6, <1>7, <1>8, <1>9, <1>10, <1>11, <1>12 DEF Next

LEMMA TypeInvariance == Spec => []TypeInv
<1> QED BY InitTypes, NextTypes, PTL DEF Spec

(* Every variable keeps its type, whatever the application and the server  *)
(* do: no row is read at a null position, and no chunk has a negative size.*)
THEOREM TypeCorrect == Spec => []TypeOK
<1>1. TypeInv => TypeOK
  BY DEF TypeInv
<1> QED BY <1>1, TypeInvariance, PTL

-----------------------------------------------------------------------------
(* What holds also of a server that answers with errors *)
Found == Len(call.rows)

\* The statuses of the rows that are there already
Told ==
  pc = "reading" =>
    /\ call.rc = "none" /\ Found <= call.want /\ call.want <= call.array
    /\ \A i \in 1 .. Found :
         call.status[i] = IF call.rows[i] = query.bad THEN "error" ELSE "ok"

TellInv == Told /\ StatusExact

LEMMA CallNumbers ==
  ASSUME TypeInv
  PROVE  /\ call \in Call /\ call.rows \in Seq(Nat) /\ Found \in Nat /\ call.want \in Nat
         /\ call.array \in Nat /\ call.array <= MaxArray /\ MaxArray \in Nat
         /\ call.status \in Statuses
<1>1. call \in Call
  BY Types DEF TypeInv
<1>2. /\ call.rows \in Seq(Nat) /\ Found \in Nat /\ call.want \in Nat
      /\ call.array \in 1 .. MaxArray /\ call.status \in Statuses
  BY <1>1, CallFields DEF Found
<1> QED BY <1>1, <1>2, Constants

\* A step that leaves the rows and their statuses alone
LEMMA SameStatuses ==
  ASSUME TellInv, call'.rows = call.rows, call'.status = call.status, call'.want = call.want,
         call'.array = call.array, call'.rc = call.rc, UNCHANGED <<query, pc>>
  PROVE  TellInv'
<1>1. Found' = Found
  BY DEF Found
<1>2. Told'
  BY <1>1 DEF TellInv, Told
<1>3. StatusExact'
  BY DEF TellInv, StatusExact
<1> QED BY <1>2, <1>3 DEF TellInv

\* ... or stops the fetch
LEMMA StopTells ==
  ASSUME TypeInv, TellInv, NEW save, UNCHANGED <<query, pc>>,
         call' \in {[call EXCEPT !.stop = TRUE], [call EXCEPT !.stop = TRUE, !.save = save]}
  PROVE  TellInv'
<1>1. call \in Call
  BY CallNumbers
<1>2. /\ call'.rows = call.rows /\ call'.status = call.status /\ call'.want = call.want
      /\ call'.array = call.array /\ call'.rc = call.rc
  BY <1>1 DEF Call
<1> QED BY <1>2, SameStatuses

\* A fetch begins, or nothing is fetched.
LEMMA NoRowsTold ==
  ASSUME call'.rows = <<>>, call'.rc \notin {"success", "info"},
         pc' = "reading" => /\ call'.rc = "none"
                            /\ call'.want \in Nat /\ call'.want <= call'.array
  PROVE  TellInv'
<1>1. Found' = 0
  BY DEF Found
<1>2. Told'
  BY <1>1 DEF Told
<1>3. StatusExact'
  BY DEF StatusExact
<1> QED BY <1>2, <1>3 DEF TellInv

\* A row is read: its status is written.
LEMMA RowTold ==
  ASSUME TypeInv, TellInv, Reading, NEW row,
         call'.rows = Append(call.rows, row),
         call'.status = [call.status EXCEPT ![Len(call.rows) + 1] =
                           IF row = query.bad THEN "error" ELSE "ok"],
         call'.want = call.want, call'.array = call.array, call'.rc = call.rc,
         UNCHANGED <<query, pc>>, row \in Nat
  PROVE  TellInv'
<1>1. /\ call.rows \in Seq(Nat) /\ Found \in Nat /\ call.want \in Nat /\ call.array \in Nat
      /\ call.array <= MaxArray /\ MaxArray \in Nat /\ call \in Call /\ call.status \in Statuses
  BY CallNumbers
<1>2. pc = "reading" /\ Found < call.want /\ call.rc = "none" /\ call.want <= call.array
  BY DEF Reading, Found, TellInv, Told
<1>3. /\ call'.rows = Append(call.rows, row)
      /\ call'.status = [call.status EXCEPT ![Found + 1] =
                           IF row = query.bad THEN "error" ELSE "ok"]
  BY DEF Found
<1>4. Found' = Found + 1 /\ call'.rows[Found + 1] = row
      /\ \A i \in 1 .. Found : call'.rows[i] = call.rows[i]
  BY <1>1, <1>3 DEF Found
<1>5. Found + 1 \in 1 .. MaxArray /\ Found + 1 <= call.want
  BY <1>1, <1>2
<1>6. call'.status[Found + 1] = IF row = query.bad THEN "error" ELSE "ok"
  BY <1>1, <1>3, <1>5 DEF Statuses
<1>7. \A i \in 1 .. Found :
        call'.status[i] = IF call'.rows[i] = query.bad THEN "error" ELSE "ok"
  <2> TAKE i \in 1 .. Found
  <2>1. i \in 1 .. MaxArray /\ i # Found + 1
    BY <1>1, <1>5
  <2>2. call'.status[i] = call.status[i]
    BY <1>1, <1>3, <2>1 DEF Statuses
  <2> QED BY <1>2, <1>4, <2>2 DEF TellInv, Told
<1>8. \A i \in 1 .. Found + 1 :
        call'.status[i] = IF call'.rows[i] = query.bad THEN "error" ELSE "ok"
  <2> TAKE i \in 1 .. Found + 1
  <2>1. i \in 1 .. Found \/ i = Found + 1
    BY <1>1
  <2> QED BY <1>4, <1>6, <1>7, <2>1
<1>9. Told'
  BY <1>2, <1>4, <1>5, <1>8 DEF Told
<1>10. StatusExact'
  BY <1>2 DEF StatusExact
<1> QED BY <1>9, <1>10 DEF TellInv

\* The fetch is over: the rest of the status array is filled in.
LEMMA ReturnTells ==
  ASSUME TypeInv, TellInv, FetchReturns PROVE TellInv'
<1> DEFINE status == [i \in 1 .. MaxArray |->
                        IF i \in Len(call.rows) + 1 .. call.array
                        THEN RestStatus(i) ELSE call.status[i]]
<1>1. /\ pc = "reading" /\ pc' = "idle" /\ query' = query
      /\ call' = [call EXCEPT !.rc = ReturnCode(Result), !.failed = (Result = "error"),
                    !.want = 0, !.save = Null, !.stop = FALSE, !.status = status]
  BY DEF FetchReturns
<1>2. /\ Found \in Nat /\ call.array \in Nat /\ call.array <= MaxArray /\ MaxArray \in Nat
      /\ call \in Call
  BY CallNumbers
<1>3. \A i \in 1 .. Found :
        call.status[i] = IF call.rows[i] = query.bad THEN "error" ELSE "ok"
  BY <1>1 DEF TellInv, Told
<1> HIDE DEF status
<1>4. /\ call'.rows = call.rows /\ call'.array = call.array /\ call'.rc = ReturnCode(Result)
      /\ call'.status = status
  <2> HIDE DEF Result, ReturnCode
  <2> QED BY <1>1, <1>2 DEF Call
<1>5. call'.rc \in {"success", "info"} => Found = call.array \/ errno # "lost"
  BY <1>4 DEF ReturnCode, Found
<1>6. StatusExact'
  <2> SUFFICES ASSUME call'.rc \in {"success", "info"}, NEW i \in 1 .. call.array
               PROVE  status[i] = IF i > Found THEN "norow"
                                  ELSE IF call.rows[i] = query.bad THEN "error" ELSE "ok"
    BY <1>1, <1>4 DEF StatusExact, Found
  <2>1. i \in 1 .. MaxArray
    BY <1>2
  <2>2. CASE i > Found
    <3>1. i \in Len(call.rows) + 1 .. call.array
      BY <1>2, <2>2 DEF Found
    <3>2. errno # "lost"
      BY <1>2, <1>5, <2>2
    <3> QED BY <2>1, <2>2, <3>1, <3>2 DEF status, RestStatus
  <2>3. CASE ~(i > Found)
    <3>1. i \in 1 .. Found /\ i \notin Len(call.rows) + 1 .. call.array
      BY <1>2, <2>3 DEF Found
    <3>2. status[i] = call.status[i]
      BY <2>1, <3>1 DEF status
    <3> QED BY <1>3, <2>3, <3>1, <3>2
  <2> QED BY <2>2, <2>3
<1> QED BY <1>1, <1>6 DEF TellInv, Told

LEMMA FetchTells ==
  ASSUME TypeInv, NEW r \in Requests, Fetch(r[1], r[2]) PROVE TellInv'
<1> DEFINE t == Target(r[1], r[2])
<1>1. /\ pc = "idle" /\ call \in Call /\ StmtTypes
      /\ FetchBeforeFirst(t) \/ FetchAfterLast(t) \/ FetchRows(t)
  BY Types DEF Fetch, TypeInv
<1>2. t \in Int /\ NumRows \in Int /\ array_size \in Nat
  BY <1>1, TargetType DEF StmtTypes
<1> HIDE DEF t
<1>3. CASE FetchBeforeFirst(t) \/ FetchAfterLast(t)
  <2>1. call'.rows = <<>> /\ call'.rc = "no_data" /\ pc' = "idle"
    BY <1>1, <1>3 DEF FetchBeforeFirst, FetchAfterLast, Call
  <2> QED BY <2>1, NoRowsTold
<1>4. CASE FetchRows(t)
  <2> DEFINE want == IF query.kind = "stored" THEN MinOf(NumRows - t, array_size)
                     ELSE array_size
  <2>1. /\ call' = [call EXCEPT !.rc = "none", !.rows = <<>>, !.stop = FALSE, !.failed = FALSE,
                      !.want = want, !.array = array_size, !.save = data_cursor']
        /\ query.kind = "stored" => t < NumRows
    BY <1>4 DEF FetchRows
  <2>2. want \in Nat /\ want <= array_size
    <3>1. CASE query.kind = "stored"
      <4>1. want = MinOf(NumRows - t, array_size)
        BY <3>1
      <4> HIDE DEF want
      <4> QED BY <1>2, <2>1, <3>1, <4>1 DEF MinOf
    <3>2. CASE query.kind # "stored"
      BY <1>2, <3>2
    <3> QED BY <3>1, <3>2
  <2> HIDE DEF want
  <2>3. call'.rows = <<>> /\ call'.rc = "none" /\ call'.want = want /\ call'.array = array_size
    BY <1>1, <2>1 DEF Call
  <2> QED BY <2>2, <2>3, NoRowsTold
<1> QED BY <1>1, <1>3, <1>4

LEMMA NextTells == TypeInv /\ TellInv /\ [Next]_vars => TellInv'
<1> SUFFICES ASSUME TypeInv, TellInv, [Next]_vars PROVE TellInv'
  OBVIOUS
<1>1. ASSUME NEW q \in Queries, NEW p \in Prefetch, Execute(q, p) PROVE TellInv'
  BY <1>1, NoRowsTold DEF Execute, NoCall
<1>2. CASE CloseCursor
  BY <1>2, NoRowsTold DEF CloseCursor, NoCall
<1>3. ASSUME NEW n \in 1 .. MaxArray, SetArraySize(n) PROVE TellInv'
  BY <1>3, SameStatuses DEF SetArraySize
<1>4. ASSUME NEW r \in Requests, Fetch(r[1], r[2]) PROVE TellInv'
  BY <1>4, FetchTells
<1>5. CASE ReadRow
  <2>1. chunk.base + data_cursor + 1 \in Nat
    <3>1. chunk.base \in Nat /\ data_cursor \in Nat
      BY <1>5, Types DEF ReadRow, Reading, AtEnd, TypeInv, Typed, StmtTypes
    <3> QED BY <3>1
  <2> DEFINE row == chunk.base + data_cursor + 1
             status == [call.status EXCEPT ![Len(call.rows) + 1] =
                          IF row = query.bad THEN "error" ELSE "ok"]
  <2>2. /\ Reading /\ UNCHANGED <<query, pc>>
        /\ call' = [call EXCEPT !.rows = Append(call.rows, row), !.status = status]
    BY <1>5 DEF ReadRow
  <2> HIDE DEF row
  <2>3. row \in Nat
    BY <2>1 DEF row
  <2> HIDE DEF status
  <2>4. /\ call'.rows = Append(call.rows, row) /\ call'.status = status
        /\ call'.want = call.want /\ call'.array = call.array /\ call'.rc = call.rc
    BY <2>2, CallNumbers DEF Call
  <2> QED BY <2>2, <2>3, <2>4, RowTold DEF status
<1>6. CASE NoRow \/ NoMoreChunks
  BY <1>6, StopTells DEF NoRow, NoMoreChunks, stmtVars
<1>7. CASE NextChunk
  <2>1. Reading /\ query' = query /\ pc' = pc /\ next_offset + 1 \in Nat
    BY <1>7, Types DEF NextChunk, ScrollerMoves, TypeInv, StmtTypes
  <2> DEFINE row == next_offset + 1
             status == [call.status EXCEPT ![Len(call.rows) + 1] =
                          IF row = query.bad THEN "error" ELSE "ok"]
  <2>2. \/ call' = [call EXCEPT !.stop = TRUE, !.save = Outlived(call.save)]
        \/ call' = [call EXCEPT !.rows = Append(call.rows, row), !.save = 1,
                                !.status = status]
    BY <1>7 DEF NextChunk
  <2>3. row \in Nat
    BY <2>1
  <2> HIDE DEF row
  <2>4. CASE call' = [call EXCEPT !.stop = TRUE, !.save = Outlived(call.save)]
    BY <2>1, <2>4, StopTells
  <2>5. CASE call' = [call EXCEPT !.rows = Append(call.rows, row), !.save = 1,
                                 !.status = status]
    <3>1. call \in Call
      BY CallNumbers
    <3> HIDE DEF status
    <3>2. /\ call'.rows = Append(call.rows, row) /\ call'.status = status
          /\ call'.want = call.want /\ call'.array = call.array /\ call'.rc = call.rc
      BY <2>5, <3>1 DEF Call
    <3>3. Reading /\ UNCHANGED <<query, pc>>
      BY <2>1
    <3> QED BY <2>3, <3>2, <3>3, RowTold DEF status
  <2> QED BY <2>2, <2>4, <2>5
<1>8. ASSUME NEW e \in {"lost", "other"}, StreamFails(e) \/ NextChunkFails(e) PROVE TellInv'
  BY <1>8, StopTells DEF StreamFails, NextChunkFails
<1>9. CASE FetchReturns
  BY <1>9, ReturnTells
<1>10. CASE UNCHANGED vars
  BY <1>10, SameStatuses DEF vars
<1> QED BY <1>1, <1>2, <1>3, <1>4, <1>5, <1>6, <1>7, <1>8, <1>9, <1>10 DEF Next

(* The status array tells the rows converted, those that were not, and no  *)
(* other, whatever the application and the server do.                      *)
THEOREM RowStatuses == Spec => []StatusExact
<1>1. Init => TellInv
  <2> SUFFICES ASSUME Init PROVE TellInv
    OBVIOUS
  <2>1. call.rc = "none" /\ pc = "idle"
    BY DEF Init, NoCall
  <2> QED BY <2>1 DEF TellInv, Told, StatusExact
<1>2. TellInv => StatusExact
  BY DEF TellInv
<1> QED BY <1>1, <1>2, TypeInvariance, NextTells, PTL DEF Spec

-----------------------------------------------------------------------------
(***************************************************************************)
(* Where row_seek goes on, the remembered end of the rowset is not one in  *)
(* rows that a new chunk has replaced: only after a failed fetch is it     *)
(* left from before, and then the careful application goes elsewhere.      *)
(***************************************************************************)
GoesOn ==
  /\ pc = "idle" /\ ~call.failed /\ query.kind # "stream"
  /\ 0 < current_row + rows_found_in_set
  /\ query.kind = "stored" => current_row + rows_found_in_set < chunk.size

MemInv ==
  /\ ~fault
  /\ pc = "reading" => data_cursor # Freed
  /\ GoesOn => end_of_set # Freed

LEMMA FetchMem ==
  ASSUME TypeInv, MemInv, "continue" \notin Practices, NEW r \in Requests, Fetch(r[1], r[2])
  PROVE  MemInv'
<1> DEFINE t == Target(r[1], r[2])
<1>1. /\ pc = "idle" /\ StmtTypes /\ Careful(t) /\ ~fault
      /\ FetchBeforeFirst(t) \/ FetchAfterLast(t) \/ FetchRows(t)
      /\ UNCHANGED <<query, chunk, end_of_set, fault>>
  BY Types DEF Fetch, TypeInv, MemInv
<1>2. t \in Int
  BY <1>1, TargetType
<1> HIDE DEF t
<1>3. query.kind = "stored" => NumRows = chunk.size
  BY DEF NumRows
<1>4. chunk.size \in Nat
  BY <1>1 DEF StmtTypes
<1>5. CASE FetchBeforeFirst(t)
  BY <1>1, <1>5 DEF FetchBeforeFirst, MemInv, GoesOn
<1>6. CASE FetchAfterLast(t)
  BY <1>1, <1>3, <1>4, <1>6 DEF FetchAfterLast, MemInv, GoesOn
<1>7. CASE FetchRows(t)
  <2>1. /\ 0 <= t /\ (query.kind = "stored" => t < chunk.size)
        /\ Seek(t) /\ pc' = "reading"
    BY <1>3, <1>7 DEF FetchRows
  <2>2. CASE query.kind = "stream"
    <3>1. data_cursor' = data_cursor /\ data_cursor \in Nat
      BY <2>1, <2>2 DEF Seek, TypeInv, Typed
    <3> QED BY <1>1, <2>1, <3>1 DEF MemInv, GoesOn, Freed
  <2>3. CASE query.kind # "stream" /\ Sequential(t)
    <3>1. ~call.failed /\ t # 0 /\ t = current_row + rows_found_in_set
      BY <1>1, <2>3 DEF Careful, Sequential
    <3>2. GoesOn
      BY <1>1, <1>2, <2>1, <2>3, <3>1 DEF GoesOn
    <3>3. data_cursor' = IF end_of_set = Null THEN chunk.size ELSE end_of_set
      BY <2>1, <2>3 DEF Seek
    <3>4. data_cursor' # Freed
      BY <1>4, <3>2, <3>3 DEF MemInv, Freed
    <3> QED BY <1>1, <2>1, <3>4 DEF MemInv, GoesOn
  <2>4. CASE query.kind # "stream" /\ ~Sequential(t)
    <3>1. data_cursor' = MinOf(t, chunk.size)
      BY <2>1, <2>4 DEF Seek
    <3>2. data_cursor' # Freed
      BY <1>2, <1>4, <2>1, <3>1 DEF MinOf, Freed
    <3> QED BY <1>1, <2>1, <3>2 DEF MemInv, GoesOn
  <2> QED BY <2>2, <2>3, <2>4
<1> QED BY <1>1, <1>5, <1>6, <1>7

LEMMA ReturnsMem ==
  ASSUME TypeInv, MemInv, FetchReturns PROVE MemInv'
<1>1. /\ pc = "reading" /\ pc' = "idle" /\ UNCHANGED <<query, fault>> /\ call \in Call
      /\ Result # "error" /\ query.kind # "stream" => end_of_set' = data_cursor
  BY CallNumbers DEF FetchReturns
<1>2. call'.failed = (Result = "error")
  <2> DEFINE status == [i \in 1 .. MaxArray |->
                          IF i \in Len(call.rows) + 1 .. call.array
                          THEN RestStatus(i) ELSE call.status[i]]
  <2>1. call' = [call EXCEPT !.rc = ReturnCode(Result), !.failed = (Result = "error"),
                   !.want = 0, !.save = Null, !.stop = FALSE, !.status = status]
    BY DEF FetchReturns
  <2> HIDE DEF Result, ReturnCode, status
  <2> QED BY <1>1, <2>1 DEF Call
<1> HIDE DEF Result
<1>3. data_cursor # Freed /\ ~fault'
  BY <1>1 DEF MemInv
<1>4. GoesOn' => end_of_set' # Freed
  BY <1>1, <1>2, <1>3 DEF GoesOn
<1> QED BY <1>1, <1>3, <1>4 DEF MemInv

LEMMA NextMem ==
  ASSUME "continue" \notin Practices PROVE TypeInv /\ MemInv /\ [Next]_vars => MemInv'
<1> SUFFICES ASSUME TypeInv, MemInv, [Next]_vars PROVE MemInv'
  OBVIOUS
<1>1. ASSUME NEW q \in Queries, NEW p \in Prefetch, Execute(q, p) PROVE MemInv'
  <2>1. pc' = "idle" /\ current_row' + rows_found_in_set' = 0 /\ fault' = fault
    BY <1>1 DEF Execute
  <2> QED BY <2>1 DEF MemInv, GoesOn
<1>2. CASE CloseCursor
  BY <1>2 DEF CloseCursor, MemInv, GoesOn
<1>3. ASSUME NEW n \in 1 .. MaxArray, SetArraySize(n) PROVE MemInv'
  BY <1>3 DEF SetArraySize, MemInv, GoesOn
<1>4. ASSUME NEW r \in Requests, Fetch(r[1], r[2]) PROVE MemInv'
  BY <1>4, FetchMem
<1>5. CASE ReadRow
  <2>1. data_cursor \in Nat /\ data_cursor' = data_cursor + 1 /\ pc' = "reading"
    BY <1>5 DEF ReadRow, Reading, AtEnd, TypeInv, Typed
  <2>2. data_cursor' # Freed /\ fault' = fault
    BY <1>5, <2>1 DEF ReadRow, Freed
  <2> QED BY <2>1, <2>2 DEF MemInv, GoesOn
<1>6. CASE NoRow \/ NoMoreChunks
  <2>1. pc = "reading" /\ pc' = pc /\ data_cursor' = data_cursor
        /\ fault' \in {fault, fault \/ data_cursor = Freed}
    BY <1>6 DEF NoRow, NoMoreChunks, ScrollerMoves, Reading, stmtVars
  <2> QED BY <2>1 DEF MemInv, GoesOn
<1>7. CASE NextChunk
  <2>1. pc' = "reading" /\ fault' = fault /\ data_cursor' \in {0, 1}
    BY <1>7 DEF NextChunk, ScrollerMoves, Reading
  <2> QED BY <2>1 DEF MemInv, GoesOn, Freed
<1>8. ASSUME NEW e \in {"lost", "other"}, StreamFails(e) \/ NextChunkFails(e) PROVE MemInv'
  BY <1>8 DEF StreamFails, NextChunkFails, ScrollerMoves, Reading, MemInv, GoesOn
<1>9. CASE FetchReturns
  BY <1>9, ReturnsMem
<1>10. CASE UNCHANGED vars
  BY <1>10 DEF vars, MemInv, GoesOn
<1> QED BY <1>1, <1>2, <1>3, <1>4, <1>5, <1>6, <1>7, <1>8, <1>9, <1>10 DEF Next

(* No position in rows that a new chunk has replaced is ever used, also    *)
(* when the server answers queries of the scroller with errors.            *)
THEOREM NoFreedRows == ASSUME "continue" \notin Practices PROVE Spec => []MemorySafe
<1>1. Init => MemInv
  BY DEF Init, MemInv, GoesOn
<1>2. MemInv => MemorySafe
  BY DEF MemInv, MemorySafe
<1> QED BY <1>1, <1>2, TypeInvariance, NextMem, PTL DEF Spec

-----------------------------------------------------------------------------
(* The inductive invariant *)
Answer == AnswerSize(query)

(* What is in memory is a part of the answer, or lies behind it; the next  *)
(* chunk of the scroller goes on where this one ends, unless the answer is *)
(* over; and limit_count is less than a whole chunk only for the last one. *)
Chunks ==
  /\ Sized(query)
  /\ query.kind = "none" => query.table = 0
  /\ chunk.base + chunk.size <= query.offset + Answer \/ chunk.size = 0
  /\ query.kind # "scroller" =>
       chunk.base = 0 /\ (chunk.size = Answer \/ (query.kind = "stream" /\ errno = "lost"))
  /\ query.kind = "scroller" =>
       /\ query.offset <= chunk.base /\ query.offset <= next_offset
       /\ \/ chunk.base + chunk.size = next_offset
          \/ /\ query.offset + Answer <= chunk.base + chunk.size
             /\ query.offset + Answer <= next_offset
          \/ errno = "lost"
       /\ \/ limit_count = query.row_count
          \/ query.total_rows > 0 /\ query.offset + query.total_rows <= next_offset
  /\ errno # "other" /\ (errno = "lost" => query.kind # "stored")

(* The position d in memory is behind n rows of the answer; or the answer  *)
(* has only n, and there is nothing behind d.                              *)
At(d, n) ==
  /\ d \in 0 .. chunk.size
  /\ \/ chunk.base + d = query.offset + n
     \/ d = chunk.size /\ n = Answer /\ query.offset + n <= chunk.base + d

(* Where the remembered end of the rowset is. *)
End == IF end_of_set = Null THEN chunk.size ELSE end_of_set

Placed ==
  /\ query.kind = "stream" \/ pc = "reading" => At(data_cursor, current_row + Found)
  /\ (query.kind = "scroller" /\ current_row + Found = 0) => At(0, 0)
  /\ (/\ pc = "idle" /\ ~call.failed /\ query.kind # "stream" /\ 0 < current_row + Found
      /\ (query.kind = "stored" => current_row + Found < Answer))
       => At(End, current_row + Found)

(* The fetch under way, or the last one. *)
Progress ==
  /\ current_row + Found <= Answer
  /\ current_row = -1 => query.kind = "stored"
  /\ pc = "idle" => rows_found_in_set = Found /\ (current_row = -1 => Found = 0)
  /\ pc = "reading" =>
       /\ query.kind # "none" /\ current_row # -1 /\ call.rc = "none"
       /\ Found <= call.want /\ call.want <= call.array
       /\ call.want = call.array \/ (query.kind = "stored" /\ current_row + call.want = Answer)
       /\ call.stop => current_row + Found = Answer \/ errno = "lost"

IInv == Chunks /\ Placed /\ Progress /\ RowsetExact /\ EndOfData
-----------------------------------------------------------------------------
LEMMA QuerySizes ==
  ASSUME NEW q \in Query
  PROVE  /\ q.offset \in Nat /\ q.table \in Nat /\ q.row_count \in Nat
         /\ q.total_rows \in Nat /\ AnswerSize(q) \in Nat
<1>1. q.offset \in Offsets /\ q.table \in 0 .. MaxRows
  BY DEF Query
<1>2. q.row_count \in Nat /\ q.total_rows \in Nat
  BY DEF Query
<1> QED BY <1>1, <1>2, Constants, CountType

LEMMA Numbers ==
  ASSUME TypeInv
  PROVE  /\ chunk.base \in Nat /\ chunk.size \in Nat
         /\ query.offset \in Nat /\ query.table \in Nat /\ Answer \in Nat
         /\ query.row_count \in Nat /\ query.total_rows \in Nat
         /\ Found \in Nat /\ call.rows \in Seq(Nat)
         /\ current_row \in Int /\ -1 <= current_row /\ rows_found_in_set \in Nat
         /\ array_size \in Nat /\ 1 <= array_size
         /\ next_offset \in Nat /\ limit_count \in Nat
         /\ call.want \in Nat /\ call.array \in Nat /\ call.array <= MaxArray
<1>1. StmtTypes /\ call \in Call
  BY Types DEF TypeInv
<1>2. query \in Query
  BY <1>1 DEF StmtTypes
<1>3. query.offset \in Nat /\ query.table \in Nat /\ query.row_count \in Nat
      /\ query.total_rows \in Nat /\ Answer \in Nat
  BY <1>2, QuerySizes DEF Answer
<1>4. chunk.base \in Nat /\ chunk.size \in Nat /\ rows_found_in_set \in Nat
      /\ next_offset \in Nat /\ limit_count \in Nat /\ current_row \in Nat \cup {-1}
      /\ array_size \in 1 .. MaxArray
  BY <1>1 DEF StmtTypes
<1>5. Found \in Nat /\ call.rows \in Seq(Nat) /\ call.want \in Nat /\ call.array \in 1 .. MaxArray
  BY <1>1, CallFields DEF Found
<1> QED BY <1>3, <1>4, <1>5, Constants

LEMMA Ints ==
  ASSUME TypeInv
  PROVE  /\ chunk.base \in Int /\ chunk.size \in Int
         /\ query.offset \in Int /\ Answer \in Int
         /\ query.row_count \in Int /\ query.total_rows \in Int
         /\ Found \in Int /\ current_row \in Int
         /\ next_offset \in Int /\ limit_count \in Int
<1>1. \A n \in Nat : n \in Int
  OBVIOUS
<1> QED BY <1>1, Numbers

(* What the scroller asks for at a place: a whole chunk, or the rest.      *)
Due(offset, total, rows, at, count) ==
  \/ count = rows /\ (total = 0 \/ at + rows <= total + offset)
  \/ total > 0 /\ at + rows >= total + offset /\ count = total - (at - offset) /\ count > 0

(* The rows that it has then are rows of the answer, as many as asked for  *)
(* unless the answer ends there.                                           *)
Portion(offset, rows, answer, at, size) ==
  /\ at + size <= offset + answer \/ size = 0
  /\ size = rows \/ (offset + answer <= at + size /\ offset + answer <= at + rows)
  /\ size = 0 => offset + answer <= at

LEMMA Part ==
  ASSUME NEW table \in Nat, NEW offset \in Nat, NEW total \in Nat, NEW rows \in Nat,
         NEW answer \in Nat, NEW at \in Nat, NEW count \in Nat, offset <= at,
         Relates(table, offset, total, rows, answer), Due(offset, total, rows, at, count)
  PROVE  Portion(offset, rows, answer, at, Answered(table, at, count))
BY DEF Relates, Due, Portion, Answered, MaxOf, MinOf

\* A step that leaves the chunk alone
LEMMA SameChunks ==
  ASSUME Chunks, UNCHANGED <<query, chunk, next_offset, limit_count, errno>>
  PROVE  Chunks' /\ Answer' = Answer
<1>1. Answer' = Answer
  BY DEF Answer
<1>2. Sized(query)'
  BY DEF Chunks, Sized
<1> QED BY <1>1, <1>2 DEF Chunks

\* ... and the call, with what it has delivered
LEMMA SameCall ==
  ASSUME IInv, UNCHANGED <<query, chunk, data_cursor, end_of_set, current_row,
                           rows_found_in_set, next_offset, limit_count, pc, call, errno, fault>>
  PROVE  IInv'
<1>1. Chunks' /\ Answer' = Answer /\ Found' = Found
  BY SameChunks DEF IInv, Found
<1>2. Placed'
  BY <1>1 DEF IInv, Placed, At, End
<1>3. Progress'
  BY <1>1 DEF IInv, Progress
<1>4. RowsetExact'
  BY DEF IInv, RowsetExact
<1>5. EndOfData'
  BY <1>1 DEF IInv, EndOfData, Answer
<1> QED BY <1>1, <1>2, <1>3, <1>4, <1>5 DEF IInv

LEMMA NothingFetched ==
  ASSUME call' = NoCall
  PROVE  /\ Found' = 0 /\ call'.rc = "none"
         /\ RowsetExact' /\ EndOfData'
<1>1. call'.rows = <<>> /\ call'.rc = "none"
  BY DEF NoCall
<1> QED BY <1>1 DEF Found, RowsetExact, EndOfData

LEMMA NoAnswer == AnswerSize(NoQuery) = 0 /\ Sized(NoQuery)
<1>1. Count(NoQuery) = MaxRows
  BY DEF NoQuery, Count
<1>2. Answered(0, 0, MaxRows) = 0
  BY Constants DEF Answered, MaxOf, MinOf
<1>3. AnswerSize(NoQuery) = 0
  BY <1>1, <1>2 DEF AnswerSize, NoQuery
<1> QED BY <1>3 DEF Sized, NoQuery

LEMMA InitInv == Init => IInv
<1> SUFFICES ASSUME Init PROVE IInv
  OBVIOUS
<1>1. Answer = 0 /\ Sized(query) /\ query.kind = "none" /\ query.table = 0 /\ query.offset = 0
  BY NoAnswer DEF Init, Answer, NoQuery
<1>2. call.rows = <<>> /\ call.rc = "none"
  BY DEF Init, NoCall
<1>3. Found = 0
  BY <1>2 DEF Found
<1>4. Chunks /\ Placed /\ Progress
  BY <1>1, <1>3 DEF Init, Chunks, Placed, Progress
<1>5. RowsetExact /\ EndOfData
  BY <1>2 DEF RowsetExact, EndOfData
<1> QED BY <1>4, <1>5 DEF IInv

LEMMA ExecuteInv ==
  ASSUME TypeInv, TypeInv', IInv, NEW q \in Queries, NEW selected \in Prefetch,
         Execute(q, selected)
  PROVE  IInv'
<1> DEFINE full == IF q.kind = "scroller" THEN Scroller(q, selected) ELSE q
           count == IF q.kind = "scroller" THEN full.row_count ELSE Count(q)
<1>1. array_size \in 1 .. MaxArray /\ fault \in BOOLEAN /\ pc = "idle"
  BY DEF TypeInv, TypeOK, IInv, Placed, Execute
<1>2. /\ query' = full
      /\ chunk' = [base |-> q.offset, size |-> Answered(q.table, q.offset, count)]
      /\ next_offset' = IF q.kind = "scroller" THEN q.offset + full.row_count ELSE 0
      /\ limit_count' = IF q.kind = "scroller" THEN full.row_count ELSE 0
      /\ current_row' = 0 /\ rows_found_in_set' = 0 /\ data_cursor' = 0
      /\ call' = NoCall /\ errno' = "none" /\ pc' = "idle" /\ fault' = fault
  BY DEF Execute
<1>3. full \in Query /\ Sized(full) /\ full.kind = q.kind /\ full.table = q.table
      /\ full.offset = q.offset /\ q.kind # "none"
  <2>1. CASE q.kind = "scroller"
    BY <1>1, <2>1, ScrollerSized
  <2>2. CASE q.kind # "scroller"
    <3>1. q.offset = 0 /\ Count(q) = MaxRows /\ q.table \in 0 .. MaxRows
      BY <2>2, QueryTypes DEF Count
    <3>2. AnswerSize(q) = q.table
      BY <3>1, Constants DEF AnswerSize, Answered, MaxOf, MinOf
    <3> QED BY <2>2, <3>1, <3>2, QueryTypes DEF Sized
  <2> QED BY <2>1, <2>2
<1>4. Answer' = AnswerSize(full) /\ Sized(query)'
  BY <1>2, <1>3 DEF Answer
<1> HIDE DEF full
<1>5. /\ full.offset \in Nat /\ full.table \in Nat /\ full.row_count \in Nat
      /\ full.total_rows \in Nat /\ AnswerSize(full) \in Nat
  BY <1>3, QuerySizes
<1>6. chunk'.base = full.offset /\ chunk'.size = Answered(full.table, full.offset, count)
      /\ chunk'.size \in Nat
  <2>1. count \in Nat
    BY <1>5, QueryTypes, CountType, Constants
  <2>2. full.table \in Int /\ full.offset \in Int /\ count \in Int
    BY <1>5, <2>1
  <2> HIDE DEF count
  <2> QED BY <1>2, <1>3, <2>2, AnsweredType
<1>7. Chunks'
  <2>1. CASE q.kind = "scroller"
    <3>1. count = full.row_count
      BY <2>1
    <3>2. /\ chunk'.base + chunk'.size <= full.offset + AnswerSize(full) \/ chunk'.size = 0
          /\ \/ chunk'.size = full.row_count
             \/ /\ full.offset + AnswerSize(full) <= chunk'.base + chunk'.size
                /\ full.offset + AnswerSize(full) <= full.offset + full.row_count
      <4>1. /\ Relates(full.table, full.offset, full.total_rows, full.row_count, AnswerSize(full))
            /\ Due(full.offset, full.total_rows, full.row_count, full.offset, count)
        BY <1>3, <1>5, <2>1, <3>1 DEF Sized, Relates, Due
      <4>2. full.offset <= full.offset
        BY <1>5
      <4> HIDE DEF count
      <4>3. count \in Nat
        BY <1>5, <3>1
      <4>4. Portion(full.offset, full.row_count, AnswerSize(full), full.offset,
                    Answered(full.table, full.offset, count))
        BY <1>5, <4>1, <4>2, <4>3, Part
      <4>5. Portion(full.offset, full.row_count, AnswerSize(full), full.offset, chunk'.size)
        BY <1>6, <4>4
      <4> QED BY <1>6, <4>5 DEF Portion
    <3> QED BY <1>2, <1>3, <1>4, <1>5, <1>6, <2>1, <3>2 DEF Chunks
  <2>2. CASE q.kind # "scroller"
    <3>1. full = q /\ count = Count(q)
      BY <2>2 DEF full
    <3>2. chunk'.size = AnswerSize(full) /\ full.offset = 0
      BY <1>3, <1>6, <2>2, <3>1 DEF AnswerSize, Sized
    <3> QED BY <1>2, <1>3, <1>4, <1>5, <1>6, <2>2, <3>2 DEF Chunks
  <2> QED BY <2>1, <2>2
<1>8. Found' = 0 /\ call'.rc = "none" /\ RowsetExact' /\ EndOfData'
  BY <1>2, NothingFetched
<1>9. At(0, 0)'
  BY <1>2, <1>5, <1>6 DEF At
<1>10. Placed'
  BY <1>1, <1>2, <1>8, <1>9 DEF Placed, At
<1>11. Progress'
  BY <1>2, <1>4, <1>5, <1>8 DEF Progress
<1> QED BY <1>7, <1>8, <1>10, <1>11 DEF IInv

LEMMA CloseCursorInv ==
  ASSUME IInv, CloseCursor PROVE IInv'
<1>1. /\ query' = NoQuery /\ chunk' = [base |-> 0, size |-> 0]
      /\ current_row' = 0 /\ rows_found_in_set' = 0 /\ data_cursor' = 0
      /\ call' = NoCall /\ pc' = "idle" /\ UNCHANGED <<errno, fault>>
  BY DEF CloseCursor
<1>2. Answer' = 0 /\ Sized(query)' /\ query'.kind = "none" /\ query'.table = 0 /\ query'.offset = 0
  BY <1>1, NoAnswer DEF Answer, NoQuery
<1>3. Found' = 0 /\ RowsetExact' /\ EndOfData'
  BY <1>1, NothingFetched
<1>4. Chunks'
  BY <1>1, <1>2 DEF IInv, Chunks
<1>5. Placed' /\ Progress'
  BY <1>1, <1>2, <1>3 DEF IInv, Placed, Progress
<1> QED BY <1>3, <1>4, <1>5 DEF IInv
-----------------------------------------------------------------------------
(* Where a fetch goes.  A forward-only cursor goes on behind the rowset.   *)
LEMMA Forward ==
  ASSUME TypeInv, IInv, NEW r \in Requests, Fetch(r[1], r[2]), query.kind # "stored"
  PROVE  Target(r[1], r[2]) = current_row + Found
<1>1. r[1] = "next" /\ pc = "idle"
  BY DEF Fetch
<1>2. current_row # -1 /\ rows_found_in_set = Found
  BY <1>1 DEF IInv, Progress
<1>3. ~(current_row < 0)
  BY <1>2, Numbers
<1> QED BY <1>1, <1>2, <1>3 DEF Target

\* row_seek and data_seek arrive at row t of the answer.
LEMMA SeekFinds ==
  ASSUME TypeInv, IInv, Practices = {}, pc = "idle", query.kind # "none",
         NEW t \in Nat, Careful(t), Seek(t),
         query.kind = "stored" => t < Answer,
         query.kind # "stored" => t = current_row + Found
  PROVE  \E d \in Nat : data_cursor' = d /\ At(d, t)
<1>1. rows_found_in_set = Found
  BY DEF IInv, Progress
<1>2. CASE query.kind = "stream"
  <2>1. data_cursor' = data_cursor /\ At(data_cursor, t)
    BY <1>2 DEF Seek, IInv, Placed
  <2>2. data_cursor \in Nat
    BY <1>2 DEF TypeInv, Typed
  <2> QED BY <2>1, <2>2
<1>3. CASE query.kind # "stream" /\ Sequential(t)
  <2>1. ~call.failed /\ 0 < t /\ t = current_row + Found
    BY <1>1, <1>3 DEF Careful, Sequential
  <2>2. data_cursor' = End
    BY <1>3 DEF Seek, End
  <2>3. At(End, t)
    BY <1>3, <2>1 DEF IInv, Placed
  <2>4. End \in Nat
    BY <2>3, Numbers DEF At
  <2> QED BY <2>2, <2>3, <2>4
<1>4. CASE query.kind # "stream" /\ ~Sequential(t)
  <2>1. data_cursor' = MinOf(t, chunk.size)
    BY <1>4 DEF Seek
  <2>2. CASE query.kind = "stored"
    <3>1. query.offset = 0 /\ chunk.base = 0 /\ chunk.size = Answer
      BY <2>2 DEF IInv, Chunks, Sized
    <3>2. data_cursor' = t /\ At(t, t)
      BY <2>1, <2>2, <3>1, Numbers DEF MinOf, At
    <3> QED BY <3>2
  <2>3. CASE query.kind # "stored"
    <3>1. query.kind = "scroller"
      BY <1>4, <2>3 DEF TypeInv, TypeOK, Query
    <3>2. t = 0 /\ current_row + Found = 0
      BY <1>1, <1>4, <2>3 DEF Sequential
    <3>3. At(0, 0)
      BY <3>1, <3>2 DEF IInv, Placed
    <3>4. chunk.size \in Nat
      BY Numbers
    <3>5. data_cursor' = 0
      BY <2>1, <3>2, <3>4 DEF MinOf
    <3> QED BY <3>2, <3>3, <3>5
  <2> QED BY <2>2, <2>3
<1> QED BY <1>2, <1>3, <1>4

LEMMA FetchInv ==
  ASSUME TypeInv, IInv, Practices = {}, NEW r \in Requests, Fetch(r[1], r[2]) PROVE IInv'
<1> DEFINE t == Target(r[1], r[2])
<1>1. /\ pc = "idle" /\ query.kind # "none" /\ Careful(t) /\ call \in Call
      /\ FetchBeforeFirst(t) \/ FetchAfterLast(t) \/ FetchRows(t)
      /\ UNCHANGED <<query, chunk, end_of_set, array_size, next_offset, limit_count,
                     errno, fault>>
  BY Types DEF Fetch, TypeInv, IInv, Placed
<1>2. t \in Int
  BY TargetType, Types DEF TypeInv
<1>3. query.kind # "stored" => t = current_row + Found /\ t >= 0
  <2>1. query.kind # "stored" => current_row # -1
    BY DEF IInv, Progress
  <2> QED BY <2>1, Forward, Numbers
<1>4. query.kind = "stored" => NumRows = Answer /\ chunk.size = Answer
  BY DEF IInv, Chunks, NumRows
<1>5. Chunks' /\ Answer' = Answer
  BY <1>1, SameChunks DEF IInv
<1> HIDE DEF t
<1>6. ASSUME query.kind = "stored", call'.rows = <<>>, call'.rc = "no_data", pc' = pc,
             rows_found_in_set' = 0,
             \/ current_row' = -1
             \/ current_row' = Answer
      PROVE  IInv'
  <2>1. Found' = 0
    BY <1>6 DEF Found
  <2>2. /\ current_row' + Found' <= Answer
        /\ ~(0 < current_row' + Found' /\ current_row' + Found' < Answer)
    <3>1. Answer \in Nat
      BY Numbers
    <3> QED BY <1>6, <2>1, <3>1
  <2>3. Placed'
    BY <1>1, <1>5, <1>6, <2>2 DEF Placed
  <2>4. Progress'
    BY <1>1, <1>5, <1>6, <2>1, <2>2 DEF Progress
  <2>5. EndOfData'
    BY <1>5, <1>6, <2>1, Numbers DEF EndOfData, Found, Answer
  <2>6. RowsetExact'
    BY <1>6 DEF RowsetExact
  <2> QED BY <1>5, <2>3, <2>4, <2>5, <2>6 DEF IInv
<1>7. CASE FetchBeforeFirst(t)
  <2>1. call'.rows = <<>> /\ call'.rc = "no_data"
    BY <1>1, <1>7 DEF FetchBeforeFirst, Call
  <2>2. query.kind = "stored"
    BY <1>2, <1>3, <1>7 DEF FetchBeforeFirst
  <2> QED BY <1>6, <1>7, <2>1, <2>2 DEF FetchBeforeFirst
<1>8. CASE FetchAfterLast(t)
  <2>1. call'.rows = <<>> /\ call'.rc = "no_data"
    BY <1>1, <1>8 DEF FetchAfterLast, Call
  <2> QED BY <1>4, <1>6, <1>8, <2>1 DEF FetchAfterLast
<1>9. CASE FetchRows(t)
  <2> DEFINE want == IF query.kind = "stored" THEN MinOf(NumRows - t, array_size)
                     ELSE array_size
  <2>1. /\ 0 <= t /\ (query.kind = "stored" => t < Answer)
        /\ current_row' = t /\ Seek(t) /\ pc' = "reading"
        /\ call' = [call EXCEPT !.rc = "none", !.rows = <<>>, !.stop = FALSE, !.failed = FALSE,
                      !.want = want, !.array = array_size, !.save = data_cursor']
    BY <1>4, <1>9 DEF FetchRows
  <2>2. /\ 0 <= want /\ want <= array_size
        /\ want = array_size \/ (query.kind = "stored" /\ t + want = Answer)
    <3>1. t \in Int /\ array_size \in Nat /\ 1 <= array_size /\ Answer \in Nat
      BY <1>2, Numbers
    <3>2. CASE query.kind = "stored"
      <4>1. want = MinOf(Answer - t, array_size) /\ t < Answer
        BY <1>4, <2>1, <3>2
      <4> HIDE DEF want
      <4> QED BY <3>1, <3>2, <4>1 DEF MinOf
    <3>3. CASE query.kind # "stored"
      <4>1. want = array_size
        BY <3>3
      <4> HIDE DEF want
      <4> QED BY <3>1, <4>1
    <3> QED BY <3>2, <3>3
  <2> HIDE DEF want
  <2>3. /\ call'.rows = <<>> /\ call'.rc = "none" /\ ~call'.stop
        /\ call'.want = want /\ call'.array = array_size
    BY <1>1, <2>1 DEF Call
  <2>4. Found' = 0 /\ current_row' + Found' = t
    BY <1>2, <2>1, <2>3 DEF Found
  <2>5. PICK d \in Nat : data_cursor' = d /\ At(d, t)
    BY <1>1, <1>2, <1>3, <2>1, SeekFinds
  <2>6. Placed'
    <3>1. At(data_cursor, current_row + Found)'
      BY <1>1, <1>5, <2>4, <2>5 DEF At
    <3>2. (query.kind = "scroller" /\ t = 0) => At(0, 0)'
      BY <1>1, <1>3, <1>5 DEF IInv, Placed, At
    <3> QED BY <1>1, <2>1, <2>4, <3>1, <3>2 DEF Placed
  <2>7. Progress'
    <3>1. t <= Answer /\ t # -1
      <4>1. current_row + Found <= Answer
        BY DEF IInv, Progress
      <4>2. t \in Int /\ Answer \in Nat
        BY <1>2, Numbers
      <4> QED BY <1>3, <2>1, <4>1, <4>2
    <3> QED BY <1>1, <1>5, <2>1, <2>2, <2>3, <2>4, <3>1 DEF Progress
  <2>8. RowsetExact' /\ EndOfData'
    BY <2>3 DEF RowsetExact, EndOfData
  <2> QED BY <1>5, <2>6, <2>7, <2>8 DEF IInv
<1> QED BY <1>1, <1>7, <1>8, <1>9
-----------------------------------------------------------------------------
(* The loop: the row behind the n rows delivered, or the end.              *)
LEMMA ReadingFacts ==
  ASSUME TypeInv, IInv, Reading
  PROVE  /\ pc = "reading" /\ query.kind # "none" /\ ~call.stop /\ call.rc = "none"
         /\ 0 <= current_row /\ current_row + Found <= Answer
         /\ data_cursor \in 0 .. chunk.size /\ data_cursor # Freed
         /\ At(data_cursor, current_row + Found)
         /\ Found < call.want /\ call.want <= call.array
<1>1. pc = "reading" /\ ~call.stop /\ Found < call.want
  BY DEF Reading, Found
<1>2. /\ query.kind # "none" /\ current_row # -1 /\ call.rc = "none"
      /\ current_row + Found <= Answer /\ call.want <= call.array
  BY <1>1 DEF IInv, Progress
<1>3. At(data_cursor, current_row + Found)
  BY <1>1 DEF IInv, Placed
<1>4. data_cursor \in 0 .. chunk.size
  BY <1>3 DEF At
<1>5. data_cursor # Freed
  BY <1>4, Numbers DEF Freed
<1> QED BY <1>1, <1>2, <1>3, <1>4, <1>5, Numbers

\* A row is appended to the rowset.
LEMMA Delivers ==
  ASSUME TypeInv, IInv, Reading, NEW row \in Nat,
         row = query.offset + current_row + (Found + 1), current_row + (Found + 1) <= Answer,
         call'.rows = Append(call.rows, row),
         call'.want = call.want, call'.array = call.array, call'.rc = call.rc,
         call'.stop = call.stop, UNCHANGED <<query, current_row, rows_found_in_set, pc>>
  PROVE  Found' = Found + 1 /\ Progress' /\ RowsetExact' /\ EndOfData'
<1>1. /\ Found \in Nat /\ call.rows \in Seq(Nat) /\ call.array \in Nat
      /\ call.array <= MaxArray /\ call.want \in Nat /\ MaxArray \in Nat
  BY Numbers, Constants
<1>2. Found' = Found + 1 /\ call'.rows[Found + 1] = row
      /\ \A i \in 1 .. Found : call'.rows[i] = call.rows[i]
  BY <1>1 DEF Found
<1>3. DOMAIN call'.rows = 1 .. Found + 1 /\ DOMAIN call.rows = 1 .. Found
  BY <1>1 DEF Found
<1>4. Answer' = Answer
  BY DEF Answer
<1>5. Found + 1 \in 1 .. MaxArray /\ Found + 1 <= call.want
  BY <1>1, ReadingFacts
<1>7. Progress'
  <2>1. current_row' + Found' <= Answer'
    BY <1>2, <1>4
  <2> QED BY <1>2, <1>4, <1>5, <2>1, ReadingFacts DEF IInv, Progress
<1>8. RowsetExact'
  <2>1. \A i \in 1 .. Found : call.rows[i] = query.offset + current_row + i
    BY <1>3 DEF IInv, RowsetExact
  <2>2. \A i \in 1 .. Found + 1 : i \in 1 .. Found \/ i = Found + 1
    BY <1>1
  <2> QED BY <1>2, <1>3, <2>1, <2>2 DEF RowsetExact
<1>9. EndOfData'
  BY ReadingFacts DEF EndOfData
<1> QED BY <1>2, <1>7, <1>8, <1>9

\* No row is left.
LEMMA Stops ==
  ASSUME TypeInv, IInv, Reading, current_row + Found = Answer \/ errno' = "lost",
         call'.rows = call.rows, call'.want = call.want,
         call'.array = call.array, call'.rc = call.rc, call'.stop,
         UNCHANGED <<query, current_row, rows_found_in_set, pc>>
  PROVE  Found' = Found /\ Answer' = Answer
         /\ Progress' /\ RowsetExact' /\ EndOfData'
<1>1. Found' = Found /\ Answer' = Answer
  BY DEF Found, Answer
<1>2. Progress'
  BY <1>1 DEF Reading, IInv, Progress
<1>3. RowsetExact'
  BY DEF IInv, RowsetExact
<1>4. EndOfData'
  BY ReadingFacts DEF EndOfData
<1> QED BY <1>1, <1>2, <1>3, <1>4

LEMMA StopFields ==
  ASSUME NEW c \in Call
  PROVE  LET s == [c EXCEPT !.stop = TRUE] IN
         /\ s.rows = c.rows /\ s.status = c.status /\ s.want = c.want
         /\ s.array = c.array /\ s.rc = c.rc /\ s.stop
BY DEF Call

LEMMA ReadRowInv ==
  ASSUME TypeInv, IInv, ReadRow PROVE IInv'
<1> DEFINE row == chunk.base + data_cursor + 1
           n == current_row + Found
<1>1. /\ Reading /\ data_cursor # chunk.size /\ data_cursor' = data_cursor + 1
      /\ call' = [call EXCEPT !.rows = Append(call.rows, row),
                    !.status = [call.status EXCEPT ![Found + 1] =
                                  IF row = query.bad THEN "error" ELSE "ok"]]
      /\ UNCHANGED <<query, chunk, end_of_set, current_row, rows_found_in_set, array_size,
                     next_offset, limit_count, pc, errno, fault>>
  BY DEF ReadRow, AtEnd, Found
<1>2. /\ data_cursor \in 0 .. chunk.size /\ At(data_cursor, n) /\ pc = "reading"
      /\ 0 <= current_row
  BY <1>1, ReadingFacts
<1>3. chunk.base + data_cursor = query.offset + n
  BY <1>1, <1>2 DEF At
<1>4. /\ chunk.base \in Nat /\ chunk.size \in Nat /\ query.offset \in Nat /\ Answer \in Nat
      /\ current_row \in Nat /\ Found \in Nat /\ data_cursor \in Nat
      /\ data_cursor < chunk.size
  <2>1. data_cursor # chunk.size
    BY <1>1
  <2>2. data_cursor \in 0 .. chunk.size /\ 0 <= current_row
    BY <1>2
  <2>3. /\ chunk.base \in Nat /\ chunk.size \in Nat /\ query.offset \in Nat /\ Answer \in Nat
        /\ current_row \in Int /\ Found \in Nat
    BY Numbers
  <2> QED BY <2>1, <2>2, <2>3
<1>5. chunk.size # 0 => chunk.base + chunk.size <= query.offset + Answer
  BY DEF IInv, Chunks
<1>6. row \in Nat /\ row = query.offset + current_row + (Found + 1)
      /\ current_row + (Found + 1) <= Answer
  BY <1>3, <1>4, <1>5
<1>7. /\ call'.rows = Append(call.rows, row)
      /\ call'.status = [call.status EXCEPT ![Found + 1] =
                           IF row = query.bad THEN "error" ELSE "ok"]
      /\ call'.want = call.want /\ call'.array = call.array /\ call'.rc = call.rc
      /\ call'.stop = call.stop
  <2>1. call \in Call
    BY Types DEF TypeInv
  <2> HIDE DEF row
  <2> QED BY <1>1, <2>1 DEF Call
<1>8. Found' = Found + 1 /\ Progress' /\ RowsetExact' /\ EndOfData'
  <2> HIDE DEF row
  <2> QED BY <1>1, <1>6, <1>7, Delivers
<1>9. Chunks' /\ Answer' = Answer
  BY <1>1, SameChunks DEF IInv
<1>10. Placed'
  <2>1. current_row' + Found' = n + 1 /\ n + 1 > 0
    BY <1>1, <1>4, <1>8
  <2>2. data_cursor + 1 \in 0 .. chunk.size /\ chunk.base + (data_cursor + 1) = query.offset + (n + 1)
    BY <1>3, <1>4
  <2>3. At(data_cursor, current_row + Found)'
    BY <1>1, <2>1, <2>2 DEF At
  <2> QED BY <1>1, <1>2, <2>1, <2>3 DEF Placed
<1> QED BY <1>8, <1>9, <1>10 DEF IInv

\* A step that finds the end of the rows where they are.
LEMMA StopsInPlace ==
  ASSUME TypeInv, IInv, Reading, current_row + Found = Answer \/ errno' = "lost",
         call' = [call EXCEPT !.stop = TRUE], Chunks',
         UNCHANGED <<query, chunk, data_cursor, current_row, rows_found_in_set, pc>>
  PROVE  IInv'
<1>1. call \in Call
  BY Types DEF TypeInv
<1>2. Found' = Found /\ Answer' = Answer /\ Progress' /\ RowsetExact' /\ EndOfData'
  BY <1>1, StopFields, Stops
<1>3. Placed'
  BY <1>2, ReadingFacts DEF IInv, Placed, At
<1> QED BY <1>2, <1>3 DEF IInv

LEMMA NoRowInv ==
  ASSUME TypeInv, IInv, NoRow PROVE IInv'
<1>1. /\ Reading /\ data_cursor \in {chunk.size, Freed}
      /\ query.kind = "scroller" => data_cursor = Freed
      /\ call' = [call EXCEPT !.stop = TRUE] /\ fault' = (fault \/ data_cursor = Freed)
      /\ UNCHANGED <<query, chunk, data_cursor, end_of_set, current_row, rows_found_in_set,
                     array_size, next_offset, limit_count, pc, errno>>
  BY DEF NoRow, AtEnd, stmtVars
<1>2. /\ data_cursor = chunk.size /\ query.kind # "scroller"
      /\ At(data_cursor, current_row + Found) /\ current_row + Found <= Answer
  BY <1>1, ReadingFacts
<1>3. query.offset = 0 /\ chunk.base = 0 /\ (chunk.size = Answer \/ errno = "lost")
  BY <1>2 DEF IInv, Chunks, Sized
<1>4. current_row + Found = Answer \/ errno' = "lost"
  <2>1. \/ chunk.base + chunk.size = query.offset + (current_row + Found)
        \/ current_row + Found = Answer
    BY <1>2 DEF At
  <2>2. chunk.size \in Int /\ current_row \in Int /\ Found \in Int
    BY Ints
  <2>3. chunk.size = current_row + Found \/ current_row + Found = Answer
    BY <1>3, <2>1, <2>2
  <2>4. errno' = errno
    BY <1>1
  <2> QED BY <1>3, <2>3, <2>4
<1>5. Chunks'
  BY <1>1, SameChunks DEF IInv
<1> QED BY <1>1, <1>2, <1>4, <1>5, StopsInPlace

LEMMA StreamFailsInv ==
  ASSUME TypeInv, IInv, Practices = {}, NEW e \in {"lost", "other"}, StreamFails(e) PROVE IInv'
<1>1. /\ Reading /\ query.kind = "stream" /\ errno' = "lost"
      /\ chunk' = [chunk EXCEPT !.size = data_cursor] /\ call' = [call EXCEPT !.stop = TRUE]
      /\ UNCHANGED <<query, data_cursor, end_of_set, current_row, rows_found_in_set,
                     array_size, next_offset, limit_count, pc, fault>>
  BY DEF StreamFails
<1>2. call \in Call /\ chunk \in [base : Nat, size : Nat]
  BY Types DEF TypeInv, StmtTypes
<1>3. Found' = Found /\ Answer' = Answer /\ Progress' /\ RowsetExact' /\ EndOfData'
  BY <1>1, <1>2, StopFields, Stops
<1>4. chunk'.base = chunk.base /\ chunk'.size = data_cursor
  BY <1>1, <1>2
<1>5. /\ data_cursor \in 0 .. chunk.size /\ At(data_cursor, current_row + Found)
      /\ pc = "reading"
  BY <1>1, ReadingFacts
<1>6. Chunks'
  <2>1. Sized(query)' /\ (query.kind = "none" => query.table = 0)'
    BY <1>1 DEF IInv, Chunks, Sized
  <2>2. chunk.base = 0 /\ (chunk.size <= query.offset + Answer \/ chunk.size = 0)
    <3>1. query.kind = "stream"
      BY <1>1
    <3>2. chunk.base = 0 /\ (chunk.base + chunk.size <= query.offset + Answer \/ chunk.size = 0)
      BY <3>1 DEF IInv, Chunks
    <3>3. chunk.size \in Int
      BY Ints
    <3> QED BY <3>2, <3>3
  <2>3. data_cursor <= query.offset + Answer \/ data_cursor = 0
    <3>1. /\ chunk.size \in Nat /\ query.offset \in Nat /\ Answer \in Nat
          /\ data_cursor \in 0 .. chunk.size
      BY <1>5, Numbers
    <3> QED BY <2>2, <3>1
  <2>4. chunk'.base + chunk'.size <= query.offset + Answer \/ chunk'.size = 0
    <3>1. data_cursor \in Nat
      BY <1>5, Numbers
    <3> QED BY <1>4, <2>2, <2>3, <3>1
  <2> QED BY <1>1, <1>3, <1>4, <2>1, <2>2, <2>4 DEF Chunks
<1>7. Placed'
  <2>1. data_cursor \in 0 .. data_cursor
    BY <1>5, Numbers
  <2>2. At(data_cursor, current_row + Found)'
    BY <1>1, <1>3, <1>4, <1>5, <2>1 DEF At
  <2> QED BY <1>1, <1>3, <1>5, <2>2 DEF Placed
<1> QED BY <1>3, <1>6, <1>7 DEF IInv
-----------------------------------------------------------------------------
(* The scroller at the end of a chunk.                                     *)

\* What it knows there: the next chunk is behind all rows delivered.
LEMMA ScrollerFacts ==
  ASSUME TypeInv, IInv, ScrollerMoves
  PROVE  /\ Reading /\ query.kind = "scroller" /\ data_cursor = chunk.size
         /\ query.offset <= next_offset
         /\ Relates(query.table, query.offset, query.total_rows, query.row_count, Answer)
         /\ query.offset + Answer <= next_offset =>
              current_row + Found = Answer \/ errno = "lost"
         /\ next_offset < query.offset + Answer =>
              next_offset = query.offset + (current_row + Found) \/ errno = "lost"
<1>1. Reading /\ query.kind = "scroller" /\ data_cursor \in {chunk.size, Freed}
      /\ data_cursor # Freed
  BY DEF ScrollerMoves, AtEnd
<1>2. data_cursor = chunk.size /\ At(chunk.size, current_row + Found)
      /\ current_row + Found <= Answer
  BY <1>1, ReadingFacts
<1>3. Relates(query.table, query.offset, query.total_rows, query.row_count, Answer)
  BY <1>1 DEF IInv, Chunks, Sized, Answer
<1>4. /\ query.offset <= next_offset
      /\ \/ chunk.base + chunk.size = next_offset
         \/ /\ query.offset + Answer <= chunk.base + chunk.size
            /\ query.offset + Answer <= next_offset
         \/ errno = "lost"
  BY <1>1 DEF IInv, Chunks
<1>5. \/ chunk.base + chunk.size = query.offset + (current_row + Found)
      \/ /\ current_row + Found = Answer
         /\ query.offset + (current_row + Found) <= chunk.base + chunk.size
  BY <1>2 DEF At
<1>6. /\ chunk.base \in Int /\ chunk.size \in Int /\ query.offset \in Int /\ Answer \in Int
      /\ next_offset \in Int /\ current_row \in Int /\ Found \in Int
  BY Ints
<1>7. query.offset + Answer <= next_offset =>
        current_row + Found = Answer \/ errno = "lost"
  BY <1>2, <1>4, <1>5, <1>6
<1>8. next_offset < query.offset + Answer =>
        next_offset = query.offset + (current_row + Found) \/ errno = "lost"
  BY <1>2, <1>4, <1>5, <1>6
<1> QED BY <1>1, <1>2, <1>3, <1>4, <1>7, <1>8

\* LIMIT's row count and SQL_ATTR_MAX_ROWS are asked for in all.
LEMMA AllAsked ==
  ASSUME NEW table \in Nat, NEW offset \in Nat, NEW total \in Nat, NEW rows \in Nat,
         NEW answer \in Nat, Relates(table, offset, total, rows, answer), total > 0
  PROVE  answer <= total
BY DEF Relates, Answered, MaxOf, MinOf

NextDue ==
  Due(query.offset, query.total_rows, query.row_count, next_offset, ChunkCount(next_offset))

\* The rows that are due, if any.
LEMMA NextIsDue ==
  ASSUME TypeInv, IInv, ScrollerMoves, ~(LastChunk(next_offset) /\ Remaining(next_offset) <= 0)
  PROVE  NextDue
<1>1. /\ query.offset \in Int /\ query.total_rows \in Int /\ query.row_count \in Int
      /\ next_offset \in Int /\ limit_count \in Int
  BY Ints
<1>2. \/ limit_count = query.row_count
      \/ query.total_rows > 0 /\ query.offset + query.total_rows <= next_offset
  BY ScrollerFacts DEF IInv, Chunks
<1>3. query.row_count >= 0 /\ query.total_rows >= 0
  BY Numbers
<1>4. CASE LastChunk(next_offset)
  <2>1. ChunkCount(next_offset) = query.total_rows - (next_offset - query.offset)
    BY <1>4 DEF ChunkCount, Remaining
  <2>2. query.total_rows - (next_offset - query.offset) > 0
    BY <1>1, <1>4 DEF Remaining
  <2>3. query.total_rows > 0 /\ next_offset + query.row_count >= query.total_rows + query.offset
    BY <1>4 DEF LastChunk
  <2> QED BY <1>1, <2>1, <2>2, <2>3 DEF NextDue, Due
<1>5. CASE ~LastChunk(next_offset)
  <2>1. ChunkCount(next_offset) = limit_count
    BY <1>5 DEF ChunkCount
  <2>2. ~(query.total_rows > 0 /\ next_offset + query.row_count >= query.total_rows + query.offset)
    BY <1>5 DEF LastChunk
  <2>3. query.total_rows = 0
          \/ next_offset + query.row_count <= query.total_rows + query.offset
    BY <1>1, <1>3, <2>2
  <2>4. limit_count = query.row_count
    BY <1>1, <1>2, <1>3, <2>2
  <2> QED BY <2>1, <2>3, <2>4 DEF NextDue, Due
<1> QED BY <1>4, <1>5

\* A chunk that is not whole is the last one.
LEMMA CountDue ==
  ASSUME TypeInv, NextDue
  PROVE  \/ ChunkCount(next_offset) = query.row_count
         \/ /\ query.total_rows > 0
            /\ query.offset + query.total_rows <= next_offset + query.row_count
<1>1. /\ query.offset \in Int /\ query.total_rows \in Int /\ query.row_count \in Int
      /\ next_offset \in Int
  BY Ints
<1> QED BY <1>1 DEF NextDue, Due

LEMMA NoMoreChunksInv ==
  ASSUME TypeInv, IInv, NoMoreChunks PROVE IInv'
<1>1. /\ ScrollerMoves /\ LastChunk(next_offset) /\ Remaining(next_offset) <= 0
      /\ next_offset' = next_offset + query.row_count
      /\ call' = [call EXCEPT !.stop = TRUE]
      /\ UNCHANGED <<query, chunk, data_cursor, end_of_set, current_row, rows_found_in_set,
                     array_size, limit_count, pc, errno, fault>>
  BY DEF NoMoreChunks
<1>2. /\ Reading /\ query.kind = "scroller" /\ query.offset <= next_offset
      /\ Relates(query.table, query.offset, query.total_rows, query.row_count, Answer)
      /\ query.offset + Answer <= next_offset => current_row + Found = Answer \/ errno = "lost"
  BY <1>1, ScrollerFacts, ReadingFacts
<1>3. /\ query.offset \in Nat /\ query.total_rows \in Nat /\ query.row_count \in Nat
      /\ next_offset \in Nat /\ Answer \in Nat /\ query.table \in Nat
      /\ chunk.base \in Nat /\ chunk.size \in Nat
  BY Numbers
<1>4. query.total_rows > 0 /\ query.total_rows - (next_offset - query.offset) <= 0
  BY <1>1 DEF LastChunk, Remaining
<1>5. Answer <= query.total_rows
  BY <1>2, <1>3, <1>4, AllAsked
<1>6. query.offset + Answer <= next_offset /\ next_offset <= next_offset'
  BY <1>1, <1>3, <1>4, <1>5
<1>7. Chunks'
  <2>1. /\ Sized(query) /\ (chunk.base + chunk.size <= query.offset + Answer \/ chunk.size = 0)
        /\ query.offset <= chunk.base /\ errno # "other"
        /\ \/ chunk.base + chunk.size = next_offset
           \/ query.offset + Answer <= chunk.base + chunk.size
           \/ errno = "lost"
    BY <1>2 DEF IInv, Chunks
  <2>2. query.offset + query.total_rows <= next_offset + query.row_count
    BY <1>3, <1>4
  <2>3. Answer' = Answer /\ Sized(query)'
    BY <1>1, <2>1 DEF Answer, Sized
  <2>4. query.offset + Answer <= chunk.base + chunk.size \/ errno = "lost"
    BY <1>6, <2>1
  <2>5. query.offset <= next_offset' /\ query.offset + Answer <= next_offset'
        /\ query.offset + query.total_rows <= next_offset'
    BY <1>1, <1>2, <1>3, <1>6, <2>2
  <2> QED BY <1>1, <1>2, <1>4, <2>1, <2>3, <2>4, <2>5 DEF Chunks
<1> QED BY <1>1, <1>2, <1>6, <1>7, StopsInPlace

LEMMA NextChunkFailsInv ==
  ASSUME TypeInv, IInv, Practices = {}, NEW e \in {"lost", "other"}, NextChunkFails(e)
  PROVE  IInv'
<1>1. /\ ScrollerMoves /\ ~(LastChunk(next_offset) /\ Remaining(next_offset) <= 0)
      /\ next_offset' = next_offset + query.row_count
      /\ limit_count' = ChunkCount(next_offset)
      /\ call' = [call EXCEPT !.stop = TRUE] /\ errno' = "lost"
      /\ UNCHANGED <<query, chunk, data_cursor, end_of_set, current_row, rows_found_in_set,
                     array_size, pc, fault>>
  BY DEF NextChunkFails
<1>2. Reading /\ query.kind = "scroller" /\ query.offset <= next_offset
  BY <1>1, ScrollerFacts, ReadingFacts
<1>3. query.offset \in Nat /\ query.row_count \in Nat /\ next_offset \in Nat
  BY Numbers
<1>4. Chunks'
  <2>1. /\ Sized(query) /\ (chunk.base + chunk.size <= query.offset + Answer \/ chunk.size = 0)
        /\ query.offset <= chunk.base
    BY <1>2 DEF IInv, Chunks
  <2>2. \/ limit_count' = query.row_count
        \/ query.total_rows > 0 /\ query.offset + query.total_rows <= next_offset'
    BY <1>1, NextIsDue, CountDue
  <2>3. Answer' = Answer /\ Sized(query)'
    BY <1>1, <2>1 DEF Answer, Sized
  <2>4. query.offset <= next_offset'
    BY <1>1, <1>2, <1>3
  <2> QED BY <1>1, <1>2, <2>1, <2>2, <2>3, <2>4 DEF Chunks
<1> QED BY <1>1, <1>2, <1>4, StopsInPlace

LEMMA NextChunkInv ==
  ASSUME TypeInv, IInv, NextChunk PROVE IInv'
<1> DEFINE count == ChunkCount(next_offset)
           size == Answered(query.table, next_offset, count)
           n == current_row + Found
<1>1. /\ ScrollerMoves /\ ~(LastChunk(next_offset) /\ Remaining(next_offset) <= 0)
      /\ errno # "lost" /\ next_offset' = next_offset + query.row_count
      /\ limit_count' = count /\ chunk' = [base |-> next_offset, size |-> size]
      /\ errno' = "none"
      /\ UNCHANGED <<query, current_row, rows_found_in_set, array_size, pc, fault>>
  BY DEF NextChunk
<1>2. /\ Reading /\ query.kind = "scroller" /\ query.offset <= next_offset
      /\ Relates(query.table, query.offset, query.total_rows, query.row_count, Answer)
      /\ query.offset + Answer <= next_offset => n = Answer
      /\ next_offset < query.offset + Answer => next_offset = query.offset + n
      /\ 0 <= current_row /\ n <= Answer /\ pc = "reading"
  BY <1>1, ScrollerFacts, ReadingFacts
<1>3. /\ query.offset \in Nat /\ query.total_rows \in Nat /\ query.row_count \in Nat
      /\ next_offset \in Nat /\ Answer \in Nat /\ query.table \in Nat
      /\ current_row \in Nat /\ Found \in Nat
  BY <1>2, Numbers
<1>4. count \in Nat
  BY <1>1, ChunkCountType, Types DEF TypeInv
<1>5. NextDue
  BY <1>1, NextIsDue
<1>6. Portion(query.offset, query.row_count, Answer, next_offset, size)
  <2>1. Due(query.offset, query.total_rows, query.row_count, next_offset, count)
    BY <1>5 DEF NextDue
  <2> HIDE DEF count
  <2> QED BY <1>2, <1>3, <1>4, <2>1, Part
<1>7. size \in Nat
  <2>1. query.table \in Int /\ next_offset \in Int /\ count \in Int
    BY <1>3, <1>4
  <2> HIDE DEF count
  <2> QED BY <2>1, AnsweredType
<1> HIDE DEF size
<1>8. chunk'.base = next_offset /\ chunk'.size = size
  BY <1>1
<1>9. Chunks'
  <2>1. limit_count' = query.row_count
          \/ (query.total_rows > 0 /\ query.offset + query.total_rows <= next_offset')
    BY <1>1, <1>5, CountDue
  <2>2. Answer' = Answer /\ Sized(query)'
    BY <1>1 DEF Answer, IInv, Chunks, Sized
  <2>3. /\ next_offset + size <= query.offset + Answer \/ size = 0
        /\ next_offset + size = next_offset'
             \/ (query.offset + Answer <= next_offset + size
                 /\ query.offset + Answer <= next_offset')
    BY <1>1, <1>6 DEF Portion
  <2>4. query.offset <= next_offset'
    BY <1>1, <1>2, <1>3
  <2> QED BY <1>1, <1>2, <1>8, <2>1, <2>2, <2>3, <2>4 DEF Chunks
<1>10. CASE size = 0
  <2>1. /\ data_cursor' = 0
        /\ call' = [call EXCEPT !.stop = TRUE, !.save = Outlived(call.save)]
    BY <1>10 DEF NextChunk, size
  <2>2. n = Answer /\ query.offset + n <= next_offset
    BY <1>2, <1>6, <1>10 DEF Portion
  <2>3. /\ call'.rows = call.rows /\ call'.status = call.status /\ call'.want = call.want
        /\ call'.array = call.array /\ call'.rc = call.rc /\ call'.stop
    <3>1. call \in Call
      BY Types DEF TypeInv
    <3> QED BY <2>1, <3>1 DEF Call
  <2>4. Found' = Found /\ Answer' = Answer /\ Progress' /\ RowsetExact' /\ EndOfData'
    BY <1>1, <1>2, <2>2, <2>3, Stops
  <2>5. At(data_cursor, current_row + Found)'
    <3>1. query.offset + n <= next_offset + 0
      BY <1>3, <2>2
    <3> QED BY <1>1, <1>8, <1>10, <2>1, <2>2, <2>4, <3>1 DEF At
  <2>6. Placed'
    BY <1>1, <1>2, <2>1, <2>4, <2>5 DEF Placed
  <2> QED BY <1>9, <2>4, <2>6 DEF IInv
<1>11. CASE size # 0
  <2> DEFINE row == next_offset + 1
  <2>1. /\ data_cursor' = 1
        /\ call' = [call EXCEPT !.rows = Append(call.rows, row), !.save = 1,
                      !.status = [call.status EXCEPT ![Found + 1] =
                                    IF row = query.bad THEN "error" ELSE "ok"]]
    BY <1>11 DEF NextChunk, size, Found
  <2>2. next_offset = query.offset + n /\ current_row + (Found + 1) <= Answer
    <3>1. next_offset + size <= query.offset + Answer
      BY <1>6, <1>11 DEF Portion
    <3>2. next_offset < query.offset + Answer
      BY <1>3, <1>7, <1>11, <3>1
    <3> QED BY <1>2, <1>3, <3>2
  <2>3. row \in Nat /\ row = query.offset + current_row + (Found + 1)
    BY <1>3, <2>2
  <2>4. /\ call'.rows = Append(call.rows, row)
        /\ call'.status = [call.status EXCEPT ![Found + 1] =
                             IF row = query.bad THEN "error" ELSE "ok"]
        /\ call'.want = call.want /\ call'.array = call.array /\ call'.rc = call.rc
        /\ call'.stop = call.stop
    <3>1. call \in Call
      BY Types DEF TypeInv
    <3> HIDE DEF row
    <3> QED BY <2>1, <3>1 DEF Call
  <2>5. Found' = Found + 1 /\ Progress' /\ RowsetExact' /\ EndOfData'
    <3> HIDE DEF row
    <3> QED BY <1>1, <1>2, <2>2, <2>3, <2>4, Delivers
  <2>6. current_row' + Found' = n + 1 /\ n + 1 > 0
    BY <1>1, <1>3, <2>5
  <2>7. At(data_cursor, current_row + Found)'
    <3>1. 1 \in 0 .. size /\ next_offset + 1 = query.offset + (n + 1)
      BY <1>3, <1>7, <1>11, <2>2
    <3> QED BY <1>1, <1>8, <2>1, <2>6, <3>1 DEF At
  <2>8. Placed'
    BY <1>1, <1>2, <2>6, <2>7 DEF Placed
  <2> QED BY <1>9, <2>5, <2>8 DEF IInv
<1> QED BY <1>10, <1>11

-----------------------------------------------------------------------------
(* After the loop                                                          *)
LEMMA FetchReturnsInv ==
  ASSUME TypeInv, IInv, FetchReturns PROVE IInv'
<1> DEFINE status == [i \in 1 .. MaxArray |->
                        IF i \in Len(call.rows) + 1 .. call.array
                        THEN RestStatus(i) ELSE call.status[i]]
           n == current_row + Found
<1>1. /\ pc = "reading" /\ ~Reading /\ rows_found_in_set' = Found
      /\ call' = [call EXCEPT !.rc = ReturnCode(Result), !.failed = (Result = "error"),
                    !.want = 0, !.save = Null, !.stop = FALSE, !.status = status]
      /\ pc' = "idle"
      /\ UNCHANGED <<query, chunk, current_row, array_size, next_offset, limit_count,
                     errno, fault>>
  BY DEF FetchReturns, Found
<1>2. /\ Result # "error" /\ query.kind # "stream" => end_of_set' = data_cursor
      /\ query.kind = "stream" => data_cursor' = data_cursor
  BY DEF FetchReturns
<1>3. /\ query.kind # "none" /\ current_row # -1 /\ n <= Answer
      /\ Found <= call.want /\ call.want <= call.array
      /\ call.want = call.array \/ (query.kind = "stored" /\ current_row + call.want = Answer)
      /\ call.stop => n = Answer \/ errno = "lost"
      /\ At(data_cursor, n)
  BY <1>1 DEF IInv, Progress, Placed
<1>4. /\ Found \in Nat /\ call.want \in Nat /\ call.array \in Nat /\ call.array <= MaxArray
      /\ Answer \in Nat /\ current_row \in Nat /\ MaxArray \in Nat
      /\ chunk.size \in Nat
  BY <1>3, Numbers, Constants
<1> HIDE DEF status
<1>5. /\ call'.rows = call.rows /\ call'.array = call.array /\ call'.rc = ReturnCode(Result)
      /\ call'.failed = (Result = "error") /\ call'.status = status
  <2>1. call \in Call
    BY Types DEF TypeInv
  <2> HIDE DEF Result, ReturnCode
  <2> QED BY <1>1, <2>1 DEF Call
<1>6. Found' = Found /\ Answer' = Answer /\ Chunks'
  BY <1>1, <1>5, SameChunks DEF IInv, Found
<1>7. ~call.stop => Found = call.want
  <2>1. ~(Found < call.want) \/ call.stop
    BY <1>1 DEF Reading, Found
  <2> QED BY <1>3, <1>4, <2>1
\* An incomplete rowset ends the answer, unless the connection was lost.
<1>8. Found < call.array => n = Answer \/ errno = "lost"
  BY <1>3, <1>4, <1>7
<1>9. call'.rc \in {"success", "info", "no_data"} => Found = call.array \/ errno # "lost"
  BY <1>5 DEF ReturnCode, Found
<1>10. Placed'
  <2>1. data_cursor \in 0 .. chunk.size /\ data_cursor # Null
    BY <1>3, <1>4 DEF At, Null
  <2>2. Result # "error" /\ query.kind # "stream" => End' = data_cursor
    BY <1>1, <1>2, <2>1 DEF End
  <2>3. query.kind = "stream" => At(data_cursor, current_row + Found)'
    BY <1>1, <1>2, <1>3, <1>6 DEF At
  <2>4. Result # "error" /\ query.kind # "stream" => At(End, current_row + Found)'
    BY <1>1, <1>3, <1>6, <2>2 DEF At
  <2>5. query.kind = "scroller" /\ n = 0 => At(0, 0)'
    BY <1>1, <1>6 DEF IInv, Placed, At
  <2> QED BY <1>1, <1>3, <1>5, <1>6, <2>3, <2>4, <2>5 DEF Placed
<1>11. Progress'
  BY <1>1, <1>3, <1>6 DEF Progress
<1>12. RowsetExact'
  BY <1>1, <1>5 DEF IInv, RowsetExact
<1>13. EndOfData'
  BY <1>1, <1>4, <1>5, <1>6, <1>8, <1>9 DEF EndOfData, Found, Answer
<1> QED BY <1>6, <1>10, <1>11, <1>12, <1>13 DEF IInv
-----------------------------------------------------------------------------
LEMMA NextInv ==
  ASSUME TypeInv, TypeInv', IInv, Practices = {}, [Next]_vars PROVE IInv'
<1>1. ASSUME NEW q \in Queries, NEW p \in Prefetch, Execute(q, p) PROVE IInv'
  BY <1>1, ExecuteInv
<1>2. CASE CloseCursor
  BY <1>2, CloseCursorInv
<1>3. ASSUME NEW n \in 1 .. MaxArray, SetArraySize(n) PROVE IInv'
  BY <1>3, SameCall DEF SetArraySize
<1>4. ASSUME NEW r \in Requests, Fetch(r[1], r[2]) PROVE IInv'
  BY <1>4, FetchInv
<1>5. CASE ReadRow
  BY <1>5, ReadRowInv
<1>6. CASE NoRow
  BY <1>6, NoRowInv
<1>7. CASE NoMoreChunks
  BY <1>7, NoMoreChunksInv
<1>8. CASE NextChunk
  BY <1>8, NextChunkInv
<1>9. ASSUME NEW e \in {"lost", "other"}, StreamFails(e) PROVE IInv'
  BY <1>9, StreamFailsInv
<1>10. ASSUME NEW e \in {"lost", "other"}, NextChunkFails(e) PROVE IInv'
  BY <1>10, NextChunkFailsInv
<1>11. CASE FetchReturns
  BY <1>11, FetchReturnsInv
<1>12. CASE UNCHANGED vars
  BY <1>12, SameCall DEF vars
<1> QED BY <1>1, <1>2, <1>3, <1>4, <1>5, <1>6, <1>7, <1>8, <1>9, <1>10, <1>11, <1>12 DEF Next

LEMMA Invariance == ASSUME Practices = {} PROVE Spec => []IInv
<1>1. TypeInv /\ TypeInv' /\ IInv /\ [Next]_vars => IInv'
  BY NextInv
<1> QED BY InitInv, TypeInvariance, <1>1, PTL DEF Spec

(* Wherever row_seek, data_seek or a new chunk of the scroller leaves the  *)
(* position, the buffers get the rows of the answer from current_row on.   *)
THEOREM Rowsets == ASSUME Practices = {} PROVE Spec => []RowsetExact
<1>1. IInv => RowsetExact
  BY DEF IInv
<1> QED BY <1>1, Invariance, PTL

(* SQL_NO_DATA and an incomplete rowset say that the answer ends there,    *)
(* also when the connection is lost in the middle of a stream or a chunk.  *)
THEOREM Completeness == ASSUME Practices = {} PROVE Spec => []EndOfData
<1>1. IInv => EndOfData
  BY DEF IInv
<1> QED BY <1>1, Invariance, PTL

-----------------------------------------------------------------------------
(* The rowset cursor                                                       *)
Run(k, n) == [i \in 1 .. n |-> k + i]

Rows == [i \in DOMAIN call.rows |-> call.rows[i] - query.offset]

LEMMA RunGrows ==
  ASSUME NEW k \in Int, NEW n \in Nat
  PROVE  /\ Run(k, 0) = <<>> /\ Len(Run(k, n)) = n
         /\ Run(k, n + 1) = Append(Run(k, n), k + n + 1)
<1>1. Run(k, n) \in Seq(Int) /\ Len(Run(k, n)) = n
  BY DEF Run
<1>2. Run(k, 0) = <<>>
  BY DEF Run
<1>3. Append(Run(k, n), k + n + 1) = Run(k, n + 1)
  BY <1>1 DEF Run
<1> QED BY <1>1, <1>2, <1>3

LEMMA RunMapped ==
  ASSUME NEW s \in Seq(Nat), NEW o \in Int, NEW k \in Int,
         \A i \in DOMAIN s : s[i] = o + k + i
  PROVE  [i \in DOMAIN s |-> s[i] - o] = Run(k, Len(s))
<1>1. DOMAIN s = 1 .. Len(s) /\ Len(s) \in Nat
  OBVIOUS
<1>2. \A i \in 1 .. Len(s) : s[i] - o = k + i
  <2> TAKE i \in 1 .. Len(s)
  <2>1. s[i] = o + k + i /\ i \in Int
    BY <1>1
  <2> QED BY <2>1
<1> QED BY <1>1, <1>2 DEF Run

LEMMA RowsAre ==
  ASSUME TypeInv, IInv PROVE Rows = Run(current_row, Found)
<1>1. call.rows \in Seq(Nat) /\ query.offset \in Int /\ current_row \in Int
  BY Numbers
<1>2. \A i \in DOMAIN call.rows : call.rows[i] = query.offset + current_row + i
  BY DEF IInv, RowsetExact
<1> QED BY <1>1, <1>2, RunMapped DEF Rows, Found

LEMMA NumbersNext ==
  ASSUME TypeInv'
  PROVE  /\ call'.rows \in Seq(Nat) /\ Found' \in Nat /\ Answer' \in Nat
         /\ query'.offset \in Int /\ current_row' \in Int /\ -1 <= current_row'
<1>1. call' \in Call /\ query' \in Query /\ current_row' \in Nat \cup {-1}
  BY DEF TypeInv, TypeOK
<1>2. PICK c \in Call : c = call'
  BY <1>1
<1>3. PICK q \in Query : q = query'
  BY <1>1
<1>4. c.rows \in Seq(Nat) /\ Len(c.rows) \in Nat
  BY CallFields
<1>5. q.offset \in Nat /\ AnswerSize(q) \in Nat
  BY QuerySizes
<1> QED BY <1>1, <1>2, <1>3, <1>4, <1>5 DEF Found, Answer

LEMMA RowsAreNext ==
  ASSUME TypeInv', IInv' PROVE Rows' = Run(current_row', Found')
<1>1. PICK s, o, k : s = call'.rows /\ o = query'.offset /\ k = current_row'
  OBVIOUS
<1>2. s \in Seq(Nat) /\ o \in Int /\ k \in Int
  BY <1>1, NumbersNext
<1>3. \A i \in DOMAIN s : s[i] = o + k + i
  BY <1>1 DEF IInv, RowsetExact
<1>4. [i \in DOMAIN s |-> s[i] - o] = Run(k, Len(s))
  BY <1>2, <1>3, RunMapped
<1> QED BY <1>1, <1>4 DEF Rows, Found

\* What a step does to what the application sees.
LEMMA OpenStep ==
  ASSUME TypeInv', IInv', current_row' = 0, Found' = 0 PROVE Cursor!Open
<1>1. Rows' = <<>>
  BY RowsAreNext, RunGrows
<1>2. Answer' \in Nat
  BY NumbersNext
<1> QED BY <1>1, <1>2 DEF Cursor!Open, Rows, Answer

LEMMA JumpStep ==
  ASSUME TypeInv', IInv', query.kind = "stored", query' = query, Found' = 0 PROVE Cursor!Jump
<1>1. Rows' = <<>>
  BY NumbersNext, RowsAreNext, RunGrows
<1>2. current_row' \in Int /\ -1 <= current_row'
  BY NumbersNext
<1>3. current_row' <= Answer
  <2>1. current_row' + Found' <= Answer'
    BY DEF IInv, Progress
  <2>2. Answer' = Answer
    BY DEF Answer
  <2> QED BY <1>2, <2>1, <2>2
<1> QED BY <1>1, <1>2, <1>3 DEF Cursor!Jump, Rows, Answer

LEMMA AdvanceStep ==
  ASSUME TypeInv, IInv, TypeInv', IInv', query' = query, 0 <= current_row,
         current_row' = current_row + Found, Found' = 0
  PROVE  Cursor!Advance
<1>1. Rows' = <<>>
  BY NumbersNext, RowsAreNext, RunGrows
<1>2. Len(Rows) = Found
  BY Numbers, RowsAre, RunGrows
<1>3. ~(current_row < 0)
  BY Numbers
<1> QED BY <1>1, <1>2, <1>3 DEF Cursor!Advance, Rows

LEMMA TakeStep ==
  ASSUME TypeInv, IInv, TypeInv', IInv', UNCHANGED <<query, current_row>>, 0 <= current_row,
         Found' = Found + 1
  PROVE  Cursor!Take
<1>1. current_row \in Int /\ Found \in Nat /\ Answer \in Int
  BY Numbers
<1>2. Rows = Run(current_row, Found) /\ Rows' = Run(current_row, Found + 1)
  BY RowsAre, RowsAreNext
<1>3. Len(Rows) = Found /\ Rows' = Append(Rows, current_row + Found + 1)
  BY <1>1, <1>2, RunGrows
<1>4. current_row + Found < Answer
  <2>1. current_row' + Found' <= Answer'
    BY DEF IInv, Progress
  <2>2. Answer' = Answer
    BY DEF Answer
  <2> QED BY <1>1, <2>1, <2>2
<1> QED BY <1>3, <1>4 DEF Cursor!Take, Rows, Answer

LEMMA StutterStep ==
  ASSUME TypeInv, IInv, TypeInv', IInv', UNCHANGED <<query, current_row>>, Found' = Found
  PROVE  UNCHANGED Cursor!vars
<1>1. Rows' = Rows
  BY RowsAre, RowsAreNext
<1> QED BY <1>1 DEF Cursor!vars, Rows

LEMMA RefinesNext ==
  ASSUME TypeInv, IInv, TypeInv', IInv', [Next]_vars
  PROVE  [Cursor!Next]_(Cursor!vars)
<1>0. call \in Call /\ pc \in {"idle", "reading"}
  BY Types DEF TypeInv
<1>1. ASSUME NEW q \in Queries, NEW p \in Prefetch, Execute(q, p) PROVE Cursor!Next
  <2>1. current_row' = 0 /\ call' = NoCall
    BY <1>1 DEF Execute
  <2> QED BY <2>1, NothingFetched, OpenStep DEF Cursor!Next
<1>2. ASSUME CloseCursor PROVE Cursor!Next
  <2>1. current_row' = 0 /\ call' = NoCall
    BY <1>2 DEF CloseCursor
  <2> QED BY <2>1, NothingFetched, OpenStep DEF Cursor!Next
<1>3. ASSUME NEW n \in 1 .. MaxArray, SetArraySize(n) PROVE UNCHANGED Cursor!vars
  <2>1. UNCHANGED <<query, current_row, call>>
    BY <1>3 DEF SetArraySize
  <2>2. Found' = Found
    BY <2>1 DEF Found
  <2> QED BY <2>1, <2>2, StutterStep
<1>4. ASSUME NEW r \in Requests, Fetch(r[1], r[2]) PROVE Cursor!Next
  <2> DEFINE t == Target(r[1], r[2])
  <2>1. /\ pc = "idle" /\ query' = query
        /\ FetchBeforeFirst(t) \/ FetchAfterLast(t) \/ FetchRows(t)
    BY <1>4 DEF Fetch
  <2>2. Found' = 0
    <3>1. call'.rows = <<>>
      BY <1>0, <2>1 DEF FetchBeforeFirst, FetchAfterLast, FetchRows, Call
    <3> QED BY <3>1 DEF Found
  <2>3. CASE query.kind = "stored"
    BY <2>1, <2>2, <2>3, JumpStep DEF Cursor!Next
  <2>4. CASE query.kind # "stored"
    <3>1. t = current_row + Found /\ 0 <= current_row
      <4>1. current_row # -1
        BY <2>4 DEF IInv, Progress
      <4> QED BY <1>4, <2>4, <4>1, Forward, Numbers
    <3> HIDE DEF t
    <3>2. 0 <= t /\ t \in Int
      <4>1. current_row \in Int /\ Found \in Nat
        BY Numbers
      <4> QED BY <3>1, <4>1
    <3>3. current_row' = t
      BY <2>1, <2>4, <3>2 DEF FetchBeforeFirst, FetchAfterLast, FetchRows
    <3> QED BY <2>1, <2>2, <3>1, <3>3, AdvanceStep DEF Cursor!Next
  <2> QED BY <2>3, <2>4
<1>5. ASSUME Reading, Found' = Found + 1, UNCHANGED <<query, current_row>> PROVE Cursor!Next
  BY <1>5, ReadingFacts, TakeStep DEF Cursor!Next
<1>6. ASSUME ReadRow PROVE Cursor!Next
  <2>1. Reading /\ UNCHANGED <<query, current_row>>
        /\ call'.rows = Append(call.rows, chunk.base + data_cursor + 1)
    BY <1>0, <1>6 DEF ReadRow, Call
  <2>2. Found' = Found + 1
    BY <2>1, Numbers DEF Found
  <2> QED BY <1>5, <2>1, <2>2
<1>7. ASSUME NoRow \/ NoMoreChunks \/ (\E e \in {"lost", "other"} : StreamFails(e) \/ NextChunkFails(e))
      PROVE  UNCHANGED Cursor!vars
  <2>1. UNCHANGED <<query, current_row>> /\ call' = [call EXCEPT !.stop = TRUE]
    BY <1>7 DEF NoRow, NoMoreChunks, StreamFails, NextChunkFails, stmtVars
  <2>2. Found' = Found
    BY <1>0, <2>1, StopFields DEF Found
  <2> QED BY <2>1, <2>2, StutterStep
<1>8. ASSUME NextChunk PROVE [Cursor!Next]_(Cursor!vars)
  <2>1. Reading /\ UNCHANGED <<query, current_row>>
    BY <1>8 DEF NextChunk, ScrollerMoves
  <2>2. call'.rows = call.rows \/ call'.rows = Append(call.rows, next_offset + 1)
    BY <1>0, <1>8 DEF NextChunk, Call
  <2>3. Found' = Found \/ Found' = Found + 1
    <3>1. call.rows \in Seq(Nat) /\ next_offset \in Nat
      BY Numbers
    <3>2. call.rows \in Seq(Nat) /\ next_offset + 1 \in Nat
      BY <3>1
    <3>3. Len(Append(call.rows, next_offset + 1)) = Len(call.rows) + 1
      BY <3>2
    <3> QED BY <2>2, <3>3 DEF Found
  <2> QED BY <1>5, <2>1, <2>3, StutterStep
<1>9. ASSUME FetchReturns PROVE UNCHANGED Cursor!vars
  <2>1. UNCHANGED <<query, current_row>> /\ call'.rows = call.rows
    BY <1>0, <1>9 DEF FetchReturns, Call
  <2>2. Found' = Found
    BY <2>1 DEF Found
  <2> QED BY <2>1, <2>2, StutterStep
<1>10. ASSUME UNCHANGED vars PROVE UNCHANGED Cursor!vars
  BY <1>10 DEF vars, Cursor!vars
<1> QED BY <1>1, <1>2, <1>3, <1>4, <1>6, <1>7, <1>8, <1>9, <1>10 DEF Next

(* Results that are streamed or prefetched deliver each row of the answer  *)
(* once and in order, and only a stored result goes elsewhere: fetching    *)
(* implements RowsetCursor.                                                *)
THEOREM Refinement == ASSUME Practices = {} PROVE Spec => ImplementsRowsetCursor
<1>1. Init => Cursor!Init
  <2> SUFFICES ASSUME Init PROVE Cursor!Init
    OBVIOUS
  <2>1. query = NoQuery /\ current_row = 0 /\ call.rows = <<>>
    BY DEF Init, NoCall
  <2>2. AnswerSize(query) = 0 /\ query.kind # "stored"
    BY <2>1, NoAnswer DEF NoQuery
  <2> QED BY <2>1, <2>2 DEF Cursor!Init
<1>2. TypeInv /\ IInv /\ TypeInv' /\ IInv' /\ [Next]_vars => [Cursor!Next]_(Cursor!vars)
  BY RefinesNext
<1> QED BY <1>1, <1>2, TypeInvariance, Invariance, PTL
           DEF Spec, ImplementsRowsetCursor, Cursor!Spec
=============================================================================
