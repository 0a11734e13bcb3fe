----------------------- MODULE PositionedUpdateProofs -----------------------
(***************************************************************************)
(* What TLAPS proves of PositionedUpdate for tables and rowsets of any     *)
(* size.  No operation leaves the result in memory, and the next rowset    *)
(* begins behind the last row seen: also when the application fetches a    *)
(* row again, or means another row than the first by WHERE CURRENT OF or   *)
(* SQL_ADD, and when the server refuses changes (MildUse).  Every          *)
(* operation finds the rows that the application means: in the careful     *)
(* use, also when the server refuses changes (NamedUse).  What SQL_SUCCESS *)
(* means is proved for the careful use alone (Practices = {}).             *)
(***************************************************************************)
EXTENDS PositionedUpdate, TLAPS, FiniteSetTheorems, WellFoundedInduction

Size == Len(res.rows)

(* The rowset the application sees is the part of the result from          *)
(* current_row on; a dynamic cursor has another result after deletions.    *)
Framed ==
  /\ Len(seen) = rows_found_in_set
  /\ \A i \in 1 .. rows_found_in_set :
       current_row + i <= Size /\ seen[i] = res.rows[current_row + i]

(* If cursor_row says that the result is at row i of the rowset, then      *)
(* data_cursor is there.                                                   *)
Located(i) ==
  res.cursor_row = current_row + i - 1 => res.data_cursor = current_row + i - 1

Changing == op.kind \in {"update", "delete"}

(* The uses in which memory is safe, and those in which the rows are the   *)
(* ones that the application means.                                        *)
MildUse == Practices \subseteq {"refetch", "position", "add_row", "errors"}
NamedUse == Practices \subseteq {"errors"}

Cursors ==
  /\ current_row = -1 => rows_found_in_set = 0
  /\ current_row <= Size /\ Size <= MaxRow /\ res.data_cursor <= Size
  /\ cursor_type = "none" => /\ op = NoOp /\ res.rows = <<>> /\ seen = <<>>
                             /\ current_row = 0 /\ rows_found_in_set = 0
  /\ cursor_type = "static" \/ deleted = {} \/ Changing => Framed
  /\ \A i \in 1 .. rows_found_in_set :
       /\ cursor_type = "dynamic" \/ "refetch" \notin Practices
       /\ cursor_type = "static" \/ (Changing /\ op.by = "setpos") \/ i = 1
       => Located(i)
  /\ rows_found_in_set > 0 /\ (cursor_type = "static" \/ deleted = {} \/ Changing) =>
       res.data_cursor < Size

(* The result of a dynamic cursor is what the server answers, until rows   *)
(* are deleted through it; and then still has what lies behind them.       *)
Dynamic ==
  cursor_type = "dynamic" =>
    /\ deleted = {} => res.rows = Answer
    /\ op.kind = "delete" /\ deleted = {} => op.affected = 0
    /\ op.kind = "delete" => op.by = "setpos"
    /\ op.kind # "add"
    /\ current_row + rows_found_in_set
         <= Cardinality(table) + (IF op.kind = "delete" THEN op.affected ELSE 0)

(* The operation under way: rows pos .. end are still to be changed.       *)
Operation ==
  /\ op.kind = "none" => op = NoOp
  /\ Changing =>
       /\ op.end <= rows_found_in_set /\ op.pos <= op.end + 1 /\ op.affected < op.pos
       /\ op.by = "current_of" => op.end = 1
       /\ last.rc = "none"
       /\ NamedUse => \A i \in op.pos .. op.end : seen[i] \in last.named
  /\ op.kind = "add" =>
       /\ op.pos <= op.end /\ op.end <= Len(op.new) /\ last.rc = "none"
       /\ NamedUse => \A i \in op.pos .. op.end : op.new[i] \in last.named

IInv ==
  /\ TypeOK /\ ~res.fault /\ Cursors /\ Dynamic /\ Operation
  /\ NamedUse => NamedRowsOnly

(* Without errors of the server, every row meant was changed, or is gone,  *)
(* or is still to come.                                                    *)
Accounted ==
  /\ SuccessMeansChanged
  /\ Changing =>
       /\ op.ok
       /\ \A x \in last.named : \/ x \in last.changed \cup last.missing
                                \/ \E i \in op.pos .. op.end : x = seen[i]
  /\ op.kind = "add" =>
       \A x \in last.named : x \in last.changed \/ \E i \in op.pos .. op.end : x = op.new[i]

(***************************************************************************)
(* Where the next rowset begins.  All rows are in order; and as many rows  *)
(* of the table as current_row and rows_found_in_set count, together, are  *)
(* not behind the last row seen, also after rows were deleted through a    *)
(* dynamic cursor: rows_found_in_set counts what is left of the rowset.    *)
(***************************************************************************)
Sorted(s) == \A i, j \in DOMAIN s : i < j => s[i] < s[j]

UpTo(m) == {x \in table : x <= m}

RowsSeen == current_row + rows_found_in_set - (IF op.kind = "delete" THEN op.affected ELSE 0)

Order ==
  /\ Sorted(res.rows) /\ Sorted(seen)
  /\ seen # <<>> => current_row # -1
  /\ cursor_type = "dynamic" /\ seen # <<>> =>
       Cardinality(UpTo(seen[Len(seen)])) = RowsSeen
-----------------------------------------------------------------------------
LEMMA LeastNumber ==
  ASSUME NEW T \in SUBSET Nat, T # {}
  PROVE  \E x \in T : \A y \in T : x <= y
<1> DEFINE R == OpToRel(<, Nat)
<1>1. \A x, y \in Nat : <<y, x>> \in R <=> y < x
  BY DEF OpToRel
<1>2. IsWellFoundedOn(R, Nat)
  BY NatLessThanWellFounded
<1> HIDE DEF R
<1>3. PICK x \in T : \A y \in T : <<y, x>> \notin R
  BY <1>2, WFMin
<1>4. \A y \in T : x <= y
  <2> TAKE y \in T
  <2>1. x \in Nat /\ y \in Nat /\ ~(y < x)
    BY <1>1, <1>3
  <2> QED BY <2>1
<1> QED BY <1>4

Listings(T) == {s \in [1 .. Cardinality(T) -> T] : Sorted(s)}

LEMMA RowsFinite ==
  ASSUME NEW T \in SUBSET Row
  PROVE  IsFiniteSet(T) /\ Cardinality(T) \in 0 .. MaxRow
<1>1. IsFiniteSet(Row) /\ Cardinality(Row) = MaxRow
  BY PositionedAssumption, FS_Interval DEF Row
<1>2. IsFiniteSet(T) /\ Cardinality(T) <= MaxRow
  BY <1>1, FS_Subset
<1> QED BY <1>2, FS_CardinalityType, PositionedAssumption

(* Every set of rows can be listed in order.  In a smallest counterexample *)
(* take the least row off, list the others and put it before them.         *)
LEMMA Listed == \A T \in SUBSET Row : Listings(T) # {}
<1> DEFINE Bad == {n \in Nat : \E T \in SUBSET Row : Cardinality(T) = n /\ Listings(T) = {}}
<1> SUFFICES ASSUME NEW S \in SUBSET Row, Listings(S) = {} PROVE FALSE
  OBVIOUS
<1>1. Bad \in SUBSET Nat /\ Bad # {}
  BY RowsFinite, PositionedAssumption
<1>2. PICK n \in Bad : \A m \in Bad : n <= m
  BY <1>1, LeastNumber
<1>3. PICK T \in SUBSET Row : Cardinality(T) = n /\ Listings(T) = {}
  BY <1>2
<1>4. T # {}
  <2>1. ASSUME T = {} PROVE FALSE
    <3>1. Cardinality(T) = 0
      BY <2>1, FS_EmptySet
    <3>2. <<>> \in [1 .. 0 -> T] /\ Sorted(<<>>)
      BY DEF Sorted
    <3> QED BY <1>3, <3>1, <3>2 DEF Listings
  <2> QED BY <2>1
<1>5. PICK x \in T : \A y \in T : x <= y
  BY <1>4, LeastNumber DEF Row
<1>6. IsFiniteSet(T) /\ Cardinality(T \ {x}) = n - 1 /\ n \in Nat \ {0}
  <2>1. IsFiniteSet(T) /\ Cardinality(T) \in Nat
    BY RowsFinite
  <2>2. Cardinality(T \ {x}) = Cardinality(T) - 1
    BY <2>1, FS_RemoveElement
  <2>3. Cardinality(T \ {x}) \in Nat
    BY RowsFinite
  <2> QED BY <1>3, <2>1, <2>2, <2>3
<1>7. PICK s \in [1 .. n - 1 -> T \ {x}] : Sorted(s)
  <2>1. n - 1 \notin Bad
    BY <1>2, <1>6
  <2>2. Listings(T \ {x}) # {}
    BY <1>6, <2>1
  <2> QED BY <1>6, <2>2 DEF Listings
<1> DEFINE t == [i \in 1 .. n |-> IF i = 1 THEN x ELSE s[i - 1]]
<1>8. t \in [1 .. n -> T]
  BY <1>6, <1>7
<1>9. Sorted(t)
  <2> SUFFICES ASSUME NEW i \in 1 .. n, NEW j \in 1 .. n, i < j PROVE t[i] < t[j]
    BY DEF Sorted
  <2>1. j - 1 \in 1 .. n - 1 /\ s[j - 1] \in T \ {x} /\ t[j] = s[j - 1]
    BY <1>6, <1>7
  <2>2. CASE i = 1
    <3>1. x <= s[j - 1] /\ x # s[j - 1] /\ x \in Int /\ s[j - 1] \in Int
      <4>1. x \in Row /\ s[j - 1] \in Row /\ s[j - 1] \in T /\ s[j - 1] # x
        BY <2>1
      <4> QED BY <1>5, <4>1 DEF Row
    <3> QED BY <2>1, <2>2, <3>1
  <2>3. CASE i # 1
    <3>1. i - 1 \in 1 .. n - 1 /\ i - 1 < j - 1 /\ DOMAIN s = 1 .. n - 1
      BY <1>6, <1>7, <2>3
    <3>2. s[i - 1] < s[j - 1]
      BY <1>7, <2>1, <3>1 DEF Sorted
    <3> QED BY <2>1, <2>3, <3>2
  <2> QED BY <2>2, <2>3
<1> QED BY <1>3, <1>8, <1>9 DEF Listings

LEMMA AnswerIs ==
  ASSUME table \in SUBSET Row
  PROVE  /\ Answer \in Seq(Row) /\ Len(Answer) = Cardinality(table)
         /\ Cardinality(table) \in 0 .. MaxRow /\ IsFiniteSet(table)
<1>1. Answer \in [1 .. Cardinality(table) -> table]
  <2>1. \E s \in [1 .. Cardinality(table) -> table] :
           \A i, j \in DOMAIN s : i < j => s[i] < s[j]
    BY Listed DEF Listings, Sorted
  <2> QED BY <2>1 DEF Answer
<1>2. IsFiniteSet(table) /\ Cardinality(table) \in 0 .. MaxRow /\ Cardinality(table) \in Nat
  BY RowsFinite, PositionedAssumption
<1>3. Answer \in [1 .. Cardinality(table) -> Row]
  BY <1>1
<1> HIDE DEF Answer
<1> QED BY <1>2, <1>3

-----------------------------------------------------------------------------
Results == [rows : Seq(Row), data_cursor : 0 .. MaxRow, cursor_row : -1 .. MaxRow,
            fault : BOOLEAN]
Ops == [kind : {"none", "update", "delete", "add"}, irow : 0 .. MaxArray,
        by : {"setpos", "current_of"}, new : Seq(Row),
        pos : 1 .. MaxArray + 1, end : 0 .. MaxArray, affected : 0 .. MaxArray, ok : BOOLEAN]
Reports == [named : SUBSET Row, changed : SUBSET Row, missing : SUBSET Row,
            rc : {"none", "success", "info", "error"}]

CursorTypes ==
  /\ cursor_type \in {"none", "static", "dynamic"}
  /\ array_size \in 1 .. MaxArray
  /\ current_row \in -1 .. MaxRow /\ rows_found_in_set \in 0 .. MaxArray
  /\ seen \in Seq(Row) /\ Len(seen) <= MaxArray /\ position \in 1 .. MaxArray

LEMMA Types ==
  TypeOK <=> /\ table \in SUBSET Row /\ res \in Results /\ CursorTypes
             /\ deleted \in SUBSET Row /\ op \in Ops /\ last \in Reports
BY DEF TypeOK, Results, Ops, Reports, CursorTypes

LEMMA Numbers ==
  /\ MaxRow \in Nat /\ MaxArray \in Nat /\ 1 <= MaxArray
  /\ 0 \in 0 .. MaxRow /\ -1 \in -1 .. MaxRow
<1>1. MaxRow \in Nat /\ MaxArray \in 1 .. UintSize - 1
  BY PositionedAssumption
<1>2. UintSize \in Nat
  BY SMT DEF UintSize
<1> QED BY <1>1, <1>2

LEMMA OpChange ==
  ASSUME NEW o \in Ops, NEW p \in 1 .. MaxArray + 1, NEW a \in 0 .. MaxArray, NEW ok \in BOOLEAN
  PROVE  [o EXCEPT !.pos = p, !.ok = ok, !.affected = a] \in Ops
BY DEF Ops

\* A difference that is not negative is not cut.
LEMMA NotCut == ASSUME NEW w \in Nat, NEW n \in 0 .. w - 1 PROVE n % w = n
OBVIOUS

LEMMA TargetType ==
  ASSUME NEW orientation \in {"next", "prior", "relative", "absolute"}, NEW irow \in 0 .. MaxRow + 1, NEW size \in Nat, array_size \in Int,
         current_row \in Int, rows_found_in_set \in Int
  PROVE  Target(orientation, irow, size) \in Int
<1>1. irow \in Int
  BY Numbers
<1> QED BY <1>1 DEF Target

LEMMA OpStart ==
  ASSUME NEW o \in Ops, NEW kind \in {"update", "delete"}
  PROVE  [o EXCEPT !.kind = kind, !.irow = 1, !.by = "current_of", !.pos = 1, !.end = 1] \in Ops
<1>1. 1 \in 0 .. MaxArray /\ 1 \in 1 .. MaxArray + 1 /\ kind \in {"none", "update", "delete", "add"}
  BY Numbers
<1> QED BY <1>1 DEF Ops

LEMMA Idles == NoOp \in Ops /\ NoReport \in Reports
BY Numbers DEF NoOp, NoReport, Ops, Reports

\* Walking to row i of the rowset.
LEMMA SetCurrentFinds ==
  ASSUME CursorTypes, NEW r \in Results, NEW i \in 1 .. MaxArray,
         current_row + i - 1 \in 0 .. Len(r.rows) - 1, Len(r.rows) <= MaxRow,
         r.cursor_row = current_row + i - 1 => r.data_cursor = current_row + i - 1
  PROVE  /\ SetCurrent(r, i) \in Results
         /\ SetCurrent(r, i).rows = r.rows /\ SetCurrent(r, i).fault = r.fault
         /\ SetCurrent(r, i).data_cursor = current_row + i - 1
         /\ SetCurrent(r, i).cursor_row = current_row + i - 1
<1> DEFINE n == current_row + i - 1
<1>1. i # 0 /\ n \in 0 .. MaxRow /\ n \in -1 .. MaxRow /\ Len(r.rows) \in Nat /\ Len(r.rows) > 0
      /\ n < Len(r.rows) /\ n \in Int
  BY Numbers DEF CursorTypes, Results
<1>2. CASE r.cursor_row = n
  BY <1>1, <1>2 DEF SetCurrent
<1>3. CASE r.cursor_row # n
  <2>1. SetCurrent(r, i) = [r EXCEPT !.data_cursor = n, !.cursor_row = n]
    <3>1. ~(Len(r.rows) > 0 /\ n > Len(r.rows)) /\ ~(Len(r.rows) = 0 \/ n < 0)
      BY <1>1
    <3> QED BY <1>1, <1>3, <3>1 DEF SetCurrent
  <2> QED BY <1>1, <2>1 DEF Results
<1> QED BY <1>2, <1>3

\* The result of a dynamic cursor is there again, at current_row.
LEMMA RefreshedIs ==
  ASSUME IInv, Idle
  PROVE  /\ Refreshed(res) \in Results /\ ~Refreshed(res).fault
         /\ cursor_type = "static" => Refreshed(res) = res
         /\ cursor_type = "dynamic" =>
              /\ Refreshed(res).rows = Answer /\ Len(Refreshed(res).rows) = Cardinality(table)
              /\ Refreshed(res).cursor_row = current_row
              /\ Refreshed(res).data_cursor = IF current_row < 0 THEN 0 ELSE current_row
         /\ current_row <= Len(Refreshed(res).rows) /\ Len(Refreshed(res).rows) \in 0 .. MaxRow
<1>0. table \in SUBSET Row /\ res \in Results /\ CursorTypes /\ ~res.fault
  BY Types DEF IInv
<1>1. CASE cursor_type = "static"
  <2>1. Len(res.rows) \in Nat
    BY <1>0 DEF Results
  <2> QED BY <1>0, <1>1, <2>1, Numbers DEF Refreshed, IInv, Cursors, Size
<1>2. CASE cursor_type = "dynamic"
  <2> DEFINE e == Executed(res)
  <2>1. Answer \in Seq(Row) /\ Len(Answer) = Cardinality(table) /\ Cardinality(table) \in 0 .. MaxRow
    BY <1>0, AnswerIs
  <2>2. e \in Results /\ e.rows = Answer /\ e.data_cursor = 0 /\ e.cursor_row = -1 /\ ~e.fault
    BY <1>0, <2>1, Numbers DEF Executed, Results
  <2>3. current_row <= Cardinality(table) /\ current_row \in -1 .. MaxRow
    <3>1. current_row + rows_found_in_set <= Cardinality(table) /\ rows_found_in_set \in Nat
      <4>1. op.kind = "none"
        BY DEF Idle, NoOp
      <4>2. rows_found_in_set \in Nat /\ current_row \in Int /\ Cardinality(table) \in Int
        BY <1>0, <2>1, Numbers DEF CursorTypes
      <4> QED BY <1>2, <4>1, <4>2 DEF IInv, Dynamic
    <3> QED BY <1>0, <2>1, <3>1, Numbers DEF CursorTypes
  <2> HIDE DEF e
  <2>4. CASE current_row = -1
    <3>1. SetCurrent(e, 0) = e
      BY <2>2, <2>4 DEF SetCurrent
    <3> QED BY <1>2, <2>1, <2>2, <2>3, <2>4, <3>1 DEF Refreshed, e
  <2>5. CASE current_row >= 0
    <3>1. SetCurrent(e, 0) = [e EXCEPT !.data_cursor = current_row, !.cursor_row = current_row]
      <4>1. ~(Len(e.rows) > 0 /\ current_row > Len(e.rows)) /\ current_row # -1
            /\ (Len(e.rows) = 0 => current_row = 0) /\ ~(current_row < 0)
        BY <2>1, <2>2, <2>3, <2>5
      <4> QED BY <2>2, <4>1 DEF SetCurrent
    <3>2. current_row \in 0 .. MaxRow
      BY <2>3, <2>5, Numbers
    <3>3. SetCurrent(e, 0) \in Results
      BY <2>2, <2>3, <3>1, <3>2 DEF Results
    <3>4. /\ SetCurrent(e, 0).rows = Answer /\ ~SetCurrent(e, 0).fault
          /\ SetCurrent(e, 0).cursor_row = current_row /\ SetCurrent(e, 0).data_cursor = current_row
      BY <2>2, <3>1 DEF Results
    <3> QED BY <1>2, <2>1, <2>3, <2>5, <3>3, <3>4 DEF Refreshed, e
  <2> QED BY <2>3, <2>4, <2>5, Numbers
<1> QED BY <1>0, <1>1, <1>2 DEF Idle, CursorTypes

LEMMA InvTypes ==
  ASSUME IInv
  PROVE  /\ table \in SUBSET Row /\ res \in Results /\ CursorTypes
         /\ deleted \in SUBSET Row /\ op \in Ops /\ last \in Reports /\ ~res.fault
BY Types DEF IInv

LEMMA TypesNext ==
  ASSUME (table \in SUBSET Row)', (res \in Results)', CursorTypes',
         (deleted \in SUBSET Row)', (op \in Ops)', (last \in Reports)'
  PROVE  TypeOK'
BY DEF TypeOK, Results, Ops, Reports, CursorTypes

LEMMA IdleOp ==
  /\ NoOp.kind = "none" /\ ~(NoOp.kind \in {"update", "delete"})
  /\ NoReport.named = {} /\ NoReport.changed = {} /\ NoReport.rc = "none"
BY DEF NoOp, NoReport

\* Nothing is under way, and nothing was.
LEMMA IdleAfter ==
  ASSUME op' = NoOp, last' = NoReport
  PROVE  Operation' /\ NamedRowsOnly' /\ Accounted'
BY IdleOp DEF Operation, NamedRowsOnly, SuccessMeansChanged, Changing, Accounted

\* Nothing is under way, and what was asked for was refused.
LEMMA RefusedAfter ==
  ASSUME op' = NoOp, last' = [NoReport EXCEPT !.rc = "error"]
  PROVE  Operation' /\ NamedRowsOnly' /\ Accounted'
<1>1. last'.named = {} /\ last'.changed = {} /\ last'.rc = "error"
  BY DEF NoReport
<1> QED BY <1>1, IdleOp DEF Operation, NamedRowsOnly, SuccessMeansChanged, Changing, Accounted

LEMMA ExecuteInv ==
  ASSUME IInv, NEW type \in {"static", "dynamic"}, NEW size \in 1 .. MaxArray, Execute(type, size)
  PROVE  IInv'
<1>0. table \in SUBSET Row /\ res \in Results /\ CursorTypes /\ ~res.fault
  BY InvTypes
<1>1. /\ cursor_type' = type /\ array_size' = size /\ res' = Executed(res)
      /\ current_row' = 0 /\ rows_found_in_set' = 0 /\ seen' = <<>> /\ position' = 1
      /\ deleted' = {} /\ last' = NoReport /\ table' = table /\ op' = op
  BY DEF Execute
<1>2. op' = NoOp /\ op'.kind = "none"
  BY <1>1, IdleOp DEF Execute, IInv, Cursors
<1>3. Answer \in Seq(Row) /\ Len(Answer) = Cardinality(table) /\ Cardinality(table) \in 0 .. MaxRow
  BY <1>0, AnswerIs
<1>4. Answer' = Answer
  BY <1>1 DEF Answer
<1>5. res' \in Results /\ ~res'.fault /\ res'.rows = Answer /\ res'.data_cursor = 0
  BY <1>0, <1>1, <1>3, Numbers DEF Executed, Results
<1>6. TypeOK'
  <2>1. CursorTypes'
    BY <1>1, Numbers DEF CursorTypes
  <2> QED BY <1>0, <1>1, <1>2, <1>5, <2>1, Idles, TypesNext
<1>7. Cursors'
  <2>1. Size' = Cardinality(table)
    BY <1>3, <1>5 DEF Size
  <2>2. Framed'
    BY <1>1 DEF Framed
  <2> QED BY <1>1, <1>2, <1>3, <1>5, <2>1, <2>2 DEF Cursors
<1>8. Dynamic'
  BY <1>1, <1>2, <1>3, <1>4, <1>5 DEF Dynamic
<1> QED BY <1>1, <1>2, <1>5, <1>6, <1>7, <1>8, IdleAfter DEF IInv

LEMMA CloseCursorInv ==
  ASSUME IInv, CloseCursor PROVE IInv'
<1>0. table \in SUBSET Row /\ res \in Results /\ CursorTypes /\ ~res.fault
  BY InvTypes
<1>1. /\ cursor_type' = "none" /\ array_size' = array_size
      /\ res' = [res EXCEPT !.rows = <<>>, !.data_cursor = 0, !.cursor_row = -1]
      /\ current_row' = 0 /\ rows_found_in_set' = 0 /\ seen' = <<>> /\ position' = 1
      /\ deleted' = {} /\ last' = NoReport /\ table' = table /\ op' = op /\ op = NoOp
  BY DEF CloseCursor, WithoutResult, Idle
<1>2. res' \in Results /\ ~res'.fault /\ res'.rows = <<>> /\ res'.data_cursor = 0
  <2>1. <<>> \in Seq(Row)
    OBVIOUS
  <2> QED BY <1>0, <1>1, <2>1, Numbers DEF Results
<1>3. TypeOK'
  <2>1. CursorTypes'
    BY <1>0, <1>1, Numbers DEF CursorTypes
  <2> QED BY <1>0, <1>1, <1>2, <2>1, Idles, TypesNext
<1>4. Cursors'
  BY <1>1, <1>2, IdleOp, Numbers DEF Cursors, Size, Framed
<1> QED BY <1>1, <1>2, <1>3, <1>4, IdleAfter DEF IInv, Dynamic

LEMMA RefreshFailsInv ==
  ASSUME IInv, RefreshFails PROVE IInv'
<1>0. table \in SUBSET Row /\ res \in Results /\ CursorTypes /\ ~res.fault
  BY InvTypes
<1>1. /\ cursor_type' = "none" /\ array_size' = array_size
      /\ res' = [res EXCEPT !.rows = <<>>, !.data_cursor = 0, !.cursor_row = -1]
      /\ current_row' = 0 /\ rows_found_in_set' = 0 /\ seen' = <<>> /\ position' = 1
      /\ deleted' = {} /\ table' = table /\ op' = op /\ op = NoOp
      /\ last' = [NoReport EXCEPT !.rc = "error"]
  BY DEF RefreshFails, WithoutResult, Idle
<1>2. res' \in Results /\ ~res'.fault /\ res'.rows = <<>> /\ res'.data_cursor = 0
  <2>1. <<>> \in Seq(Row)
    OBVIOUS
  <2> QED BY <1>0, <1>1, <2>1, Numbers DEF Results
<1>3. TypeOK'
  <2>1. CursorTypes'
    BY <1>0, <1>1, Numbers DEF CursorTypes
  <2>2. last' \in Reports
    BY <1>1, Idles DEF Reports
  <2> QED BY <1>0, <1>1, <1>2, <2>1, <2>2, Idles, TypesNext
<1>4. Cursors'
  BY <1>1, <1>2, IdleOp, Numbers DEF Cursors, Size, Framed
<1> QED BY <1>1, <1>2, <1>3, <1>4, RefusedAfter DEF IInv, Dynamic

LEMMA FetchInv ==
  ASSUME IInv, MildUse,
         NEW orientation \in {"next", "prior", "relative", "absolute"},
         NEW irow \in 0 .. MaxRow + 1, Fetch(orientation, irow)
  PROVE  IInv'
<1> DEFINE r == Refreshed(res)
           size == Len(r.rows)
           t == Target(orientation, irow, size)
           first == IF t > size THEN size ELSE t
           end == IF first + array_size > size THEN size ELSE first + array_size
<1>0. table \in SUBSET Row /\ res \in Results /\ CursorTypes /\ ~res.fault
  BY InvTypes
<1>1. Idle /\ op = NoOp /\ op.kind = "none" /\ cursor_type \in {"static", "dynamic"}
  BY <1>0, IdleOp DEF Fetch, Idle, CursorTypes
<1>2. /\ r \in Results /\ ~r.fault /\ size \in 0 .. MaxRow
      /\ cursor_type = "static" => r = res
      /\ cursor_type = "dynamic" => r.rows = Answer /\ size = Cardinality(table)
  BY <1>1, RefreshedIs
<1>3. /\ last' = NoReport /\ position' = 1 /\ deleted' = {}
      /\ table' = table /\ cursor_type' = cursor_type /\ array_size' = array_size /\ op' = op
      /\ t < 0 \/ NotRefetched(first, end)
      /\ current_row' = IF t < 0 THEN -1 ELSE first
      /\ rows_found_in_set' = IF t < 0 THEN 0 ELSE end - first
      /\ seen' = IF t < 0 THEN <<>> ELSE SubSeq(r.rows, first + 1, end)
      /\ res' = [r EXCEPT !.data_cursor = IF t < 0 THEN 0 ELSE first]
  BY <1>2 DEF Fetch
<1>4. t \in Int /\ size \in Nat /\ array_size \in 1 .. MaxArray
  <2>1. size \in Nat
    BY <1>2, Numbers
  <2>2. array_size \in Int /\ array_size \in 1 .. MaxArray /\ current_row \in Int
        /\ rows_found_in_set \in Int
    BY <1>0, Numbers DEF CursorTypes
  <2> HIDE DEF size
  <2> QED BY <2>1, <2>2, TargetType
<1>5. Answer' = Answer
  BY <1>3 DEF Answer
<1> HIDE DEF r, t
<1>6. CASE t < 0
  <2>1. /\ res' \in Results /\ ~res'.fault /\ res'.rows = r.rows /\ res'.data_cursor = 0
        /\ current_row' = -1 /\ rows_found_in_set' = 0 /\ seen' = <<>>
    BY <1>2, <1>3, <1>6, Numbers DEF Results
  <2>2. CursorTypes'
    BY <1>0, <1>3, <2>1, Numbers DEF CursorTypes
  <2>3. TypeOK'
    BY <1>0, <1>1, <1>3, <2>1, <2>2, Idles, TypesNext
  <2>4. Size' = size
    BY <2>1 DEF Size
  <2>5. Cursors'
    BY <1>1, <1>2, <1>3, <1>4, <2>1, <2>4 DEF Cursors, Framed
  <2>6. Dynamic'
    <3>1. cursor_type = "dynamic" => -1 + 0 <= Cardinality(table)
      BY <1>2, <1>4
    <3> QED BY <1>1, <1>2, <1>3, <1>5, <2>1, <3>1 DEF Dynamic
  <2> QED BY <1>1, <1>3, <2>1, <2>3, <2>5, <2>6, IdleAfter DEF IInv
<1>7. CASE t >= 0
  <2>1. first \in 0 .. size /\ end \in first .. size /\ end - first <= array_size
    BY <1>4, <1>7
  <2> HIDE DEF first, end
  <2>2. current_row' = first /\ rows_found_in_set' = end - first
        /\ seen' = SubSeq(r.rows, first + 1, end)
    <3>1. ~(t < 0)
      BY <1>4, <1>7
    <3> QED BY <1>3, <3>1 DEF first, end
  <2>3. /\ res' \in Results /\ ~res'.fault /\ res'.rows = r.rows /\ res'.data_cursor = first
        /\ res'.cursor_row = r.cursor_row
    <3>1. res' = [r EXCEPT !.data_cursor = first] /\ first \in 0 .. MaxRow
      <4>1. ~(t < 0) /\ first \in 0 .. MaxRow
        BY <1>2, <1>4, <1>7, <2>1, Numbers
      <4> QED BY <1>3, <4>1 DEF first
    <3> QED BY <1>2, <3>1 DEF Results
  <2>4. /\ Len(seen') = end - first /\ seen' \in Seq(Row)
        /\ \A i \in 1 .. end - first : seen'[i] = r.rows[first + i]
    <3>1. r.rows \in Seq(Row) /\ first \in Nat /\ end \in Nat /\ end <= Len(r.rows)
      BY <1>2, <1>4, <2>1 DEF Results
    <3> QED BY <2>1, <2>2, <3>1
  <2>5. CursorTypes'
    <3>1. first \in -1 .. MaxRow /\ end - first \in 0 .. MaxArray
      BY <1>2, <1>4, <2>1, Numbers
    <3>2. seen' \in Seq(Row) /\ Len(seen') <= MaxArray /\ position' \in 1 .. MaxArray
      BY <1>3, <2>4, <3>1, Numbers
    <3> QED BY <1>0, <1>3, <2>2, <3>1, <3>2 DEF CursorTypes
  <2>6. TypeOK'
    BY <1>0, <1>1, <1>3, <2>3, <2>5, Idles, TypesNext
  <2>7. Size' = size
    BY <2>3 DEF Size
  <2>8. Framed'
    BY <1>4, <2>1, <2>2, <2>3, <2>4, <2>7 DEF Framed
  <2>9. ASSUME NEW i \in 1 .. end - first, cursor_type = "static" \/ i = 1,
               cursor_type = "dynamic" \/ "refetch" \notin Practices
        PROVE  Located(i)'
    <3>1. CASE i = 1
      BY <1>4, <2>1, <2>2, <2>3, <3>1 DEF Located
    <3>2. CASE cursor_type = "static"
      <4>0. ~(t < 0)
        BY <1>4, <1>7
      <4>1. res.cursor_row \notin first .. end - 1 /\ res'.cursor_row = res.cursor_row
        BY <1>2, <1>3, <2>3, <2>9, <3>2, <4>0 DEF NotRefetched, first, end
      <4>2. first + i - 1 \in first .. end - 1
        BY <1>4, <2>1
      <4> QED BY <2>2, <4>1, <4>2 DEF Located
    <3> QED BY <2>9, <3>1, <3>2
  <2>10. Cursors'
    <3>1. cursor_type' = cursor_type /\ cursor_type # "none" /\ op'.kind = "none"
      BY <1>1, <1>3
    <3>2. /\ current_row' # -1 /\ current_row' <= Size' /\ Size' <= MaxRow
          /\ res'.data_cursor <= Size'
      <4>1. first \in Nat /\ size \in Nat /\ first <= size /\ size <= MaxRow /\ first # -1
        BY <1>2, <1>4, <2>1, Numbers
      <4> QED BY <2>2, <2>3, <2>7, <4>1
    <3>3. rows_found_in_set' > 0 => res'.data_cursor < Size'
      <4>1. first \in Nat /\ size \in Nat /\ end \in Nat /\ end <= size
        BY <1>4, <2>1
      <4> QED BY <2>2, <2>3, <2>7, <4>1
    <3>4. \A i \in 1 .. rows_found_in_set' :
            /\ cursor_type = "dynamic" \/ "refetch" \notin Practices
            /\ cursor_type = "static" \/ i = 1
            => Located(i)'
      BY <2>2, <2>9
    <3> QED BY <2>8, <3>1, <3>2, <3>3, <3>4 DEF Cursors, Changing
  <2>11. Dynamic'
    <3>1. cursor_type = "dynamic" => first + (end - first) <= Cardinality(table) + 0
      BY <1>2, <1>4, <2>1
    <3> QED BY <1>1, <1>2, <1>3, <1>5, <2>2, <2>3, <3>1 DEF Dynamic
  <2> QED BY <1>1, <1>3, <2>3, <2>6, <2>10, <2>11, IdleAfter DEF IInv
<1> QED BY <1>4, <1>6, <1>7

-----------------------------------------------------------------------------
(* Positioned operations. *)

\* Nothing but the place in the result, the position and the report changes.
LEMMA SetPositionInv ==
  ASSUME IInv, NEW irow \in 1 .. MaxArray, SetPosition(irow) PROVE IInv'
<1> DEFINE r == Refreshed(res)
           row == current_row + irow - 1
<1>0. table \in SUBSET Row /\ res \in Results /\ CursorTypes /\ ~res.fault /\ deleted \in SUBSET Row
  BY InvTypes
<1>1. Idle /\ op = NoOp /\ op.kind = "none" /\ cursor_type \in {"static", "dynamic"}
      /\ irow <= rows_found_in_set
  BY <1>0, IdleOp DEF SetPosition, Idle, CursorTypes
<1>2. /\ r \in Results /\ ~r.fault /\ Len(r.rows) \in 0 .. MaxRow /\ current_row <= Len(r.rows)
      /\ cursor_type = "static" => r = res
      /\ cursor_type = "dynamic" => r.rows = Answer /\ Len(r.rows) = Cardinality(table)
  BY <1>1, RefreshedIs
<1>3. row \in 0 .. Len(r.rows) - 1
  <2>1. current_row \in Int /\ rows_found_in_set \in Nat /\ current_row >= 0
    <3>1. current_row \in -1 .. MaxRow /\ rows_found_in_set \in Nat
      BY <1>0, Numbers DEF CursorTypes
    <3>2. current_row # -1
      BY <1>1, <3>1 DEF IInv, Cursors
    <3> QED BY <3>1, <3>2
  <2>2. CASE cursor_type = "static"
    <3>1. current_row + rows_found_in_set <= Len(res.rows)
      BY <1>1, <2>1, <2>2 DEF IInv, Cursors, Framed, Size
    <3> QED BY <1>1, <1>2, <2>1, <2>2, <3>1
  <2>3. CASE cursor_type = "dynamic"
    <3>1. current_row + rows_found_in_set <= Cardinality(table) + 0
      BY <1>1, <2>3 DEF IInv, Dynamic
    <3> QED BY <1>1, <1>2, <2>1, <2>3, <3>1
  <2> QED BY <1>1, <2>2, <2>3
<1>4. /\ table' = table /\ op' = op /\ seen' = seen /\ deleted' = deleted /\ UNCHANGED cursorVars
      /\ position' = irow /\ last' = NoReport
  BY DEF SetPosition
<1> HIDE DEF r, row
<1>5. res' = [r EXCEPT !.cursor_row = row, !.data_cursor = row]
  <2>1. ~(row > Len(r.rows))
    BY <1>2, <1>3
  <2> QED BY <1>2, <2>1 DEF SetPosition, r, row
<1>6. /\ res' \in Results /\ ~res'.fault /\ res'.rows = r.rows
      /\ res'.data_cursor = row /\ res'.cursor_row = row
  <2>1. row \in 0 .. MaxRow /\ row \in -1 .. MaxRow
    BY <1>2, <1>3, Numbers
  <2> QED BY <1>2, <1>5, <2>1 DEF Results
<1>7. TypeOK'
  <2>1. CursorTypes'
    BY <1>0, <1>4, Numbers DEF CursorTypes, cursorVars
  <2> QED BY <1>0, <1>1, <1>4, <1>6, <2>1, Idles, TypesNext
<1>8. cursor_type = "static" \/ deleted = {} => Framed /\ res'.rows = res.rows
  BY <1>1, <1>2, <1>6 DEF IInv, Cursors, Dynamic
<1>9. Framed /\ res'.rows = res.rows => Framed'
  BY <1>4 DEF Framed, cursorVars, Size
<1>10. \A i \in Nat : Located(i)'
  BY <1>0, <1>4, <1>6 DEF Located, cursorVars
<1>11. Cursors'
  <2>1. Size' = Len(r.rows) /\ row <= Len(r.rows) /\ Len(r.rows) <= MaxRow
    BY <1>2, <1>3, <1>6 DEF Size
  <2>2. \A i \in 1 .. rows_found_in_set' : Located(i)'
    BY <1>10
  <2>3. cursor_type' = "static" \/ deleted' = {} \/ Changing' => Framed'
    BY <1>1, <1>4, <1>8, <1>9 DEF cursorVars, Changing
  <2>4. row < Len(r.rows)
    <3>1. Len(r.rows) \in Nat /\ row \in Int
      BY <1>2, <1>3, Numbers
    <3> QED BY <1>3, <3>1
  <2> QED BY <1>1, <1>2, <1>4, <1>6, <2>1, <2>2, <2>3, <2>4 DEF IInv, Cursors, cursorVars
<1>12. Dynamic'
  <2>1. Answer' = Answer
    BY <1>4 DEF Answer
  <2> QED BY <1>1, <1>2, <1>4, <1>6, <2>1 DEF IInv, Dynamic, cursorVars
<1> QED BY <1>1, <1>4, <1>6, <1>7, <1>11, <1>12, IdleAfter DEF IInv

LEMMA SetPosInv ==
  ASSUME IInv, MildUse, NEW kind \in {"update", "delete"},
         NEW irow \in 0 .. MaxArray, SetPos(kind, irow)
  PROVE  IInv' /\ Accounted'
<1> DEFINE r == Refreshed(res)
           found == rows_found_in_set
           pos == IF irow = 0 THEN 1 ELSE irow
           end == IF irow = 0 THEN found ELSE irow
<1>0. table \in SUBSET Row /\ res \in Results /\ CursorTypes /\ ~res.fault /\ deleted \in SUBSET Row
  BY InvTypes
<1>1. Idle /\ op = NoOp /\ op.kind = "none" /\ cursor_type \in {"static", "dynamic"}
      /\ irow <= found /\ found > 0 /\ (cursor_type = "dynamic" => deleted = {})
  BY <1>0, IdleOp DEF SetPos, Idle, CursorTypes, Careful, MildUse
<1>2. /\ r \in Results /\ ~r.fault /\ Len(r.rows) \in 0 .. MaxRow
      /\ cursor_type = "static" => r = res
      /\ cursor_type = "dynamic" =>
           /\ r.rows = Answer /\ r.cursor_row = current_row
           /\ r.data_cursor = IF current_row < 0 THEN 0 ELSE current_row
  BY <1>1, RefreshedIs
<1>3. found \in 1 .. MaxArray /\ current_row \in 0 .. MaxRow
  <2>1. found \in 0 .. MaxArray /\ current_row \in -1 .. MaxRow
    BY <1>0 DEF CursorTypes
  <2>2. current_row # -1
    BY <1>1, <2>1, Numbers DEF IInv, Cursors
  <2> QED BY <1>1, <2>1, <2>2, Numbers
<1>4. Framed /\ r.rows = res.rows
  BY <1>1, <1>2 DEF IInv, Cursors, Dynamic
<1>5. pos \in 1 .. found /\ end \in pos .. found /\ LastRow(irow) = end
  BY <1>1, <1>3 DEF LastRow
<1>6. /\ res' = r /\ last' = [NoReport EXCEPT !.named = Named(irow)]
      /\ op' = [NoOp EXCEPT !.kind = kind, !.irow = irow, !.pos = pos, !.end = end]
      /\ position' = IF irow = 0 THEN position ELSE irow
      /\ table' = table /\ seen' = seen /\ deleted' = deleted /\ UNCHANGED cursorVars
  <2>1. (IF irow = 0 /\ LastRow(0) = 0 THEN 1 ELSE LastRow(irow)) = end
    BY <1>1, <1>3, <1>5 DEF LastRow
  <2> QED BY <2>1 DEF SetPos
<1>7. /\ op'.kind = kind /\ op'.pos = pos /\ op'.end = end /\ op'.by = "setpos" /\ op'.ok
      /\ op'.affected = 0
  BY <1>6 DEF NoOp
<1>8. /\ last'.named = Named(irow) /\ last'.changed = {} /\ last'.missing = {} /\ last'.rc = "none"
  BY <1>6 DEF NoReport
<1> HIDE DEF r, pos, end
<1>9. Len(seen) = found /\ seen \in Seq(Row) /\ DOMAIN seen = 1 .. found
  BY <1>0, <1>4 DEF Framed, CursorTypes
<1>10. Named(irow) = {seen[i] : i \in pos .. end} /\ Named(irow) \in SUBSET Row
  <2>1. CASE irow = 0
    BY <1>3, <1>9, <2>1 DEF Named, Range, pos, end
  <2>2. CASE irow # 0
    <3>1. irow \in DOMAIN seen /\ pos .. end = {irow}
      BY <1>1, <1>3, <1>9, <2>2 DEF pos, end
    <3> QED BY <1>9, <2>2, <3>1 DEF Named
  <2> QED BY <2>1, <2>2
<1>11. TypeOK'
  <2>1. CursorTypes'
    BY <1>0, <1>6, Numbers DEF CursorTypes, cursorVars
  <2>2. op' \in Ops
    <3>1. pos \in 1 .. MaxArray + 1 /\ end \in 0 .. MaxArray
      BY <1>3, <1>5, Numbers
    <3> QED BY <1>6, <3>1, Idles DEF Ops
  <2>3. last' \in Reports
    BY <1>6, <1>10, Idles DEF Reports
  <2> QED BY <1>0, <1>2, <1>6, <2>1, <2>2, <2>3, TypesNext
<1>12. Cursors'
  <2>1. Framed' /\ Size' = Size
    BY <1>4, <1>6 DEF Framed, Size, cursorVars
  <2>2. ASSUME NEW i \in 1 .. found, cursor_type = "dynamic" \/ "refetch" \notin Practices
        PROVE  Located(i)'
    <3>1. CASE cursor_type = "static"
      BY <1>2, <1>6, <2>2, <3>1 DEF IInv, Cursors, Located, cursorVars
    <3>2. CASE cursor_type = "dynamic"
      <4>1. res'.cursor_row = current_row /\ res'.data_cursor = current_row
        BY <1>2, <1>3, <1>6, <3>2, Numbers
      <4> QED BY <1>6, <4>1 DEF Located, cursorVars
    <3> QED BY <1>1, <3>1, <3>2
  <2>3. res'.data_cursor < Size' /\ res'.data_cursor <= Size'
    <3>1. res.data_cursor \in Nat /\ Size \in Nat
      BY <1>0, Numbers DEF Results, Size
    <3>2. CASE cursor_type = "static"
      BY <1>1, <1>2, <1>6, <2>1, <3>1, <3>2 DEF IInv, Cursors
    <3>3. CASE cursor_type = "dynamic"
      <4>1. res'.data_cursor = current_row
        BY <1>2, <1>3, <1>6, <3>3, Numbers
      <4>2. current_row + 1 <= Size
        BY <1>3, <1>4, Numbers DEF Framed
      <4> QED BY <1>3, <2>1, <3>1, <4>1, <4>2, Numbers
    <3> QED BY <1>1, <3>2, <3>3
  <2> QED BY <1>1, <1>6, <2>1, <2>2, <2>3 DEF IInv, Cursors, cursorVars
<1>13. Dynamic'
  <2>1. Answer' = Answer
    BY <1>6 DEF Answer
  <2>2. cursor_type = "dynamic" => current_row + rows_found_in_set <= Cardinality(table) + 0
    BY <1>1 DEF IInv, Dynamic
  <2> QED BY <1>1, <1>2, <1>6, <1>7, <2>1, <2>2 DEF Dynamic, cursorVars
<1>14. Operation' /\ Accounted'
  <2>1. /\ op'.end <= rows_found_in_set' /\ op'.pos <= op'.end + 1 /\ op'.affected < op'.pos
    BY <1>3, <1>5, <1>6, <1>7 DEF cursorVars
  <2>2. /\ \A i \in op'.pos .. op'.end : seen'[i] \in last'.named
        /\ \A x \in last'.named : \E i \in op'.pos .. op'.end : x = seen'[i]
    BY <1>6, <1>7, <1>8, <1>10
  <2>3. Operation'
    BY <1>7, <1>8, <2>1, <2>2 DEF Operation, Changing
  <2>4. Accounted'
    BY <1>7, <1>8, <2>2 DEF Accounted, Changing, SuccessMeansChanged
  <2> QED BY <2>3, <2>4
<1> QED BY <1>2, <1>6, <1>8, <1>11, <1>12, <1>13, <1>14 DEF IInv, NamedRowsOnly

LEMMA WhereCurrentOfInv ==
  ASSUME IInv, MildUse, NEW kind \in {"update", "delete"},
         WhereCurrentOf(kind)
  PROVE  IInv' /\ (NamedUse => Accounted')
<1>0. table \in SUBSET Row /\ res \in Results /\ CursorTypes /\ ~res.fault /\ deleted \in SUBSET Row
  BY InvTypes
<1>1. /\ op = NoOp /\ op.kind = "none" /\ cursor_type \in {"static", "dynamic"}
      /\ rows_found_in_set > 0 /\ (NamedUse => position = 1)
      /\ cursor_type = "dynamic" => deleted = {} /\ kind # "delete"
  BY <1>0, IdleOp DEF WhereCurrentOf, Idle, CursorTypes, Careful, MildUse, NamedUse
<1>2. /\ op' = [NoOp EXCEPT !.kind = kind, !.irow = 1, !.by = "current_of", !.pos = 1, !.end = 1]
      /\ last' = [NoReport EXCEPT !.named = Named(position)]
      /\ UNCHANGED <<table, res, cursorVars, seen, position, deleted>>
  BY DEF WhereCurrentOf
<1>3. /\ op'.kind = kind /\ op'.pos = 1 /\ op'.end = 1 /\ op'.by = "current_of" /\ op'.ok
      /\ op'.affected = 0
  BY <1>2 DEF NoOp
<1>4. Framed
  BY <1>1 DEF IInv, Cursors
<1>5. rows_found_in_set \in 1 .. MaxArray /\ DOMAIN seen = 1 .. rows_found_in_set
  BY <1>0, <1>1, <1>4, Numbers DEF Framed, CursorTypes
<1>6. Named(position) \in SUBSET Row /\ (NamedUse => Named(position) = {seen[1]})
  <2>1. 1 \in DOMAIN seen /\ position # 0
    BY <1>0, <1>5, Numbers DEF CursorTypes
  <2> QED BY <1>0, <1>1, <2>1 DEF Named, CursorTypes
<1>7. /\ (NamedUse => last'.named = {seen[1]}) /\ last'.changed = {} /\ last'.missing = {} /\ last'.rc = "none"
  BY <1>2, <1>6 DEF NoReport
<1>8. TypeOK'
  <2>1. op' \in Ops
    BY <1>2, Idles, OpStart
  <2>2. last' \in Reports
    BY <1>2, <1>6, Idles DEF Reports
  <2>3. CursorTypes'
    BY <1>0, <1>2 DEF CursorTypes, cursorVars
  <2> QED BY <1>0, <1>2, <2>1, <2>2, <2>3, TypesNext
<1>9. Cursors'
  <2>1. Framed' /\ Size' = Size
    BY <1>2, <1>4 DEF Framed, Size, cursorVars
  <2>2. \A i \in Nat : Located(i) => Located(i)'
    BY <1>2 DEF Located, cursorVars
  <2> QED BY <1>1, <1>2, <1>3, <2>1, <2>2 DEF IInv, Cursors, Changing, cursorVars
<1>10. Dynamic'
  <2>1. Answer' = Answer
    BY <1>2 DEF Answer
  <2>2. cursor_type = "dynamic" => current_row + rows_found_in_set <= Cardinality(table) + 0
    BY <1>1 DEF IInv, Dynamic
  <2> QED BY <1>1, <1>2, <1>3, <2>1, <2>2 DEF IInv, Dynamic, cursorVars
<1>11. Operation' /\ (NamedUse => Accounted')
  <2>1. op'.pos .. op'.end = {1}
    BY <1>3
  <2>2. op'.end <= rows_found_in_set'
    BY <1>2, <1>3, <1>5 DEF cursorVars
  <2>3. Operation'
    BY <1>2, <1>3, <1>7, <2>1, <2>2 DEF Operation, Changing
  <2>4. NamedUse => Accounted'
    BY <1>2, <1>3, <1>7, <2>1 DEF Accounted, Changing, SuccessMeansChanged
  <2> QED BY <2>3, <2>4
<1> QED BY <1>0, <1>2, <1>7, <1>8, <1>9, <1>10, <1>11 DEF IInv, NamedRowsOnly

(* One row.  It is the one that the application sees there.                *)
LEMMA ChangeRowIs ==
  ASSUME IInv, MildUse, NEW ok \in BOOLEAN, ChangeRow(ok)
  PROVE  LET row == res.rows[res'.data_cursor + 1]
             hit == ok /\ row \in table
         IN /\ op.kind \in {"update", "delete"} /\ op.pos \in 1 .. rows_found_in_set
            /\ current_row + op.pos <= Len(res.rows) /\ current_row \in 0 .. MaxRow
            /\ Framed /\ row \in Row
            /\ res' \in Results /\ res'.rows = res.rows /\ ~res'.fault
            /\ res'.data_cursor \in 0 .. Len(res.rows) - 1
            /\ res'.cursor_row = current_row + op.pos - 1
            /\ cursor_type = "dynamic" \/ "refetch" \notin Practices =>
                 res'.data_cursor = current_row + op.pos - 1 /\ row = seen[op.pos]
            /\ table' = IF hit /\ op.kind = "delete" THEN table \ {row} ELSE table
            /\ deleted' = IF hit /\ op.kind = "delete" THEN deleted \cup {row} ELSE deleted
            /\ op' = [op EXCEPT !.pos = op.pos + 1, !.ok = ok,
                        !.affected = IF hit THEN op.affected + 1 ELSE op.affected]
            /\ last' = [last EXCEPT !.changed = IF hit THEN last.changed \cup {row} ELSE last.changed,
                          !.missing = IF ok /\ ~hit THEN last.missing \cup {row} ELSE last.missing]
            /\ UNCHANGED <<cursorVars, seen, position>>
            /\ op'.kind = op.kind
            /\ op'.affected = IF hit THEN op.affected + 1 ELSE op.affected
<1> DEFINE r == SetCurrent(res, op.pos)
           row == r.rows[r.data_cursor + 1]
           hit == ok /\ row \in table
<1>0. table \in SUBSET Row /\ res \in Results /\ CursorTypes /\ ~res.fault /\ deleted \in SUBSET Row
      /\ op \in Ops /\ last \in Reports
  BY InvTypes
<1>1. Changing /\ op.pos <= op.end /\ op.kind \in {"update", "delete"}
  BY <1>0 DEF ChangeRow, Running, Changing, Ops
<1>2. /\ op.end <= rows_found_in_set /\ op.affected < op.pos
      /\ op.by = "current_of" => op.end = 1
      /\ last.rc = "none"
  BY <1>1 DEF IInv, Operation
<1>3. /\ op.pos \in 1 .. MaxArray /\ op.end \in op.pos .. MaxArray
      /\ op.affected \in 0 .. MaxArray - 1 /\ op.pos \in 1 .. rows_found_in_set
  <2>1. op.pos \in Nat /\ op.pos >= 1 /\ op.end \in Nat /\ op.end <= MaxArray /\ op.affected \in Nat
        /\ rows_found_in_set \in Nat
    BY <1>0, Numbers DEF Ops, CursorTypes
  <2> QED BY <1>1, <1>2, <2>1, Numbers
<1>4. Framed /\ Len(res.rows) <= MaxRow
  BY <1>1 DEF IInv, Cursors, Size
<1>5. current_row + op.pos <= Len(res.rows) /\ seen[op.pos] = res.rows[current_row + op.pos]
  BY <1>3, <1>4 DEF Framed, Size
<1>6. current_row \in 0 .. MaxRow
  <2>1. current_row \in -1 .. MaxRow /\ current_row # -1
    BY <1>0, <1>3 DEF IInv, Cursors, CursorTypes
  <2> QED BY <2>1, Numbers
<1>7. /\ cursor_type = "dynamic" \/ "refetch" \notin Practices => Located(op.pos)
      /\ res.data_cursor < Len(res.rows)
  <2>1. op.by = "setpos" \/ op.pos = 1
    BY <1>0, <1>2, <1>3 DEF Ops
  <2>2. rows_found_in_set > 0
    BY <1>0, <1>3, Numbers DEF CursorTypes
  <2> QED BY <1>1, <1>3, <2>1, <2>2 DEF IInv, Cursors, Size
<1>8. /\ r \in Results /\ r.rows = res.rows /\ ~r.fault
      /\ r.data_cursor \in 0 .. Len(res.rows) - 1 /\ r.cursor_row = current_row + op.pos - 1
      /\ cursor_type = "dynamic" \/ "refetch" \notin Practices =>
           r.data_cursor = current_row + op.pos - 1
  <2>1. Len(res.rows) \in Nat /\ current_row + op.pos - 1 \in 0 .. Len(res.rows) - 1
    <3>1. Len(res.rows) \in Nat /\ op.pos \in Nat /\ op.pos >= 1
      BY <1>0, <1>3, Numbers DEF Results
    <3> QED BY <1>5, <1>6, <3>1, Numbers
  <2>2. CASE res.cursor_row = current_row + op.pos - 1 => res.data_cursor = current_row + op.pos - 1
    BY <1>0, <1>3, <1>4, <2>1, <2>2, SetCurrentFinds
  <2>3. CASE res.cursor_row = current_row + op.pos - 1 /\ "refetch" \in Practices
             /\ cursor_type # "dynamic"
    <3>1. r = res
      BY <1>3, <2>3, Numbers DEF SetCurrent
    <3>2. res.data_cursor \in Nat
      BY <1>0, Numbers DEF Results
    <3> QED BY <1>0, <1>7, <2>1, <2>3, <3>1, <3>2
  <2> QED BY <1>7, <2>2, <2>3 DEF Located
<1> HIDE DEF r
<1>9. row \in Row /\ (cursor_type = "dynamic" \/ "refetch" \notin Practices => row = seen[op.pos])
  <2>1. r.data_cursor + 1 \in 1 .. Len(res.rows) /\ res.rows \in Seq(Row)
    BY <1>0, <1>8, Numbers DEF Results
  <2>2. r.data_cursor = current_row + op.pos - 1 => r.data_cursor + 1 = current_row + op.pos
    BY <1>3, <1>6, <1>8, Numbers
  <2> QED BY <1>5, <1>8, <2>1, <2>2
<1>10. /\ res' = r
       /\ table' = IF hit /\ op.kind = "delete" THEN table \ {row} ELSE table
       /\ deleted' = IF hit /\ op.kind = "delete" THEN deleted \cup {row} ELSE deleted
       /\ op' = [op EXCEPT !.pos = op.pos + 1, !.ok = ok,
                   !.affected = IF hit THEN op.affected + 1 ELSE op.affected]
       /\ last' = [last EXCEPT !.changed = IF hit THEN last.changed \cup {row} ELSE last.changed,
                     !.missing = IF ok /\ ~hit THEN last.missing \cup {row} ELSE last.missing]
       /\ UNCHANGED <<cursorVars, seen, position>>
  <2>1. ~(r.fault \/ r.data_cursor = Len(res.rows))
    BY <1>0, <1>8, Numbers DEF Results
  <2> QED BY <1>0, <1>1, <1>8, <2>1 DEF ChangeRow, Deletes, Ops, Reports, r
<1>11. op'.kind = op.kind /\ op'.affected = IF hit THEN op.affected + 1 ELSE op.affected
  BY <1>0, <1>10 DEF Ops
<1>12. row = res.rows[res'.data_cursor + 1] /\ (hit <=> ok /\ row \in table)
  BY <1>8, <1>10
<1> HIDE DEF row, hit
<1> QED BY <1>1, <1>3, <1>4, <1>5, <1>6, <1>8, <1>9, <1>10, <1>11, <1>12

LEMMA ChangeRowInv ==
  ASSUME IInv, MildUse, NEW ok \in BOOLEAN, ChangeRow(ok) PROVE IInv'
<1> DEFINE row == res.rows[res'.data_cursor + 1]
           hit == ok /\ row \in table
<1>0. table \in SUBSET Row /\ res \in Results /\ CursorTypes /\ ~res.fault /\ deleted \in SUBSET Row
      /\ op \in Ops /\ last \in Reports
  BY InvTypes
<1>1. /\ op.kind \in {"update", "delete"} /\ op.pos \in 1 .. rows_found_in_set
      /\ current_row + op.pos <= Len(res.rows) /\ current_row \in 0 .. MaxRow
      /\ Framed /\ row \in Row
      /\ res' \in Results /\ res'.rows = res.rows /\ ~res'.fault
      /\ res'.data_cursor \in 0 .. Len(res.rows) - 1
      /\ res'.cursor_row = current_row + op.pos - 1
      /\ cursor_type = "dynamic" \/ "refetch" \notin Practices =>
           res'.data_cursor = current_row + op.pos - 1 /\ row = seen[op.pos]
      /\ table' = IF hit /\ op.kind = "delete" THEN table \ {row} ELSE table
      /\ deleted' = IF hit /\ op.kind = "delete" THEN deleted \cup {row} ELSE deleted
      /\ op' = [op EXCEPT !.pos = op.pos + 1, !.ok = ok,
                  !.affected = IF hit THEN op.affected + 1 ELSE op.affected]
      /\ last' = [last EXCEPT !.changed = IF hit THEN last.changed \cup {row} ELSE last.changed,
                    !.missing = IF ok /\ ~hit THEN last.missing \cup {row} ELSE last.missing]
      /\ UNCHANGED <<cursorVars, seen, position>>
  BY ChangeRowIs
<1>2. Changing /\ op.pos <= op.end
  BY <1>1 DEF ChangeRow, Changing
<1>3. /\ op.end <= rows_found_in_set /\ op.affected < op.pos
      /\ op.by = "current_of" => op.end = 1
      /\ last.rc = "none"
      /\ NamedUse => \A i \in op.pos .. op.end : seen[i] \in last.named
  BY <1>2 DEF IInv, Operation
<1>4. /\ op.pos \in 1 .. MaxArray /\ op.end \in op.pos .. MaxArray
      /\ op.affected \in 0 .. MaxArray - 1 /\ op.pos \in 1 .. rows_found_in_set
  <2>1. op.pos \in Nat /\ op.pos >= 1 /\ op.end \in Nat /\ op.end <= MaxArray /\ op.affected \in Nat
        /\ rows_found_in_set \in Nat
    BY <1>0, Numbers DEF Ops, CursorTypes
  <2> QED BY <1>2, <1>3, <2>1, Numbers
<1>5. NamedUse => row \in last.named
  <2>1. op.pos \in op.pos .. op.end
    BY <1>4
  <2>2. NamedUse => row = seen[op.pos]
    BY <1>1 DEF NamedUse
  <2> QED BY <1>3, <2>1, <2>2
<1>6. /\ op'.pos = op.pos + 1 /\ op'.kind = op.kind /\ op'.by = op.by
      /\ op'.end = op.end /\ op'.affected = IF hit THEN op.affected + 1 ELSE op.affected
  BY <1>0, <1>1 DEF Ops
<1>7. /\ last'.named = last.named /\ last'.rc = "none"
      /\ last'.changed = IF hit THEN last.changed \cup {row} ELSE last.changed
      /\ last'.missing = IF ok /\ ~hit THEN last.missing \cup {row} ELSE last.missing
  BY <1>0, <1>1, <1>3 DEF Reports
<1> HIDE DEF row, hit
<1>8. TypeOK'
  <2>1. op' \in Ops
    <3>1. op.pos + 1 \in 1 .. MaxArray + 1 /\ op.affected + 1 \in 0 .. MaxArray
          /\ op.affected \in 0 .. MaxArray
      BY <1>4, Numbers
    <3>2. PICK a \in 0 .. MaxArray :
            op' = [op EXCEPT !.pos = op.pos + 1, !.ok = ok, !.affected = a]
      BY <1>1, <3>1
    <3> QED BY <1>0, <3>1, <3>2, OpChange
  <2>2. last' \in Reports
    BY <1>0, <1>1 DEF Reports
  <2>3. CursorTypes'
    BY <1>0, <1>1 DEF CursorTypes, cursorVars
  <2> QED BY <1>0, <1>1, <2>1, <2>2, <2>3, TypesNext
<1>9. Cursors'
  <2>1. Framed' /\ Size' = Size
    BY <1>1 DEF Framed, Size, cursorVars
  <2>2. cursor_type = "dynamic" \/ "refetch" \notin Practices => \A i \in Nat : Located(i)'
    BY <1>1, <1>4, Numbers DEF Located, cursorVars
  <2>3. res'.data_cursor <= Size' /\ res'.data_cursor < Size'
    <3>1. Len(res.rows) \in Int
      BY <1>0, Numbers DEF Results
    <3>2. Size' = Len(res.rows)
      BY <2>1 DEF Size
    <3> QED BY <1>1, <3>1, <3>2
  <2>4. cursor_type # "none"
    BY <1>1, IdleOp DEF IInv, Cursors
  <2> QED BY <1>1, <2>1, <2>2, <2>3, <2>4 DEF IInv, Cursors, cursorVars
<1>10. Dynamic'
  <2> SUFFICES ASSUME cursor_type = "dynamic" PROVE Dynamic'
    BY <1>1 DEF Dynamic, cursorVars
  <2>1. /\ deleted = {} => res.rows = Answer
        /\ op.kind = "delete" /\ deleted = {} => op.affected = 0
        /\ op.kind = "delete" => op.by = "setpos"
        /\ current_row + rows_found_in_set
             <= Cardinality(table) + (IF op.kind = "delete" THEN op.affected ELSE 0)
    BY DEF IInv, Dynamic
  <2>2. CASE hit /\ op.kind = "delete"
    <3>1. deleted' # {} /\ table' = table \ {row} /\ row \in table
      BY <1>1, <2>2 DEF hit
    <3>2. Cardinality(table') = Cardinality(table) - 1 /\ Cardinality(table) \in Int
      BY <1>0, <3>1, RowsFinite, FS_RemoveElement
    <3>3. current_row + rows_found_in_set <= Cardinality(table') + op'.affected
      <4>1. rows_found_in_set \in Int /\ current_row \in Int
        BY <1>0, <1>1, Numbers DEF CursorTypes
      <4> QED BY <1>4, <1>6, <2>1, <2>2, <3>2, <4>1
    <3> QED BY <1>1, <1>2, <1>6, <2>1, <2>2, <3>1, <3>3 DEF Dynamic, cursorVars
  <2>3. CASE ~(hit /\ op.kind = "delete")
    <3>1. table' = table /\ deleted' = deleted
      BY <1>1, <2>3
    <3>2. Answer' = Answer
      BY <3>1 DEF Answer
    <3> QED BY <1>1, <1>2, <1>6, <2>1, <2>3, <3>1, <3>2 DEF Dynamic, cursorVars
  <2> QED BY <2>2, <2>3
<1>11. Operation'
  <2>1. /\ op'.end <= rows_found_in_set' /\ op'.pos <= op'.end + 1 /\ op'.affected < op'.pos
    <3>1. rows_found_in_set' = rows_found_in_set
      BY <1>1 DEF cursorVars
    <3>2. op.pos \in Int /\ op.end \in Int /\ op.affected \in Int /\ rows_found_in_set \in Int
      BY <1>0, Numbers DEF Ops, CursorTypes
    <3> QED BY <1>2, <1>3, <1>6, <3>1, <3>2
  <2>2. \A i \in op'.pos .. op'.end : i \in op.pos .. op.end
    BY <1>4, <1>6
  <2>3. NamedUse => \A i \in op'.pos .. op'.end : seen'[i] \in last'.named
    BY <1>1, <1>3, <1>7, <2>2
  <2> QED BY <1>2, <1>3, <1>6, <1>7, <2>1, <2>3 DEF Operation, Changing
<1>12. NamedUse => NamedRowsOnly'
  BY <1>5, <1>7 DEF IInv, NamedRowsOnly
<1> QED BY <1>1, <1>8, <1>9, <1>10, <1>11, <1>12 DEF IInv

LEMMA RowsLeftIs ==
  ASSUME IInv, ChangeReturns
  PROVE  /\ op.affected \in 0 .. rows_found_in_set /\ rows_found_in_set \in 0 .. MaxArray
         /\ MaxArray \in 0 .. UintSize - 1
         /\ RowsLeft(op.affected) = IF cursor_type = "dynamic" THEN rows_found_in_set - op.affected
                                    ELSE rows_found_in_set
<1>0. CursorTypes /\ op \in Ops
  BY InvTypes
<1>1. Changing /\ op.pos > op.end
  BY <1>0 DEF ChangeReturns, Running, Changing, Ops
<1>2. op.end <= rows_found_in_set /\ op.pos <= op.end + 1 /\ op.affected < op.pos
  BY <1>1 DEF IInv, Operation
<1>3. op.affected \in 0 .. rows_found_in_set /\ rows_found_in_set \in 0 .. MaxArray
      /\ MaxArray \in 0 .. UintSize - 1
  <2>1. op.affected \in Nat /\ op.pos \in Nat /\ op.end \in Nat /\ rows_found_in_set \in 0 .. MaxArray
    BY <1>0, Numbers DEF Ops, CursorTypes
  <2>2. MaxArray \in 0 .. UintSize - 1
    BY Numbers, PositionedAssumption
  <2> QED BY <1>2, <2>1, <2>2
<1>4. (rows_found_in_set - op.affected) % UintSize = rows_found_in_set - op.affected
  <2>1. UintSize \in Nat
    BY SMT DEF UintSize
  <2>2. rows_found_in_set - op.affected \in 0 .. UintSize - 1
    BY <1>3, <2>1
  <2> QED BY <2>1, <2>2, NotCut
<1> QED BY <1>3, <1>4 DEF RowsLeft

LEMMA ChangeReturnsInv ==
  ASSUME IInv, ChangeReturns PROVE IInv'
<1> DEFINE left == IF op.kind = "delete" /\ op.by = "setpos"
                   THEN RowsLeft(op.affected) ELSE rows_found_in_set
<1>0. table \in SUBSET Row /\ res \in Results /\ CursorTypes /\ ~res.fault /\ deleted \in SUBSET Row
      /\ op \in Ops /\ last \in Reports
  BY InvTypes
<1>1. Changing /\ op.pos > op.end
  BY <1>0 DEF ChangeReturns, Running, Changing, Ops
<1>2. /\ op.end <= rows_found_in_set /\ op.pos <= op.end + 1 /\ op.affected < op.pos
  BY <1>1 DEF IInv, Operation
<1>3. /\ op' = NoOp /\ rows_found_in_set' = left
      /\ last' = [last EXCEPT !.rc = IF ~op.ok THEN "error"
                                     ELSE IF op.by = "current_of" /\ op.affected = 0 THEN "info"
                                     ELSE "success"]
      /\ UNCHANGED <<table, res, cursor_type, array_size, current_row, seen, position, deleted>>
  BY DEF ChangeReturns
<1>4. op.affected \in 0 .. rows_found_in_set /\ rows_found_in_set \in 0 .. MaxArray
      /\ MaxArray \in 0 .. UintSize - 1
  BY RowsLeftIs
<1>5. left = IF cursor_type = "dynamic" /\ op.kind = "delete" /\ op.by = "setpos"
             THEN rows_found_in_set - op.affected ELSE rows_found_in_set
  BY RowsLeftIs
<1> HIDE DEF left
<1>6. left \in 0 .. MaxArray /\ left \in 0 .. rows_found_in_set
  <2>1. MaxArray \in Nat
    BY Numbers
  <2> QED BY <1>4, <1>5, <2>1
<1>7. TypeOK'
  <2>1. CursorTypes'
    BY <1>0, <1>3, <1>6 DEF CursorTypes
  <2>2. last' \in Reports
    BY <1>0, <1>3 DEF Reports
  <2> QED BY <1>0, <1>3, <2>1, <2>2, Idles, TypesNext
<1>8. NamedUse => NamedRowsOnly'
  <2>1. last'.named = last.named /\ last'.changed = last.changed
    BY <1>0, <1>3 DEF Reports
  <2> QED BY <2>1 DEF IInv, NamedRowsOnly
<1>9. op'.kind = "none" /\ ~Changing'
  BY <1>3, IdleOp DEF Changing
<1>10. cursor_type \in {"static", "dynamic"}
  BY <1>0, <1>1, IdleOp DEF IInv, Cursors, CursorTypes, Changing
<1>11. Framed
  BY <1>1 DEF IInv, Cursors
<1>12. cursor_type = "static" \/ deleted = {} => left = rows_found_in_set
  <2>1. CASE cursor_type = "static"
    BY <1>5, <2>1
  <2>2. CASE cursor_type = "dynamic" /\ deleted = {}
    <3>1. op.kind = "delete" => op.affected = 0
      BY <2>2 DEF IInv, Dynamic
    <3> QED BY <1>4, <1>5, <3>1
  <2> QED BY <1>10, <2>1, <2>2
<1>13. Cursors'
  <2>1. Size' = Size /\ (\A i \in Nat : Located(i) => Located(i)')
    BY <1>3 DEF Size, Located
  <2>2. cursor_type = "static" \/ deleted = {} => Framed'
    BY <1>3, <1>11, <1>12 DEF Framed, Size
  <2>3. current_row = -1 => left = 0
    BY <1>4, <1>6 DEF IInv, Cursors
  <2>4. \A i \in 1 .. left : i \in 1 .. rows_found_in_set /\ i \in Nat
    BY <1>4, <1>6
  <2>5. \A i \in 1 .. left :
          /\ cursor_type = "dynamic" \/ "refetch" \notin Practices
          /\ cursor_type = "static" \/ i = 1
          => Located(i)'
    BY <2>1, <2>4 DEF IInv, Cursors
  <2>6. left > 0 => res.data_cursor < Size
    <3>1. left > 0 => rows_found_in_set > 0
      BY <1>4, <1>6
    <3> QED BY <1>1, <3>1 DEF IInv, Cursors
  <2> QED BY <1>3, <1>9, <1>10, <2>1, <2>2, <2>3, <2>5, <2>6 DEF IInv, Cursors
<1>14. Dynamic'
  <2> SUFFICES ASSUME cursor_type = "dynamic" PROVE Dynamic'
    BY <1>3 DEF Dynamic
  <2>1. Answer' = Answer
    BY <1>3 DEF Answer
  <2>2. current_row + left <= Cardinality(table) + 0
    <3>1. op.kind = "delete" => op.by = "setpos"
      BY DEF IInv, Dynamic
    <3>2. current_row + rows_found_in_set
             <= Cardinality(table) + (IF op.kind = "delete" THEN op.affected ELSE 0)
      BY DEF IInv, Dynamic
    <3>3. current_row \in Int /\ Cardinality(table) \in Int
      BY <1>0, RowsFinite, Numbers DEF CursorTypes
    <3> QED BY <1>4, <1>5, <3>1, <3>2, <3>3
  <2> QED BY <1>3, <1>9, <2>1, <2>2 DEF IInv, Dynamic
<1>15. Operation'
  BY <1>3, <1>9 DEF Operation, Changing
<1> QED BY <1>0, <1>3, <1>7, <1>8, <1>13, <1>14, <1>15 DEF IInv

-----------------------------------------------------------------------------
(* Inserting, and other clients. *)
LEMMA AddInv ==
  ASSUME IInv, MildUse, NEW irow \in 0 .. array_size, NEW new \in NewRows,
         Add(irow, new)
  PROVE  IInv' /\ (NamedUse => Accounted')
<1>0. table \in SUBSET Row /\ res \in Results /\ CursorTypes /\ ~res.fault /\ deleted \in SUBSET Row
  BY InvTypes
<1>1. /\ op = NoOp /\ op.kind = "none" /\ cursor_type = "static" /\ res' = res
      /\ (NamedUse => irow \in {0, 1})
  <2>1. cursor_type = "static" /\ op = NoOp /\ (NamedUse => ~(irow > 1))
    BY <1>0 DEF Add, Idle, CursorTypes, MildUse, NamedUse
  <2>2. irow \in Nat
    BY <1>0, Numbers DEF CursorTypes
  <2> QED BY <2>1, <2>2, IdleOp DEF Add, Refreshed
<1>2. new \in Seq(Row) /\ Len(new) = array_size /\ DOMAIN new = 1 .. array_size
      /\ array_size \in 1 .. MaxArray /\ 1 <= array_size
  <2>1. new \in [1 .. array_size -> Row] /\ array_size \in Nat /\ array_size \in 1 .. MaxArray
    BY <1>0, Numbers DEF NewRows, CursorTypes
  <2> QED BY <2>1
<1> DEFINE end == IF irow = 0 THEN array_size ELSE 1
           named == IF irow = 0 THEN Range(new) ELSE {new[irow]}
<1>3. /\ NamedUse => named = {new[i] : i \in 1 .. end}
      /\ named \in SUBSET Row /\ end \in 1 .. MaxArray /\ end <= array_size
  <2>1. end \in 1 .. MaxArray /\ end <= array_size
    BY <1>2, Numbers
  <2>2. NamedUse => named = {new[i] : i \in 1 .. end}
    BY <1>1, <1>2 DEF Range
  <2>3. ASSUME irow = 0 PROVE named \in SUBSET Row
    BY <1>2, <2>3 DEF Range
  <2>4. ASSUME irow # 0 PROVE named \in SUBSET Row
    <3>1. irow \in 1 .. array_size
      BY <1>0, <2>4, Numbers DEF CursorTypes
    <3> QED BY <1>2, <2>4, <3>1
  <2> QED BY <2>1, <2>2, <2>3, <2>4
<1>4. /\ op' = [NoOp EXCEPT !.kind = "add", !.irow = irow, !.new = new, !.end = end]
      /\ last' = [NoReport EXCEPT !.named = named]
      /\ UNCHANGED <<table, cursorVars, seen, position, deleted>>
  BY <1>2 DEF Add
<1> HIDE DEF end, named
<1>5. op'.kind = "add" /\ op'.pos = 1 /\ op'.end = end /\ op'.new = new
  BY <1>4 DEF NoOp
<1>6. last'.named = named /\ last'.changed = {} /\ last'.rc = "none"
  BY <1>4 DEF NoReport
<1>7. TypeOK'
  <2>1. op' \in Ops
    <3>1. irow \in 0 .. MaxArray /\ end \in 0 .. MaxArray
      BY <1>2, <1>3, Numbers
    <3> QED BY <1>2, <1>4, <3>1, Idles DEF Ops
  <2>2. last' \in Reports
    BY <1>3, <1>4, Idles DEF Reports
  <2>3. CursorTypes'
    BY <1>0, <1>4 DEF CursorTypes, cursorVars
  <2> QED BY <1>0, <1>1, <1>4, <2>1, <2>2, <2>3, TypesNext
<1>8. Cursors'
  <2>1. Framed /\ (Framed => Framed') /\ Size' = Size /\ \A i \in Nat : Located(i) => Located(i)'
    BY <1>1, <1>4 DEF IInv, Cursors, Framed, Size, Located, cursorVars
  <2> QED BY <1>1, <1>4, <1>5, <2>1 DEF IInv, Cursors, Changing, cursorVars
<1>9. Dynamic' /\ Operation'
  BY <1>1, <1>2, <1>3, <1>4, <1>5, <1>6 DEF Dynamic, Operation, Changing, cursorVars
<1>10. NamedUse => Accounted'
  BY <1>3, <1>5, <1>6 DEF Accounted, Changing, SuccessMeansChanged
<1> QED BY <1>0, <1>1, <1>6, <1>7, <1>8, <1>9, <1>10 DEF IInv, NamedRowsOnly

LEMMA InsertRowsInv ==
  ASSUME IInv, MildUse, NEW end \in 1 .. MaxArray, NEW ok \in BOOLEAN,
         InsertRows(end, ok)
  PROVE  IInv'
<1> DEFINE rows == {op.new[i] : i \in op.pos .. end}
<1>0. table \in SUBSET Row /\ res \in Results /\ CursorTypes /\ ~res.fault /\ deleted \in SUBSET Row
      /\ op \in Ops /\ last \in Reports
  BY InvTypes
<1>1. op.kind = "add" /\ op.pos <= end /\ end <= op.end
  BY DEF InsertRows
<1>2. /\ op.end <= Len(op.new) /\ last.rc = "none"
      /\ NamedUse => \A i \in op.pos .. op.end : op.new[i] \in last.named
  BY <1>1 DEF IInv, Operation
<1>3. op.pos \in Nat /\ op.pos >= 1 /\ op.end \in Nat /\ op.end <= MaxArray /\ op.new \in Seq(Row)
      /\ Len(op.new) \in Nat
  BY <1>0, Numbers DEF Ops
<1>4. rows \in SUBSET Row /\ (NamedUse => rows \subseteq last.named)
  <2>1. \A i \in op.pos .. end : i \in 1 .. Len(op.new) /\ i \in op.pos .. op.end
    BY <1>1, <1>2, <1>3, Numbers
  <2> QED BY <1>2, <1>3, <2>1
<1>5. cursor_type = "static" /\ cursor_type' = cursor_type
  <2>1. cursor_type # "none"
    BY <1>1, IdleOp DEF IInv, Cursors
  <2>2. cursor_type # "dynamic"
    BY <1>1 DEF IInv, Dynamic
  <2> QED BY <1>0, <2>1, <2>2 DEF CursorTypes, InsertRows, cursorVars
<1>6. UNCHANGED <<res, cursorVars, seen, position, deleted>>
  BY DEF InsertRows
<1>7. CursorTypes' /\ Cursors' /\ Dynamic'
  <2>1. CursorTypes'
    BY <1>0, <1>6 DEF CursorTypes, cursorVars
  <2>2. Framed /\ (Framed => Framed') /\ Size' = Size /\ \A i \in Nat : Located(i) => Located(i)'
    BY <1>5, <1>6 DEF IInv, Cursors, Framed, Size, Located, cursorVars
  <2> QED BY <1>5, <1>6, <2>1, <2>2 DEF IInv, Cursors, Dynamic, cursorVars
<1>8. CASE ok /\ end = op.end
  <2>1. /\ table' = table \cup rows /\ op' = NoOp
        /\ last' = [last EXCEPT !.changed = last.changed \cup rows, !.rc = "success"]
    BY <1>0, <1>8 DEF InsertRows, Reports
  <2>2. last' \in Reports
    BY <1>0, <1>4, <2>1 DEF Reports
  <2>3. TypeOK'
    BY <1>0, <1>4, <1>6, <1>7, <2>1, <2>2, Idles, TypesNext
  <2>4. last'.named = last.named /\ last'.changed = last.changed \cup rows
    BY <1>0, <2>1 DEF Reports
  <2> QED BY <1>0, <1>4, <1>6, <1>7, <2>1, <2>3, <2>4, IdleOp
          DEF IInv, Operation, Changing, NamedRowsOnly
<1>9. CASE ok /\ end # op.end
  <2>1. /\ table' = table \cup rows /\ op' = [op EXCEPT !.pos = end + 1]
        /\ last' = [last EXCEPT !.changed = last.changed \cup rows]
    BY <1>0, <1>9 DEF InsertRows, Reports
  <2>2. /\ last' \in Reports /\ last'.named = last.named /\ last'.rc = "none"
        /\ last'.changed = last.changed \cup rows
    BY <1>0, <1>2, <1>4, <2>1 DEF Reports
  <2>3. op' \in Ops /\ op'.kind = "add" /\ op'.pos = end + 1 /\ op'.end = op.end /\ op'.new = op.new
    <3>1. end + 1 \in 1 .. MaxArray + 1
      BY Numbers
    <3> QED BY <1>0, <1>1, <2>1, <3>1 DEF Ops
  <2>4. TypeOK'
    BY <1>0, <1>4, <1>6, <1>7, <2>1, <2>2, <2>3, TypesNext
  <2>5. op'.pos <= op'.end /\ \A i \in op'.pos .. op'.end : i \in op.pos .. op.end
    BY <1>1, <1>3, <1>9, <2>3, Numbers
  <2>6. Operation'
    BY <1>2, <2>2, <2>3, <2>5 DEF Operation, Changing
  <2> QED BY <1>0, <1>4, <1>6, <1>7, <2>2, <2>4, <2>6
          DEF IInv, NamedRowsOnly
<1>10. CASE ~ok
  <2>1. table' = table /\ op' = NoOp /\ last' = [last EXCEPT !.rc = "error"]
    BY <1>10 DEF InsertRows
  <2>2. last' \in Reports /\ last'.named = last.named /\ last'.changed = last.changed
        /\ last'.rc = "error"
    BY <1>0, <2>1 DEF Reports
  <2>3. TypeOK'
    BY <1>0, <1>6, <1>7, <2>1, <2>2, Idles, TypesNext
  <2> QED BY <1>0, <1>6, <1>7, <2>1, <2>2, <2>3, IdleOp
          DEF IInv, Operation, Changing, NamedRowsOnly
<1> QED BY <1>8, <1>9, <1>10

LEMMA OthersChangeInv ==
  ASSUME IInv, MildUse, NEW r \in Row, OthersChange(r) PROVE IInv'
<1>0. table \in SUBSET Row /\ res \in Results /\ CursorTypes /\ ~res.fault /\ deleted \in SUBSET Row
      /\ op \in Ops /\ last \in Reports
  BY InvTypes
<1>1. UNCHANGED <<res, cursorVars, seen, position, deleted, op, last>> /\ cursor_type # "dynamic"
      /\ table' \in SUBSET Row
  BY <1>0 DEF OthersChange, MildUse
<1>2. TypeOK'
  BY <1>0, <1>1, TypesNext DEF CursorTypes, cursorVars
<1>3. Cursors'
  <2>1. (Framed => Framed') /\ Size' = Size /\ \A i \in Nat : Located(i) => Located(i)'
    BY <1>1 DEF Framed, Size, Located, cursorVars
  <2> QED BY <1>1, <2>1 DEF IInv, Cursors, Changing, cursorVars
<1>4. Dynamic' /\ Operation' /\ (NamedUse => NamedRowsOnly')
  BY <1>1 DEF IInv, Dynamic, Operation, Changing, NamedRowsOnly, cursorVars
<1> QED BY <1>0, <1>1, <1>2, <1>3, <1>4 DEF IInv

-----------------------------------------------------------------------------
(* The order of rows, and how many there are up to one of them.            *)

LEMMA ListingIs ==
  ASSUME NEW T \in SUBSET Row, NEW s \in Listings(T)
  PROVE  /\ DOMAIN s = 1 .. Cardinality(T)
         /\ \A i \in 1 .. Cardinality(T) : s[i] \in T /\ s[i] \in Int
<1>1. s \in [1 .. Cardinality(T) -> T]
  BY DEF Listings
<1>2. \A x \in Row : x \in Int
  BY Numbers DEF Row
<1> QED BY <1>1, <1>2

\* The first k rows of a listing are k.
LEMMA FirstRows ==
  ASSUME NEW T \in SUBSET Row, NEW s \in Listings(T), NEW k \in 0 .. Cardinality(T)
  PROVE  LET F == {s[i] : i \in 1 .. k} IN IsFiniteSet(F) /\ Cardinality(F) = k
<1> DEFINE F == {s[i] : i \in 1 .. k}
           f == [i \in 1 .. k |-> s[i]]
<1>1. Cardinality(T) \in Nat /\ k \in Nat /\ k <= Cardinality(T)
  BY RowsFinite, Numbers
<1>2. \A i \in 1 .. k : i \in DOMAIN s /\ s[i] \in Int /\ i \in Int
  BY <1>1, ListingIs
<1>3. \A i, j \in 1 .. k : s[i] = s[j] => i = j
  <2> SUFFICES ASSUME NEW i \in 1 .. k, NEW j \in 1 .. k, s[i] = s[j], i # j PROVE FALSE
    OBVIOUS
  <2>1. i < j \/ j < i
    BY <1>2
  <2>2. s[i] < s[j] \/ s[j] < s[i]
    BY <1>2, <2>1 DEF Listings, Sorted
  <2> QED BY <1>2, <2>2
<1>4. f \in Bijection(1 .. k, F)
  BY <1>3 DEF Bijection, Injection, Surjection, IsInjective
<1>5. IsFiniteSet(1 .. k) /\ Cardinality(1 .. k) = k
  <2>1. 1 \in Int /\ k \in Int /\ (IF 1 > k THEN 0 ELSE k - 1 + 1) = k
    BY <1>1
  <2> QED BY <2>1, FS_Interval
<1> QED BY <1>4, <1>5, FS_Bijection DEF ExistsBijection

\* Every row is in the listing.
LEMMA AllListed ==
  ASSUME NEW T \in SUBSET Row, NEW s \in Listings(T), NEW x \in T
  PROVE  \E i \in 1 .. Cardinality(T) : s[i] = x
<1> DEFINE n == Cardinality(T)
           F == {s[i] : i \in 1 .. n}
<1>1. IsFiniteSet(T) /\ n \in Nat
  BY RowsFinite, Numbers
<1> HIDE DEF n
<1>2. n \in 0 .. n
  BY <1>1
<1>3. Cardinality(F) = n
  BY <1>2, FirstRows DEF n
<1>4. F \in SUBSET T
  BY DEF Listings, n
<1>5. F = T
  BY <1>1, <1>3, <1>4, FS_Subset DEF n
<1> QED BY <1>5 DEF n

\* Of a listing, the rows up to m are a beginning, as long as they are many.
LEMMA CountUpTo ==
  ASSUME NEW T \in SUBSET Row, NEW s \in Listings(T), NEW m \in Int
  PROVE  LET U == {x \in T : x <= m} IN
         /\ \A i \in 1 .. Cardinality(T) : s[i] <= m <=> i <= Cardinality(U)
         /\ \A k \in 1 .. Cardinality(T) : m = s[k] => Cardinality(U) = k
<1> DEFINE U == {x \in T : x <= m}
           n == Cardinality(T)
           First(k) == {s[i] : i \in 1 .. k}
<1>1. n \in Nat /\ IsFiniteSet(U) /\ Cardinality(U) \in Nat
  BY RowsFinite, Numbers
<1>2. \A k \in 0 .. n : IsFiniteSet(First(k)) /\ Cardinality(First(k)) = k
  BY FirstRows
<1>3. DOMAIN s = 1 .. n /\ \A i \in 1 .. n : s[i] \in T /\ s[i] \in Int
  BY ListingIs
<1>4. \A i, j \in 1 .. n : i < j => s[i] < s[j]
  BY <1>3 DEF Listings, Sorted
<1>5. \A x \in T : \E i \in 1 .. n : s[i] = x
  BY AllListed
<1> HIDE DEF n
<1>6. ASSUME NEW k \in 1 .. n, s[k] <= m PROVE First(k) \in SUBSET U /\ k <= Cardinality(U)
  <2>1. ASSUME NEW i \in 1 .. k PROVE s[i] \in U
    <3>1. i \in 1 .. n /\ i \in Int /\ k \in Int /\ (i < k \/ i = k)
      BY <1>1
    <3>2. s[i] \in T /\ s[i] \in Int /\ s[k] \in Int /\ (s[i] < s[k] \/ s[i] = s[k])
      BY <1>3, <1>4, <3>1
    <3> QED BY <1>6, <3>2
  <2>2. First(k) \in SUBSET U
    BY <2>1
  <2>3. k \in 0 .. n
    BY <1>1
  <2>4. Cardinality(First(k)) = k
    BY <1>2, <2>3
  <2> HIDE DEF First, U
  <2> QED BY <1>1, <2>2, <2>4, FS_Subset
<1>7. ASSUME NEW k \in 1 .. n, ~(s[k] <= m)
      PROVE  U \in SUBSET First(k - 1) /\ Cardinality(U) < k
  <2>1. ASSUME NEW x \in U PROVE x \in First(k - 1)
    <3>1. PICK i \in 1 .. n : s[i] = x
      BY <1>5
    <3>2. s[i] \in Int /\ s[k] \in Int /\ s[i] <= m
      BY <1>3, <3>1
    <3>3. s[i] < s[k]
      BY <1>7, <3>2
    <3>4. i < k \/ i = k \/ k < i
      BY <1>1
    <3>5. i < k
      BY <1>4, <3>2, <3>3, <3>4
    <3>6. i \in 1 .. k - 1
      BY <1>1, <3>5
    <3> QED BY <3>1, <3>6
  <2>2. U \in SUBSET First(k - 1)
    BY <2>1
  <2>3. k - 1 \in 0 .. n /\ k \in Int
    BY <1>1
  <2>4. IsFiniteSet(First(k - 1)) /\ Cardinality(First(k - 1)) = k - 1
    BY <1>2, <2>3
  <2> HIDE DEF First, U
  <2>5. Cardinality(U) <= k - 1
    BY <2>2, <2>4, FS_Subset
  <2> QED BY <1>1, <2>2, <2>3, <2>5
<1>8. ASSUME NEW i \in 1 .. n PROVE s[i] <= m <=> i <= Cardinality(U)
  <2>1. i \in Int
    OBVIOUS
  <2> HIDE DEF U
  <2>2. CASE s[i] <= m
    BY <1>6, <2>2
  <2>3. CASE ~(s[i] <= m)
    BY <1>1, <1>7, <2>1, <2>3
  <2> QED BY <2>2, <2>3
<1>9. ASSUME NEW k \in 1 .. n, m = s[k] PROVE Cardinality(U) = k
  <2>1. k \in Int /\ s[k] \in Int
    BY <1>3
  <2>2. k <= Cardinality(U)
    BY <1>6, <1>9, <2>1
  <2>3. ASSUME k < Cardinality(U) PROVE FALSE
    <3>1. ASSUME k + 1 \in 1 .. n PROVE FALSE
      <4>1. s[k] < s[k + 1] /\ s[k + 1] \in Int
        BY <1>3, <1>4, <2>1, <3>1
      <4>2. ~(s[k + 1] <= m)
        BY <1>9, <2>1, <4>1
      <4>3. Cardinality(U) < k + 1
        BY <1>7, <3>1, <4>2
      <4> HIDE DEF U
      <4> QED BY <1>1, <2>1, <2>3, <4>3
    <3>2. Cardinality(U) <= n
      BY RowsFinite, FS_Subset DEF n
    <3> HIDE DEF U
    <3>3. k + 1 \in 1 .. n
      BY <1>1, <2>1, <2>3, <3>2
    <3> QED BY <3>1, <3>3
  <2> HIDE DEF U
  <2> QED BY <1>1, <2>1, <2>2, <2>3
<1> QED BY <1>8, <1>9 DEF n

\* What the server answers is a listing of the table.
LEMMA AnswerLists ==
  ASSUME table \in SUBSET Row
  PROVE  Answer \in Listings(table)
<1>1. \E s \in [1 .. Cardinality(table) -> table] :
         \A i, j \in DOMAIN s : i < j => s[i] < s[j]
  BY Listed DEF Listings, Sorted
<1> QED BY <1>1 DEF Answer, Listings, Sorted

LEMMA RefreshedSorted ==
  ASSUME IInv, Order, Idle PROVE Sorted(Refreshed(res).rows)
<1>1. table \in SUBSET Row /\ cursor_type \in {"static", "dynamic"}
  BY InvTypes DEF CursorTypes, Idle
<1>2. CASE cursor_type = "static"
  BY <1>2, RefreshedIs DEF Order
<1>3. CASE cursor_type = "dynamic"
  BY <1>1, <1>3, RefreshedIs, AnswerLists DEF Listings
<1> QED BY <1>1, <1>2, <1>3

LEMMA OrderTypes ==
  ASSUME IInv
  PROVE  /\ current_row \in Int /\ rows_found_in_set \in Int /\ op.affected \in Int
         /\ RowsSeen \in Int /\ array_size \in Int
<1>1. current_row \in Int /\ rows_found_in_set \in Int /\ op.affected \in Int /\ array_size \in Int
  BY InvTypes, Numbers DEF CursorTypes, Ops
<1> QED BY <1>1 DEF RowsSeen

\* The rowset stays, and so does what it leaves of the table.
LEMMA OrderKept ==
  ASSUME Order, Sorted(res'.rows), seen' = seen, current_row' = current_row,
         cursor_type' = cursor_type,
         cursor_type = "dynamic" => table' = table /\ RowsSeen' = RowsSeen
  PROVE  Order'
<1>1. Sorted(res.rows)' /\ Sorted(seen)' /\ (seen # <<>> => current_row # -1)'
  BY DEF Order, Sorted
<1>2. cursor_type = "dynamic" => UpTo(seen[Len(seen)])' = UpTo(seen[Len(seen)])
  BY DEF UpTo
<1> QED BY <1>1, <1>2 DEF Order

\* No rowset is there any more, or none yet.
LEMMA OrderFresh ==
  ASSUME Sorted(res'.rows), seen' = <<>> PROVE Order'
BY DEF Order, Sorted

LEMMA FetchIs ==
  ASSUME IInv, Order, NEW orientation \in {"next", "prior", "relative", "absolute"},
         NEW irow \in 0 .. MaxRow + 1, Fetch(orientation, irow)
  PROVE  LET r == Refreshed(res)
             size == Len(r.rows)
             t == Target(orientation, irow, size)
             first == IF t > size THEN size ELSE t
             end == IF first + array_size > size THEN size ELSE first + array_size
         IN /\ r.rows \in Seq(Row) /\ size \in Nat /\ Sorted(r.rows) /\ t \in Int
            /\ cursor_type = "static" => r = res
            /\ cursor_type = "dynamic" => r.rows = Answer /\ size = Cardinality(table)
            /\ cursor_type \in {"static", "dynamic"} /\ op.kind = "none"
            /\ res'.rows = r.rows /\ table' = table /\ op' = op
            /\ cursor_type' = cursor_type /\ array_size' = array_size
            /\ t < 0 => seen' = <<>>
            /\ t >= 0 => /\ first \in 0 .. size /\ end \in first .. size
                         /\ current_row' = first /\ rows_found_in_set' = end - first
                         /\ seen' = SubSeq(r.rows, first + 1, end)
<1> DEFINE r == Refreshed(res)
           size == Len(r.rows)
           t == Target(orientation, irow, size)
           first == IF t > size THEN size ELSE t
           end == IF first + array_size > size THEN size ELSE first + array_size
<1>0. table \in SUBSET Row /\ res \in Results /\ CursorTypes /\ ~res.fault
  BY InvTypes
<1>1. Idle /\ op = NoOp /\ op.kind = "none" /\ cursor_type \in {"static", "dynamic"}
  BY <1>0, IdleOp DEF Fetch, Idle, CursorTypes
<1>2. /\ r \in Results /\ ~r.fault /\ size \in 0 .. MaxRow
      /\ cursor_type = "static" => r = res
      /\ cursor_type = "dynamic" => r.rows = Answer /\ size = Cardinality(table)
  BY <1>1, RefreshedIs
<1>3. /\ table' = table /\ cursor_type' = cursor_type /\ array_size' = array_size /\ op' = op
      /\ current_row' = IF t < 0 THEN -1 ELSE first
      /\ rows_found_in_set' = IF t < 0 THEN 0 ELSE end - first
      /\ seen' = IF t < 0 THEN <<>> ELSE SubSeq(r.rows, first + 1, end)
      /\ res' = [r EXCEPT !.data_cursor = IF t < 0 THEN 0 ELSE first]
  BY <1>2 DEF Fetch
<1>4. t \in Int /\ size \in Nat /\ array_size \in 1 .. MaxArray
  <2>1. size \in Nat
    BY <1>2, Numbers
  <2>2. array_size \in Int /\ array_size \in 1 .. MaxArray /\ current_row \in Int
        /\ rows_found_in_set \in Int
    BY <1>0, Numbers DEF CursorTypes
  <2> HIDE DEF size
  <2> QED BY <2>1, <2>2, TargetType
<1>5. r.rows \in Seq(Row) /\ Sorted(r.rows) /\ res'.rows = r.rows
  BY <1>1, <1>2, <1>3, RefreshedSorted DEF Results
<1> HIDE DEF r, t
<1>6. t >= 0 => first \in 0 .. size /\ end \in first .. size /\ ~(t < 0)
  BY <1>4
<1> QED BY <1>1, <1>2, <1>3, <1>4, <1>5, <1>6 DEF r, t

LEMMA FetchOrder ==
  ASSUME IInv, Order, NEW orientation \in {"next", "prior", "relative", "absolute"},
         NEW irow \in 0 .. MaxRow + 1, Fetch(orientation, irow)
  PROVE  Order'
<1> DEFINE r == Refreshed(res)
           size == Len(r.rows)
           t == Target(orientation, irow, size)
           first == IF t > size THEN size ELSE t
           end == IF first + array_size > size THEN size ELSE first + array_size
<1>1. /\ r.rows \in Seq(Row) /\ size \in Nat /\ Sorted(r.rows) /\ t \in Int
      /\ cursor_type = "dynamic" => r.rows = Answer /\ size = Cardinality(table)
      /\ op.kind = "none" /\ res'.rows = r.rows /\ table' = table /\ op' = op
      /\ cursor_type' = cursor_type
      /\ t < 0 => seen' = <<>>
      /\ t >= 0 => /\ first \in 0 .. size /\ end \in first .. size
                   /\ current_row' = first /\ rows_found_in_set' = end - first
                   /\ seen' = SubSeq(r.rows, first + 1, end)
  BY FetchIs
<1> HIDE DEF r, t
<1>2. CASE t < 0
  BY <1>1, <1>2, OrderFresh
<1>3. CASE t >= 0
  <2> HIDE DEF first, end
  <2>1. first \in Int /\ end \in Int /\ 0 <= first /\ first <= end /\ end <= size
    BY <1>1, <1>3
  <2>2. /\ Len(seen') = end - first /\ DOMAIN seen' = 1 .. end - first
        /\ \A i \in 1 .. end - first : seen'[i] = r.rows[first + i]
    BY <1>1, <1>3, <2>1
  <2>3. Sorted(seen')
    <3> SUFFICES ASSUME NEW i \in 1 .. end - first, NEW j \in 1 .. end - first, i < j
                 PROVE  seen'[i] < seen'[j]
      BY <2>2 DEF Sorted
    <3>1. first + i \in 1 .. size /\ first + j \in 1 .. size /\ first + i < first + j
      BY <1>1, <2>1
    <3>2. DOMAIN r.rows = 1 .. size
      BY <1>1
    <3> QED BY <1>1, <2>2, <3>1, <3>2 DEF Sorted
  <2>4. current_row' # -1
    BY <1>1, <1>3, <2>1
  <2>5. ASSUME cursor_type = "dynamic", seen' # <<>>
        PROVE  Cardinality(UpTo(seen[Len(seen)]))' = RowsSeen'
    <3>1. end - first # 0
      BY <2>1, <2>2, <2>5
    <3>2. end - first \in 1 .. end - first /\ end \in 1 .. size /\ first + (end - first) = end
      BY <1>1, <2>1, <3>1
    <3>3. seen'[Len(seen')] = Answer[end]
      BY <1>1, <2>2, <2>5, <3>2
    <3>4. Answer \in Listings(table) /\ table \in SUBSET Row
      BY InvTypes, AnswerLists
    <3>5. end \in 1 .. Cardinality(table)
      BY <1>1, <2>5, <3>2
    <3>6. Answer[end] \in Int
      BY <3>4, <3>5, ListingIs
    <3>7. Cardinality({x \in table : x <= Answer[end]}) = end
      BY <3>4, <3>5, <3>6, CountUpTo
    <3>8. RowsSeen' = end
      BY <1>1, <1>3, <2>1 DEF RowsSeen
    <3> QED BY <1>1, <3>3, <3>7, <3>8 DEF UpTo
  <2> QED BY <1>1, <2>3, <2>4, <2>5 DEF Order
<1> QED BY <1>1, <1>2, <1>3

\* The row that is deleted was not behind the last one seen.
LEMMA ChangeRowOrder ==
  ASSUME IInv, MildUse, Order, NEW ok \in BOOLEAN, ChangeRow(ok) PROVE Order'
<1> DEFINE row == res.rows[res'.data_cursor + 1]
           hit == ok /\ row \in table
           m == seen[Len(seen)]
<1>1. /\ op.kind \in {"update", "delete"} /\ op.pos \in 1 .. rows_found_in_set
      /\ Framed /\ row \in Row /\ res'.rows = res.rows
      /\ table' = IF hit /\ op.kind = "delete" THEN table \ {row} ELSE table
      /\ UNCHANGED <<cursorVars, seen, position>>
      /\ cursor_type = "dynamic" => row = seen[op.pos]
      /\ op'.kind = op.kind
      /\ op'.affected = IF hit THEN op.affected + 1 ELSE op.affected
  BY ChangeRowIs
<1>2. table \in SUBSET Row /\ CursorTypes
  BY InvTypes
<1>3. UNCHANGED <<seen, current_row, cursor_type, rows_found_in_set>> /\ Sorted(res'.rows)
  BY <1>1 DEF cursorVars, Order
<1>4. CASE hit /\ op.kind = "delete" /\ cursor_type = "dynamic"
  <2>1. Len(seen) = rows_found_in_set /\ seen # <<>> /\ seen \in Seq(Row)
    BY <1>1, <1>2 DEF Framed, CursorTypes
  <2>2. op.pos \in 1 .. Len(seen) /\ Len(seen) \in 1 .. Len(seen)
        /\ (op.pos = Len(seen) \/ op.pos < Len(seen))
    BY <1>1, <2>1
  <2>3. row <= m
    <3>1. row \in Int /\ m \in Int
      BY <1>1, <2>1, <2>2, Numbers DEF Row
    <3>2. row = m \/ row < m
      BY <1>1, <1>4, <2>1, <2>2 DEF Order, Sorted
    <3> QED BY <3>1, <3>2
  <2>4. row \in UpTo(m) /\ UpTo(m)' = UpTo(m) \ {row}
    BY <1>1, <1>3, <1>4, <2>3 DEF UpTo
  <2>5. Cardinality(UpTo(m)') = Cardinality(UpTo(m)) - 1
    <3>1. UpTo(m) \in SUBSET Row
      BY <1>2 DEF UpTo
    <3>2. IsFiniteSet(UpTo(m))
      BY <3>1, RowsFinite
    <3>3. \A x \in UpTo(m) : Cardinality(UpTo(m) \ {x}) = Cardinality(UpTo(m)) - 1
      BY <3>2, FS_RemoveElement
    <3> QED BY <2>4, <3>3
  <2>6. RowsSeen' = RowsSeen - 1
    <3>1. /\ RowsSeen = current_row + rows_found_in_set - op.affected
          /\ RowsSeen' = current_row + rows_found_in_set - (op.affected + 1)
      BY <1>1, <1>3, <1>4 DEF RowsSeen
    <3>2. current_row \in Int /\ rows_found_in_set \in Int /\ op.affected \in Int
      BY OrderTypes
    <3> QED BY <3>1, <3>2
  <2>7. Cardinality(UpTo(m)) = RowsSeen
    BY <1>4, <2>1 DEF Order
  <2>8. (Cardinality(UpTo(m)) = RowsSeen)'
    BY <2>5, <2>6, <2>7
  <2>9. Sorted(res.rows)' /\ Sorted(seen)' /\ (seen # <<>> => current_row # -1)'
    BY <1>3 DEF Order, Sorted
  <2> QED BY <2>8, <2>9 DEF Order
<1>5. CASE ~(hit /\ op.kind = "delete" /\ cursor_type = "dynamic")
  <2>1. cursor_type = "dynamic" => table' = table /\ RowsSeen' = RowsSeen
    BY <1>1, <1>3, <1>5 DEF RowsSeen
  <2> QED BY <1>3, <2>1, OrderKept
<1> QED BY <1>4, <1>5

\* What is left of the rowset is what has been counted as seen.
LEMMA ChangeReturnsOrder ==
  ASSUME IInv, Order, ChangeReturns PROVE Order'
<1>1. /\ op.affected \in 0 .. rows_found_in_set /\ rows_found_in_set \in 0 .. MaxArray
      /\ RowsLeft(op.affected) = IF cursor_type = "dynamic" THEN rows_found_in_set - op.affected
                                 ELSE rows_found_in_set
  BY RowsLeftIs
<1>2. /\ op' = NoOp
      /\ rows_found_in_set' = IF op.kind = "delete" /\ op.by = "setpos"
                              THEN RowsLeft(op.affected) ELSE rows_found_in_set
      /\ UNCHANGED <<table, res, cursor_type, array_size, current_row, seen, position, deleted>>
  BY DEF ChangeReturns
<1>3. cursor_type = "dynamic" => RowsSeen' = RowsSeen
  <2> SUFFICES ASSUME cursor_type = "dynamic" PROVE RowsSeen' = RowsSeen
    OBVIOUS
  <2>1. op.kind = "delete" => op.by = "setpos"
    BY DEF IInv, Dynamic
  <2>2. RowsSeen' = current_row + rows_found_in_set' - 0
    BY <1>2, IdleOp DEF RowsSeen
  <2>3. current_row \in Int /\ rows_found_in_set \in Int /\ op.affected \in Int
    BY OrderTypes
  <2>4. CASE op.kind = "delete"
    <3>1. rows_found_in_set' = rows_found_in_set - op.affected
          /\ RowsSeen = current_row + rows_found_in_set - op.affected
      BY <1>1, <1>2, <2>1, <2>4 DEF RowsSeen
    <3> QED BY <2>2, <2>3, <3>1
  <2>5. CASE op.kind # "delete"
    <3>1. rows_found_in_set' = rows_found_in_set
          /\ RowsSeen = current_row + rows_found_in_set - 0
      BY <1>2, <2>5 DEF RowsSeen
    <3> QED BY <2>2, <3>1
  <2> QED BY <2>4, <2>5
<1> QED BY <1>2, <1>3, OrderKept DEF Order

\* An operation begins; it has not deleted anything yet.
LEMMA BeginOrder ==
  ASSUME IInv, Order, Idle, res' = res \/ res'.rows = Refreshed(res).rows,
         op'.kind = "delete" => op'.affected = 0,
         UNCHANGED <<table, cursorVars, seen>>
  PROVE  Order'
<1>1. Sorted(res'.rows)
  BY RefreshedSorted DEF Order
<1>2. op.kind = "none"
  BY IdleOp DEF Idle
<1>3. RowsSeen' = RowsSeen
  BY <1>2 DEF RowsSeen, cursorVars
<1> QED BY <1>1, <1>3, OrderKept DEF cursorVars

LEMMA InitOrder == Init => Order
BY DEF Init, Order, Sorted

LEMMA NextOrder ==
  ASSUME MildUse PROVE IInv /\ Order /\ [Next]_vars => Order'
<1> SUFFICES ASSUME IInv, Order, [Next]_vars PROVE Order'
  OBVIOUS
<1>1. CASE UNCHANGED vars
  BY <1>1, OrderKept DEF vars, Order, RowsSeen
<1>2. ASSUME NEW type \in {"static", "dynamic"}, NEW size \in 1 .. MaxArray, Execute(type, size)
      PROVE  Order'
  <2>1. res'.rows = Answer /\ seen' = <<>>
    BY <1>2, InvTypes DEF Execute, Executed, Results
  <2>2. Sorted(Answer)
    BY InvTypes, AnswerLists DEF Listings
  <2> QED BY <2>1, <2>2, OrderFresh
<1>3. CASE CloseCursor \/ RefreshFails
  <2>1. WithoutResult
    BY <1>3 DEF CloseCursor, RefreshFails
  <2>2. res'.rows = <<>> /\ seen' = <<>>
    BY <2>1, InvTypes DEF WithoutResult, Results
  <2>3. Sorted(<<>>)
    BY DEF Sorted
  <2> QED BY <2>2, <2>3, OrderFresh
<1>4. ASSUME NEW q \in Requests, Fetch(q[1], q[2]) PROVE Order'
  <2>1. q[1] \in {"next", "prior", "relative", "absolute"} /\ q[2] \in 0 .. MaxRow + 1
    BY Numbers DEF Requests
  <2> QED BY <1>4, <2>1, FetchOrder
<1>5. ASSUME NEW irow \in 1 .. MaxArray, SetPosition(irow) PROVE Order'
  <2>1. Idle /\ res'.rows = Refreshed(res).rows
    BY <1>5, RefreshedIs DEF SetPosition, Results
  <2>2. op'.kind = "delete" => op'.affected = 0
    BY <1>5, <2>1, IdleOp DEF SetPosition, Idle
  <2> QED BY <1>5, <2>1, <2>2, BeginOrder DEF SetPosition
<1>6. ASSUME NEW kind \in {"update", "delete"}, WhereCurrentOf(kind) PROVE Order'
  BY <1>6, BeginOrder DEF WhereCurrentOf, NoOp
<1>7. ASSUME NEW kind \in {"update", "delete"}, NEW irow \in 0 .. MaxArray, SetPos(kind, irow)
      PROVE  Order'
  BY <1>7, BeginOrder DEF SetPos, NoOp
<1>8. ASSUME NEW irow \in 0 .. array_size, NEW new \in NewRows, Add(irow, new) PROVE Order'
  BY <1>8, BeginOrder DEF Add, NoOp
<1>9. ASSUME NEW end \in 1 .. MaxArray, NEW ok \in BOOLEAN, InsertRows(end, ok) PROVE Order'
  <2>1. cursor_type # "dynamic"
    BY <1>9 DEF InsertRows, IInv, Dynamic
  <2> QED BY <1>9, <2>1, OrderKept DEF InsertRows, cursorVars, Order
<1>10. ASSUME NEW r \in Row, OthersChange(r) PROVE Order'
  BY <1>10, OrderKept DEF OthersChange, MildUse, cursorVars, Order
<1>11. CASE Next
  BY <1>2, <1>3, <1>4, <1>5, <1>6, <1>7, <1>8, <1>9, <1>10, <1>11, ChangeRowOrder,
     ChangeReturnsOrder DEF Next
<1> QED BY <1>1, <1>11

LEMMA Between ==
  ASSUME NEW t \in Nat, NEW end \in Nat, NEW n \in Nat, t <= end, end <= n
  PROVE  /\ \A i \in t + 1 .. end : /\ i \in 1 .. n /\ i \in t + 1 .. n
                                    /\ i - t \in 1 .. end - t /\ t + (i - t) = i
         /\ \A i \in t + 1 .. n : /\ i \in 1 .. n /\ i > t
                                  /\ i \notin t + 1 .. end => end < n /\ \A j \in t + 1 .. end : j < i
         /\ \A i \in 1 .. n : i > t => i \in t + 1 .. n
         /\ \A i \in 1 .. end - t : t + i \in t + 1 .. end
OBVIOUS

LEMMA RowsFrom ==
  ASSUME NEW s \in Seq(Row), NEW t \in Nat, NEW end \in Nat, t <= end, end <= Len(s)
  PROVE  /\ Len(SubSeq(s, t + 1, end)) = end - t
         /\ Range(SubSeq(s, t + 1, end)) = {s[i] : i \in t + 1 .. end}
<1> DEFINE q == SubSeq(s, t + 1, end)
<1>1. Len(q) = end - t /\ DOMAIN q = 1 .. end - t /\ \A i \in 1 .. end - t : q[i] = s[t + i]
  OBVIOUS
<1>2. Len(s) \in Nat
  OBVIOUS
<1> HIDE DEF q
<1>3. Range(q) = {q[i] : i \in 1 .. end - t}
  BY <1>1 DEF Range
<1>4. \A i \in t + 1 .. end : i - t \in 1 .. end - t /\ s[i] = q[i - t]
  BY <1>1, <1>2, Between
<1>5. \A i \in 1 .. end - t : t + i \in t + 1 .. end
  BY <1>2, Between
<1>6. {q[i] : i \in 1 .. end - t} = {s[i] : i \in t + 1 .. end}
  <2>1. \A i \in 1 .. end - t : q[i] \in {s[j] : j \in t + 1 .. end}
    BY <1>1, <1>5
  <2>2. \A i \in t + 1 .. end : s[i] \in {q[j] : j \in 1 .. end - t}
    BY <1>4
  <2> QED BY <2>1, <2>2
<1> QED BY <1>1, <1>3, <1>6 DEF q

\* Rows t + 1 .. end of a sorted result, when up to t there are none behind
\* the last row seen.
LEMMA FollowsIf ==
  ASSUME NEW s \in Seq(Row), Sorted(s), NEW t \in Nat, NEW end \in Nat, t <= end, end <= Len(s),
         end < Len(s) => end - t = array_size,
         NEW m, m = seen[Len(seen)], \A i \in 1 .. Len(s) : s[i] > m <=> i > t,
         res'.rows = s, seen' = SubSeq(s, t + 1, end)
  PROVE  Follows
<1>1. Len(s) \in Nat /\ DOMAIN s = 1 .. Len(s)
  OBVIOUS
<1>2. Len(seen') = end - t /\ Range(seen') = {s[i] : i \in t + 1 .. end}
  BY RowsFrom
<1>3. /\ \A i \in t + 1 .. end : i \in 1 .. Len(s) /\ i \in t + 1 .. Len(s)
      /\ \A i \in t + 1 .. Len(s) :
           /\ i \in 1 .. Len(s) /\ i > t
           /\ i \notin t + 1 .. end => end < Len(s) /\ \A j \in t + 1 .. end : j < i
      /\ \A i \in 1 .. Len(s) : i > t => i \in t + 1 .. Len(s)
  BY <1>1, Between
<1>4. RowsBehind(m, s) = {s[i] : i \in t + 1 .. Len(s)}
  <2>1. ASSUME NEW x \in RowsBehind(m, s) PROVE x \in {s[i] : i \in t + 1 .. Len(s)}
    <3>1. PICK i \in 1 .. Len(s) : x = s[i] /\ s[i] > m
      BY <1>1 DEF RowsBehind, Range
    <3> QED BY <1>3, <3>1
  <2>2. ASSUME NEW i \in t + 1 .. Len(s) PROVE s[i] \in RowsBehind(m, s)
    BY <1>1, <1>3 DEF RowsBehind, Range
  <2> QED BY <2>1, <2>2
<1>5. Range(seen') \subseteq RowsBehind(m, s)
  BY <1>2, <1>3, <1>4
<1>6. ASSUME NEW x \in RowsBehind(m, s) \ Range(seen')
      PROVE  Len(seen') = array_size /\ \A y \in Range(seen') : y < x
  <2>1. PICK i \in t + 1 .. Len(s) : x = s[i]
    BY <1>4
  <2>2. i \notin t + 1 .. end
    BY <1>2, <1>6, <2>1
  <2>3. end < Len(s) /\ i \in 1 .. Len(s) /\ \A j \in t + 1 .. end : j < i
    BY <1>3, <2>2
  <2>4. ASSUME NEW y \in Range(seen') PROVE y < x
    <3>1. PICK j \in t + 1 .. end : y = s[j]
      BY <1>2
    <3>2. j \in 1 .. Len(s) /\ j < i
      BY <1>3, <2>3
    <3> QED BY <1>1, <2>1, <2>3, <3>1, <3>2 DEF Sorted
  <2> QED BY <1>2, <2>3, <2>4
<1> QED BY <1>5, <1>6 DEF Follows

LEMMA NextFollows ==
  ASSUME IInv, Order, Fetch("next", 0), seen # <<>> PROVE Follows
<1> DEFINE r == Refreshed(res)
           size == Len(r.rows)
           t == Target("next", 0, size)
           first == IF t > size THEN size ELSE t
           end == IF first + array_size > size THEN size ELSE first + array_size
           m == seen[Len(seen)]
<1>0. table \in SUBSET Row /\ CursorTypes /\ current_row \in Int /\ rows_found_in_set \in Int
      /\ rows_found_in_set >= 0 /\ current_row >= 0 /\ array_size \in Nat
  <2>1. CursorTypes /\ current_row # -1
    BY InvTypes DEF Order
  <2> QED BY <2>1, InvTypes, OrderTypes, Numbers DEF CursorTypes
<1>1. /\ r.rows \in Seq(Row) /\ size \in Nat /\ Sorted(r.rows) /\ t \in Int
      /\ cursor_type = "static" => r = res
      /\ cursor_type = "dynamic" => r.rows = Answer /\ size = Cardinality(table)
      /\ cursor_type \in {"static", "dynamic"} /\ op.kind = "none" /\ res'.rows = r.rows
      /\ t >= 0 => seen' = SubSeq(r.rows, first + 1, end)
  <2>1. 0 \in 0 .. MaxRow + 1
    BY Numbers
  <2> QED BY <2>1, FetchIs
<1>2. t = current_row + rows_found_in_set
  BY <1>0 DEF Target
<1> HIDE DEF r, t
<1>3. seen \in Seq(Row) /\ Len(seen) \in 1 .. Len(seen) /\ m \in Int
  <2>1. seen \in Seq(Row) /\ Len(seen) \in 1 .. Len(seen)
    BY <1>0 DEF CursorTypes
  <2> QED BY <2>1, Numbers DEF Row
<1>4. \A i \in 1 .. size : r.rows[i] \in Int /\ i \in Int
  <2>1. \A x \in Row : x \in Int
    BY Numbers DEF Row
  <2> QED BY <1>1, <2>1
<1>5. t \in 0 .. size /\ \A i \in 1 .. size : r.rows[i] > m <=> i > t
  <2>1. CASE cursor_type = "static"
    <3>1. Framed /\ r.rows = res.rows
      BY <1>1, <2>1 DEF IInv, Cursors
    <3>2. Len(seen) = rows_found_in_set /\ m = r.rows[t] /\ t <= size /\ t \in 1 .. size
      BY <1>0, <1>1, <1>2, <1>3, <3>1 DEF Framed, Size
    <3>3. ASSUME NEW i \in 1 .. size PROVE r.rows[i] > m <=> i > t
      <4>1. DOMAIN r.rows = 1 .. size /\ (i < t \/ i = t \/ t < i)
        BY <1>1, <1>4
      <4>2. i < t => r.rows[i] < m
        BY <1>1, <3>2, <4>1 DEF Sorted
      <4>3. t < i => m < r.rows[i]
        BY <1>1, <3>2, <4>1 DEF Sorted
      <4> QED BY <1>1, <1>3, <1>4, <3>2, <4>1, <4>2, <4>3
    <3> QED BY <1>1, <3>2, <3>3
  <2>2. CASE cursor_type = "dynamic"
    <3>1. Cardinality(UpTo(m)) = t
      BY <1>0, <1>1, <1>2, <2>2 DEF Order, RowsSeen
    <3>2. t <= size /\ t >= 0
      <4>1. current_row + rows_found_in_set <= Cardinality(table) + 0
        BY <1>1, <2>2 DEF IInv, Dynamic
      <4> QED BY <1>0, <1>1, <1>2, <2>2, <4>1
    <3>3. Answer \in Listings(table)
      BY <1>0, AnswerLists
    <3>4. \A i \in 1 .. size : r.rows[i] <= m <=> i <= t
      <4>1. \A i \in 1 .. Cardinality(table) :
               Answer[i] <= m <=> i <= Cardinality({x \in table : x <= m})
        BY <1>0, <1>3, <3>3, CountUpTo
      <4> QED BY <1>1, <2>2, <3>1, <4>1 DEF UpTo
    <3>5. ASSUME NEW i \in 1 .. size PROVE r.rows[i] > m <=> i > t
      <4>1. r.rows[i] \in Int /\ i \in Int /\ (r.rows[i] <= m <=> i <= t)
        BY <1>4, <3>4
      <4> QED BY <1>1, <1>3, <4>1
    <3> QED BY <1>1, <3>2, <3>5
  <2> QED BY <1>1, <2>1, <2>2
<1>6. first = t /\ t >= 0
  BY <1>1, <1>5
<1>7. end = (IF t + array_size > size THEN size ELSE t + array_size)
      /\ seen' = SubSeq(r.rows, t + 1, end)
  BY <1>1, <1>6
<1> HIDE DEF end, m, first
<1>8. t \in Nat /\ end \in Nat /\ t <= end /\ end <= size /\ (end < size => end - t = array_size)
  BY <1>0, <1>1, <1>5, <1>7
<1> QED BY <1>1, <1>5, <1>7, <1>8, FollowsIf DEF m

-----------------------------------------------------------------------------
LEMMA InitInv == Init => IInv
<1> SUFFICES ASSUME Init PROVE IInv
  OBVIOUS
<1>1. <<>> \in Seq(Row) /\ Len(<<>>) = 0
  OBVIOUS
<1>2. TypeOK
  <2>1. res \in Results
    BY <1>1, Numbers DEF Init, Results
  <2>2. CursorTypes
    BY <1>1, Numbers DEF Init, CursorTypes
  <2> QED BY <2>1, <2>2, Idles, Types DEF Init
<1>3. Cursors
  BY <1>1, Numbers DEF Init, Cursors, Size, Framed
<1> QED BY <1>2, <1>3, IdleOp
        DEF Init, IInv, Dynamic, Operation, Changing, NamedRowsOnly

LEMMA NextInv ==
  ASSUME MildUse PROVE IInv /\ [Next]_vars => IInv'
<1> SUFFICES ASSUME IInv, [Next]_vars PROVE IInv'
  OBVIOUS
<1>1. CASE UNCHANGED vars
  <2>1. UNCHANGED <<table, res, cursorVars, seen, position, deleted, op, last>>
    BY <1>1 DEF vars, cursorVars
  <2>2. TypeOK'
    BY <2>1 DEF IInv, TypeOK, cursorVars
  <2>3. Cursors'
    <3>1. (Framed => Framed') /\ Size' = Size /\ \A i \in Nat : Located(i) => Located(i)'
      BY <2>1 DEF Framed, Size, Located, cursorVars
    <3> QED BY <2>1, <3>1 DEF IInv, Cursors, Changing, cursorVars
  <2>4. Dynamic' /\ Operation' /\ (NamedUse => NamedRowsOnly')
    BY <2>1 DEF IInv, Dynamic, Operation, Changing, NamedRowsOnly, cursorVars, Answer
  <2> QED BY <2>1, <2>2, <2>3, <2>4 DEF IInv
<1>2. ASSUME NEW q \in Requests, Fetch(q[1], q[2]) PROVE IInv'
  <2>1. q[1] \in {"next", "prior", "relative", "absolute"} /\ q[2] \in 0 .. MaxRow + 1
    BY Numbers DEF Requests
  <2> QED BY <1>2, <2>1, FetchInv
<1>3. CASE Next
  BY <1>2, <1>3, ExecuteInv, CloseCursorInv, RefreshFailsInv, SetPositionInv, WhereCurrentOfInv, SetPosInv,
     AddInv, ChangeRowInv, InsertRowsInv, ChangeReturnsInv, OthersChangeInv DEF Next
<1> QED BY <1>1, <1>3

-----------------------------------------------------------------------------
(* Every row meant is accounted for, while the server refuses nothing.     *)
LEMMA ChangeRowAccounted ==
  ASSUME IInv, Accounted, Practices = {}, NEW ok \in BOOLEAN, ChangeRow(ok) PROVE Accounted'
<1> DEFINE row == res.rows[res'.data_cursor + 1]
           hit == ok /\ row \in table
<1>0. op \in Ops /\ last \in Reports /\ CursorTypes
  BY InvTypes
<1>1. ok = TRUE /\ Changing /\ op.pos <= op.end
  BY <1>0 DEF ChangeRow, Running, Changing, Ops
<1>2. /\ op' = [op EXCEPT !.pos = op.pos + 1, !.ok = ok,
                   !.affected = IF hit THEN op.affected + 1 ELSE op.affected]
      /\ last' = [last EXCEPT !.changed = IF hit THEN last.changed \cup {row} ELSE last.changed,
                     !.missing = IF ok /\ ~hit THEN last.missing \cup {row} ELSE last.missing]
      /\ seen' = seen /\ row = seen[op.pos]
  <2>1. MildUse /\ "refetch" \notin Practices
    BY DEF MildUse
  <2> QED BY <2>1, ChangeRowIs
<1>3. op'.pos = op.pos + 1 /\ op'.ok /\ op'.kind = op.kind /\ op'.end = op.end
  BY <1>0, <1>1, <1>2 DEF Ops
<1>4. /\ last'.named = last.named /\ last'.rc = last.rc
      /\ last'.changed = IF hit THEN last.changed \cup {row} ELSE last.changed
      /\ last'.missing = IF ok /\ ~hit THEN last.missing \cup {row} ELSE last.missing
  BY <1>0, <1>2 DEF Reports
<1>5. last.rc = "none"
  BY <1>1 DEF IInv, Operation
<1> HIDE DEF row, hit
<1>6. ASSUME NEW i \in op.pos .. op.end PROVE i = op.pos \/ i \in op'.pos .. op'.end
  BY <1>0, <1>3, Numbers DEF Ops
<1>7. \A x \in last'.named : \/ x \in last'.changed \cup last'.missing
                             \/ \E i \in op'.pos .. op'.end : x = seen'[i]
  <2> TAKE x \in last'.named
  <2>1. CASE x \in last.changed \cup last.missing
    BY <1>4, <2>1
  <2>2. CASE \E i \in op.pos .. op.end : x = seen[i]
    <3>1. PICK i \in op.pos .. op.end : x = seen[i]
      BY <2>2
    <3>2. i = op.pos => x = row
      BY <1>2, <3>1
    <3> QED BY <1>1, <1>2, <1>4, <1>6, <3>1, <3>2
  <2> QED BY <1>1, <1>4, <2>1, <2>2 DEF Accounted
<1> QED BY <1>1, <1>3, <1>4, <1>5, <1>7 DEF Accounted, Changing, SuccessMeansChanged

LEMMA ChangeReturnsAccounted ==
  ASSUME IInv, Accounted, ChangeReturns PROVE Accounted'
<1>0. op \in Ops /\ last \in Reports
  BY InvTypes
<1>1. Changing /\ op.pos > op.end
  BY <1>0 DEF ChangeReturns, Running, Changing, Ops
<1>2. /\ op' = NoOp
      /\ last'.named = last.named /\ last'.changed = last.changed /\ last'.missing = last.missing
  BY <1>0 DEF ChangeReturns, Reports
<1>3. op.pos .. op.end = {}
  BY <1>0, <1>1, Numbers DEF Ops
<1>4. last.named \subseteq last.changed \cup last.missing
  BY <1>1, <1>3 DEF Accounted
<1> QED BY <1>2, <1>4, IdleOp DEF Accounted, Changing, SuccessMeansChanged

LEMMA InsertRowsAccounted ==
  ASSUME IInv, Accounted, NEW end \in 1 .. MaxArray, NEW ok \in BOOLEAN, InsertRows(end, ok)
  PROVE  Accounted'
<1> DEFINE rows == {op.new[i] : i \in op.pos .. end}
<1>0. op \in Ops /\ last \in Reports
  BY InvTypes
<1>1. op.kind = "add" /\ op.pos <= end /\ end <= op.end
  BY DEF InsertRows
<1>2. last.rc = "none" /\ \A x \in last.named :
                            x \in last.changed \/ \E i \in op.pos .. op.end : x = op.new[i]
  BY <1>1 DEF IInv, Operation, Accounted
<1>3. CASE ok /\ end = op.end
  <2>1. op' = NoOp /\ last'.named = last.named /\ last'.changed = last.changed \cup rows
    BY <1>0, <1>3 DEF InsertRows, Reports
  <2>2. last.named \subseteq last.changed \cup rows
    BY <1>2, <1>3
  <2> QED BY <2>1, <2>2, IdleOp DEF Accounted, Changing, SuccessMeansChanged
<1>4. CASE ok /\ end # op.end
  <2>1. /\ last'.named = last.named /\ last'.rc = "none"
        /\ last'.changed = last.changed \cup rows
    BY <1>0, <1>2, <1>4 DEF InsertRows, Reports
  <2>2. op'.kind = "add" /\ op'.pos = end + 1 /\ op'.end = op.end /\ op'.new = op.new
    BY <1>0, <1>1, <1>4 DEF InsertRows, Ops
  <2>3. op.pos \in Nat /\ op.end \in Nat /\ end \in Nat
    BY <1>0, Numbers DEF Ops
  <2>4. \A i \in op.pos .. op.end : i \in op.pos .. end \/ i \in op'.pos .. op'.end
    BY <1>1, <2>2, <2>3
  <2>5. \A x \in last'.named : x \in last'.changed \/ \E i \in op'.pos .. op'.end : x = op'.new[i]
    <3> TAKE x \in last'.named
    <3>1. CASE x \in last.changed
      BY <2>1, <3>1
    <3>2. CASE \E i \in op.pos .. op.end : x = op.new[i]
      BY <2>1, <2>2, <2>4, <3>2
    <3> QED BY <1>2, <2>1, <3>1, <3>2
  <2> QED BY <2>1, <2>2, <2>5 DEF Accounted, Changing, SuccessMeansChanged
<1>5. CASE ~ok
  <2>1. op' = NoOp /\ last'.rc = "error"
    BY <1>0, <1>5 DEF InsertRows, Reports
  <2> QED BY <2>1, IdleOp DEF Accounted, Changing, SuccessMeansChanged
<1> QED BY <1>3, <1>4, <1>5

LEMMA InitAccounted == Init => Accounted
BY IdleOp DEF Init, Accounted, Changing, SuccessMeansChanged

LEMMA NextAccounted ==
  ASSUME Practices = {} PROVE IInv /\ Accounted /\ [Next]_vars => Accounted'
<1> SUFFICES ASSUME IInv, Accounted, [Next]_vars PROVE Accounted'
  OBVIOUS
<1>1. CASE UNCHANGED vars \/ \E r \in Row : OthersChange(r)
  <2>1. UNCHANGED <<seen, op, last>>
    BY <1>1 DEF vars, OthersChange
  <2> QED BY <2>1 DEF Accounted, Changing, SuccessMeansChanged
<1>2. ASSUME NEW type \in {"static", "dynamic"}, NEW size \in 1 .. MaxArray, Execute(type, size)
      PROVE  Accounted'
  <2>1. op' = NoOp /\ last' = NoReport
    BY <1>2 DEF Execute, IInv, Cursors
  <2> QED BY <2>1, IdleAfter
<1>3. CASE CloseCursor \/ RefreshFails
  BY <1>3, IdleAfter, RefusedAfter DEF CloseCursor, RefreshFails, WithoutResult, Idle
<1>4. ASSUME NEW q \in Requests, Fetch(q[1], q[2]) PROVE Accounted'
  <2>1. op' = NoOp /\ last' = NoReport
    BY <1>4 DEF Fetch, Idle
  <2> QED BY <2>1, IdleAfter
<1>5. ASSUME NEW irow \in 1 .. MaxArray, SetPosition(irow) PROVE Accounted'
  <2>1. op' = NoOp /\ last' = NoReport
    BY <1>5 DEF SetPosition, Idle
  <2> QED BY <2>1, IdleAfter
<1>6. CASE Next
  <2>1. MildUse /\ NamedUse
    BY DEF MildUse, NamedUse
  <2> QED BY <2>1, <1>1, <1>2, <1>3, <1>4, <1>5, <1>6, WhereCurrentOfInv, SetPosInv, AddInv,
     ChangeRowAccounted, InsertRowsAccounted, ChangeReturnsAccounted DEF Next
<1> QED BY <1>1, <1>6

-----------------------------------------------------------------------------
THEOREM Invariance == ASSUME MildUse PROVE Spec => []IInv
<1> QED BY InitInv, NextInv, PTL DEF Spec

(* Every variable keeps its type: the places in the result and in the      *)
(* rowset that the code computes exist, also after refused changes, and    *)
(* when data_cursor is not where cursor_row says that it is.               *)
THEOREM TypeCorrect ==
  ASSUME Practices \subseteq {"refetch", "position", "add_row", "errors"}
  PROVE  Spec => []TypeOK
<1>1. IInv => TypeOK
  BY DEF IInv
<1>2. MildUse
  BY DEF MildUse
<1> QED BY <1>1, <1>2, Invariance, PTL

(* No row is looked for beyond the end of the result in memory, not even   *)
(* when set_current_cursor_data does not move the cursor because an        *)
(* earlier operation on the row, fetched again since, left cursor_row.     *)
THEOREM MemorySafety ==
  ASSUME Practices \subseteq {"refetch", "position", "add_row", "errors"}
  PROVE  Spec => []MemorySafe
<1>1. IInv => MemorySafe
  BY DEF IInv, MemorySafe
<1>2. MildUse
  BY DEF MildUse
<1> QED BY <1>1, <1>2, Invariance, PTL

(* SQLSetPos, SQLBulkOperations and WHERE CURRENT OF change no row but     *)
(* those that the application means, also if they go on with the rows      *)
(* after one that the server refused to change.                            *)
THEOREM NamedRows ==
  ASSUME Practices \subseteq {"errors"} PROVE Spec => []NamedRowsOnly
<1>1. MildUse /\ NamedUse
  BY DEF MildUse, NamedUse
<1>2. IInv => NamedRowsOnly
  BY <1>1 DEF IInv
<1> QED BY <1>1, <1>2, Invariance, PTL

(* If they return SQL_SUCCESS, and the server refused nothing, every row   *)
(* meant was changed, or was gone.                                         *)
THEOREM SuccessTold == ASSUME Practices = {} PROVE Spec => []SuccessMeansChanged
<1>1. Accounted => SuccessMeansChanged
  BY DEF Accounted
<1>2. MildUse
  BY DEF MildUse
<1> QED BY <1>1, <1>2, InitInv, NextInv, InitAccounted, NextAccounted, PTL DEF Spec

(* SQL_FETCH_NEXT, and SQLFetch, go on with the first row behind the       *)
(* rowset, and leave no row out and repeat none: also when SQLSetPos       *)
(* deleted rows of a dynamic cursor's result, as rows_found_in_set is      *)
(* lowered by as many.                                                     *)
THEOREM NextRowset ==
  ASSUME Practices \subseteq {"refetch", "position", "add_row", "errors"}
  PROVE  Spec => NextRowsetFollows
<1>0. MildUse
  BY DEF MildUse
<1>1. Spec => [](IInv /\ Order)
  BY <1>0, InitInv, NextInv, InitOrder, NextOrder, PTL DEF Spec
<1>2. IInv /\ Order /\ [Next]_vars => [Fetch("next", 0) /\ seen # <<>> => Follows]_vars
  BY NextFollows
<1> QED BY <1>1, <1>2, PTL DEF Spec, NextRowsetFollows
=============================================================================
