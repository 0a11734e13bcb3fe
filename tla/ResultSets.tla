----------------------------- MODULE ResultSets -----------------------------
(***************************************************************************)
(* Queries with several results (a procedure, or several statements in one *)
(* query), and the statements of one connection that read them             *)
(* (driver/execute.c: do_query; driver/results.c: SQLMoreResults,          *)
(* SQLRowCount; driver/handle.c: my_SQLFreeStmtExtended; driver/my_stmt.c: *)
(* next_result and its neighbours; the text protocol).  The results wait   *)
(* on the connection, which does not know the statement they are for.  A   *)
(* result is <<statement, number>>; the number of rows it reports is       *)
(* represented by the result itself.                                       *)
(***************************************************************************)
EXTENDS Naturals, Sequences, FiniteSets

CONSTANTS Stmts,
          MaxResults,   \* bound: results of a query
          Practices     \* what happens beyond the careful use below

(***************************************************************************)
(* "pending": use a statement while results of another one, which is not   *)
(*     read row by row, wait on the connection;                            *)
(* "row_count": ask a statement that has a result for the row count after  *)
(*     the connection was used for another one.                            *)
(***************************************************************************)
ASSUME ResultSetsAssumption ==
  /\ "none" \notin Stmts
  /\ MaxResults \in Nat \ {0}
  /\ Practices \subseteq {"pending", "row_count"}

VARIABLES
  query,     \* per statement: the kinds of the results of its query
  state,     \* per statement: stmt->state, "unknown" for all before ST_EXECUTED
  result,    \* per statement: stmt->result
  taken,     \* per statement: the result it has, if any
  saved,     \* per statement: stmt->affected_rows
  rc,        \* per statement: what the last call told
  wire,      \* results that wait on the connection
  stream,    \* the statement whose result is being read row by row (mysql_use_result)
  count,     \* mysql_affected_rows of the connection
  reported,  \* the answer of the last SQLRowCount
  used       \* the statement that used the connection last

stmtVars == <<query, state, result, taken, saved, rc>>
vars == <<query, state, result, taken, saved, rc, wire, stream, count, reported, used>>

Kinds == {"rows", "count", "error"}
NoStmt == "none"
NoResult == <<NoStmt, 0>>
Results == {NoResult} \cup (Stmts \X (1 .. MaxResults))

TypeOK ==
  /\ query \in [Stmts -> Seq(Kinds)]
  /\ state \in [Stmts -> {"unknown", "executed"}]
  /\ result \in [Stmts -> {"none", "stored", "stream"}]
  /\ taken \in [Stmts -> Results] /\ saved \in [Stmts -> Results]
  /\ rc \in [Stmts -> Kinds \cup {"none", "no_data", "busy"}]
  /\ wire \in Seq(Stmts \X (1 .. MaxResults)) /\ Len(wire) < MaxResults
  /\ stream \in Stmts \cup {NoStmt}
  /\ count \in Results
  /\ reported \in [stmt : Stmts \cup {NoStmt}, value : Results]
  /\ used \in Stmts \cup {NoStmt}

NotAsked == [stmt |-> NoStmt, value |-> NoResult]

Init ==
  /\ query = [s \in Stmts |-> <<>>] /\ state = [s \in Stmts |-> "unknown"]
  /\ result = [s \in Stmts |-> "none"] /\ rc = [s \in Stmts |-> "none"]
  /\ taken = [s \in Stmts |-> NoResult] /\ saved = [s \in Stmts |-> NoResult]
  /\ wire = <<>> /\ stream = NoStmt /\ count = NoResult
  /\ reported = NotAsked /\ used = NoStmt

Kind(r) == query[r[1]][r[2]]

\* A call that uses the connection.
Uses(s) == used' = s /\ reported' = NotAsked

Careful(s) == "pending" \notin Practices => \A i \in DOMAIN wire : wire[i][1] = s

-----------------------------------------------------------------------------
\* Mutant: a result that is read row by row is not freed.
FreedNot(s) == stream

(* mysql_free_result: what is left of a result read row by row is skipped. *)
Freed(s) == IF stream = s THEN NoStmt ELSE stream

\* Mutant: the results that wait are left on the connection.
DrainedNot(s) == [wire |-> wire, count |-> count]

(***************************************************************************)
(* The loop of my_SQLFreeStmtExtended: next_result until there is none.    *)
(* It fails at once while another statement reads row by row.              *)
(***************************************************************************)
Drained(s) ==
  IF Freed(s) = NoStmt THEN [wire |-> <<>>, count |-> NoResult]
  ELSE [wire |-> wire, count |-> count]

\* get_result_metadata: the result is stored, or read row by row.
Having(s, kind, how) ==
  /\ result' = [result EXCEPT ![s] = IF kind = "rows" THEN how ELSE "none"]
  /\ stream' = IF kind = "rows" /\ how = "stream" THEN s ELSE NoStmt

\* Mutant: the count is read when the connection is at the next result.
CountedLate(r, kind, how) == <<r[1], r[2] + 1>>

\* What mysql_affected_rows tells of a result that was read.
Counted(r, kind, how) ==
  IF kind = "error" \/ (kind = "rows" /\ how = "stream") THEN NoResult ELSE r

\* A failure leaves stmt->state as it is, but SQLExecDirect has prepared the
\* statement before.
NotExecuted(s) == state' = state \/ state' = [state EXCEPT ![s] = "unknown"]

(* SQLExecute or SQLExecDirect: my_SQLExecute, do_query.  The connection   *)
(* must have nothing to read.                                              *)
Execute(s, q, how) ==
  /\ Careful(s) /\ Uses(s)
  /\ query' = [query EXCEPT ![s] = IF Freed(s) = NoStmt /\ Drained(s).wire = <<>> THEN q ELSE <<>>]
  /\ IF Freed(s) # NoStmt \/ Drained(s).wire # <<>>
     THEN /\ rc' = [rc EXCEPT ![s] = "busy"]
          /\ result' = [result EXCEPT ![s] = "none"]
          /\ taken' = [taken EXCEPT ![s] = NoResult]
          /\ saved' = [saved EXCEPT ![s] = NoResult]
          /\ wire' = Drained(s).wire /\ count' = Drained(s).count /\ stream' = Freed(s)
          /\ NotExecuted(s)
     ELSE /\ rc' = [rc EXCEPT ![s] = q[1]]
          /\ Having(s, q[1], how)
          /\ taken' = [taken EXCEPT ![s] = IF q[1] = "error" THEN NoResult ELSE <<s, 1>>]
          /\ saved' = [saved EXCEPT ![s] = IF q[1] = "count" THEN <<s, 1>> ELSE NoResult]
          /\ wire' = IF q[1] = "error" THEN <<>> ELSE [i \in 1 .. Len(q) - 1 |-> <<s, i + 1>>]
          /\ count' = Counted(<<s, 1>>, q[1], how)
          /\ IF q[1] = "error" THEN NotExecuted(s)
                               ELSE state' = [state EXCEPT ![s] = "executed"]

\* Mutant: SQLMoreResults frees the statement with clearAllResults set.
ToComeNone == <<>>

\* What waits when SQLMoreResults has cleaned up the result before.
ToCome == Tail(wire)

(* SQLMoreResults; next_result frees the statement's result before it asks *)
(* the connection, which takes none while another result is being read.    *)
MoreResults(s, how) ==
  /\ Careful(s) /\ Uses(s)
  /\ IF state[s] # "executed"
     THEN /\ rc' = [rc EXCEPT ![s] = "no_data"]
          /\ UNCHANGED <<query, state, result, taken, saved, wire, stream, count>>
     ELSE IF Freed(s) # NoStmt \/ wire = <<>>
     THEN /\ rc' = [rc EXCEPT ![s] = IF Freed(s) # NoStmt THEN "busy" ELSE "no_data"]
          /\ result' = [result EXCEPT ![s] = "none"]
          /\ taken' = [taken EXCEPT ![s] = NoResult]
          /\ count' = IF Freed(s) # NoStmt THEN count ELSE NoResult
          /\ stream' = Freed(s)
          /\ UNCHANGED <<query, state, saved, wire>>
     ELSE LET next == Head(wire) IN
          /\ rc' = [rc EXCEPT ![s] = Kind(next)]
          /\ Having(s, Kind(next), how)
          /\ taken' = [taken EXCEPT ![s] = IF Kind(next) = "error" THEN NoResult ELSE next]
          /\ saved' = IF Kind(next) = "error" THEN saved
                      ELSE [saved EXCEPT ![s] = IF Kind(next) = "count" THEN next ELSE NoResult]
          /\ wire' = ToCome
          /\ count' = Counted(next, Kind(next), how)
          /\ UNCHANGED <<query, state>>

(* SQLFetch finds the end of a result that is read row by row. *)
EndOfStream(s) ==
  /\ stream = s /\ stream' = NoStmt
  /\ UNCHANGED <<stmtVars, wire, count, reported, used>>

(* SQLFreeStmt(SQL_CLOSE) *)
CloseCursor(s) ==
  /\ Careful(s) /\ Uses(s)
  /\ query' = [query EXCEPT ![s] = <<>>] /\ state' = [state EXCEPT ![s] = "unknown"]
  /\ result' = [result EXCEPT ![s] = "none"] /\ rc' = [rc EXCEPT ![s] = "none"]
  /\ taken' = [taken EXCEPT ![s] = NoResult] /\ saved' = [saved EXCEPT ![s] = NoResult]
  /\ wire' = Drained(s).wire /\ count' = Drained(s).count /\ stream' = Freed(s)

\* Mutant: the row count of the connection is used for every statement.
RowCountOfConnection(s) == count

\* SQLRowCount
RowCountOf(s) == IF result[s] # "none" THEN count ELSE saved[s]

RowCount(s) ==
  /\ Careful(s)
  /\ taken[s] # NoResult /\ result[s] # "stream"
  /\ result[s] = "stored" /\ used # s => "row_count" \in Practices
  /\ reported' = [stmt |-> s, value |-> RowCountOf(s)]
  /\ UNCHANGED <<stmtVars, wire, stream, count, used>>

-----------------------------------------------------------------------------
\* An error ends a query.
Queries == {q \in UNION {[1 .. n -> Kinds] : n \in 1 .. MaxResults} :
              \A i \in 1 .. Len(q) - 1 : q[i] # "error"}

Next ==
  \E s \in Stmts :
    \/ \E how \in {"stored", "stream"} :
         MoreResults(s, how) \/ \E q \in Queries : Execute(s, q, how)
    \/ EndOfStream(s) \/ CloseCursor(s) \/ RowCount(s)

Spec == Init /\ [][Next]_vars

-----------------------------------------------------------------------------
(* What must hold *)

\* How many of the results that wait are of the statement's query.
Waiting(results, s) == Cardinality({i \in DOMAIN results : results[i][1] = s})

\* The results of a query that are behind the statement.
Current(s) == Len(query[s]) - Waiting(wire, s)

(***************************************************************************)
(* The result that a statement has is of its own query, and the one its    *)
(* calls of SQLMoreResults have come to.                                   *)
(***************************************************************************)
OwnResults == \A s \in Stmts : taken[s] # NoResult => taken[s] = <<s, Current(s)>>

(***************************************************************************)
(* SQLRowCount answers for the result the statement has: neither the       *)
(* connection's count nor the one saved is of another result.              *)
(***************************************************************************)
RowCountExact == reported.stmt # NoStmt => reported.value = taken[reported.stmt]

(***************************************************************************)
(* When every statement is closed nothing waits on the connection, so that *)
(* the next query is not refused as out of sync.                           *)
(***************************************************************************)
ConnectionFree ==
  (\A s \in Stmts : query[s] = <<>>) => wire = <<>> /\ stream = NoStmt

(***************************************************************************)
(* Each statement gets all results of its query, in order, although they   *)
(* wait on a connection that several statements read from and empty.       *)
(***************************************************************************)
Queues == INSTANCE ResultQueues
            WITH Stmts <- Stmts, Kinds <- Kinds, query <- query, told <- rc,
                 current <- [s \in Stmts |-> Current(s)]

ImplementsResultQueues == Queues!Spec
=============================================================================
