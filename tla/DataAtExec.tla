----------------------------- MODULE DataAtExec -----------------------------
(***************************************************************************)
(* Parameters whose data the application supplies at execution             *)
(* (driver/execute.c: my_SQLExecute, SQLParamData, SQLPutData, SQLCancel;  *)
(* driver/prepare.c; driver/desc.c; driver/cursor.c: my_pos_update; the    *)
(* text protocol).  The values collected belong to records of a parameter  *)
(* descriptor, which statements may share and other calls free, and the    *)
(* text of an UPDATE ... WHERE CURRENT OF is replaced while they are being *)
(* collected.                                                              *)
(***************************************************************************)
EXTENDS Naturals, Sequences

CONSTANTS Stmts,
          Descs,       \* application parameter descriptors
          Apd,         \* per statement: the descriptor it uses
          NumParams,   \* parameter markers in every query
          Buffers,     \* addresses of memory for values
          Pieces,      \* what one SQLPutData may supply
          MaxPieces,   \* bound: pieces of one value
          Rows,        \* rows the cursor may be on
          Practices    \* what happens beyond the careful use below

(***************************************************************************)
(* "share": use a descriptor while another statement collects data in it;  *)
(* "cancel": cancel an UPDATE ... WHERE CURRENT OF that collects data;     *)
(* "fail": such an update has a value that cannot be used;                 *)
(* "mix": execute a WHERE CURRENT OF text first without data at execution, *)
(*     or in vain, and later with it;                                      *)
(* "hold": execute it while a value is held for a parameter that has no    *)
(*     data at execution now;                                              *)
(***************************************************************************)
ASSUME DataAtExecAssumption ==
  /\ Apd \in [Stmts -> Descs]
  /\ NumParams \in Nat \ {0}
  /\ Buffers \subseteq Nat \ {0} /\ Rows \subseteq Nat \ {0}
  /\ Pieces \subseteq STRING \ {"bound", "NULL", "DEFAULT"}
  /\ Practices \subseteq {"share", "cancel", "fail", "mix", "hold"}

VARIABLES
  rec,      \* per descriptor and parameter: the record
  live,     \* memory that is allocated
  data,     \* per buffer: the pieces in it
  text,     \* per statement: the application's query
  query,    \* per statement: stmt->query
  orig_query,  \* per statement: stmt->orig_query
  phase,    \* per statement: what the driver manager allows next
  dae_type,       \* per statement
  current_param,  \* per statement
  given,    \* per statement and parameter: the pieces supplied
  wanted,   \* per statement: the row the cursor was on when it was executed
  row,      \* the row the cursor is on
  sent,     \* the query that the last call sent, if it did
  fault     \* freed memory was used, or an assertion failed

memVars == <<rec, live, data, fault>>
textVars == <<text, query, orig_query>>
daeVars == <<phase, dae_type, current_param, given, wanted>>
vars == <<rec, live, data, text, query, orig_query, phase, dae_type,
          current_param, given, wanted, row, sent, fault>>

Params == 1 .. NumParams
Null == 0
NoRow == 0

(***************************************************************************)
(* A query: "plain"; "current", with WHERE CURRENT OF; "cut", the same     *)
(* with a terminator before it; "all", a copy of that up to the terminator *)
(* with the positions of all tokens; "row", with a WHERE clause for a row. *)
(***************************************************************************)
Kinds == {"none", "plain", "current", "cut", "all"}
Text(kind) == [kind |-> kind, row |-> NoRow]
OfRow(r) == [kind |-> "row", row |-> r]
Queries == [kind : Kinds, row : {NoRow}] \cup [kind : {"row"}, row : Rows]

Value == Seq(Pieces \cup {"bound", "NULL", "DEFAULT"})
Record == [kind : {"unbound", "bound", "dae"}, value : Buffers \cup {Null},
           alloced : BOOLEAN]

TypeOK ==
  /\ rec \in [Descs -> [Params -> Record]]
  /\ live \subseteq Buffers /\ data \in [Buffers -> Value]
  /\ text \in [Stmts -> {"none", "plain", "current"}]
  /\ query \in [Stmts -> Queries] /\ orig_query \in [Stmts -> Queries]
  /\ phase \in [Stmts -> {"ready", "need", "must_put", "can_put", "null"}]
  /\ dae_type \in [Stmts -> BOOLEAN]
  /\ current_param \in [Stmts -> 0 .. NumParams]
  /\ given \in [Stmts -> [Params -> Value]]
  /\ wanted \in [Stmts -> Rows \cup {NoRow}]
  /\ row \in Rows
  /\ fault \in BOOLEAN
  /\ \A s \in Stmts :
       /\ (phase[s] # "ready") <=> dae_type[s]
       /\ phase[s] \in {"must_put", "can_put", "null"} => current_param[s] > 0

NoData == [i \in Params |-> <<>>]

Init ==
  /\ rec = [d \in Descs |-> [i \in Params |->
              [kind |-> "unbound", value |-> Null, alloced |-> FALSE]]]
  /\ live = {} /\ data = [b \in Buffers |-> <<>>]
  /\ text = [s \in Stmts |-> "none"]
  /\ query = [s \in Stmts |-> Text("none")]
  /\ orig_query = [s \in Stmts |-> Text("none")]
  /\ phase = [s \in Stmts |-> "ready"] /\ dae_type = [s \in Stmts |-> FALSE]
  /\ current_param = [s \in Stmts |-> 0]
  /\ given = [s \in Stmts |-> NoData] /\ wanted = [s \in Stmts |-> NoRow]
  /\ row \in Rows
  /\ sent = {} /\ fault = FALSE

-----------------------------------------------------------------------------
(* Memory. *)

Held(d) == {i \in Params : rec[d][i].alloced}
HeldBuffers(d) == {rec[d][i].value : i \in Held(d)}

Referenced == {rec[d][i].value : d \in Descs, i \in Params}

\* free of each value that a record of d owns: all of them are allocated,
\* and none of them is there twice.
FreeFails(d) ==
  \/ ~(HeldBuffers(d) \subseteq live)
  \/ \E i, j \in Held(d) : i # j /\ rec[d][i].value = rec[d][j].value

Freeing(d) ==
  /\ live' = live \ HeldBuffers(d)
  /\ data' = [b \in Buffers |-> IF b \in HeldBuffers(d) THEN <<>> ELSE data[b]]
  /\ fault' = FreeFails(d)

\* Mutant: the values are freed and remain marked as owned.
DisownedNot(d) == rec[d]

Disowned(d) == [i \in Params |-> [rec[d][i] EXCEPT !.alloced = FALSE]]

(* desc_free_paramdata *)
FreeParamData(d) == Freeing(d) /\ rec' = [rec EXCEPT ![d] = Disowned(d)]

\* No other statement collects data in the descriptor that s uses.
Alone(s) ==
  "share" \in Practices \/ \A t \in Stmts \ {s} : Apd[t] = Apd[s] => phase[t] = "ready"

Ready(s) == phase[s] = "ready" /\ Alone(s)

NeedsData(d) == \E i \in Params : rec[d][i].kind = "dae"
AllBound(d) == \A i \in Params : rec[d][i].kind # "unbound"

(***************************************************************************)
(* insert_param: the value of a parameter, as it is put into the query.    *)
(***************************************************************************)
Inserted(d, i) ==
  CASE rec[d][i].kind # "dae" -> <<"bound">>
    [] rec[d][i].kind = "dae" /\ rec[d][i].value = Null -> <<"DEFAULT">>
    [] OTHER -> data[rec[d][i].value]

UsesFreed(d) ==
  \E i \in Params : /\ rec[d][i].kind = "dae" /\ rec[d][i].value # Null
                    /\ rec[d][i].value \notin live

Meant(s) == [i \in Params |-> IF rec[Apd[s]][i].kind = "dae" THEN given[s][i] ELSE <<"bound">>]

\* The query of s goes to the server, for the row `for`.
Sends(s, for, wants) ==
  sent' = {[row |-> for, wanted |-> wants, meant |-> Meant(s),
            values |-> [i \in Params |-> Inserted(Apd[s], i)]]}

-----------------------------------------------------------------------------
(* Preparing and binding. *)

(* MySQLPrepare *)
Prepare(s, kind) ==
  /\ Ready(s)
  /\ text' = [text EXCEPT ![s] = kind]
  /\ query' = [query EXCEPT ![s] = Text(kind)]
  /\ orig_query' = [orig_query EXCEPT ![s] = Text("none")]
  /\ current_param' = [current_param EXCEPT ![s] = 0]
  /\ sent' = {}
  /\ UNCHANGED <<rec, live, data, fault, phase, dae_type, given, wanted, row>>

(* my_SQLBindParameter: an earlier value is freed, the record initialised. *)
BindParameter(s, i, kind) ==
  LET old == rec[Apd[s]][i] IN
  /\ Ready(s)
  /\ rec' = [rec EXCEPT ![Apd[s]][i] = [kind |-> kind, value |-> Null, alloced |-> FALSE]]
  /\ live' = IF old.alloced THEN live \ {old.value} ELSE live
  /\ data' = IF old.alloced THEN [data EXCEPT ![old.value] = <<>>] ELSE data
  /\ fault' = (old.alloced /\ old.value \notin live)
  /\ sent' = {}
  /\ UNCHANGED <<text, query, orig_query, phase, dae_type, current_param, given, wanted, row>>

\* The application writes to the indicator that a parameter is bound to.
SetIndicator(s, i) ==
  /\ Ready(s) /\ rec[Apd[s]][i].kind # "unbound"
  /\ rec' = [rec EXCEPT ![Apd[s]][i].kind = IF @ = "dae" THEN "bound" ELSE "dae"]
  /\ sent' = {}
  /\ UNCHANGED <<live, data, fault, text, query, orig_query, phase, dae_type,
                 current_param, given, wanted, row>>

-----------------------------------------------------------------------------
(* Executing. *)

FirstOf(S) == CHOOSE i \in S : \A j \in S : i <= j
DataParams(d) == {i \in Params : rec[d][i].kind = "dae"}

\* Mutant: the statement keeps the query made for one row.
RestoredNot(s) == [query |-> query[s], orig_query |-> orig_query[s]]

(* The end of do_query: the next execution starts with the original query. *)
Restored(s) ==
  IF orig_query[s].kind # "none"
  THEN [query |-> orig_query[s], orig_query |-> Text("none")]
  ELSE [query |-> query[s], orig_query |-> orig_query[s]]

Restore(s) ==
  /\ query' = [query EXCEPT ![s] = Restored(s).query]
  /\ orig_query' = [orig_query EXCEPT ![s] = Restored(s).orig_query]
  /\ UNCHANGED text

Wants(s) == IF text[s] = "current" THEN row ELSE NoRow

\* SQL_NEED_DATA is returned: the application has to supply data.
CollectData(s, param) ==
  /\ phase' = [phase EXCEPT ![s] = "need"]
  /\ dae_type' = [dae_type EXCEPT ![s] = TRUE]
  /\ current_param' = [current_param EXCEPT ![s] = param]
  /\ wanted' = [wanted EXCEPT ![s] = Wants(s)]
  /\ UNCHANGED given

\* Nothing is being collected by s any more.
Done(s) ==
  /\ phase' = [phase EXCEPT ![s] = "ready"]
  /\ dae_type' = [dae_type EXCEPT ![s] = FALSE]
  /\ given' = [given EXCEPT ![s] = NoData]
  /\ wanted' = [wanted EXCEPT ![s] = NoRow]
  /\ UNCHANGED current_param

(* my_SQLExecute of a query without WHERE CURRENT OF. *)
Execute(s) ==
  LET d == Apd[s] IN
  /\ Ready(s) /\ query[s].kind \in {"plain", "row"}
  /\ FreeParamData(d)
  /\ \/ /\ NeedsData(d) /\ CollectData(s, FirstOf(DataParams(d)) - 1)
        /\ sent' = {} /\ UNCHANGED textVars
     \/ /\ ~NeedsData(d) /\ sent' = {}       \* insert_params fails
        /\ Done(s) /\ UNCHANGED textVars
     \/ /\ ~NeedsData(d) /\ AllBound(d)
        /\ Sends(s, query[s].row, Wants(s)) /\ Done(s) /\ Restore(s)
  /\ UNCHANGED row

Positioned(s) == query[s].kind \in {"current", "cut"}
Copied(q) == IF q.kind = "cut" THEN Text("all") ELSE q

(***************************************************************************)
(* my_SQLExecute of a WHERE CURRENT OF query that comes to nothing: the    *)
(* cursor reads row by row (the text is not cut), or there is no such      *)
(* cursor, or my_pos_update fails before it executes anything              *)
(* (stmt_SQLCopyDesc has no memory; the temporary statement is then never  *)
(* freed). The last tokens of a text copied up to the terminator, by which *)
(* it is recognised, lie beyond its end.                                   *)
(***************************************************************************)
ExecuteInVain(s, cut) ==
  /\ Ready(s) /\ (Positioned(s) \/ query[s].kind = "all")
  /\ fault' = (query[s].kind = "all")
  /\ orig_query' = [orig_query EXCEPT ![s] = Copied(query[s])]
  /\ query' = [query EXCEPT ![s] = IF cut THEN Text("cut") ELSE @]
  /\ sent' = {}
  /\ UNCHANGED <<rec, live, data, text, phase, dae_type, current_param, given, wanted, row>>

(***************************************************************************)
(* my_pos_update: a temporary statement with a copy of the descriptor is   *)
(* executed. It frees the values through its copy. If it needs data the    *)
(* statement itself is prepared with the query for that row; that this has *)
(* memory is assumed (without it the query is gone and the values freed    *)
(* through the copy stay in the descriptor, as with the practice "mix").   *)
(***************************************************************************)
UpdateCurrent(s) ==
  LET d == Apd[s] IN
  /\ Ready(s) /\ Positioned(s)
  /\ "hold" \in Practices \/ Held(d) \subseteq DataParams(d)
  /\ Freeing(d) /\ UNCHANGED rec
  /\ orig_query' = [orig_query EXCEPT ![s] = Copied(query[s])]
  /\ \/ /\ NeedsData(d)
        /\ "mix" \in Practices \/ query[s].kind = "current"
        /\ "fail" \in Practices \/ AllBound(d)
        /\ query' = [query EXCEPT ![s] = OfRow(row)]
        /\ CollectData(s, 0) /\ sent' = {}
     \/ /\ ~NeedsData(d)
        /\ query' = [query EXCEPT ![s] = Text("cut")]
        /\ \/ AllBound(d) /\ Sends(s, row, Wants(s))
           \/ sent' = {}
        /\ UNCHANGED daeVars
  /\ UNCHANGED <<text, row>>

-----------------------------------------------------------------------------
(* Collecting data. *)

ToVisit(s) == {i \in DataParams(Apd[s]) : i > current_param[s]}

\* Mutant: the parameter after it.
VisitedNext(i) == i + 1

\* stmt->current_param while the data of parameter i is supplied.
Visited(i) == i

Emptied(r) == [r EXCEPT !.value = Null, !.alloced = FALSE]

(* SQLParamData, find_next_dae_param: there is a next parameter. *)
NextParam(s) ==
  /\ phase[s] \in {"need", "can_put", "null"} /\ ToVisit(s) # {}
  /\ LET i == FirstOf(ToVisit(s)) IN
       /\ current_param' = [current_param EXCEPT ![s] = Visited(i)]
       /\ rec' = [rec EXCEPT ![Apd[s]][i] = Emptied(@)]
  /\ phase' = [phase EXCEPT ![s] = "must_put"]
  /\ sent' = {}
  /\ UNCHANGED <<live, data, fault, text, query, orig_query, dae_type, given, wanted, row>>

(* SQLParamData, execute_dae: there is none. *)
ExecuteDae(s) ==
  LET d == Apd[s] IN
  /\ phase[s] \in {"need", "can_put", "null"} /\ ToVisit(s) = {}
  /\ fault' = UsesFreed(d)
  /\ \/ AllBound(d) /\ Sends(s, query[s].row, wanted[s]) /\ Restore(s)
     \/ /\ "fail" \in Practices \/ orig_query[s].kind = "none"
        /\ sent' = {} /\ UNCHANGED textVars
  /\ Done(s)
  /\ UNCHANGED <<rec, live, data, row>>

(* SQLPutData, append2param_value *)
PutData(s, piece) ==
  LET d == Apd[s]
      i == current_param[s]
      r == rec[d][i]
  IN
  /\ phase[s] \in {"must_put", "can_put"} /\ Len(given[s][i]) < MaxPieces
  /\ given' = [given EXCEPT ![s][i] = Append(@, piece)]
  /\ phase' = [phase EXCEPT ![s] = "can_put"]
  /\ \/ /\ r.value # Null
        /\ data' = IF r.value \in live THEN [data EXCEPT ![r.value] = Append(@, piece)]
                   ELSE data
        /\ fault' = (~r.alloced \/ r.value \notin live)
        /\ UNCHANGED <<rec, live>>
     \/ /\ r.value = Null
        /\ \E b \in Buffers \ (live \cup Referenced) :
             /\ live' = live \cup {b}
             /\ data' = [data EXCEPT ![b] = <<piece>>]
             /\ rec' = [rec EXCEPT ![d][i] = [@ EXCEPT !.value = b, !.alloced = TRUE]]
        /\ UNCHANGED fault
  /\ sent' = {}
  /\ UNCHANGED <<text, query, orig_query, dae_type, current_param, wanted, row>>

(* SQLPutData(SQL_NULL_DATA), which is not followed by more. *)
PutNull(s) ==
  /\ phase[s] = "must_put"
  /\ LET i == current_param[s]
         r == rec[Apd[s]][i]
     IN
       /\ live' = IF r.alloced THEN live \ {r.value} ELSE live
       /\ fault' = (r.alloced /\ r.value \notin live)
       /\ rec' = [rec EXCEPT ![Apd[s]][i] = Emptied(@)]
       /\ given' = [given EXCEPT ![s][i] = <<"NULL">>]
  /\ phase' = [phase EXCEPT ![s] = "null"]
  /\ sent' = {}
  /\ UNCHANGED <<data, text, query, orig_query, dae_type, current_param, wanted, row>>

-----------------------------------------------------------------------------
(* Giving up. *)

(* SQLCancel, and SQLFreeStmt(SQL_CLOSE) of a statement that needs no data. *)
Close(s) ==
  /\ phase[s] # "ready" => ("cancel" \in Practices \/ orig_query[s].kind = "none")
  /\ Alone(s)
  /\ FreeParamData(Apd[s]) /\ Done(s)
  /\ sent' = {}
  /\ UNCHANGED <<text, query, orig_query, row>>

(* SQLFreeStmt(SQL_RESET_PARAMS) *)
ResetParams(s) ==
  LET d == Apd[s] IN
  /\ Ready(s)
  /\ Freeing(d) /\ Done(s)
  /\ rec' = [rec EXCEPT ![d] = [i \in Params |-> [Disowned(d)[i] EXCEPT !.kind = "unbound"]]]
  /\ sent' = {}
  /\ UNCHANGED <<text, query, orig_query, row>>

\* The statement is dropped, and a new one uses the descriptor.
Drop(s) ==
  /\ Ready(s)
  /\ FreeParamData(Apd[s]) /\ Done(s)
  /\ text' = [text EXCEPT ![s] = "none"]
  /\ query' = [query EXCEPT ![s] = Text("none")]
  /\ orig_query' = [orig_query EXCEPT ![s] = Text("none")]
  /\ sent' = {}
  /\ UNCHANGED row

\* The application scrolls the cursor, which another statement has.
MoveCursor ==
  /\ row' \in Rows \ {row}
  /\ sent' = {}
  /\ UNCHANGED <<rec, live, data, fault, text, query, orig_query, phase, dae_type,
                 current_param, given, wanted>>

Binding(s) ==
  \/ \E kind \in {"plain", "current"} : Prepare(s, kind)
  \/ \E i \in Params, kind \in {"bound", "dae"} : BindParameter(s, i, kind)
  \/ \E i \in Params : SetIndicator(s, i)

Executing(s) ==
  \/ Execute(s) \/ UpdateCurrent(s)
  \/ \E cut \in BOOLEAN : ExecuteInVain(s, cut)

Collecting(s) ==
  \/ NextParam(s) \/ ExecuteDae(s) \/ PutNull(s)
  \/ \E piece \in Pieces : PutData(s, piece)

Next ==
  /\ ~fault
  /\ \/ \E s \in Stmts : \/ Binding(s) \/ Executing(s) \/ Collecting(s)
                         \/ Close(s) \/ ResetParams(s) \/ Drop(s)
     \/ MoveCursor

Spec == Init /\ [][Next]_vars

-----------------------------------------------------------------------------
(***************************************************************************)
(* A value is freed once and not used afterwards, no text is read beyond   *)
(* its end, and the memory in use is owned by exactly one record, so that  *)
(* none is lost (append2param_value, desc_free_paramdata).                 *)
(***************************************************************************)
MemorySafe ==
  /\ ~fault
  /\ \A b \in live : \E d \in Descs, i \in Params :
       rec[d][i].alloced /\ rec[d][i].value = b

(***************************************************************************)
(* A query goes to the server with the data the application supplied for   *)
(* this execution, piece after piece, in the order of the parameters, and  *)
(* a WHERE CURRENT OF query changes the row the cursor was on when it was  *)
(* executed (execute.c: execute_dae, do_query; cursor.c: my_pos_update).   *)
(* For NULL the driver sends DEFAULT.                                      *)
(***************************************************************************)
SentAsGiven ==
  \A q \in sent :
    /\ q.row = q.wanted
    /\ \A i \in Params :
         q.values[i] = IF q.meant[i] = <<"NULL">> THEN <<"DEFAULT">> ELSE q.meant[i]
=============================================================================
