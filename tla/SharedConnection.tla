-------------------------- MODULE SharedConnection --------------------------
(***************************************************************************)
(* Threads that execute statements of one connection (driver/execute.c:    *)
(* my_SQLExecute, insert_params, do_query, SQLCancel; driver/utility.c:    *)
(* set_sql_select_limit, odbc_stmt).  What they share is                   *)
(*   - dbc->lock, a non-recursive mutex,                                   *)
(*   - the packet buffer dbc->mysql.net.buff, in which insert_params       *)
(*     builds the text of a query and libmysql every packet it sends,      *)
(*   - the session's sql_select_limit and the driver's copy of it.         *)
(* Each statement is used by a thread of its own.  A text is a sequence of *)
(* cells, one for each parameter set joined into it by UNION ALL.          *)
(***************************************************************************)
EXTENDS Integers, Sequences, FiniteSets

CONSTANTS Stmt,
          Limits,     \* values of SQL_ATTR_MAX_ROWS, 0 for no limit
          MaxSets,    \* bound: parameter sets of one execution
          None,       \* no statement, no limit set so far
          Practices   \* what threads do beyond the careful use below

(***************************************************************************)
(* "share_buffer": execute a query with parameters while another statement *)
(*     of the connection is being executed;                                *)
(* "mix_limits": execute statements with different SQL_ATTR_MAX_ROWS at    *)
(*     the same time;                                                      *)
(* "batches": execute queries with several results (statements separated  *)
(*     by semicolons, procedures) and leave some of them unread;           *)
(* "cancel": call SQLCancel from a further thread.                         *)
(***************************************************************************)
ASSUME SharedConnectionAssumption ==
  /\ Limits \subseteq Nat /\ 0 \in Limits
  /\ MaxSets \in Nat \ {0}
  /\ None \notin Stmt \cup Nat
  /\ Practices \subseteq {"share_buffer", "mix_limits", "batches", "cancel"}

\* Cells other than the rows 1 .. MaxSets: a query without parameters, a
\* SET @@sql_select_limit command.
WholeQuery == 0
SetCommand == -1

Cell == Stmt \X (SetCommand .. MaxSets)

(***************************************************************************)
(* What is executed: a SELECT or not, with SQL_ATTR_MAX_ROWS, with one     *)
(* outcome of insert_params for each parameter set, or SQL_PARAM_IGNORE in *)
(* the operation array; dae if a parameter is given at execution.          *)
(***************************************************************************)
Job == [select : BOOLEAN, limit : Limits, params : BOOLEAN, dae : BOOLEAN,
        sets : UNION {[1 .. n -> {"use", "ignore", "bad"}] : n \in 1 .. MaxSets}]

\* A query without parameters: the array size is left from an earlier query.
Plain(j) == ~j.dae /\ \A k \in DOMAIN j.sets : j.sets[k] = "use"

VARIABLES
  lock,              \* holder of dbc->lock, or None
  buff,              \* dbc->mysql.net.buff
  sql_select_limit,  \* dbc->sql_select_limit
  limit,             \* @@sql_select_limit of the session
  up,                \* the server has not closed the connection
  more_results,      \* further results of a query are unread
  pc, job,           \* for each statement: where its thread is, with what
  frame,             \* ... and its local variables
  status,            \* ... and ipd->array_status_ptr
  kill               \* a KILL QUERY is under way

vars == <<lock, buff, sql_select_limit, limit, up, more_results, pc, job, frame, status,
          kill>>

Frame == [row : 1 .. MaxSets + 1,
          length : 0 .. MaxSets,           \* cells of the text built so far
          locked : BOOLEAN,                \* insert_params' trylock succeeded
          query : UNION {[1 .. n -> Cell \cup {None}] : n \in 0 .. MaxSets},
          rc : {"unset", "success", "error"},
          failed : BOOLEAN,                \* one_of_params_not_succeded
          all_failed : BOOLEAN,            \* all_parameters_failed
          lost : BOOLEAN,                  \* connection_failure
          executed : SUBSET (1 .. MaxSets)]

TypeOK ==
  /\ lock \in Stmt \cup {None}
  /\ buff \in [1 .. MaxSets -> Cell \cup {None}]
  /\ sql_select_limit \in Limits \cup {None}
  /\ limit \in Limits
  /\ up \in BOOLEAN /\ more_results \in BOOLEAN
  /\ pc \in [Stmt -> {"idle", "drain", "lock_array", "loop", "need_data", "write", "written",
                      "limit", "lock_limit", "put_limit", "send_limit", "cache",
                      "lock_query", "put_query", "send_query", "running", "return"}]
  /\ job \in [Stmt -> Job]
  /\ frame \in [Stmt -> Frame]
  /\ status \in [Stmt -> [1 .. MaxSets -> {"none", "success", "error", "unused"}]]
  /\ kill \in BOOLEAN

NoJob == [select |-> FALSE, limit |-> 0, params |-> FALSE, dae |-> FALSE,
          sets |-> <<"use">>]

NewFrame(j) == [row |-> 1, length |-> 0, locked |-> FALSE, query |-> <<>>,
                rc |-> "unset", failed |-> FALSE, all_failed |-> Len(j.sets) > 1,
                lost |-> FALSE, executed |-> {}]

NoStatus == [k \in 1 .. MaxSets |-> "none"]

Init ==
  /\ lock = None /\ kill = FALSE
  /\ buff = [k \in 1 .. MaxSets |-> None]
  /\ sql_select_limit = None /\ limit = 0 /\ up = TRUE /\ more_results = FALSE
  /\ pc = [s \in Stmt |-> "idle"]
  /\ job = [s \in Stmt |-> NoJob]
  /\ frame = [s \in Stmt |-> NewFrame(NoJob)]
  /\ status = [s \in Stmt |-> NoStatus]

-----------------------------------------------------------------------------
Size(s)    == Len(job[s].sets)
LastRow(s) == frame[s].row = Size(s)
AtSet(s, outcome) == frame[s].row <= Size(s) /\ job[s].sets[frame[s].row] = outcome

\* A SELECT with an array of parameters: one statement using UNION ALL is
\* built under dbc->lock, from the first set to the last.
Union(s) == job[s].select /\ job[s].params /\ Size(s) > 1

GoTo(s, label) == pc' = [pc EXCEPT ![s] = label]
Local(s, f) == frame' = [frame EXCEPT ![s] = f]
Unlock(s, condition) == lock' = IF condition THEN None ELSE lock

\* The next round of the loop, with the outcome rc of this one.
Continue(s, f, rc) ==
  /\ Local(s, [f EXCEPT !.row = @ + 1, !.rc = rc, !.failed = @ \/ rc # "success"])
  /\ GoTo(s, "loop")

\* After SQL_NEED_DATA execute_dae goes on, which reports no status.
SetStatus(s, st) ==
  status' = IF job[s].params /\ (job[s].dae => pc[s] = "loop")
            THEN [status EXCEPT ![s][frame[s].row] = st] ELSE status

-----------------------------------------------------------------------------
(* my_SQLExecute, up to my_SQLFreeStmt(MYSQL_RESET_BUFFERS), ... *)
Execute(s, j) ==
  /\ pc[s] = "idle"
  /\ ~j.params => Plain(j)
  /\ LET others == {t \in Stmt : pc[t] # "idle"} IN
       /\ "share_buffer" \notin Practices => \A t \in others : ~j.params /\ ~job[t].params
       /\ "mix_limits" \notin Practices => \A t \in others : job[t].limit = j.limit
  /\ job' = [job EXCEPT ![s] = j]
  /\ Local(s, NewFrame(j))
  /\ GoTo(s, "drain")
  /\ UNCHANGED <<lock, buff, sql_select_limit, limit, up, more_results, status, kill>>

\* Answers are read into the buffer, over whatever it holds.
Overwritten == [k \in 1 .. MaxSets |-> None]

(* ... which reads what results the connection has, of whichever statement *)
(* and without the lock, ...                                               *)
Drain(s) ==
  /\ pc[s] = "drain" /\ more_results
  /\ more_results' \in BOOLEAN
  /\ buff' = Overwritten
  /\ UNCHANGED <<lock, sql_select_limit, limit, up, pc, job, frame, status, kill>>

(* ... and on to the loop once there are none.                             *)
Drained(s) ==
  /\ pc[s] = "drain" /\ ~more_results
  /\ GoTo(s, IF Union(s) THEN "lock_array" ELSE "loop")
  /\ UNCHANGED <<lock, buff, sql_select_limit, limit, up, more_results, job, frame, status,
                 kill>>

LockArray(s) ==
  /\ pc[s] = "lock_array" /\ lock = None
  /\ lock' = s
  /\ GoTo(s, "loop")
  /\ UNCHANGED <<buff, sql_select_limit, limit, up, more_results, job, frame, status, kill>>

\* Mutant: one round more than the array has sets.
PlainRoundOneMore(s) ==
  /\ pc[s] = "loop" /\ frame[s].row <= Size(s) + 1 /\ ~job[s].params
  /\ Local(s, [frame[s] EXCEPT !.row = @ + 1])
  /\ UNCHANGED <<lock, buff, sql_select_limit, limit, up, more_results, pc, job, status, kill>>

(* A round without parameters: a SELECT is executed once, in the last.     *)
PlainRound(s) ==
  /\ pc[s] = "loop" /\ frame[s].row <= Size(s) /\ ~job[s].params
  /\ IF ~job[s].select \/ LastRow(s)
     THEN /\ Local(s, [frame[s] EXCEPT !.query = <<<<s, WholeQuery>>>>])
          /\ GoTo(s, "limit")
     ELSE /\ Local(s, [frame[s] EXCEPT !.row = @ + 1])
          /\ UNCHANGED pc
  /\ UNCHANGED <<lock, buff, sql_select_limit, limit, up, more_results, job, status, kill>>

\* Mutant: the lock is kept if the last set is ignored.
IgnoreSetLocked(s) ==
  /\ pc[s] = "loop" /\ job[s].params /\ AtSet(s, "ignore")
  /\ SetStatus(s, "unused")
  /\ Local(s, [frame[s] EXCEPT !.row = @ + 1])
  /\ UNCHANGED <<lock, buff, sql_select_limit, limit, up, more_results, pc, job, kill>>

(* SQL_PARAM_IGNORE *)
IgnoreSet(s) ==
  /\ pc[s] = "loop" /\ job[s].params /\ AtSet(s, "ignore")
  /\ SetStatus(s, "unused")
  /\ Unlock(s, Union(s) /\ LastRow(s))
  /\ Local(s, [frame[s] EXCEPT !.row = @ + 1])
  /\ UNCHANGED <<buff, sql_select_limit, limit, up, more_results, pc, job, kill>>

(* Data at execution: the whole array is refused at the first set that is  *)
(* not ignored; a single set waits for the application's SQLParamData,     *)
(* which resumes in execute_dae.                                           *)
RefuseDataAtExec(s) ==
  /\ pc[s] = "loop" /\ job[s].dae /\ Size(s) > 1
  /\ AtSet(s, "use") \/ AtSet(s, "bad")
  /\ Local(s, [frame[s] EXCEPT !.rc = "error", !.failed = TRUE])
  /\ Unlock(s, job[s].select)
  /\ status' = [status EXCEPT ![s] = [k \in 1 .. MaxSets |->
                  CASE k < frame[s].row -> @[k]
                    [] k = frame[s].row -> "error"
                    [] OTHER            -> IF k <= Size(s) THEN "unused" ELSE @[k]]]
  /\ GoTo(s, "return")
  /\ UNCHANGED <<buff, sql_select_limit, limit, up, more_results, job, kill>>

NeedData(s) ==
  /\ pc[s] = "loop" /\ job[s].dae /\ Size(s) = 1
  /\ AtSet(s, "use") \/ AtSet(s, "bad")
  /\ GoTo(s, "need_data")
  /\ UNCHANGED <<lock, buff, sql_select_limit, limit, up, more_results, job, frame, status, kill>>

(* insert_params: trylock, and build the text whether or not it succeeds   *)
TryLock(s) ==
  /\ \/ pc[s] = "loop" /\ job[s].params /\ ~job[s].dae
     \/ pc[s] = "need_data"
  /\ AtSet(s, "use") \/ AtSet(s, "bad")
  /\ lock' = IF lock = None THEN s ELSE lock
  /\ Local(s, [frame[s] EXCEPT !.locked = lock = None])
  /\ GoTo(s, "write")
  /\ UNCHANGED <<buff, sql_select_limit, limit, up, more_results, job, status, kill>>

WriteSet(s) ==
  /\ pc[s] = "write"
  /\ buff' = [buff EXCEPT ![frame[s].length + 1] = <<s, frame[s].row>>]
  /\ GoTo(s, "written")
  /\ UNCHANGED <<lock, sql_select_limit, limit, up, more_results, job, frame, status, kill>>

(* ... a parameter cannot be converted: on to the next set *)
FailSet(s) ==
  /\ pc[s] = "written" /\ AtSet(s, "bad")
  /\ Unlock(s, frame[s].locked \/ (Union(s) /\ LastRow(s)))
  /\ SetStatus(s, "error")
  /\ Continue(s, frame[s], "error")
  /\ UNCHANGED <<buff, sql_select_limit, limit, up, more_results, job, kill>>

\* Mutant: the next set overwrites this one.
JoinSetInPlace(s) ==
  /\ pc[s] = "written" /\ AtSet(s, "use") /\ job[s].select /\ ~LastRow(s)
  /\ Unlock(s, frame[s].locked)
  /\ SetStatus(s, "success")
  /\ Continue(s, frame[s], "success")
  /\ UNCHANGED <<buff, sql_select_limit, limit, up, more_results, job, kill>>

(* ... or the set joins the text of a UNION ALL under construction, *)
JoinSet(s) ==
  /\ pc[s] = "written" /\ AtSet(s, "use") /\ job[s].select /\ ~LastRow(s)
  /\ Unlock(s, frame[s].locked)
  /\ SetStatus(s, "success")
  /\ Continue(s, [frame[s] EXCEPT !.length = @ + 1], "success")
  /\ UNCHANGED <<buff, sql_select_limit, limit, up, more_results, job, kill>>

(* ... or the text is complete and is copied out of the buffer.            *)
CopyText(s) ==
  /\ pc[s] = "written" /\ AtSet(s, "use") /\ (~job[s].select \/ LastRow(s))
  /\ Unlock(s, frame[s].locked \/ Union(s))
  /\ SetStatus(s, "success")
  /\ Local(s, [frame[s] EXCEPT !.query = [k \in 1 .. frame[s].length + 1 |-> buff[k]]])
  /\ GoTo(s, "limit")
  /\ UNCHANGED <<buff, sql_select_limit, limit, up, more_results, job, kill>>

-----------------------------------------------------------------------------
\* Mutant: the set keeps the status insert_params gave it.
RoundDoneKeepingStatus(s, f, rc) ==
  /\ Continue(s, [f EXCEPT !.length = 0, !.query = <<>>, !.locked = FALSE,
                           !.all_failed = @ /\ rc # "success"], rc)
  /\ UNCHANGED status

(* The end of a round that executes something: not sent, failed or done.   *)
RoundDone(s, f, rc) ==
  /\ Continue(s, [f EXCEPT !.length = 0, !.query = <<>>, !.locked = FALSE,
                           !.all_failed = @ /\ rc # "success"], rc)
  /\ SetStatus(s, rc)

\* Mutant: the limit is set by the first query only.
CheckLimitOnce(s) ==
  /\ pc[s] = "limit"
  /\ GoTo(s, IF sql_select_limit # None THEN "lock_query" ELSE "lock_limit")
  /\ UNCHANGED <<lock, buff, sql_select_limit, limit, up, more_results, job, frame, status, kill>>

\* Mutant: the limit is remembered before the server has accepted it.
CheckLimitEarly(s) ==
  /\ pc[s] = "limit"
  /\ GoTo(s, IF job[s].limit = sql_select_limit THEN "lock_query" ELSE "lock_limit")
  /\ sql_select_limit' = job[s].limit
  /\ UNCHANGED <<lock, buff, limit, up, more_results, job, frame, status, kill>>

(* do_query: set_sql_select_limit, which compares with dbc's copy first;   *)
(* on a connection known to be lost my_SQLExecute does not get here.       *)
CheckLimit(s) ==
  /\ pc[s] = "limit"
  /\ IF frame[s].lost
     THEN RoundDone(s, frame[s], "error")
     ELSE /\ GoTo(s, IF job[s].limit = sql_select_limit THEN "lock_query"
                                                        ELSE "lock_limit")
          /\ UNCHANGED <<frame, status>>
  /\ UNCHANGED <<lock, buff, sql_select_limit, limit, up, more_results, job, kill>>

Acquire(s, from, to) ==
  /\ pc[s] = from /\ lock = None
  /\ lock' = s
  /\ GoTo(s, to)
  /\ UNCHANGED <<buff, sql_select_limit, limit, up, more_results, job, frame, status, kill>>

LockForLimit(s) == Acquire(s, "lock_limit", "put_limit")
LockForQuery(s) == Acquire(s, "lock_query", "put_query")

(* mysql_real_query: libmysql puts the command into the buffer unless       *)
(* results are unread, ...                                                 *)
PutLimit(s) ==
  /\ pc[s] = "put_limit" /\ ~more_results
  /\ buff' = [buff EXCEPT ![1] = <<s, SetCommand>>]
  /\ GoTo(s, "send_limit")
  /\ UNCHANGED <<lock, sql_select_limit, limit, up, more_results, job, frame, status, kill>>

PutQuery(s) ==
  /\ pc[s] = "put_query" /\ ~more_results
  /\ buff' = [k \in 1 .. MaxSets |-> IF k <= Len(frame[s].query)
                                     THEN frame[s].query[k] ELSE buff[k]]
  /\ GoTo(s, "send_query")
  /\ UNCHANGED <<lock, sql_select_limit, limit, up, more_results, job, frame, status, kill>>

(* ... sends it and waits for the answer.  The lock is released before the *)
(* driver's copy of the limit is updated.                                  *)
SetLimit(s) ==
  /\ pc[s] = "send_limit" /\ up /\ buff[1] = <<s, SetCommand>>
  /\ limit' = job[s].limit
  /\ buff' = Overwritten
  /\ lock' = None
  /\ GoTo(s, "cache")
  /\ UNCHANGED <<sql_select_limit, up, more_results, job, frame, status, kill>>

CacheLimit(s) ==
  /\ pc[s] = "cache"
  /\ sql_select_limit' = job[s].limit
  /\ GoTo(s, "lock_query")
  /\ UNCHANGED <<lock, buff, limit, up, more_results, job, frame, status, kill>>

SendQuery(s) ==
  /\ pc[s] = "send_query" /\ up
  /\ GoTo(s, "running")
  /\ UNCHANGED <<lock, buff, sql_select_limit, limit, up, more_results, job, frame, status, kill>>

\* The parameter sets in the text of the query.
Executed(s) == IF ~job[s].params THEN {frame[s].row}
               ELSE {k \in 1 .. MaxSets : \E i \in DOMAIN frame[s].query :
                                            frame[s].query[i] = <<s, k>>}

QueryDone(s) ==
  /\ pc[s] = "running"
  /\ lock' = None
  /\ more_results' \in BOOLEAN
  /\ more_results' => "batches" \in Practices
  /\ buff' = Overwritten
  /\ RoundDone(s, [frame[s] EXCEPT !.executed = @ \cup Executed(s)], "success")
  /\ UNCHANGED <<sql_select_limit, limit, up, job, kill>>

\* A round ends with an error, which is an answer if there is a connection.
Failed(s) ==
  /\ lock' = None
  /\ buff' = IF up /\ ~more_results THEN Overwritten ELSE buff
  /\ RoundDone(s, [frame[s] EXCEPT !.lost = ~up], "error")
  /\ UNCHANGED <<sql_select_limit, limit, up, more_results, job>>

(* The server refuses the SET or the query, or is gone (LoseConnection);   *)
(* libmysql refuses both while results are unread: commands out of sync.   *)
CommandFails(s) ==
  /\ \/ pc[s] \in {"send_limit", "send_query", "running"}
     \/ pc[s] \in {"put_limit", "put_query"} /\ more_results
  /\ Failed(s)
  /\ UNCHANGED kill

LoseConnection ==
  /\ up /\ up' = FALSE
  /\ UNCHANGED <<lock, buff, sql_select_limit, limit, more_results, pc, job, frame, status, kill>>

(* The end of my_SQLExecute or execute_dae *)
EndLoop(s) ==
  /\ pc[s] = "loop" /\ frame[s].row > Size(s)
  /\ GoTo(s, "return")
  /\ UNCHANGED <<lock, buff, sql_select_limit, limit, up, more_results, job, frame, status, kill>>

\* rc is not initialised when the only set is ignored.
ReturnCodes(s) ==
  LET f == frame[s] IN
  CASE Size(s) > 1 /\ f.all_failed              -> {"error"}
    [] Size(s) > 1 /\ ~f.all_failed /\ f.failed -> {"success_with_info"}
    [] OTHER -> IF f.rc = "unset" THEN {"success", "error"} ELSE {f.rc}

Return(s) ==
  /\ pc[s] = "return"
  /\ GoTo(s, "idle")
  /\ job' = [job EXCEPT ![s] = NoJob]
  /\ Local(s, NewFrame(NoJob))
  /\ status' = [status EXCEPT ![s] = NoStatus]
  /\ UNCHANGED <<lock, buff, sql_select_limit, limit, up, more_results, kill>>

-----------------------------------------------------------------------------
(* SQLCancel(s): if the lock is free it closes the statement; if not, a    *)
(* second connection sends KILL QUERY for the whole connection, ...        *)
Cancel(s) ==
  /\ "cancel" \in Practices /\ ~kill
  /\ pc[s] # "idle" /\ lock # None
  /\ kill' = TRUE
  /\ UNCHANGED <<lock, buff, sql_select_limit, limit, up, more_results, pc, job, frame,
                 status>>

(* ... which stops the query that is running when it arrives, if any.      *)
KillArrives ==
  /\ kill /\ kill' = FALSE
  /\ \/ \E s \in Stmt : pc[s] = "running" /\ Failed(s)
     \/ /\ \A s \in Stmt : pc[s] # "running"
        /\ UNCHANGED <<lock, buff, sql_select_limit, limit, up, more_results, pc, job,
                       frame, status>>

-----------------------------------------------------------------------------
Step(s) == \/ Drain(s) \/ Drained(s) \/ LockArray(s) \/ PlainRound(s)
           \/ IgnoreSet(s) \/ RefuseDataAtExec(s) \/ NeedData(s) \/ TryLock(s) \/ WriteSet(s) \/ FailSet(s) \/ JoinSet(s)
           \/ CopyText(s) \/ CheckLimit(s) \/ LockForLimit(s) \/ LockForQuery(s)
           \/ PutLimit(s) \/ PutQuery(s) \/ SetLimit(s) \/ CacheLimit(s)
           \/ SendQuery(s) \/ QueryDone(s) \/ CommandFails(s) \/ EndLoop(s) \/ Return(s)

Next == \/ \E s \in Stmt : Step(s) \/ Cancel(s) \/ \E j \in Job : Execute(s, j)
        \/ LoseConnection \/ KillArrives

(* A thread inside a call goes on with it whenever it can; the application *)
(* answers SQL_NEED_DATA.  Mutexes are not assumed to be fair.             *)
Spec == Init /\ [][Next]_vars
FairSpec == Spec /\ \A s \in Stmt : WF_vars(Step(s))

-----------------------------------------------------------------------------
(* dbc->lock is held where the code says so, and nowhere else; since it is *)
(* not recursive a thread never waits for a lock that it holds.            *)
Holding(s) == \/ pc[s] \in {"put_limit", "send_limit", "put_query", "send_query", "running"}
              \/ pc[s] \in {"write", "written"} /\ frame[s].locked
              \/ pc[s] \in {"loop", "write", "written"} /\ Union(s) /\ frame[s].row <= Size(s)

LockDiscipline == \A s \in Stmt : lock = s <=> Holding(s)

(* execute.c: "If this is last paramset - we will miss unlock": whatever   *)
(* becomes of the parameter sets, of the query and of the server, a thread *)
(* that holds the connection's lock releases it.                           *)
LockReleased == []<>(lock = None)

(* utility.c, exec_stmt_query: "SQL_ATTR_MAX_ROWS applies to all result    *)
(* sets on the statement and not connection": a query runs under the limit *)
(* of its own statement.                                                   *)
LimitHonoured == \A s \in Stmt : pc[s] = "running" => limit = job[s].limit

(* The text that reaches the server with a query is the statement's own,   *)
(* all usable sets up to the present one in their order, or the present    *)
(* one only if the statement is no SELECT.                                 *)
Usable(s) == {k \in DOMAIN job[s].sets :
                /\ job[s].sets[k] = "use"
                /\ IF job[s].select THEN k <= frame[s].row ELSE k = frame[s].row}

QueryIntact ==
  \A s \in Stmt : pc[s] = "send_query" =>
     IF ~job[s].params THEN buff[1] = <<s, WholeQuery>>
     ELSE \A k \in Usable(s) : buff[Cardinality(Usable(s) \cap 1 .. k)] = <<s, k>>

(* driver.h, DBC: "value of the sql_select_limit currently set for a       *)
(* session": once no call is about to update it, the copy is exact.        *)
LimitCacheExact ==
  (\A s \in Stmt : pc[s] # "cache") => sql_select_limit \in {None, limit}

(* A parameter set whose status is SQL_PARAM_SUCCESS when the call returns *)
(* has been executed, one that was not executed has another status, and    *)
(* SQL_ERROR says of an array that none was; for the arrays that are       *)
(* executed set by set, without data at execution.                         *)
StatusExact ==
  \A s \in Stmt : pc[s] = "return" /\ job[s].params /\ ~job[s].select /\ ~job[s].dae =>
     /\ \A k \in 1 .. Size(s) : status[s][k] = "success" <=> k \in frame[s].executed
     /\ Size(s) > 1 => ("error" \in ReturnCodes(s) <=> frame[s].executed = {})
=============================================================================
