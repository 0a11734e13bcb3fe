# TLA+ models of the MongoDB BI Connector ODBC driver

The driver (a fork of MySQL Connector/ODBC) lets ODBC applications talk to the
BI Connector over the MySQL protocol. This directory holds models of the parts
of `src/driver` whose correctness depends on the order of many calls, on several
threads, or on state that is kept in two places; TLC configurations that check
them on small instances; and proofs, checked by TLAPS, of what holds for every
instance. Paths below are relative to `src/`.

## 1. The system

| Part | State | Operations | What makes it correct |
|---|---|---|---|
| Handles (`driver/handle.c`, `desc.c`, `options.c`, `connect.c`) | lists `DBC.statements`, `DBC.exp_desc`, `DESC.exp.stmts`; pointers `STMT.apd/ard`, `DESC.exp.dbc` | `SQLAllocHandle`, `SQLFreeHandle`, `SQLSetStmtAttr` of the descriptors, `SQLDisconnect`, pooling | nothing freed is touched; lists and pointers agree; nothing leaks |
| Descriptor records (`driver/desc.c`) | a dynamic array of slots, `count`, `elements` | `desc_get_rec` on behalf of `SQLBindParameter`, `SQLBindCol`, `SQLPrepare`, `SQLSetDescField`; `SQLFreeStmt(SQL_UNBIND, SQL_RESET_PARAMS)`, `SQLCopyDesc` | behaves as a list of bindings |
| Execution (`driver/execute.c`, `utility.c`) | `DBC.lock`, the packet buffer `DBC.mysql.net.buff`, parameter status arrays | `SQLExecute`, `SQLParamData`, `SQLCancel`, by several threads | the lock is released; the texts sent are the statements' own; status arrays tell what was executed |
| Session state (`driver/options.c`, `connect.c`, `handle.c`, `utility.c`) | `DBC.commit_flag`, `txn_isolation`, `sql_select_limit`, `need_to_wakeup`, and the server's session | connection attributes, connect, disconnect, pooling, reconnect | what the driver remembers is what the server has |
| Statement life cycle, data at execution (`prepare.c`, `execute.c`) | `STMT.state`, `dummy_state`, `dae_type`, `current_param`, `par.value` | `SQLPrepare`, `SQLExecDirect`, `SQLParamData`, `SQLPutData`, `SQLFreeStmt` | legal sequences only; values sent once, freed once |
| Results (`results.c`, `my_stmt.c`, `my_prepared_stmt.c`) | `STMT.result`, `current_row`, `getdata`, scroller; results pending on the wire | `SQLFetchScroll`, `SQLGetData`, `SQLMoreResults`, `SQLRowCount` | each row once, in order; no statement takes another's result |
| Cursors (`cursor.c`) | `STMT.cursor`, `setpos_apd` | `SQLSetPos`, `SQLBulkOperations`, `WHERE CURRENT OF` | the row changed is the row fetched |
| Parser (`parse.c`) | token positions, parameter markers | `parse` | markers are outside strings and comments |
| Library (`dll.c`, parts of `handle.c`) | `myodbc_inited`, per-thread counters, `ENV.connections` | first and last environment, thread counting | initialised once, ended once |
| Transactions (`transact.c`) | none of its own | `SQLEndTran` | every connection ends its transaction |
| Errors (`error.c`), catalog, information, ANSI/Unicode wrappers | last error | diagnostics, fixed results, conversions of arguments | local to one call |
| Data sources (`util/`), set-up and installer (`setupgui/`, `installer/`, `dltest/`) | DSN attributes | reading, writing, dialogs | local to one call |
| Vendored code (`mysql_sys/`, `mysql_strings/`, `include/`), `test/`, packaging | | | not the driver's own logic |

How they interact: a statement belongs to a connection and uses descriptors of
that connection; binding calls go through `SQLSetDescField` to the records of
whatever descriptor is in use; executing reads the records, builds the query in
the connection's packet buffer and takes the connection's lock; every command
runs in the one session of the connection, whose state the connection handle
remembers. There are no threads or callbacks of the driver's own: concurrency
comes from applications (the tests configure the driver manager with
`Threading = 0`, no serialisation), failure from the server, from refused
values and from allocation, and crashes lose all state with the process, so
that there is nothing to recover.

The hazards that follow from this, each at its line, with the properties that
would catch it, are listed in `PROJECT.json`, with a note where a property
leaves some use of the API out.

## 2. The modules

| Module | Models | Extends / uses |
|---|---|---|
| `DescriptorUse` | abstract: what a statement's descriptors are, free of pointers | |
| `Handles` | handles, their lists and pointers | refines `DescriptorUse` |
| `HandlesProofs` | theorems about `Handles` | `Handles`, TLAPS |
| `Bindings` | abstract: a descriptor as a list of bindings | |
| `DescRecords` | the array of records and its two counters | refines `Bindings` |
| `DescRecordsProofs` | theorems about `DescRecords` | `DescRecords`, TLAPS |
| `SharedConnection` | threads executing statements of one connection | |
| `SharedConnectionProofs` | theorems about `SharedConnection` | `SharedConnection`, TLAPS |
| `Session` | what the driver remembers of a session, and the session | |
| `SessionProofs` | theorems about `Session` | `Session`, TLAPS |
| `RowsetCursor` | abstract: rowsets as runs of consecutive rows | |
| `Fetch` | the fetch functions and the LIMIT scroller | refines `RowsetCursor` |
| `FetchProofs` | theorems about `Fetch` | `Fetch`, TLAPS |
| `ResultQueues` | abstract: each statement has a queue of results | |
| `ResultSets` | several results, several statements, one connection | refines `ResultQueues` |
| `ResultSetsProofs` | theorems about `ResultSets` | `ResultSets`, TLAPS |
| `PositionedUpdate` | SQLSetPos, SQL_ADD, WHERE CURRENT OF over rowsets | |
| `PositionedUpdateProofs` | theorems about `PositionedUpdate` | `PositionedUpdate`, TLAPS |
| `DataAtExec` | parameters supplied at execution, and whose memory they are | |
| `DataAtExecProofs` | theorems about `DataAtExec` | `DataAtExec`, TLAPS |
| `MCHandles`, `MCDescRecords`, `MCDataAtExec` | the above for TLC, with symmetry or the descriptor each statement uses | |

In every module an action is a whole handler, named after it. Operators marked
"Mutant" in a comment are not part of a model: they are forms of the definition
below them with a plausible bug, kept to confirm that the properties notice.

**Practices.** Several defects of the code need a particular use of the API. So
that these do not hide everything else, the constant `Practices` of a module
names the uses that an instance includes; the empty set is the careful use for
which the code works. Every practice is a guard in the module, with a comment
that says what it is. Adding one to the `Practices` of a cfg makes TLC show the
defect; section 4 lists those that contradict a statement of the repository, the
most telling of which have a run of their own.

### Handles

`dbc->statements`, `dbc->exp_desc` and `desc->exp.stmts` are the variables
`statements`, `exp_desc` (sets) and `stmts` (a multiset: the code adds a node
per call); `stmt->apd` and `stmt->ard` are `app[s].param` and `app[s].row`, with
one value `Implicit` for the statement's own descriptors, which live and die with
it. A handle is used once, as a fresh allocation, so that a pointer to a freed
object is recognised; `fault` records that one was followed, that something was
freed twice, or that the assertion in `desc_remove_stmt` failed. After a fault no
action is enabled: there is nothing to say of a program that has used freed
memory. The driver manager's checks (a connected handle for statements, a
disconnected one for `SQLFreeConnect`) are guards. Environment handles, the
mutexes around list changes and everything else in the handles are left out. The
driver's list of connections, its error messages and statement attributes play
no part in the links.

The abstract `DescriptorUse` has neither lists nor pointers: who owns a handle,
which handles are alive, and which descriptor a statement uses per role. Its
`Release` is the contract stated above `my_SQLFreeDesc`: freeing a descriptor
resets the statements that use it, and no other.

Practices: `null_handle` (SQL_NULL_HDESC while an explicit descriptor is set),
`replace` (an explicit descriptor set over another), `pool_reset` (pooling a
connection that has explicit descriptors), `no_memory` (an allocation in
`my_SQLAllocStmt` fails after the statement was listed: the statement is
"broken" until SQLDisconnect or pooling drops it), `no_statement` (the first
allocation there fails, and the error path frees what an uninitialised pointer
leads to). Dropping a broken statement reads its freed descriptors, and
`MemorySafe` says that this is the only fault: `fault` implies that a broken
statement was dropped. Before that step all lists and pointers are as they
should be, so that the other properties hold with broken statements around.

### DescRecords

`slot` is the buffer of `desc->records`, `elements` and `max_element` its
counters, `count` is `desc->count`. A record is abstracted to the buffer bound to
it, `Unbound` as initialised, or `Garbage` for memory never written.
`GetRec` is the whole loop of `desc_get_rec(.., TRUE)`, in which every round that
reuses a slot initialises slot `recnum` rather than slot `i`; the slots that one
call clears are `Cleared`. Calls that go record by record (`prepare`) have
`i = recnum` in every round: `ClearedInTurn`. The array grows by `Increment`
slots. Unbinding column 0 of a descriptor without records sets `count` to -1
(results.c:1332), and the next `desc_get_rec` starts a round earlier: `Length`
and `Lead`. Failing allocation, the bookmark record itself, IPD, IRD and the
fields of a record other than its binding are left out; the descriptor is one of
a statement.

`Bindings` is the list an application has in mind: growing it adds unbound
records and changes none. The refinement maps its records to the first `count`
slots.

Practices: `skip_record` (records added from beyond `count + 1` on while slots of
an earlier list are there), `grow_copy` (records added to a descriptor that was
copied into).

### SharedConnection

Each statement is used by a thread of its own; `pc` and `frame` are the thread's
position and local variables in `my_SQLExecute`, `insert_params`, `do_query` and
`odbc_stmt`. The steps are cut where the threads can meet: at locks, at writes to
and reads of the packet buffer `buff`, when libmysql waits for the server, and at
the updates of `sql_select_limit`. A query text is a sequence of cells, one per
parameter set joined by UNION ALL; a value of a parameter is only "can be used"
or "cannot be converted". Errors of the server may hit each command, the
connection may be lost for good at any time, and `SQLCancel` runs in a further
thread: `Cancel` is its failed `trylock`, `KillArrives` the KILL QUERY on its
second connection.

`libmysql` is external: it writes a command into `net.buff`, sends what is there,
and waits; answers are read into the same buffer (`Overwritten`). An execution
begins with the loop over `next_result` in `my_SQLFreeStmt(MYSQL_RESET_BUFFERS)`
(execute.c:1384), which reads whatever results the connection has, without the
lock: `Drain`, one result at a time, and `Drained`. `more_results` says that
results are unread; libmysql refuses commands meanwhile. A failing read is not
distinguished from the last result, and `next_result` also sets the connection's
count of affected rows, which this module has not (see `ResultSets`). Server-side prepared statements (which do not build texts), positioned
cursors and the scroller are left out.

Practices: `share_buffer`, `mix_limits`, `batches` (queries with several results
that are not all read), `cancel`. Without the first two, a
query with parameters is executed alone and statements executed at the same time
have the same SQL_ATTR_MAX_ROWS.

### Session

`session` is the server's session, with a ghost field `made` that says how it
came about: the handle's first connect, a later one ("reuse"), the wakeup of a
pooled connection (`mysql_change_user`), a reconnect by libmysql. The other
variables are the DBC's. A call on a pooled connection wakes it up first
(`WAKEUP_CONN_IF_NEEDED`), and may then fail: `WakeOnly`. `link` is
`mysql.net.vio` together with whether the server still has the other end; a
command on a lost connection reconnects (AUTO_RECONNECT) or closes it, after
which the driver takes the handle for unconnected. The wakeup is a command like others
and may itself reconnect (`CanSend`). `ConnectFails` is a connect that gets as
far as the isolation level and fails there (connect.c:521): the autocommit mode
it gave up before stays given up. There are no practices: the properties say in
which kinds of session they hold. `LimitOwnOrNone` holds in all: the remembered
row limit outlives its session (driver.h:387 notwithstanding), so that in a
session made by a later connect, a wakeup or a reconnect a query may run without
its limit, but it never runs under a limit that is not its own.

### Fetch

A row is its number in the answer of the query without LIMIT, so that stored,
streamed and prefetched results are compared by the same numbers. `chunk` is
what is in memory or on its way: the whole answer of a stored result, the rest
of a stream, or the chunk that the scroller asked for last. `data_cursor` and
`end_of_set` are row pointers of the client library: positions in the chunk, a
null pointer at the end, or `Freed` once `mysql_free_result` has taken the rows
they pointed to. One call of `my_SQLExtendedFetch` is several steps: `Fetch` up
to the loop (the target of the orientation, and `row_seek` or `data_seek`), one
step per row (`ReadRow`) or chunk (`NextChunk`), `FetchReturns` after it. The
connection may be lost before any chunk or row of a stream. One row of the table
may be one whose value cannot be converted.

`RowsetCursor` knows only the size of the answer, where the rowset begins and
the rows in it. The refinement takes the LIMIT and SQL_ATTR_MAX_ROWS of the
query for the size, and so says that the scroller, which rewrites the LIMIT for
every chunk, delivers what the query as written would.

SQLGetData, bookmarks other than row numbers, output parameters and server-side
prepared statements are left out; the array size is changed at any time between
fetches.

Practices: `continue` (fetch on after a rowset that was an error as a whole),
`server_errors` (a prefetch or a stream ends with an error other than a lost
connection, which the loop takes for the end of the data).

### ResultSets

`wire` holds the results of the query executed last that were not read yet. The
connection does not know whose they are; in the model they carry their statement,
which no guard looks at. `stream` is the statement in the middle of a
`mysql_use_result`, during which the client library refuses commands
("commands out of sync": `busy`). The number of rows that a result reports is
represented by the result itself; `count` is the connection's, `saved` the
statement's, and `SQLRowCount` chooses between the two. `Drained` is the loop
over `next_result` in `my_SQLFreeStmtExtended`.

An execution that fails leaves the statement's state as it is, or prepared if it
was SQLExecDirect, which prepares first (`NotExecuted`).

`ResultQueues` has no connection: each statement moves along its own query.

Practices: `pending` (use a statement while results of another wait),
`row_count` (ask a statement that has a result for its count after another one
used the connection).

### PositionedUpdate

A row is its key; a table is a set of them, in the order of their keys. What a
row of a rowset *means* is what the application has in its buffers, `seen`; what
the driver *changes* is the row at `result->data_cursor` after
`set_current_cursor_data`. `last` compares the two for the operation under way.
An update or delete of a rowset is one step per row (`ChangeRow`), so that a
failure or another client's change can come between. `set_dynamic_result` is
`Refreshed`: the query is executed again and the cursor put back. If that fails
the old result is gone and there is no new one (`RefreshFails`), whatever it was
called for: the statement has no result until the next execution. A fetch is one
step with the effect that `Fetch` establishes for stored results.

The texts of the queries, keys and columns, bookmarks, cursor names and data at
execution for SQLSetPos are left out.

Practices: `refetch` (fetch a rowset of a static cursor that has the row worked on
last, `NotRefetched`), `empty`, `after_delete`, `delete_current`, `position`,
`add_row`, `others`, `errors`, all explained in the module.

### DataAtExec

A record of the parameter descriptor is unbound, bound, or has its data supplied
at execution; `value` and `alloced` are `par.value` and `par.alloced`, addresses
in `Buffers`, of which `live` are allocated. `phase` is what the driver manager
lets a statement do. `given` is what the application supplied, and `sent` the
query that a call sent, with both the values in it and the values meant. A query
text is a kind, and for a `WHERE CURRENT OF` text what has been done to it:
`cut` by a terminator, copied up to it, or replaced by the query for one row.

`UpdateCurrent` is `my_pos_update` with its temporary statement and copied
descriptor. If copying has no memory nothing is executed (`ExecuteInVain`) and
the temporary statement stays in the connection's list, unused, until
SQLDisconnect drops it; a second `my_SQLPrepare` without memory (cursor.c:930) is
left out. `MoveCursor` moves the cursor of the other statement between
execution and sending.

Server-side prepared statements, parameter arrays (see `SharedConnection`),
output streams and `SQLCopyDesc` are left out. A value of NULL is sent as
DEFAULT; `SentAsGiven` says so rather than hide it.

Practices: `share`, `cancel`, `fail`, `mix`, `hold`, each explained in the module.

## 3. What is checked

Passing runs (distinct states):

| Run | Instance | Properties |
|---|---|---|
| `handles` (26 179) | 2 connections, 3 statements, 2 explicit descriptors, failing allocations; each list has at most `MaxNodes` = 2 nodes of a statement | `MemorySafe`, `AssociationsExact`, `UsableDescriptors`, `ListsExact`, `NothingOutlivesItsConnection`, and the refinement `ImplementsDescriptorUse` |
| `desc_records` (198 577) | `MaxRec` = 4 records, 2 buffers, increment 2 | the refinement `ImplementsBindings` |
| `shared_connection` (562 696) | 2 threads, arrays of at most `MaxSets` = 2 sets, limits 0 and 5, queries with several results, SQLCancel; no symmetry | `LockDiscipline`, `QueryIntact`, `LimitHonoured`, `LimitCacheExact`, `StatusExact` and the liveness property `LockReleased` |
| `session` (230 004) | 3 limits, 2 levels, every combination of server and data source options | `LimitOwnOrNone`, `IsolationExact`, `AutocommitKept` |
| `fetch` (125 429) | tables of up to `MaxRows` = 4 rows, rowsets of up to 2, every orientation and offset | `RowsetExact`, `EndOfData`, `StatusExact`, `MemorySafe` and the refinement `ImplementsRowsetCursor` |
| `result_sets` (26 987) | 2 statements, queries of up to `MaxResults` = 3 results | `OwnResults`, `RowCountExact`, `ConnectionFree` and the refinement `ImplementsResultQueues` |
| `positioned_update` (575 987) | 4 rows, rowsets of up to 2, static and dynamic cursors | `NamedRowsOnly`, `SuccessMeansChanged`, `MemorySafe` and the action property `NextRowsetFollows` |
| `data_at_exec` (296 568) | 2 statements on one descriptor, 2 parameters, 3 buffers, values of up to 2 pieces, 2 rows | `MemorySafe`, `SentAsGiven` |

Each module's `TypeOK` is checked with them. Deadlock is checked except in
`handles` (every handle may have been used up, and nothing follows a fault).

What the bounds leave room for: two connections, to confuse descriptors of one
with statements of the other; three statements, so that a descriptor is shared
while a third statement comes and goes; both roles and two descriptors, so that
a statement has two lists to leave. With four records and an increment of two the
array grows twice, shrinks, and is reused in part. Two threads are every pair of
threads, and the properties compare a thread with one other; with two sets there
is a first, a last, and each combination of ignored, bad and usable ones. The
session model is bounded only by its sets of values: three limits make "the
remembered", "the session's" and "the wanted" all differ. For fetching, a table
has rows before, in and behind a rowset, and several chunks whose size does and
does not divide it; `OffsetBound` stops a scroller that is asked again and again
after its end. Three results are one behind the statement, one at it and one to
come. With four rows and rowsets of two, a rowset has a neighbour on both sides
and the last may be incomplete; `UintSize` stands for 2^32. Two parameters are a
first and a next one; two values may be held while a third is freed or in the
other statement's query.

Symmetry is used for handles and the buffers of `DescRecords`; no constant appears in a definition or a property.

**Fairness.** `LockReleased` assumes `WF_vars(Step(s))`: a thread inside a call
goes on with it while it can. That is the operating system's scheduling; the
server answers or the connection breaks (`CommandFails` is always enabled where
`QueryDone` is), and an application answers SQL_NEED_DATA, in which state no lock
is held. A mutex is not assumed to be fair: nothing is claimed of a thread that
waits for one.

## 4. Where the code and its documentation disagree

Each of these runs checks one statement of the repository, quoted in
`PROJECT.json`, and finds it violated.

| Run | Statement | What happens |
|---|---|---|
| `handles_pool` | `MemorySafe` (handle.c:292) | `reset_connection` frees the explicit descriptors and keeps the list of them: freed again later |
| `desc_skip` | `InBounds` (desc.c:209, 260) | `desc_get_rec` finds slot i left over and clears slot `recnum`: binding a record beyond the next one, after SQL_RESET_PARAMS or unbinding, writes behind the array |
| `positioned_refetch` | `NamedRowsOnly` (cursor.c:300, 684) | the cursor is taken to be on a row that a fetch has moved it away from: update row 2, fetch the rowset again, update row 2: row 1 is changed |
| `dae_cancel` | `SentAsGiven` (execute.c:215, 1365) | a cancelled update of the current row keeps the query for that row, and the next execution updates it wherever the cursor is |

The models show further disagreements, with the practice that brings them out:

| Practice | Source | What happens |
|---|---|---|
| `null_handle` of `Handles` | options.c:670 "we must disassociate this statement from the explicit descriptor" | `SQL_NULL_HDESC` sets the implicit descriptor back and leaves the statement in the explicit one's list (`AssociationsExact`) |
| `skip_record` of `DescRecords` | desc.c:260 "we might have used records lying around from before" | bind 1..3, reset, bind 3: records 1 and 2 are parameters again (`ImplementsBindings`; where the slot is not allocated, run `desc_skip`) |
| `no_statement` of `Handles` | handle.c:486-487 | an allocation that fails is followed by freeing what an uninitialised pointer leads to (`MemorySafe`) |
| `share_buffer` of `SharedConnection` | execute.c:368 "was _already_ locked" | a query is built in the packet buffer another thread is sending from (`QueryIntact`) |
| `cancel` of `SharedConnection` | execute.c:1893 | cancelling a statement that waits for the lock kills the query of the one that has it (`frame.killed`) |
| none (`SharedConnection`, SELECT) | execute.c:1345, 1574 | a SELECT whose last parameter set is ignored is never executed: SQL_ERROR, with sets marked successful |
| none (`Session`) | driver.h:387 "currently set for a session" | the remembered row limit outlives its session; later queries may run without one (`LimitOwnOrNone` is what is left) |
| `after_delete`, `delete_current`, `position`, `add_row` of `PositionedUpdate` | cursor.c:1152 "fix-up so fetching next rowset is correct" and others | another row is changed, or the next rowset skips one |
| `mix` of `DataAtExec` | parse.c:195 | a text cut by a terminator is copied with the positions of tokens behind it |

## 5. What is proved

The proofs are for every value of the constants, within the assumptions named
in the modules (`HandlesAssumption`, `DescRecordsAssumption`,
`SharedConnectionAssumption`, `SessionAssumption`, `ResultSetsAssumption`,
`FetchAssumption`, `DataAtExecAssumption`, `PositionedAssumption`). They hold for sets of handles, threads, statements and
parameters and for tables and rowsets of any size, where the runs have a few.

* **Handles**: `TypeCorrect` without restriction; `MemorySafety`,
  `AssociationsAreExact`, `DescriptorsAreUsable`, `ListsAreExact`, `NoLeak` and
  `Refinement` (the driver implements `DescriptorUse`) also when allocations fail
  (`Practices \subseteq {"no_memory"}`), which is where the code has to undo half
  an operation. `MemorySafety` then covers every call but the SQLDisconnect or
  pooling that drops a half-allocated statement: whoever faults, it is that step. None of these is inductive alone; `IInv` is their conjunction
  with `Fresh`: an unused handle belongs to nothing, an allocated
  one to exactly one connection, and a descriptor whose connection was freed is
  freed. With it each `desc_remove_stmt` finds its node and each list walk meets
  live nodes only, so that no step faults; and a connection's lists name exactly
  what has to go when it is freed. The refinement shows, action by action, which
  step of the contract is taken; dropping all statements of a connection is one
  `Release`.
* **DescRecords**: `TypeCorrect` without restriction; for `Practices = {}`
  `Refinement` to `Bindings`. The invariant adds `Initialised`: no record below
  `count` is uninitialised memory. The argument is lemma `GetRecCareful`: for a
  careful call the slots that `desc_get_rec` clears are exactly the new records
  `count .. r`. Either none is new, or one left-over slot is reused and it is the
  record asked for, or nothing is left over and all new records are appended.
* **SharedConnection**: `TypeCorrect` and `Locking` hold without any restriction
  on what threads do, and for any number of them; the invariant also fixes what a
  frame can be at each `pc`. `LimitsHonoured` and `LimitsCached` assume that
  `mix_limits` is not among the practices; their invariant relates the limits of
  all running jobs to the session's.
  In the first, `Placed` says for each thread where in its job it can be at each
  `pc`. In the second, `OneLimit` says that the jobs under way agree on their
  limit, and `LimitIs` that a job past its `set_sql_select_limit` finds that limit
  in the session; `LimitHonoured` follows.
  `TextsIntact` (`QueryIntact`) and `StatusesExact` (`StatusExact`) assume that `share_buffer` is not among the practices. A
  statement with parameters is then executed alone, so that the packet buffer is
  its own from the first `insert_params` to the sending; the invariant says what
  is in the buffer and in the copy at each `pc`: the sets in use so far, in their
  order. A set's status is recorded when its round ends, and what the sets are
  recorded as fits the return code. Draining without the lock overwrites the
  buffer, but a statement alone has drained before it writes a text; `Unread` says
  that nobody waits for an answer while results are unread.
* **Session**: `TypeCorrect`, `Isolation`, `Autocommit`, `Limit` and
  `LimitRemembered`, without restriction. `IsolationExact` is inductive with
  `TypeOK`: it holds through a disconnect because the level is remembered and
  sent by the next connect. `Autocommit` needs `AutocommitInv`: before the first
  connect the mode set last is in `commit_flag`, which that connect sends, and a
  connection that waits to be woken up has had nothing set since. `Limit`
  (`LimitOwnOrNone`) needs that a session's limit is the remembered one or none,
  and in a handle's first session, which starts with no remembered limit, that
  the remembered one is exact. `LimitRemembered` states `LimitCacheExact` of
  `Session`, which no run of that module checks: the run of `SharedConnection`
  checks its counterpart there.
* **Fetch**: `TypeCorrect` and `RowStatuses` (`StatusExact`) without restriction:
  the statuses fit the return code whatever the server answers. `NoFreedRows`
  (`MemorySafe`) unless the application goes on after a fetch that failed
  (`"continue"`); its invariant `MemInv` says that where the next rowset would go on
  from the end of the last one, that end is not in a freed chunk. For `Practices = {}` `Rowsets`
  (`RowsetExact`), `Completeness` (`EndOfData`) and `Refinement` to
  `RowsetCursor`. What has to be
  shown is that three ways to the next row agree: the remembered end of the
  rowset, a seek, and the next chunk's offset. `At(d, n)` says that the position
  d in memory is behind n rows of the answer; `Placed` says it of `data_cursor`
  during a fetch and of `end_of_set` between fetches. `Chunks` says that the
  next chunk goes on where the one in memory ends, unless the answer is over or
  the connection was lost, and that `limit_count` is less than a whole chunk only
  for the last. It rests on `Sized` (how `scroller_create` chooses the chunk and
  the total from the two limits) and on lemma `Part`: whatever chunk is due at an
  offset, its rows are rows of the answer, and as many as asked for unless the
  answer ends there. `Progress` ties the rows found so far to the rowset wanted
  and to their statuses.
* **ResultSets**: `TypeCorrect`, `Ownership` (`OwnResults`), `FreeConnection` and
  `Refinement` to `ResultQueues`, unless a statement is used while another one's
  results wait on the connection (`"pending"`); `RowCounts` for `Practices = {}`. The invariant `IInv` adds `InLine` (what waits on the
  connection are the last results of one statement's query, in order),
  `Streaming` (a statement in the middle of a stream is the one that used the
  connection last), `Owned` (a statement's result is of its query), `Answered`
  (without `"row_count"` the counts told are right) and `CountKept` (the connection's count, as long as nobody else used it, is of that
  result). Lemmas count what waits for a statement: all of it or none.
* **DataAtExec**: `TypeCorrect` without restriction; `NoMemoryFault` (`MemorySafe`)
  also when executions fail (`Practices \subseteq {"fail"}`), after which the
  statement keeps a query for one row; for `Practices = {}` `DataSent`
  (`SentAsGiven`), which that query breaks. `IInv` says
  where each value is at any time. `Owned`: one record owns it and it is
  allocated, except those that `my_pos_update` freed through its copy of the
  descriptor, whose parameters `SQLParamData` has not come to yet (`Stale`).
  `Collected`: a parameter's data is not asked for yet and nothing allocated is
  held for it, or asked for and empty, or supplied and in its buffer as given.
  `Texts`: which text a statement has between and during executions. The step
  lemmas say what a step of one statement leaves alone: other descriptors, and
  other statements of the same one, of which `Exclusive` has one at most collect
  data. `FirstOf` is the least element by `LeastNumber`, from the library's
  theorem that a well-founded relation has minimal elements.
* **PositionedUpdate**: `TypeCorrect`, `MemorySafety` and `NextRowset`
  (`NextRowsetFollows`) for `Practices \subseteq {"refetch", "position",
  "add_row", "errors"}`; `NamedRows` (`NamedRowsOnly`) for `Practices \subseteq
  {"errors"}`, as each of the others changes another row; `SuccessTold`
  (`SuccessMeansChanged`) for `Practices = {}`, as a loop over rows returns what
  the last one returned. `NamedRowsOnly` holds because three places agree, which `IInv` says one by one.
  `Framed`: the rowset the application sees is the part of the result from
  `current_row` on. `Located`: if `cursor_row` says that the result is at a row of
  the rowset, `data_cursor` is there; `SetCurrentFinds` then shows that walking to
  row i arrives at it. `Dynamic`: until rows are deleted through it, the result
  of a dynamic cursor is what the server answers, so that executing the query
  again changes nothing. `Operation` says which rows the operation under way has
  still to change. After `"refetch"`, `Located` fails for a static cursor; what
  is left, and is enough for memory, is that `data_cursor` is the place of some row
  (`Cursors`). `Accounted`, the invariant of `SuccessTold`, says that every row
  meant is changed, gone or still to come; it holds at each step of which the
  server refuses nothing. The server's answer is a `CHOOSE`; that it exists is lemma
  `Listed` (rows can be listed in order), by a smallest counterexample.
  `NextRowsetFollows` needs `Order`: as many rows of the table as `current_row`
  and `rows_found_in_set` count are not behind the last row seen, also after
  rows were deleted through a dynamic cursor, where both the table and the count
  are less. Lemma `CountUpTo` relates a row's number in a listing to the rows
  that come before it.

Model-checked only: `LockReleased`. Liveness and ENABLED are beyond the prover, and so are inductions
over data (what `GetRec` or a sequence operator computes is proved from its
definition without one). What a practice breaks is shown by TLC; the proofs say
where the code works.

## 6. The plan

Done: `Handles`, `DescRecords`, `SharedConnection`, `Session`, `ResultSets`,
`Fetch`, `DataAtExec` and `PositionedUpdate`, with proofs.

Next, in order of importance:

1. `PositionedUpdate` without restriction on `"after_delete"`: TLC finds memory
   safe in that use, also with the four of the theorem, and unsafe only together
   with `"delete_current"`; `Framed` is then false after a deletion and needs
   another invariant about the shortened result.
2. `Library`: counted initialisation, per-thread counters and environment
   handles under concurrent calls; `Transactions` over its connections.
3. `GetData`: offsets of SQLGetData in a row, and output parameters.
4. `Parser` and `ConnectionString`: tokeniser and key-value parser as functions,
   against a reference definition over bounded inputs.
5. Composition: `ResultSets` with `SharedConnection`'s locking, and
   `PositionedUpdate` with `DataAtExec` for SQLSetPos.

## 7. Not modelled

Catalog and information functions, error tables, ANSI/Unicode wrappers and value
conversions: each works on its arguments within one call. Data source files,
dialogs, installer: user interface and I/O. Vendored libraries, tests, packaging:
not the driver's logic, except for the dynamic array, modelled as far as
`DescRecords` uses it. Server-side prepared statements (`my_prepared_stmt.c`)
follow a protocol of their own and are left out of every module, as are SQLGetData
and output parameters. `PROJECT.json` lists every part with its status.

## 8. Running

    tlc -config MCHandles.cfg MCHandles
    tlc -config MCDescRecords.cfg MCDescRecords
    tlc -config SharedConnection.cfg SharedConnection
    tlc -config Session.cfg Session
    tlc -config Fetch.cfg Fetch
    tlc -config ResultSets.cfg ResultSets
    tlc -config PositionedUpdate.cfg PositionedUpdate
    tlc -config MCDataAtExec.cfg MCDataAtExec
    tlc -config MCDescSkip.cfg MCDescRecords     # and the other runs of section 4
    tlapm HandlesProofs.tla       # and the other *Proofs modules
