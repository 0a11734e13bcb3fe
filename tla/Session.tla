------------------------------ MODULE Session ------------------------------
(***************************************************************************)
(* What the driver remembers of a connection's session on the server, and  *)
(* what the server knows (driver/options.c, connect.c, handle.c,           *)
(* utility.c).  The driver keeps commit_flag, txn_isolation and            *)
(* sql_select_limit in the DBC; the session they speak of is replaced by a *)
(* new one when the handle is disconnected and connected again, when a     *)
(* pooled connection is woken up by mysql_change_user, and when libmysql   *)
(* reconnects (option AUTO_RECONNECT).                                     *)
(***************************************************************************)
EXTENDS Naturals

CONSTANTS Limits,     \* values of SQL_ATTR_MAX_ROWS, 0 for no limit
          Levels,     \* transaction isolation levels
          None        \* an attribute the driver has no value for

ASSUME SessionAssumption ==
  /\ Limits \subseteq Nat /\ 0 \in Limits
  /\ "READ UNCOMMITTED" \in Levels
  /\ None \notin Levels \cup Nat \cup BOOLEAN

VARIABLES
  config,            \* the server and the data source
  phase,             \* "fresh", then "connected" or "disconnected"
  link,              \* mysql.net.vio: "none"; "up"; "lost" by the server only
  session,           \* the session on the server
  commit_flag,       \* None, or autocommit as set before connecting
  txn_isolation,     \* None, or a level
  sql_select_limit,  \* None (-1), or a limit
  need_to_wakeup,
  wanted,            \* history: autocommit as the application set it last
  ran                \* history: the last query's SQL_ATTR_MAX_ROWS, limit and session

vars == <<config, phase, link, session, commit_flag, txn_isolation,
          sql_select_limit, need_to_wakeup, wanted, ran>>
memory == <<commit_flag, txn_isolation, sql_select_limit>>

Config == [trans_supported : BOOLEAN, disable_transactions : BOOLEAN,
           auto_reconnect : BOOLEAN, autocommit : BOOLEAN, isolation : Levels]

\* How a session came about: the handle's first or a later connect, the
\* wakeup of a pooled connection, a reconnect by libmysql.
Origin == {"connect", "reuse", "wakeup", "reconnect"}

SessionState == [autocommit : BOOLEAN, isolation : Levels, limit : Limits,
                 made : Origin]

TypeOK ==
  /\ config \in Config
  /\ phase \in {"fresh", "connected", "disconnected"}
  /\ link \in {"none", "up", "lost"}
  /\ session \in SessionState
  /\ commit_flag \in BOOLEAN \cup {None}
  /\ txn_isolation \in Levels \cup {None}
  /\ sql_select_limit \in Limits \cup {None}
  /\ need_to_wakeup \in BOOLEAN
  /\ wanted \in BOOLEAN \cup {None}
  /\ ran \in [max_rows : Limits, limit : Limits, made : Origin]

NewSession(how) == [autocommit |-> config.autocommit, isolation |-> config.isolation,
                    limit |-> 0, made |-> how]

Init ==
  /\ config \in Config
  /\ ~config.trans_supported => config.autocommit
  /\ phase = "fresh" /\ link = "none"
  /\ session = NewSession("connect")
  /\ commit_flag = None /\ txn_isolation = None /\ sql_select_limit = None
  /\ need_to_wakeup = FALSE
  /\ wanted = None
  /\ ran = [max_rows |-> 0, limit |-> 0, made |-> "connect"]

-----------------------------------------------------------------------------
\* A command can be sent: libmysql notices a lost connection and reconnects
\* if it may.
CanSend == link = "up" \/ (config.auto_reconnect /\ phase = "connected")

\* WAKEUP_CONN_IF_NEEDED: mysql_change_user, a command like others, gives the
\* connection a session that is new.  The call that needs it fails if it does.
CanWake   == need_to_wakeup => CanSend
Awake     == IF need_to_wakeup THEN NewSession("wakeup") ELSE session
AwakeLink == IF need_to_wakeup THEN "up" ELSE link

\* mysql.net.vio, which the calls look at after the wakeup.
is_connected == AwakeLink # "none"

\* The session that a command after the wakeup is sent in.
Sent == IF AwakeLink = "up" THEN Awake ELSE NewSession("reconnect")

-----------------------------------------------------------------------------
(* SQLSetConnectAttr(SQL_ATTR_AUTOCOMMIT) *)
SetAutocommit(on) ==
  /\ CanWake
  /\ need_to_wakeup' = FALSE
  /\ \/ (* before connecting, or when libmysql has closed the connection *)
        /\ ~is_connected
        /\ commit_flag' = on
        /\ UNCHANGED <<session, link>>
     \/ /\ is_connected
        /\ ~on => config.trans_supported /\ ~config.disable_transactions
        /\ IF Awake.autocommit = on
           THEN session' = Awake /\ link' = AwakeLink
           ELSE CanSend /\ session' = [Sent EXCEPT !.autocommit = on]
                /\ link' = "up"
        /\ UNCHANGED commit_flag
  /\ wanted' = on
  /\ UNCHANGED <<config, phase, txn_isolation, sql_select_limit, ran>>

(* SQLSetConnectAttr(SQL_ATTR_TXN_ISOLATION) *)
SetIsolation(level) ==
  /\ CanWake
  /\ need_to_wakeup' = FALSE
  /\ \/ ~is_connected /\ UNCHANGED <<session, link>>
     \/ /\ is_connected /\ config.trans_supported /\ CanSend
        /\ session' = [Sent EXCEPT !.isolation = level]
        /\ link' = "up"
  /\ txn_isolation' = level
  /\ UNCHANGED <<config, phase, commit_flag, sql_select_limit, wanted, ran>>

\* Mutant: an unknown level is taken for the default, as before connecting.
GetIsolationUnasked ==
  /\ is_connected /\ CanWake
  /\ need_to_wakeup' = FALSE
  /\ session' = Awake /\ link' = AwakeLink
  /\ txn_isolation' = IF txn_isolation = None THEN "REPEATABLE READ" ELSE txn_isolation
  /\ UNCHANGED <<config, phase, commit_flag, sql_select_limit, wanted, ran>>

(* SQLGetConnectAttr(SQL_ATTR_TXN_ISOLATION) on a connection: the server   *)
(* is asked only if the level is not known.                                *)
GetIsolation ==
  /\ is_connected /\ CanWake
  /\ need_to_wakeup' = FALSE
  /\ IF txn_isolation # None
     THEN session' = Awake /\ link' = AwakeLink /\ UNCHANGED txn_isolation
     ELSE /\ CanSend
          /\ session' = Sent /\ link' = "up"
          /\ txn_isolation' = session'.isolation
  /\ UNCHANGED <<config, phase, commit_flag, sql_select_limit, wanted, ran>>

\* Mutant: the mode set before connecting is not applied.
ModeOfServer == config.autocommit

(* The autocommit mode a session begins with; off is refused unless        *)
(* transactions are enabled.                                               *)
Refused == /\ commit_flag = FALSE
           /\ ~config.trans_supported \/ config.disable_transactions
Mode == IF commit_flag = None \/ Refused THEN config.autocommit ELSE commit_flag

(* myodbc_do_connect: the session gets the autocommit mode and isolation   *)
(* level set before, as far as transactions are enabled.                   *)
Connect ==
  /\ link = "none"
  /\ phase \in {"fresh", "disconnected"}
  /\ commit_flag' = IF Refused THEN TRUE ELSE commit_flag
  /\ wanted' = IF Refused THEN None ELSE wanted
  /\ txn_isolation' = IF txn_isolation # None /\ ~config.trans_supported
                      THEN "READ UNCOMMITTED" ELSE txn_isolation
  /\ session' = [NewSession(IF phase = "fresh" THEN "connect" ELSE "reuse") EXCEPT
       !.autocommit = Mode,
       !.isolation = IF txn_isolation = None \/ ~config.trans_supported
                     THEN @ ELSE txn_isolation]
  /\ link' = "up" /\ phase' = "connected"
  /\ UNCHANGED <<config, sql_select_limit, need_to_wakeup, ran>>

(* A connect that fails leaves what it found, unless it gets as far as the *)
(* isolation level: a mode that was refused is given up by then, and the   *)
(* diagnostic that would say so is overwritten by the error.               *)
ConnectFails ==
  /\ link = "none"
  /\ phase \in {"fresh", "disconnected"}
  /\ Refused /\ config.trans_supported /\ txn_isolation # None
  /\ commit_flag' = TRUE /\ wanted' = None
  /\ UNCHANGED <<config, phase, link, session, txn_isolation, sql_select_limit,
                 need_to_wakeup, ran>>

(* SQLDisconnect keeps all the driver remembers of the session. *)
Disconnect ==
  /\ phase = "connected"
  /\ phase' = "disconnected" /\ link' = "none"
  /\ UNCHANGED <<config, session, memory, need_to_wakeup, wanted, ran>>

(* SQL_ATTR_RESET_CONNECTION: on its way into the driver manager's pool *)
ResetConnection ==
  /\ phase = "connected" /\ CanWake
  /\ session' = Awake /\ link' = AwakeLink
  /\ need_to_wakeup' = TRUE
  /\ wanted' = None
  /\ UNCHANGED <<config, phase, memory, ran>>

\* Mutant: a statement without limit leaves the session's limit alone.
QueryLimitingOnly(n) ==
  /\ phase = "connected" /\ CanWake /\ CanSend
  /\ need_to_wakeup' = FALSE
  /\ sql_select_limit' = n
  /\ session' = IF n \in {0, sql_select_limit} THEN Sent
                ELSE [Sent EXCEPT !.limit = n]
  /\ link' = "up"
  /\ ran' = [max_rows |-> n, limit |-> session'.limit, made |-> session'.made]
  /\ UNCHANGED <<config, phase, commit_flag, txn_isolation, wanted>>

\* Mutant: no limit is remembered as the largest value, not as 0.
QueryUnlimited(n) ==
  /\ phase = "connected" /\ CanWake /\ CanSend
  /\ need_to_wakeup' = FALSE
  /\ sql_select_limit' = IF n = 0 THEN 2147483647 ELSE n
  /\ session' = [Sent EXCEPT !.limit = n]
  /\ link' = "up"
  /\ ran' = [max_rows |-> n, limit |-> session'.limit, made |-> session'.made]
  /\ UNCHANGED <<config, phase, commit_flag, txn_isolation, wanted>>

(* SQLAllocStmt, which wakes the connection up, and do_query under the     *)
(* statement's SQL_ATTR_MAX_ROWS: the limit is set only if it is not the   *)
(* one remembered.                                                         *)
Query(n) ==
  /\ phase = "connected" /\ CanWake /\ CanSend
  /\ need_to_wakeup' = FALSE
  /\ sql_select_limit' = n
  /\ session' = IF n = sql_select_limit THEN Sent
                ELSE [Sent EXCEPT !.limit = n]
  /\ link' = "up"
  /\ ran' = [max_rows |-> n, limit |-> session'.limit, made |-> session'.made]
  /\ UNCHANGED <<config, phase, commit_flag, txn_isolation, wanted>>

-----------------------------------------------------------------------------
(* A call that wakes the connection up and has no further effect: it asks  *)
(* for transactions where there are none, or its command fails.            *)
WakeOnly ==
  /\ phase = "connected" /\ need_to_wakeup /\ CanWake
  /\ need_to_wakeup' = FALSE
  /\ session' = Awake /\ link' = AwakeLink
  /\ UNCHANGED <<config, phase, memory, wanted, ran>>

(* The server ends the session: a timeout, a restart. *)
ServerDrops ==
  /\ link = "up" /\ link' = "lost"
  /\ UNCHANGED <<config, phase, session, memory, need_to_wakeup, wanted, ran>>

(* A command finds the connection gone and cannot reconnect: libmysql      *)
(* closes the socket, and the handle no longer counts as connected.        *)
CommandFails ==
  /\ link = "lost" /\ link' = "none"
  /\ UNCHANGED <<config, phase, session, memory, need_to_wakeup, wanted, ran>>

Next == \/ \E on \in BOOLEAN : SetAutocommit(on)
        \/ \E level \in Levels : SetIsolation(level)
        \/ \E n \in Limits : Query(n)
        \/ GetIsolation \/ Connect \/ ConnectFails \/ Disconnect \/ ResetConnection
        \/ WakeOnly \/ ServerDrops \/ CommandFails

Spec == Init /\ [][Next]_vars

-----------------------------------------------------------------------------
(* set_sql_select_limit: during a handle's first session the limit that    *)
(* the driver remembers is the session's, across lost connections and      *)
(* changes of everything else.                                             *)
LimitCacheExact ==
  link = "up" /\ session.made = "connect" => sql_select_limit \in {None, session.limit}

(* "value of the sql_select_limit currently set for a session" (driver.h): *)
(* what the driver remembers outlives the session, and a query that asks   *)
(* for the remembered limit runs without one in a session that a later     *)
(* connect, a wakeup or a reconnect made.  No session leads to worse: a    *)
(* query runs under the SQL_ATTR_MAX_ROWS of its own statement or under    *)
(* none, never under the limit of another statement or of an earlier       *)
(* session, which would cut its answer short; and in the handle's first    *)
(* session always under its own.                                           *)
LimitOwnOrNone ==
  ran.limit # ran.max_rows => ran.limit = 0 /\ ran.made # "connect"

(* options.c, SQL_ATTR_TXN_ISOLATION: a level the driver believes to know  *)
(* and reports without asking is the session's, in every session that      *)
(* SQLConnect made, however often the handle is connected again.           *)
IsolationExact ==
  link = "up" /\ session.made \in {"connect", "reuse"} /\ config.trans_supported =>
     txn_isolation \in {None, session.isolation}

(* connect.c: "Make sure autocommit is set as configured": a handle's      *)
(* first session, and one woken up from the pool, is in the autocommit     *)
(* mode that the application set last, before or after connecting.         *)
AutocommitKept ==
  link = "up" /\ session.made \in {"connect", "wakeup"} /\ wanted # None =>
     session.autocommit = wanted
=============================================================================
