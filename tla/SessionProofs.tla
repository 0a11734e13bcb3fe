--------------------------- MODULE SessionProofs ---------------------------
(***************************************************************************)
(* What TLAPS proves of Session, for all limits and isolation levels: what *)
(* the driver remembers of a session is right in the sessions that a       *)
(* command or Connect gives it the chance to know.                         *)
(***************************************************************************)
EXTENDS Session, TLAPS

(* Type correctness, under all practices.                                  *)
THEOREM TypeCorrect == Spec => []TypeOK
<1>1. Init => TypeOK
  <2> SUFFICES ASSUME Init PROVE TypeOK
    OBVIOUS
  <2>1. config.autocommit \in BOOLEAN /\ config.isolation \in Levels
    BY DEF Init, Config
  <2>2. session \in SessionState
    BY <2>1, SessionAssumption DEF Init, NewSession, SessionState, Origin
  <2> QED BY <2>2, SessionAssumption DEF Init, TypeOK, Origin
<1>2. TypeOK /\ [Next]_vars => TypeOK'
  <2> SUFFICES ASSUME TypeOK, [Next]_vars PROVE TypeOK'
    OBVIOUS
  <2>1. config.autocommit \in BOOLEAN /\ config.isolation \in Levels /\ 0 \in Limits
    BY SessionAssumption DEF TypeOK, Config
  <2>2. Awake \in SessionState /\ NewSession("reconnect") \in SessionState
    BY <2>1 DEF TypeOK, SessionState, NewSession, Awake, Origin
  <2>3. Sent \in SessionState
    BY <2>2 DEF Sent
  <2>4. CASE \E on \in BOOLEAN : SetAutocommit(on)
    <3>1. PICK on \in BOOLEAN : SetAutocommit(on)
      BY <2>4
    <3>2. [Sent EXCEPT !.autocommit = on] \in SessionState
      BY <2>3 DEF SessionState
    <3>3. session' \in SessionState
      BY <2>2, <3>1, <3>2 DEF SetAutocommit, TypeOK
    <3>4. link' \in {"none", "up", "lost"}
      BY <3>1 DEF SetAutocommit, TypeOK, AwakeLink
    <3>5. commit_flag' \in BOOLEAN \cup {None} /\ wanted' \in BOOLEAN \cup {None}
      BY <3>1, Zenon DEF SetAutocommit, TypeOK
    <3> QED BY <3>1, <3>3, <3>4, <3>5 DEF SetAutocommit, TypeOK
  <2>5. CASE \E level \in Levels : SetIsolation(level)
    <3>1. PICK level \in Levels : SetIsolation(level)
      BY <2>5
    <3>2. [Sent EXCEPT !.isolation = level] \in SessionState
      BY <2>3 DEF SessionState
    <3> QED BY <3>1, <3>2 DEF SetIsolation, TypeOK
  <2>6. CASE \E n \in Limits : Query(n)
    <3>1. PICK n \in Limits : Query(n)
      BY <2>6
    <3>2. [Sent EXCEPT !.limit = n] \in SessionState
      BY <2>3 DEF SessionState
    <3>3. session' \in SessionState /\ session'.limit \in Limits /\ session'.made \in Origin
      BY <2>3, <3>1, <3>2 DEF Query, SessionState
    <3> QED BY <3>1, <3>3 DEF Query, TypeOK
  <2>7. CASE GetIsolation
    <3>1. session' \in SessionState /\ session'.isolation \in Levels
      BY <2>2, <2>3, <2>7 DEF GetIsolation, SessionState
    <3> QED BY <2>7, <3>1 DEF GetIsolation, TypeOK, AwakeLink
  <2>8. CASE Connect
    <3>1. Mode \in BOOLEAN
      BY <2>1, Zenon DEF Mode, TypeOK
    <3>2. txn_isolation # None => txn_isolation \in Levels
      BY DEF TypeOK
    <3>3. session' = [autocommit |-> Mode,
                      isolation |-> IF txn_isolation = None \/ ~config.trans_supported
                                    THEN config.isolation ELSE txn_isolation,
                      limit |-> 0, made |-> IF phase = "fresh" THEN "connect" ELSE "reuse"]
      BY <2>8 DEF Connect, NewSession
    <3>4. session' \in SessionState
      BY <2>1, <3>1, <3>2, <3>3 DEF SessionState, Origin
    <3>5. commit_flag' \in BOOLEAN \cup {None} /\ wanted' \in BOOLEAN \cup {None}
      BY <2>8, Zenon DEF Connect, TypeOK
    <3> QED BY <2>8, <3>4, <3>5, SessionAssumption DEF Connect, TypeOK
  <2>9. CASE ConnectFails \/ Disconnect \/ ServerDrops \/ CommandFails
    BY <2>9 DEF ConnectFails, Disconnect, ServerDrops, CommandFails, memory, TypeOK
  <2>11. CASE ResetConnection \/ WakeOnly
    BY <2>2, <2>11 DEF ResetConnection, WakeOnly, AwakeLink, memory, TypeOK
  <2>10. CASE UNCHANGED vars
    BY <2>10 DEF vars, TypeOK
  <2> QED BY <2>4, <2>5, <2>6, <2>7, <2>8, <2>9, <2>10, <2>11 DEF Next
<1> QED BY <1>1, <1>2, PTL DEF Spec
-----------------------------------------------------------------------------
(* A session that is neither a wakeup's nor a reconnect's is the one there *)
(* was before the call.                                                    *)
LEMMA SameSession ==
  ASSUME TypeOK
  PROVE  /\ Awake \in SessionState /\ Sent \in SessionState
         /\ Awake.made # "wakeup" => Awake = session /\ ~need_to_wakeup
         /\ Awake # session => need_to_wakeup
         /\ Sent.made # "reconnect" => AwakeLink = "up" /\ Sent = Awake
         /\ ~need_to_wakeup => AwakeLink = link
<1>1. \A how \in Origin : NewSession(how) \in SessionState /\ NewSession(how).made = how
  BY SessionAssumption DEF TypeOK, Config, NewSession, SessionState
<1> QED BY <1>1 DEF Awake, AwakeLink, Sent, TypeOK, Origin

(* What the calls that send commands make of a session: they keep it, or   *)
(* change the one attribute that the command is about.                     *)
LEMMA SentSession ==
  ASSUME TypeOK
  PROVE  /\ \A on \in BOOLEAN :
              LET t == [Sent EXCEPT !.autocommit = on]
              IN  /\ t.autocommit = on /\ t.isolation = Sent.isolation
                  /\ t.limit = Sent.limit /\ t.made = Sent.made
         /\ \A level \in Levels :
              LET t == [Sent EXCEPT !.isolation = level]
              IN  /\ t.autocommit = Sent.autocommit /\ t.isolation = level
                  /\ t.limit = Sent.limit /\ t.made = Sent.made
         /\ \A n \in Limits :
              LET t == [Sent EXCEPT !.limit = n]
              IN  /\ t.autocommit = Sent.autocommit
                  /\ t.isolation = Sent.isolation
                  /\ t.limit = n /\ t.made = Sent.made
BY SameSession DEF SessionState

-----------------------------------------------------------------------------
(***************************************************************************)
(* Isolation: IsolationExact is inductive.                                 *)
(***************************************************************************)
LEMMA StepIsolation ==
  ASSUME TypeOK, IsolationExact, [Next]_vars PROVE IsolationExact'
<1> USE SameSession, SentSession DEF IsolationExact
<1>1. ASSUME NEW on \in BOOLEAN, SetAutocommit(on) PROVE IsolationExact'
  <2>1. CASE ~is_connected
    BY <1>1, <2>1 DEF SetAutocommit, is_connected, AwakeLink
  <2>2. CASE is_connected /\ session' = Awake /\ link' = AwakeLink
    BY <1>1, <2>2 DEF SetAutocommit, is_connected
  <2>3. CASE is_connected /\ session' = [Sent EXCEPT !.autocommit = on]
    BY <1>1, <2>3 DEF SetAutocommit, is_connected
  <2> QED BY <1>1, <2>1, <2>2, <2>3 DEF SetAutocommit
<1>2. ASSUME NEW level \in Levels, SetIsolation(level) PROVE IsolationExact'
  <2>1. CASE ~is_connected
    BY <1>2, <2>1 DEF SetIsolation, is_connected, AwakeLink
  <2>2. CASE is_connected
    <3>1. session' = [Sent EXCEPT !.isolation = level] /\ txn_isolation' = level
      BY <1>2, <2>2 DEF SetIsolation
    <3>2. session'.isolation = level
      BY <1>2, <3>1
    <3> QED BY <3>1, <3>2
  <2> QED BY <2>1, <2>2
<1>3. ASSUME NEW n \in Limits, Query(n) PROVE IsolationExact'
  BY <1>3 DEF Query
<1>4. CASE GetIsolation
  BY <1>4 DEF GetIsolation
<1>5. CASE Connect
  BY <1>5 DEF Connect, NewSession
<1>6. CASE ConnectFails \/ Disconnect \/ ResetConnection \/ WakeOnly \/ ServerDrops \/ CommandFails
  BY <1>6 DEF ConnectFails, Disconnect, ResetConnection, WakeOnly, ServerDrops, CommandFails, memory
<1>7. CASE UNCHANGED vars
  BY <1>7 DEF vars
<1> QED BY <1>1, <1>2, <1>3, <1>4, <1>5, <1>6, <1>7 DEF Next

(* SQL_ATTR_TXN_ISOLATION: the level the driver remembers is the session's *)
(* in all sessions but those of a wakeup or a reconnect.                   *)
THEOREM Isolation == Spec => []IsolationExact
<1>1. Init => IsolationExact
  BY DEF Init, IsolationExact
<1>2. TypeOK /\ IsolationExact /\ [Next]_vars => IsolationExact'
  BY StepIsolation
<1> QED BY <1>1, <1>2, TypeCorrect, PTL DEF Spec

-----------------------------------------------------------------------------
(***************************************************************************)
(* Autocommit.  Before its first connect a handle has the mode in both     *)
(* wanted and commit_flag, and nobody has asked for a mode in a session    *)
(* that a wakeup is about to replace.                                      *)
(***************************************************************************)
AutocommitInv ==
  /\ AutocommitKept
  /\ phase = "fresh" => link = "none" /\ wanted \in {None, commit_flag} /\ ~need_to_wakeup
  /\ need_to_wakeup => wanted = None

LEMMA StepAutocommit ==
  ASSUME TypeOK, AutocommitInv, [Next]_vars PROVE AutocommitInv'
<1> USE SameSession, SentSession DEF AutocommitInv, AutocommitKept
<1>1. ASSUME NEW on \in BOOLEAN, SetAutocommit(on) PROVE AutocommitInv'
  <2>1. CASE ~is_connected
    BY <1>1, <2>1 DEF SetAutocommit, is_connected, AwakeLink, CanWake
  <2>2. CASE is_connected
    BY <1>1, <2>2 DEF SetAutocommit, is_connected
  <2> QED BY <2>1, <2>2
<1>2. ASSUME NEW level \in Levels, SetIsolation(level) PROVE AutocommitInv'
  <2>1. CASE ~is_connected
    BY <1>2, <2>1 DEF SetIsolation, is_connected, AwakeLink, CanWake
  <2>2. CASE is_connected
    <3>1. session' = [Sent EXCEPT !.isolation = level] /\ link' = "up"
      BY <1>2, <2>2 DEF SetIsolation
    <3>2. /\ session'.autocommit = Sent.autocommit
          /\ session'.limit = Sent.limit /\ session'.made = Sent.made
      BY <3>1
    <3>3. UNCHANGED <<phase, commit_flag, sql_select_limit, wanted, ran>> /\ ~need_to_wakeup'
      BY <1>2 DEF SetIsolation
    <3> HIDE SentSession
    <3> QED BY <2>2, <3>1, <3>2, <3>3 DEF is_connected
  <2> QED BY <2>1, <2>2
<1>3. ASSUME NEW n \in Limits, Query(n) PROVE AutocommitInv'
  BY <1>3 DEF Query
<1>4. CASE GetIsolation
  BY <1>4 DEF GetIsolation, is_connected
<1>5. CASE Connect
  <2>1. CASE phase = "fresh"
    <3>1. wanted' # None => wanted' = commit_flag /\ session'.autocommit = commit_flag
      BY <1>5, <2>1 DEF Connect, Mode, NewSession
    <3> QED BY <1>5, <2>1, <3>1 DEF Connect
  <2>2. CASE phase # "fresh"
    <3>1. session'.made = "reuse"
      BY <1>5, <2>2 DEF Connect, NewSession
    <3> QED BY <1>5, <2>2, <3>1 DEF Connect
  <2> QED BY <2>1, <2>2
<1>6. CASE ConnectFails \/ Disconnect \/ ResetConnection \/ WakeOnly \/ ServerDrops \/ CommandFails
  BY <1>6 DEF ConnectFails, Disconnect, ResetConnection, WakeOnly, ServerDrops, CommandFails, memory
<1>7. CASE UNCHANGED vars
  BY <1>7 DEF vars
<1> QED BY <1>1, <1>2, <1>3, <1>4, <1>5, <1>6, <1>7 DEF Next

(* SQL_ATTR_AUTOCOMMIT: a handle's first session and a woken one are in    *)
(* the mode that the application set last.                                 *)
THEOREM Autocommit == Spec => []AutocommitKept
<1>1. Init => AutocommitInv
  BY DEF Init, AutocommitInv, AutocommitKept
<1>2. TypeOK /\ AutocommitInv /\ [Next]_vars => AutocommitInv'
  BY StepAutocommit
<1>3. AutocommitInv => AutocommitKept
  BY DEF AutocommitInv
<1> QED BY <1>1, <1>2, <1>3, TypeCorrect, PTL DEF Spec

-----------------------------------------------------------------------------
(***************************************************************************)
(* Limits.  Before its first connect a handle remembers no limit; queries  *)
(* run under the right one because the remembered one is right.            *)
(***************************************************************************)
LimitInv ==
  /\ LimitCacheExact /\ LimitOwnOrNone
  /\ phase = "fresh" => sql_select_limit = None
  /\ session.limit \in {0, sql_select_limit}

(* A session that is new has no limit. *)
LEMMA LimitOfSession ==
  ASSUME TypeOK
  PROVE  /\ Awake.limit \in {0, session.limit}
         /\ Sent.limit \in {0, session.limit}
         /\ \A how \in Origin : NewSession(how).limit = 0
BY DEF Awake, Sent, NewSession

LEMMA StepLimit ==
  ASSUME TypeOK, LimitInv, [Next]_vars PROVE LimitInv'
<1> USE SameSession, SentSession, LimitOfSession DEF LimitInv, LimitCacheExact, LimitOwnOrNone
<1>1. ASSUME NEW on \in BOOLEAN, SetAutocommit(on) PROVE LimitInv'
  <2>1. CASE ~is_connected
    BY <1>1, <2>1 DEF SetAutocommit, is_connected, AwakeLink
  <2>2. CASE is_connected /\ session' = Awake /\ link' = AwakeLink
    <3>1. UNCHANGED <<phase, sql_select_limit, ran>>
      BY <1>1 DEF SetAutocommit
    <3> HIDE SentSession
    <3> QED BY <1>1, <2>2, <3>1 DEF AwakeLink
  <2>3. CASE is_connected /\ session' = [Sent EXCEPT !.autocommit = on] /\ link' = "up"
    <3>1. UNCHANGED <<phase, sql_select_limit, ran>>
      BY <1>1 DEF SetAutocommit
    <3>2. session'.limit = Sent.limit /\ session'.made = Sent.made
      BY <2>3
    <3> HIDE SentSession
    <3> QED BY <2>3, <3>1, <3>2
  <2> QED BY <1>1, <2>1, <2>2, <2>3 DEF SetAutocommit
<1>2. ASSUME NEW level \in Levels, SetIsolation(level) PROVE LimitInv'
  <2>1. CASE ~is_connected
    BY <1>2, <2>1 DEF SetIsolation, is_connected, AwakeLink
  <2>2. CASE is_connected
    <3>1. session' = [Sent EXCEPT !.isolation = level] /\ link' = "up"
      BY <1>2, <2>2 DEF SetIsolation
    <3>2. /\ session'.autocommit = Sent.autocommit
          /\ session'.limit = Sent.limit /\ session'.made = Sent.made
      BY <3>1
    <3>3. UNCHANGED <<phase, commit_flag, sql_select_limit, wanted, ran>> /\ ~need_to_wakeup'
      BY <1>2 DEF SetIsolation
    <3> HIDE SentSession
    <3> QED BY <2>2, <3>1, <3>2, <3>3 DEF is_connected
  <2> QED BY <2>1, <2>2
<1>3. ASSUME NEW n \in Limits, Query(n) PROVE LimitInv'
  <2>1. n # None
    BY SessionAssumption
  <2>2. /\ session'.limit \in {0, n} /\ session'.made = Sent.made
        /\ session'.made = "connect" => session'.limit = n
    <3>1. CASE n = sql_select_limit
      BY <1>3, <2>1, <3>1 DEF Query
    <3>2. CASE n # sql_select_limit
      BY <1>3, <3>2 DEF Query
    <3> QED BY <3>1, <3>2
  <2>3. /\ ran'.made = session'.made /\ ran'.max_rows = n /\ ran'.limit = session'.limit
        /\ phase' = "connected" /\ sql_select_limit' = n
    BY <1>3 DEF Query
  <2> QED BY <2>2, <2>3
<1>4. CASE GetIsolation
  <2>1. UNCHANGED <<phase, sql_select_limit, ran>>
    BY <1>4 DEF GetIsolation
  <2>2. \/ session' = Awake /\ link' = AwakeLink
        \/ session' = Sent /\ link' = "up"
    BY <1>4 DEF GetIsolation
  <2> HIDE SentSession
  <2> QED BY <2>1, <2>2 DEF AwakeLink
<1>5. CASE Connect
  <2>1. session'.limit = 0 /\ (session'.made = "connect" => phase = "fresh")
    BY <1>5 DEF Connect, NewSession
  <2> QED BY <1>5, <2>1 DEF Connect
<1>6. CASE ConnectFails \/ Disconnect \/ ServerDrops \/ CommandFails
  BY <1>6 DEF ConnectFails, Disconnect, ServerDrops, CommandFails, memory
<1>8. CASE ResetConnection \/ WakeOnly
  <2>1. /\ UNCHANGED <<phase, sql_select_limit, ran>>
        /\ session' = Awake /\ link' = AwakeLink
    BY <1>8 DEF ResetConnection, WakeOnly, memory
  <2> HIDE SentSession
  <2> QED BY <2>1 DEF AwakeLink
<1>7. CASE UNCHANGED vars
  BY <1>7 DEF vars
<1> QED BY <1>1, <1>2, <1>3, <1>4, <1>5, <1>6, <1>7, <1>8 DEF Next

LEMMA LimitInvariance == Spec => []LimitInv
<1>1. Init => LimitInv
  BY DEF Init, LimitInv, LimitCacheExact, LimitOwnOrNone, NewSession
<1>2. TypeOK /\ LimitInv /\ [Next]_vars => LimitInv'
  BY StepLimit
<1> QED BY <1>1, <1>2, TypeCorrect, PTL DEF Spec

(* set_sql_select_limit: a query runs under its statement's                *)
(* SQL_ATTR_MAX_ROWS or under no limit, whatever became of the session;    *)
(* in a handle's first session under its statement's.                      *)
THEOREM Limit == Spec => []LimitOwnOrNone
<1>1. LimitInv => LimitOwnOrNone
  BY DEF LimitInv
<1> QED BY <1>1, LimitInvariance, PTL

(* dbc->sql_select_limit: throughout a handle's first session it is none   *)
(* or the session's.                                                       *)
THEOREM LimitRemembered == Spec => []LimitCacheExact
<1>1. LimitInv => LimitCacheExact
  BY DEF LimitInv
<1> QED BY <1>1, LimitInvariance, PTL
=============================================================================
