--------------------------- MODULE HandlesProofs ---------------------------
(***************************************************************************)
(* Proofs about Handles for any numbers of connections, statements and     *)
(* descriptors, as long as the application is careful: it reverts          *)
(* descriptors by their handle, reverts before it sets another one, and    *)
(* frees its descriptors before the connection goes back to a pool.  The   *)
(* allocation of statements may fail ("no_memory").                        *)
(***************************************************************************)
EXTENDS Handles, TLAPS

Held(s) == stmtState[s] \in {"live", "freed"}

(* Handles not allocated yet, or whose allocation failed, belong to        *)
(* nothing, and each handle that was allocated to one connection.          *)
Fresh ==
  /\ \A s \in Stmt : /\ ~Held(s) => stmtDbc[s] = {} /\ \A r \in Role : app[s][r] = Implicit
                     /\ Held(s) => \E c \in Dbc : stmtDbc[s] = {c}
  /\ \A d \in Desc : /\ descState[d] = "unused" => descDbc[d] = {}
                     /\ descState[d] # "unused" => \E c \in Dbc : descDbc[d] = {c}
  /\ \A d \in Desc, c \in Dbc : c \in descDbc[d] /\ dbcState[c] = "freed"
                                   => descState[d] = "freed"

(* A statement whose allocation failed is in one list at most.             *)
ListedOnce == \A s \in Stmt, c, e \in Dbc :
                 stmtState[s] = "broken" /\ s \in statements[c] /\ s \in statements[e]
                    => c = e

(* The inductive invariant: the links between the objects are exact (and   *)
(* hence, by the guards, no step follows one to a freed object).           *)
IInv == /\ TypeOK
        /\ MemorySafe
        /\ AssociationsExact
        /\ UsableDescriptors
        /\ ListsExact
        /\ Fresh
        /\ ListedOnce

USE HandlesAssumption

LEMMA InitIInv == Init => IInv
<1> SUFFICES ASSUME Init PROVE IInv
  OBVIOUS
<1> USE DEF Init
<1>1. TypeOK
  BY DEF TypeOK
<1>2. MemorySafe
  BY DEF MemorySafe
<1>3. AssociationsExact
  BY DEF AssociationsExact
<1>4. UsableDescriptors
  BY DEF UsableDescriptors
<1>5. ListsExact
  BY DEF ListsExact
<1>6. Fresh
  BY DEF Fresh, Held
<1>7. ListedOnce
  BY DEF ListedOnce
<1> QED BY <1>1, <1>2, <1>3, <1>4, <1>5, <1>6, <1>7 DEF IInv

(* A descriptor in use on a live statement is live, belongs to the same    *)
(* connection, and has the statement in its list.                          *)
LEMMA Links ==
  ASSUME IInv, NEW s \in Stmt, stmtState[s] = "live", NEW r \in Role,
         app[s][r] # Implicit
  PROVE  /\ app[s][r] \in Desc
         /\ descState[app[s][r]] = "live"
         /\ descDbc[app[s][r]] = stmtDbc[s]
         /\ desc_type[app[s][r]] = r
         /\ stmts[app[s][r]][s] = 1
<1>1. app[s][r] \in Desc
  BY DEF IInv, TypeOK
<1>2. UsableDescriptors /\ AssociationsExact
  BY DEF IInv
<1> QED BY <1>1, <1>2 DEF UsableDescriptors, AssociationsExact, Uses

(* A live statement is in the list of one connection, which is open; and   *)
(* only a statement whose allocation failed is in a list and not live.     *)
LEMMA OneConnection ==
  ASSUME IInv
  PROVE  /\ \A s \in Stmt, c \in Dbc : s \in statements[c] =>
               /\ stmtState[s] \in {"live", "broken"} /\ dbcState[c] = "connected"
               /\ stmtState[s] = "live" => stmtDbc[s] = {c}
         /\ \A s \in Stmt, c \in Dbc :
               stmtState[s] = "live" /\ c \in stmtDbc[s] => s \in statements[c]
<1>1. ASSUME NEW s \in Stmt, NEW c \in Dbc, s \in statements[c]
      PROVE  /\ stmtState[s] \in {"live", "broken"} /\ dbcState[c] = "connected"
             /\ stmtState[s] = "live" => stmtDbc[s] = {c}
  <2>1. /\ dbcState[c] = "connected"
        /\ stmtState[s] # "broken" => stmtState[s] = "live" /\ c \in stmtDbc[s]
    BY <1>1 DEF IInv, ListsExact
  <2>2. stmtState[s] = "live" => \E e \in Dbc : stmtDbc[s] = {e}
    BY DEF IInv, Fresh, Held
  <2> QED BY <2>1, <2>2
<1>2. \A s \in Stmt, c \in Dbc :
        stmtState[s] = "live" /\ c \in stmtDbc[s] => s \in statements[c]
  BY DEF IInv, ListsExact
<1> QED BY <1>1, <1>2

(* Dropping statements is safe, unless the allocation of one had failed,   *)
(* and takes each of them out of the list of every descriptor it used.     *)
LEMMA DropSafe ==
  ASSUME IInv, NEW S \in SUBSET Stmt, \A s \in S : stmtState[s] \in {"live", "broken"},
         DropStmts(S)
  PROVE  /\ DropFaults(S) => \E s \in S : stmtState[s] = "broken"
         /\ stmtState' \in [Stmt -> {"unused", "live", "broken", "freed"}]
         /\ stmts' \in [Desc -> [Stmt -> Nat]]
         /\ \A s \in Stmt : stmtState'[s] = IF s \in S /\ stmtState[s] = "live" THEN "freed"
                                            ELSE stmtState[s]
         /\ \A d \in Desc, s \in Stmt :
               stmts'[d][s] = IF s \in S THEN 0 ELSE stmts[d][s]
<1>1. ASSUME DropFaults(S) PROVE \E s \in S : stmtState[s] = "broken"
  BY <1>1 DEF IInv, AssociationsExact, UsableDescriptors, DropFaults, TypeOK, Uses
<1>2. /\ stmtState' \in [Stmt -> {"unused", "live", "broken", "freed"}]
      /\ \A s \in Stmt : stmtState'[s] = IF s \in S /\ stmtState[s] = "live" THEN "freed"
                                         ELSE stmtState[s]
  BY DEF DropStmts, Dropped, IInv, TypeOK
<1>3. stmts' \in [Desc -> [Stmt -> Nat]]
  BY DEF DropStmts, Dropped, IInv, TypeOK
<1>4. ASSUME NEW d \in Desc, NEW s \in Stmt
      PROVE  stmts'[d][s] = IF s \in S THEN 0 ELSE stmts[d][s]
  <2>1. stmts'[d][s] = IF s \in S /\ Uses(s, d) /\ stmts[d][s] > 0 THEN stmts[d][s] - 1
                       ELSE stmts[d][s]
    BY DEF DropStmts
  <2>2. stmts[d][s] = 0 \/ (stmts[d][s] = 1 /\ Uses(s, d))
    BY DEF IInv, AssociationsExact
  <2> QED BY <2>1, <2>2
<1> QED BY <1>1, <1>2, <1>3, <1>4

(* A statement whose allocation failed stays so.  Dropping it when its     *)
(* list is emptied is the fault that MemorySafe allows, and the last one.  *)
LEMMA DropsBroken ==
  ASSUME IInv, NEW c \in Dbc, statements' = [statements EXCEPT ![c] = {}],
         NEW s \in statements[c], stmtState[s] = "broken", stmtState'[s] = "broken"
  PROVE  \E t \in Stmt : DroppedBroken(t)'
<1>1. s \in Stmt
  BY DEF IInv, TypeOK
<1>2. \A e \in Dbc : s \notin statements'[e]
  <2> SUFFICES ASSUME NEW e \in Dbc PROVE s \notin statements'[e]
    OBVIOUS
  <2>1. statements'[e] = IF e = c THEN {} ELSE statements[e]
    BY DEF IInv, TypeOK
  <2>2. s \in statements[e] => e = c
    BY <1>1 DEF IInv, ListedOnce
  <2> QED BY <2>1, <2>2
<1> QED BY <1>1, <1>2 DEF DroppedBroken

LEMMA AllocConnectIInv ==
  ASSUME IInv, Practices \subseteq {"no_memory"}, NEW c \in Dbc, AllocConnect(c)
  PROVE  IInv'
<1> USE DEF AllocConnect, At, Connected, LiveStmt, LiveDesc, ListIsFreed, FreeDescs, dbcVars, stmtVars, descVars
<1>1. TypeOK'
  BY SMT DEF IInv, TypeOK
<1>2. MemorySafe'
  BY SMT DEF IInv, TypeOK, MemorySafe, AssociationsExact, UsableDescriptors, ListsExact, Uses
<1>3. AssociationsExact'
  BY SMT DEF IInv, TypeOK, AssociationsExact, UsableDescriptors, ListsExact, Fresh, Held, Uses
<1>4. UsableDescriptors'
  BY SMT DEF IInv, TypeOK, AssociationsExact, UsableDescriptors, ListsExact, Fresh, Held, Uses
<1>5. ListsExact'
  BY SMT DEF IInv, TypeOK, ListsExact, Fresh, Held
<1>6. Fresh'
  BY SMT DEF IInv, TypeOK, ListsExact, Fresh, Held
<1>7. ListedOnce'
  BY SMT DEF IInv, TypeOK, ListsExact, ListedOnce
<1> QED BY <1>1, <1>2, <1>3, <1>4, <1>5, <1>6, <1>7 DEF IInv

LEMMA ConnectIInv ==
  ASSUME IInv, Practices \subseteq {"no_memory"}, NEW c \in Dbc, Connect(c)
  PROVE  IInv'
<1> USE DEF Connect, At, Connected, LiveStmt, LiveDesc, ListIsFreed, FreeDescs, dbcVars, stmtVars, descVars
<1>1. TypeOK'
  BY SMT DEF IInv, TypeOK
<1>2. MemorySafe'
  BY SMT DEF IInv, TypeOK, MemorySafe, AssociationsExact, UsableDescriptors, ListsExact, Uses
<1>3. AssociationsExact'
  BY SMT DEF IInv, TypeOK, AssociationsExact, UsableDescriptors, ListsExact, Fresh, Held, Uses
<1>4. UsableDescriptors'
  BY SMT DEF IInv, TypeOK, AssociationsExact, UsableDescriptors, ListsExact, Fresh, Held, Uses
<1>5. ListsExact'
  BY SMT DEF IInv, TypeOK, ListsExact, Fresh, Held
<1>6. Fresh'
  BY SMT DEF IInv, TypeOK, ListsExact, Fresh, Held
<1>7. ListedOnce'
  BY SMT DEF IInv, TypeOK, ListsExact, ListedOnce
<1> QED BY <1>1, <1>2, <1>3, <1>4, <1>5, <1>6, <1>7 DEF IInv

LEMMA DisconnectIInv ==
  ASSUME IInv, Practices \subseteq {"no_memory"}, NEW c \in Dbc, Disconnect(c)
  PROVE  IInv'
<1>0. /\ DropFaults(statements[c]) => \E t \in statements[c] : stmtState[t] = "broken"
      /\ stmtState' \in [Stmt -> {"unused", "live", "broken", "freed"}]
      /\ stmts' \in [Desc -> [Stmt -> Nat]]
      /\ \A t \in Stmt : stmtState'[t] = IF t \in statements[c] /\ stmtState[t] = "live" THEN "freed"
                                         ELSE stmtState[t]
      /\ \A d \in Desc, t \in Stmt :
            stmts'[d][t] = IF t \in statements[c] THEN 0 ELSE stmts[d][t]
  <2>1. statements[c] \in SUBSET Stmt /\ \A t \in statements[c] : stmtState[t] \in {"live", "broken"}
    BY OneConnection DEF IInv, TypeOK
  <2>2. DropStmts(statements[c])
    BY DEF Disconnect
  <2> QED BY <2>1, <2>2, DropSafe
<1> USE DEF Disconnect, At, Connected, LiveStmt, LiveDesc, ListIsFreed, FreeDescs, dbcVars, stmtVars, descVars
<1>1. TypeOK'
  BY <1>0, SMT DEF IInv, TypeOK
<1>2. MemorySafe'
  <2> SUFFICES ASSUME fault' PROVE \E t \in Stmt : DroppedBroken(t)'
    BY DEF MemorySafe
  <2>1. DropFaults(statements[c])
    OBVIOUS
  <2>2. PICK t \in statements[c] : stmtState[t] = "broken"
    BY <1>0, <2>1
  <2>3. t \in Stmt /\ stmtState'[t] = "broken"
    BY <1>0, <2>2 DEF IInv, TypeOK
  <2> QED BY <2>2, <2>3, DropsBroken
<1>3. AssociationsExact'
  BY <1>0, SMT DEF IInv, TypeOK, AssociationsExact, UsableDescriptors, ListsExact, Fresh, Held, Uses
<1>4. UsableDescriptors'
  BY <1>0, SMT DEF IInv, TypeOK, AssociationsExact, UsableDescriptors, ListsExact, Fresh, Held, Uses
<1>5. ListsExact'
  <2>1. \A e \in Dbc, t \in Stmt : stmtState'[t] # "broken" =>
          (t \in statements'[e] <=> stmtState'[t] = "live" /\ e \in stmtDbc[t])
    <3> SUFFICES ASSUME NEW e \in Dbc, NEW t \in Stmt, stmtState'[t] # "broken"
                 PROVE  t \in statements'[e] <=> stmtState'[t] = "live" /\ e \in stmtDbc[t]
      OBVIOUS
    <3>1. statements'[e] = IF e = c THEN {} ELSE statements[e]
      BY DEF IInv, TypeOK
    <3>2. stmtState'[t] = IF t \in statements[c] /\ stmtState[t] = "live" THEN "freed"
                          ELSE stmtState[t]
      BY <1>0
    <3> QED BY <3>1, <3>2, OneConnection
  <2> QED BY <2>1 DEF IInv, TypeOK, ListsExact
<1>6. Fresh'
  <2>1. ASSUME NEW t \in Stmt
        PROVE  \/ stmtState'[t] = stmtState[t]
               \/ stmtState'[t] = "freed" /\ stmtState[t] = "live"
    <3>1. stmtState'[t] = IF t \in statements[c] /\ stmtState[t] = "live" THEN "freed"
                          ELSE stmtState[t]
      BY <1>0
    <3> QED BY <3>1
  <2>2. descState' = descState
    BY DEF IInv, TypeOK
  <2> QED BY <2>1, <2>2, SMTT(30) DEF IInv, TypeOK, Fresh, Held
<1>7. ListedOnce'
  BY <1>0, SMT DEF IInv, TypeOK, ListsExact, ListedOnce
<1> QED BY <1>1, <1>2, <1>3, <1>4, <1>5, <1>6, <1>7 DEF IInv

LEMMA FreeConnectIInv ==
  ASSUME IInv, Practices \subseteq {"no_memory"}, NEW c \in Dbc, FreeConnect(c)
  PROVE  IInv'
<1> USE DEF FreeConnect, At, Connected, LiveStmt, LiveDesc, ListIsFreed, FreeDescs, dbcVars, stmtVars, descVars
<1>0. ASSUME NEW s \in Stmt, NEW r \in Role, stmtState[s] = "live",
             app[s][r] # Implicit
      PROVE  app[s][r] \in Desc \ exp_desc[c]
  <2>1. app[s][r] \in Desc /\ descDbc[app[s][r]] = stmtDbc[s]
    BY <1>0, Links
  <2>2. dbcState[c] = "allocated"
    OBVIOUS
  <2>3. c \notin stmtDbc[s]
    BY <1>0, <2>2, OneConnection
  <2> QED BY <2>1, <2>2, <2>3 DEF IInv, ListsExact
<1>1. TypeOK'
  BY SMT DEF IInv, TypeOK
<1>2. MemorySafe'
  BY SMT DEF IInv, TypeOK, MemorySafe, AssociationsExact, UsableDescriptors, ListsExact, Uses
<1>3. AssociationsExact'
  BY <1>0, SMT DEF IInv, TypeOK, AssociationsExact, UsableDescriptors, ListsExact, Fresh, Held, Uses
<1>4. UsableDescriptors'
  BY <1>0, SMT DEF IInv, TypeOK, AssociationsExact, UsableDescriptors, ListsExact, Fresh, Held, Uses
<1>5. ListsExact'
  <2>1. /\ dbcState' = [dbcState EXCEPT ![c] = "freed"]
        /\ dbcState[c] = "allocated"
        /\ \A d \in Desc : descState'[d] = IF d \in exp_desc[c] THEN "freed" ELSE descState[d]
    OBVIOUS
  <2>2. \A e \in Dbc, d \in Desc : dbcState'[e] # "freed" =>
          (d \in exp_desc[e] <=> descState'[d] = "live" /\ e \in descDbc[d])
    <3> SUFFICES ASSUME NEW e \in Dbc, NEW d \in Desc, dbcState'[e] # "freed"
                 PROVE  d \in exp_desc[e] <=> descState'[d] = "live" /\ e \in descDbc[d]
      OBVIOUS
    <3>1. e # c /\ dbcState[e] # "freed"
      BY <2>1 DEF IInv, TypeOK
    <3>2. d \in exp_desc[c] => e \notin descDbc[d]
      BY <3>1, <2>1 DEF IInv, ListsExact, Fresh, Held
    <3> QED BY <3>1, <3>2, <2>1 DEF IInv, ListsExact
  <2>3. \A e \in Dbc : statements[e] # {} => dbcState'[e] = "connected"
    BY <2>1 DEF IInv, ListsExact, TypeOK
  <2> QED BY <2>1, <2>2, <2>3 DEF IInv, ListsExact
<1>6. Fresh'
  BY SMT DEF IInv, TypeOK, ListsExact, Fresh, Held
<1>7. ListedOnce'
  BY SMT DEF IInv, TypeOK, ListsExact, ListedOnce
<1> QED BY <1>1, <1>2, <1>3, <1>4, <1>5, <1>6, <1>7 DEF IInv

LEMMA ResetConnectionIInv ==
  ASSUME IInv, Practices \subseteq {"no_memory"}, NEW c \in Dbc, ResetConnection(c)
  PROVE  IInv'
<1>0. /\ DropFaults(statements[c]) => \E t \in statements[c] : stmtState[t] = "broken"
      /\ stmtState' \in [Stmt -> {"unused", "live", "broken", "freed"}]
      /\ stmts' \in [Desc -> [Stmt -> Nat]]
      /\ \A t \in Stmt : stmtState'[t] = IF t \in statements[c] /\ stmtState[t] = "live" THEN "freed"
                                         ELSE stmtState[t]
      /\ \A d \in Desc, t \in Stmt :
            stmts'[d][t] = IF t \in statements[c] THEN 0 ELSE stmts[d][t]
  <2>1. statements[c] \in SUBSET Stmt /\ \A t \in statements[c] : stmtState[t] \in {"live", "broken"}
    BY OneConnection DEF IInv, TypeOK
  <2>2. DropStmts(statements[c])
    BY DEF ResetConnection
  <2> QED BY <2>1, <2>2, DropSafe
<1> USE DEF ResetConnection, At, Connected, LiveStmt, LiveDesc, ListIsFreed, FreeDescs, dbcVars, stmtVars, descVars
<1>1. TypeOK'
  BY <1>0, SMT DEF IInv, TypeOK
<1>2. MemorySafe'
  <2> SUFFICES ASSUME fault' PROVE \E t \in Stmt : DroppedBroken(t)'
    BY DEF MemorySafe
  <2>0. exp_desc[c] = {}
    OBVIOUS
  <2>1. DropFaults(statements[c])
    BY <2>0
  <2>2. PICK t \in statements[c] : stmtState[t] = "broken"
    BY <1>0, <2>1
  <2>3. t \in Stmt /\ stmtState'[t] = "broken"
    BY <1>0, <2>2 DEF IInv, TypeOK
  <2> QED BY <2>2, <2>3, DropsBroken
<1>3. AssociationsExact'
  <2>1. descState' = descState /\ app' = app
    BY DEF IInv, TypeOK, DropStmts
  <2>2. SUFFICES ASSUME NEW d \in Desc, NEW s \in Stmt
                 PROVE  stmts'[d][s] = IF /\ stmtState'[s] = "live" /\ descState[d] = "live"
                                          /\ Uses(s, d) THEN 1 ELSE 0
    BY <2>1 DEF AssociationsExact, Uses
  <2>3. stmts[d][s] = IF /\ stmtState[s] = "live" /\ descState[d] = "live"
                         /\ Uses(s, d) THEN 1 ELSE 0
    BY DEF IInv, AssociationsExact
  <2> QED BY <1>0, <2>3
<1>4. UsableDescriptors'
  BY <1>0, SMT DEF IInv, TypeOK, AssociationsExact, UsableDescriptors, ListsExact, Fresh, Held, Uses
<1>5. ListsExact'
  <2>1. \A e \in Dbc, t \in Stmt : stmtState'[t] # "broken" =>
          (t \in statements'[e] <=> stmtState'[t] = "live" /\ e \in stmtDbc[t])
    <3> SUFFICES ASSUME NEW e \in Dbc, NEW t \in Stmt, stmtState'[t] # "broken"
                 PROVE  t \in statements'[e] <=> stmtState'[t] = "live" /\ e \in stmtDbc[t]
      OBVIOUS
    <3>1. statements'[e] = IF e = c THEN {} ELSE statements[e]
      BY DEF IInv, TypeOK
    <3>2. stmtState'[t] = IF t \in statements[c] /\ stmtState[t] = "live" THEN "freed"
                          ELSE stmtState[t]
      BY <1>0
    <3> QED BY <3>1, <3>2, OneConnection
  <2>2. descState' = descState
    BY DEF IInv, TypeOK
  <2> QED BY <2>1, <2>2 DEF IInv, TypeOK, ListsExact
<1>6. Fresh'
  <2>1. ASSUME NEW t \in Stmt
        PROVE  \/ stmtState'[t] = stmtState[t]
               \/ stmtState'[t] = "freed" /\ stmtState[t] = "live"
    <3>1. stmtState'[t] = IF t \in statements[c] /\ stmtState[t] = "live" THEN "freed"
                          ELSE stmtState[t]
      BY <1>0
    <3> QED BY <3>1
  <2>2. descState' = descState
    BY DEF IInv, TypeOK
  <2> QED BY <2>1, <2>2, SMTT(30) DEF IInv, TypeOK, Fresh, Held
<1>7. ListedOnce'
  BY <1>0, SMT DEF IInv, TypeOK, ListsExact, ListedOnce
<1> QED BY <1>1, <1>2, <1>3, <1>4, <1>5, <1>6, <1>7 DEF IInv

LEMMA AllocStmtIInv ==
  ASSUME IInv, Practices \subseteq {"no_memory"}, NEW c \in Dbc, NEW s \in Stmt, AllocStmt(c, s)
  PROVE  IInv'
<1> USE DEF AllocStmt, At, Connected, LiveStmt, LiveDesc, ListIsFreed, FreeDescs, dbcVars, stmtVars, descVars
<1>1. TypeOK'
  BY SMT DEF IInv, TypeOK
<1>2. MemorySafe'
  BY SMT DEF IInv, TypeOK, MemorySafe, AssociationsExact, UsableDescriptors, ListsExact, Uses
<1>3. AssociationsExact'
  BY SMT DEF IInv, TypeOK, AssociationsExact, UsableDescriptors, ListsExact, Fresh, Held, Uses
<1>4. UsableDescriptors'
  BY SMT DEF IInv, TypeOK, AssociationsExact, UsableDescriptors, ListsExact, Fresh, Held, Uses
<1>5. ListsExact'
  BY SMT DEF IInv, TypeOK, ListsExact, Fresh, Held
<1>6. Fresh'
  BY SMT DEF IInv, TypeOK, ListsExact, Fresh, Held
<1>7. ListedOnce'
  BY SMT DEF IInv, TypeOK, ListsExact, ListedOnce
<1> QED BY <1>1, <1>2, <1>3, <1>4, <1>5, <1>6, <1>7 DEF IInv

LEMMA AllocStmtNoMemoryIInv ==
  ASSUME IInv, Practices \subseteq {"no_memory"}, NEW c \in Dbc, NEW s \in Stmt,
         AllocStmtNoMemory(c, s)
  PROVE  IInv'
<1> USE DEF AllocStmtNoMemory, At, Connected, dbcVars, stmtVars, descVars
<1>0. /\ stmtState[s] = "unused" /\ ~fault /\ dbcState[c] = "connected"
      /\ stmtState' = [stmtState EXCEPT ![s] = "broken"]
      /\ statements' = [statements EXCEPT ![c] = @ \cup {s}]
      /\ UNCHANGED <<dbcState, exp_desc, stmtDbc, app, descVars, fault>>
  OBVIOUS
<1> HIDE DEF AllocStmtNoMemory
<1>1. TypeOK'
  BY <1>0, SMT DEF IInv, TypeOK
<1>2. MemorySafe'
  BY <1>0, SMT DEF IInv, TypeOK, MemorySafe
<1>3. AssociationsExact'
  BY <1>0, SMT DEF IInv, TypeOK, AssociationsExact, Uses
<1>4. UsableDescriptors'
  BY <1>0, SMT DEF IInv, TypeOK, UsableDescriptors
<1>5. ListsExact'
  BY <1>0, SMT DEF IInv, TypeOK, ListsExact, Fresh, Held
<1>6. Fresh'
  BY <1>0, SMT DEF IInv, TypeOK, Fresh, Held
<1>7. ListedOnce'
  BY <1>0, SMT DEF IInv, TypeOK, ListsExact, ListedOnce
<1> QED BY <1>1, <1>2, <1>3, <1>4, <1>5, <1>6, <1>7 DEF IInv

LEMMA AllocDescIInv ==
  ASSUME IInv, Practices \subseteq {"no_memory"}, NEW c \in Dbc, NEW d \in Desc, AllocDesc(c, d)
  PROVE  IInv'
<1> USE DEF AllocDesc, At, Connected, LiveStmt, LiveDesc, ListIsFreed, FreeDescs, dbcVars, stmtVars, descVars
<1>1. TypeOK'
  BY SMT DEF IInv, TypeOK
<1>2. MemorySafe'
  BY SMTT(60) DEF IInv, TypeOK, MemorySafe, ListsExact
<1>3. AssociationsExact'
  BY SMT DEF IInv, TypeOK, AssociationsExact, UsableDescriptors, ListsExact, Fresh, Held, Uses
<1>4. UsableDescriptors'
  BY SMT DEF IInv, TypeOK, AssociationsExact, UsableDescriptors, ListsExact, Fresh, Held, Uses
<1>5. ListsExact'
  BY SMT DEF IInv, TypeOK, ListsExact, Fresh, Held
<1>6. Fresh'
  BY SMT DEF IInv, TypeOK, ListsExact, Fresh, Held
<1>7. ListedOnce'
  BY SMT DEF IInv, TypeOK, ListsExact, ListedOnce
<1> QED BY <1>1, <1>2, <1>3, <1>4, <1>5, <1>6, <1>7 DEF IInv

LEMMA DropStmtIInv ==
  ASSUME IInv, Practices \subseteq {"no_memory"}, NEW s \in Stmt, DropStmt(s)
  PROVE  IInv'
<1>0. /\ ~DropFaults({s})
      /\ stmtState' \in [Stmt -> {"unused", "live", "broken", "freed"}]
      /\ stmts' \in [Desc -> [Stmt -> Nat]]
      /\ \A t \in Stmt : stmtState'[t] = IF t \in {s} THEN "freed" ELSE stmtState[t]
      /\ \A d \in Desc, t \in Stmt :
            stmts'[d][t] = IF t \in {s} THEN 0 ELSE stmts[d][t]
  <2>1. {s} \in SUBSET Stmt /\ \A t \in {s} : stmtState[t] = "live"
    BY DEF IInv, TypeOK, ListsExact, DropStmt, LiveStmt
  <2>2. DropStmts({s})
    BY DEF DropStmt
  <2>3. /\ DropFaults({s}) => \E t \in {s} : stmtState[t] = "broken"
        /\ stmtState' \in [Stmt -> {"unused", "live", "broken", "freed"}]
        /\ stmts' \in [Desc -> [Stmt -> Nat]]
        /\ \A t \in Stmt : stmtState'[t] = IF t \in {s} /\ stmtState[t] = "live" THEN "freed"
                                           ELSE stmtState[t]
        /\ \A d \in Desc, t \in Stmt :
              stmts'[d][t] = IF t \in {s} THEN 0 ELSE stmts[d][t]
    BY <2>1, <2>2, DropSafe
  <2> QED BY <2>1, <2>3
<1> USE DEF DropStmt, At, Connected, LiveStmt, LiveDesc, ListIsFreed, FreeDescs, dbcVars, stmtVars, descVars
<1>1. TypeOK'
  BY <1>0, SMT DEF IInv, TypeOK
<1>2. MemorySafe'
  BY <1>0, SMT DEF IInv, TypeOK, MemorySafe, AssociationsExact, UsableDescriptors, ListsExact, Uses
<1>3. AssociationsExact'
  BY <1>0, SMT DEF IInv, TypeOK, AssociationsExact, UsableDescriptors, ListsExact, Fresh, Held, Uses
<1>4. UsableDescriptors'
  BY <1>0, SMT DEF IInv, TypeOK, AssociationsExact, UsableDescriptors, ListsExact, Fresh, Held, Uses
<1>5. ListsExact'
  <2>1. \A e \in Dbc, t \in Stmt : stmtState'[t] # "broken" =>
          (t \in statements'[e] <=> stmtState'[t] = "live" /\ e \in stmtDbc[t])
    BY <1>0 DEF IInv, TypeOK, ListsExact, Fresh, Held
  <2> QED BY <2>1 DEF IInv, TypeOK, ListsExact
<1>6. Fresh'
  <2>1. ASSUME NEW t \in Stmt
        PROVE  \/ stmtState'[t] = stmtState[t]
               \/ stmtState'[t] = "freed" /\ stmtState[t] = "live"
    <3>1. t \in {s} => stmtState[t] = "live"
      BY OneConnection DEF LiveStmt
    <3>2. stmtState'[t] = IF t \in {s} THEN "freed" ELSE stmtState[t]
      BY <1>0
    <3> QED BY <3>1, <3>2
  <2>2. descState' = descState
    BY DEF IInv, TypeOK
  <2> QED BY <2>1, <2>2, SMTT(30) DEF IInv, TypeOK, Fresh, Held
<1>7. ListedOnce'
  BY <1>0, SMT DEF IInv, TypeOK, ListsExact, ListedOnce
<1> QED BY <1>1, <1>2, <1>3, <1>4, <1>5, <1>6, <1>7 DEF IInv

LEMMA FreeDescIInv ==
  ASSUME IInv, Practices \subseteq {"no_memory"}, NEW d \in Desc, FreeDesc(d)
  PROVE  IInv'
<1> USE DEF FreeDesc, ResetUsers, At, Connected, LiveStmt, LiveDesc, ListIsFreed, FreeDescs, dbcVars, stmtVars, descVars
<1>1. TypeOK'
  BY SMT DEF IInv, TypeOK
<1>2. MemorySafe'
  <2>1. \A t \in Stmt : stmts[d][t] > 0 => stmtState[t] = "live"
    BY DEF IInv, AssociationsExact
  <2>2. \A c \in descDbc[d] : ~ListIsFreed(c)
    <3> SUFFICES ASSUME NEW c \in descDbc[d] PROVE ~ListIsFreed(c)
      OBVIOUS
    <3>1. c \in Dbc /\ dbcState[c] # "freed" /\ exp_desc[c] \subseteq Desc
      BY DEF IInv, TypeOK, Fresh, Held
    <3> QED BY <3>1 DEF IInv, ListsExact
  <2> QED BY <2>1, <2>2 DEF IInv, MemorySafe
<1>3. AssociationsExact'
  <2>1. ASSUME NEW t \in Stmt PROVE stmts'[d][t] = 0 /\ descState'[d] = "freed"
    BY DEF IInv, TypeOK
  <2>2. ASSUME NEW e \in Desc, e # d, NEW t \in Stmt
        PROVE  /\ stmts'[e][t] = stmts[e][t] /\ descState'[e] = descState[e]
               /\ stmtState[t] = "live" => (Uses(t, e)' <=> Uses(t, e))
    <3>1. stmts'[e][t] = stmts[e][t] /\ descState'[e] = descState[e]
      BY <2>2 DEF IInv, TypeOK
    <3>2. ASSUME NEW r \in Role, stmtState[t] = "live"
          PROVE  app'[t][r] = e <=> app[t][r] = e
      <4>1. app'[t][r] = IF stmts[d][t] > 0 /\ r = desc_type[d]
                         THEN Implicit ELSE app[t][r]
        OBVIOUS
      <4>2. CASE stmts[d][t] > 0 /\ r = desc_type[d]
        <5>1. Uses(t, d)
          BY <3>2, <4>2 DEF IInv, AssociationsExact
        <5>2. PICK q \in Role : app[t][q] = d
          BY <5>1 DEF Uses
        <5>3. app[t][r] = d
          BY <3>2, <4>2, <5>2, Links
        <5> QED BY <2>2, <4>1, <4>2, <5>3
      <4> QED BY <4>1, <4>2
    <3> QED BY <3>1, <3>2 DEF Uses
  <2> QED BY <2>1, <2>2 DEF IInv, AssociationsExact
<1>4. UsableDescriptors'
  <2> SUFFICES ASSUME NEW t \in Stmt, NEW r \in Role, stmtState[t] = "live",
                      app'[t][r] # Implicit
               PROVE  /\ descState'[app'[t][r]] = "live"
                      /\ descDbc[app'[t][r]] = stmtDbc[t]
                      /\ desc_type[app'[t][r]] = r
    BY DEF UsableDescriptors
  <2>1. app'[t][r] = app[t][r]
    BY DEF IInv, TypeOK
  <2>2. app[t][r] # d
    <3> SUFFICES ASSUME app[t][r] = d PROVE FALSE
      OBVIOUS
    <3>1. stmts[d][t] = 1 /\ desc_type[d] = r
      BY <2>1 DEF IInv, AssociationsExact, UsableDescriptors, Uses
    <3>2. app'[t][r] = Implicit
      BY <3>1
    <3> QED BY <3>2
  <2> QED BY <2>1, <2>2 DEF IInv, TypeOK, UsableDescriptors
<1>5. ListsExact'
  BY SMT DEF IInv, TypeOK, ListsExact, Fresh, Held
<1>6. Fresh'
  BY SMT DEF IInv, TypeOK, ListsExact, Fresh, Held
<1>7. ListedOnce'
  BY SMT DEF IInv, TypeOK, ListsExact, ListedOnce
<1> QED BY <1>1, <1>2, <1>3, <1>4, <1>5, <1>6, <1>7 DEF IInv

LEMMA SetDescNullIInv ==
  ASSUME IInv, Practices \subseteq {"no_memory"}, NEW s \in Stmt, NEW r \in Role, SetDescNull(s, r)
  PROVE  IInv'
<1> USE DEF SetDescNull, At, Connected, LiveStmt, LiveDesc, ListIsFreed, FreeDescs, dbcVars, stmtVars, descVars
<1>1. TypeOK'
  BY SMT DEF IInv, TypeOK
<1>2. MemorySafe'
  BY SMT DEF IInv, TypeOK, MemorySafe, AssociationsExact, UsableDescriptors, ListsExact, Uses
<1>3. AssociationsExact'
  BY SMT DEF IInv, TypeOK, AssociationsExact, UsableDescriptors, ListsExact, Fresh, Held, Uses
<1>4. UsableDescriptors'
  BY SMT DEF IInv, TypeOK, AssociationsExact, UsableDescriptors, ListsExact, Fresh, Held, Uses
<1>5. ListsExact'
  BY SMT DEF IInv, TypeOK, ListsExact, Fresh, Held
<1>6. Fresh'
  BY SMT DEF IInv, TypeOK, ListsExact, Fresh, Held
<1>7. ListedOnce'
  BY SMT DEF IInv, TypeOK, ListsExact, ListedOnce
<1> QED BY <1>1, <1>2, <1>3, <1>4, <1>5, <1>6, <1>7 DEF IInv

LEMMA SetDescImplicitIInv ==
  ASSUME IInv, Practices \subseteq {"no_memory"}, NEW s \in Stmt, NEW r \in Role, SetDescImplicit(s, r)
  PROVE  IInv'
<1> USE DEF SetDescImplicit, At, Connected, LiveStmt, LiveDesc, ListIsFreed, FreeDescs, dbcVars, stmtVars, descVars
<1>0. /\ app' = [app EXCEPT ![s][r] = Implicit]
      /\ fault' = FALSE
      /\ \/ app[s][r] = Implicit /\ stmts' = stmts
         \/ /\ app[s][r] \in Desc /\ stmts[app[s][r]][s] = 1
            /\ stmts' = [stmts EXCEPT ![app[s][r]][s] = 0]
  <2>1. CASE app[s][r] = Implicit
    <3>1. fault = FALSE
      BY DEF IInv, TypeOK, MemorySafe
    <3> QED BY <2>1, <3>1
  <2>2. CASE app[s][r] # Implicit
    <3>1. /\ app[s][r] \in Desc /\ descState[app[s][r]] = "live"
          /\ stmts[app[s][r]][s] = 1
      BY <2>2 DEF IInv, TypeOK, UsableDescriptors, AssociationsExact, Uses
    <3>2. stmts' = [stmts EXCEPT ![app[s][r]][s] = @ - 1]
      BY <2>2, <3>1
    <3>3. stmts' = [stmts EXCEPT ![app[s][r]][s] = 0]
      BY <3>1, <3>2 DEF IInv, TypeOK
    <3>4. fault' = FALSE
      <4>1. fault = FALSE
        BY DEF IInv, TypeOK, MemorySafe
      <4>2. ~(descState[app[s][r]] # "live" \/ stmts[app[s][r]][s] = 0)
        BY <3>1
      <4> QED BY <2>2, <4>1, <4>2
    <3> QED BY <3>1, <3>3, <3>4
  <2> QED BY <2>1, <2>2
<1>1. TypeOK'
  <2>1. app' \in [Stmt -> [Role -> Desc \cup {Implicit}]]
    BY <1>0 DEF IInv, TypeOK
  <2>2. stmts' \in [Desc -> [Stmt -> Nat]]
    <3>1. stmts \in [Desc -> [Stmt -> Nat]]
      BY DEF IInv, TypeOK
    <3>2. CASE stmts' = stmts
      BY <3>1, <3>2
    <3>3. CASE /\ app[s][r] \in Desc
               /\ stmts' = [stmts EXCEPT ![app[s][r]][s] = 0]
      BY <3>1, <3>3
    <3> QED BY <1>0, <3>2, <3>3
  <2>3. fault' \in BOOLEAN
    BY <1>0
  <2> QED BY <2>1, <2>2, <2>3 DEF IInv, TypeOK
<1>2. MemorySafe'
  BY <1>0 DEF MemorySafe
<1>3. AssociationsExact'
  <2> SUFFICES ASSUME NEW d \in Desc, NEW t \in Stmt
               PROVE  stmts'[d][t] = IF /\ stmtState[t] = "live"
                                        /\ descState[d] = "live"
                                        /\ Uses(t, d)' THEN 1 ELSE 0
    BY DEF AssociationsExact
  <2>1. CASE t = s /\ app[s][r] = d
    <3>1. stmts'[d][s] = 0
      BY <2>1, <1>0 DEF IInv, TypeOK
    <3>2. ~Uses(s, d)'
      BY <2>1 DEF IInv, TypeOK, Uses, UsableDescriptors
    <3> QED BY <2>1, <3>1, <3>2
  <2>2. CASE ~(t = s /\ app[s][r] = d)
    <3>1. stmts'[d][t] = stmts[d][t]
      BY <2>2, <1>0 DEF IInv, TypeOK
    <3>2. Uses(t, d)' <=> Uses(t, d)
      BY <2>2, <1>0 DEF IInv, TypeOK, Uses
    <3> QED BY <3>1, <3>2 DEF IInv, AssociationsExact
  <2> QED BY <2>1, <2>2
<1>4. UsableDescriptors'
  BY SMT DEF IInv, TypeOK, AssociationsExact, UsableDescriptors, ListsExact, Fresh, Held, Uses
<1>5. ListsExact'
  BY SMT DEF IInv, TypeOK, ListsExact, Fresh, Held
<1>6. Fresh'
  BY SMT DEF IInv, TypeOK, ListsExact, Fresh, Held
<1>7. ListedOnce'
  BY SMT DEF IInv, TypeOK, ListsExact, ListedOnce
<1> QED BY <1>1, <1>2, <1>3, <1>4, <1>5, <1>6, <1>7 DEF IInv

LEMMA SetDescExplicitIInv ==
  ASSUME IInv, Practices \subseteq {"no_memory"}, NEW s \in Stmt, NEW r \in Role, NEW d \in Desc, SetDescExplicit(s, r, d)
  PROVE  IInv'
<1> USE DEF SetDescExplicit, At, Connected, LiveStmt, LiveDesc, ListIsFreed, FreeDescs, dbcVars, stmtVars, descVars
<1>1. TypeOK'
  BY SMT DEF IInv, TypeOK
<1>2. MemorySafe'
  BY SMT DEF IInv, TypeOK, MemorySafe, AssociationsExact, UsableDescriptors, ListsExact, Uses
<1>3. AssociationsExact'
  <2>1. app[s][r] = Implicit /\ ~Uses(s, d) /\ stmts[d][s] = 0
    <3>1. app[s][r] = Implicit /\ desc_type[d] \in {"unknown", r} /\ stmtState[s] = "live"
      OBVIOUS
    <3>2. ~Uses(s, d)
      BY <3>1, Links DEF Uses, Role
    <3>3. stmts[d][s] = 0
      BY <3>2 DEF IInv, AssociationsExact
    <3> QED BY <3>1, <3>2, <3>3
  <2> SUFFICES ASSUME NEW e \in Desc, NEW t \in Stmt
               PROVE  stmts'[e][t] = IF /\ stmtState[t] = "live"
                                        /\ descState[e] = "live"
                                        /\ Uses(t, e)' THEN 1 ELSE 0
    BY DEF AssociationsExact
  <2>2. CASE t = s /\ e = d
    <3>1. stmts'[d][s] = 1
      BY <2>1 DEF IInv, TypeOK
    <3>2. Uses(s, d)'
      BY DEF IInv, TypeOK, Uses
    <3> QED BY <2>2, <3>1, <3>2
  <2>3. CASE ~(t = s /\ e = d)
    <3>1. stmts'[e][t] = stmts[e][t]
      BY <2>3 DEF IInv, TypeOK
    <3>2. Uses(t, e)' <=> Uses(t, e)
      BY <2>1, <2>3 DEF IInv, TypeOK, Uses
    <3> QED BY <3>1, <3>2 DEF IInv, AssociationsExact
  <2> QED BY <2>2, <2>3
<1>4. UsableDescriptors'
  <2> SUFFICES ASSUME NEW t \in Stmt, NEW q \in Role, stmtState[t] = "live",
                      app'[t][q] # Implicit
               PROVE  /\ descState[app'[t][q]] = "live"
                      /\ descDbc[app'[t][q]] = stmtDbc[t]
                      /\ desc_type'[app'[t][q]] = q
    BY DEF UsableDescriptors
  <2>1. CASE t = s /\ q = r
    BY <2>1 DEF IInv, TypeOK
  <2>2. CASE ~(t = s /\ q = r)
    <3>1. app'[t][q] = app[t][q]
      BY <2>2 DEF IInv, TypeOK
    <3>2. desc_type'[app[t][q]] = q
      <4>1. app[t][q] \in Desc /\ desc_type[app[t][q]] = q
        BY <3>1, Links
      <4>2. CASE app[t][q] = d
        <5>1. q = r
          BY <4>1, <4>2 DEF Role
        <5> QED BY <4>2, <5>1 DEF IInv, TypeOK
      <4>3. CASE app[t][q] # d
        BY <4>1, <4>3 DEF IInv, TypeOK
      <4> QED BY <4>2, <4>3
    <3> QED BY <3>1, <3>2, Links
  <2> QED BY <2>1, <2>2
<1>5. ListsExact'
  BY SMT DEF IInv, TypeOK, ListsExact, Fresh, Held
<1>6. Fresh'
  BY SMT DEF IInv, TypeOK, ListsExact, Fresh, Held
<1>7. ListedOnce'
  BY SMT DEF IInv, TypeOK, ListsExact, ListedOnce
<1> QED BY <1>1, <1>2, <1>3, <1>4, <1>5, <1>6, <1>7 DEF IInv

-----------------------------------------------------------------------------
(* Every step of a careful application keeps the invariant.                *)
LEMMA NextIInv == ASSUME IInv, Practices \subseteq {"no_memory"}, [Next]_vars PROVE IInv'
<1>1. CASE Next
  <2>1. ASSUME NEW c \in Dbc, AllocConnect(c) PROVE IInv'
    BY <2>1, AllocConnectIInv
  <2>2. ASSUME NEW c \in Dbc, Connect(c) PROVE IInv'
    BY <2>2, ConnectIInv
  <2>3. ASSUME NEW c \in Dbc, Disconnect(c) PROVE IInv'
    BY <2>3, DisconnectIInv
  <2>4. ASSUME NEW c \in Dbc, FreeConnect(c) PROVE IInv'
    BY <2>4, FreeConnectIInv
  <2>5. ASSUME NEW c \in Dbc, ResetConnection(c) PROVE IInv'
    BY <2>5, ResetConnectionIInv
  <2>6. ASSUME NEW c \in Dbc, NEW s \in Stmt, AllocStmt(c, s) PROVE IInv'
    BY <2>6, AllocStmtIInv
  <2>7. ASSUME NEW c \in Dbc, NEW s \in Stmt, AllocStmtNoMemory(c, s) PROVE IInv'
    BY <2>7, AllocStmtNoMemoryIInv
  <2>8. ASSUME NEW c \in Dbc, NEW d \in Desc, AllocDesc(c, d) PROVE IInv'
    BY <2>8, AllocDescIInv
  <2>9. ASSUME NEW s \in Stmt, DropStmt(s) PROVE IInv'
    BY <2>9, DropStmtIInv
  <2>10. ASSUME NEW d \in Desc, FreeDesc(d) PROVE IInv'
    BY <2>10, FreeDescIInv
  <2>11. ASSUME NEW s \in Stmt, NEW r \in Role, SetDescNull(s, r) PROVE IInv'
    BY <2>11, SetDescNullIInv
  <2>12. ASSUME NEW s \in Stmt, NEW r \in Role, SetDescImplicit(s, r) PROVE IInv'
    BY <2>12, SetDescImplicitIInv
  <2>13. ASSUME NEW s \in Stmt, NEW r \in Role, NEW d \in Desc,
                SetDescExplicit(s, r, d)
         PROVE  IInv'
    BY <2>13, SetDescExplicitIInv
  <2> QED BY <1>1, <2>1, <2>2, <2>3, <2>4, <2>5, <2>6, <2>7, <2>8, <2>9,
             <2>10, <2>11, <2>12, <2>13 DEF Next
<1>2. CASE UNCHANGED vars
  BY <1>2 DEF vars, IInv, TypeOK, MemorySafe, AssociationsExact,
              UsableDescriptors, ListsExact, Fresh, Held, Uses, ListedOnce, DroppedBroken
<1> QED BY <1>1, <1>2

(* The invariant holds of every behaviour of a careful application.        *)
THEOREM Invariance == ASSUME Practices \subseteq {"no_memory"} PROVE Spec => []IInv
<1>1. Init => IInv
  BY InitIInv
<1>2. IInv /\ [Next]_vars => IInv'
  BY NextIInv
<1> QED BY <1>1, <1>2, PTL DEF Spec

(* Every variable keeps its type, whatever the application does: in        *)
(* particular no list of a descriptor loses a node it does not have.       *)
THEOREM TypeCorrect == Spec => []TypeOK
<1>1. Init => TypeOK
  BY InitIInv DEF IInv
<1>2. ASSUME TypeOK, [Next]_vars PROVE TypeOK'
  <2> USE DEF TypeOK, dbcVars, stmtVars, descVars
  <2>1. ASSUME NEW S \in SUBSET Stmt, DropStmts(S)
        PROVE  /\ stmtState' \in [Stmt -> {"unused", "live", "broken", "freed"}]
               /\ stmts' \in [Desc -> [Stmt -> Nat]] /\ DropFaults(S) \in BOOLEAN
    BY <1>2, <2>1 DEF DropStmts, Dropped, DropFaults
  <2>2. ASSUME NEW D \in SUBSET Desc, FreeDescs(D)
        PROVE  descState' \in [Desc -> {"unused", "live", "freed"}]
    BY <1>2, <2>2 DEF FreeDescs
  <2>3. ASSUME NEW c \in Dbc, AllocConnect(c) \/ Connect(c) PROVE TypeOK'
    BY <1>2, <2>3 DEF AllocConnect, Connect
  <2>4. ASSUME NEW c \in Dbc, Disconnect(c) PROVE TypeOK'
    BY <1>2, <2>1, <2>4 DEF Disconnect
  <2>5. ASSUME NEW c \in Dbc, FreeConnect(c) PROVE TypeOK'
    BY <1>2, <2>2, <2>5 DEF FreeConnect, ListIsFreed
  <2>6. ASSUME NEW c \in Dbc, ResetConnection(c) PROVE TypeOK'
    BY <1>2, <2>1, <2>2, <2>6 DEF ResetConnection, ListIsFreed
  <2>7. ASSUME NEW c \in Dbc, NEW s \in Stmt, AllocStmt(c, s) \/ AllocStmtNoMemory(c, s)
        PROVE  TypeOK'
    <3>1. CASE AllocStmt(c, s)
      BY <1>2, <3>1, SMTT(30) DEF AllocStmt
    <3>2. CASE AllocStmtNoMemory(c, s)
      <4>1. /\ stmtState' \in [Stmt -> {"unused", "live", "broken", "freed"}]
            /\ statements' \in [Dbc -> SUBSET Stmt]
            /\ fault' \in BOOLEAN
        <5>1. \/ /\ stmtState' = [stmtState EXCEPT ![s] = "broken"]
                 /\ statements' = [statements EXCEPT ![c] = @ \cup {s}]
                 /\ fault' = fault
              \/ fault' = TRUE /\ stmtState' = stmtState /\ statements' = statements
          BY <3>2 DEF AllocStmtNoMemory
        <5>2. /\ stmtState \in [Stmt -> {"unused", "live", "broken", "freed"}]
              /\ statements \in [Dbc -> SUBSET Stmt]
              /\ fault \in BOOLEAN
          BY <1>2
        <5>3. CASE fault' = TRUE /\ stmtState' = stmtState /\ statements' = statements
          BY <5>2, <5>3
        <5>4. CASE /\ stmtState' = [stmtState EXCEPT ![s] = "broken"]
                   /\ statements' = [statements EXCEPT ![c] = @ \cup {s}]
                   /\ fault' = fault
          BY <5>2, <5>4
        <5> QED BY <5>1, <5>3, <5>4
      <4> QED BY <1>2, <3>2, <4>1 DEF AllocStmtNoMemory
    <3> QED BY <2>7, <3>1, <3>2
  <2>8. ASSUME NEW c \in Dbc, NEW d \in Desc, AllocDesc(c, d) PROVE TypeOK'
    BY <1>2, <2>8 DEF AllocDesc, ListIsFreed
  <2>9. ASSUME NEW s \in Stmt, DropStmt(s) PROVE TypeOK'
    <3>1. {s} \in SUBSET Stmt /\ DropStmts({s})
      BY <2>9 DEF DropStmt
    <3>2. statements' \in [Dbc -> SUBSET Stmt]
      BY <1>2, <2>9 DEF DropStmt
    <3> QED BY <1>2, <2>1, <2>9, <3>1, <3>2 DEF DropStmt
  <2>10. ASSUME NEW d \in Desc, FreeDesc(d) PROVE TypeOK'
    BY <1>2, <2>2, <2>10 DEF FreeDesc, ResetUsers, ListIsFreed
  <2>11. ASSUME NEW s \in Stmt, NEW r \in Role, SetDescNull(s, r) PROVE TypeOK'
    BY <1>2, <2>11 DEF SetDescNull
  <2>12. ASSUME NEW s \in Stmt, NEW r \in Role, SetDescImplicit(s, r) PROVE TypeOK'
    <3>1. app' \in [Stmt -> [Role -> Desc \cup {Implicit}]]
      BY <1>2, <2>12 DEF SetDescImplicit
    <3>2. app[s][r] # Implicit => app[s][r] \in Desc
      BY <1>2
    <3>3. stmts' \in [Desc -> [Stmt -> Nat]] /\ fault' \in BOOLEAN
      <4>1. CASE app[s][r] = Implicit
        BY <1>2, <2>12, <4>1 DEF SetDescImplicit
      <4>2. CASE app[s][r] # Implicit
        <5> DEFINE d == app[s][r]
        <5>1. d \in Desc /\ stmts[d][s] \in Nat
          BY <1>2, <3>2, <4>2
        <5>2. stmts' = IF stmts[d][s] = 0 THEN stmts ELSE [stmts EXCEPT ![d][s] = @ - 1]
          BY <2>12, <4>2 DEF SetDescImplicit
        <5>3. fault' \in BOOLEAN
          BY <2>12, <4>2 DEF SetDescImplicit
        <5> HIDE DEF d
        <5>4. CASE stmts[d][s] = 0
          BY <1>2, <5>2, <5>3, <5>4
        <5>5. CASE stmts[d][s] # 0
          <6>1. stmts[d][s] - 1 \in Nat
            BY <5>1, <5>5
          <6> QED BY <1>2, <5>1, <5>2, <5>3, <5>5, <6>1
        <5> QED BY <5>4, <5>5
      <4> QED BY <4>1, <4>2
    <3> QED BY <1>2, <2>12, <3>1, <3>3 DEF SetDescImplicit
  <2>13. ASSUME NEW s \in Stmt, NEW r \in Role, NEW d \in Desc, SetDescExplicit(s, r, d)
         PROVE  TypeOK'
    BY <1>2, <2>13 DEF SetDescExplicit
  <2>14. CASE UNCHANGED vars
    BY <1>2, <2>14 DEF vars
  <2> QED BY <1>2, <2>3, <2>4, <2>5, <2>6, <2>7, <2>8, <2>9, <2>10, <2>11, <2>12, <2>13,
             <2>14 DEF Next
<1> QED BY <1>1, <1>2, PTL DEF Spec

(* However many statements share however many descriptors over any number  *)
(* of connections, no call of a careful application makes the driver touch *)
(* freed memory, free anything twice or fail desc_remove_stmt's assertion, *)
(* also with statements in the lists whose allocation failed half way, but *)
(* for the SQLDisconnect or pooling that drops one of these.               *)
THEOREM MemorySafety == ASSUME Practices \subseteq {"no_memory"} PROVE Spec => []MemorySafe
<1>1. IInv => MemorySafe
  BY DEF IInv
<1> QED BY <1>1, Invariance, PTL

(* The list of an explicit descriptor names exactly the live statements    *)
(* that use it, each once.                                                 *)
THEOREM AssociationsAreExact == ASSUME Practices \subseteq {"no_memory"}
                                PROVE Spec => []AssociationsExact
<1>1. IInv => AssociationsExact
  BY DEF IInv
<1> QED BY <1>1, Invariance, PTL

(* A live statement always uses a live descriptor of its own connection    *)
(* and of the right role.                                                  *)
THEOREM DescriptorsAreUsable == ASSUME Practices \subseteq {"no_memory"}
                                PROVE Spec => []UsableDescriptors
<1>1. IInv => UsableDescriptors
  BY DEF IInv
<1> QED BY <1>1, Invariance, PTL

(* Both lists of a connection hold what lives on it, all of it and nothing *)
(* else.                                                                   *)
THEOREM ListsAreExact == ASSUME Practices \subseteq {"no_memory"} PROVE Spec => []ListsExact
<1>1. IInv => ListsExact
  BY DEF IInv
<1> QED BY <1>1, Invariance, PTL

(* Once the handle of a connection is freed nothing allocated on it is     *)
(* left.                                                                   *)
THEOREM NoLeak == ASSUME Practices \subseteq {"no_memory"}
                  PROVE Spec => []NothingOutlivesItsConnection
<1>1. IInv => NothingOutlivesItsConnection
  <2> SUFFICES ASSUME IInv, NEW c \in Dbc, dbcState[c] = "freed"
               PROVE  /\ \A s \in Stmt : c \in stmtDbc[s] => stmtState[s] = "freed"
                      /\ \A d \in Desc : c \in descDbc[d] => descState[d] = "freed"
    BY DEF NothingOutlivesItsConnection
  <2>1. ASSUME NEW s \in Stmt, c \in stmtDbc[s] PROVE stmtState[s] = "freed"
    <3>1. stmtState[s] \in {"unused", "live", "broken", "freed"}
      BY DEF IInv, TypeOK
    <3>2. stmtState[s] # "live"
      BY <2>1, OneConnection
    <3>3. stmtState[s] \notin {"unused", "broken"}
      BY <2>1 DEF IInv, Fresh, Held
    <3> QED BY <3>1, <3>2, <3>3
  <2>2. \A d \in Desc : c \in descDbc[d] => descState[d] = "freed"
    BY DEF IInv, Fresh, Held
  <2> QED BY <2>1, <2>2
<1> QED BY <1>1, Invariance, PTL

-----------------------------------------------------------------------------
(* The driver's initial state is the contract's. *)
LEMMA RefinesInit == Init => Contract!AbsInit
BY DEF Init, Contract!AbsInit, Contract!AllImplicit, owner, alive, use

(* Freeing live statements and descriptors is the contract's Release: what *)
(* remains to be shown of a call is which of them it frees and that it     *)
(* takes the freed descriptors away from the statements that live on.      *)
LEMMA RefinesRelease ==
  ASSUME IInv, NEW S \in SUBSET Stmt, NEW D \in SUBSET Desc,
         \A s \in S : stmtState[s] = "live",
         \A d \in D : descState[d] = "live",
         \A s \in Stmt : stmtState'[s] = IF s \in S THEN "freed" ELSE stmtState[s],
         \A d \in Desc : descState'[d] = IF d \in D THEN "freed" ELSE descState[d],
         app' \in [Stmt -> [Role -> Desc \cup {Implicit}]],
         \A s \in Stmt \ S, r \in Role : stmtState[s] = "live" =>
            app'[s][r] = IF app[s][r] \in D THEN Implicit ELSE app[s][r],
         UNCHANGED <<stmtDbc, descDbc>>
  PROVE  Contract!Release(S \cup D)
<1>1. S \cup D \subseteq alive
  BY DEF alive
<1>2. alive' = alive \ (S \cup D)
  BY DEF alive
<1>3. owner' = owner
  BY DEF owner
<1>4. use' = [s \in Stmt |-> [r \in Role |->
                IF s \in S \cup D \/ use[s][r] \in S \cup D
                THEN Implicit ELSE use[s][r]]]
  <2> SUFFICES ASSUME NEW s \in Stmt
               PROVE  (IF stmtState'[s] = "live" THEN app'[s]
                       ELSE [r \in Role |-> Implicit])
                      = [r \in Role |-> IF s \in S \cup D \/ use[s][r] \in S \cup D
                                        THEN Implicit ELSE use[s][r]]
    BY DEF use
  <2>1. CASE s \in S
    BY <2>1 DEF use
  <2>2. CASE s \notin S /\ stmtState[s] # "live"
    BY <2>2 DEF use
  <2>3. CASE s \notin S /\ stmtState[s] = "live"
    <3>1. \A r \in Role : use[s][r] = app[s][r] /\ use[s][r] \in Desc \cup {Implicit}
      BY <2>3 DEF use, IInv, TypeOK
    <3>2. stmtState'[s] = "live" /\ app'[s] \in [Role -> Desc \cup {Implicit}]
      BY <2>3
    <3>3. \A r \in Role : app'[s][r] = IF s \in S \cup D \/ use[s][r] \in S \cup D
                                       THEN Implicit ELSE use[s][r]
      BY <2>3, <3>1
    <3> QED BY <3>2, <3>3
  <2> QED BY <2>1, <2>2, <2>3
<1> QED BY <1>1, <1>2, <1>3, <1>4 DEF Contract!Release

(* Each step of a careful application is a step of the contract or leaves  *)
(* it alone.                                                               *)
LEMMA RefinesNext ==
  ASSUME IInv, Practices \subseteq {"no_memory"}, [Next]_vars
  PROVE  [Contract!AbsNext]_(Contract!absVars)
<1>0. ASSUME UNCHANGED <<stmtState, stmtDbc, app, descState, descDbc>>
      PROVE  UNCHANGED Contract!absVars
  BY <1>0 DEF Contract!absVars, owner, alive, use
<1>R. ASSUME NEW X \in SUBSET (Stmt \cup Desc), Contract!Release(X)
      PROVE  Contract!AbsNext
  BY <1>R DEF Contract!AbsNext
<1>1. ASSUME NEW c \in Dbc, AllocConnect(c) \/ Connect(c)
      PROVE  UNCHANGED Contract!absVars
  BY <1>0, <1>1 DEF AllocConnect, Connect, stmtVars, descVars
<1>2. ASSUME NEW c \in Dbc, Disconnect(c) PROVE Contract!AbsNext
  <2> DEFINE S == {s \in statements[c] : stmtState[s] = "live"}
  <2>1. S \subseteq Stmt /\ \A s \in S : stmtState[s] = "live"
    BY DEF IInv, TypeOK
  <2>2. \A s \in Stmt : stmtState'[s] = IF s \in S THEN "freed" ELSE stmtState[s]
    <3>1. statements[c] \in SUBSET Stmt /\ \A s \in statements[c] : stmtState[s] \in {"live", "broken"}
      BY OneConnection DEF IInv, TypeOK
    <3>2. DropStmts(statements[c])
      BY <1>2 DEF Disconnect
    <3> QED BY <3>1, <3>2, DropSafe
  <2>3. \A d \in Desc : descState'[d] = IF d \in {} THEN "freed" ELSE descState[d]
    BY <1>2 DEF Disconnect
  <2>4. /\ app' \in [Stmt -> [Role -> Desc \cup {Implicit}]]
        /\ \A s \in Stmt \ S, r \in Role : stmtState[s] = "live" =>
             app'[s][r] = IF app[s][r] \in {} THEN Implicit ELSE app[s][r]
        /\ UNCHANGED <<stmtDbc, descDbc>>
    BY <1>2 DEF Disconnect, IInv, TypeOK
  <2>5. Contract!Release(S \cup {})
    BY <2>1, <2>2, <2>3, <2>4, RefinesRelease
  <2> QED BY <2>1, <2>5, <1>R
<1>3. ASSUME NEW c \in Dbc, FreeConnect(c) PROVE Contract!AbsNext
  <2>1. /\ exp_desc[c] \subseteq Desc
        /\ \A d \in exp_desc[c] : descState[d] = "live" /\ c \in descDbc[d]
    BY <1>3 DEF FreeConnect, At, IInv, TypeOK, ListsExact
  <2>2. \A s \in Stmt : stmtState'[s] = IF s \in {} THEN "freed" ELSE stmtState[s]
    BY <1>3 DEF FreeConnect, stmtVars
  <2>3. \A d \in Desc : descState'[d] = IF d \in exp_desc[c] THEN "freed" ELSE descState[d]
    BY <1>3 DEF FreeConnect, FreeDescs
  <2>4. ASSUME NEW s \in Stmt, NEW r \in Role, stmtState[s] = "live"
        PROVE  app[s][r] \notin exp_desc[c]
    <3>1. c \notin stmtDbc[s]
      BY <1>3, <2>4, OneConnection DEF FreeConnect, At
    <3> QED BY <2>1, <2>4, <3>1, Links, HandlesAssumption
  <2>5. /\ app' \in [Stmt -> [Role -> Desc \cup {Implicit}]]
        /\ \A s \in Stmt \ {}, r \in Role : stmtState[s] = "live" =>
             app'[s][r] = IF app[s][r] \in exp_desc[c] THEN Implicit ELSE app[s][r]
        /\ UNCHANGED <<stmtDbc, descDbc>>
    BY <1>3, <2>4 DEF FreeConnect, stmtVars, IInv, TypeOK
  <2>6. Contract!Release({} \cup exp_desc[c])
    BY <2>1, <2>2, <2>3, <2>5, RefinesRelease
  <2> QED BY <2>1, <2>6, <1>R
<1>4. ASSUME NEW c \in Dbc, ResetConnection(c) PROVE Contract!AbsNext
  <2> DEFINE S == {s \in statements[c] : stmtState[s] = "live"}
  <2>1. S \subseteq Stmt /\ \A s \in S : stmtState[s] = "live"
    BY DEF IInv, TypeOK
  <2>2. \A s \in Stmt : stmtState'[s] = IF s \in S THEN "freed" ELSE stmtState[s]
    <3>1. statements[c] \in SUBSET Stmt /\ \A s \in statements[c] : stmtState[s] \in {"live", "broken"}
      BY OneConnection DEF IInv, TypeOK
    <3>2. DropStmts(statements[c])
      BY <1>4 DEF ResetConnection
    <3> QED BY <3>1, <3>2, DropSafe
  <2>3. \A d \in Desc : descState'[d] = IF d \in {} THEN "freed" ELSE descState[d]
    BY <1>4 DEF ResetConnection, FreeDescs
  <2>4. /\ app' \in [Stmt -> [Role -> Desc \cup {Implicit}]]
        /\ \A s \in Stmt \ S, r \in Role : stmtState[s] = "live" =>
             app'[s][r] = IF app[s][r] \in {} THEN Implicit ELSE app[s][r]
        /\ UNCHANGED <<stmtDbc, descDbc>>
    BY <1>4 DEF ResetConnection, IInv, TypeOK
  <2>5. Contract!Release(S \cup {})
    BY <2>1, <2>2, <2>3, <2>4, RefinesRelease
  <2> QED BY <2>1, <2>5, <1>R
<1>5. ASSUME NEW c \in Dbc, NEW s \in Stmt, AllocStmt(c, s) PROVE Contract!AbsNext
  <2>1. owner[s] = {} /\ owner' = [owner EXCEPT ![s] = {c}]
    <3>1. /\ stmtDbc[s] = {} /\ stmtDbc' = [stmtDbc EXCEPT ![s] = {c}]
          /\ descDbc' = descDbc
      BY <1>5 DEF AllocStmt, IInv, Fresh, Held, descVars
    <3>2. owner[s] = {}
      BY <3>1 DEF owner
    <3>3. ASSUME NEW x \in Stmt \cup Desc
          PROVE  (IF x \in Stmt THEN stmtDbc'[x] ELSE descDbc'[x])
                 = IF x = s THEN {c} ELSE owner[x]
      BY <3>1 DEF owner, IInv, TypeOK
    <3> QED BY <3>2, <3>3 DEF owner
  <2>2. alive' = alive \cup {s}
    BY <1>5 DEF AllocStmt, IInv, TypeOK, alive, descVars
  <2>3. use' = use
    BY <1>5 DEF AllocStmt, IInv, TypeOK, Fresh, Held, use
  <2>4. Contract!Allocate(c, s)
    BY <2>1, <2>2, <2>3 DEF Contract!Allocate
  <2> QED BY <2>4 DEF Contract!AbsNext
<1>6. ASSUME NEW c \in Dbc, NEW d \in Desc, AllocDesc(c, d) PROVE Contract!AbsNext
  <2>1. owner[d] = {} /\ owner' = [owner EXCEPT ![d] = {c}]
    <3>1. /\ descDbc[d] = {} /\ descDbc' = [descDbc EXCEPT ![d] = {c}]
          /\ stmtDbc' = stmtDbc /\ d \notin Stmt
      BY <1>6, HandlesAssumption DEF AllocDesc, IInv, Fresh, Held, stmtVars
    <3>2. owner[d] = {}
      BY <3>1 DEF owner
    <3>3. ASSUME NEW x \in Stmt \cup Desc
          PROVE  (IF x \in Stmt THEN stmtDbc'[x] ELSE descDbc'[x])
                 = IF x = d THEN {c} ELSE owner[x]
      BY <3>1 DEF owner, IInv, TypeOK
    <3> QED BY <3>2, <3>3 DEF owner
  <2>2. alive' = alive \cup {d}
    BY <1>6 DEF AllocDesc, IInv, TypeOK, alive, stmtVars
  <2>3. use' = use
    BY <1>6 DEF AllocDesc, use, stmtVars
  <2>4. Contract!Allocate(c, d)
    BY <2>1, <2>2, <2>3 DEF Contract!Allocate
  <2> QED BY <2>4 DEF Contract!AbsNext
<1>7. ASSUME NEW s \in Stmt, DropStmt(s) PROVE Contract!AbsNext
  <2>1. {s} \subseteq Stmt /\ \A x \in {s} : stmtState[x] = "live"
    BY <1>7 DEF DropStmt, LiveStmt
  <2>2. \A x \in Stmt : stmtState'[x] = IF x \in {s} THEN "freed" ELSE stmtState[x]
    BY <1>7, <2>1, DropSafe DEF DropStmt
  <2>3. \A d \in Desc : descState'[d] = IF d \in {} THEN "freed" ELSE descState[d]
    BY <1>7 DEF DropStmt
  <2>4. /\ app' \in [Stmt -> [Role -> Desc \cup {Implicit}]]
        /\ \A x \in Stmt \ {s}, r \in Role : stmtState[x] = "live" =>
             app'[x][r] = IF app[x][r] \in {} THEN Implicit ELSE app[x][r]
        /\ UNCHANGED <<stmtDbc, descDbc>>
    BY <1>7 DEF DropStmt, IInv, TypeOK
  <2>5. Contract!Release({s} \cup {})
    BY <2>1, <2>2, <2>3, <2>4, RefinesRelease
  <2> QED BY <2>1, <2>5, <1>R
<1>8. ASSUME NEW d \in Desc, FreeDesc(d) PROVE Contract!AbsNext
  <2>1. {d} \subseteq Desc /\ \A x \in {d} : descState[x] = "live"
    BY <1>8 DEF FreeDesc, LiveDesc
  <2>2. \A s \in Stmt : stmtState'[s] = IF s \in {} THEN "freed" ELSE stmtState[s]
    BY <1>8 DEF FreeDesc
  <2>3. \A x \in Desc : descState'[x] = IF x \in {d} THEN "freed" ELSE descState[x]
    BY <1>8 DEF FreeDesc, FreeDescs
  <2>4. ASSUME NEW s \in Stmt, NEW r \in Role, stmtState[s] = "live"
        PROVE  app'[s][r] = IF app[s][r] \in {d} THEN Implicit ELSE app[s][r]
    <3>1. app'[s][r] = IF stmts[d][s] > 0 /\ r = desc_type[d]
                       THEN Implicit ELSE app[s][r]
      BY <1>8 DEF FreeDesc, ResetUsers
    <3>2. CASE app[s][r] = d
      BY <2>4, <3>1, <3>2, Links, HandlesAssumption
    <3>3. CASE app[s][r] # d /\ stmts[d][s] > 0 /\ r = desc_type[d]
      <4>1. Uses(s, d)
        BY <3>3 DEF IInv, AssociationsExact
      <4>2. PICK q \in Role : app[s][q] = d
        BY <4>1 DEF Uses
      <4>3. desc_type[d] = q
        BY <2>4, <4>2, Links, HandlesAssumption
      <4> QED BY <3>3, <4>2, <4>3
    <3> QED BY <3>1, <3>2, <3>3
  <2>5. /\ app' \in [Stmt -> [Role -> Desc \cup {Implicit}]]
        /\ UNCHANGED <<stmtDbc, descDbc>>
    BY <1>8 DEF FreeDesc, ResetUsers, IInv, TypeOK
  <2>6. Contract!Release({} \cup {d})
    BY <2>1, <2>2, <2>3, <2>4, <2>5, RefinesRelease
  <2> QED BY <2>1, <2>6, <1>R
<1>9. ASSUME NEW s \in Stmt, NEW r \in Role, SetDescNull(s, r)
      PROVE  UNCHANGED Contract!absVars
  <2>1. app' = app
    BY <1>9 DEF SetDescNull, IInv, TypeOK
  <2> QED BY <1>0, <1>9, <2>1 DEF SetDescNull, descVars
<1>10. ASSUME NEW s \in Stmt, NEW r \in Role, SetDescImplicit(s, r)
       PROVE  Contract!AbsNext
  <2>1. /\ app' = [app EXCEPT ![s][r] = Implicit] /\ stmtState[s] = "live"
        /\ UNCHANGED <<stmtState, stmtDbc, descState, descDbc>>
    BY <1>10 DEF SetDescImplicit, LiveStmt
  <2>2. s \in alive /\ UNCHANGED <<owner, alive>>
    BY <2>1 DEF owner, alive
  <2>3. use' = [use EXCEPT ![s][r] = Implicit]
    BY <2>1 DEF use, IInv, TypeOK
  <2>4. Contract!Revert(s, r)
    BY <2>2, <2>3 DEF Contract!Revert
  <2> QED BY <2>4 DEF Contract!AbsNext
<1>11. ASSUME NEW s \in Stmt, NEW r \in Role, NEW d \in Desc, SetDescExplicit(s, r, d)
       PROVE  Contract!AbsNext
  <2>1. /\ app' = [app EXCEPT ![s][r] = d] /\ stmtState[s] = "live" /\ descState[d] = "live"
        /\ descDbc[d] = stmtDbc[s]
        /\ UNCHANGED <<stmtState, stmtDbc, descState, descDbc>>
    BY <1>11 DEF SetDescExplicit, LiveStmt, LiveDesc
  <2>2. {s, d} \subseteq alive /\ owner[s] = owner[d] /\ UNCHANGED <<owner, alive>>
    BY <2>1, HandlesAssumption DEF owner, alive
  <2>3. use' = [use EXCEPT ![s][r] = d]
    BY <2>1 DEF use, IInv, TypeOK
  <2>4. Contract!Assign(s, r, d)
    BY <2>2, <2>3 DEF Contract!Assign
  <2> QED BY <2>4 DEF Contract!AbsNext
<1>12. ASSUME NEW c \in Dbc, NEW s \in Stmt, AllocStmtNoMemory(c, s)
       PROVE  UNCHANGED Contract!absVars
  <2>1. /\ UNCHANGED <<stmtDbc, app, descState, descDbc>>
        /\ \A t \in Stmt : stmtState'[t] = "live" <=> stmtState[t] = "live"
    BY <1>12 DEF AllocStmtNoMemory, IInv, TypeOK, descVars
  <2> QED BY <2>1 DEF Contract!absVars, owner, alive, use
<1>13. CASE UNCHANGED vars
  BY <1>13, <1>0 DEF vars
<1> QED BY <1>1, <1>2, <1>3, <1>4, <1>5, <1>6, <1>7, <1>8, <1>9, <1>10, <1>11,
           <1>12, <1>13 DEF Next

(* The driver's lists and pointers implement the contract of application   *)
(* descriptors for a careful application.                                  *)
THEOREM Refinement == ASSUME Practices \subseteq {"no_memory"} PROVE Spec => ImplementsDescriptorUse
<1>1. Init => Contract!AbsInit
  BY RefinesInit
<1>2. IInv /\ [Next]_vars => [Contract!AbsNext]_(Contract!absVars)
  BY RefinesNext
<1> QED BY <1>1, <1>2, Invariance, PTL DEF Spec, ImplementsDescriptorUse, Contract!AbsSpec
=============================================================================
