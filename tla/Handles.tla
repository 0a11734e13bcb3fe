------------------------------ MODULE Handles ------------------------------
(***************************************************************************)
(* Lifetimes of the driver's handles (driver/handle.c, and the parts of    *)
(* desc.c, options.c and connect.c that create, link and free them): a     *)
(* connection (DBC) keeps a list of its statements (STMT) and one of its   *)
(* explicitly allocated descriptors (DESC); a statement points to the      *)
(* descriptor in use for its parameters (apd) and for its rows (ard); an   *)
(* explicit descriptor keeps the list exp.stmts of the statements it was   *)
(* set on.  The four implicit descriptors live and die with their          *)
(* statement, so that a pointer to one is the value Implicit.              *)
(*                                                                         *)
(* A handle is used once: a fresh allocation is a fresh name, so that a    *)
(* pointer to a freed object is never mistaken for one to its successor.   *)
(***************************************************************************)
EXTENDS Naturals

CONSTANTS Dbc, Stmt, Desc, Implicit,
          Practices,  \* what the environment does beyond the careful use below
          MaxNodes    \* bound: nodes of one statement in one exp.stmts list

Role == {"param", "row"}

(***************************************************************************)
(* "null_handle": revert an explicit descriptor with SQL_NULL_HDESC rather *)
(*     than with the implicit descriptor's handle;                         *)
(* "replace": set an explicit descriptor on top of an explicit one;        *)
(* "pool_reset": SQL_ATTR_RESET_CONNECTION while explicit descriptors of   *)
(*     the connection exist;                                               *)
(* "no_memory": the allocation of a statement's descriptors fails inside   *)
(*     my_SQLAllocStmt;                                                    *)
(* "no_statement": the allocation of the statement itself fails there.     *)
(***************************************************************************)
AllPractices == {"null_handle", "replace", "pool_reset", "no_memory", "no_statement"}

ASSUME HandlesAssumption == /\ Practices \subseteq AllPractices
                            /\ MaxNodes \in Nat \ {0}
                            /\ Implicit \notin Desc
                            /\ Stmt \cap Desc = {}

VARIABLES
  dbcState,    \* [Dbc -> "unused" | "allocated" | "connected" | "freed"]
  statements,  \* dbc->statements
  exp_desc,    \* dbc->exp_desc, never emptied by free_explicit_descriptors
  stmtState,   \* [Stmt -> "unused" | "live" | "broken" | "freed"]
  stmtDbc,     \* stmt->dbc, {} before the allocation
  app,         \* app[s].param = stmt->apd, app[s].row = stmt->ard
  descState,   \* [Desc -> "unused" | "live" | "freed"]
  descDbc,     \* desc->exp.dbc, {} before the allocation
  desc_type,   \* desc->desc_type: unknown until the descriptor is set
  stmts,       \* stmts[d][s]: nodes of s in the list d->exp.stmts
  fault        \* freed memory was touched, or an assertion failed

vars == <<dbcState, statements, exp_desc, stmtState, stmtDbc, app,
          descState, descDbc, desc_type, stmts, fault>>
dbcVars  == <<dbcState, statements, exp_desc>>
stmtVars == <<stmtState, stmtDbc, app>>
descVars == <<descState, descDbc, desc_type, stmts>>

TypeOK ==
  /\ dbcState \in [Dbc -> {"unused", "allocated", "connected", "freed"}]
  /\ statements \in [Dbc -> SUBSET Stmt]
  /\ exp_desc \in [Dbc -> SUBSET Desc]
  /\ stmtState \in [Stmt -> {"unused", "live", "broken", "freed"}]
  /\ stmtDbc \in [Stmt -> SUBSET Dbc]
  /\ app \in [Stmt -> [Role -> Desc \cup {Implicit}]]
  /\ descState \in [Desc -> {"unused", "live", "freed"}]
  /\ descDbc \in [Desc -> SUBSET Dbc]
  /\ desc_type \in [Desc -> Role \cup {"unknown"}]
  /\ stmts \in [Desc -> [Stmt -> Nat]]
  /\ fault \in BOOLEAN

Init ==
  /\ dbcState = [c \in Dbc |-> "unused"]
  /\ statements = [c \in Dbc |-> {}]
  /\ exp_desc = [c \in Dbc |-> {}]
  /\ stmtState = [s \in Stmt |-> "unused"]
  /\ stmtDbc = [s \in Stmt |-> {}]
  /\ app = [s \in Stmt |-> [r \in Role |-> Implicit]]
  /\ descState = [d \in Desc |-> "unused"]
  /\ descDbc = [d \in Desc |-> {}]
  /\ desc_type = [d \in Desc |-> "unknown"]
  /\ stmts = [d \in Desc |-> [s \in Stmt |-> 0]]
  /\ fault = FALSE

-----------------------------------------------------------------------------
(* A program that has touched freed memory does nothing one can rely on;   *)
(* the driver manager lets a call through only in the connection state it  *)
(* is meant for.                                                           *)
At(c, st) == ~fault /\ dbcState[c] = st

Connected(c) == At(c, "connected")
LiveStmt(s)  == stmtState[s] = "live" /\ \E c \in stmtDbc[s] : Connected(c)
LiveDesc(d)  == descState[d] = "live" /\ \E c \in descDbc[d] : Connected(c)

(* Neighbours in a list are written by list_add and list_delete, its nodes *)
(* are freed together with their descriptors.                              *)
ListIsFreed(c) == \E d \in exp_desc[c] : descState[d] = "freed"

(***************************************************************************)
(* my_SQLFreeStmtExtended(SQL_DROP) for every statement of S: it reads     *)
(* both current descriptors, and desc_remove_stmt takes one node out of    *)
(* the list of an explicit one or fails its assertion.  A descriptor has   *)
(* one role (UsableDescriptors), hence one node to take.                   *)
(***************************************************************************)
Uses(s, d) == \E r \in Role : app[s][r] = d

Dropped(s, S) == IF s \in S /\ stmtState[s] = "live" THEN "freed" ELSE stmtState[s]

\* Mutant: every list loses a node, also those the statement is not in.
DropStmtsFromAll(S) ==
  /\ stmtState' = [s \in Stmt |-> Dropped(s, S)]
  /\ stmts' = [d \in Desc |-> [s \in Stmt |-> stmts[d][s] - IF s \in S THEN 1 ELSE 0]]

\* Mutant: desc_remove_stmt is not called.
DropStmtsKeepingNodes(S) ==
  /\ stmtState' = [s \in Stmt |-> Dropped(s, S)]
  /\ UNCHANGED stmts

DropStmts(S) ==
  /\ stmtState' = [s \in Stmt |-> Dropped(s, S)]
  /\ stmts' = [d \in Desc |-> [s \in Stmt |->
                 IF s \in S /\ Uses(s, d) /\ stmts[d][s] > 0
                 THEN stmts[d][s] - 1 ELSE stmts[d][s]]]

DropFaults(S) ==
  \E s \in S :
     \/ stmtState[s] # "live"
     \/ \E d \in Desc : Uses(s, d) /\ (descState[d] # "live" \/ stmts[d][s] = 0)

\* Mutant: the nodes are unlinked and not freed.
LeakDescs(D) == UNCHANGED descState

(* free_explicit_descriptors: every node still in the list, freed or not. *)
FreeDescs(D) ==
  descState' = [d \in Desc |-> IF d \in D THEN "freed" ELSE descState[d]]

-----------------------------------------------------------------------------
(* my_SQLAllocConnect *)
AllocConnect(c) ==
  /\ At(c, "unused")
  /\ dbcState' = [dbcState EXCEPT ![c] = "allocated"]
  /\ UNCHANGED <<statements, exp_desc, stmtVars, descVars, fault>>

(* SQLConnect or SQLDriverConnect, from a connection's point of view *)
Connect(c) ==
  /\ At(c, "allocated")
  /\ dbcState' = [dbcState EXCEPT ![c] = "connected"]
  /\ UNCHANGED <<statements, exp_desc, stmtVars, descVars, fault>>

(* SQLDisconnect: free_connection_stmts drops every statement; explicitly  *)
(* allocated descriptors stay until the connection handle is freed.        *)
Disconnect(c) ==
  /\ Connected(c)
  /\ DropStmts(statements[c])
  /\ fault' = (fault \/ DropFaults(statements[c]))
  /\ statements' = [statements EXCEPT ![c] = {}]
  /\ dbcState' = [dbcState EXCEPT ![c] = "allocated"]
  /\ UNCHANGED <<exp_desc, stmtDbc, app, descState, descDbc, desc_type>>

(* my_SQLFreeConnect *)
FreeConnect(c) ==
  /\ At(c, "allocated")
  /\ fault' = (fault \/ ListIsFreed(c))
  /\ FreeDescs(exp_desc[c])
  /\ dbcState' = [dbcState EXCEPT ![c] = "freed"]
  /\ UNCHANGED <<statements, exp_desc, stmtVars, descDbc, desc_type, stmts>>

(* reset_connection, when the driver manager returns the connection to its *)
(* pool: statements first, then the explicit descriptors.                  *)
ResetConnection(c) ==
  /\ Connected(c)
  /\ exp_desc[c] # {} => "pool_reset" \in Practices
  /\ DropStmts(statements[c])
  /\ fault' = (fault \/ DropFaults(statements[c]) \/ ListIsFreed(c))
  /\ statements' = [statements EXCEPT ![c] = {}]
  /\ FreeDescs(exp_desc[c])
  /\ UNCHANGED <<dbcState, exp_desc, stmtDbc, app, descDbc, desc_type>>

(* my_SQLAllocStmt *)
AllocStmt(c, s) ==
  /\ Connected(c) /\ stmtState[s] = "unused"
  /\ stmtState' = [stmtState EXCEPT ![s] = "live"]
  /\ stmtDbc' = [stmtDbc EXCEPT ![s] = {c}]
  /\ statements' = [statements EXCEPT ![c] = @ \cup {s}]
  /\ UNCHANGED <<dbcState, exp_desc, app, descVars, fault>>

(* ... whose error exit frees the descriptors but leaves the statement in  *)
(* the list it was added to before its descriptors were allocated.  If     *)
(* there is no statement, that exit follows the pointer never assigned.    *)
AllocStmtNoMemory(c, s) ==
  /\ Connected(c) /\ stmtState[s] = "unused"
  /\ \/ /\ "no_memory" \in Practices
        /\ stmtState' = [stmtState EXCEPT ![s] = "broken"]
        /\ statements' = [statements EXCEPT ![c] = @ \cup {s}]
        /\ UNCHANGED fault
     \/ /\ "no_statement" \in Practices
        /\ fault' = TRUE
        /\ UNCHANGED <<stmtState, statements>>
  /\ UNCHANGED <<dbcState, exp_desc, stmtDbc, app, descVars>>

(* my_SQLFreeStmtExtended(SQL_DROP) *)
DropStmt(s) ==
  /\ LiveStmt(s)
  /\ DropStmts({s})
  /\ fault' = (fault \/ DropFaults({s}))
  /\ statements' = [c \in Dbc |-> statements[c] \ {s}]
  /\ UNCHANGED <<dbcState, exp_desc, stmtDbc, app, descState, descDbc,
                 desc_type>>

(* my_SQLAllocDesc *)
AllocDesc(c, d) ==
  /\ Connected(c) /\ descState[d] = "unused"
  /\ fault' = (fault \/ ListIsFreed(c))
  /\ descState' = [descState EXCEPT ![d] = "live"]
  /\ descDbc' = [descDbc EXCEPT ![d] = {c}]
  /\ exp_desc' = [exp_desc EXCEPT ![c] = @ \cup {d}]
  /\ UNCHANGED <<dbcState, statements, stmtVars, desc_type, stmts>>

\* Mutant: only parameter descriptors are put back.
ResetParamUsers(d) ==
  app' = [s \in Stmt |-> [r \in Role |->
            IF stmts[d][s] > 0 /\ r = "param" THEN Implicit ELSE app[s][r]]]

(* my_SQLFreeDesc: every statement in exp.stmts is written, whether or not *)
(* it still uses the descriptor.                                           *)
ResetUsers(d) ==
  app' = [s \in Stmt |-> [r \in Role |->
            IF stmts[d][s] > 0 /\ r = desc_type[d] THEN Implicit ELSE app[s][r]]]

FreeDesc(d) ==
  /\ LiveDesc(d)
  /\ fault' = (\/ fault
               \/ \E c \in descDbc[d] : ListIsFreed(c)
               \/ \E s \in Stmt : stmts[d][s] > 0 /\ stmtState[s] # "live")
  /\ exp_desc' = [c \in Dbc |-> exp_desc[c] \ {d}]
  /\ ResetUsers(d)
  /\ stmts' = [stmts EXCEPT ![d] = [s \in Stmt |-> 0]]
  /\ FreeDescs({d})
  /\ UNCHANGED <<dbcState, statements, stmtState, stmtDbc, descDbc, desc_type>>

-----------------------------------------------------------------------------
(* MySQLSetStmtAttr(SQL_ATTR_APP_PARAM_DESC or SQL_ATTR_APP_ROW_DESC)      *)

(* SQL_NULL_HDESC: the pointer changes, the list of the descriptor that    *)
(* was in use does not.                                                    *)
SetDescNull(s, r) ==
  /\ LiveStmt(s)
  /\ app[s][r] # Implicit => "null_handle" \in Practices
  /\ app' = [app EXCEPT ![s][r] = Implicit]
  /\ UNCHANGED <<dbcVars, stmtState, stmtDbc, descVars, fault>>

(* The handle of the statement's own implicit descriptor; another          *)
(* statement's is refused (HY017).                                         *)
SetDescImplicit(s, r) ==
  /\ LiveStmt(s)
  /\ LET d == app[s][r] IN
       IF d = Implicit THEN UNCHANGED <<stmts, fault>>
       ELSE /\ fault' = (fault \/ descState[d] # "live" \/ stmts[d][s] = 0)
            /\ stmts' = IF stmts[d][s] = 0 THEN stmts
                        ELSE [stmts EXCEPT ![d][s] = @ - 1]
  /\ app' = [app EXCEPT ![s][r] = Implicit]
  /\ UNCHANGED <<dbcVars, stmtState, stmtDbc, descState, descDbc, desc_type>>

(* An explicit descriptor: of the same connection (HY024 otherwise) and    *)
(* not used in the other role before (HY024); it is added to exp.stmts of  *)
(* the new descriptor and not removed from that of the old one.            *)
SetDescExplicit(s, r, d) ==
  /\ LiveStmt(s) /\ LiveDesc(d)
  /\ descDbc[d] = stmtDbc[s]
  /\ desc_type[d] \in {"unknown", r}
  /\ app[s][r] # Implicit => "replace" \in Practices
  /\ stmts[d][s] < MaxNodes
  /\ stmts' = [stmts EXCEPT ![d][s] = @ + 1]
  /\ desc_type' = [desc_type EXCEPT ![d] = r]
  /\ app' = [app EXCEPT ![s][r] = d]
  /\ UNCHANGED <<dbcVars, stmtState, stmtDbc, descState, descDbc, fault>>

-----------------------------------------------------------------------------
Next == \/ \E c \in Dbc : \/ AllocConnect(c)
                          \/ Connect(c)
                          \/ Disconnect(c)
                          \/ FreeConnect(c)
                          \/ ResetConnection(c)
        \/ \E c \in Dbc, s \in Stmt : AllocStmt(c, s) \/ AllocStmtNoMemory(c, s)
        \/ \E c \in Dbc, d \in Desc : AllocDesc(c, d)
        \/ \E s \in Stmt : DropStmt(s)
        \/ \E d \in Desc : FreeDesc(d)
        \/ \E s \in Stmt, r \in Role :
              \/ SetDescNull(s, r)
              \/ SetDescImplicit(s, r)
              \/ \E d \in Desc : SetDescExplicit(s, r, d)

Spec == Init /\ [][Next]_vars

-----------------------------------------------------------------------------
(* A statement whose allocation failed, and whose connection has dropped   *)
(* its statements since.                                                   *)
DroppedBroken(s) == stmtState[s] = "broken" /\ \A c \in Dbc : s \notin statements[c]

(* No call ever touches a freed statement, descriptor or list node, frees  *)
(* one twice, or fails desc_remove_stmt's assertion "Statement was not     *)
(* associated with descriptor", but for one: the SQLDisconnect or pooling  *)
(* that drops a statement whose allocation failed half way.  Up to it, all *)
(* calls on all handles are safe, with such a statement in the list.       *)
MemorySafe == fault => \E s \in Stmt : DroppedBroken(s)

(* exp.stmts is exact: a live descriptor lists, once, the live statements  *)
(* it is in use on and nothing else, which is what lets my_SQLFreeDesc     *)
(* walk the list and desc_remove_stmt find its node.                       *)
AssociationsExact ==
  \A d \in Desc, s \in Stmt :
     stmts[d][s] = IF /\ stmtState[s] = "live"
                      /\ descState[d] = "live"
                      /\ Uses(s, d) THEN 1 ELSE 0

(* A live statement never points to a freed descriptor, to one of another  *)
(* connection, or to one that serves in the other role.                    *)
UsableDescriptors ==
  \A s \in Stmt, r \in Role :
     stmtState[s] = "live" /\ app[s][r] # Implicit =>
        LET d == app[s][r] IN /\ descState[d] = "live"
                              /\ descDbc[d] = stmtDbc[s]
                              /\ desc_type[d] = r

(* A connection's two lists hold its live statements and its live explicit *)
(* descriptors, all of them and nothing else; statements exist on a        *)
(* connected handle only, descriptors until the handle is freed.           *)
ListsExact ==
  /\ \A c \in Dbc, s \in Stmt : stmtState[s] # "broken" =>
        (s \in statements[c] <=> stmtState[s] = "live" /\ c \in stmtDbc[s])
  /\ \A c \in Dbc, d \in Desc : dbcState[c] # "freed" =>
        (d \in exp_desc[c] <=> descState[d] = "live" /\ c \in descDbc[d])
  /\ \A c \in Dbc : statements[c] # {} => dbcState[c] = "connected"

(* SQLFreeConnect leaves nothing of the connection behind: each statement  *)
(* and each explicit descriptor allocated on it has been freed before or   *)
(* with it, whatever the application forgot.                               *)
NothingOutlivesItsConnection ==
  \A c \in Dbc : dbcState[c] = "freed" =>
     /\ \A s \in Stmt : c \in stmtDbc[s] => stmtState[s] = "freed"
     /\ \A d \in Desc : c \in descDbc[d] => descState[d] = "freed"

(* The driver implements the contract of application descriptors: the      *)
(* contract's owner of a handle, its live handles and the descriptors in   *)
(* use are read off the driver's objects.                                  *)
owner == [x \in Stmt \cup Desc |-> IF x \in Stmt THEN stmtDbc[x] ELSE descDbc[x]]
alive == {s \in Stmt : stmtState[s] = "live"} \cup
         {d \in Desc : descState[d] = "live"}
use   == [s \in Stmt |-> IF stmtState[s] = "live" THEN app[s]
                         ELSE [r \in Role |-> Implicit]]

Contract == INSTANCE DescriptorUse
              WITH owner <- owner, alive <- alive, use <- use

(* Every behaviour of the driver's lists and pointers is one of the        *)
(* contract in DescriptorUse: statements have exactly the descriptors the  *)
(* application set, until these are freed.                                 *)
ImplementsDescriptorUse == Contract!AbsSpec
=============================================================================
