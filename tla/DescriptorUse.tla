--------------------------- MODULE DescriptorUse ---------------------------
(***************************************************************************)
(* What the driver promises an application about application descriptors,  *)
(* free of lists and pointers: a statement has one descriptor per role     *)
(* (parameters, rows), its own implicit one until an explicitly allocated  *)
(* descriptor is set on it; freeing a descriptor puts every statement that *)
(* uses it, and no other, back on its implicit one (the contract stated    *)
(* above my_SQLFreeDesc, driver/handle.c).                                 *)
(***************************************************************************)
CONSTANTS Dbc,       \* connection handles
          Stmt,      \* statement handles
          Desc,      \* explicitly allocated descriptor handles
          Role,      \* what a descriptor describes: parameters or rows
          Implicit   \* the statement's own descriptor of a role

VARIABLES owner,     \* owner[x]: connections on which handle x was allocated
          alive,     \* the statements and descriptors allocated, not yet freed
          use        \* use[s][r]: the descriptor statement s uses in role r

absVars == <<owner, alive, use>>

AllImplicit == [r \in Role |-> Implicit]

Users(d) == {s \in Stmt : \E r \in Role : use[s][r] = d}

AbsTypeOK == /\ owner \in [Stmt \cup Desc -> SUBSET Dbc]
             /\ alive \subseteq Stmt \cup Desc
             /\ use \in [Stmt -> [Role -> Desc \cup {Implicit}]]

AbsInit == /\ owner = [x \in Stmt \cup Desc |-> {}]
           /\ alive = {}
           /\ use = [s \in Stmt |-> AllImplicit]

\* A handle is new: it was never owned by a connection before.
Allocate(c, x) == /\ owner[x] = {}
                  /\ owner' = [owner EXCEPT ![x] = {c}]
                  /\ alive' = alive \cup {x}
                  /\ UNCHANGED use

\* Only a live descriptor of the statement's own connection can be set.
Assign(s, r, d) == /\ {s, d} \subseteq alive
                   /\ owner[s] = owner[d]
                   /\ use' = [use EXCEPT ![s][r] = d]
                   /\ UNCHANGED <<owner, alive>>

Revert(s, r) == /\ s \in alive
                /\ use' = [use EXCEPT ![s][r] = Implicit]
                /\ UNCHANGED <<owner, alive>>

\* Freeing any set of statements and descriptors: descriptors leave the
\* statements that used them, statements leave their descriptors.
Release(X) == /\ X \subseteq alive
              /\ alive' = alive \ X
              /\ use' = [s \in Stmt |->
                           [r \in Role |-> IF s \in X \/ use[s][r] \in X
                                           THEN Implicit ELSE use[s][r]]]
              /\ UNCHANGED owner

AbsNext == \/ \E c \in Dbc, x \in Stmt \cup Desc : Allocate(c, x)
           \/ \E s \in Stmt, r \in Role, d \in Desc : Assign(s, r, d)
           \/ \E s \in Stmt, r \in Role : Revert(s, r)
           \/ \E X \in SUBSET (Stmt \cup Desc) : Release(X)

AbsSpec == AbsInit /\ [][AbsNext]_absVars
=============================================================================
