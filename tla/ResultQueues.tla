---------------------------- MODULE ResultQueues ----------------------------
(***************************************************************************)
(* What an application may expect of a query with several results: each    *)
(* statement has the results of its own query one after the other, all of  *)
(* them, and hears SQL_NO_DATA after the last.  An error ends the query; a *)
(* call refused because the connection is busy changes nothing for the     *)
(* results to come.                                                        *)
(***************************************************************************)
EXTENDS Naturals, Sequences

CONSTANTS Stmts, Kinds

VARIABLES query,     \* per statement: the results of its query
          current,   \* per statement: the number of the result it has, or had
          told       \* per statement: what the last call told

vars == <<query, current, told>>

Init ==
  /\ query = [s \in Stmts |-> <<>>]
  /\ current = [s \in Stmts |-> 0]
  /\ told = [s \in Stmts |-> "none"]

Execute(s) ==
  /\ query'[s] \in Seq(Kinds) \ {<<>>}
  /\ query' = [query EXCEPT ![s] = query'[s]]
  /\ current' = [current EXCEPT ![s] = 1]
  /\ told' = [told EXCEPT ![s] = query'[s][1]]

More(s) ==
  /\ current[s] < Len(query[s])
  /\ current' = [current EXCEPT ![s] = @ + 1]
  /\ told' = [told EXCEPT ![s] = query[s][current[s] + 1]]
  /\ UNCHANGED query

NoMore(s) ==
  /\ current[s] = Len(query[s])
  /\ told' = [told EXCEPT ![s] = "no_data"]
  /\ UNCHANGED <<query, current>>

Refused(s) == told' = [told EXCEPT ![s] = "busy"] /\ UNCHANGED <<query, current>>

Close(s) ==
  /\ query' = [query EXCEPT ![s] = <<>>]
  /\ current' = [current EXCEPT ![s] = 0]
  /\ told' \in {[told EXCEPT ![s] = t] : t \in {"none", "busy"}}

Next == \E s \in Stmts : Execute(s) \/ More(s) \/ NoMore(s) \/ Refused(s) \/ Close(s)

Spec == Init /\ [][Next]_vars
=============================================================================
