--------------------------- MODULE MCDataAtExec ---------------------------
(* DataAtExec for TLC: all statements use one explicit descriptor. *)
EXTENDS DataAtExec

OneDesc == [s \in Stmts |-> CHOOSE d \in Descs : TRUE]
=============================================================================
