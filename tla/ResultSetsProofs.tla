-------------------------- MODULE ResultSetsProofs --------------------------
(***************************************************************************)
(* Proofs about ResultSets for any number of statements and any number of  *)
(* results of a query, as long as a statement is used only while no        *)
(* results of another one wait on the connection (no "pending"), and, for  *)
(* the row counts, is asked for them before the connection is used for     *)
(* another one (no "row_count").                                           *)
(***************************************************************************)
EXTENDS ResultSets, FiniteSetTheorems, TLAPS

USE ResultSetsAssumption

(* What waits are the last results of one statement's query, in order.     *)
InLine ==
  \A s \in Stmts : wire # <<>> /\ wire[1][1] = s =>
     /\ state[s] = "executed" /\ Len(wire) < Len(query[s])
     /\ \A i \in 1 .. Len(wire) : wire[i] = <<s, Len(query[s]) - Len(wire) + i>>

(* While a result is read row by row only results of the same query wait.  *)
Streaming ==
  stream # NoStmt => /\ query[stream] # <<>>
                     /\ \A i \in 1 .. Len(wire) : wire[i][1] = stream

Owned ==
  \A s \in Stmts :
     /\ Len(query[s]) <= MaxResults
     /\ taken[s] # NoResult => query[s] # <<>> /\ taken[s] = <<s, Current(s)>>

(* Where the row count of the result that a statement has is to be found.  *)
CountKept ==
  \A s \in Stmts :
     /\ result[s] = "none" /\ taken[s] # NoResult => saved[s] = taken[s]
     /\ result[s] # "none" => state[s] = "executed"
     /\ result[s] = "stored" /\ used = s => count = taken[s]

(* An answer of SQLRowCount is the statement's, if it is asked in time.    *)
Answered == "row_count" \notin Practices => RowCountExact

IInv == TypeOK /\ InLine /\ Streaming /\ Owned /\ CountKept /\ Answered

-----------------------------------------------------------------------------
(* Counting the results that wait for a statement.                         *)
LEMMA WaitingAll ==
  ASSUME NEW S, NEW w \in Seq(S), NEW s, \A i \in 1 .. Len(w) : w[i][1] = s
  PROVE  Waiting(w, s) = Len(w)
<1>1. {i \in DOMAIN w : w[i][1] = s} = 1 .. Len(w)
  OBVIOUS
<1>2. Cardinality(1 .. Len(w)) = Len(w)
  BY FS_Interval, SMTT(30)
<1> QED BY <1>1, <1>2 DEF Waiting

LEMMA WaitingNone ==
  ASSUME NEW S, NEW w \in Seq(S), NEW s, \A i \in 1 .. Len(w) : w[i][1] # s
  PROVE  Waiting(w, s) = 0
<1>1. {i \in DOMAIN w : w[i][1] = s} = {}
  OBVIOUS
<1> QED BY <1>1, FS_EmptySet DEF Waiting

(* When a careful application uses a statement, whatever waits is what is  *)
(* left of the statement's own query.                                      *)
LEMMA OwnLine ==
  ASSUME IInv, "pending" \notin Practices, NEW s \in Stmts, Careful(s)
  PROVE  /\ wire \in Seq(Stmts \X (1 .. MaxResults))
         /\ Waiting(wire, s) = Len(wire)
         /\ \A t \in Stmts \ {s} : Waiting(wire, t) = 0
         /\ Current(s) = Len(query[s]) - Len(wire)
         /\ \A t \in Stmts \ {s} : Current(t) = Len(query[t])
         /\ \A i \in 1 .. Len(wire) : wire[i] = <<s, Current(s) + i>>
         /\ wire # <<>> => state[s] = "executed" /\ Len(wire) < Len(query[s])
         /\ Freed(s) # NoStmt => wire = <<>> /\ Freed(s) = stream
                                 /\ stream # s /\ query[stream] # <<>>
         /\ Len(wire) <= Len(query[s])
<1>1. wire \in Seq(Stmts \X (1 .. MaxResults))
  BY DEF IInv, TypeOK
<1>2. \A i \in 1 .. Len(wire) : wire[i][1] = s
  BY <1>1 DEF Careful
<1>3. Waiting(wire, s) = Len(wire)
  BY <1>1, <1>2, WaitingAll
<1>4. \A t \in Stmts \ {s} : Waiting(wire, t) = 0
  BY <1>1, <1>2, WaitingNone
<1>5. /\ \A t \in Stmts : query[t] \in Seq(Kinds) /\ Len(query[t]) \in Nat
      /\ Len(wire) \in Nat
  BY <1>1 DEF IInv, TypeOK
<1>6. Current(s) = Len(query[s]) - Len(wire)
  BY <1>3 DEF Current
<1>7. \A t \in Stmts \ {s} : Current(t) = Len(query[t])
  BY <1>4, <1>5 DEF Current
<1>8. wire # <<>> => /\ state[s] = "executed" /\ Len(wire) < Len(query[s])
                     /\ \A i \in 1 .. Len(wire) :
                          wire[i] = <<s, Len(query[s]) - Len(wire) + i>>
  <2> SUFFICES ASSUME wire # <<>> PROVE wire[1][1] = s
    BY DEF IInv, InLine
  <2>1. 1 \in 1 .. Len(wire)
    BY <1>1
  <2> QED BY <1>2, <2>1
<1>9. \A i \in 1 .. Len(wire) : wire[i] = <<s, Current(s) + i>>
  BY <1>1, <1>6, <1>8
<1>10. Freed(s) # NoStmt => wire = <<>> /\ Freed(s) = stream
                            /\ stream # s /\ query[stream] # <<>>
  <2> SUFFICES ASSUME Freed(s) # NoStmt
               PROVE  wire = <<>> /\ Freed(s) = stream /\ stream # s /\ query[stream] # <<>>
    OBVIOUS
  <2>1. Freed(s) = stream /\ stream # s /\ stream # NoStmt
    BY DEF Freed
  <2>2. query[stream] # <<>> /\ \A i \in 1 .. Len(wire) : wire[i][1] = stream
    BY <2>1 DEF IInv, Streaming
  <2>3. wire = <<>>
    <3> SUFFICES ASSUME wire # <<>> PROVE FALSE
      OBVIOUS
    <3>1. 1 \in 1 .. Len(wire)
      BY <1>1
    <3> QED BY <3>1, <1>2, <2>1, <2>2
  <2> QED BY <2>1, <2>2, <2>3
<1>11. Len(wire) <= Len(query[s])
  BY <1>5, <1>8
<1> QED BY <1>1, <1>3, <1>4, <1>6, <1>7, <1>8, <1>9, <1>10, <1>11

LEMMA InitIInv == Init => IInv
<1> SUFFICES ASSUME Init PROVE IInv
  OBVIOUS
<1> USE DEF Init, NoStmt, NoResult
<1>1. TypeOK
  BY DEF TypeOK, Kinds, Results, NotAsked
<1>2. InLine /\ Streaming
  BY DEF InLine, Streaming
<1>3. Owned
  BY DEF Owned
<1>4. CountKept /\ Answered
  BY DEF CountKept, Answered, RowCountExact, NotAsked
<1> QED BY <1>1, <1>2, <1>3, <1>4 DEF IInv

-----------------------------------------------------------------------------
(* After a call of a careful application on statement s what waits is the  *)
(* end of the query of s, so that the invariant is about s alone.          *)
LEMMA AfterCall ==
  ASSUME IInv, TypeOK', NEW s \in Stmts,
         \A i \in 1 .. Len(wire') : wire'[i] = <<s, Len(query'[s]) - Len(wire') + i>>,
         wire' # <<>> => state'[s] = "executed" /\ Len(wire') < Len(query'[s]),
         \A t \in Stmts \ {s} : /\ query'[t] = query[t] /\ taken'[t] = taken[t]
                                /\ result'[t] = result[t] /\ state'[t] = state[t]
                                /\ saved'[t] = saved[t] /\ Current(t) = Len(query[t]),
         stream' # NoStmt => query'[stream'] # <<>> /\ (stream' = s \/ wire' = <<>>),
         Len(query'[s]) <= MaxResults,
         taken'[s] # NoResult =>
            query'[s] # <<>> /\ taken'[s] = <<s, Len(query'[s]) - Len(wire')>>,
         result'[s] = "none" /\ taken'[s] # NoResult => saved'[s] = taken'[s],
         result'[s] # "none" => state'[s] = "executed",
         result'[s] = "stored" => count' = taken'[s],
         Uses(s)
  PROVE  IInv'
<1>1. wire' \in Seq(Stmts \X (1 .. MaxResults)) /\ Len(wire') \in Nat
  BY DEF TypeOK
<1>2. \A i \in 1 .. Len(wire') : wire'[i][1] = s
  OBVIOUS
<1>3. Waiting(wire', s) = Len(wire')
  BY <1>1, <1>2, WaitingAll
<1>4. \A t \in Stmts \ {s} : Waiting(wire', t) = 0
  BY <1>1, <1>2, WaitingNone
<1>5. \A t \in Stmts : Len(query'[t]) \in Nat
  BY DEF TypeOK
<1>6. Current(s)' = Len(query'[s]) - Len(wire')
  BY <1>3 DEF Current
<1>7. \A t \in Stmts \ {s} : Current(t)' = Len(query'[t])
  BY <1>4, <1>5 DEF Current
<1>8. wire' # <<>> => 1 \in 1 .. Len(wire')
  BY <1>1
<1>9. InLine'
  <2> SUFFICES ASSUME NEW t \in Stmts, wire' # <<>>, wire'[1][1] = t
               PROVE  /\ state'[t] = "executed" /\ Len(wire') < Len(query'[t])
                      /\ \A i \in 1 .. Len(wire') :
                           wire'[i] = <<t, Len(query'[t]) - Len(wire') + i>>
    BY DEF InLine
  <2>1. t = s
    BY <1>2, <1>8
  <2> QED BY <2>1
<1>10. Streaming'
  BY <1>1, <1>2 DEF Streaming
<1>11. Owned'
  BY <1>6, <1>7 DEF Owned, IInv
<1>12. CountKept'
  BY DEF CountKept, IInv, Uses
<1>13. Answered'
  BY DEF Answered, RowCountExact, Uses, NotAsked
<1> QED BY <1>9, <1>10, <1>11, <1>12, <1>13 DEF IInv

LEMMA ExecuteSafe ==
  ASSUME IInv, "pending" \notin Practices, NEW s \in Stmts, NEW q \in Queries,
         NEW how \in {"stored", "stream"}, Execute(s, q, how)
  PROVE  IInv' /\ Queues!Next
<1>1. /\ Waiting(wire, s) = Len(wire)
      /\ \A t \in Stmts \ {s} : Current(t) = Len(query[t]) /\ Waiting(wire, t) = 0
      /\ Freed(s) # NoStmt => wire = <<>> /\ Freed(s) = stream
                              /\ stream # s /\ query[stream] # <<>>
  BY OwnLine DEF Execute
<1>2. /\ q \in Seq(Kinds) /\ q # <<>> /\ Len(q) \in 1 .. MaxResults
      /\ Len(q) \in Nat \ {0}
      /\ q[1] \in Kinds /\ \A i \in 1 .. Len(q) - 1 : q[i] # "error"
  <2>1. PICK n \in 1 .. MaxResults : q \in [1 .. n -> Kinds]
    BY DEF Queries
  <2>2. Len(q) = n
    BY <2>1
  <2> QED BY <2>1, <2>2 DEF Queries
<1>3. CASE Freed(s) # NoStmt
  <2>1. /\ wire' = <<>> /\ wire = <<>> /\ stream' = stream /\ stream # s
        /\ count' = count /\ query' = [query EXCEPT ![s] = <<>>]
        /\ query[stream] # <<>>
    BY <1>1, <1>3 DEF Execute, Drained
  <2>2. /\ rc' = [rc EXCEPT ![s] = "busy"] /\ result' = [result EXCEPT ![s] = "none"]
        /\ taken' = [taken EXCEPT ![s] = NoResult]
        /\ saved' = [saved EXCEPT ![s] = NoResult]
        /\ state' \in [Stmts -> {"unknown", "executed"}]
        /\ \A t \in Stmts \ {s} : state'[t] = state[t]
    BY <1>3 DEF Execute, NotExecuted, IInv, TypeOK
  <2>3. TypeOK'
    <3>1. /\ query' \in [Stmts -> Seq(Kinds)]
          /\ result' \in [Stmts -> {"none", "stored", "stream"}]
          /\ rc' \in [Stmts -> Kinds \cup {"none", "no_data", "busy"}]
      BY <2>1, <2>2 DEF IInv, TypeOK
    <3>2. taken' \in [Stmts -> Results] /\ saved' \in [Stmts -> Results]
      BY <2>2 DEF IInv, TypeOK, Results
    <3>3. used' = s /\ reported' = NotAsked
      BY DEF Execute, Uses
    <3> QED BY <2>1, <2>2, <3>1, <3>2, <3>3 DEF IInv, TypeOK, NotAsked, Results
  <2>4. stream \in Stmts \cup {NoStmt}
    BY DEF IInv, TypeOK
  <2>5. IInv'
    <3>1. /\ query'[s] = <<>> /\ taken'[s] = NoResult /\ result'[s] = "none"
          /\ \A t \in Stmts \ {s} : /\ query'[t] = query[t] /\ taken'[t] = taken[t]
                                   /\ result'[t] = result[t] /\ state'[t] = state[t]
                                   /\ saved'[t] = saved[t]
      BY <2>1, <2>2 DEF IInv, TypeOK
    <3>2. stream' # NoStmt => query'[stream'] # <<>>
      BY <2>1, <2>4, <3>1
    <3> QED BY <1>1, <2>1, <2>3, <3>1, <3>2, AfterCall DEF Execute
  <2>6. Queues!Close(s)
    <3>1. wire' = wire
      BY <2>1
    <3>2. [t \in Stmts |-> Current(t)]' = [[t \in Stmts |-> Current(t)] EXCEPT ![s] = 0]
      <4>1. Current(s)' = 0
        BY <1>1, <2>1, <3>1 DEF Current, IInv, TypeOK
      <4>2. \A t \in Stmts \ {s} : Current(t)' = Current(t)
        BY <2>1, <3>1 DEF Current, IInv, TypeOK
      <4> QED BY <4>1, <4>2
    <3> QED BY <2>1, <2>2, <3>2 DEF Queues!Close
  <2> QED BY <2>5, <2>6 DEF Queues!Next
<1>4. CASE Freed(s) = NoStmt
  <2>1. /\ query' = [query EXCEPT ![s] = q] /\ rc' = [rc EXCEPT ![s] = q[1]]
        /\ Having(s, q[1], how)
        /\ taken' = [taken EXCEPT ![s] = IF q[1] = "error" THEN NoResult ELSE <<s, 1>>]
        /\ saved' = [saved EXCEPT ![s] = IF q[1] = "count" THEN <<s, 1>> ELSE NoResult]
        /\ wire' = IF q[1] = "error" THEN <<>> ELSE [i \in 1 .. Len(q) - 1 |-> <<s, i + 1>>]
        /\ count' = Counted(<<s, 1>>, q[1], how)
        /\ IF q[1] = "error" THEN NotExecuted(s)
                             ELSE state' = [state EXCEPT ![s] = "executed"]
        /\ Uses(s)
    BY <1>4 DEF Execute, Drained
  <2>2. q[1] = "error" => Len(q) = 1
    <3>1. ASSUME Len(q) # 1 PROVE q[1] # "error"
      <4>1. \A n \in Nat \ {0} : n # 1 => 1 \in 1 .. n - 1
        OBVIOUS
      <4>2. 1 \in 1 .. Len(q) - 1
        BY <1>2, <3>1, <4>1
      <4> QED BY <1>2, <4>2
    <3> QED BY <3>1
  <2>3. /\ wire' \in Seq(Stmts \X (1 .. MaxResults)) /\ Len(wire') = Len(q) - 1
        /\ \A i \in 1 .. Len(wire') : wire'[i] = <<s, i + 1>>
    <3>1. CASE q[1] = "error"
      BY <1>2, <2>1, <2>2, <3>1
    <3>2. CASE q[1] # "error"
      <4>1. wire' = [i \in 1 .. Len(q) - 1 |-> <<s, i + 1>>]
        BY <2>1, <3>2
      <4>2. wire' \in [1 .. Len(q) - 1 -> Stmts \X (1 .. MaxResults)]
        BY <1>2, <4>1
      <4> QED BY <1>2, <4>1, <4>2
    <3> QED BY <3>1, <3>2
  <2>4. TypeOK'
    <3>1. <<s, 1>> \in Results /\ NoResult \in Results
      BY DEF Results
    <3>2. query' \in [Stmts -> Seq(Kinds)]
      BY <1>2, <2>1 DEF IInv, TypeOK
    <3>3. /\ state' \in [Stmts -> {"unknown", "executed"}]
          /\ result' \in [Stmts -> {"none", "stored", "stream"}]
          /\ rc' \in [Stmts -> Kinds \cup {"none", "no_data", "busy"}]
          /\ stream' \in Stmts \cup {NoStmt}
      BY <1>2, <2>1 DEF IInv, TypeOK, Having, NotExecuted
    <3>4. taken' \in [Stmts -> Results] /\ saved' \in [Stmts -> Results]
      BY <2>1, <3>1 DEF IInv, TypeOK
    <3>5. count' \in Results /\ used' \in Stmts \cup {NoStmt}
      BY <2>1, <3>1 DEF Counted, Uses
    <3>6. reported' \in [stmt : Stmts \cup {NoStmt}, value : Results]
      BY <2>1, <3>1 DEF Uses, NotAsked
    <3> QED BY <1>2, <2>3, <3>2, <3>3, <3>4, <3>5, <3>6 DEF TypeOK
  <2>5. IInv'
    <3>1. /\ query'[s] = q
          /\ taken'[s] = IF q[1] = "error" THEN NoResult ELSE <<s, 1>>
          /\ saved'[s] = IF q[1] = "count" THEN <<s, 1>> ELSE NoResult
          /\ result'[s] = IF q[1] = "rows" THEN how ELSE "none"
          /\ q[1] # "error" => state'[s] = "executed"
          /\ \A t \in Stmts \ {s} : /\ query'[t] = query[t] /\ taken'[t] = taken[t]
                                   /\ result'[t] = result[t] /\ state'[t] = state[t]
                                   /\ saved'[t] = saved[t]
      BY <2>1 DEF IInv, TypeOK, Having, NotExecuted
    <3>2. stream' # NoStmt => stream' = s
      BY <2>1 DEF Having
    <3>3. result'[s] = "stored" => count' = taken'[s]
      BY <2>1, <3>1 DEF Counted
    <3>4. \A i \in 1 .. Len(wire') : wire'[i] = <<s, Len(query'[s]) - Len(wire') + i>>
      BY <1>2, <2>3, <3>1
    <3>5. wire' # <<>> => state'[s] = "executed" /\ Len(wire') < Len(query'[s])
      BY <1>2, <2>1, <2>3, <3>1
    <3>6. taken'[s] # NoResult =>
            query'[s] # <<>> /\ taken'[s] = <<s, Len(query'[s]) - Len(wire')>>
      BY <1>2, <2>3, <3>1
    <3>7. result'[s] = "none" /\ taken'[s] # NoResult => saved'[s] = taken'[s]
      BY <1>2, <3>1 DEF Kinds
    <3>8. result'[s] # "none" => state'[s] = "executed"
      BY <3>1
    <3>9. /\ \A t \in Stmts \ {s} : Current(t) = Len(query[t])
          /\ stream' # NoStmt => query'[stream'] # <<>> /\ (stream' = s \/ wire' = <<>>)
          /\ Len(query'[s]) <= MaxResults
      BY <1>1, <1>2, <3>1, <3>2
    <3> QED BY <2>1, <2>4, <3>1, <3>3, <3>4, <3>5, <3>6, <3>7, <3>8, <3>9, AfterCall
  <2>6. Queues!Execute(s)
    <3>1. \A i \in 1 .. Len(wire') : wire'[i][1] = s
      BY <2>3
    <3>2. Waiting(wire', s) = Len(q) - 1 /\ \A t \in Stmts \ {s} : Waiting(wire', t) = 0
      BY <2>3, <3>1, WaitingAll, WaitingNone
    <3>3. Current(s)' = 1 /\ \A t \in Stmts \ {s} : Current(t)' = Current(t)
      <4>1. query'[s] = q /\ \A t \in Stmts \ {s} : query'[t] = query[t]
        BY <2>1 DEF IInv, TypeOK
      <4>2. Current(s)' = 1
        BY <1>2, <3>2, <4>1 DEF Current
      <4>3. \A t \in Stmts \ {s} : Current(t)' = Current(t)
        BY <1>1, <3>2, <4>1 DEF Current
      <4> QED BY <4>2, <4>3
    <3>4. [t \in Stmts |-> Current(t)]' = [[t \in Stmts |-> Current(t)] EXCEPT ![s] = 1]
      BY <3>3
    <3>5. query'[s] = q
      BY <2>1 DEF IInv, TypeOK
    <3>6. rc' = [rc EXCEPT ![s] = query'[s][1]]
      BY <2>1, <3>5
    <3>7. query' = [query EXCEPT ![s] = query'[s]]
      BY <2>1, <3>5
    <3>8. query'[s] \in Seq(Kinds) \ {<<>>}
      BY <1>2, <3>5
    <3> QED BY <3>4, <3>6, <3>7, <3>8 DEF Queues!Execute
  <2> QED BY <2>5, <2>6 DEF Queues!Next
<1> QED BY <1>3, <1>4

LEMMA MoreResultsSafe ==
  ASSUME IInv, "pending" \notin Practices, NEW s \in Stmts,
         NEW how \in {"stored", "stream"}, MoreResults(s, how)
  PROVE  IInv' /\ Queues!Next
<1>1. /\ wire \in Seq(Stmts \X (1 .. MaxResults))
      /\ \A t \in Stmts \ {s} : Current(t) = Len(query[t]) /\ Waiting(wire, t) = 0
      /\ Waiting(wire, s) = Len(wire) /\ Current(s) = Len(query[s]) - Len(wire)
      /\ \A i \in 1 .. Len(wire) : wire[i] = <<s, Current(s) + i>>
      /\ wire # <<>> => state[s] = "executed" /\ Len(wire) < Len(query[s])
      /\ Freed(s) # NoStmt => wire = <<>> /\ Freed(s) = stream
                              /\ stream # s /\ query[stream] # <<>>
  BY OwnLine DEF MoreResults
<1>2. \A t \in Stmts : query[t] \in Seq(Kinds) /\ Len(query[t]) \in 0 .. MaxResults
  BY DEF IInv, TypeOK, Owned
<1>3. Uses(s) /\ stream \in Stmts \cup {NoStmt} /\ NoResult \in Results
  BY DEF MoreResults, IInv, TypeOK, Results
<1>4. CASE state[s] # "executed"
  <2>1. /\ wire = <<>> /\ rc' = [rc EXCEPT ![s] = "no_data"]
        /\ UNCHANGED <<query, state, result, taken, saved, wire, stream, count>>
    BY <1>1, <1>4 DEF MoreResults
  <2>2. result[s] = "none"
    BY <1>4 DEF IInv, TypeOK, CountKept
  <2>3. TypeOK'
    BY <1>3, <2>1 DEF IInv, TypeOK, Uses, NotAsked
  <2>4. IInv'
    <3>1. stream # NoStmt => query[stream] # <<>>
      BY DEF IInv, Streaming
    <3>2. /\ taken[s] # NoResult => query[s] # <<>> /\ taken[s] = <<s, Len(query[s]) - Len(wire)>>
          /\ taken[s] # NoResult => saved[s] = taken[s]
      BY <1>1, <2>2 DEF IInv, Owned, CountKept
    <3> QED BY <1>1, <1>2, <1>3, <2>1, <2>2, <2>3, <3>1, <3>2, AfterCall
  <2>5. Queues!NoMore(s)
    <3>1. Current(s) = Len(query[s])
      BY <1>1, <1>2, <2>1
    <3>2. [t \in Stmts |-> Current(t)]' = [t \in Stmts |-> Current(t)]
      BY <2>1 DEF Current
    <3> QED BY <2>1, <3>1, <3>2 DEF Queues!NoMore
  <2> QED BY <2>4, <2>5 DEF Queues!Next
<1>5. CASE state[s] = "executed" /\ (Freed(s) # NoStmt \/ wire = <<>>)
  <2>1. /\ wire = <<>> /\ wire' = <<>>
        /\ rc' = [rc EXCEPT ![s] = IF Freed(s) # NoStmt THEN "busy" ELSE "no_data"]
        /\ result' = [result EXCEPT ![s] = "none"]
        /\ taken' = [taken EXCEPT ![s] = NoResult]
        /\ count' = IF Freed(s) # NoStmt THEN count ELSE NoResult
        /\ stream' = Freed(s) /\ UNCHANGED <<query, state, saved, wire>>
    BY <1>1, <1>5 DEF MoreResults
  <2>2. TypeOK'
    <3>1. /\ taken' \in [Stmts -> Results] /\ count' \in Results
          /\ result' \in [Stmts -> {"none", "stored", "stream"}]
          /\ rc' \in [Stmts -> Kinds \cup {"none", "no_data", "busy"}]
          /\ stream' \in Stmts \cup {NoStmt}
      BY <1>3, <2>1 DEF IInv, TypeOK, Freed
    <3> QED BY <1>3, <2>1, <3>1 DEF IInv, TypeOK, Uses, NotAsked
  <2>3. IInv'
    <3>1. /\ taken'[s] = NoResult /\ result'[s] = "none" /\ query' = query /\ state' = state
          /\ \A t \in Stmts \ {s} : taken'[t] = taken[t] /\ result'[t] = result[t]
                                   /\ saved'[t] = saved[t]
      BY <2>1 DEF IInv, TypeOK
    <3>2. stream' # NoStmt => query'[stream'] # <<>>
      BY <1>1, <2>1
    <3> QED BY <1>1, <1>2, <1>3, <2>1, <2>2, <3>1, <3>2, AfterCall
  <2>4. Queues!NoMore(s) \/ Queues!Refused(s)
    <3>1. Current(s) = Len(query[s])
      BY <1>1, <1>2, <2>1
    <3>2. [t \in Stmts |-> Current(t)]' = [t \in Stmts |-> Current(t)]
      BY <2>1 DEF Current
    <3> QED BY <2>1, <3>1, <3>2 DEF Queues!NoMore, Queues!Refused
  <2> QED BY <2>3, <2>4 DEF Queues!Next
<1>6. CASE state[s] = "executed" /\ Freed(s) = NoStmt /\ wire # <<>>
  <2> DEFINE next == Head(wire)
             kind == Kind(next)
  <2>1. /\ rc' = [rc EXCEPT ![s] = kind] /\ Having(s, kind, how)
        /\ taken' = [taken EXCEPT ![s] = IF kind = "error" THEN NoResult ELSE next]
        /\ saved' = IF kind = "error" THEN saved
                    ELSE [saved EXCEPT ![s] = IF kind = "count" THEN next ELSE NoResult]
        /\ wire' = Tail(wire) /\ count' = Counted(next, kind, how)
        /\ UNCHANGED <<query, state>>
    BY <1>6 DEF MoreResults, ToCome
  <2>2. /\ Len(wire) \in Nat \ {0} /\ Len(wire') = Len(wire) - 1
        /\ wire' \in Seq(Stmts \X (1 .. MaxResults))
        /\ \A i \in 1 .. Len(wire') : wire'[i] = wire[i + 1] /\ i + 1 \in 1 .. Len(wire)
    BY <1>1, <1>6, <2>1
  <2>3. /\ next = <<s, Current(s) + 1>> /\ next \in Stmts \X (1 .. MaxResults)
        /\ Len(wire) < Len(query[s])
    BY <1>1, <1>6, <2>2
  <2>4. /\ Current(s) + 1 = Len(query[s]) - Len(wire') /\ Current(s) \in Nat
        /\ Current(s) + 1 \in 1 .. Len(query[s])
    BY <1>1, <1>2, <2>2, <2>3
  <2>5. kind = query[s][Current(s) + 1] /\ kind \in Kinds
    BY <1>2, <2>3, <2>4 DEF Kind
  <2>6. TypeOK'
    <3>1. /\ result' \in [Stmts -> {"none", "stored", "stream"}]
          /\ rc' \in [Stmts -> Kinds \cup {"none", "no_data", "busy"}]
          /\ stream' \in Stmts \cup {NoStmt}
      BY <2>1, <2>5 DEF IInv, TypeOK, Having
    <3>2. next \in Results
      BY <2>3 DEF Results
    <3>3. taken' \in [Stmts -> Results] /\ saved' \in [Stmts -> Results]
      BY <1>3, <2>1, <3>2 DEF IInv, TypeOK
    <3>4. count' \in Results
      BY <1>3, <2>1, <3>2 DEF Counted
    <3>5. Len(wire') < MaxResults
      BY <2>2 DEF IInv, TypeOK
    <3> QED BY <1>3, <2>1, <2>2, <3>1, <3>3, <3>4, <3>5 DEF IInv, TypeOK, Uses, NotAsked
  <2>7. IInv'
    <3>1. /\ taken'[s] = IF kind = "error" THEN NoResult ELSE next
          /\ kind # "error" => saved'[s] = IF kind = "count" THEN next ELSE NoResult
          /\ result'[s] = IF kind = "rows" THEN how ELSE "none"
          /\ query' = query /\ state' = state /\ state[s] = "executed"
          /\ \A t \in Stmts \ {s} : taken'[t] = taken[t] /\ result'[t] = result[t]
                                   /\ saved'[t] = saved[t]
      BY <1>6, <2>1 DEF IInv, TypeOK, Having
    <3>2. \A i \in 1 .. Len(wire') : wire'[i] = <<s, Len(query'[s]) - Len(wire') + i>>
      <4> SUFFICES ASSUME NEW i \in 1 .. Len(wire')
                   PROVE  wire'[i] = <<s, Len(query[s]) - Len(wire') + i>>
        BY <3>1
      <4>1. wire'[i] = wire[i + 1] /\ i + 1 \in 1 .. Len(wire)
        BY <2>2
      <4>2. wire[i + 1] = <<s, Current(s) + (i + 1)>>
        BY <1>1, <4>1
      <4>3. Current(s) + (i + 1) = Len(query[s]) - Len(wire') + i
        <5>1. /\ Len(query[s]) \in Int /\ Len(wire') \in Int /\ i \in Int
              /\ Current(s) \in Int
          BY <1>2, <2>2, <2>4
        <5>2. \A c, m, n \in Int : c + 1 = m - n => c + (i + 1) = m - n + i
          BY <5>1
        <5> QED BY <2>4, <5>1, <5>2
      <4> QED BY <4>1, <4>2, <4>3
    <3>3. Len(wire') < Len(query'[s]) /\ Len(query'[s]) <= MaxResults /\ query'[s] # <<>>
      BY <1>2, <2>2, <2>3, <3>1
    <3>4. taken'[s] # NoResult => taken'[s] = <<s, Len(query'[s]) - Len(wire')>>
      BY <2>3, <2>4, <3>1
    <3>5. result'[s] = "none" /\ taken'[s] # NoResult => saved'[s] = taken'[s]
      BY <2>5, <3>1 DEF Kinds
    <3>6. result'[s] = "stored" => count' = taken'[s]
      BY <2>1, <3>1 DEF Counted
    <3>7. stream' # NoStmt => query'[stream'] # <<>> /\ stream' = s
      BY <2>1, <3>3 DEF Having
    <3> QED BY <1>1, <1>3, <2>6, <3>1, <3>2, <3>3, <3>4, <3>5, <3>6, <3>7, AfterCall
  <2>8. Queues!More(s)
    <3>1. ASSUME NEW i \in 1 .. Len(wire') PROVE wire'[i][1] = s
      <4>1. wire'[i] = wire[i + 1] /\ i + 1 \in 1 .. Len(wire)
        BY <2>2
      <4> QED BY <1>1, <4>1
    <3>2. Waiting(wire', s) = Len(wire') /\ \A t \in Stmts \ {s} : Waiting(wire', t) = 0
      BY <2>2, <3>1, WaitingAll, WaitingNone
    <3>3. Current(s)' = Current(s) + 1
      BY <2>1, <2>4, <3>2 DEF Current
    <3>4. \A t \in Stmts \ {s} : Current(t)' = Current(t)
      BY <1>1, <2>1, <3>2 DEF Current
    <3>5. [t \in Stmts |-> Current(t)]'
             = [[t \in Stmts |-> Current(t)] EXCEPT ![s] = Current(s) + 1]
      BY <3>3, <3>4
    <3>6. Current(s) < Len(query[s])
      BY <1>2, <2>4
    <3> QED BY <2>1, <2>5, <3>5, <3>6 DEF Queues!More
  <2> QED BY <2>7, <2>8 DEF Queues!Next
<1> QED BY <1>4, <1>5, <1>6

LEMMA CloseSafe ==
  ASSUME IInv, "pending" \notin Practices, NEW s \in Stmts, CloseCursor(s)
  PROVE  IInv' /\ Queues!Next
<1>1. /\ \A t \in Stmts \ {s} : Current(t) = Len(query[t]) /\ Waiting(wire, t) = 0
      /\ Freed(s) # NoStmt => wire = <<>> /\ Freed(s) = stream
                              /\ stream # s /\ query[stream] # <<>>
  BY OwnLine DEF CloseCursor
<1>2. wire' = <<>> /\ stream' = Freed(s) /\ count' \in {count, NoResult}
  BY <1>1 DEF CloseCursor, Drained
<1>3. /\ query' = [query EXCEPT ![s] = <<>>] /\ state' = [state EXCEPT ![s] = "unknown"]
      /\ result' = [result EXCEPT ![s] = "none"] /\ rc' = [rc EXCEPT ![s] = "none"]
      /\ taken' = [taken EXCEPT ![s] = NoResult] /\ saved' = [saved EXCEPT ![s] = NoResult]
      /\ Uses(s)
  BY DEF CloseCursor
<1>4. stream \in Stmts \cup {NoStmt} /\ NoResult \in Results
  BY DEF IInv, TypeOK, Results
<1>5. TypeOK'
  <2>1. /\ query' \in [Stmts -> Seq(Kinds)] /\ state' \in [Stmts -> {"unknown", "executed"}]
        /\ result' \in [Stmts -> {"none", "stored", "stream"}]
        /\ rc' \in [Stmts -> Kinds \cup {"none", "no_data", "busy"}]
    BY <1>3 DEF IInv, TypeOK
  <2>2. taken' \in [Stmts -> Results] /\ saved' \in [Stmts -> Results] /\ count' \in Results
    BY <1>2, <1>3, <1>4 DEF IInv, TypeOK
  <2>3. stream' \in Stmts \cup {NoStmt}
    BY <1>2, <1>4 DEF Freed
  <2>4. Len(wire') < MaxResults /\ wire' \in Seq(Stmts \X (1 .. MaxResults))
    BY <1>2
  <2> QED BY <1>3, <1>4, <2>1, <2>2, <2>3, <2>4 DEF TypeOK, Uses, NotAsked
<1>6. /\ query'[s] = <<>> /\ taken'[s] = NoResult /\ result'[s] = "none"
      /\ \A t \in Stmts \ {s} : /\ query'[t] = query[t] /\ taken'[t] = taken[t]
                               /\ result'[t] = result[t] /\ state'[t] = state[t]
                               /\ saved'[t] = saved[t]
  BY <1>3 DEF IInv, TypeOK
<1>7. stream' # NoStmt => query'[stream'] # <<>>
  BY <1>1, <1>2, <1>4, <1>6
<1>8. IInv'
  BY <1>1, <1>2, <1>3, <1>5, <1>6, <1>7, AfterCall
<1>9. Queues!Close(s)
  <2>1. wire' \in Seq(Stmts \X (1 .. MaxResults)) /\ Len(wire') = 0
    BY <1>2
  <2>2. ASSUME NEW t \in Stmts PROVE Waiting(wire', t) = 0
    <3>1. \A i \in 1 .. Len(wire') : wire'[i][1] # t
      BY <2>1
    <3> QED BY <2>1, <3>1, WaitingNone
  <2>3. Current(s)' = 0
    BY <1>6, <2>2 DEF Current
  <2>4. \A t \in Stmts \ {s} : Current(t)' = Current(t)
    BY <1>1, <1>6, <2>2 DEF Current
  <2>5. [t \in Stmts |-> Current(t)]' = [[t \in Stmts |-> Current(t)] EXCEPT ![s] = 0]
    BY <2>3, <2>4
  <2> QED BY <1>3, <2>5 DEF Queues!Close
<1> QED BY <1>8, <1>9 DEF Queues!Next

(* The end of a streamed result and SQLRowCount leave all queries alone.   *)
LEMMA OtherSafe ==
  ASSUME IInv, "pending" \notin Practices, NEW s \in Stmts, EndOfStream(s) \/ RowCount(s)
  PROVE  IInv' /\ UNCHANGED Queues!vars
<1>1. /\ UNCHANGED <<stmtVars, wire, count, used>>
      /\ stream' \in {stream, NoStmt}
  BY DEF EndOfStream, RowCount
<1>2. NoResult \in Results
  BY DEF Results
<1>3. ASSUME EndOfStream(s) PROVE IInv'
  BY <1>1, <1>2, <1>3 DEF EndOfStream, IInv, TypeOK, InLine, Streaming, Owned, Current,
                          CountKept, Answered, RowCountExact, stmtVars
<1>4. ASSUME RowCount(s) PROVE IInv'
  <2>1. /\ taken[s] # NoResult /\ result[s] # "stream" /\ stream' = stream
        /\ result[s] = "stored" /\ used # s => "row_count" \in Practices
        /\ reported' = [stmt |-> s, value |-> RowCountOf(s)]
    BY <1>4 DEF RowCount
  <2>2. result[s] \in {"none", "stored"}
    BY <2>1 DEF IInv, TypeOK
  <2>3. "row_count" \notin Practices => RowCountOf(s) = taken[s]
    BY <2>1, <2>2 DEF RowCountOf, IInv, CountKept
  <2>4. RowCountOf(s) \in Results
    BY DEF IInv, TypeOK, RowCountOf
  <2>5. TypeOK'
    BY <1>1, <2>1, <2>4 DEF IInv, TypeOK, stmtVars
  <2>6. Answered'
    BY <1>1, <2>1, <2>3 DEF Answered, RowCountExact, stmtVars
  <2> QED BY <1>1, <2>1, <2>5, <2>6 DEF IInv, InLine, Streaming, Owned, Current, CountKept, stmtVars
<1>5. UNCHANGED Queues!vars
  BY <1>1 DEF Queues!vars, Current, stmtVars
<1> QED BY <1>3, <1>4, <1>5

-----------------------------------------------------------------------------
LEMMA NextSafe ==
  ASSUME IInv, "pending" \notin Practices, [Next]_vars
  PROVE  IInv' /\ [Queues!Next]_(Queues!vars)
<1>1. ASSUME NEW s \in Stmts, NEW how \in {"stored", "stream"}, MoreResults(s, how)
      PROVE  IInv' /\ Queues!Next
  BY <1>1, MoreResultsSafe
<1>2. ASSUME NEW s \in Stmts, NEW how \in {"stored", "stream"}, NEW q \in Queries,
             Execute(s, q, how)
      PROVE  IInv' /\ Queues!Next
  BY <1>2, ExecuteSafe
<1>3. ASSUME NEW s \in Stmts, EndOfStream(s) \/ RowCount(s)
      PROVE  IInv' /\ UNCHANGED Queues!vars
  BY <1>3, OtherSafe
<1>4. ASSUME NEW s \in Stmts, CloseCursor(s) PROVE IInv' /\ Queues!Next
  BY <1>4, CloseSafe
<1>5. CASE UNCHANGED vars
  BY <1>5 DEF vars, IInv, TypeOK, InLine, Streaming, Owned, Current, CountKept,
              Answered, RowCountExact, Queues!vars
<1> QED BY <1>1, <1>2, <1>3, <1>4, <1>5 DEF Next

(* The invariant holds of every behaviour of a careful application.        *)
THEOREM Invariance == ASSUME "pending" \notin Practices PROVE Spec => []IInv
<1>1. Init => IInv
  BY InitIInv
<1>2. IInv /\ [Next]_vars => IInv'
  BY NextSafe
<1> QED BY <1>1, <1>2, PTL DEF Spec

(* Type correctness.                                                       *)
THEOREM TypeCorrect == ASSUME "pending" \notin Practices PROVE Spec => []TypeOK
<1>1. IInv => TypeOK
  BY DEF IInv
<1> QED BY <1>1, Invariance, PTL

(* Whatever the statements of a connection did before, the result that a   *)
(* statement has is one of its own query, and the one it has come to.      *)
THEOREM Ownership == ASSUME "pending" \notin Practices PROVE Spec => []OwnResults
<1>1. IInv => OwnResults
  BY DEF IInv, Owned, OwnResults
<1> QED BY <1>1, Invariance, PTL

(* SQLRowCount answers for the result that the statement has.              *)
THEOREM RowCounts == ASSUME Practices = {} PROVE Spec => []RowCountExact
<1>1. IInv => RowCountExact
  BY DEF IInv, Answered
<1>2. "pending" \notin Practices
  OBVIOUS
<1>3. Spec => []IInv
  BY <1>2, Invariance
<1> QED BY <1>1, <1>3, PTL

(* A connection whose statements are all closed is free for a query.       *)
THEOREM FreeConnection == ASSUME "pending" \notin Practices PROVE Spec => []ConnectionFree
<1>1. IInv => ConnectionFree
  <2> SUFFICES ASSUME IInv, \A s \in Stmts : query[s] = <<>>
               PROVE  wire = <<>> /\ stream = NoStmt
    BY DEF ConnectionFree
  <2>1. stream = NoStmt
    BY DEF IInv, TypeOK, Streaming
  <2>2. wire = <<>>
    <3> SUFFICES ASSUME wire # <<>> PROVE FALSE
      OBVIOUS
    <3>1. wire \in Seq(Stmts \X (1 .. MaxResults)) /\ Len(wire) \in Nat \ {0}
      BY DEF IInv, TypeOK
    <3>2. wire[1] \in Stmts \X (1 .. MaxResults)
      BY <3>1
    <3>3. wire[1][1] \in Stmts
      BY <3>2
    <3>4. Len(wire) < Len(query[wire[1][1]])
      BY <3>3 DEF IInv, InLine
    <3> QED BY <3>1, <3>3, <3>4
  <2> QED BY <2>1, <2>2
<1> QED BY <1>1, Invariance, PTL

(* Each statement is given all results of its query in order, although     *)
(* the connection they wait on is shared.                                  *)
THEOREM Refinement == ASSUME "pending" \notin Practices PROVE Spec => ImplementsResultQueues
<1>1. Init => Queues!Init
  <2> SUFFICES ASSUME Init PROVE Queues!Init
    OBVIOUS
  <2>1. wire \in Seq(Stmts \X (1 .. MaxResults)) /\ Len(wire) = 0
    BY DEF Init
  <2>2. ASSUME NEW s \in Stmts PROVE Waiting(wire, s) = 0
    <3>1. \A i \in 1 .. Len(wire) : wire[i][1] # s
      BY <2>1
    <3> QED BY <2>1, <3>1, WaitingNone
  <2>3. \A s \in Stmts : Current(s) = 0
    BY <2>2 DEF Init, Current
  <2> QED BY <2>3 DEF Init, Queues!Init
<1>2. Init => IInv
  BY InitIInv
<1>3. IInv /\ [Next]_vars => IInv' /\ [Queues!Next]_(Queues!vars)
  BY NextSafe
<1> QED BY <1>1, <1>2, <1>3, PTL DEF Spec, ImplementsResultQueues, Queues!Spec
=============================================================================
