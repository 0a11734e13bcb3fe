-------------------------- MODULE DataAtExecProofs --------------------------
(***************************************************************************)
(* What TLAPS proves of DataAtExec for any number of statements,           *)
(* descriptors, parameters and pieces: types whatever the application      *)
(* does, that memory is safe in the careful use and also when updates of   *)
(* the current row fail (Practices \subseteq {"fail"}), and for the         *)
(* careful use alone (Practices = {}) that what is sent is what was given. *)
(***************************************************************************)
EXTENDS DataAtExec, TLAPS, WellFoundedInduction

(* Of the statements that use one descriptor one at most collects data.    *)
Exclusive == \A s, t \in Stmts :
               s # t /\ Apd[s] = Apd[t] /\ phase[s] # "ready" => phase[t] = "ready"

(* The texts of a statement.  While it collects data for a WHERE CURRENT   *)
(* OF text, its query is one for a row, for the row it wants if no         *)
(* execution failed and left the statement such a query.                   *)
TextsOf(s) ==
  IF phase[s] = "ready"
  THEN /\ text[s] \in {"none", "plain"} => query[s] = Text(text[s]) /\ orig_query[s] = Text("none")
       /\ text[s] = "current" =>
            \/ query[s] \in {Text("current"), Text("cut")}
            \/ /\ "fail" \in Practices /\ query[s].kind = "row"
               /\ orig_query[s] = Text("current")
  ELSE \/ /\ text[s] = "plain" /\ query[s] = Text("plain")
          /\ orig_query[s] = Text("none") /\ wanted[s] = NoRow
       \/ /\ text[s] = "current" /\ query[s].kind = "row"
          /\ "fail" \notin Practices => query[s] = OfRow(wanted[s])
          /\ orig_query[s] = Text("current")

Texts == \A s \in Stmts : TextsOf(s)

(* Memory.  Each value is owned by one record, and allocated; except that  *)
(* my_pos_update has freed those of the records whose data is to come.     *)
Stale(d, i) ==
  \E s \in Stmts : /\ Apd[s] = d /\ phase[s] # "ready" /\ orig_query[s].kind # "none"
                   /\ rec[d][i].kind = "dae" /\ i > current_param[s]

Owned ==
  /\ \A d \in Descs : \A i \in Held(d) :
       /\ rec[d][i].value \in Buffers
       /\ rec[d][i].value \in live \/ Stale(d, i)
  /\ \A d, e \in Descs : \A i \in Held(d), j \in Held(e) :
       rec[d][i].value = rec[e][j].value => d = e /\ i = j
  /\ \A b \in live : \E d \in Descs, i \in Params : rec[d][i].alloced /\ rec[d][i].value = b

(* The data of a parameter: not asked for yet, asked for, or supplied.     *)
Pending(s, i) ==
  /\ given[s][i] = <<>>
  /\ rec[Apd[s]][i].alloced => /\ rec[Apd[s]][i].value \notin live
                               /\ orig_query[s].kind # "none"

Asked(s, i) ==
  /\ given[s][i] = <<>>
  /\ rec[Apd[s]][i].value = Null /\ ~rec[Apd[s]][i].alloced

Stored(s, i) ==
  /\ rec[Apd[s]][i].alloced /\ rec[Apd[s]][i].value \in live
  /\ data[rec[Apd[s]][i].value] = given[s][i]
  /\ given[s][i] \in Seq(Pieces) /\ given[s][i] # <<>>

Supplied(s, i) ==
  \/ rec[Apd[s]][i].value = Null /\ given[s][i] = <<"NULL">>
  \/ Stored(s, i)

CollectedBy(s) ==
  IF phase[s] = "ready"
  THEN given[s] = NoData
  ELSE /\ phase[s] # "need" => current_param[s] \in DataParams(Apd[s])
       /\ \A i \in DataParams(Apd[s]) :
            /\ i > current_param[s] => Pending(s, i)
            /\ i < current_param[s] => phase[s] # "need" /\ Supplied(s, i)
            /\ i = current_param[s] =>
                 /\ phase[s] # "need"
                 /\ phase[s] = "must_put" => Asked(s, i)
                 /\ phase[s] = "can_put" => Stored(s, i)
                 /\ phase[s] = "null" => Supplied(s, i)

Collected == \A s \in Stmts : CollectedBy(s)

IInv ==
  /\ TypeOK /\ ~fault /\ Exclusive /\ Texts /\ Owned /\ Collected
  /\ "fail" \notin Practices => SentAsGiven
-----------------------------------------------------------------------------
LEMMA LeastNumber ==
  ASSUME NEW T \in SUBSET Nat, T # {}
  PROVE  \E x \in T : \A y \in T : x <= y
<1> DEFINE R == OpToRel(<, Nat)
<1>1. \A x, y \in Nat : <<y, x>> \in R <=> y < x
  BY DEF OpToRel
<1>2. IsWellFoundedOn(R, Nat)
  BY NatLessThanWellFounded
<1> HIDE DEF R
<1>3. PICK x \in T : \A y \in T : <<y, x>> \notin R
  BY <1>2, WFMin
<1>4. \A y \in T : x <= y
  <2> TAKE y \in T
  <2>1. x \in Nat /\ y \in Nat /\ ~(y < x)
    BY <1>1, <1>3
  <2> QED BY <2>1
<1> QED BY <1>4

LEMMA FirstOfType ==
  ASSUME NEW S \in SUBSET Params, S # {}
  PROVE  FirstOf(S) \in S /\ \A j \in S : FirstOf(S) <= j
<1>1. S \in SUBSET Nat
  BY DataAtExecAssumption DEF Params
<1>2. \E i \in S : \A j \in S : i <= j
  BY <1>1, LeastNumber
<1> QED BY <1>2 DEF FirstOf

-----------------------------------------------------------------------------
(* Types, component by component. *)
MemType  == rec \in [Descs -> [Params -> Record]] /\ live \subseteq Buffers
            /\ data \in [Buffers -> Value] /\ fault \in BOOLEAN
TextType == text \in [Stmts -> {"none", "plain", "current"}]
            /\ query \in [Stmts -> Queries] /\ orig_query \in [Stmts -> Queries]
DaeType  == /\ phase \in [Stmts -> {"ready", "need", "must_put", "can_put", "null"}]
            /\ dae_type \in [Stmts -> BOOLEAN]
            /\ current_param \in [Stmts -> 0 .. NumParams]
            /\ given \in [Stmts -> [Params -> Value]]
            /\ wanted \in [Stmts -> Rows \cup {NoRow}]
            /\ \A s \in Stmts :
                 /\ (phase[s] # "ready") <=> dae_type[s]
                 /\ phase[s] \in {"must_put", "can_put", "null"} => current_param[s] > 0

LEMMA Types == TypeOK <=> MemType /\ TextType /\ DaeType /\ row \in Rows
BY DEF TypeOK, MemType, TextType, DaeType

LEMMA TypesNext ==
  ASSUME MemType', TextType', DaeType', row' \in Rows PROVE TypeOK'
BY DEF TypeOK, MemType, TextType, DaeType

LEMMA RecordTypes ==
  ASSUME NEW r \in Record
  PROVE  /\ r.kind \in {"unbound", "bound", "dae"} /\ r.value \in Buffers \cup {Null}
         /\ r.alloced \in BOOLEAN
         /\ Emptied(r) \in Record
         /\ [r EXCEPT !.alloced = FALSE] \in Record
         /\ \A k \in {"unbound", "bound", "dae"} : [r EXCEPT !.kind = k] \in Record
         /\ [[r EXCEPT !.alloced = FALSE] EXCEPT !.kind = "unbound"] \in Record
         /\ \A b \in Buffers : [r EXCEPT !.value = b, !.alloced = TRUE] \in Record
BY DEF Record, Emptied

\* One record is replaced, or all of a descriptor.
LEMMA OneRecord ==
  ASSUME MemType, NEW d \in Descs, NEW i \in Params, NEW r \in Record,
         rec' = [rec EXCEPT ![d][i] = r]
  PROVE  /\ rec' \in [Descs -> [Params -> Record]]
         /\ rec'[d][i] = r
         /\ \A e \in Descs, j \in Params : e # d \/ j # i => rec'[e][j] = rec[e][j]
BY DEF MemType

LEMMA AllRecords ==
  ASSUME MemType, NEW d \in Descs, NEW f \in [Params -> Record], rec' = [rec EXCEPT ![d] = f]
  PROVE  /\ rec' \in [Descs -> [Params -> Record]]
         /\ rec'[d] = f
         /\ \A e \in Descs \ {d} : rec'[e] = rec[e]
BY DEF MemType

LEMMA DisownedType ==
  ASSUME MemType, NEW d \in Descs
  PROVE  /\ Disowned(d) \in [Params -> Record]
         /\ [i \in Params |-> [Disowned(d)[i] EXCEPT !.kind = "unbound"]] \in [Params -> Record]
<1>0. \A i \in Params : [rec[d][i] EXCEPT !.alloced = FALSE] \in Record
  <2> TAKE i \in Params
  <2>1. rec[d][i] \in Record
    BY DEF MemType
  <2> QED BY <2>1, RecordTypes
<1>1. \A i \in Params : Disowned(d)[i] \in Record
  BY <1>0 DEF Disowned
<1>2. \A i \in Params : [Disowned(d)[i] EXCEPT !.kind = "unbound"] \in Record
  <2> TAKE i \in Params
  <2> QED BY <1>1, RecordTypes
<1>3. Disowned(d) \in [Params -> Record]
  BY <1>0 DEF Disowned
<1> QED BY <1>2, <1>3

LEMMA EmptyValue == <<>> \in Value /\ NoData \in [Params -> Value]
BY DEF Value, NoData

LEMMA FreeingTypes ==
  ASSUME MemType, NEW d \in Descs, Freeing(d),
         rec' \in [Descs -> [Params -> Record]]
  PROVE  MemType'
<1>1. data' \in [Buffers -> Value]
  BY EmptyValue DEF Freeing, MemType
<1> QED BY <1>1 DEF Freeing, MemType, FreeFails

LEMMA FreeParamDataTypes ==
  ASSUME MemType, NEW d \in Descs, FreeParamData(d) PROVE MemType'
<1>1. rec' \in [Descs -> [Params -> Record]]
  BY DisownedType, AllRecords DEF FreeParamData
<1> QED BY <1>1, FreeingTypes DEF FreeParamData

LEMMA DoneTypes ==
  ASSUME DaeType, NEW s \in Stmts, Done(s) PROVE DaeType'
BY EmptyValue DEF DaeType, Done

LEMMA CollectDataTypes ==
  ASSUME DaeType, row \in Rows, NEW s \in Stmts, NEW n \in 0 .. NumParams, CollectData(s, n)
  PROVE  DaeType'
BY DEF DaeType, CollectData, Wants

LEMMA QueryTypes ==
  /\ \A k \in Kinds : Text(k) \in Queries
  /\ \A r \in Rows : OfRow(r) \in Queries
  /\ \A q \in Queries : Copied(q) \in Queries
BY DEF Queries, Text, OfRow, Copied, Kinds

LEMMA RestoreTypes ==
  ASSUME TextType, NEW s \in Stmts, Restore(s) PROVE TextType'
<1>1. Restored(s).query \in Queries /\ Restored(s).orig_query \in Queries
  BY QueryTypes DEF Restored, TextType, Kinds
<1> QED BY <1>1 DEF Restore, TextType

LEMMA ApdType == \A s \in Stmts : Apd[s] \in Descs
BY DataAtExecAssumption

LEMMA BindingTypes ==
  ASSUME TypeOK, NEW s \in Stmts, Binding(s) PROVE TypeOK'
<1>0. MemType /\ TextType /\ DaeType /\ row \in Rows
  BY Types
<1> USE ApdType, TypesNext, <1>0
<1>1. ASSUME NEW kind \in {"plain", "current"}, Prepare(s, kind) PROVE TypeOK'
  <2>1. TextType'
    BY <1>1, QueryTypes DEF Prepare, TextType, Kinds
  <2>2. DaeType'
    <3>1. 0 \in 0 .. NumParams /\ phase[s] = "ready"
      BY <1>1, DataAtExecAssumption DEF Prepare, Ready
    <3> QED BY <1>1, <3>1 DEF Prepare, DaeType
  <2> QED BY <1>1, <2>1, <2>2 DEF Prepare, MemType
<1>2. ASSUME NEW i \in Params, NEW kind \in {"bound", "dae"}, BindParameter(s, i, kind)
      PROVE  TypeOK'
  <2>1. rec' \in [Descs -> [Params -> Record]]
    BY <1>2 DEF BindParameter, MemType, Record
  <2>2. data' \in [Buffers -> Value]
    BY <1>2, EmptyValue DEF BindParameter, MemType
  <2>3. MemType'
    BY <1>2, <2>1, <2>2 DEF BindParameter, MemType, Record
  <2> QED BY <1>2, <2>3 DEF BindParameter, TextType, DaeType
<1>3. ASSUME NEW i \in Params, SetIndicator(s, i) PROVE TypeOK'
  <2>1. MemType'
    <3> DEFINE r == rec[Apd[s]][i]
               k == IF r.kind = "dae" THEN "bound" ELSE "dae"
    <3>1. rec' = [rec EXCEPT ![Apd[s]][i] = [r EXCEPT !.kind = k]]
      BY <1>3 DEF SetIndicator, MemType
    <3>2. [r EXCEPT !.kind = k] \in Record
      <4>1. r \in Record /\ k \in {"unbound", "bound", "dae"}
        BY DEF MemType
      <4> HIDE DEF r, k
      <4> QED BY <4>1, RecordTypes
    <3> HIDE DEF r, k
    <3>3. rec' \in [Descs -> [Params -> Record]]
      BY <3>1, <3>2, OneRecord
    <3> QED BY <1>3, <3>3 DEF SetIndicator, MemType
  <2> QED BY <1>3, <2>1 DEF SetIndicator, TextType, DaeType
<1> QED BY <1>1, <1>2, <1>3 DEF Binding

LEMMA ExecutingTypes ==
  ASSUME TypeOK, NEW s \in Stmts, Executing(s) PROVE TypeOK'
<1>0. MemType /\ TextType /\ DaeType /\ row \in Rows
  BY Types
<1> USE ApdType, TypesNext, <1>0
<1>1. CASE Execute(s)
  <2>1. MemType'
    BY <1>1, FreeParamDataTypes DEF Execute
  <2>2. DaeType'
    <3>1. ASSUME NeedsData(Apd[s]) PROVE FirstOf(DataParams(Apd[s])) - 1 \in 0 .. NumParams
      <4>1. DataParams(Apd[s]) \in SUBSET Params /\ DataParams(Apd[s]) # {}
        BY <3>1 DEF NeedsData, DataParams
      <4>2. FirstOf(DataParams(Apd[s])) \in 1 .. NumParams
        BY <4>1, FirstOfType DEF Params
      <4> QED BY <4>2, DataAtExecAssumption
    <3> QED BY <1>1, <3>1, CollectDataTypes, DoneTypes DEF Execute
  <2>3. TextType'
    BY <1>1, RestoreTypes DEF Execute, textVars, TextType
  <2> QED BY <1>1, <2>1, <2>2, <2>3 DEF Execute
<1>2. CASE UpdateCurrent(s)
  <2>1. MemType'
    BY <1>2, FreeingTypes DEF UpdateCurrent, MemType
  <2>2. DaeType'
    BY <1>2, CollectDataTypes, DataAtExecAssumption DEF UpdateCurrent, daeVars, DaeType
  <2>3. TextType'
    BY <1>2, QueryTypes DEF UpdateCurrent, TextType, Kinds
  <2> QED BY <1>2, <2>1, <2>2, <2>3 DEF UpdateCurrent
<1>3. ASSUME NEW cut \in BOOLEAN, ExecuteInVain(s, cut) PROVE TypeOK'
  <2>1. TextType'
    BY <1>3, QueryTypes DEF ExecuteInVain, TextType, Kinds
  <2> QED BY <1>3, <2>1 DEF ExecuteInVain, MemType, DaeType
<1> QED BY <1>1, <1>2, <1>3 DEF Executing

LEMMA CollectingTypes ==
  ASSUME TypeOK, NEW s \in Stmts, Collecting(s) PROVE TypeOK'
<1>0. MemType /\ TextType /\ DaeType /\ row \in Rows
  BY Types
<1> USE ApdType, TypesNext, <1>0
<1>1. CASE NextParam(s)
  <2> DEFINE i == FirstOf(ToVisit(s))
  <2>1. i \in Params /\ i > current_param[s] /\ i \in 0 .. NumParams
    <3>1. ToVisit(s) \in SUBSET Params /\ ToVisit(s) # {}
      BY <1>1 DEF NextParam, ToVisit, DataParams
    <3>2. i \in ToVisit(s)
      BY <3>1, FirstOfType
    <3> HIDE DEF i
    <3> QED BY <3>2, DataAtExecAssumption DEF ToVisit, DataParams, Params
  <2>2. MemType'
    <3>1. rec' = [rec EXCEPT ![Apd[s]][i] = Emptied(rec[Apd[s]][i])]
      BY <1>1 DEF NextParam, MemType
    <3> HIDE DEF i
    <3>3. rec[Apd[s]][i] \in Record
      BY <2>1 DEF MemType
    <3>2. Emptied(rec[Apd[s]][i]) \in Record
      BY <3>3, RecordTypes
    <3>4. rec' \in [Descs -> [Params -> Record]]
      BY <2>1, <3>1, <3>2, OneRecord
    <3> QED BY <1>1, <3>4 DEF NextParam, MemType
  <2>3. DaeType'
    <3>1. current_param' = [current_param EXCEPT ![s] = i] /\ i > 0
      BY <1>1, <2>1 DEF NextParam, Visited, DaeType
    <3>2. dae_type[s]
      BY <1>1 DEF NextParam, DaeType
    <3> HIDE DEF i
    <3> QED BY <1>1, <2>1, <3>1, <3>2 DEF NextParam, DaeType
  <2> QED BY <1>1, <2>2, <2>3 DEF NextParam, TextType
<1>2. CASE ExecuteDae(s)
  <2>1. TextType'
    BY <1>2, RestoreTypes DEF ExecuteDae, textVars, TextType
  <2> QED BY <1>2, <2>1, DoneTypes DEF ExecuteDae, MemType, UsesFreed
<1>3. CASE PutNull(s)
  <2>1. current_param[s] \in Params /\ dae_type[s]
    BY <1>3, DataAtExecAssumption DEF PutNull, DaeType, Params
  <2>2. MemType'
    <3>1. rec' = [rec EXCEPT ![Apd[s]][current_param[s]] = Emptied(rec[Apd[s]][current_param[s]])]
      BY <1>3 DEF PutNull, MemType
    <3>2. rec[Apd[s]][current_param[s]] \in Record
      BY <2>1 DEF MemType
    <3>3. Emptied(rec[Apd[s]][current_param[s]]) \in Record
      BY <3>2, RecordTypes
    <3>4. rec' \in [Descs -> [Params -> Record]]
      BY <2>1, <3>1, <3>3, OneRecord
    <3>5. live' \subseteq Buffers /\ data' = data /\ fault' \in BOOLEAN
      BY <1>3, <3>2, RecordTypes DEF PutNull, MemType
    <3> QED BY <3>4, <3>5 DEF MemType
  <2>3. <<"NULL">> \in Value
    BY DEF Value
  <2>4. DaeType'
    BY <1>3, <2>1, <2>3 DEF PutNull, DaeType
  <2> QED BY <1>3, <2>2, <2>4 DEF PutNull, TextType
<1>4. ASSUME NEW piece \in Pieces, PutData(s, piece) PROVE TypeOK'
  <2> DEFINE i == current_param[s]
  <2>1. i \in Params /\ dae_type[s]
    <3>1. /\ phase[s] # "ready" /\ current_param[s] > 0
          /\ current_param[s] \in 0 .. NumParams
      BY <1>4 DEF PutData, DaeType
    <3> QED BY <3>1, DataAtExecAssumption DEF DaeType, Params
  <2>2. \A v \in Value : Append(v, piece) \in Value
    BY DEF Value
  <2>3. <<piece>> \in Value
    BY DEF Value
  <2>4. MemType'
    <3> DEFINE r == rec[Apd[s]][i]
    <3>0. r \in Record
      BY <2>1 DEF MemType
    <3>1. CASE r.value # Null
      <4>1. /\ rec' = rec /\ live' = live /\ fault' = (~r.alloced \/ r.value \notin live)
            /\ data' = IF r.value \in live THEN [data EXCEPT ![r.value] = Append(@, piece)]
                       ELSE data
        BY <1>4, <3>1 DEF PutData
      <4>2. data' \in [Buffers -> Value]
        BY <2>2, <4>1 DEF MemType
      <4> QED BY <4>1, <4>2 DEF MemType
    <3>2. CASE r.value = Null
      <4>1. PICK b \in Buffers :
              /\ live' = live \cup {b} /\ data' = [data EXCEPT ![b] = <<piece>>]
              /\ rec' = [rec EXCEPT ![Apd[s]][i] = [r EXCEPT !.value = b, !.alloced = TRUE]]
              /\ fault' = fault
        BY <1>4, <3>2 DEF PutData, MemType
      <4>2. [r EXCEPT !.value = b, !.alloced = TRUE] \in Record
        BY <3>0, RecordTypes
      <4>3. rec' \in [Descs -> [Params -> Record]]
        BY <2>1, <4>1, <4>2, OneRecord
      <4> QED BY <2>3, <4>1, <4>3 DEF MemType
    <3> QED BY <3>1, <3>2
  <2>5. DaeType'
    <3>1. Append(given[s][i], piece) \in Value
      BY <2>1, <2>2 DEF DaeType
    <3>2. given' = [given EXCEPT ![s][i] = Append(given[s][i], piece)]
      BY <1>4, <2>1 DEF PutData, DaeType
    <3>3. given' \in [Stmts -> [Params -> Value]]
      BY <2>1, <3>1, <3>2 DEF DaeType
    <3>4. /\ phase' = [phase EXCEPT ![s] = "can_put"] /\ phase[s] # "ready"
          /\ UNCHANGED <<dae_type, current_param, wanted>>
      BY <1>4 DEF PutData
    <3> QED BY <2>1, <3>3, <3>4, DataAtExecAssumption DEF DaeType, Params
  <2> QED BY <1>4, <2>4, <2>5 DEF PutData, TextType
<1> QED BY <1>1, <1>2, <1>3, <1>4 DEF Collecting

LEMMA EndingTypes ==
  ASSUME TypeOK, NEW s \in Stmts, Close(s) \/ ResetParams(s) \/ Drop(s) PROVE TypeOK'
<1>0. MemType /\ TextType /\ DaeType /\ row \in Rows
  BY Types
<1> USE ApdType, TypesNext, <1>0
<1>1. CASE Close(s)
  BY <1>1, FreeParamDataTypes, DoneTypes DEF Close, TextType
<1>2. CASE ResetParams(s)
  <2>1. rec' \in [Descs -> [Params -> Record]]
    BY <1>2, DisownedType, AllRecords DEF ResetParams
  <2> QED BY <1>2, <2>1, FreeingTypes, DoneTypes DEF ResetParams, TextType
<1>3. CASE Drop(s)
  <2>1. TextType'
    BY <1>3, QueryTypes DEF Drop, TextType, Kinds
  <2> QED BY <1>3, <2>1, FreeParamDataTypes, DoneTypes DEF Drop
<1> QED BY <1>1, <1>2, <1>3

LEMMA InitTypes == Init => TypeOK
<1> SUFFICES ASSUME Init PROVE TypeOK
  OBVIOUS
<1>1. MemType
  BY EmptyValue DEF Init, MemType, Record
<1>2. TextType
  BY QueryTypes DEF Init, TextType, Kinds
<1>3. DaeType
  BY EmptyValue, DataAtExecAssumption DEF Init, DaeType
<1> QED BY <1>1, <1>2, <1>3, Types DEF Init

LEMMA NextTypes == TypeOK /\ [Next]_vars => TypeOK'
<1> SUFFICES ASSUME TypeOK, [Next]_vars PROVE TypeOK'
  OBVIOUS
<1>1. CASE MoveCursor \/ UNCHANGED vars
  BY <1>1, Types, TypesNext DEF MoveCursor, vars, MemType, TextType, DaeType
<1> QED BY <1>1, BindingTypes, ExecutingTypes, CollectingTypes, EndingTypes DEF Next

(* Every variable keeps its type under all practices, and current_param    *)
(* names a parameter whenever SQLPutData may be called.                    *)
THEOREM TypeCorrect == Spec => []TypeOK
<1> QED BY InitTypes, NextTypes, PTL DEF Spec

-----------------------------------------------------------------------------
(***************************************************************************)
(* The careful use.  A step concerns one statement s and its descriptor;   *)
(* no other statement collects data in that descriptor, and the memory of  *)
(* other descriptors is not touched.                                       *)
(***************************************************************************)
Same(t) ==
  /\ phase'[t] = phase[t] /\ current_param'[t] = current_param[t]
  /\ given'[t] = given[t] /\ wanted'[t] = wanted[t]
  /\ text'[t] = text[t] /\ query'[t] = query[t] /\ orig_query'[t] = orig_query[t]

OthersSame(s) == \A t \in Stmts \ {s} : Same(t)

OthersReady(s) == \A t \in Stmts \ {s} : Apd[t] = Apd[s] => phase[t] = "ready"

Untouched(d) ==
  \A e \in Descs \ {d} :
     /\ rec'[e] = rec[e]
     /\ \A i \in Held(e) : /\ rec[e][i].value \in live' <=> rec[e][i].value \in live
                           /\ data'[rec[e][i].value] = data[rec[e][i].value]

LEMMA OnlyOne ==
  ASSUME IInv, Practices \subseteq {"fail"}, NEW s \in Stmts, Alone(s) \/ phase[s] # "ready"
  PROVE  OthersReady(s)
BY DEF IInv, Exclusive, Alone, OthersReady

\* If nobody collects data in a descriptor all its values are allocated.
LEMMA AllLive ==
  ASSUME IInv, NEW s \in Stmts, OthersReady(s),
         phase[s] = "ready" \/ orig_query[s].kind = "none"
  PROVE  /\ \A i \in Held(Apd[s]) : rec[Apd[s]][i].value \in live
         /\ ~FreeFails(Apd[s])
<1>1. \A i \in Params : ~Stale(Apd[s], i)
  BY DEF Stale, OthersReady
<1>2. Apd[s] \in Descs
  BY ApdType
<1>3. \A i \in Held(Apd[s]) : rec[Apd[s]][i].value \in live
  BY <1>1, <1>2 DEF IInv, Owned, Held
<1> QED BY <1>2, <1>3 DEF IInv, Owned, FreeFails, HeldBuffers

\* Values of different records are different, in use or not.
LEMMA Distinct ==
  ASSUME IInv, NEW d \in Descs, NEW e \in Descs, NEW i \in Held(d), NEW j \in Held(e),
         rec[d][i].value = rec[e][j].value
  PROVE  d = e /\ i = j
BY DEF IInv, Owned

LEMMA FreeingUntouched ==
  ASSUME IInv, NEW d \in Descs, Freeing(d), \A e \in Descs \ {d} : rec'[e] = rec[e]
  PROVE  Untouched(d)
<1> SUFFICES ASSUME NEW e \in Descs \ {d}, NEW i \in Held(e)
             PROVE  /\ rec[e][i].value \in live' <=> rec[e][i].value \in live
                    /\ data'[rec[e][i].value] = data[rec[e][i].value]
  BY DEF Untouched
<1>1. rec[e][i].value \notin HeldBuffers(d) /\ rec[e][i].value \in Buffers
  BY Distinct DEF HeldBuffers, IInv, Owned
<1> QED BY <1>1 DEF Freeing

(* The invariant after a step, part by part. *)
LEMMA TextsAfter ==
  ASSUME IInv, NEW s \in Stmts, OthersSame(s), OthersReady(s), TextsOf(s)'
  PROVE  Exclusive' /\ Texts'
<1>1. Exclusive'
  BY DEF IInv, Exclusive, OthersSame, OthersReady, Same
<1>2. ASSUME NEW t \in Stmts \ {s} PROVE TextsOf(t)'
  BY DEF IInv, Texts, TextsOf, OthersSame, Same
<1> QED BY <1>1, <1>2 DEF Texts

LEMMA CollectedAfter ==
  ASSUME IInv, NEW s \in Stmts, OthersSame(s), OthersReady(s), Untouched(Apd[s]), CollectedBy(s)'
  PROVE  Collected'
<1>1. ASSUME NEW t \in Stmts \ {s} PROVE CollectedBy(t)'
  <2>0. Same(t) /\ CollectedBy(t) /\ Apd[t] \in Descs
    BY ApdType DEF OthersSame, IInv, Collected
  <2>1. CASE phase[t] = "ready"
    BY <2>0, <2>1 DEF CollectedBy, Same
  <2>2. CASE phase[t] # "ready"
    <3>1. Apd[t] \in Descs \ {Apd[s]}
      BY <2>0, <2>2 DEF OthersReady
    <3>2. rec'[Apd[t]] = rec[Apd[t]]
      BY <3>1 DEF Untouched
    <3>3. \A i \in Params : rec[Apd[t]][i].alloced =>
             /\ rec[Apd[t]][i].value \in live' <=> rec[Apd[t]][i].value \in live
             /\ data'[rec[Apd[t]][i].value] = data[rec[Apd[t]][i].value]
      BY <3>1 DEF Untouched, Held
    <3>4. \A i \in Params : /\ Pending(t, i) => Pending(t, i)'
                            /\ Asked(t, i) => Asked(t, i)'
                            /\ Stored(t, i) => Stored(t, i)'
      BY <2>0, <3>2, <3>3 DEF Pending, Asked, Stored, Same
    <3>5. \A i \in Params : Supplied(t, i) => Supplied(t, i)'
      BY <2>0, <3>2, <3>4 DEF Supplied, Same
    <3>6. DataParams(Apd[t])' = DataParams(Apd[t]) /\ DataParams(Apd[t]) \subseteq Params
      BY <3>2 DEF DataParams
    <3> QED BY <2>0, <2>2, <3>4, <3>5, <3>6 DEF CollectedBy, Same
  <2> QED BY <2>1, <2>2
<1> QED BY <1>1 DEF Collected

\* Stale values of another descriptor.
LEMMA StaleElsewhere ==
  ASSUME IInv, NEW s \in Stmts, OthersSame(s), NEW e \in Descs \ {Apd[s]}, rec'[e] = rec[e],
         NEW i \in Params, Stale(e, i)
  PROVE  Stale(e, i)'
<1>1. PICK t \in Stmts : /\ Apd[t] = e /\ phase[t] # "ready" /\ orig_query[t].kind # "none"
                         /\ rec[e][i].kind = "dae" /\ i > current_param[t]
  BY DEF Stale
<1>2. t # s /\ Same(t)
  BY <1>1 DEF OthersSame
<1> QED BY <1>1, <1>2 DEF Stale, Same

\* A step that allocates nothing.
LEMMA OwnedAfter ==
  ASSUME IInv, NEW s \in Stmts, OthersSame(s), Untouched(Apd[s]),
         \A i \in Params : rec'[Apd[s]][i].alloced =>
            /\ rec[Apd[s]][i].alloced
            /\ rec'[Apd[s]][i].value = rec[Apd[s]][i].value
            /\ rec'[Apd[s]][i].value \in live' \/ Stale(Apd[s], i)',
         \A i \in Held(Apd[s]) : rec[Apd[s]][i].value \in live' => rec'[Apd[s]][i].alloced,
         live' \subseteq live
  PROVE  Owned'
<1> DEFINE d == Apd[s]
<1>0. d \in Descs
  BY ApdType
<1>1. ASSUME NEW e \in Descs \ {d} PROVE Held(e)' = Held(e) /\ rec'[e] = rec[e]
  BY DEF Untouched, Held
<1>2. Held(d)' \subseteq Held(d) /\ \A i \in Held(d)' : rec'[d][i].value = rec[d][i].value
  BY DEF Held
<1>3. \A e \in Descs : Held(e)' \subseteq Held(e)
                       /\ \A i \in Held(e)' : rec'[e][i].value = rec[e][i].value
  BY <1>1, <1>2
<1>4. \A e, f \in Descs : \A i \in Held(e)', j \in Held(f)' :
         rec'[e][i].value = rec'[f][j].value => e = f /\ i = j
  BY <1>3, Distinct
<1>5. \A e \in Descs : \A i \in Held(e)' :
         /\ rec'[e][i].value \in Buffers
         /\ rec'[e][i].value \in live' \/ Stale(e, i)'
  <2> SUFFICES ASSUME NEW e \in Descs, NEW i \in Held(e)'
               PROVE  /\ rec'[e][i].value \in Buffers
                      /\ rec'[e][i].value \in live' \/ Stale(e, i)'
    OBVIOUS
  <2>1. i \in Held(e) /\ rec'[e][i].value = rec[e][i].value /\ i \in Params
    BY <1>3 DEF Held
  <2>2. rec[e][i].value \in Buffers /\ (rec[e][i].value \in live \/ Stale(e, i))
    BY <2>1 DEF IInv, Owned
  <2>3. CASE e = d
    BY <2>1, <2>2, <2>3 DEF Held
  <2>4. CASE e # d
    BY <1>1, <2>1, <2>2, <2>4, StaleElsewhere DEF Untouched
  <2> QED BY <2>3, <2>4
<1>6. \A b \in live' : \E e \in Descs, i \in Params : rec'[e][i].alloced /\ rec'[e][i].value = b
  <2> SUFFICES ASSUME NEW b \in live'
               PROVE  \E e \in Descs, i \in Params : rec'[e][i].alloced /\ rec'[e][i].value = b
    OBVIOUS
  <2>1. PICK e \in Descs, i \in Params : rec[e][i].alloced /\ rec[e][i].value = b
    BY DEF IInv, Owned
  <2>2. CASE e = d
    <3>1. rec'[d][i].alloced
      BY <2>1, <2>2 DEF Held
    <3> QED BY <1>0, <1>2, <2>1, <2>2, <3>1 DEF Held
  <2>3. CASE e # d
    BY <1>1, <2>1, <2>3
  <2> QED BY <2>2, <2>3
<1> QED BY <1>4, <1>5, <1>6 DEF Owned

(* The values of a descriptor are freed, and its records give them up.     *)
LEMMA FreedAll ==
  ASSUME IInv, NEW s \in Stmts, OthersSame(s), Freeing(Apd[s]),
         \A e \in Descs \ {Apd[s]} : rec'[e] = rec[e],
         \A i \in Params : ~rec'[Apd[s]][i].alloced
  PROVE  Untouched(Apd[s]) /\ Owned'
<1> DEFINE d == Apd[s]
<1>1. Untouched(d)
  BY ApdType, FreeingUntouched
<1>2. \A i \in Held(d) : rec[d][i].value \notin live'
  BY DEF Freeing, HeldBuffers
<1>3. live' \subseteq live
  BY DEF Freeing
<1> QED BY <1>1, <1>2, <1>3, OwnedAfter

\* Memory is left as it is, while the descriptor has no stale value.
LEMMA MemoryKept ==
  ASSUME IInv, NEW s \in Stmts, OthersSame(s), UNCHANGED <<rec, live, data>>,
         \A i \in Held(Apd[s]) : rec[Apd[s]][i].value \in live
  PROVE  Untouched(Apd[s]) /\ Owned'
<1>1. Untouched(Apd[s])
  BY DEF Untouched
<1> QED BY <1>1, OwnedAfter DEF Held

LEMMA StepAfter ==
  ASSUME IInv, TypeOK', NEW s \in Stmts, OthersSame(s), OthersReady(s), Untouched(Apd[s]),
         TextsOf(s)', CollectedBy(s)', Owned', ~fault', "fail" \notin Practices => SentAsGiven'
  PROVE  IInv'
<1>1. Exclusive' /\ Texts'
  BY TextsAfter
<1>2. Collected'
  BY CollectedAfter
<1> QED BY <1>1, <1>2 DEF IInv

LEMMA NothingSent == ASSUME sent' = {} PROVE SentAsGiven'
BY DEF SentAsGiven

LEMMA InvTypes == IInv => TypeOK /\ MemType /\ TextType /\ DaeType /\ row \in Rows
BY Types DEF IInv

LEMMA RecordsFreed ==
  ASSUME MemType, NEW d \in Descs, FreeParamData(d)
  PROVE  /\ \A e \in Descs \ {d} : rec'[e] = rec[e]
         /\ \A i \in Params : ~rec'[d][i].alloced /\ rec'[d][i].kind = rec[d][i].kind
<1>1. rec' = [rec EXCEPT ![d] = Disowned(d)]
  BY DEF FreeParamData
<1>2. ASSUME NEW i \in Params
      PROVE  ~Disowned(d)[i].alloced /\ Disowned(d)[i].kind = rec[d][i].kind
  <2>1. rec[d][i] \in Record
    BY DEF MemType
  <2> QED BY <2>1 DEF Disowned, Record
<1> QED BY <1>1, <1>2, DisownedType, AllRecords

-----------------------------------------------------------------------------
(* Preparing and binding. *)
LEMMA BindingInv ==
  ASSUME IInv, TypeOK', ~fault, Practices \subseteq {"fail"}, NEW s \in Stmts, Binding(s) PROVE IInv'
<1> DEFINE d == Apd[s]
<1>0. TypeOK /\ MemType /\ TextType /\ DaeType /\ d \in Descs
  BY InvTypes, ApdType
<1>a. Ready(s) /\ sent' = {}
  BY DEF Binding, Prepare, BindParameter, SetIndicator
<1>b. phase[s] = "ready" /\ OthersReady(s) /\ SentAsGiven'
  BY <1>a, OnlyOne, NothingSent DEF Ready
<1>c. TextsOf(s) /\ CollectedBy(s)
  BY DEF IInv, Texts, Collected
<1>d. \A i \in Held(d) : rec[d][i].value \in live
  BY <1>b, AllLive
<1> HIDE DEF d
<1>1. ASSUME NEW kind \in {"plain", "current"}, Prepare(s, kind) PROVE IInv'
  <2>1. OthersSame(s)
    BY <1>1, <1>0 DEF Prepare, OthersSame, Same, TextType, DaeType
  <2>2. TextsOf(s)'
    BY <1>1, <1>0, <1>b DEF Prepare, TextsOf, TextType
  <2>3. CollectedBy(s)'
    BY <1>1, <1>b, <1>c DEF Prepare, CollectedBy
  <2>4. Untouched(Apd[s]) /\ Owned'
    BY <1>1, <1>d, <2>1, MemoryKept DEF Prepare, d
  <2> QED BY <1>1, <1>b, <2>1, <2>2, <2>3, <2>4, StepAfter DEF Prepare, IInv
<1>2. ASSUME NEW i \in Params, NEW kind \in {"bound", "dae"}, BindParameter(s, i, kind)
      PROVE  IInv'
  <2> DEFINE r == [kind |-> kind, value |-> Null, alloced |-> FALSE]
  <2>1. /\ OthersSame(s) /\ TextsOf(s)' /\ CollectedBy(s)'
    BY <1>2, <1>b, <1>c DEF BindParameter, OthersSame, Same, TextsOf, CollectedBy
  <2>2. rec' = [rec EXCEPT ![d][i] = r] /\ r \in Record
    BY <1>2 DEF BindParameter, Record, d
  <2>3. /\ rec'[d][i] = r
        /\ \A e \in Descs, j \in Params : e # d \/ j # i => rec'[e][j] = rec[e][j]
        /\ rec' \in [Descs -> [Params -> Record]]
    <3> HIDE DEF r
    <3> QED BY <1>0, <2>2, OneRecord, ZenonT(60)
  <2>4. \A e \in Descs \ {d} : rec'[e] = rec[e]
    BY <1>0, <2>2 DEF MemType
  <2>5. /\ live' = IF rec[d][i].alloced THEN live \ {rec[d][i].value} ELSE live
        /\ data' = IF rec[d][i].alloced THEN [data EXCEPT ![rec[d][i].value] = <<>>] ELSE data
        /\ fault' = (rec[d][i].alloced /\ rec[d][i].value \notin live)
    BY <1>2 DEF BindParameter, d
  <2>6. ASSUME NEW e \in Descs, NEW j \in Held(e), e # d \/ j # i, i \in Held(d)
        PROVE  rec[e][j].value # rec[d][i].value
    BY <1>0, <2>6, Distinct
  <2>7. Untouched(d)
    <3> SUFFICES ASSUME NEW e \in Descs \ {d}, NEW j \in Held(e)
                 PROVE  /\ rec[e][j].value \in live' <=> rec[e][j].value \in live
                        /\ data'[rec[e][j].value] = data[rec[e][j].value]
      BY <2>4 DEF Untouched
    <3>1. rec[e][j].value \in Buffers
      BY DEF IInv, Owned
    <3> QED BY <1>0, <2>5, <2>6, <3>1 DEF Held, MemType
  <2>8. \A j \in Params : rec'[d][j].alloced =>
          /\ rec[d][j].alloced /\ rec'[d][j].value = rec[d][j].value
          /\ rec'[d][j].value \in live'
    <3> SUFFICES ASSUME NEW j \in Params, rec'[d][j].alloced
                 PROVE  /\ rec[d][j].alloced /\ rec'[d][j].value = rec[d][j].value
                        /\ rec'[d][j].value \in live'
      OBVIOUS
    <3>1. j # i /\ rec'[d][j] = rec[d][j]
      BY <1>0, <2>3
    <3>2. j \in Held(d)
      BY <3>1 DEF Held
    <3> QED BY <1>0, <1>d, <2>5, <2>6, <3>1, <3>2 DEF Held
  <2>9. \A j \in Held(d) : rec[d][j].value \in live' => rec'[d][j].alloced
    BY <1>0, <2>3, <2>5 DEF Held
  <2>10. Owned'
    BY <2>1, <2>5, <2>7, <2>8, <2>9, OwnedAfter DEF d
  <2>11. ~fault'
    BY <1>d, <2>5 DEF Held
  <2> QED BY <1>b, <2>1, <2>7, <2>10, <2>11, StepAfter DEF d
<1>3. ASSUME NEW i \in Params, SetIndicator(s, i) PROVE IInv'
  <2>1. /\ OthersSame(s) /\ TextsOf(s)' /\ CollectedBy(s)' /\ ~fault'
    BY <1>3, <1>b, <1>c DEF SetIndicator, OthersSame, Same, TextsOf, CollectedBy, IInv
  <2>2. PICK k \in {"bound", "dae"} : rec' = [rec EXCEPT ![d][i] = [rec[d][i] EXCEPT !.kind = k]]
    BY <1>0, <1>3 DEF SetIndicator, MemType, d
  <2>3. rec[d][i] \in Record /\ [rec[d][i] EXCEPT !.kind = k] \in Record
    <3>1. rec[d][i] \in Record
      BY <1>0 DEF MemType
    <3> QED BY <3>1, RecordTypes
  <2>4. /\ rec'[d][i] = [rec[d][i] EXCEPT !.kind = k]
        /\ \A e \in Descs, j \in Params : e # d \/ j # i => rec'[e][j] = rec[e][j]
    <3> DEFINE r == [rec[d][i] EXCEPT !.kind = k]
    <3>1. r \in Record /\ rec' = [rec EXCEPT ![d][i] = r]
      BY <2>2, <2>3
    <3> HIDE DEF r
    <3>2. /\ rec'[d][i] = r
          /\ \A e \in Descs, j \in Params : e # d \/ j # i => rec'[e][j] = rec[e][j]
      BY <1>0, <3>1, OneRecord, ZenonT(60)
    <3> QED BY <3>2 DEF r
  <2>5. \A j \in Params : rec'[d][j].alloced = rec[d][j].alloced /\ rec'[d][j].value = rec[d][j].value
    BY <1>0, <2>3, <2>4 DEF Record
  <2>6. Untouched(d) /\ live' = live
    BY <1>0, <1>3, <2>2 DEF SetIndicator, Untouched, MemType
  <2>7. Owned'
    BY <1>d, <2>1, <2>5, <2>6, OwnedAfter DEF d, Held
  <2> QED BY <1>b, <2>1, <2>6, <2>7, StepAfter DEF d
<1> QED BY <1>1, <1>2, <1>3 DEF Binding

-----------------------------------------------------------------------------
(* Executing. *)
LEMMA ExecutingInv ==
  ASSUME IInv, TypeOK', Practices \subseteq {"fail"}, NEW s \in Stmts, Executing(s) PROVE IInv'
<1> DEFINE d == Apd[s]
<1>0. TypeOK /\ MemType /\ TextType /\ DaeType /\ d \in Descs
  BY InvTypes, ApdType
<1>a. Ready(s)
  BY DEF Executing, Execute, UpdateCurrent, ExecuteInVain
<1>b. phase[s] = "ready" /\ OthersReady(s)
  BY <1>a, OnlyOne DEF Ready
<1>c. TextsOf(s) /\ CollectedBy(s)
  BY DEF IInv, Texts, Collected
<1>d. (\A i \in Held(d) : rec[d][i].value \in live) /\ ~FreeFails(d)
  BY <1>b, AllLive
<1>e. given[s] = NoData
  BY <1>b, <1>c DEF CollectedBy
<1>f. \A i \in Params : NoData[i] = <<>>
  BY DEF NoData
<1>g. /\ text[s] \in {"none", "plain"} => query[s] = Text(text[s]) /\ orig_query[s] = Text("none")
      /\ text[s] = "current" =>
           \/ query[s] \in {Text("current"), Text("cut")}
           \/ /\ "fail" \in Practices /\ query[s].kind = "row"
              /\ orig_query[s] = Text("current")
  BY <1>b, <1>c DEF TextsOf
<1>h. ASSUME ~NeedsData(d) PROVE Meant(s) = [i \in Params |-> <<"bound">>]
                                 /\ \A i \in Params : Inserted(d, i) = <<"bound">>
  BY <1>h DEF NeedsData, Meant, Inserted, d
<1>i. ASSUME ~NeedsData(d), NEW r \in Rows \cup {NoRow}, Sends(s, r, r) PROVE SentAsGiven'
  BY <1>h, <1>i DEF Sends, SentAsGiven, d
<1> HIDE DEF d
<1>1. CASE Execute(s)
  <2>1. FreeParamData(d) /\ query[s].kind \in {"plain", "row"}
    BY <1>1 DEF Execute, d
  <2>2. \/ /\ text[s] = "plain" /\ query[s] = Text("plain") /\ orig_query[s] = Text("none")
           /\ Wants(s) = NoRow /\ query[s].row = NoRow
        \/ /\ text[s] = "current" /\ query[s].kind = "row" /\ orig_query[s] = Text("current")
           /\ "fail" \in Practices
    BY <1>0, <1>g, <2>1 DEF Text, TextType, Wants
  <2>3. /\ \A e \in Descs \ {d} : rec'[e] = rec[e]
        /\ \A i \in Params : ~rec'[d][i].alloced /\ rec'[d][i].kind = rec[d][i].kind
    BY <1>0, <2>1, RecordsFreed
  <2>4. ASSUME OthersSame(s) PROVE Untouched(d) /\ Owned'
    BY <2>1, <2>3, <2>4, FreedAll DEF FreeParamData, d
  <2>5. ~fault'
    BY <1>d, <2>1 DEF FreeParamData, Freeing
  <2>6. CASE NeedsData(d) /\ CollectData(s, FirstOf(DataParams(d)) - 1)
             /\ sent' = {} /\ UNCHANGED textVars
    <3> DEFINE first == FirstOf(DataParams(d))
    <3>1. \A i \in DataParams(d) : first <= i
      <4>1. DataParams(d) \in SUBSET Params /\ DataParams(d) # {}
        BY <2>6 DEF NeedsData, DataParams
      <4> QED BY <4>1, FirstOfType
    <3>2. first \in Params
      <4>1. DataParams(d) \in SUBSET Params /\ DataParams(d) # {}
        BY <2>6 DEF NeedsData, DataParams
      <4> QED BY <4>1, FirstOfType
    <3>3. phase'[s] = "need" /\ current_param'[s] = first - 1 /\ wanted'[s] = Wants(s)
          /\ given' = given
      BY <1>0, <2>2, <2>6 DEF CollectData, DaeType
    <3> HIDE DEF first
    <3>4. OthersSame(s)
      BY <1>0, <2>6 DEF CollectData, textVars, OthersSame, Same, DaeType
    <3>5. TextsOf(s)'
      BY <2>2, <2>6, <3>3 DEF TextsOf, textVars
    <3>6. DataParams(d)' = DataParams(d)
      BY <2>3 DEF DataParams
    <3>7. \A i \in Params : Pending(s, i)'
      BY <1>e, <1>f, <2>3, <3>3 DEF Pending, d
    <3>8. \A i \in DataParams(d) : i > current_param'[s]
      BY <3>1, <3>2, <3>3, DataAtExecAssumption DEF DataParams, Params
    <3>9. CollectedBy(s)'
      BY <3>2, <3>3, <3>6, <3>7, <3>8, DataAtExecAssumption
         DEF CollectedBy, DataParams, d, Params
    <3> QED BY <1>b, <2>4, <2>5, <2>6, <3>4, <3>5, <3>9, NothingSent, StepAfter DEF d
  <2>7. CASE ~NeedsData(d) /\ sent' = {} /\ Done(s) /\ UNCHANGED textVars
    <3>1. OthersSame(s) /\ phase'[s] = "ready" /\ given'[s] = NoData
      BY <1>0, <2>7 DEF Done, textVars, OthersSame, Same, DaeType
    <3>2. TextsOf(s)' /\ CollectedBy(s)'
      BY <2>2, <2>7, <3>1 DEF TextsOf, CollectedBy, textVars, NoData
    <3> QED BY <1>b, <2>4, <2>5, <2>7, <3>1, <3>2, NothingSent, StepAfter DEF d
  <2>8. CASE ~NeedsData(d) /\ Sends(s, query[s].row, Wants(s)) /\ Done(s) /\ Restore(s)
    <3>1. \/ /\ query[s] = Text("plain") /\ Restored(s).query = query[s]
             /\ Restored(s).orig_query = orig_query[s]
          \/ Restored(s).query = Text("current")
      BY <2>2 DEF Restored, Text
    <3>2. /\ query'[s] = Restored(s).query /\ orig_query'[s] = Restored(s).orig_query
          /\ text' = text
      BY <1>0, <2>8 DEF Restore, TextType
    <3>3. OthersSame(s) /\ phase'[s] = "ready" /\ given'[s] = NoData
      BY <1>0, <2>8 DEF Done, Restore, OthersSame, Same, DaeType, TextType
    <3>4. TextsOf(s)'
      <4>1. CASE text[s] = "current"
        <5>1. query'[s] = Text("current")
          BY <2>2, <3>1, <3>2, <4>1 DEF Text
        <5> QED BY <3>2, <3>3, <4>1, <5>1 DEF TextsOf
      <4>2. CASE text[s] # "current"
        <5>1. query'[s] = query[s] /\ orig_query'[s] = orig_query[s]
          BY <2>2, <3>2, <4>2 DEF Restored, Text
        <5> QED BY <2>2, <3>2, <3>3, <4>2, <5>1 DEF TextsOf
      <4> QED BY <4>1, <4>2
    <3>6. CollectedBy(s)'
      BY <3>3 DEF CollectedBy, NoData
    <3>5. "fail" \notin Practices => SentAsGiven'
      BY <1>i, <2>2, <2>8
    <3> QED BY <1>b, <2>4, <2>5, <3>3, <3>4, <3>5, <3>6, StepAfter DEF d
  <2> QED BY <1>1, <2>6, <2>7, <2>8 DEF Execute, d
<1>2. CASE UpdateCurrent(s)
  <2>1. /\ Positioned(s) /\ Held(d) \subseteq DataParams(d) /\ Freeing(d) /\ rec' = rec
        /\ text' = text /\ row' = row
        /\ orig_query' = [orig_query EXCEPT ![s] = Copied(query[s])]
    BY <1>2 DEF UpdateCurrent, d
  <2>2. text[s] = "current" /\ query[s] \in {Text("current"), Text("cut")} /\ Wants(s) = row
    BY <1>0, <1>g, <2>1 DEF Positioned, Text, TextType, Wants
  <2>3. ~fault' /\ live' \subseteq live /\ Untouched(d)
    BY <1>0, <1>d, <2>1, FreeingUntouched DEF Freeing
  <2>4. \A i \in Held(d) : rec[d][i].value \notin live'
    BY <2>1 DEF Freeing, HeldBuffers
  <2>5. CASE NeedsData(d) /\ query[s].kind = "current" /\ CollectData(s, 0) /\ sent' = {}
             /\ query' = [query EXCEPT ![s] = OfRow(row)]
    <3>1. query[s] = Text("current")
      BY <2>2, <2>5 DEF Text
    <3>2. /\ phase'[s] = "need" /\ current_param'[s] = 0 /\ wanted'[s] = row /\ given' = given
          /\ orig_query'[s] = Text("current") /\ query'[s] = OfRow(row) /\ text'[s] = "current"
      BY <1>0, <2>1, <2>2, <2>5, <3>1 DEF CollectData, DaeType, TextType, Copied, Text
    <3>3. OthersSame(s)
      BY <1>0, <2>1, <2>5 DEF CollectData, OthersSame, Same, DaeType, TextType
    <3>4. TextsOf(s)'
      <4>1. query'[s].kind = "row"
        BY <3>2 DEF OfRow
      <4> QED BY <3>2, <4>1 DEF TextsOf
    <3>5. \A i \in Params : Pending(s, i)'
      BY <1>e, <1>f, <2>1, <2>4, <3>2 DEF Pending, Held, Text, d
    <3>6. CollectedBy(s)'
      BY <3>2, <3>5, DataAtExecAssumption DEF CollectedBy, DataParams, Params, d
    <3>7. \A i \in Held(d) : Stale(d, i)'
      <4> TAKE i \in Held(d)
      <4>1. rec'[d][i].kind = "dae" /\ i > 0
        BY <2>1, DataAtExecAssumption DEF DataParams, Params
      <4> QED BY <3>2, <4>1 DEF Stale, Text, d
    <3>8. Owned'
      BY <2>1, <2>3, <2>4, <3>3, <3>7, OwnedAfter DEF Held, d
    <3> QED BY <1>b, <2>3, <2>5, <3>3, <3>4, <3>6, <3>8, NothingSent, StepAfter DEF d
  <2>6. CASE ~NeedsData(d) /\ query' = [query EXCEPT ![s] = Text("cut")]
             /\ (Sends(s, row, Wants(s)) \/ sent' = {}) /\ UNCHANGED daeVars
    <3>1. OthersSame(s)
      BY <1>0, <2>1, <2>6 DEF daeVars, OthersSame, Same, TextType
    <3>2. TextsOf(s)'
      BY <1>0, <1>b, <2>1, <2>2, <2>6 DEF daeVars, TextsOf, TextType
    <3>3. CollectedBy(s)'
      BY <1>b, <1>e, <2>6 DEF daeVars, CollectedBy, NoData
    <3>4. Held(d) = {}
      BY <2>1, <2>6 DEF NeedsData, DataParams
    <3>5. Owned'
      BY <2>1, <2>3, <3>1, <3>4, OwnedAfter DEF Held, d
    <3>6. SentAsGiven'
      BY <1>0, <1>i, <2>2, <2>6, NothingSent, InvTypes
    <3> QED BY <1>b, <2>3, <3>1, <3>2, <3>3, <3>5, <3>6, StepAfter DEF d
  <2> QED BY <1>2, <2>5, <2>6 DEF UpdateCurrent, d
<1>3. ASSUME NEW cut \in BOOLEAN, ExecuteInVain(s, cut) PROVE IInv'
  <2>1. text[s] = "current" /\ query[s] \in {Text("current"), Text("cut")}
    BY <1>0, <1>3, <1>g DEF ExecuteInVain, Positioned, Text, TextType
  <2>2. ~fault' /\ sent' = {} /\ UNCHANGED <<rec, live, data, text, phase, given>>
    <3>1. query[s].kind # "all"
      BY <2>1 DEF Text
    <3>2. fault' = (query[s].kind = "all") /\ sent' = {}
          /\ UNCHANGED <<rec, live, data, text, phase, given>>
      BY <1>3 DEF ExecuteInVain
    <3> QED BY <3>1, <3>2
  <2>3. OthersSame(s)
    BY <1>0, <1>3 DEF ExecuteInVain, OthersSame, Same, TextType
  <2>4. TextsOf(s)'
    BY <1>0, <1>3, <1>b, <2>1 DEF ExecuteInVain, TextsOf, TextType
  <2>5. CollectedBy(s)'
    BY <1>b, <1>e, <2>2 DEF CollectedBy, NoData
  <2>6. Untouched(d) /\ Owned'
    BY <1>d, <2>2, <2>3, MemoryKept DEF d
  <2> QED BY <1>b, <2>2, <2>3, <2>4, <2>5, <2>6, NothingSent, StepAfter DEF d
<1> QED BY <1>1, <1>2, <1>3 DEF Executing

-----------------------------------------------------------------------------
(* Collecting data. *)

\* What holds for the data of parameter j while another one is dealt with.
LEMMA DataKept ==
  ASSUME NEW s \in Stmts, NEW j \in Params,
         rec'[Apd[s]][j] = rec[Apd[s]][j], given'[s][j] = given[s][j], orig_query' = orig_query,
         rec[Apd[s]][j].alloced =>
            /\ rec[Apd[s]][j].value \in live' <=> rec[Apd[s]][j].value \in live
            /\ data'[rec[Apd[s]][j].value] = data[rec[Apd[s]][j].value]
  PROVE  /\ Pending(s, j) => Pending(s, j)'
         /\ Stored(s, j) => Stored(s, j)'
         /\ Supplied(s, j) => Supplied(s, j)'
<1>1. Pending(s, j) => Pending(s, j)'
  BY DEF Pending
<1>2. Stored(s, j) => Stored(s, j)'
  BY DEF Stored
<1> QED BY <1>1, <1>2 DEF Supplied

\* One record of a descriptor is emptied that had no memory of its own.
LEMMA EmptiedRecord ==
  ASSUME IInv, NEW s \in Stmts, NEW i \in Params,
         rec' = [rec EXCEPT ![Apd[s]][i] = Emptied(rec[Apd[s]][i])],
         rec[Apd[s]][i].alloced => rec[Apd[s]][i].value \notin live,
         live' = live, data' = data
  PROVE  /\ Untouched(Apd[s])
         /\ rec'[Apd[s]][i].value = Null /\ ~rec'[Apd[s]][i].alloced
         /\ rec'[Apd[s]][i].kind = rec[Apd[s]][i].kind
         /\ \A j \in Params \ {i} : rec'[Apd[s]][j] = rec[Apd[s]][j]
         /\ DataParams(Apd[s])' = DataParams(Apd[s])
<1> DEFINE d == Apd[s]
<1>0. MemType /\ d \in Descs
  BY InvTypes, ApdType
<1>1. rec[d][i] \in Record
  BY <1>0 DEF MemType
<1>2. PICK r \in Record : /\ r = Emptied(rec[d][i])
                          /\ r.value = Null /\ r.alloced = FALSE /\ r.kind = rec[d][i].kind
  <2>1. /\ Emptied(rec[d][i]) \in Record /\ Emptied(rec[d][i]).value = Null
        /\ Emptied(rec[d][i]).alloced = FALSE /\ Emptied(rec[d][i]).kind = rec[d][i].kind
    BY <1>1, RecordTypes DEF Emptied, Record
  <2> QED BY <2>1
<1> HIDE DEF d
<1>3. /\ rec'[d][i] = r
      /\ \A e \in Descs, j \in Params : e # d \/ j # i => rec'[e][j] = rec[e][j]
  <2>1. rec' = [rec EXCEPT ![d][i] = r]
    BY <1>2 DEF d
  <2> QED BY <1>0, <2>1 DEF MemType
<1>4. \A j \in Params \ {i} : rec'[d][j] = rec[d][j]
  BY <1>0, <1>3
<1>5. Untouched(d)
  BY <1>0 DEF Untouched, MemType, d
<1>6. \A j \in Params : rec'[d][j].kind = rec[d][j].kind
  BY <1>2, <1>3, <1>4
<1>7. DataParams(d)' = DataParams(d)
  BY <1>6 DEF DataParams
<1> QED BY <1>2, <1>3, <1>4, <1>5, <1>7 DEF d

LEMMA NextParamInv ==
  ASSUME IInv, TypeOK', ~fault, Practices \subseteq {"fail"}, NEW s \in Stmts, NextParam(s) PROVE IInv'
<1> DEFINE d == Apd[s]
<1>0. TypeOK /\ MemType /\ TextType /\ DaeType /\ d \in Descs
  BY InvTypes, ApdType
<1>1. phase[s] \in {"need", "can_put", "null"} /\ OthersReady(s)
  BY OnlyOne DEF NextParam
<1>2. ToVisit(s) \in SUBSET Params /\ ToVisit(s) # {}
  BY DEF NextParam, ToVisit, DataParams
<1>3. PICK i \in ToVisit(s) : i = FirstOf(ToVisit(s)) /\ \A j \in ToVisit(s) : i <= j
  BY <1>2, FirstOfType
<1>4. /\ current_param' = [current_param EXCEPT ![s] = i]
      /\ rec' = [rec EXCEPT ![d][i] = Emptied(rec[d][i])]
      /\ live' = live /\ data' = data /\ fault' = fault /\ sent' = {}
      /\ UNCHANGED textVars /\ given' = given /\ wanted' = wanted
      /\ phase' = [phase EXCEPT ![s] = "must_put"]
  BY <1>0, <1>3 DEF NextParam, Visited, MemType, textVars
<1> HIDE DEF d
<1>5. i \in DataParams(d) /\ i > current_param[s] /\ i \in Params
  BY <1>3 DEF ToVisit, DataParams, d
<1>6. TextsOf(s) /\ CollectedBy(s)
  BY DEF IInv, Texts, Collected
<1>7. Pending(s, i)
  BY <1>1, <1>5, <1>6 DEF CollectedBy, d
<1>8. /\ Untouched(d)
      /\ rec'[d][i].value = Null /\ ~rec'[d][i].alloced
      /\ \A j \in Params \ {i} : rec'[d][j] = rec[d][j]
      /\ DataParams(d)' = DataParams(d)
  BY <1>4, <1>5, <1>7, EmptiedRecord DEF Pending, d
<1>9. OthersSame(s) /\ current_param'[s] = i /\ phase'[s] = "must_put"
  BY <1>0, <1>4 DEF OthersSame, Same, DaeType, textVars
<1>10. TextsOf(s)'
  BY <1>1, <1>4, <1>6, <1>9 DEF TextsOf, textVars
<1>11. \A j \in Params \ {i} : /\ Pending(s, j) => Pending(s, j)'
                               /\ Supplied(s, j) => Supplied(s, j)'
  BY <1>4, <1>8, DataKept DEF textVars, d
<1>12. CollectedBy(s)'
  <2>1. Asked(s, i)'
    BY <1>4, <1>7, <1>8 DEF Asked, Pending, d
  <2>2. \A j \in DataParams(d) : j \in Params /\ j \in Nat /\ i \in Nat /\ current_param[s] \in Nat
    BY <1>0, <1>5, DataAtExecAssumption DEF DataParams, Params, DaeType
  <2>3. ASSUME NEW j \in DataParams(d), j > i PROVE Pending(s, j)'
    <3>1. j > current_param[s] /\ j # i /\ j \in Params
      BY <1>5, <2>2, <2>3
    <3>2. Pending(s, j)
      BY <1>1, <1>6, <3>1 DEF CollectedBy, d
    <3> QED BY <1>11, <3>1, <3>2
  <2>4. ASSUME NEW j \in DataParams(d), j < i PROVE Supplied(s, j)'
    <3>1. j \notin ToVisit(s) /\ j # i /\ j \in Params
      BY <1>3, <2>2, <2>4
    <3>2. j <= current_param[s]
      BY <2>2, <3>1 DEF ToVisit, d
    <3>3. j < current_param[s] \/ j = current_param[s]
      BY <2>2, <3>2
    <3>4. Supplied(s, j)
      BY <1>1, <1>6, <3>3 DEF CollectedBy, Supplied, d
    <3> QED BY <1>11, <3>1, <3>4
  <2> QED BY <1>5, <1>8, <1>9, <2>1, <2>2, <2>3, <2>4 DEF CollectedBy, d
<1>13. Owned'
  <2>1. ASSUME NEW j \in Params, rec'[d][j].alloced
        PROVE  /\ rec[d][j].alloced /\ rec'[d][j].value = rec[d][j].value
               /\ rec'[d][j].value \in live' \/ Stale(d, j)'
    <3>1. j # i /\ rec'[d][j] = rec[d][j] /\ j \in Held(d) /\ rec[d][j].alloced
      BY <1>8, <2>1 DEF Held
    <3>2. rec[d][j].value \in live \/ Stale(d, j)
      BY <1>0, <3>1 DEF IInv, Owned
    <3>3. CASE Stale(d, j)
      <4>1. /\ orig_query[s].kind # "none" /\ rec[d][j].kind = "dae"
            /\ j > current_param[s]
        BY <1>1, <3>3 DEF Stale, OthersReady, d
      <4>2. j \in ToVisit(s)
        BY <4>1 DEF ToVisit, DataParams, d
      <4>3. j > i
        BY <1>3, <1>5, <3>1, <4>2, DataAtExecAssumption DEF Params
      <4>4. Stale(d, j)'
        BY <1>4, <1>9, <3>1, <4>1, <4>3 DEF Stale, textVars, d
      <4> QED BY <3>1, <4>4
    <3> QED BY <1>4, <3>1, <3>2, <3>3
  <2>2. \A j \in Held(d) : rec[d][j].value \in live' => rec'[d][j].alloced
    BY <1>4, <1>7, <1>8 DEF Held, Pending, d
  <2> QED BY <1>4, <1>8, <1>9, <2>1, <2>2, OwnedAfter DEF d
<1> QED BY <1>1, <1>4, <1>8, <1>9, <1>10, <1>12, <1>13, NothingSent, StepAfter DEF d

LEMMA ExecuteDaeInv ==
  ASSUME IInv, TypeOK', Practices \subseteq {"fail"}, NEW s \in Stmts, ExecuteDae(s) PROVE IInv'
<1> DEFINE d == Apd[s]
<1>0. TypeOK /\ MemType /\ TextType /\ DaeType /\ d \in Descs
  BY InvTypes, ApdType
<1>1. phase[s] \in {"need", "can_put", "null"} /\ OthersReady(s) /\ ToVisit(s) = {}
  BY OnlyOne DEF ExecuteDae
<1>2. TextsOf(s) /\ CollectedBy(s)
  BY DEF IInv, Texts, Collected
<1>3. UNCHANGED <<rec, live, data>> /\ Done(s) /\ fault' = UsesFreed(d)
  BY DEF ExecuteDae
<1> HIDE DEF d
<1>4. \A i \in DataParams(d) : i <= current_param[s] /\ i \in Params
  <2> TAKE i \in DataParams(d)
  <2>1. i \in Params /\ i \in Nat /\ ~(i > current_param[s])
    BY <1>1, DataAtExecAssumption DEF ToVisit, DataParams, Params, d
  <2>2. current_param[s] \in Nat
    BY <1>0, DataAtExecAssumption DEF DaeType
  <2> QED BY <2>1, <2>2
<1>5. ASSUME NEW i \in DataParams(d) PROVE Supplied(s, i)
  <2>1. i < current_param[s] \/ i = current_param[s]
    BY <1>0, <1>4, DataAtExecAssumption DEF DaeType, Params
  <2> QED BY <1>1, <1>2, <2>1 DEF CollectedBy, Supplied, d
<1>6. ~fault'
  BY <1>3, <1>5 DEF UsesFreed, Supplied, Stored, DataParams, d
<1>7. \A i \in Params : ~Stale(d, i)
  <2> SUFFICES ASSUME NEW i \in Params, Stale(d, i) PROVE FALSE
    OBVIOUS
  <2>1. i > current_param[s] /\ i \in DataParams(d)
    BY <1>1 DEF Stale, OthersReady, DataParams, d
  <2> QED BY <1>0, <1>4, <2>1, DataAtExecAssumption DEF DaeType, Params
<1>8. \A i \in Held(d) : rec[d][i].value \in live
  BY <1>0, <1>7 DEF IInv, Owned, Held
<1>9. phase'[s] = "ready" /\ given'[s] = NoData
  BY <1>0, <1>3 DEF Done, DaeType
<1>10. CASE /\ UNCHANGED textVars /\ sent' = {}
            /\ "fail" \in Practices \/ orig_query[s].kind = "none"
  <2>1. OthersSame(s)
    BY <1>0, <1>3, <1>10 DEF Done, textVars, OthersSame, Same, DaeType
  <2>2. TextsOf(s)' /\ CollectedBy(s)'
    BY <1>1, <1>2, <1>9, <1>10 DEF TextsOf, CollectedBy, textVars, Text, NoData
  <2> QED BY <1>1, <1>3, <1>6, <1>8, <1>10, <2>1, <2>2, MemoryKept, NothingSent, StepAfter DEF d
<1>11. CASE Sends(s, query[s].row, wanted[s]) /\ Restore(s)
  <2>1. OthersSame(s) /\ text' = text
    BY <1>0, <1>3, <1>11 DEF Done, Restore, OthersSame, Same, DaeType, TextType
  <2>2. query'[s] = Restored(s).query /\ orig_query'[s] = Restored(s).orig_query
    BY <1>0, <1>11 DEF Restore, TextType
  <2>3. TextsOf(s)' /\ CollectedBy(s)'
    BY <1>1, <1>2, <1>9, <2>1, <2>2 DEF TextsOf, CollectedBy, Restored, Text, NoData
  <2>4. "fail" \notin Practices => query[s].row = wanted[s]
    BY <1>1, <1>2 DEF TextsOf, Text, OfRow
  <2>5. ASSUME NEW i \in Params
        PROVE  Inserted(d, i) = IF Meant(s)[i] = <<"NULL">> THEN <<"DEFAULT">> ELSE Meant(s)[i]
    <3>1. CASE rec[d][i].kind # "dae"
      BY <3>1 DEF Inserted, Meant, d
    <3>2. CASE rec[d][i].kind = "dae"
      <4>1. Supplied(s, i) /\ Meant(s)[i] = given[s][i]
        BY <1>5, <3>2 DEF DataParams, Meant, d
      <4>2. CASE rec[d][i].value = Null /\ given[s][i] = <<"NULL">>
        BY <3>2, <4>1, <4>2 DEF Inserted
      <4>3. CASE Stored(s, i)
        <5>1. rec[d][i].value # Null
          BY <1>0, <4>3, DataAtExecAssumption DEF Stored, MemType, Null, d
        <5>2. Inserted(d, i) = given[s][i]
          BY <3>2, <4>3, <5>1 DEF Inserted, Stored, d
        <5>3. given[s][i] # <<"NULL">>
          <6>1. "NULL" \notin Pieces
            BY DataAtExecAssumption
          <6>2. given[s][i] \in Seq(Pieces)
            BY <4>3 DEF Stored
          <6> QED BY <6>1, <6>2
        <5> QED BY <4>1, <5>2, <5>3
      <4> QED BY <4>1, <4>2, <4>3 DEF Supplied, d
    <3> QED BY <3>1, <3>2
  <2>6. "fail" \notin Practices => SentAsGiven'
    BY <1>11, <2>4, <2>5 DEF Sends, SentAsGiven, d
  <2> QED BY <1>1, <1>3, <1>6, <1>8, <2>1, <2>3, <2>6, MemoryKept, StepAfter DEF d
<1> QED BY <1>10, <1>11 DEF ExecuteDae

LEMMA PutNullInv ==
  ASSUME IInv, TypeOK', ~fault, Practices \subseteq {"fail"}, NEW s \in Stmts, PutNull(s) PROVE IInv'
<1> DEFINE d == Apd[s]
<1>0. TypeOK /\ MemType /\ TextType /\ DaeType /\ d \in Descs
  BY InvTypes, ApdType
<1>1. phase[s] = "must_put" /\ OthersReady(s)
  BY OnlyOne DEF PutNull
<1>2. TextsOf(s) /\ CollectedBy(s)
  BY DEF IInv, Texts, Collected
<1>3. PICK i \in DataParams(d) : i = current_param[s] /\ Asked(s, i) /\ i \in Params
  BY <1>1, <1>2 DEF CollectedBy, DataParams
<1>4. /\ rec' = [rec EXCEPT ![d][i] = Emptied(rec[d][i])]
      /\ live' = live /\ data' = data /\ ~fault' /\ sent' = {}
      /\ UNCHANGED <<textVars, current_param, wanted>>
      /\ given' = [given EXCEPT ![s][i] = <<"NULL">>]
      /\ phase' = [phase EXCEPT ![s] = "null"]
  <2>1. ~rec[d][i].alloced
    BY <1>3 DEF Asked
  <2> QED BY <1>0, <1>3, <2>1 DEF PutNull, MemType, textVars
<1> HIDE DEF d
<1>5. /\ Untouched(d)
      /\ rec'[d][i].value = Null /\ ~rec'[d][i].alloced
      /\ rec'[d][i].kind = rec[d][i].kind
      /\ \A j \in Params \ {i} : rec'[d][j] = rec[d][j]
      /\ DataParams(d)' = DataParams(d)
  BY <1>3, <1>4, EmptiedRecord DEF Asked, d
<1>6. /\ OthersSame(s) /\ phase'[s] = "null" /\ current_param'[s] = i
      /\ given'[s][i] = <<"NULL">> /\ \A j \in Params \ {i} : given'[s][j] = given[s][j]
  BY <1>0, <1>3, <1>4 DEF OthersSame, Same, DaeType, textVars
<1>7. TextsOf(s)'
  BY <1>1, <1>2, <1>4, <1>6 DEF TextsOf, textVars
<1>8. \A j \in Params \ {i} : /\ Pending(s, j) => Pending(s, j)'
                              /\ Supplied(s, j) => Supplied(s, j)'
  BY <1>4, <1>5, <1>6, DataKept DEF textVars, d
<1>9. CollectedBy(s)'
  <2>1. Supplied(s, i)'
    BY <1>5, <1>6 DEF Supplied, d
  <2>2. \A j \in DataParams(d) : j \in Params /\ j \in Nat /\ i \in Nat
    BY <1>3, DataAtExecAssumption DEF DataParams, Params
  <2>3. \A j \in DataParams(d) : /\ j > i => j # i /\ Pending(s, j)
                                 /\ j < i => j # i /\ Supplied(s, j)
    BY <1>1, <1>2, <1>3, <2>2 DEF CollectedBy, d
  <2> QED BY <1>3, <1>5, <1>6, <1>8, <2>1, <2>2, <2>3 DEF CollectedBy, d
<1>10. \A j \in Params : Stale(d, j) /\ j # i => Stale(d, j)'
  <2> SUFFICES ASSUME NEW j \in Params, Stale(d, j), j # i PROVE Stale(d, j)'
    OBVIOUS
  <2>1. orig_query[s].kind # "none" /\ rec[d][j].kind = "dae" /\ j > current_param[s]
    BY <1>1 DEF Stale, OthersReady, d
  <2> QED BY <1>4, <1>5, <1>6, <2>1 DEF Stale, textVars, d
<1>11. Owned'
  <2>1. ASSUME NEW j \in Params, rec'[d][j].alloced
        PROVE  /\ rec[d][j].alloced /\ rec'[d][j].value = rec[d][j].value
               /\ rec'[d][j].value \in live' \/ Stale(d, j)'
    <3>1. j # i /\ rec'[d][j] = rec[d][j] /\ j \in Held(d) /\ rec[d][j].alloced
      BY <1>5, <2>1 DEF Held
    <3>2. rec[d][j].value \in live \/ Stale(d, j)
      BY <1>0, <3>1 DEF IInv, Owned
    <3> QED BY <1>4, <1>10, <3>1, <3>2
  <2>2. \A j \in Held(d) : rec[d][j].value \in live' => rec'[d][j].alloced
    BY <1>3, <1>5 DEF Held, Asked, d
  <2> QED BY <1>4, <1>5, <1>6, <2>1, <2>2, OwnedAfter DEF d
<1> QED BY <1>1, <1>4, <1>5, <1>6, <1>7, <1>9, <1>11, NothingSent, StepAfter DEF d

LEMMA PutDataInv ==
  ASSUME IInv, TypeOK', ~fault, Practices \subseteq {"fail"}, NEW s \in Stmts, NEW piece \in Pieces,
         PutData(s, piece)
  PROVE  IInv'
<1> DEFINE d == Apd[s]
<1>0. TypeOK /\ MemType /\ TextType /\ DaeType /\ d \in Descs
  BY InvTypes, ApdType
<1>1. phase[s] \in {"must_put", "can_put"} /\ OthersReady(s)
  BY OnlyOne DEF PutData
<1>2. TextsOf(s) /\ CollectedBy(s)
  BY DEF IInv, Texts, Collected
<1>3. PICK i \in DataParams(d) : /\ i = current_param[s] /\ i \in Params
                                 /\ phase[s] = "must_put" => Asked(s, i)
                                 /\ phase[s] = "can_put" => Stored(s, i)
  BY <1>1, <1>2 DEF CollectedBy, DataParams
<1>4. /\ sent' = {} /\ UNCHANGED <<textVars, current_param, wanted>>
      /\ given' = [given EXCEPT ![s][i] = Append(given[s][i], piece)]
      /\ phase' = [phase EXCEPT ![s] = "can_put"]
  BY <1>0, <1>3 DEF PutData, textVars, DaeType
<1>5. rec[d][i] \in Record
  BY <1>0, <1>3 DEF MemType
<1> HIDE DEF d
<1>6. /\ OthersSame(s) /\ phase'[s] = "can_put" /\ current_param'[s] = i
      /\ given'[s][i] = Append(given[s][i], piece)
      /\ \A j \in Params \ {i} : given'[s][j] = given[s][j]
  BY <1>0, <1>3, <1>4 DEF OthersSame, Same, DaeType, textVars
<1>7. TextsOf(s)'
  BY <1>1, <1>2, <1>4, <1>6 DEF TextsOf, textVars
<1>8. \A j \in DataParams(d) : j \in Params /\ j \in Nat /\ i \in Nat
  BY <1>3, DataAtExecAssumption DEF DataParams, Params
\* What remains to be shown of the memory, in either case.
<1>9. ASSUME Stored(s, i)', Untouched(d), Owned', ~fault', DataParams(d)' = DataParams(d),
             \A j \in Params \ {i} :
               /\ rec'[d][j] = rec[d][j]
               /\ rec[d][j].alloced =>
                    /\ rec[d][j].value \in live' <=> rec[d][j].value \in live
                    /\ data'[rec[d][j].value] = data[rec[d][j].value]
      PROVE  IInv'
  <2>1. \A j \in Params \ {i} : /\ Pending(s, j) => Pending(s, j)'
                                /\ Supplied(s, j) => Supplied(s, j)'
    BY <1>4, <1>6, <1>9, DataKept DEF textVars, d
  <2>2. \A j \in DataParams(d) : /\ j > i => j # i /\ Pending(s, j)
                                 /\ j < i => j # i /\ Supplied(s, j)
    BY <1>1, <1>2, <1>3, <1>8 DEF CollectedBy, d
  <2>3. CollectedBy(s)'
    BY <1>3, <1>6, <1>8, <1>9, <2>1, <2>2 DEF CollectedBy, d
  <2> QED BY <1>1, <1>4, <1>6, <1>7, <1>9, <2>3, NothingSent, StepAfter DEF d
<1>10. \A j \in Params : Stale(d, j) => orig_query[s].kind # "none" /\ rec[d][j].kind = "dae"
                                        /\ j > current_param[s]
  BY <1>1 DEF Stale, OthersReady, d
<1>11. CASE phase[s] = "can_put"
  <2> DEFINE v == rec[d][i].value
  <2>1. v \in live /\ rec[d][i].alloced /\ v # Null /\ v \in Buffers /\ i \in Held(d)
    BY <1>0, <1>3, <1>11, DataAtExecAssumption DEF Stored, MemType, Held, Null, d
  <2>2. rec' = rec /\ live' = live /\ ~fault'
        /\ data' = [data EXCEPT ![v] = Append(data[v], piece)]
    BY <1>0, <1>3, <2>1 DEF PutData, MemType, d
  <2>3. ASSUME NEW e \in Descs, NEW j \in Held(e), e # d \/ j # i
        PROVE  data'[rec[e][j].value] = data[rec[e][j].value]
    <3>1. rec[e][j].value # v /\ rec[e][j].value \in Buffers
      BY <1>0, <2>1, <2>3, Distinct DEF IInv, Owned
    <3> QED BY <1>0, <2>2, <3>1 DEF MemType
  <2>4. Stored(s, i)'
    <3>1. data'[v] = Append(data[v], piece) /\ data[v] = given[s][i] /\ given[s][i] \in Seq(Pieces)
      BY <1>0, <1>3, <1>11, <2>1, <2>2 DEF Stored, MemType, d
    <3>2. given'[s][i] \in Seq(Pieces) /\ given'[s][i] # <<>>
      BY <1>6, <3>1
    <3>3. /\ rec'[d][i].alloced /\ rec'[d][i].value = v /\ v \in live'
          /\ data'[v] = given'[s][i]
      BY <1>6, <2>1, <2>2, <3>1
    <3> HIDE DEF v
    <3> QED BY <3>2, <3>3 DEF Stored, d
  <2>5. Untouched(d)
    BY <2>2, <2>3 DEF Untouched
  <2>6. \A j \in Held(d) : rec[d][j].value \in live \/ Stale(d, j)'
    <3> TAKE j \in Held(d)
    <3>1. rec[d][j].value \in live \/ Stale(d, j)
      BY <1>0 DEF IInv, Owned
    <3>2. ASSUME Stale(d, j) PROVE Stale(d, j)'
      BY <1>3, <1>4, <1>6, <1>10, <2>2, <3>2 DEF Stale, textVars, Held, d
    <3> QED BY <3>1, <3>2
  <2>7. Owned'
    BY <1>6, <2>2, <2>5, <2>6, OwnedAfter DEF Held, d
  <2>8. \A j \in Params \ {i} : rec[d][j].alloced => data'[rec[d][j].value] = data[rec[d][j].value]
    BY <1>0, <2>3 DEF Held
  <2>9. DataParams(d)' = DataParams(d)
    BY <2>2 DEF DataParams
  <2> QED BY <1>9, <2>2, <2>4, <2>5, <2>7, <2>8, <2>9
<1>12. CASE phase[s] = "must_put"
  <2>1. given[s][i] = <<>> /\ rec[d][i].value = Null /\ ~rec[d][i].alloced
    BY <1>3, <1>12 DEF Asked, d
  <2>2. PICK b \in Buffers \ (live \cup Referenced) :
           /\ live' = live \cup {b} /\ data' = [data EXCEPT ![b] = <<piece>>] /\ ~fault'
           /\ rec' = [rec EXCEPT ![d][i] = [rec[d][i] EXCEPT !.value = b, !.alloced = TRUE]]
    <3>1. rec[Apd[s]][current_param[s]].value = Null
      BY <1>3, <2>1 DEF d
    <3>2. PICK b \in Buffers \ (live \cup Referenced) :
            /\ live' = live \cup {b} /\ data' = [data EXCEPT ![b] = <<piece>>]
            /\ rec' = [rec EXCEPT ![Apd[s]][current_param[s]] =
                          [rec[Apd[s]][current_param[s]] EXCEPT !.value = b, !.alloced = TRUE]]
            /\ fault' = fault
      BY <1>0, <1>3, <3>1 DEF PutData, MemType, d
    <3> QED BY <1>3, <3>2 DEF d
  <2>3. PICK r \in Record : /\ r = [rec[d][i] EXCEPT !.value = b, !.alloced = TRUE]
                            /\ r.value = b /\ r.alloced = TRUE /\ r.kind = rec[d][i].kind
    <3> DEFINE q == [rec[d][i] EXCEPT !.value = b, !.alloced = TRUE]
    <3>1. q \in Record /\ q.value = b /\ q.alloced = TRUE /\ q.kind = rec[d][i].kind
      BY <1>5 DEF Record
    <3> QED BY <3>1
  <2>4. /\ rec'[d][i] = r
        /\ \A e \in Descs, j \in Params : e # d \/ j # i => rec'[e][j] = rec[e][j]
        /\ \A e \in Descs \ {d} : rec'[e] = rec[e]
    BY <1>0, <1>3, <2>2, <2>3 DEF MemType
  <2>5. \A e \in Descs, j \in Params : rec[e][j].value # b
    BY <2>2 DEF Referenced
  <2>6. ASSUME NEW e \in Descs, NEW j \in Held(e)
        PROVE  /\ rec[e][j].value \in live' <=> rec[e][j].value \in live
               /\ data'[rec[e][j].value] = data[rec[e][j].value]
    <3>1. rec[e][j].value # b /\ rec[e][j].value \in Buffers
      BY <2>5 DEF IInv, Owned, Held
    <3> QED BY <1>0, <2>2, <3>1 DEF MemType
  <2>7. Untouched(d)
    BY <2>4, <2>6 DEF Untouched
  <2>8. Stored(s, i)'
    <3>1. given'[s][i] = <<piece>> /\ data'[b] = <<piece>>
      BY <1>0, <1>6, <2>1, <2>2 DEF MemType
    <3>2. given'[s][i] \in Seq(Pieces) /\ given'[s][i] # <<>>
      BY <3>1
    <3>3. rec'[d][i].value = b /\ rec'[d][i].alloced /\ b \in live'
      BY <2>2, <2>3, <2>4
    <3> QED BY <3>1, <3>2, <3>3 DEF Stored, d
  <2>9. DataParams(d)' = DataParams(d)
    <3>1. \A j \in Params : rec'[d][j].kind = rec[d][j].kind
      BY <1>0, <2>3, <2>4
    <3> QED BY <3>1 DEF DataParams
  <2>10. /\ \A e \in Descs \ {d} : Held(e)' = Held(e)
         /\ Held(d)' = Held(d) \cup {i}
    <3>1. rec'[d][i].alloced
      BY <2>3, <2>4
    <3>2. \A j \in Params \ {i} : rec'[d][j] = rec[d][j]
      BY <1>0, <2>4
    <3> QED BY <1>3, <2>4, <3>1, <3>2 DEF Held
  <2>11. \A e \in Descs : \A j \in Held(e)' :
            \/ e = d /\ j = i
            \/ j \in Held(e) /\ rec'[e][j] = rec[e][j] /\ rec'[e][j].value # b
    BY <2>1, <2>4, <2>5, <2>10 DEF Held
  <2>12. \A e, f \in Descs : \A j \in Held(e)', k \in Held(f)' :
            rec'[e][j].value = rec'[f][k].value => e = f /\ j = k
    <3> SUFFICES ASSUME NEW e \in Descs, NEW f \in Descs, NEW j \in Held(e)', NEW k \in Held(f)',
                        rec'[e][j].value = rec'[f][k].value
                 PROVE  e = f /\ j = k
      OBVIOUS
    <3>1. rec'[d][i].value = b
      BY <2>3, <2>4
    <3>2. CASE (e = d /\ j = i) \/ (f = d /\ k = i)
      BY <2>11, <3>1, <3>2
    <3>3. CASE j \in Held(e) /\ rec'[e][j] = rec[e][j] /\ k \in Held(f) /\ rec'[f][k] = rec[f][k]
      BY <3>3, Distinct
    <3> QED BY <2>11, <3>2, <3>3
  <2>13. ASSUME NEW e \in Descs, NEW j \in Held(e)'
         PROVE  /\ rec'[e][j].value \in Buffers
                /\ rec'[e][j].value \in live' \/ Stale(e, j)'
    <3>1. CASE e = d /\ j = i
      <4>1. rec'[d][i].value = b
        BY <2>3, <2>4
      <4> QED BY <2>2, <3>1, <4>1
    <3>2. CASE j \in Held(e) /\ rec'[e][j] = rec[e][j]
      <4>1. rec[e][j].value \in Buffers /\ (rec[e][j].value \in live \/ Stale(e, j))
        BY <3>2 DEF IInv, Owned
      <4>2. ASSUME Stale(e, j), e = d PROVE Stale(e, j)'
        BY <1>3, <1>4, <1>6, <1>10, <3>2, <4>2 DEF Stale, textVars, Held, d
      <4>3. ASSUME Stale(e, j), e # d PROVE Stale(e, j)'
        BY <1>6, <2>4, <3>2, <4>3, StaleElsewhere DEF Held, d
      <4> QED BY <2>2, <3>2, <4>1, <4>2, <4>3
    <3> QED BY <2>11, <3>1, <3>2
  <2>14. ASSUME NEW a \in live'
         PROVE  \E e \in Descs, j \in Params : rec'[e][j].alloced /\ rec'[e][j].value = a
    <3>1. CASE a = b
      <4>1. rec'[d][i].value = b /\ rec'[d][i].alloced
        BY <2>3, <2>4
      <4> QED BY <1>0, <1>3, <3>1, <4>1
    <3>2. CASE a \in live
      <4>1. PICK e \in Descs, j \in Params : rec[e][j].alloced /\ rec[e][j].value = a
        BY <3>2 DEF IInv, Owned
      <4>2. e # d \/ j # i
        BY <2>1, <4>1
      <4> QED BY <2>4, <4>1, <4>2
    <3> QED BY <2>2, <3>1, <3>2
  <2>15. Owned'
    BY <2>12, <2>13, <2>14 DEF Owned
  <2>16. \A j \in Params \ {i} :
           /\ rec'[d][j] = rec[d][j]
           /\ rec[d][j].alloced => /\ rec[d][j].value \in live' <=> rec[d][j].value \in live
                                   /\ data'[rec[d][j].value] = data[rec[d][j].value]
    BY <1>0, <2>4, <2>6 DEF Held
  <2> QED BY <1>9, <2>2, <2>7, <2>8, <2>9, <2>15, <2>16
<1> QED BY <1>1, <1>11, <1>12

-----------------------------------------------------------------------------
(* Giving up. *)
LEMMA EndingInv ==
  ASSUME IInv, TypeOK', Practices \subseteq {"fail"}, NEW s \in Stmts, Close(s) \/ ResetParams(s) \/ Drop(s)
  PROVE  IInv'
<1> DEFINE d == Apd[s]
<1>0. TypeOK /\ MemType /\ TextType /\ DaeType /\ d \in Descs
  BY InvTypes, ApdType
<1>1. /\ phase[s] = "ready" \/ orig_query[s].kind = "none"
      /\ Alone(s) /\ Freeing(d) /\ Done(s) /\ sent' = {}
  BY DEF Close, ResetParams, Drop, Ready, FreeParamData
<1>2. OthersReady(s)
  BY <1>1, OnlyOne
<1>3. ~fault'
  BY <1>1, <1>2, AllLive DEF Freeing
<1>4. TextsOf(s)
  BY DEF IInv, Texts
<1>5. phase'[s] = "ready" /\ given'[s] = NoData
  BY <1>0, <1>1 DEF Done, DaeType
<1>6. OthersSame(s) /\ TextsOf(s)'
  <2>1. CASE Close(s) \/ ResetParams(s)
    <3>1. UNCHANGED textVars
      BY <2>1 DEF Close, ResetParams, textVars
    <3>2. OthersSame(s)
      BY <1>0, <1>1, <3>1 DEF Done, textVars, OthersSame, Same, DaeType
    <3> QED BY <1>1, <1>4, <1>5, <3>1, <3>2 DEF TextsOf, textVars, Text
  <2>2. CASE Drop(s)
    <3>1. OthersSame(s)
      BY <1>0, <1>1, <2>2 DEF Drop, Done, OthersSame, Same, DaeType, TextType
    <3>2. text'[s] = "none" /\ query'[s] = Text("none") /\ orig_query'[s] = Text("none")
      BY <1>0, <2>2 DEF Drop, TextType
    <3> QED BY <1>5, <3>1, <3>2 DEF TextsOf
  <2> QED BY <2>1, <2>2
<1>7. CollectedBy(s)'
  BY <1>5 DEF CollectedBy, NoData
<1>8. /\ \A e \in Descs \ {d} : rec'[e] = rec[e]
      /\ \A i \in Params : ~rec'[d][i].alloced
  <2>1. CASE FreeParamData(d)
    BY <1>0, <2>1, RecordsFreed
  <2>2. CASE ResetParams(s)
    <3> DEFINE f == [i \in Params |-> [Disowned(d)[i] EXCEPT !.kind = "unbound"]]
    <3>1. f \in [Params -> Record] /\ rec' = [rec EXCEPT ![d] = f]
      BY <1>0, <2>2, DisownedType DEF ResetParams
    <3>2. ASSUME NEW i \in Params PROVE ~f[i].alloced
      <4>1. rec[d][i] \in Record
        BY <1>0 DEF MemType
      <4> QED BY <4>1 DEF Disowned, Record
    <3> HIDE DEF f
    <3> QED BY <1>0, <3>1, <3>2 DEF MemType
  <2> QED BY <2>1, <2>2 DEF Close, Drop
<1>9. Untouched(d) /\ Owned'
  BY <1>1, <1>6, <1>8, FreedAll
<1> QED BY <1>1, <1>2, <1>3, <1>6, <1>7, <1>9, NothingSent, StepAfter

-----------------------------------------------------------------------------
LEMMA InitInv == Init => IInv
<1> SUFFICES ASSUME Init PROVE IInv
  OBVIOUS
<1>1. \A s \in Stmts : phase[s] = "ready" /\ given[s] = NoData /\ TextsOf(s)
  BY DEF Init, TextsOf
<1>2. Exclusive /\ Texts /\ Collected
  BY <1>1 DEF Exclusive, Texts, Collected, CollectedBy
<1>3. \A d \in Descs : Held(d) = {}
  BY DEF Init, Held
<1>4. Owned
  BY <1>3 DEF Init, Owned
<1> QED BY <1>2, <1>4, InitTypes DEF Init, IInv, SentAsGiven

LEMMA NextInv ==
  ASSUME Practices \subseteq {"fail"} PROVE IInv /\ [Next]_vars => IInv'
<1> SUFFICES ASSUME IInv, [Next]_vars PROVE IInv'
  OBVIOUS
<1>1. TypeOK'
  BY NextTypes DEF IInv
<1>2. CASE MoveCursor \/ UNCHANGED vars
  <2>1. UNCHANGED <<rec, live, data, fault, text, query, orig_query, phase, current_param,
                    given, wanted>>
    BY <1>2 DEF MoveCursor, vars
  <2>2. Exclusive' /\ ~fault'
    BY <2>1 DEF IInv, Exclusive
  <2>3. Texts'
    BY <2>1 DEF IInv, Texts, TextsOf
  <2>4. Owned'
    BY <2>1 DEF IInv, Owned, Held, Stale
  <2>5. Collected'
    BY <2>1 DEF IInv, Collected, CollectedBy, DataParams, Pending, Asked, Stored, Supplied
  <2>6. "fail" \notin Practices => SentAsGiven'
    BY <1>2 DEF MoveCursor, vars, SentAsGiven, IInv
  <2> QED BY <1>1, <2>2, <2>3, <2>4, <2>5, <2>6 DEF IInv
<1>3. ASSUME NEW s \in Stmts, ~fault,
             Binding(s) \/ Executing(s) \/ Collecting(s) \/ Close(s) \/ ResetParams(s) \/ Drop(s)
      PROVE  IInv'
  <2>1. CASE Collecting(s)
    BY <1>1, <1>3, <2>1, NextParamInv, ExecuteDaeInv, PutNullInv, PutDataInv DEF Collecting
  <2> QED BY <1>1, <1>3, <2>1, BindingInv, ExecutingInv, EndingInv
<1> QED BY <1>2, <1>3 DEF Next

(* In the careful use, and also if updates of the current row fail, no     *)
(* value is freed twice, used after it was freed or lost, and no text read *)
(* beyond its end.                                                         *)
THEOREM NoMemoryFault ==
  ASSUME Practices \subseteq {"fail"} PROVE Spec => []MemorySafe
<1>1. IInv => MemorySafe
  BY DEF IInv, Owned, MemorySafe
<1> QED BY <1>1, InitInv, NextInv, PTL DEF Spec

(* In the careful use what is sent is what was supplied for this execution *)
(* of the statement, for the row its cursor was on.                        *)
THEOREM DataSent ==
  ASSUME Practices = {} PROVE Spec => []SentAsGiven
<1>1. IInv => SentAsGiven
  BY DEF IInv
<1>2. Practices \subseteq {"fail"}
  OBVIOUS
<1> QED BY <1>1, <1>2, InitInv, NextInv, PTL DEF Spec
=============================================================================
