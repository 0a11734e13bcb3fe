------------------------- MODULE DescRecordsProofs -------------------------
(***************************************************************************)
(* Proofs about DescRecords for descriptors of any length, allocated in    *)
(* increments of any size: types whatever the application does, the rest   *)
(* as long as it adds records in order and does not add any to a copy      *)
(* (Practices = {}).                                                       *)
(***************************************************************************)
EXTENDS DescRecords, TLAPS

USE DescRecordsAssumption

(* The records of the list have been initialised. *)
Initialised == \A i \in Slots : i < count => slot[i] # Garbage

IInv == TypeOK /\ InBounds /\ Initialised

LEMMA SourceCountIs ==
  ASSUME source \in RecordList
  PROVE  /\ SourceCount \in 0 .. MaxRec
         /\ source \in [1 .. SourceCount -> Buffer \cup {Unbound}]
<1>1. \E k \in 0 .. MaxRec : DOMAIN source = 1 .. k
  BY DEF RecordList
<1>2. SourceCount \in 0 .. MaxRec /\ DOMAIN source = 1 .. SourceCount
  BY <1>1 DEF SourceCount
<1>3. PICK k \in 0 .. MaxRec : source \in [1 .. k -> Buffer \cup {Unbound}]
  BY DEF RecordList
<1>4. 1 .. k = 1 .. SourceCount
  BY <1>2, <1>3
<1> QED BY <1>2, <1>3, <1>4

LEMMA AllocateEnough ==
  ASSUME NEW m \in Nat, NEW e \in Nat, Allocate(m, e)
  PROVE  max_element' \in Nat /\ e <= max_element' /\ m <= max_element'
BY DEF Allocate

(* A careful call of desc_get_rec initialises exactly the records that it  *)
(* adds to the list, and perhaps a slot behind the list.                   *)
LEMMA GetRecCareful ==
  ASSUME IInv, Practices = {}, NEW r \in Slots, GetRec(r)
  PROVE  /\ \A i \in Slots : i <= r \/ i < count => (i \in Cleared(r) <=> i \in count .. r)
         /\ elements' \in 0 .. MaxRec /\ elements <= elements'
         /\ r < elements' \/ r < count
         /\ max_element' \in Nat /\ elements' <= max_element'
         /\ max_element <= max_element'
         /\ wild' = FALSE
<1>1. /\ count \in -1 .. MaxRec /\ elements \in 0 .. MaxRec /\ max_element \in Nat
      /\ elements <= max_element /\ count <= max_element /\ r \in 0 .. MaxRec - 1
  BY DEF IInv, TypeOK, InBounds, Slots
<1>2. \/ r < count
      \/ count >= 0 /\ count < elements /\ r = count
      \/ count >= 0 /\ count = elements /\ count <= r
      \/ count = -1 /\ r = 0
  BY <1>1 DEF GetRec, Reuses, Length, Lead
<1>3. \A i \in Slots : i <= r \/ i < count => (i \in Cleared(r) <=> i \in count .. r)
  BY <1>1, <1>2 DEF Cleared, Reuses, Appended, Length, Lead, Slots
<1>4. /\ elements' \in 0 .. MaxRec /\ elements <= elements'
      /\ r < elements' \/ r < count
  BY <1>1, <1>2 DEF GetRec, Appended, Length, Lead
<1>5. /\ max_element' \in Nat /\ elements' <= max_element'
      /\ max_element <= max_element'
  BY <1>1, <1>4, AllocateEnough DEF GetRec
<1>6. wild = FALSE
  BY DEF IInv, TypeOK, InBounds
<1>7. ~(Reuses(r) /\ r >= AllocatedBefore)
  <2>1. Increment \in Nat \ {0}
    OBVIOUS
  <2> QED BY <1>1, <1>2, <2>1 DEF Reuses, AllocatedBefore, Length, Lead
<1> QED BY <1>3, <1>4, <1>5, <1>6, <1>7 DEF GetRec

LEMMA InitIInv == Init => IInv
<1> SUFFICES ASSUME Init PROVE IInv
  OBVIOUS
<1>1. /\ count = 0 /\ elements = 0 /\ max_element = Increment /\ wild = FALSE
      /\ kind \in {"apd", "ard"} /\ source \in RecordList
  BY DEF Init
<1>2. slot \in [Slots -> Buffer \cup {Unbound, Garbage}]
  BY DEF Init
<1>3. TypeOK
  <2>1. count \in 0 .. MaxRec /\ elements \in 0 .. MaxRec /\ max_element \in Nat
    BY <1>1
  <2>2. wild \in BOOLEAN
    BY <1>1
  <2> QED BY <1>1, <1>2, <2>1, <2>2 DEF TypeOK
<1>4. InBounds
  BY <1>1 DEF InBounds
<1>5. Initialised
  BY <1>1 DEF Initialised, Slots
<1> QED BY <1>3, <1>4, <1>5 DEF IInv

(* What growing the list to n records, some of them rewritten, leaves.     *)
LEMMA GrownIInv ==
  ASSUME IInv, NEW n \in 0 .. MaxRec, count' = n, n >= count,
         kind' = kind, source' = source, wild' = FALSE,
         elements' \in 0 .. MaxRec, n <= elements' \/ n = count,
         max_element' \in Nat, elements' <= max_element', max_element <= max_element',
         slot' \in [Slots -> Buffer \cup {Unbound, Garbage}],
         \A i \in Slots : i < n => slot'[i] # Garbage
  PROVE  IInv'
<1>1. TypeOK'
  <2>1. count' \in (IF kind' = "ard" THEN -1 ELSE 0) .. MaxRec
    OBVIOUS
  <2>2. kind' \in {"apd", "ard"} /\ source' \in RecordList /\ wild' \in BOOLEAN
    BY DEF IInv, TypeOK
  <2> QED BY <2>1, <2>2 DEF TypeOK
<1>2. InBounds'
  BY DEF IInv, TypeOK, InBounds
<1>3. Initialised'
  BY DEF Initialised
<1> QED BY <1>1, <1>2, <1>3 DEF IInv

(* What giving up the records beyond n leaves. *)
LEMMA KeptIInv ==
  ASSUME IInv, NEW n \in 0 .. Length, count' = n,
         elements' \in 0 .. MaxRec, elements' <= elements,
         kind' = kind, max_element' = max_element, slot' = slot,
         wild' = wild, source' = source
  PROVE  IInv' /\ List!Resize(n)
<1>1. /\ count \in -1 .. MaxRec /\ elements \in 0 .. MaxRec
      /\ max_element \in Nat /\ count <= max_element /\ elements <= max_element
  BY DEF IInv, TypeOK, InBounds
<1>2. /\ n \in 0 .. MaxRec /\ (n <= count \/ n = 0)
      /\ elements' <= max_element /\ n <= max_element
  BY <1>1 DEF Length
<1>3. TypeOK'
  BY <1>2 DEF IInv, TypeOK
<1>4. InBounds'
  BY <1>2 DEF IInv, InBounds
<1>5. Initialised'
  <2>1. ASSUME NEW i \in Slots, i < n PROVE slot[i] # Garbage
    <3>1. i < count
      BY <1>1, <1>2, <2>1 DEF Slots
    <3> QED BY <3>1 DEF IInv, Initialised
  <2> QED BY <2>1 DEF Initialised
<1>6. bound' = List!Resized(n)
  <2>1. bound' = [i \in 1 .. n |-> slot[i - 1]]
    BY DEF bound
  <2>2. ASSUME NEW i \in 1 .. n
        PROVE  slot[i - 1] = IF i <= Length THEN bound[i] ELSE Unbound
    BY <1>1, <1>2 DEF bound, Length
  <2> QED BY <2>1, <2>2 DEF List!Resized
<1>7. Length' = n
  BY <1>2 DEF Length
<1> QED BY <1>3, <1>4, <1>5, <1>6, <1>7 DEF IInv, List!Resize

LEMMA BindRecordSafe ==
  ASSUME IInv, Practices = {}, NEW n \in 1 .. MaxRec, NEW b \in Buffer, BindRecord(n, b)
  PROVE  IInv' /\ List!Bind(n, b)
<1> DEFINE k == IF n > count THEN n ELSE count
<1>1. /\ count \in -1 .. MaxRec /\ n - 1 \in Slots
      /\ slot \in [Slots -> Buffer \cup {Unbound, Garbage}]
  BY DEF IInv, TypeOK, Slots
<1>2. /\ \A i \in Slots : i <= n - 1 \/ i < count =>
            (i \in Cleared(n - 1) <=> i \in count .. n - 1)
      /\ elements' \in 0 .. MaxRec /\ (n - 1 < elements' \/ n - 1 < count)
      /\ max_element' \in Nat /\ elements' <= max_element'
      /\ max_element <= max_element' /\ wild' = FALSE
  BY <1>1, GetRecCareful DEF BindRecord
<1>3. /\ count' = k /\ kind' = kind /\ source' = source
      /\ slot' = [SlotsAfter(Cleared(n - 1)) EXCEPT ![n - 1] = b]
  BY <1>2 DEF BindRecord
<1>4. ASSUME NEW i \in Slots, i < k
      PROVE  slot'[i] = IF i = n - 1 THEN b
                        ELSE IF i \in count .. n - 1 THEN Unbound ELSE slot[i]
  <2>1. slot'[i] = IF i = n - 1 THEN b ELSE SlotsAfter(Cleared(n - 1))[i]
    BY <1>1, <1>3 DEF SlotsAfter
  <2>2. SlotsAfter(Cleared(n - 1))[i] = IF i \in Cleared(n - 1) THEN Unbound ELSE slot[i]
    BY DEF SlotsAfter
  <2>3. i <= n - 1 \/ i < count
    BY <1>1, <1>4 DEF Slots
  <2> QED BY <1>2, <2>1, <2>2, <2>3
<1>5. slot' \in [Slots -> Buffer \cup {Unbound, Garbage}]
  BY <1>1, <1>3 DEF SlotsAfter
<1>6. \A i \in Slots : i < k => slot'[i] # Garbage
  BY <1>1, <1>4 DEF IInv, Initialised, Slots
<1>7. IInv'
  <2>1. k \in 0 .. MaxRec /\ k >= count /\ (k <= elements' \/ k = count)
    BY <1>1, <1>2
  <2> QED BY <2>1, <1>2, <1>3, <1>5, <1>6, GrownIInv
<1>8. bound' = [List!Resized(k) EXCEPT ![n] = b]
  <2>1. bound' = [i \in 1 .. k |-> slot'[i - 1]]
    BY <1>3 DEF bound
  <2>2. ASSUME NEW i \in 1 .. k
        PROVE  slot'[i - 1] = IF i = n THEN b ELSE IF i <= Length THEN bound[i] ELSE Unbound
    <3>1. i - 1 \in Slots /\ i - 1 < k
      BY <1>1 DEF Slots
    <3>2. i <= Length => bound[i] = slot[i - 1] /\ i <= count
      BY <1>1 DEF bound, Length
    <3>3. ~(i <= Length) => i > count
      BY <1>1 DEF Length
    <3> QED BY <1>1, <1>4, <3>1, <3>2, <3>3
  <2> QED BY <2>1, <2>2 DEF List!Resized
<1>9. k = IF n > Length THEN n ELSE Length
  BY <1>1 DEF Length
<1>10. Length' = k
  BY <1>1, <1>3 DEF Length
<1> QED BY <1>3, <1>7, <1>8, <1>9, <1>10 DEF List!Bind

LEMMA PrepareRecordsSafe ==
  ASSUME IInv, Practices = {}, NEW n \in 1 .. MaxRec, PrepareRecords(n)
  PROVE  IInv' /\ List!Resize(n)
<1>1. /\ count \in 0 .. MaxRec /\ elements \in 0 .. MaxRec /\ count <= elements
      /\ n > count /\ max_element \in Nat /\ elements <= max_element
      /\ slot \in [Slots -> Buffer \cup {Unbound, Garbage}] /\ wild = FALSE
  BY DEF PrepareRecords, ClearedInTurn, IInv, TypeOK, InBounds
<1>2. /\ elements' = IF n > elements THEN n ELSE elements
      /\ slot' = SlotsAfter(count .. n - 1)
      /\ count' = n /\ kind' = kind /\ wild' = wild /\ source' = source
      /\ Allocate(max_element, elements')
  BY <1>1 DEF PrepareRecords, ClearedInTurn
<1>3. elements' \in 0 .. MaxRec
  BY <1>1, <1>2
<1>4. max_element' \in Nat /\ elements' <= max_element' /\ max_element <= max_element'
  BY <1>1, <1>2, <1>3, AllocateEnough
<1>5. \A i \in Slots : slot'[i] = IF i \in count .. n - 1 THEN Unbound ELSE slot[i]
  BY <1>2 DEF SlotsAfter
<1>6. slot' \in [Slots -> Buffer \cup {Unbound, Garbage}]
  BY <1>1, <1>2 DEF SlotsAfter
<1>7. \A i \in Slots : i < n => slot'[i] # Garbage
  BY <1>1, <1>5 DEF IInv, Initialised, Slots
<1>8. IInv'
  <2>1. n >= count /\ n <= elements'
    BY <1>1, <1>2
  <2>2. wild' = FALSE /\ count' = n /\ kind' = kind /\ source' = source
    BY <1>1, <1>2
  <2>3. n \in 0 .. MaxRec /\ (n <= elements' \/ n = count)
    BY <2>1
  <2> QED BY <2>1, <2>2, <2>3, <1>3, <1>4, <1>6, <1>7, GrownIInv
<1>9. bound' = List!Resized(n)
  <2>1. bound' = [i \in 1 .. n |-> slot'[i - 1]]
    BY <1>2 DEF bound
  <2>2. ASSUME NEW i \in 1 .. n
        PROVE  slot'[i - 1] = IF i <= Length THEN bound[i] ELSE Unbound
    <3>1. i - 1 \in Slots
      BY <1>1 DEF Slots
    <3>2. i <= count => bound[i] = slot[i - 1]
      BY <1>1 DEF bound
    <3>3. Length = count
      BY <1>1 DEF Length
    <3> QED BY <1>1, <1>5, <3>1, <3>2, <3>3
  <2> QED BY <2>1, <2>2 DEF List!Resized
<1>10. Length' = n
  BY <1>2 DEF Length
<1> QED BY <1>2, <1>8, <1>9, <1>10 DEF List!Resize

LEMMA SetCountSafe ==
  ASSUME IInv, Practices = {}, NEW n \in 0 .. MaxRec, SetCount(n)
  PROVE  IInv' /\ List!Resize(n)
<1>1. /\ count \in -1 .. MaxRec /\ slot \in [Slots -> Buffer \cup {Unbound, Garbage}]
      /\ count' = n /\ kind' = kind /\ source' = source
  BY DEF SetCount, IInv, TypeOK
<1>2. CASE n > Length
  <2>1. n - 1 \in Slots /\ GetRec(n - 1)
    BY <1>1, <1>2 DEF SetCount, Slots, Length
  <2>2. /\ \A i \in Slots : i <= n - 1 \/ i < count =>
              (i \in Cleared(n - 1) <=> i \in count .. n - 1)
        /\ elements' \in 0 .. MaxRec /\ (n - 1 < elements' \/ n - 1 < count)
        /\ max_element' \in Nat /\ elements' <= max_element'
        /\ max_element <= max_element' /\ wild' = FALSE
    BY <2>1, GetRecCareful
  <2>3. slot' = SlotsAfter(Cleared(n - 1))
    BY <1>2 DEF SetCount
  <2>4. \A i \in Slots : i < n =>
           slot'[i] = IF i \in count .. n - 1 THEN Unbound ELSE slot[i]
    <3>1. \A i \in Slots : slot'[i] = IF i \in Cleared(n - 1) THEN Unbound ELSE slot[i]
      BY <2>3 DEF SlotsAfter
    <3> QED BY <2>2, <3>1 DEF Slots
  <2>5. slot' \in [Slots -> Buffer \cup {Unbound, Garbage}]
    BY <1>1, <2>3 DEF SlotsAfter
  <2>6. \A i \in Slots : i < n => slot'[i] # Garbage
    BY <1>1, <2>4 DEF IInv, Initialised, Slots
  <2>7. IInv'
    <3>1. n >= count /\ (n <= elements' \/ n = count)
      BY <1>1, <1>2, <2>2 DEF Length
    <3> QED BY <3>1, <1>1, <2>2, <2>5, <2>6, GrownIInv
  <2>8. bound' = List!Resized(n)
    <3>1. bound' = [i \in 1 .. n |-> slot'[i - 1]]
      BY <1>1 DEF bound
    <3>2. ASSUME NEW i \in 1 .. n
          PROVE  slot'[i - 1] = IF i <= Length THEN bound[i] ELSE Unbound
      <4>1. i - 1 \in Slots
        BY <1>1 DEF Slots
      <4>2. i <= Length => bound[i] = slot[i - 1]
        BY <1>1 DEF bound, Length
      <4>3. i <= Length <=> ~(i - 1 \in count .. n - 1)
        BY <1>1 DEF Length
      <4>4. i - 1 < n
        OBVIOUS
      <4> QED BY <2>4, <4>1, <4>2, <4>3, <4>4
    <3> QED BY <3>1, <3>2 DEF List!Resized
  <2>9. Length' = n
    BY <1>1 DEF Length
  <2> QED BY <1>1, <2>7, <2>8, <2>9 DEF List!Resize
<1>3. CASE ~(n > Length)
  <2>1. UNCHANGED <<elements, max_element, slot, wild>>
    BY <1>3 DEF SetCount
  <2>2. n \in 0 .. Length /\ elements' \in 0 .. MaxRec /\ elements' <= elements
    BY <1>1, <1>3, <2>1 DEF IInv, TypeOK, Length
  <2> QED BY <1>1, <2>1, <2>2, KeptIInv
<1> QED BY <1>2, <1>3

LEMMA ResetSafe ==
  ASSUME IInv, ResetParams \/ UnbindAll
  PROVE  IInv' /\ List!Resize(0)
<1>1. /\ count' = 0 /\ elements' \in 0 .. MaxRec /\ elements' <= elements
      /\ UNCHANGED <<kind, max_element, slot, wild, source>>
  BY DEF ResetParams, UnbindAll, IInv, TypeOK
<1>2. 0 \in 0 .. Length
  BY DEF IInv, TypeOK, Length
<1> QED BY <1>1, <1>2, KeptIInv

LEMMA UnbindColSafe ==
  ASSUME IInv, NEW n \in 0 .. MaxRec, UnbindCol(n)
  PROVE  /\ IInv'
         /\ \/ n \in 1 .. MaxRec /\ List!Bind(n, Unbound)
            \/ \E k \in 0 .. MaxRec : List!Resize(k)
<1>1. /\ kind = "ard" /\ count \in -1 .. MaxRec /\ n <= count
      /\ slot \in [Slots -> Buffer \cup {Unbound, Garbage}]
      /\ UNCHANGED <<kind, elements, max_element, wild, source>>
  BY DEF UnbindCol, IInv, TypeOK
<1>4. CASE n = count /\ n = 0
  <2>1. count' = -1 /\ slot' = slot
    BY <1>4 DEF UnbindCol
  <2>2. Length = 0 /\ Length' = 0
    BY <1>4, <2>1 DEF Length
  <2>3. IInv'
    <3>1. TypeOK'
      BY <1>1, <2>1 DEF IInv, TypeOK
    <3>2. InBounds'
      BY <1>1, <2>1 DEF IInv, TypeOK, InBounds
    <3>3. Initialised'
      BY <2>1 DEF Initialised, Slots
    <3> QED BY <3>1, <3>2, <3>3 DEF IInv
  <2>4. bound' = List!Resized(0)
    <3>1. 1 .. count' = {} /\ 1 .. 0 = {}
      BY <2>1
    <3>2. bound' = [i \in 1 .. count' |-> slot'[i - 1]]
      BY DEF bound
    <3> QED BY <3>1, <3>2 DEF List!Resized
  <2> QED BY <1>1, <2>2, <2>3, <2>4 DEF List!Resize
<1>2. CASE n = count /\ n > 0
  <2>1. count' \in 0 .. count - 1 /\ slot' = slot
    BY <1>2 DEF UnbindCol
  <2>2. PICK k \in 0 .. Length : count' = k
    BY <1>1, <1>2, <2>1 DEF Length
  <2>3. elements' \in 0 .. MaxRec /\ elements' <= elements
    BY <1>1 DEF IInv, TypeOK
  <2>4. IInv' /\ List!Resize(k)
    BY <1>1, <2>1, <2>2, <2>3, KeptIInv
  <2>5. k \in 0 .. MaxRec
    BY <1>1, <1>2 DEF Length
  <2> QED BY <2>4, <2>5
<1>3. CASE n # count
  <2>1. /\ count' = count /\ slot' = [slot EXCEPT ![n - 1] = Unbound] /\ n - 1 \in Slots
        /\ n \in 1 .. MaxRec /\ Length = count /\ Length' = count
    BY <1>1, <1>3 DEF UnbindCol, Slots, Length
  <2>2. IInv'
    <3>1. TypeOK'
      BY <1>1, <2>1 DEF IInv, TypeOK
    <3>2. InBounds'
      BY <1>1, <2>1 DEF IInv, InBounds
    <3>3. Initialised'
      BY <1>1, <2>1 DEF IInv, Initialised
    <3> QED BY <3>1, <3>2, <3>3 DEF IInv
  <2>3. bound' = [List!Resized(count) EXCEPT ![n] = Unbound]
    <3> DEFINE old == List!Resized(count)
    <3>1. bound' = [i \in 1 .. count |-> slot'[i - 1]]
      BY <2>1 DEF bound
    <3>2. ASSUME NEW i \in 1 .. count
          PROVE  slot'[i - 1] = IF i = n THEN Unbound ELSE bound[i]
      <4>1. i - 1 \in Slots /\ bound[i] = slot[i - 1]
        BY <1>1 DEF Slots, bound
      <4> QED BY <1>1, <2>1, <4>1
    <3>3. old = [i \in 1 .. count |-> bound[i]]
      BY <1>1, <2>1 DEF List!Resized
    <3> HIDE DEF old
    <3>4. [old EXCEPT ![n] = Unbound]
            = [i \in 1 .. count |-> IF i = n THEN Unbound ELSE bound[i]]
      BY <3>3
    <3> QED BY <3>1, <3>2, <3>4 DEF old
  <2>4. List!Bind(n, Unbound)
    <3>1. ~(n > count)
      BY <1>1
    <3> QED BY <1>1, <2>1, <2>3, <3>1 DEF List!Bind
  <2> QED BY <2>1, <2>2, <2>4
<1> QED BY <1>1, <1>2, <1>3, <1>4

LEMMA CopyDescSafe ==
  ASSUME IInv, CopyDesc
  PROVE  IInv' /\ List!Copy
<1>1. /\ SourceCount \in 0 .. MaxRec
      /\ source \in [1 .. SourceCount -> Buffer \cup {Unbound}]
  BY SourceCountIs DEF IInv, TypeOK
<1>2. /\ count' = SourceCount /\ elements' = 0 /\ Allocate(Increment, SourceCount)
      /\ slot' = [i \in Slots |-> IF i < SourceCount THEN source[i + 1] ELSE Garbage]
      /\ UNCHANGED <<kind, wild, source>>
  BY DEF CopyDesc
<1>3. max_element' \in Nat /\ SourceCount <= max_element'
  BY <1>1, <1>2, AllocateEnough
<1>4. ASSUME NEW i \in Slots
      PROVE  /\ i < SourceCount => slot'[i] = source[i + 1] /\ i + 1 \in 1 .. SourceCount
             /\ slot'[i] \in Buffer \cup {Unbound, Garbage}
  BY <1>1, <1>2 DEF Slots
<1>5. TypeOK'
  <2>1. slot' \in [Slots -> Buffer \cup {Unbound, Garbage}]
    BY <1>2, <1>4
  <2> QED BY <1>1, <1>2, <1>3, <2>1 DEF IInv, TypeOK
<1>6. InBounds'
  BY <1>1, <1>2, <1>3 DEF IInv, InBounds
<1>7. Initialised'
  BY <1>1, <1>2, <1>4 DEF Initialised
<1>8. bound' = source
  <2>1. bound' = [i \in 1 .. SourceCount |-> slot'[i - 1]]
    BY <1>2 DEF bound
  <2>2. ASSUME NEW i \in 1 .. SourceCount PROVE slot'[i - 1] = source[i]
    <3>1. i - 1 \in Slots /\ i - 1 < SourceCount
      BY <1>1 DEF Slots
    <3> QED BY <1>2, <3>1
  <2> QED BY <1>1, <2>1, <2>2
<1>9. source \in List!Records(SourceCount)
  BY <1>1 DEF List!Records
<1>10. Length' = SourceCount
  BY <1>1, <1>2 DEF Length
<1> QED BY <1>10, <1>1, <1>2, <1>5, <1>6, <1>7, <1>8, <1>9 DEF IInv, List!Copy

-----------------------------------------------------------------------------
(* Each step keeps the invariant and is a step of the list of bindings.    *)
LEMMA NextSafe ==
  ASSUME IInv, Practices = {}, [Next]_vars
  PROVE  IInv' /\ [List!AbsNext]_(List!absVars)
<1>1. ASSUME NEW n \in 1 .. MaxRec, NEW b \in Buffer, BindRecord(n, b)
      PROVE  IInv' /\ List!AbsNext
  BY <1>1, BindRecordSafe DEF List!AbsNext
<1>2. ASSUME NEW n \in 1 .. MaxRec, PrepareRecords(n) PROVE IInv' /\ List!AbsNext
  BY <1>2, PrepareRecordsSafe DEF List!AbsNext
<1>3. ASSUME NEW n \in 0 .. MaxRec, SetCount(n) PROVE IInv' /\ List!AbsNext
  BY <1>3, SetCountSafe DEF List!AbsNext
<1>4. ASSUME ResetParams \/ UnbindAll PROVE IInv' /\ List!AbsNext
  BY <1>4, ResetSafe DEF List!AbsNext
<1>5. ASSUME NEW n \in 0 .. MaxRec, UnbindCol(n) PROVE IInv' /\ List!AbsNext
  <2>1. IInv' /\ ((n \in 1 .. MaxRec /\ List!Bind(n, Unbound)) \/ \E k \in 0 .. MaxRec : List!Resize(k))
    BY <1>5, UnbindColSafe
  <2> QED BY <2>1 DEF List!AbsNext
<1>6. ASSUME CopyDesc PROVE IInv' /\ List!AbsNext
  BY <1>6, CopyDescSafe DEF List!AbsNext
<1>7. CASE UNCHANGED vars
  BY <1>7 DEF vars, IInv, TypeOK, InBounds, Initialised, List!absVars, bound, Length
<1> QED BY <1>1, <1>2, <1>3, <1>4, <1>5, <1>6, <1>7 DEF Next

(* The invariant holds of every behaviour of a careful application.        *)
THEOREM Invariance == ASSUME Practices = {} PROVE Spec => []IInv
<1>1. Init => IInv
  BY InitIInv
<1>2. IInv /\ [Next]_vars => IInv'
  BY NextSafe
<1> QED BY <1>1, <1>2, PTL DEF Spec

LEMMA GetRecTypes ==
  ASSUME TypeOK, NEW r \in Slots, GetRec(r)
  PROVE  elements' \in 0 .. MaxRec /\ max_element' \in Nat /\ wild' \in BOOLEAN
<1>1. /\ count \in Int /\ elements \in Int /\ r \in Int /\ MaxRec \in Int
      /\ 0 <= elements /\ elements <= MaxRec /\ 0 <= r /\ r + 1 <= MaxRec
      /\ -1 <= count /\ max_element \in Nat
  BY DEF TypeOK, Slots
<1>2. elements' \in 0 .. MaxRec
  BY <1>1 DEF GetRec, Appended, Lead
<1>3. max_element' \in Nat
  BY <1>1, <1>2 DEF GetRec, Allocate
<1>4. wild' \in BOOLEAN
  BY DEF GetRec, TypeOK
<1> QED BY <1>2, <1>3, <1>4

LEMMA ClearedTypes ==
  ASSUME TypeOK, NEW cleared
  PROVE  SlotsAfter(cleared) \in [Slots -> Buffer \cup {Unbound, Garbage}]
BY DEF TypeOK, SlotsAfter

(* Type correctness, for every length of the list and every increment,     *)
(* whatever the application does.                                          *)
THEOREM TypeCorrect == Spec => []TypeOK
<1>1. Init => TypeOK
  BY InitIInv DEF IInv
<1>2. TypeOK /\ [Next]_vars => TypeOK'
  <2> SUFFICES ASSUME TypeOK, [Next]_vars PROVE TypeOK'
    OBVIOUS
  <2>1. ASSUME NEW n \in 1 .. MaxRec, NEW b \in Buffer, BindRecord(n, b) PROVE TypeOK'
    <3>1. n - 1 \in Slots /\ n \in 0 .. MaxRec
      BY DEF Slots
    <3>2. elements' \in 0 .. MaxRec /\ max_element' \in Nat /\ wild' \in BOOLEAN
      BY <2>1, <3>1, GetRecTypes DEF BindRecord
    <3>3. slot' \in [Slots -> Buffer \cup {Unbound, Garbage}]
      BY <2>1, <3>1, ClearedTypes DEF BindRecord
    <3> QED BY <2>1, <3>1, <3>2, <3>3 DEF BindRecord, TypeOK
  <2>2. ASSUME NEW n \in 1 .. MaxRec, PrepareRecords(n) PROVE TypeOK'
    <3> DEFINE from == IF count > elements THEN elements ELSE count
               to   == from + n - count
    <3>1. /\ count \in Int /\ elements \in Int /\ n \in Int /\ MaxRec \in Int
          /\ 0 <= elements /\ elements <= MaxRec /\ n <= MaxRec /\ count < n /\ 0 <= count
          /\ max_element \in Nat /\ n \in 0 .. MaxRec
      BY <2>2 DEF TypeOK, PrepareRecords
    <3>2. /\ elements' = IF to > elements THEN to ELSE elements
          /\ slot' = SlotsAfter(ClearedInTurn(from, to))
      BY <2>2 DEF PrepareRecords
    <3>3. elements' \in 0 .. MaxRec
      BY <3>1, <3>2
    <3>4. max_element' \in Nat
      BY <2>2, <3>1, <3>3 DEF PrepareRecords, Allocate
    <3>5. slot' \in [Slots -> Buffer \cup {Unbound, Garbage}]
      BY <3>2, ClearedTypes
    <3> QED BY <2>2, <3>1, <3>3, <3>4, <3>5 DEF PrepareRecords, TypeOK
  <2>3. ASSUME NEW n \in 0 .. MaxRec, SetCount(n) PROVE TypeOK'
    <3>1. CASE n > Length
      <4>1. n - 1 \in Slots
        BY <3>1 DEF Slots, TypeOK, Length
      <4>2. elements' \in 0 .. MaxRec /\ max_element' \in Nat /\ wild' \in BOOLEAN
        BY <2>3, <3>1, <4>1, GetRecTypes DEF SetCount
      <4>3. slot' \in [Slots -> Buffer \cup {Unbound, Garbage}]
        BY <2>3, <3>1, ClearedTypes DEF SetCount
      <4> QED BY <2>3, <4>2, <4>3 DEF SetCount, TypeOK
    <3>2. CASE ~(n > Length)
      BY <2>3, <3>2 DEF SetCount, TypeOK
    <3> QED BY <3>1, <3>2
  <2>4. ASSUME ResetParams \/ UnbindAll PROVE TypeOK'
    BY <2>4 DEF ResetParams, UnbindAll, TypeOK
  <2>5. ASSUME NEW n \in 0 .. MaxRec, UnbindCol(n) PROVE TypeOK'
    <3>1. kind = "ard" /\ count' \in -1 .. MaxRec
      BY <2>5 DEF UnbindCol, TypeOK
    <3>2. slot' \in [Slots -> Buffer \cup {Unbound, Garbage}]
      BY <2>5 DEF UnbindCol, TypeOK
    <3> QED BY <2>5, <3>1, <3>2 DEF UnbindCol, TypeOK
  <2>6. ASSUME CopyDesc PROVE TypeOK'
    <3>1. SourceCount \in 0 .. MaxRec /\ source \in [1 .. SourceCount -> Buffer \cup {Unbound}]
      BY SourceCountIs DEF TypeOK
    <3>2. max_element' \in Nat
      BY <2>6, <3>1 DEF CopyDesc, Allocate
    <3>3. \A i \in Slots : i < SourceCount => source[i + 1] \in Buffer \cup {Unbound}
      <4> TAKE i \in Slots
      <4> HAVE i < SourceCount
      <4>1. i + 1 \in 1 .. SourceCount
        BY <3>1 DEF Slots
      <4> QED BY <3>1, <4>1
    <3>4. slot' \in [Slots -> Buffer \cup {Unbound, Garbage}]
      BY <2>6, <3>3 DEF CopyDesc
    <3> QED BY <2>6, <3>1, <3>2, <3>4 DEF CopyDesc, TypeOK
  <2>7. CASE UNCHANGED vars
    BY <2>7 DEF vars, TypeOK
  <2> QED BY <2>1, <2>2, <2>3, <2>4, <2>5, <2>6, <2>7 DEF Next
<1> QED BY <1>1, <1>2, PTL DEF Spec

(* The array of slots implements the application's list of bindings: no    *)
(* binding is revived, lost or overwritten.                                *)
THEOREM Refinement == ASSUME Practices = {} PROVE Spec => ImplementsBindings
<1>1. Init => List!AbsInit
  <2> SUFFICES ASSUME Init PROVE List!AbsInit
    OBVIOUS
  <2>1. bound = List!Resized(0) /\ Length = 0
    BY DEF Init, bound, Length, List!Resized
  <2>2. \E k \in 0 .. MaxRec : source \in List!Records(k)
    BY DEF Init, RecordList, List!Records
  <2> QED BY <2>1, <2>2 DEF List!AbsInit
<1>2. Init => IInv
  BY InitIInv
<1>3. IInv /\ [Next]_vars => IInv' /\ [List!AbsNext]_(List!absVars)
  BY NextSafe
<1> QED BY <1>1, <1>2, <1>3, PTL DEF Spec, ImplementsBindings, List!AbsSpec
=============================================================================
