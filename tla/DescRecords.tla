---------------------------- MODULE DescRecords ----------------------------
(***************************************************************************)
(* The records of an application descriptor (driver/desc.c): a dynamic     *)
(* array of `elements` initialised slots, of which the first `count` are   *)
(* the descriptor's records.  The two numbers drift apart: some calls      *)
(* lower count and leave the slots for reuse, SQLCopyDesc copies the slots *)
(* and not their number; desc_get_rec has to make records out of what it   *)
(* finds.  A record is what is bound to it, the rest of it follows that.   *)
(***************************************************************************)
EXTENDS Integers

CONSTANTS MaxRec,     \* bound: highest record number, and slots of the array
          Buffer,     \* application buffers
          Unbound,    \* a record just initialised by desc_rec_init_apd or _ard
          Garbage,    \* memory nobody initialised
          Increment,  \* slots the array is allocated by
          Practices   \* calls beyond the careful use below

(***************************************************************************)
(* "skip_record": add records from beyond count + 1 on while slots of an   *)
(*     earlier, longer list are still there;                               *)
(* "grow_copy": add records to a descriptor that was copied into.          *)
(***************************************************************************)
ASSUME DescRecordsAssumption ==
  /\ MaxRec \in Nat \ {0} /\ Increment \in Nat \ {0}
  /\ Unbound \notin Buffer /\ Garbage \notin Buffer \cup {Unbound}
  /\ Practices \subseteq {"skip_record", "grow_copy"}

VARIABLES
  kind,         \* "apd" or "ard"
  count,        \* desc->count
  elements,     \* desc->records.elements
  max_element,  \* desc->records.max_element
  slot,         \* desc->records.buffer, of which max_element slots are allocated
  wild,         \* a slot beyond the allocated ones was written
  source        \* the records of another descriptor, to copy from

vars == <<kind, count, elements, max_element, slot, wild, source>>

Slots == 0 .. MaxRec - 1

RecordList == UNION {[1 .. k -> Buffer \cup {Unbound}] : k \in 0 .. MaxRec}

SourceCount == CHOOSE k \in 0 .. MaxRec : DOMAIN source = 1 .. k

TypeOK == /\ kind \in {"apd", "ard"}
          /\ count \in (IF kind = "ard" THEN -1 ELSE 0) .. MaxRec
          /\ elements \in 0 .. MaxRec
          /\ max_element \in Nat
          /\ slot \in [Slots -> Buffer \cup {Unbound, Garbage}]
          /\ wild \in BOOLEAN
          /\ source \in RecordList

(* An array that had m slots allocated gets room for e of them: one        *)
(* increment at a time, no more of them than needed.                       *)
Allocate(m, e) ==
  \E k \in 0 .. MaxRec : /\ max_element' = m + k * Increment
                         /\ e <= max_element'
                         /\ k > 0 => max_element' - Increment < e

Init == /\ kind \in {"apd", "ard"}
        /\ count = 0 /\ elements = 0 /\ max_element = Increment
        /\ slot = [i \in Slots |-> Garbage]
        /\ wild = FALSE
        /\ source \in RecordList

-----------------------------------------------------------------------------
(***************************************************************************)
(* desc_get_rec(desc, r, TRUE), r counted from 0: one round for each i in  *)
(* count .. r.  While slots are left over (i < elements) a round           *)
(* initialises slot r, not slot i; after that it appends a slot.           *)
(*                                                                         *)
(* After SQLBindCol has unbound column 0 of a descriptor without records,  *)
(* count is -1.  The rounds then begin with -1, which as an unsigned       *)
(* number is not below elements: that round leads in with a slot more.     *)
(***************************************************************************)
Length == IF count < 0 THEN 0 ELSE count
Lead   == IF count < 0 THEN 1 ELSE 0

Reuses(r)   == Length < elements + Lead /\ Length <= r

Appended(r) == LET left  == elements + Lead
                   first == IF count > left THEN count ELSE left
               IN Lead + (IF r < first THEN 0 ELSE r - first + 1)

Cleared(r)  == (IF Reuses(r) THEN {r} ELSE {})
               \cup elements .. elements + Appended(r) - 1

(* The rounds that reuse a slot come before those that append one, but for *)
(* the one that leads in.                                                  *)
AllocatedBefore == IF Lead = 1 /\ elements = max_element
                   THEN max_element + Increment ELSE max_element

GetRec(r) ==
  /\ (Reuses(r) /\ Length < r) => "skip_record" \in Practices
  /\ (count > elements /\ count <= r) => "grow_copy" \in Practices
  /\ elements + Appended(r) <= MaxRec
  /\ elements' = elements + Appended(r)
  /\ Allocate(max_element, elements')
  /\ wild' = (wild \/ (Reuses(r) /\ r >= AllocatedBefore))

SlotsAfter(cleared) == [i \in Slots |-> IF i \in cleared THEN Unbound ELSE slot[i]]

(* my_SQLBindParameter, SQLBindCol with a buffer, or MySQLSetDescField of  *)
(* the data pointer of record n.                                           *)
BindRecord(n, b) ==
  /\ GetRec(n - 1)
  /\ count' = IF n > count THEN n ELSE count
  /\ slot' = [SlotsAfter(Cleared(n - 1)) EXCEPT ![n - 1] = b]
  /\ UNCHANGED <<kind, source>>

\* Mutant: the slots left over are taken as they are.
ClearedInTurnNewOnly(from, to) == elements .. to - 1

(* desc_get_rec for one record after the other: each round has i = r.      *)
ClearedInTurn(from, to) == from .. to - 1

(* prepare: records for the first n parameter markers, in ascending order. *)
PrepareRecords(n) ==
  /\ kind = "apd" /\ n > count
  /\ count > elements => "grow_copy" \in Practices
  /\ LET from == IF count > elements THEN elements ELSE count
         to   == from + n - count
     IN /\ elements' = IF to > elements THEN to ELSE elements
        /\ slot' = SlotsAfter(ClearedInTurn(from, to))
  /\ Allocate(max_element, elements')
  /\ count' = n
  /\ UNCHANGED <<kind, wild, source>>

(* MySQLSetDescField(SQL_DESC_COUNT): grows the list through desc_get_rec  *)
(* and then sets count, lower values included.                             *)
SetCount(n) ==
  /\ IF n > Length
     THEN /\ GetRec(n - 1)
          /\ slot' = SlotsAfter(Cleared(n - 1))
     ELSE UNCHANGED <<elements, max_element, slot, wild>>
  /\ count' = n
  /\ UNCHANGED <<kind, source>>

\* Mutant: one parameter less, instead of none.
ResetParamsOneLess ==
  /\ kind = "apd"
  /\ count' = count - 1
  /\ UNCHANGED <<kind, elements, max_element, slot, wild, source>>

(* SQLFreeStmt(SQL_RESET_PARAMS) lowers count only, ... *)
ResetParams ==
  /\ kind = "apd"
  /\ count' = 0
  /\ UNCHANGED <<kind, elements, max_element, slot, wild, source>>

(* ... SQLFreeStmt(SQL_UNBIND) lowers both. *)
UnbindAll ==
  /\ kind = "ard"
  /\ count' = 0 /\ elements' = 0
  /\ UNCHANGED <<kind, max_element, slot, wild, source>>

(* SQLBindCol without buffers: the last column takes along the unbound     *)
(* ones before it, and none of the slots given up is cleared.  Column 0,   *)
(* the bookmark, passes for the last one if there are no records.          *)
UnbindCol(n) ==
  /\ kind = "ard"
  /\ \/ /\ n = count
        /\ count' \in (IF n = 0 THEN {-1} ELSE 0 .. n - 1)
        /\ \A i \in count' + 1 .. n - 1 : i > 0 => slot[i - 1] = Unbound
        /\ count' > 0 => slot[count' - 1] # Unbound
        /\ UNCHANGED slot
     \/ /\ 0 < n /\ n < count
        /\ slot' = [slot EXCEPT ![n - 1] = Unbound]
        /\ UNCHANGED count
  /\ UNCHANGED <<kind, elements, max_element, wild, source>>

(* MySQLCopyDesc into this descriptor: the slots and count of the source,  *)
(* in a new array whose number of elements stays 0.                        *)
CopyDesc ==
  /\ count' = SourceCount
  /\ elements' = 0
  /\ Allocate(Increment, SourceCount)
  /\ slot' = [i \in Slots |-> IF i < SourceCount THEN source[i + 1] ELSE Garbage]
  /\ UNCHANGED <<kind, wild, source>>

Next == \/ \E n \in 1 .. MaxRec, b \in Buffer : BindRecord(n, b)
        \/ \E n \in 1 .. MaxRec : PrepareRecords(n)
        \/ \E n \in 0 .. MaxRec : SetCount(n)
        \/ ResetParams
        \/ UnbindAll
        \/ \E n \in 0 .. MaxRec : UnbindCol(n)
        \/ CopyDesc

Spec == Init /\ [][Next]_vars

-----------------------------------------------------------------------------
(* Every record lies in allocated memory and desc_get_rec, which is to     *)
(* "expand the descriptor to include the given recnum", never writes       *)
(* beyond it.                                                              *)
InBounds == ~wild /\ count <= max_element /\ elements <= max_element

(* The array of slots implements the list of bindings the application      *)
(* expects; a count of -1 is that of a list without records.               *)
bound == [i \in 1 .. count |-> slot[i - 1]]

List == INSTANCE Bindings
          WITH bound <- bound, count <- Length, source <- source

ImplementsBindings == List!AbsSpec
=============================================================================
