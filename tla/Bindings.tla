------------------------------ MODULE Bindings ------------------------------
(***************************************************************************)
(* What an application expects of the records of one application           *)
(* descriptor: a list of bindings, in which a record holds the buffer that *)
(* was bound to it last or nothing at all.  Records that come into being   *)
(* hold nothing, whatever the list held before, and growing the list       *)
(* changes none of the records it has.                                     *)
(***************************************************************************)
EXTENDS Naturals

CONSTANTS MaxRec,    \* highest record number in use
          Buffer,    \* application buffers
          Unbound    \* the content of a record nothing is bound to

VARIABLES bound,     \* bound[i]: what is bound to record i, for i in 1 .. count
          count,     \* SQL_DESC_COUNT
          source     \* the records of the descriptor SQLCopyDesc copies from

absVars == <<bound, count, source>>

Records(k) == [1 .. k -> Buffer \cup {Unbound}]

\* The list with k records, those beyond the present ones unbound.
Resized(k) == [i \in 1 .. k |-> IF i <= count THEN bound[i] ELSE Unbound]

AbsInit == /\ count = 0 /\ bound = Resized(0)
           /\ \E k \in 0 .. MaxRec : source \in Records(k)

Resize(k) == /\ count' = k
             /\ bound' = Resized(k)
             /\ UNCHANGED source

Bind(n, b) == LET k == IF n > count THEN n ELSE count IN
              /\ count' = k
              /\ bound' = [Resized(k) EXCEPT ![n] = b]
              /\ UNCHANGED source

Copy == /\ \E k \in 0 .. MaxRec : source \in Records(k) /\ count' = k
        /\ bound' = source
        /\ UNCHANGED source

AbsNext == \/ \E k \in 0 .. MaxRec : Resize(k)
           \/ \E n \in 1 .. MaxRec, b \in Buffer \cup {Unbound} : Bind(n, b)
           \/ Copy

AbsSpec == AbsInit /\ [][AbsNext]_absVars
=============================================================================
