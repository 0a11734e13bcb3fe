--------------------------- MODULE MCDescRecords ---------------------------
(* DescRecords for TLC, with interchangeable buffers. *)
EXTENDS DescRecords, TLC

Symmetry == Permutations(Buffer)
=============================================================================
