---------------------------- MODULE MCFileMirror ----------------------------
(***************************************************************************)
(* Small instances of FileMirror.  The archives do not meet, so one is     *)
(* enough, and none for what only concerns the pushes.                     *)
(***************************************************************************)
EXTENDS FileMirror

\* What the theorems assume of the numbers that are compared: so it is for up to eleven
\* signatures.
ASSUME NumbersSortAssumption ==
    \A m, n \in 0..(Radix - 1) : SortsBefore(m, n) <=> m < n

CONSTANT a

OneArchive == {a}
NoArchive == {}
=============================================================================
