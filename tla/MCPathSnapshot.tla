---------------------------- MODULE MCPathSnapshot ----------------------------
(***************************************************************************)
(* Small instances of PathSnapshot.                                        *)
(***************************************************************************)
EXTENDS PathSnapshot

CONSTANTS d2, m1,   \* contents and mode of the snapshot of another path
          gone1, gone2    \* snapshots that the archive does not have

NoFiles == <<>>

\* A snapshot of another path, imported without its parent.
OtherFile == <<[contents |-> d2, mode |-> m1, parents |-> <<gone1>>]>>
=============================================================================
