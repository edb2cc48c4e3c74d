----------------------------- MODULE FileHistory -----------------------------
(***************************************************************************)
(* What `rvcs snapshot` promises about one file: a line of versions that   *)
(* only ever grows at its end, by a version that differs from the one      *)
(* before.                                                                 *)
(***************************************************************************)
EXTENDS Sequences

CONSTANTS Version       \* what a snapshot says of the file itself

VARIABLE line           \* the versions recorded so far, oldest first

Init == line = <<>>

Record(v) ==
    /\ line = <<>> \/ line[Len(line)] # v
    /\ line' = Append(line, v)

Next == \E v \in Version : Record(v)

Spec == Init /\ [][Next]_line
=============================================================================
