---------------------------- MODULE BaseContract ----------------------------
(***************************************************************************)
(* What merge.Base promises to merge.Merge and mergeWithBase: one answer,  *)
(* which is right for the whole history of both sides, or an error when    *)
(* some of that history is missing.                                        *)
(***************************************************************************)
EXTENDS ArchivedHistory

CONSTANT Nil        \* the nil hash: no snapshot

VARIABLES
    lhs, rhs,       \* the two sides
    status,         \* "running", "done" or "error"
    base            \* the answer

sides == <<parents, present, lhs, rhs>>

Common == Ancestors(parents, lhs) \cap Ancestors(parents, rhs)

\* A side that is an ancestor of the other comes before all other answers.
Bases ==
    IF lhs = rhs THEN {lhs}
    ELSE IF Nil \in {lhs, rhs} \/ Common = {} THEN {Nil}
    ELSE IF lhs \in Common THEN {lhs}
    ELSE IF rhs \in Common THEN {rhs}
    ELSE Common

\* The sides of which no history is missed.
Readable ==
    \/ lhs = rhs \/ Nil \in {lhs, rhs}
    \/ Ancestors(parents, lhs) \cup Ancestors(parents, rhs) \subseteq present

Init == status = "running"

Answer == Readable /\ status' = "done" /\ base' \in Bases

Fail == ~Readable /\ status' = "error" /\ UNCHANGED base

Next == status = "running" /\ (Answer \/ Fail) /\ UNCHANGED sides

Spec == Init /\ [][Next]_<<sides, status, base>>
=============================================================================
