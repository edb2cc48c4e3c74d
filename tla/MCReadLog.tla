------------------------------ MODULE MCReadLog ------------------------------
(***************************************************************************)
(* Small instances of ReadLog: snapshots are numbered in the order they    *)
(* were taken, so that a snapshot only has earlier parents, as hashes      *)
(* guarantee.                                                              *)
(***************************************************************************)
EXTENDS ReadLog, FiniteSets

CONSTANTS MaxSnapshots,     \* number of snapshots
          MaxParents        \* most parents of a snapshot

MCSnapshot == 1..MaxSnapshots

ParentLists(h) == UNION {[1..n -> 1..(h - 1)] : n \in 0..MaxParents}

\* The histories of the first n snapshots.
HistoriesOf[n \in 0..MaxSnapshots] ==
    IF n = 0
    THEN {<<>>}
    ELSE {Append(f, ps) : f \in HistoriesOf[n - 1], ps \in ParentLists(n)}

MCHistories == HistoriesOf[MaxSnapshots]

\* A complete archive, and the archives that lack one snapshot.
MCArchives == {MCSnapshot} \cup {MCSnapshot \ {h} : h \in MCSnapshot}

MCDepths == {-1, 0, 1, 2}
=============================================================================
