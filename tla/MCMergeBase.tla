----------------------------- MODULE MCMergeBase -----------------------------
(***************************************************************************)
(* Small instances of MergeBase: snapshots are numbered in the order they  *)
(* were taken, and a snapshot only has earlier parents.                    *)
(***************************************************************************)
EXTENDS MergeBase, FiniteSets

CONSTANTS MaxSnapshots,     \* number of snapshots
          MaxParents        \* most parents of a snapshot

MCSnapshot == 1..MaxSnapshots

ParentLists(h) == UNION {[1..n -> 1..(h - 1)] : n \in 0..MaxParents}

\* The histories of the first n snapshots.
HistoriesOf[n \in 0..MaxSnapshots] ==
    IF n = 0
    THEN {<<>>}
    ELSE {Append(f, ps) : f \in HistoriesOf[n - 1], ps \in ParentLists(n)}

MCHistories == HistoriesOf[MaxSnapshots]

\* A complete archive, and the archives that lack one snapshot.
MCArchives == {MCSnapshot} \cup {MCSnapshot \ {h} : h \in MCSnapshot}

\* One history of ordinary use: 5 merges the branch 1, 3 with the longer one
\* 1, 2, 4, and 6, 7, 8 go on from 2.
LateMerge == <<<<>>, <<1>>, <<1>>, <<2>>, <<3, 4>>, <<2>>, <<6>>, <<7>>>>
LateMergeHistory == {LateMerge}
CompleteArchive == {MCSnapshot}
=============================================================================
