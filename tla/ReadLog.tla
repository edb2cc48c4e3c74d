------------------------------- MODULE ReadLog -------------------------------
(***************************************************************************)
(* log.ReadLog (log/log.go), as `rvcs log` and merge.IsAncestor call it:   *)
(* one walk of the history of one snapshot, in an archive that may lack    *)
(* some of the snapshots its graph names.                                  *)
(***************************************************************************)
EXTENDS ArchivedHistory

CONSTANT Depths     \* the values of the -depth flag

ASSUME DepthsAssumption == Depths \subseteq Int

VARIABLES
    start,          \* the snapshot whose log is read
    maxDepth,       \* the depth asked for
    walk            \* the walk

question == <<parents, present, start, maxDepth>>
logVars  == <<parents, present, start, maxDepth, walk>>

LogTypeOK ==
    /\ parents \in [Snapshot -> Seq(Snapshot)]
    /\ present \subseteq Snapshot
    /\ start \in Snapshot
    /\ maxDepth \in Int
    /\ walk \in Walks

LogInit ==
    /\ parents \in Histories
    /\ present \in Archives
    /\ start \in Snapshot
    /\ maxDepth \in Depths
    /\ walk = StartWalk(start)

LogStep == WalkStep(walk, walk', parents, present, maxDepth) /\ UNCHANGED question

\* ReadLog has returned.
LogReturned == WalkDone(walk, maxDepth) /\ UNCHANGED logVars

LogNext == LogStep \/ LogReturned

LogSpec == LogInit /\ [][LogNext]_logVars

\* ReadLog is a loop in one goroutine that waits for nothing.
FairLogSpec == LogSpec /\ WF_logVars(LogStep)

-----------------------------------------------------------------------------
LogFinished == WalkDone(walk, maxDepth) /\ ~walk.failed

\* The log without a depth limit lists the ancestors of the snapshot and
\* nothing else, whatever the shape of the graph: the parents that are
\* skipped as already visited lose nothing.
LogIsAncestry ==
    LogFinished /\ maxDepth < 0 => Range(walk.log) = Ancestors(parents, start)

\* The walk fails only when an ancestor is missing from the archive, and an
\* unlimited walk that succeeds has found every ancestor there.
LogFailsOnlyWhenIncomplete ==
    LET complete == Ancestors(parents, start) \subseteq present
    IN  /\ walk.failed => ~complete
        /\ LogFinished /\ maxDepth < 0 => complete

\* A limited log holds the snapshots fewer than maxDepth parent links away.
Within[d \in Nat] ==
    IF d = 0 THEN {}
    ELSE IF d = 1 THEN {start}
    ELSE Within[d - 1] \cup UNION {Range(parents[h]) : h \in Within[d - 1]}

DepthIsRespected ==
    LogFinished /\ maxDepth >= 0 => Range(walk.log) = Within[maxDepth]

\* Recent snapshots come first: every entry but the first follows one of the
\* snapshots it is a parent of, so the log never shows a snapshot out of the
\* blue, not even before the walk is over.
ExplainedByEarlierEntry ==
    \A j \in 2..Len(walk.log) :
        \E i \in 1..(j - 1) : walk.log[j] \in Range(parents[walk.log[i]])

\* ReadLog returns.
LogTerminates == <>WalkDone(walk, maxDepth)

=============================================================================
