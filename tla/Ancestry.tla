------------------------------ MODULE Ancestry ------------------------------
(***************************************************************************)
(* The history of a file is a graph of snapshots.  A snapshot is named by  *)
(* the hash of its File object, and the File lists the hashes of the       *)
(* snapshots that came immediately before it (snapshot/file.go).  This     *)
(* module holds that graph, the ancestry relation that merge/base.go       *)
(* defines over it, and the breadth-first walk of log.ReadLog, on which    *)
(* `rvcs log`, merge.Base and merge.IsAncestor are all built.              *)
(*                                                                         *)
(* The walk is kept as a record, so that a module can run several of them. *)
(***************************************************************************)
EXTENDS Integers, Sequences, Functions

CONSTANTS
    Snapshot,       \* the hashes of snapshots
    Histories       \* the graphs considered: functions from a snapshot to
                    \* the list of its parents

ASSUME HistoriesAssumption == Histories \subseteq [Snapshot -> Seq(Snapshot)]

(***************************************************************************)
(* merge/base.go:30-36: every snapshot is an ancestor of itself, and the   *)
(* ancestors of a parent are ancestors.  It is the least set that holds    *)
(* the snapshot and is closed under parents.                               *)
(***************************************************************************)
ClosedUnderParents(parents, S) == \A h \in S : Range(parents[h]) \subseteq S

Ancestors(parents, h) ==
    {a \in Snapshot : \A S \in SUBSET Snapshot :
                          h \in S /\ ClosedUnderParents(parents, S) => a \in S}

-----------------------------------------------------------------------------
(***************************************************************************)
(* The local variables of log.ReadLog.  level is what is left of `queue`,  *)
(* pending what is left of the parents of the snapshot last read.          *)
(***************************************************************************)
Walks == [level   : Seq(Snapshot), pending : Seq(Snapshot),
          next    : Seq(Snapshot), log     : Seq(Snapshot),
          visited : SUBSET Snapshot, depth : Nat, failed : BOOLEAN]

StartWalk(h) ==
    [level |-> <<h>>, pending |-> <<>>, next |-> <<>>, log |-> <<>>,
     visited |-> {}, depth |-> 0, failed |-> FALSE]

\* Fault: one level too many.
WalkDoneLate(w, maxDepth) ==
    \/ w.failed
    \/ maxDepth >= 0 /\ w.depth > maxDepth
    \/ w.level = <<>> /\ w.pending = <<>> /\ w.next = <<>>

\* A negative maxDepth is never reached, so the walk is then unlimited.
WalkDone(w, maxDepth) ==
    \/ w.failed
    \/ w.depth = maxDepth
    \/ w.level = <<>> /\ w.pending = <<>> /\ w.next = <<>>

\* Faults: a missing snapshot is skipped; a snapshot that is read a second time
\* counts as a cycle; only the first parent is followed; the log is reversed.
ReadNextLenient(w, parents, present) ==
    IF Head(w.level) \notin present
    THEN [w EXCEPT !.level = Tail(@)]
    ELSE [w EXCEPT !.level   = Tail(@),
                   !.pending = parents[Head(w.level)],
                   !.visited = @ \cup {Head(w.level)},
                   !.log     = Append(@, Head(w.level))]

ReadNextOnce(w, parents, present) ==
    IF Head(w.level) \in w.visited
    THEN [w EXCEPT !.failed = TRUE]
    ELSE ReadNextLenient(w, parents, present)

ReadNextFirstParent(w, parents, present) ==
    [ReadNextLenient(w, parents, present) EXCEPT
        !.pending = IF @ = <<>> THEN @ ELSE <<Head(@)>>]

ReadNextReversed(w, parents, present) ==
    [ReadNextLenient(w, parents, present) EXCEPT !.log = <<Head(w.level)>> \o w.log]

\* ReadSnapshot fails for a snapshot the archive does not hold, and so does
\* the whole walk.
ReadNext(w, parents, present) ==
    LET h == Head(w.level)
    IN  IF h \notin present
        THEN [w EXCEPT !.failed = TRUE]
        ELSE [w EXCEPT !.level   = Tail(@),
                       !.pending = parents[h],
                       !.visited = @ \cup {h},
                       !.log     = Append(@, h)]

\* Fault: a parent visited before is never dropped from the list.
EnqueueParentStuck(w) ==
    IF Head(w.pending) \in w.visited
    THEN w
    ELSE [w EXCEPT !.pending = Tail(@), !.next = Append(@, Head(w.pending))]

EnqueueParent(w) ==
    [w EXCEPT !.pending = Tail(@),
              !.next    = IF Head(w.pending) \in w.visited
                          THEN @
                          ELSE Append(@, Head(w.pending))]

NextLevel(w) == [w EXCEPT !.level = w.next, !.next = <<>>, !.depth = @ + 1]

\* One iteration of the loops of ReadLog.
WalkStep(w, w2, parents, present, maxDepth) ==
    /\ ~WalkDone(w, maxDepth)
    /\ \/ w.pending # <<>> /\ w2 = EnqueueParent(w)
       \/ w.pending = <<>> /\ w.level # <<>> /\ w2 = ReadNext(w, parents, present)
       \/ w.pending = <<>> /\ w.level = <<>> /\ w2 = NextLevel(w)

=============================================================================
