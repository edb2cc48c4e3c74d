------------------------------ MODULE MergeBase ------------------------------
(***************************************************************************)
(* merge.Base (merge/base.go): the merge base of two snapshots.  It reads  *)
(* both logs, then scans them in lockstep for the first entry of one that  *)
(* the other holds too.                                                    *)
(***************************************************************************)
EXTENDS ArchivedHistory

CONSTANT Nil        \* the nil hash: no snapshot

ASSUME NilAssumption == Nil \notin Snapshot

VARIABLES
    lhs, rhs,       \* the two sides
    pc,             \* where Base is
    lhsWalk,        \* the walk that reads lhsLog
    rhsWalk,        \* the walk that reads rhsLog
    lhsRest,        \* what the scan has left of lhsLog
    rhsRest,        \* what the scan has left of rhsLog
    base            \* the result

input == <<parents, present, lhs, rhs>>
walks == <<lhsWalk, rhsWalk>>
rests == <<lhsRest, rhsRest>>
vars  == <<parents, present, lhs, rhs, pc, lhsWalk, rhsWalk, lhsRest, rhsRest, base>>

Hash == Snapshot \cup {Nil}

TypeOK ==
    /\ parents \in [Snapshot -> Seq(Snapshot)]
    /\ present \subseteq Snapshot
    /\ lhs \in Hash /\ rhs \in Hash
    /\ pc \in {"start", "lhsLog", "rhsLog", "scan", "done", "error"}
    /\ pc \in {"lhsLog", "rhsLog", "scan"} => lhs \in Snapshot /\ rhs \in Snapshot
    /\ pc \in {"lhsLog", "rhsLog", "scan"} => lhsWalk \in Walks
    /\ pc \in {"rhsLog", "scan"} => rhsWalk \in Walks
    /\ lhsRest \in Seq(Snapshot) /\ rhsRest \in Seq(Snapshot)
    /\ base \in Hash

Init ==
    /\ parents \in Histories
    /\ present \in Archives
    /\ lhs \in Hash /\ rhs \in Hash
    /\ pc = "start"
    /\ lhsWalk = Nil /\ rhsWalk = Nil
    /\ lhsRest = <<>> /\ rhsRest = <<>>
    /\ base = Nil

-----------------------------------------------------------------------------
Return(h) ==
    /\ pc' = "done"
    /\ base' = h
    /\ UNCHANGED <<input, walks, rests>>

SameSnapshot == pc = "start" /\ lhs = rhs /\ Return(lhs)

NilSide == pc = "start" /\ lhs # rhs /\ Nil \in {lhs, rhs} /\ Return(Nil)

BeginLhsLog ==
    /\ pc = "start" /\ lhs # rhs /\ Nil \notin {lhs, rhs}
    /\ pc' = "lhsLog"
    /\ lhsWalk' = StartWalk(lhs)
    /\ UNCHANGED <<input, rhsWalk, rests, base>>

\* Both logs are read without a depth limit.
ReadLhsLog ==
    /\ pc = "lhsLog"
    /\ WalkStep(lhsWalk, lhsWalk', parents, present, -1)
    /\ UNCHANGED <<input, pc, rhsWalk, rests, base>>

BeginRhsLog ==
    /\ pc = "lhsLog" /\ WalkDone(lhsWalk, -1) /\ ~lhsWalk.failed
    /\ pc' = "rhsLog"
    /\ rhsWalk' = StartWalk(rhs)
    /\ UNCHANGED <<input, lhsWalk, rests, base>>

ReadRhsLog ==
    /\ pc = "rhsLog"
    /\ WalkStep(rhsWalk, rhsWalk', parents, present, -1)
    /\ UNCHANGED <<input, pc, lhsWalk, rests, base>>

\* Faults: the scan leaves out the left side itself; it starts with the oldest.
BeginScanAtParents ==
    /\ pc = "rhsLog" /\ WalkDone(rhsWalk, -1) /\ ~rhsWalk.failed
    /\ pc' = "scan"
    /\ lhsRest' = Tail(lhsWalk.log)
    /\ rhsRest' = rhsWalk.log
    /\ UNCHANGED <<input, walks, base>>

OldestFirst(s) == [i \in 1..Len(s) |-> s[Len(s) + 1 - i]]

BeginScanAtOldest ==
    /\ pc = "rhsLog" /\ WalkDone(rhsWalk, -1) /\ ~rhsWalk.failed
    /\ pc' = "scan"
    /\ lhsRest' = OldestFirst(lhsWalk.log)
    /\ rhsRest' = OldestFirst(rhsWalk.log)
    /\ UNCHANGED <<input, walks, base>>

BeginScan ==
    /\ pc = "rhsLog" /\ WalkDone(rhsWalk, -1) /\ ~rhsWalk.failed
    /\ pc' = "scan"
    /\ lhsRest' = lhsWalk.log
    /\ rhsRest' = rhsWalk.log
    /\ UNCHANGED <<input, walks, base>>

\* A log that cannot be read makes Base fail.
LogFailed ==
    /\ \/ pc = "lhsLog" /\ lhsWalk.failed
       \/ pc = "rhsLog" /\ rhsWalk.failed
    /\ pc' = "error"
    /\ UNCHANGED <<input, walks, rests, base>>

-----------------------------------------------------------------------------
lhsAncestors == Range(lhsWalk.log)
rhsAncestors == Range(rhsWalk.log)

\* Fault: the last entry of a log is not looked at.
ScanningShort == pc = "scan" /\ Len(lhsRest) > 1 /\ Len(rhsRest) > 1

Scanning == pc = "scan" /\ lhsRest # <<>> /\ rhsRest # <<>>

\* Fault: the entry is looked up in the log it comes from.
FoundInOwnLog == Scanning /\ Head(lhsRest) \in lhsAncestors /\ Return(Head(lhsRest))

FoundInLhs == Scanning /\ Head(lhsRest) \in rhsAncestors /\ Return(Head(lhsRest))

FoundInRhs ==
    /\ Scanning /\ Head(lhsRest) \notin rhsAncestors
    /\ Head(rhsRest) \in lhsAncestors
    /\ Return(Head(rhsRest))

Advance ==
    /\ Scanning /\ Head(lhsRest) \notin rhsAncestors
    /\ Head(rhsRest) \notin lhsAncestors
    /\ lhsRest' = Tail(lhsRest)
    /\ rhsRest' = Tail(rhsRest)
    /\ UNCHANGED <<input, pc, walks, base>>

NoneInCommon == pc = "scan" /\ ~Scanning /\ Return(Nil)

Step ==
    \/ SameSnapshot \/ NilSide
    \/ BeginLhsLog \/ ReadLhsLog \/ BeginRhsLog \/ ReadRhsLog \/ LogFailed
    \/ BeginScan \/ FoundInLhs \/ FoundInRhs \/ Advance \/ NoneInCommon

Returned == pc \in {"done", "error"} /\ UNCHANGED vars

Next == Step \/ Returned

Spec == Init /\ [][Next]_vars

\* Base runs in one goroutine that waits for nothing.
FairSpec == Spec /\ WF_vars(Step)

-----------------------------------------------------------------------------
CommonAncestors == Ancestors(parents, lhs) \cap Ancestors(parents, rhs)

\* A snapshot that Base returns is an ancestor of both sides, which
\* mergeWithBase requires of it.
BaseIsCommonAncestor ==
    pc = "done" /\ base # Nil => base \in CommonAncestors

\* Base only answers nil for snapshots that share no ancestor: it never gives
\* up at the end of the shorter log with a common ancestor left in the longer.
NilOnlyWhenUnrelated ==
    pc = "done" /\ base = Nil /\ Nil \notin {lhs, rhs} => CommonAncestors = {}

\* When one side is an ancestor of the other it is the base: this is how Merge
\* and mergeWithBase tell an up-to-date destination, and a fast forward, from
\* a real merge.
FastForwardIsRecognized ==
    pc = "done" /\ Nil \notin {lhs, rhs} =>
        /\ lhs \in Ancestors(parents, rhs) => base = lhs
        /\ rhs \in Ancestors(parents, lhs) => base = rhs

\* No other common ancestor descends from the base.
BaseIsMostRecent ==
    pc = "done" /\ base # Nil =>
        \A a \in CommonAncestors : base \in Ancestors(parents, a) => a = base

\* In a history without merges, where every snapshot has one parent at most,
\* the base is the most recent common ancestor.
MostRecentWithoutMerges ==
    (\A h \in Snapshot : Len(parents[h]) <= 1) => BaseIsMostRecent

\* Base only fails when the archive lacks an ancestor of one of the sides.
FailsOnlyWhenIncomplete ==
    pc = "error" => ~(Ancestors(parents, lhs) \cup Ancestors(parents, rhs) \subseteq present)

\* What a caller sees of Base.
Contract == INSTANCE BaseContract WITH
                status <- IF pc \in {"done", "error"} THEN pc ELSE "running"

\* Base implements its contract: until it returns it has changed nothing, then
\* it answers what BaseContract allows, and it fails in just those cases in
\* which the contract says so.
KeepsContract == Contract!Spec

\* Base returns.
Terminates == <>(pc \in {"done", "error"})

=============================================================================
