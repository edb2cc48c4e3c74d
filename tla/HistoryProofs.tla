---------------------------- MODULE HistoryProofs ----------------------------
(***************************************************************************)
(* The walks through the history, for every history graph: merge.Base      *)
(* implements its contract, and returns the most recent common ancestor of *)
(* a history without merges; log.ReadLog lists the ancestors, in an order  *)
(* that explains itself, as far as its depth limit goes.                   *)
(***************************************************************************)
EXTENDS MergeBase, ReadLog, AncestryProofs

\* A finished log holds the ancestors of its side.
LogRead(w, h) == WalkInv(w, h, parents, present) /\ WalkDone(w, -1) /\ ~w.failed

(***************************************************************************)
(* The inductive invariant.  While the scan goes on, every common ancestor *)
(* is still in what is left of BOTH logs: an entry is dropped only when it *)
(* is not in the other log, which holds all the ancestors of that side.    *)
(***************************************************************************)
IInv ==
    /\ TypeOK
    /\ pc = "lhsLog" => WalkInv(lhsWalk, lhs, parents, present)
    /\ pc \in {"rhsLog", "scan"} => LogRead(lhsWalk, lhs)
    /\ pc = "rhsLog" => WalkInv(rhsWalk, rhs, parents, present)
    /\ pc = "scan" => /\ LogRead(rhsWalk, rhs)
                      /\ Range(lhsRest) \subseteq Ancestors(parents, lhs)
                      /\ Range(rhsRest) \subseteq Ancestors(parents, rhs)
                      /\ CommonAncestors \subseteq Range(lhsRest)
                      /\ CommonAncestors \subseteq Range(rhsRest)
    /\ BaseIsCommonAncestor
    /\ NilOnlyWhenUnrelated
    /\ FailsOnlyWhenIncomplete

\* What a log that has been read holds.
LEMMA LogReadHolds ==
    ASSUME NEW w, NEW h \in Snapshot, LogRead(w, h),
           parents \in [Snapshot -> Seq(Snapshot)]
    PROVE  /\ w.log \in Seq(Snapshot)
           /\ Range(w.log) = Ancestors(parents, h)
<1>1. w.log \in Seq(Snapshot)
  BY DEF LogRead, WalkInv, Walks
<1>2. -1 \in Int /\ -1 < 0
  OBVIOUS
<1>3. WalkInv(w, h, parents, present) /\ WalkDone(w, -1) /\ ~w.failed
  BY DEF LogRead
<1>4. QED
  BY <1>1, <1>2, <1>3, WalkReadsAncestors

\* Returning h keeps the invariant when h is a right answer.
LEMMA ReturnInv ==
    ASSUME IInv, NEW h \in Hash, Return(h),
           h # Nil => h \in CommonAncestors,
           h = Nil /\ Nil \notin {lhs, rhs} => CommonAncestors = {}
    PROVE  IInv'
<1>1. /\ pc' = "done" /\ base' = h
      /\ UNCHANGED <<parents, present, lhs, rhs, lhsWalk, rhsWalk, lhsRest, rhsRest>>
  BY DEF Return, input, walks, rests
<1>2. TypeOK'
  BY <1>1 DEF IInv, TypeOK
<1>3. CommonAncestors' = CommonAncestors
  BY <1>1 DEF CommonAncestors
<1>4. BaseIsCommonAncestor' /\ NilOnlyWhenUnrelated' /\ FailsOnlyWhenIncomplete'
  BY <1>1, <1>3 DEF BaseIsCommonAncestor, NilOnlyWhenUnrelated, FailsOnlyWhenIncomplete
<1>5. QED
  BY <1>1, <1>2, <1>4 DEF IInv

\* The invariant holds in every reachable state.
THEOREM Invariance == Spec => []IInv
<1>1. Init => IInv
  <2> SUFFICES ASSUME Init PROVE IInv
    OBVIOUS
  <2>1. <<>> \in Seq(Snapshot)
    OBVIOUS
  <2>2. TypeOK
    BY <2>1, HistoriesAssumption, ArchivesAssumption DEF Init, TypeOK, Hash
  <2>3. QED
    BY <2>2 DEF Init, IInv, BaseIsCommonAncestor, NilOnlyWhenUnrelated,
                FailsOnlyWhenIncomplete
<1>2. IInv /\ [Next]_vars => IInv'
  <2> SUFFICES ASSUME IInv, [Next]_vars PROVE IInv'
    OBVIOUS
  <2>0. /\ parents \in [Snapshot -> Seq(Snapshot)]
        /\ lhs \in Hash /\ rhs \in Hash
        /\ lhsRest \in Seq(Snapshot) /\ rhsRest \in Seq(Snapshot)
    BY DEF IInv, TypeOK
  <2>1. CASE SameSnapshot
    <3>1. lhs # Nil => lhs \in CommonAncestors
      BY <2>0, <2>1, AncestorOfItself DEF SameSnapshot, CommonAncestors, Hash
    <3>2. QED
      BY <2>0, <2>1, <3>1, ReturnInv DEF SameSnapshot
  <2>2. CASE NilSide
    BY <2>2, ReturnInv DEF NilSide, Hash
  <2>3. CASE BeginLhsLog
    <3>1. /\ pc' = "lhsLog" /\ lhsWalk' = StartWalk(lhs)
          /\ lhs \in Snapshot /\ rhs \in Snapshot
          /\ UNCHANGED <<parents, present, lhs, rhs, rhsWalk, lhsRest, rhsRest, base>>
      BY <2>0, <2>3 DEF BeginLhsLog, Hash, input, rests
    <3>2. WalkInv(lhsWalk', lhs, parents, present)
      BY <3>1, StartWalkInv
    <3>3. TypeOK'
      BY <3>1, <3>2 DEF IInv, TypeOK, WalkInv
    <3>4. QED
      BY <3>1, <3>2, <3>3 DEF IInv, BaseIsCommonAncestor, NilOnlyWhenUnrelated,
                              FailsOnlyWhenIncomplete
  <2>4. CASE ReadLhsLog
    <3>1. /\ pc = "lhsLog" /\ pc' = "lhsLog" /\ lhs \in Snapshot /\ rhs \in Snapshot
          /\ UNCHANGED <<parents, present, lhs, rhs, rhsWalk, lhsRest, rhsRest, base>>
      BY <2>4 DEF ReadLhsLog, IInv, TypeOK, input, rests
    <3>2. WalkInv(lhsWalk', lhs, parents, present)
      BY <2>0, <2>4, <3>1, WalkStepInv DEF ReadLhsLog, IInv
    <3>3. TypeOK'
      BY <3>1, <3>2 DEF IInv, TypeOK, WalkInv
    <3>4. QED
      BY <3>1, <3>2, <3>3 DEF IInv, BaseIsCommonAncestor, NilOnlyWhenUnrelated,
                              FailsOnlyWhenIncomplete
  <2>5. CASE BeginRhsLog
    <3>1. /\ pc = "lhsLog" /\ pc' = "rhsLog" /\ rhsWalk' = StartWalk(rhs)
          /\ lhs \in Snapshot /\ rhs \in Snapshot
          /\ UNCHANGED <<parents, present, lhs, rhs, lhsWalk, lhsRest, rhsRest, base>>
      BY <2>5 DEF BeginRhsLog, IInv, TypeOK, input, rests
    <3>2. WalkInv(rhsWalk', rhs, parents, present)
      BY <3>1, StartWalkInv
    <3>3. LogRead(lhsWalk, lhs)'
      BY <2>5, <3>1 DEF BeginRhsLog, IInv, LogRead
    <3>4. TypeOK'
      BY <3>1, <3>2 DEF IInv, TypeOK, WalkInv
    <3>5. QED
      BY <3>1, <3>2, <3>3, <3>4 DEF IInv, BaseIsCommonAncestor, NilOnlyWhenUnrelated,
                                   FailsOnlyWhenIncomplete
  <2>6. CASE ReadRhsLog
    <3>1. /\ pc = "rhsLog" /\ pc' = "rhsLog" /\ lhs \in Snapshot /\ rhs \in Snapshot
          /\ UNCHANGED <<parents, present, lhs, rhs, lhsWalk, lhsRest, rhsRest, base>>
      BY <2>6 DEF ReadRhsLog, IInv, TypeOK, input, rests
    <3>2. WalkInv(rhsWalk', rhs, parents, present)
      BY <2>0, <2>6, <3>1, WalkStepInv DEF ReadRhsLog, IInv
    <3>3. LogRead(lhsWalk, lhs)'
      BY <3>1 DEF IInv, LogRead
    <3>4. TypeOK'
      BY <3>1, <3>2 DEF IInv, TypeOK, WalkInv
    <3>5. QED
      BY <3>1, <3>2, <3>3, <3>4 DEF IInv, BaseIsCommonAncestor, NilOnlyWhenUnrelated,
                                   FailsOnlyWhenIncomplete
  <2>7. CASE LogFailed
    <3>1. /\ pc' = "error"
          /\ UNCHANGED <<parents, present, lhs, rhs, lhsWalk, rhsWalk, lhsRest, rhsRest, base>>
      BY <2>7 DEF LogFailed, input, walks, rests
    <3>2. FailsOnlyWhenIncomplete'
      <4>1. CASE pc = "lhsLog" /\ lhsWalk.failed
        BY <3>1, <4>1 DEF IInv, WalkInv, FailsOnlyWhenIncomplete
      <4>2. CASE pc = "rhsLog" /\ rhsWalk.failed
        BY <3>1, <4>2 DEF IInv, WalkInv, FailsOnlyWhenIncomplete
      <4>3. QED
        BY <2>7, <4>1, <4>2 DEF LogFailed
    <3>3. TypeOK'
      BY <3>1 DEF IInv, TypeOK
    <3>4. QED
      BY <3>1, <3>2, <3>3 DEF IInv, BaseIsCommonAncestor, NilOnlyWhenUnrelated
  <2>8. CASE BeginScan
    <3>1. /\ pc = "rhsLog" /\ pc' = "scan"
          /\ lhsRest' = lhsWalk.log /\ rhsRest' = rhsWalk.log
          /\ lhs \in Snapshot /\ rhs \in Snapshot
          /\ UNCHANGED <<parents, present, lhs, rhs, lhsWalk, rhsWalk, base>>
      BY <2>8 DEF BeginScan, IInv, TypeOK, input, walks
    <3>2. LogRead(lhsWalk, lhs) /\ LogRead(rhsWalk, rhs)
      BY <2>8, <3>1 DEF BeginScan, IInv, LogRead
    <3>3. /\ lhsRest' \in Seq(Snapshot) /\ rhsRest' \in Seq(Snapshot)
          /\ Range(lhsRest') = Ancestors(parents, lhs)
          /\ Range(rhsRest') = Ancestors(parents, rhs)
      BY <2>0, <3>1, <3>2, LogReadHolds
    <3>4. TypeOK'
      BY <3>1, <3>3 DEF IInv, TypeOK
    <3>5. LogRead(lhsWalk, lhs)' /\ LogRead(rhsWalk, rhs)'
      BY <3>1, <3>2 DEF LogRead
    <3>6. QED
      BY <3>1, <3>3, <3>4, <3>5
         DEF IInv, CommonAncestors, BaseIsCommonAncestor, NilOnlyWhenUnrelated,
             FailsOnlyWhenIncomplete
  <2>9. ASSUME Scanning
        PROVE  /\ lhsAncestors = Ancestors(parents, lhs)
               /\ rhsAncestors = Ancestors(parents, rhs)
               /\ lhs \in Snapshot /\ rhs \in Snapshot
               /\ Head(lhsRest) \in Ancestors(parents, lhs)
               /\ Head(rhsRest) \in Ancestors(parents, rhs)
               /\ Head(lhsRest) \in Snapshot /\ Head(rhsRest) \in Snapshot
               /\ Tail(lhsRest) \in Seq(Snapshot) /\ Tail(rhsRest) \in Seq(Snapshot)
               /\ Range(lhsRest) = {Head(lhsRest)} \cup Range(Tail(lhsRest))
               /\ Range(rhsRest) = {Head(rhsRest)} \cup Range(Tail(rhsRest))
    <3>1. lhs \in Snapshot /\ rhs \in Snapshot /\ pc = "scan"
      BY <2>9 DEF Scanning, IInv, TypeOK
    <3>2. LogRead(lhsWalk, lhs) /\ LogRead(rhsWalk, rhs)
      BY <3>1 DEF IInv
    <3>3. lhsAncestors = Ancestors(parents, lhs) /\ rhsAncestors = Ancestors(parents, rhs)
      BY <2>0, <3>1, <3>2, LogReadHolds DEF lhsAncestors, rhsAncestors
    <3>4. /\ Head(lhsRest) \in Snapshot /\ Head(rhsRest) \in Snapshot
          /\ Tail(lhsRest) \in Seq(Snapshot) /\ Tail(rhsRest) \in Seq(Snapshot)
          /\ Range(lhsRest) = {Head(lhsRest)} \cup Range(Tail(lhsRest))
          /\ Range(rhsRest) = {Head(rhsRest)} \cup Range(Tail(rhsRest))
      BY <2>0, <2>9, RangeHeadTail DEF Scanning
    <3>5. QED
      BY <3>1, <3>3, <3>4 DEF IInv
  <2>10. CASE FoundInLhs
    BY <2>9, <2>10, ReturnInv, NilAssumption DEF FoundInLhs, CommonAncestors, Hash
  <2>11. CASE FoundInRhs
    BY <2>9, <2>11, ReturnInv, NilAssumption DEF FoundInRhs, CommonAncestors, Hash
  <2>12. CASE Advance
    <3>1. /\ pc = "scan" /\ pc' = "scan"
          /\ lhsRest' = Tail(lhsRest) /\ rhsRest' = Tail(rhsRest)
          /\ UNCHANGED <<parents, present, lhs, rhs, lhsWalk, rhsWalk, base>>
      BY <2>12 DEF Advance, Scanning, input, walks
    <3>2. /\ Head(lhsRest) \notin CommonAncestors
          /\ Head(rhsRest) \notin CommonAncestors
      BY <2>9, <2>12 DEF Advance, CommonAncestors
    <3>3. /\ CommonAncestors \subseteq Range(Tail(lhsRest))
          /\ CommonAncestors \subseteq Range(Tail(rhsRest))
      BY <2>9, <2>12, <3>1, <3>2 DEF Advance, IInv
    <3>4. /\ Range(Tail(lhsRest)) \subseteq Ancestors(parents, lhs)
          /\ Range(Tail(rhsRest)) \subseteq Ancestors(parents, rhs)
      BY <2>9, <2>12, <3>1 DEF Advance, IInv
    <3>5. TypeOK'
      BY <2>9, <2>12, <3>1 DEF Advance, IInv, TypeOK
    <3>6. LogRead(lhsWalk, lhs)' /\ LogRead(rhsWalk, rhs)'
      BY <3>1 DEF IInv, LogRead
    <3>7. CommonAncestors' = CommonAncestors
      BY <3>1 DEF CommonAncestors
    <3>8. QED
      BY <3>1, <3>3, <3>4, <3>5, <3>6, <3>7
         DEF IInv, BaseIsCommonAncestor, NilOnlyWhenUnrelated, FailsOnlyWhenIncomplete
  <2>13. CASE NoneInCommon
    <3>1. CommonAncestors = {}
      <4>1. pc = "scan" /\ (lhsRest = <<>> \/ rhsRest = <<>>)
        BY <2>13 DEF NoneInCommon, Scanning
      <4>2. QED
        BY <4>1, RangeBasics DEF IInv
    <3>2. QED
      BY <2>13, <3>1, ReturnInv DEF NoneInCommon, Hash
  <2>14. CASE UNCHANGED vars
    <3>1. UNCHANGED <<parents, present, lhs, rhs, pc, lhsWalk, rhsWalk, lhsRest, rhsRest, base>>
      BY <2>14 DEF vars
    <3>2. QED
      BY <3>1 DEF IInv, TypeOK, LogRead, CommonAncestors, BaseIsCommonAncestor,
                  NilOnlyWhenUnrelated, FailsOnlyWhenIncomplete
  <2>15. QED
    BY <2>1, <2>2, <2>3, <2>4, <2>5, <2>6, <2>7, <2>8, <2>10, <2>11, <2>12, <2>13,
       <2>14 DEF Next, Step, Returned
<1>3. QED
  BY <1>1, <1>2, PTL DEF Spec

\* Type correctness.
THEOREM TypeCorrect == Spec => []TypeOK
<1>1. IInv => TypeOK
  BY DEF IInv
<1>2. QED
  BY <1>1, Invariance, PTL

\* What merge.Base returns is an ancestor of both of its arguments.
THEOREM ReturnsCommonAncestor == Spec => []BaseIsCommonAncestor
<1>1. IInv => BaseIsCommonAncestor
  BY DEF IInv
<1>2. QED
  BY <1>1, Invariance, PTL

\* merge.Base answers nil only for snapshots that share no ancestor.
THEOREM FindsACommonAncestor == Spec => []NilOnlyWhenUnrelated
<1>1. IInv => NilOnlyWhenUnrelated
  BY DEF IInv
<1>2. QED
  BY <1>1, Invariance, PTL

-----------------------------------------------------------------------------
(***************************************************************************)
(* Fast forwards.  A log starts with the snapshot whose log it is, so the  *)
(* first comparison of the scan recognizes them.  This needs that no two   *)
(* snapshots are ancestors of each other, which the hashes guarantee.      *)
(***************************************************************************)
Acyclic == \A f \in Histories : \A a, b \in Snapshot :
               a \in Ancestors(f, b) /\ b \in Ancestors(f, a) => a = b

StartsAt(w, h) ==
    /\ w.log = <<>> => w.failed \/ (w.level = <<h>> /\ w.pending = <<>>)
    /\ w.log # <<>> => Head(w.log) = h

FastForwardInv ==
    /\ parents \in Histories
    /\ pc \in {"lhsLog", "rhsLog", "scan"} => StartsAt(lhsWalk, lhs)
    /\ pc \in {"rhsLog", "scan"} => StartsAt(rhsWalk, rhs)
    /\ pc = "scan" => \/ lhsRest = lhsWalk.log /\ rhsRest = rhsWalk.log
                      \/ /\ lhs \notin Ancestors(parents, rhs)
                         /\ rhs \notin Ancestors(parents, lhs)
    /\ FastForwardIsRecognized

\* A log that grows keeps its first entry.
LEMMA AppendIsLonger ==
    ASSUME NEW s \in Seq(Snapshot), NEW x \in Snapshot
    PROVE  /\ Append(s, x) # <<>>
           /\ s # <<>> => Head(Append(s, x)) = Head(s)
<1>1. Len(Append(s, x)) = Len(s) + 1 /\ Len(s) \in Nat /\ Len(<<>>) = 0
  OBVIOUS
<1>2. Append(s, x) # <<>>
  BY <1>1
<1>3. s # <<>> => Head(Append(s, x)) = Head(s)
  OBVIOUS
<1>4. QED
  BY <1>2, <1>3

\* The walk of h reads h first, and only then anything else.
LEMMA WalkStartsAt ==
    ASSUME NEW h \in Snapshot, NEW w \in Walks, NEW v, NEW d,
           StartsAt(w, h), WalkStep(w, v, parents, present, d)
    PROVE  StartsAt(v, h)
<1>1. /\ ~w.failed /\ w.log \in Seq(Snapshot) /\ w.level \in Seq(Snapshot)
      /\ w.pending \in Seq(Snapshot)
  BY DEF WalkStep, WalkDone, Walks
<1>2. CASE w.pending # <<>> /\ v = EnqueueParent(w)
  <2>1. v.log = w.log /\ w.log # <<>>
    BY <1>1, <1>2 DEF EnqueueParent, Walks, StartsAt
  <2>2. QED
    BY <2>1 DEF StartsAt
<1>3. CASE w.pending = <<>> /\ w.level = <<>> /\ v = NextLevel(w)
  <2>1. w.log # <<>>
    BY <1>1, <1>3 DEF StartsAt
  <2>2. v.log = w.log
    BY <1>3 DEF NextLevel, Walks
  <2>3. QED
    BY <2>1, <2>2 DEF StartsAt
<1>4. CASE w.pending = <<>> /\ w.level # <<>> /\ v = ReadNext(w, parents, present)
  <2>1. CASE Head(w.level) \notin present
    <3>1. v = [w EXCEPT !.failed = TRUE]
      BY <1>4, <2>1 DEF ReadNext
    <3>2. v.failed /\ v.log = w.log
      BY <3>1 DEF Walks
    <3>3. QED
      BY <3>2 DEF StartsAt
  <2>2. CASE Head(w.level) \in present
    <3>1. v.log = Append(w.log, Head(w.level)) /\ Head(w.level) \in Snapshot
      BY <1>1, <1>4, <2>2 DEF ReadNext, Walks
    <3>2. v.log # <<>>
      BY <1>1, <3>1, AppendIsLonger
    <3>3. CASE w.log = <<>>
      <4>1. Head(w.level) = h
        BY <1>1, <3>3 DEF StartsAt
      <4>2. QED
        BY <3>1, <3>2, <3>3, <4>1 DEF StartsAt
    <3>4. CASE w.log # <<>>
      <4>1. Head(v.log) = Head(w.log)
        BY <1>1, <3>1, <3>4, AppendIsLonger
      <4>2. QED
        BY <3>2, <3>4, <4>1 DEF StartsAt
    <3>5. QED
      BY <3>3, <3>4
  <2>3. QED
    BY <2>1, <2>2
<1>5. QED
  BY <1>2, <1>3, <1>4 DEF WalkStep

\* A log that has been read is not empty.
LEMMA LogStartsAt ==
    ASSUME NEW h, NEW w, LogRead(w, h), StartsAt(w, h)
    PROVE  w.log # <<>> /\ Head(w.log) = h
<1>1. w \in Walks /\ WalkDone(w, -1) /\ ~w.failed
  BY DEF LogRead, WalkInv
<1>2. w.depth # -1
  BY <1>1 DEF Walks
<1>3. w.level = <<>>
  BY <1>1, <1>2 DEF WalkDone
<1>4. w.log # <<>>
  BY <1>1, <1>3 DEF StartsAt
<1>5. QED
  BY <1>4 DEF StartsAt

\* The first comparison of the scan settles whether there is a fast forward.
LEMMA FastForwardHolds ==
    ASSUME Acyclic
    PROVE  Spec => []FastForwardInv
<1>1. Init => FastForwardInv
  BY DEF Init, FastForwardInv, FastForwardIsRecognized
<1>2. IInv /\ FastForwardInv /\ [Next]_vars => FastForwardInv'
  <2> SUFFICES ASSUME IInv, FastForwardInv, [Next]_vars PROVE FastForwardInv'
    OBVIOUS
  <2>1. ASSUME NEW h \in Hash, Return(h),
               Nil \notin {lhs, rhs} =>
                   /\ lhs \in Ancestors(parents, rhs) => h = lhs
                   /\ rhs \in Ancestors(parents, lhs) => h = rhs
        PROVE  FastForwardInv'
    BY <2>1 DEF Return, input, FastForwardInv, FastForwardIsRecognized
  <2>2. CASE SameSnapshot
    BY <2>1, <2>2 DEF SameSnapshot, IInv, TypeOK
  <2>3. CASE NilSide
    BY <2>1, <2>3 DEF NilSide, Hash
  <2>4. CASE BeginLhsLog
    <3>1. StartsAt(StartWalk(lhs), lhs)
      BY DEF StartsAt, StartWalk
    <3>2. QED
      BY <2>4, <3>1 DEF BeginLhsLog, input, rests, FastForwardInv, FastForwardIsRecognized
  <2>5. CASE ReadLhsLog
    <3>1. lhs \in Snapshot /\ lhsWalk \in Walks /\ StartsAt(lhsWalk, lhs)
      BY <2>5 DEF ReadLhsLog, IInv, TypeOK, FastForwardInv
    <3>2. StartsAt(lhsWalk', lhs)
      BY <2>5, <3>1, WalkStartsAt DEF ReadLhsLog
    <3>3. QED
      BY <2>5, <3>2 DEF ReadLhsLog, input, rests, FastForwardInv, FastForwardIsRecognized
  <2>6. CASE BeginRhsLog
    <3>1. StartsAt(StartWalk(rhs), rhs)
      BY DEF StartsAt, StartWalk
    <3>2. QED
      BY <2>6, <3>1 DEF BeginRhsLog, input, rests, FastForwardInv, FastForwardIsRecognized
  <2>7. CASE ReadRhsLog
    <3>1. rhs \in Snapshot /\ rhsWalk \in Walks /\ StartsAt(rhsWalk, rhs)
      BY <2>7 DEF ReadRhsLog, IInv, TypeOK, FastForwardInv
    <3>2. StartsAt(rhsWalk', rhs)
      BY <2>7, <3>1, WalkStartsAt DEF ReadRhsLog
    <3>3. QED
      BY <2>7, <3>2 DEF ReadRhsLog, input, rests, FastForwardInv, FastForwardIsRecognized
  <2>8. CASE LogFailed
    BY <2>8 DEF LogFailed, input, walks, rests, FastForwardInv, FastForwardIsRecognized
  <2>9. CASE BeginScan
    BY <2>9 DEF BeginScan, input, walks, FastForwardInv, FastForwardIsRecognized
  <2>10. ASSUME pc = "scan"
         PROVE  /\ lhs \in Snapshot /\ rhs \in Snapshot
                /\ lhsAncestors = Ancestors(parents, lhs)
                /\ rhsAncestors = Ancestors(parents, rhs)
                /\ lhsWalk.log # <<>> /\ Head(lhsWalk.log) = lhs
                /\ rhsWalk.log # <<>> /\ Head(rhsWalk.log) = rhs
    <3>1. /\ lhs \in Snapshot /\ rhs \in Snapshot
          /\ parents \in [Snapshot -> Seq(Snapshot)]
          /\ LogRead(lhsWalk, lhs) /\ LogRead(rhsWalk, rhs)
          /\ StartsAt(lhsWalk, lhs) /\ StartsAt(rhsWalk, rhs)
      BY <2>10 DEF IInv, TypeOK, FastForwardInv
    <3>2. lhsAncestors = Ancestors(parents, lhs) /\ rhsAncestors = Ancestors(parents, rhs)
      BY <3>1, LogReadHolds DEF lhsAncestors, rhsAncestors
    <3>3. lhsWalk.log # <<>> /\ Head(lhsWalk.log) = lhs
      BY <3>1, LogStartsAt
    <3>4. rhsWalk.log # <<>> /\ Head(rhsWalk.log) = rhs
      BY <3>1, LogStartsAt
    <3>5. QED
      BY <3>1, <3>2, <3>3, <3>4
  <2>11. CASE FoundInLhs
    <3>1. /\ pc = "scan" /\ Head(lhsRest) \in Ancestors(parents, rhs)
          /\ Return(Head(lhsRest))
      BY <2>10, <2>11 DEF FoundInLhs, Scanning
    <3>2. Head(lhsRest) \in Hash
      BY <3>1 DEF Ancestors, Hash
    <3>3. ASSUME lhsRest = lhsWalk.log
          PROVE  /\ Head(lhsRest) = lhs
                 /\ rhs \in Ancestors(parents, lhs) => Head(lhsRest) = rhs
      BY <2>10, <3>1, <3>3 DEF FastForwardInv, Acyclic
    <3>4. QED
      BY <2>1, <3>1, <3>2, <3>3 DEF FastForwardInv
  <2>12. CASE FoundInRhs
    <3>1. /\ pc = "scan" /\ Head(lhsRest) \notin Ancestors(parents, rhs)
          /\ Head(rhsRest) \in Ancestors(parents, lhs)
          /\ Return(Head(rhsRest))
      BY <2>10, <2>12 DEF FoundInRhs, Scanning
    <3>2. Head(rhsRest) \in Hash
      BY <3>1 DEF Ancestors, Hash
    <3>3. ASSUME lhsRest = lhsWalk.log, rhsRest = rhsWalk.log
          PROVE  lhs \notin Ancestors(parents, rhs) /\ Head(rhsRest) = rhs
      BY <2>10, <3>1, <3>3
    <3>4. QED
      BY <2>1, <3>1, <3>2, <3>3 DEF FastForwardInv
  <2>13. CASE Advance
    <3>1. /\ pc = "scan" /\ Head(lhsRest) \notin Ancestors(parents, rhs)
          /\ Head(rhsRest) \notin Ancestors(parents, lhs)
          /\ pc' = "scan"
          /\ UNCHANGED <<parents, present, lhs, rhs, lhsWalk, rhsWalk, base>>
      BY <2>10, <2>13 DEF Advance, Scanning, input, walks
    <3>2. lhs \notin Ancestors(parents, rhs) /\ rhs \notin Ancestors(parents, lhs)
      BY <2>10, <3>1 DEF FastForwardInv
    <3>3. QED
      BY <3>1, <3>2 DEF FastForwardInv, FastForwardIsRecognized
  <2>14. CASE NoneInCommon
    <3>1. pc = "scan" /\ Return(Nil) /\ (lhsRest = <<>> \/ rhsRest = <<>>)
      BY <2>14 DEF NoneInCommon, Scanning
    <3>2. lhs \notin Ancestors(parents, rhs) /\ rhs \notin Ancestors(parents, lhs)
      BY <2>10, <3>1 DEF FastForwardInv
    <3>3. QED
      BY <2>1, <3>1, <3>2 DEF Hash
  <2>15. CASE UNCHANGED vars
    BY <2>15 DEF vars, FastForwardInv, FastForwardIsRecognized
  <2>16. QED
    BY <2>2, <2>3, <2>4, <2>5, <2>6, <2>7, <2>8, <2>9, <2>11, <2>12, <2>13, <2>14,
       <2>15 DEF Next, Step, Returned
<1>3. QED
  BY <1>1, <1>2, Invariance, PTL DEF Spec

\* When one side is an ancestor of the other, merge.Base returns it.
THEOREM RecognizesFastForward ==
    ASSUME Acyclic
    PROVE  Spec => []FastForwardIsRecognized
<1>1. FastForwardInv => FastForwardIsRecognized
  BY DEF FastForwardInv
<1>2. QED
  BY <1>1, FastForwardHolds, PTL

-----------------------------------------------------------------------------
(***************************************************************************)
(* merge.Base implements BaseContract.                                     *)
(***************************************************************************)
\* The logs are only read for two different snapshots.
SidesDiffer == pc \in {"lhsLog", "rhsLog", "scan"} => lhs # rhs

LEMMA SidesDifferHolds == Spec => []SidesDiffer
<1>1. Init => SidesDiffer
  BY DEF Init, SidesDiffer
<1>2. SidesDiffer /\ [Next]_vars => SidesDiffer'
  BY DEF SidesDiffer, Next, Step, Returned, vars, input, Return, SameSnapshot, NilSide,
         BeginLhsLog, ReadLhsLog, BeginRhsLog, ReadRhsLog, LogFailed, BeginScan,
         FoundInLhs, FoundInRhs, Advance, NoneInCommon
<1>3. QED
  BY <1>1, <1>2, PTL DEF Spec

\* The contract speaks of the same ancestors.
LEMMA SameAncestors ==
    /\ \A f, h : Contract!Ancestors(f, h) = Ancestors(f, h)
    /\ Contract!Common = CommonAncestors
<1>1. \A f, S : Contract!ClosedUnderParents(f, S) = ClosedUnderParents(f, S)
  BY DEF Contract!ClosedUnderParents, ClosedUnderParents, Contract!Range, Range
<1>2. ASSUME NEW f, NEW h PROVE Contract!Ancestors(f, h) = Ancestors(f, h)
  BY <1>1 DEF Contract!Ancestors, Ancestors
<1>3. QED
  BY <1>2 DEF Contract!Common, CommonAncestors

\* What is returned for two different snapshots, when all of their history has
\* been read, is an answer of the contract.
LEMMA ReturnAnswers ==
    ASSUME NEW h, Return(h), pc \notin {"done", "error"},
           Nil \notin {lhs, rhs}, lhs # rhs,
           Ancestors(parents, lhs) \cup Ancestors(parents, rhs) \subseteq present,
           TypeOK, BaseIsCommonAncestor', NilOnlyWhenUnrelated', FastForwardIsRecognized'
    PROVE  Contract!Next
<1>1. /\ pc' = "done" /\ base' = h
      /\ UNCHANGED <<parents, present, lhs, rhs>>
  BY DEF Return, input
<1>2. CommonAncestors' = CommonAncestors
  BY <1>1 DEF CommonAncestors
<1>3. Contract!Readable
  BY SameAncestors DEF Contract!Readable
<1>4. h # Nil => h \in CommonAncestors
  BY <1>1, <1>2 DEF BaseIsCommonAncestor
<1>5. h = Nil => CommonAncestors = {}
  BY <1>1, <1>2 DEF NilOnlyWhenUnrelated
<1>6. /\ lhs \in CommonAncestors => h = lhs
      /\ rhs \in CommonAncestors => h = rhs
  BY <1>1 DEF FastForwardIsRecognized, CommonAncestors
<1>7. h \in Contract!Bases
  BY <1>4, <1>5, <1>6, SameAncestors DEF Contract!Bases
<1>8. QED
  BY <1>1, <1>3, <1>7 DEF Contract!Next, Contract!Answer, Contract!sides

\* What merge.Merge and mergeWithBase rely on: merge.Base answers once, with the
\* side that is an ancestor of the other, with some common ancestor when there
\* is no such side, and with nil when there is none; and it fails when, and only
\* when, some snapshot of either history cannot be read.
THEOREM ImplementsContract ==
    ASSUME Acyclic
    PROVE  Spec => KeepsContract
<1>1. Init => Contract!Init
  BY DEF Init, Contract!Init
<1>2. IInv /\ IInv' /\ FastForwardInv' /\ SidesDiffer /\ [Next]_vars
        => [Contract!Next]_<<Contract!sides, IF pc \in {"done", "error"} THEN pc ELSE "running", base>>
  <2> SUFFICES ASSUME IInv, IInv', FastForwardInv', SidesDiffer, [Next]_vars
               PROVE  \/ Contract!Next
                      \/ UNCHANGED <<parents, present, lhs, rhs, base>> /\ pc' = pc
                      \/ /\ UNCHANGED <<parents, present, lhs, rhs, base>>
                         /\ pc \notin {"done", "error"} /\ pc' \notin {"done", "error"}
    BY DEF Contract!sides
  <2>1. TypeOK /\ BaseIsCommonAncestor' /\ NilOnlyWhenUnrelated' /\ FastForwardIsRecognized'
    BY DEF IInv, FastForwardInv
  <2>2. CASE SameSnapshot
    <3>1. /\ pc = "start" /\ lhs = rhs /\ pc' = "done" /\ base' = lhs
          /\ UNCHANGED <<parents, present, lhs, rhs>>
      BY <2>2 DEF SameSnapshot, Return, input
    <3>2. QED
      BY <3>1 DEF Contract!Next, Contract!Answer, Contract!Readable, Contract!Bases, Contract!sides
  <2>3. CASE NilSide
    <3>1. /\ pc = "start" /\ lhs # rhs /\ Nil \in {lhs, rhs} /\ pc' = "done" /\ base' = Nil
          /\ UNCHANGED <<parents, present, lhs, rhs>>
      BY <2>3 DEF NilSide, Return, input
    <3>2. QED
      BY <3>1 DEF Contract!Next, Contract!Answer, Contract!Readable, Contract!Bases, Contract!sides
  <2>4. CASE LogFailed
    <3>1. /\ pc \in {"lhsLog", "rhsLog"} /\ pc' = "error"
          /\ UNCHANGED <<parents, present, lhs, rhs, base>>
      BY <2>4 DEF LogFailed, input
    <3>2. lhs \in Snapshot /\ rhs \in Snapshot /\ lhs # rhs
      BY <2>1, <3>1 DEF TypeOK, SidesDiffer
    <3>3. ~(Ancestors(parents, lhs) \cup Ancestors(parents, rhs) \subseteq present)
      BY <3>1 DEF IInv, FailsOnlyWhenIncomplete
    <3>4. ~Contract!Readable
      BY <3>2, <3>3, NilAssumption, SameAncestors DEF Contract!Readable
    <3>5. QED
      BY <3>1, <3>4 DEF Contract!Next, Contract!Fail, Contract!sides
  <2>5. CASE FoundInLhs \/ FoundInRhs \/ NoneInCommon
    <3>1. pc = "scan" /\ \E h : Return(h)
      BY <2>5 DEF FoundInLhs, FoundInRhs, NoneInCommon, Scanning
    <3>2. lhs \in Snapshot /\ rhs \in Snapshot /\ lhs # rhs
      BY <2>1, <3>1 DEF TypeOK, SidesDiffer
    <3>3. Ancestors(parents, lhs) \cup Ancestors(parents, rhs) \subseteq present
      <4>1. LogRead(lhsWalk, lhs) /\ LogRead(rhsWalk, rhs) /\ parents \in [Snapshot -> Seq(Snapshot)]
        BY <2>1, <3>1 DEF IInv, TypeOK
      <4>2. /\ Range(lhsWalk.log) = Ancestors(parents, lhs)
            /\ Range(rhsWalk.log) = Ancestors(parents, rhs)
        BY <3>2, <4>1, LogReadHolds
      <4>3. Range(lhsWalk.log) \subseteq present /\ Range(rhsWalk.log) \subseteq present
        BY <4>1 DEF LogRead, WalkInv
      <4>4. QED
        BY <4>2, <4>3
    <3>4. QED
      BY <2>1, <3>1, <3>2, <3>3, NilAssumption, ReturnAnswers
  <2>6. CASE BeginLhsLog \/ ReadLhsLog \/ BeginRhsLog \/ ReadRhsLog \/ BeginScan \/ Advance
    BY <2>6 DEF BeginLhsLog, ReadLhsLog, BeginRhsLog, ReadRhsLog, BeginScan, Advance,
                Scanning, input
  <2>7. CASE Returned \/ UNCHANGED vars
    BY <2>7 DEF Returned, vars
  <2>8. QED
    BY <2>2, <2>3, <2>4, <2>5, <2>6, <2>7 DEF Next, Step
<1>3. QED
  BY <1>1, <1>2, Invariance, FastForwardHolds, SidesDifferHolds, PTL
     DEF Spec, KeepsContract, Contract!Spec

-----------------------------------------------------------------------------
(***************************************************************************)
(* Histories without merges.  With one parent at most, a walk never has    *)
(* more than one snapshot to look at, so a log descends: every entry is an *)
(* ancestor of all entries before it.  What the scan has left of a log     *)
(* descends too, and holds every common ancestor, so all of them are       *)
(* ancestors of the entry that is found first.                             *)
(***************************************************************************)
Linear == \A h \in Snapshot : Len(parents[h]) <= 1

Descends(s) == \A i, j \in 1..Len(s) : i <= j => s[j] \in Ancestors(parents, s[i])

AtMostOne(s) == s = <<>> \/ \E x \in Snapshot : s = <<x>>

LineInv(w) ==
    /\ \/ AtMostOne(w.level) /\ w.pending = <<>> /\ w.next = <<>>
       \/ w.level = <<>> /\ AtMostOne(w.pending) /\ w.next = <<>>
       \/ w.level = <<>> /\ w.pending = <<>> /\ AtMostOne(w.next)
    /\ Descends(w.log)
    /\ \A h \in Unread(w) : \A i \in 1..Len(w.log) : h \in Ancestors(parents, w.log[i])

RecentInv ==
    Linear => /\ pc \in {"lhsLog", "rhsLog", "scan"} => LineInv(lhsWalk)
              /\ pc \in {"rhsLog", "scan"} => LineInv(rhsWalk)
              /\ pc = "scan" => Descends(lhsRest) /\ Descends(rhsRest)
              /\ BaseIsMostRecent

\* A walk starts with one snapshot and no log.
LEMMA StartsLinear ==
    ASSUME NEW h \in Snapshot
    PROVE  LineInv(StartWalk(h))
<1>1. /\ StartWalk(h).level = <<h>> /\ StartWalk(h).pending = <<>>
      /\ StartWalk(h).next = <<>> /\ StartWalk(h).log = <<>>
  BY DEF StartWalk
<1>2. Len(<<>>) = 0
  OBVIOUS
<1>3. QED
  BY <1>1, <1>2 DEF LineInv, AtMostOne, Descends

\* A list of one element at most.
LEMMA ShortLists ==
    /\ \A s \in Seq(Snapshot) : Len(s) <= 1 => AtMostOne(s)
    /\ \A x \in Snapshot : /\ Head(<<x>>) = x /\ Tail(<<x>>) = <<>>
                            /\ Append(<<>>, x) = <<x>> /\ <<x>> # <<>>
<1>1. ASSUME NEW s \in Seq(Snapshot), Len(s) <= 1, s # <<>>
      PROVE  \E x \in Snapshot : s = <<x>>
  <2>1. Len(s) = 1
    <3>1. Len(s) \in Nat /\ Len(s) # 0
      BY <1>1
    <3>2. \A n \in Nat : n <= 1 /\ n # 0 => n = 1
      OBVIOUS
    <3>3. QED
      BY <1>1, <3>1, <3>2
  <2>2. s[1] \in Snapshot /\ s = <<s[1]>>
    BY <2>1
  <2>3. QED
    BY <2>2
<1>2. ASSUME NEW x \in Snapshot
      PROVE  /\ Head(<<x>>) = x /\ Tail(<<x>>) = <<>>
             /\ Append(<<>>, x) = <<x>> /\ <<x>> # <<>>
  OBVIOUS
<1>3. QED
  BY <1>1, <1>2 DEF AtMostOne

\* In a history without merges the walk stays on one line.
LEMMA StaysLinear ==
    ASSUME Linear, parents \in [Snapshot -> Seq(Snapshot)],
           NEW w \in Walks, NEW v, NEW d,
           LineInv(w), WalkStep(w, v, parents, present, d)
    PROVE  LineInv(v)
<1>0. /\ w.level \in Seq(Snapshot) /\ w.pending \in Seq(Snapshot)
      /\ w.next \in Seq(Snapshot) /\ w.log \in Seq(Snapshot)
  BY DEF Walks
<1>1. CASE w.pending # <<>> /\ v = EnqueueParent(w)
  <2>1. PICK p \in Snapshot : w.level = <<>> /\ w.pending = <<p>> /\ w.next = <<>>
    BY <1>1 DEF LineInv, AtMostOne
  <2>2. Head(<<p>>) = p /\ Tail(<<p>>) = <<>> /\ Append(<<>>, p) = <<p>>
    BY ShortLists
  <2>3. /\ v.level = <<>> /\ v.pending = <<>> /\ v.log = w.log
        /\ v.next = <<>> \/ v.next = <<p>>
    BY <1>1, <2>1, <2>2 DEF EnqueueParent, Walks
  <2>4. Unread(v) \subseteq Unread(w)
    BY <2>1, <2>3, RangeBasics DEF Unread
  <2>5. AtMostOne(v.next)
    BY <2>3 DEF AtMostOne
  <2>6. QED
    BY <2>3, <2>4, <2>5 DEF LineInv
<1>2. CASE w.pending = <<>> /\ w.level = <<>> /\ v = NextLevel(w)
  <2>1. v.level = w.next /\ v.pending = <<>> /\ v.next = <<>> /\ v.log = w.log
    BY <1>2 DEF NextLevel, Walks
  <2>2. Unread(v) \subseteq Unread(w)
    BY <2>1, RangeBasics DEF Unread
  <2>3. AtMostOne(w.next)
    BY DEF LineInv, AtMostOne
  <2>4. QED
    BY <2>1, <2>2, <2>3 DEF LineInv
<1>3. CASE w.pending = <<>> /\ w.level # <<>> /\ v = ReadNext(w, parents, present)
  <2>0. PICK x \in Snapshot : w.level = <<x>> /\ w.next = <<>>
    BY <1>3 DEF LineInv, AtMostOne
  <2>1. Head(w.level) = x /\ Tail(w.level) = <<>>
    BY <2>0, ShortLists
  <2>2. CASE x \notin present
    <3>1. v = [w EXCEPT !.failed = TRUE]
      BY <1>3, <2>1, <2>2 DEF ReadNext
    <3>2. /\ v.level = w.level /\ v.pending = w.pending
          /\ v.next = w.next /\ v.log = w.log
      BY <3>1 DEF Walks
    <3>3. QED
      BY <3>2 DEF LineInv, Unread
  <2>3. CASE x \in present
    <3>1. /\ v.level = <<>> /\ v.pending = parents[x]
          /\ v.next = <<>> /\ v.log = Append(w.log, x)
      BY <1>3, <2>0, <2>1, <2>3 DEF ReadNext, Walks
    <3>2. Unread(v) = Range(parents[x])
      BY <3>1, RangeBasics DEF Unread
    <3>3. AtMostOne(parents[x])
      BY ShortLists DEF Linear
    <3>4. /\ Len(w.log) \in Nat /\ Len(v.log) = Len(w.log) + 1
          /\ \A i \in 1..Len(w.log) : v.log[i] = w.log[i] /\ w.log[i] \in Snapshot
          /\ v.log[Len(w.log) + 1] = x
      BY <1>0, <3>1
    <3>5. x \in Unread(w)
      BY <2>0, RangeSingleton DEF Unread
    <3>6. ASSUME NEW i \in 1..Len(v.log)
           PROVE  v.log[i] \in Snapshot /\ x \in Ancestors(parents, v.log[i])
      <4>1. CASE i \in 1..Len(w.log)
        BY <3>4, <3>5, <4>1 DEF LineInv
      <4>2. CASE i = Len(w.log) + 1
        BY <3>4, <4>2, AncestorOfItself
      <4>3. QED
        BY <3>4, <4>1, <4>2
    <3>7. Descends(v.log)
      <4> SUFFICES ASSUME NEW i \in 1..Len(v.log), NEW j \in 1..Len(v.log), i <= j
                   PROVE  v.log[j] \in Ancestors(parents, v.log[i])
        BY DEF Descends
      <4>1. CASE j = Len(w.log) + 1
        BY <3>4, <3>6, <4>1
      <4>2. CASE j \in 1..Len(w.log)
        <5>1. i \in 1..Len(w.log)
          BY <3>4, <4>2
        <5>2. QED
          BY <3>4, <4>2, <5>1 DEF LineInv, Descends
      <4>3. QED
        BY <3>4, <4>1, <4>2
    <3>8. ASSUME NEW h \in Unread(v), NEW i \in 1..Len(v.log)
           PROVE  h \in Ancestors(parents, v.log[i])
      BY <3>2, <3>6, ParentOfAncestor
    <3>9. QED
      BY <3>1, <3>3, <3>7, <3>8 DEF LineInv
  <2>4. QED
    BY <2>2, <2>3
<1>4. QED
  BY <1>1, <1>2, <1>3 DEF WalkStep

\* What is left of a log that descends does, and descends from its head.
LEMMA RestDescends ==
    ASSUME NEW s \in Seq(Snapshot), s # <<>>, Descends(s)
    PROVE  /\ Descends(Tail(s))
           /\ Range(s) \subseteq Ancestors(parents, Head(s))
<1>1. /\ Len(s) \in Nat \ {0} /\ Head(s) = s[1] /\ DOMAIN s = 1..Len(s)
      /\ Len(Tail(s)) = Len(s) - 1
      /\ \A i \in 1..(Len(s) - 1) : Tail(s)[i] = s[i + 1]
  OBVIOUS
<1>2. Range(s) \subseteq Ancestors(parents, Head(s))
  BY <1>1 DEF Descends, Range
<1>3. ASSUME NEW i \in 1..Len(Tail(s)), NEW j \in 1..Len(Tail(s)), i <= j
      PROVE  Tail(s)[j] \in Ancestors(parents, Tail(s)[i])
  <2>1. i + 1 \in 1..Len(s) /\ j + 1 \in 1..Len(s) /\ i + 1 <= j + 1
    BY <1>1, <1>3
  <2>2. Tail(s)[i] = s[i + 1] /\ Tail(s)[j] = s[j + 1]
    BY <1>1
  <2>3. QED
    BY <2>1, <2>2 DEF Descends
<1>4. QED
  BY <1>2, <1>3 DEF Descends

\* Without merges, what merge.Base returns is the most recent common ancestor.
THEOREM FindsTheMostRecent ==
    ASSUME Acyclic
    PROVE  Spec => []MostRecentWithoutMerges
<1>1. Init => RecentInv
  BY DEF Init, RecentInv, BaseIsMostRecent
<1>2. IInv /\ FastForwardInv /\ RecentInv /\ [Next]_vars => RecentInv'
  <2> SUFFICES ASSUME IInv, FastForwardInv, RecentInv, [Next]_vars, Linear'
               PROVE  /\ pc' \in {"lhsLog", "rhsLog", "scan"} => LineInv(lhsWalk)'
                      /\ pc' \in {"rhsLog", "scan"} => LineInv(rhsWalk)'
                      /\ pc' = "scan" => Descends(lhsRest)' /\ Descends(rhsRest)'
                      /\ BaseIsMostRecent'
    BY DEF RecentInv
  <2>0. UNCHANGED <<parents, present, lhs, rhs>>
    BY DEF Next, Step, Returned, SameSnapshot, NilSide, BeginLhsLog, ReadLhsLog,
           BeginRhsLog, ReadRhsLog, LogFailed, BeginScan, FoundInLhs, FoundInRhs,
           Advance, NoneInCommon, Return, input, vars
  <2>1. /\ Linear
        /\ parents \in [Snapshot -> Seq(Snapshot)] /\ parents \in Histories
        /\ lhs \in Hash /\ rhs \in Hash
        /\ lhsRest \in Seq(Snapshot) /\ rhsRest \in Seq(Snapshot)
    BY <2>0 DEF Linear, IInv, TypeOK, FastForwardInv
  <2>2. /\ pc \in {"lhsLog", "rhsLog", "scan"} => LineInv(lhsWalk)
        /\ pc \in {"rhsLog", "scan"} => LineInv(rhsWalk)
        /\ pc = "scan" => Descends(lhsRest) /\ Descends(rhsRest)
        /\ BaseIsMostRecent
    BY <2>1 DEF RecentInv
  <2>3. CommonAncestors' = CommonAncestors
    BY <2>0 DEF CommonAncestors
  <2>4. ASSUME NEW h \in Hash, Return(h),
               h # Nil => CommonAncestors \subseteq Ancestors(parents, h)
        PROVE  pc' = "done" /\ BaseIsMostRecent'
    <3>1. pc' = "done" /\ base' = h
      BY <2>4 DEF Return
    <3>2. ASSUME h # Nil, NEW a \in CommonAncestors, h \in Ancestors(parents, a)
          PROVE  a = h
      <4>1. a \in Snapshot /\ h \in Snapshot /\ a \in Ancestors(parents, h)
        BY <2>4, <3>2 DEF CommonAncestors, Ancestors
      <4>2. QED
        BY <2>1, <3>2, <4>1 DEF Acyclic
    <3>3. QED
      BY <2>0, <2>3, <3>1, <3>2 DEF BaseIsMostRecent
  <2>5. CASE SameSnapshot
    <3>1. lhs # Nil => CommonAncestors \subseteq Ancestors(parents, lhs)
      BY DEF CommonAncestors
    <3>2. QED
      BY <2>1, <2>4, <2>5, <3>1 DEF SameSnapshot
  <2>6. CASE NilSide
    BY <2>4, <2>6 DEF NilSide, Hash
  <2>7. CASE BeginLhsLog
    <3>1. pc' = "lhsLog" /\ lhsWalk' = StartWalk(lhs) /\ lhs \in Snapshot
      BY <2>1, <2>7 DEF BeginLhsLog, Hash
    <3>2. LineInv(lhsWalk)'
      BY <2>0, <3>1, StartsLinear DEF LineInv, Descends
    <3>3. QED
      BY <3>1, <3>2 DEF BaseIsMostRecent
  <2>8. CASE ReadLhsLog
    <3>1. /\ pc = "lhsLog" /\ pc' = "lhsLog" /\ lhsWalk \in Walks
          /\ WalkStep(lhsWalk, lhsWalk', parents, present, -1)
      BY <2>8 DEF ReadLhsLog, IInv, TypeOK
    <3>2. LineInv(lhsWalk')
      BY <2>1, <2>2, <3>1, StaysLinear
    <3>3. LineInv(lhsWalk)'
      BY <2>0, <3>2 DEF LineInv, Descends
    <3>4. QED
      BY <3>1, <3>3 DEF BaseIsMostRecent
  <2>9. CASE BeginRhsLog
    <3>1. /\ pc = "lhsLog" /\ pc' = "rhsLog" /\ rhsWalk' = StartWalk(rhs) /\ rhs \in Snapshot
          /\ lhsWalk' = lhsWalk
      BY <2>9 DEF BeginRhsLog, IInv, TypeOK
    <3>2. LineInv(rhsWalk)'
      BY <2>0, <3>1, StartsLinear DEF LineInv, Descends
    <3>3. LineInv(lhsWalk)'
      BY <2>0, <2>2, <3>1 DEF LineInv, Descends
    <3>4. QED
      BY <3>1, <3>2, <3>3 DEF BaseIsMostRecent
  <2>10. CASE ReadRhsLog
    <3>1. /\ pc = "rhsLog" /\ pc' = "rhsLog" /\ rhsWalk \in Walks /\ lhsWalk' = lhsWalk
          /\ WalkStep(rhsWalk, rhsWalk', parents, present, -1)
      BY <2>10 DEF ReadRhsLog, IInv, TypeOK
    <3>2. LineInv(rhsWalk')
      BY <2>1, <2>2, <3>1, StaysLinear
    <3>3. LineInv(rhsWalk)' /\ LineInv(lhsWalk)'
      BY <2>0, <2>2, <3>1, <3>2 DEF LineInv, Descends
    <3>4. QED
      BY <3>1, <3>3 DEF BaseIsMostRecent
  <2>11. CASE LogFailed
    BY <2>11 DEF LogFailed, BaseIsMostRecent
  <2>12. CASE BeginScan
    <3>1. /\ pc = "rhsLog" /\ pc' = "scan" /\ UNCHANGED <<lhsWalk, rhsWalk>>
          /\ lhsRest' = lhsWalk.log /\ rhsRest' = rhsWalk.log
      BY <2>12 DEF BeginScan, walks
    <3>2. LineInv(lhsWalk)' /\ LineInv(rhsWalk)'
      BY <2>0, <2>2, <3>1 DEF LineInv, Descends
    <3>3. Descends(lhsRest)' /\ Descends(rhsRest)'
      BY <2>0, <2>2, <3>1 DEF LineInv, Descends
    <3>4. QED
      BY <3>1, <3>2, <3>3 DEF BaseIsMostRecent
  <2>13. ASSUME Scanning
         PROVE  /\ pc = "scan"
                /\ Head(lhsRest) \in Snapshot /\ Head(rhsRest) \in Snapshot
                /\ CommonAncestors \subseteq Ancestors(parents, Head(lhsRest))
                /\ CommonAncestors \subseteq Ancestors(parents, Head(rhsRest))
                /\ Descends(Tail(lhsRest)) /\ Descends(Tail(rhsRest))
    <3>1. pc = "scan" /\ lhsRest # <<>> /\ rhsRest # <<>>
      BY <2>13 DEF Scanning
    <3>2. Descends(lhsRest) /\ Descends(rhsRest)
      BY <2>2, <3>1
    <3>3. /\ Descends(Tail(lhsRest)) /\ Range(lhsRest) \subseteq Ancestors(parents, Head(lhsRest))
          /\ Descends(Tail(rhsRest)) /\ Range(rhsRest) \subseteq Ancestors(parents, Head(rhsRest))
      BY <2>1, <3>1, <3>2, RestDescends
    <3>4. Head(lhsRest) \in Snapshot /\ Head(rhsRest) \in Snapshot
      BY <2>1, <3>1, RangeHeadTail
    <3>5. QED
      BY <3>1, <3>3, <3>4 DEF IInv
  <2>14. CASE FoundInLhs
    BY <2>4, <2>13, <2>14 DEF FoundInLhs, Hash
  <2>15. CASE FoundInRhs
    BY <2>4, <2>13, <2>15 DEF FoundInRhs, Hash
  <2>16. CASE Advance
    <3>1. /\ pc = "scan" /\ pc' = "scan" /\ UNCHANGED <<lhsWalk, rhsWalk>>
          /\ lhsRest' = Tail(lhsRest) /\ rhsRest' = Tail(rhsRest)
      BY <2>16 DEF Advance, Scanning, walks
    <3>2. LineInv(lhsWalk)' /\ LineInv(rhsWalk)'
      BY <2>0, <2>2, <3>1 DEF LineInv, Descends
    <3>3. Descends(lhsRest)' /\ Descends(rhsRest)'
      BY <2>0, <2>13, <2>16, <3>1 DEF Advance, Descends
    <3>4. QED
      BY <3>1, <3>2, <3>3 DEF BaseIsMostRecent
  <2>17. CASE NoneInCommon
    BY <2>4, <2>17 DEF NoneInCommon, Hash
  <2>18. CASE UNCHANGED vars
    <3>1. UNCHANGED <<pc, lhsWalk, rhsWalk, lhsRest, rhsRest, base>>
      BY <2>18 DEF vars
    <3>2. LineInv(lhsWalk)' = LineInv(lhsWalk) /\ LineInv(rhsWalk)' = LineInv(rhsWalk)
      BY <2>0, <3>1 DEF LineInv, Descends
    <3>3. Descends(lhsRest)' = Descends(lhsRest) /\ Descends(rhsRest)' = Descends(rhsRest)
      BY <2>0, <3>1 DEF Descends
    <3>4. BaseIsMostRecent' = BaseIsMostRecent
      BY <2>0, <2>3, <3>1 DEF BaseIsMostRecent
    <3>5. QED
      BY <2>2, <3>1, <3>2, <3>3, <3>4
  <2>19. QED
    BY <2>5, <2>6, <2>7, <2>8, <2>9, <2>10, <2>11, <2>12, <2>14, <2>15, <2>16, <2>17,
       <2>18 DEF Next, Step, Returned
<1>3. RecentInv => MostRecentWithoutMerges
  BY DEF RecentInv, MostRecentWithoutMerges, Linear
<1>4. Spec => []FastForwardInv
  BY FastForwardHolds
<1>5. QED
  BY <1>1, <1>2, <1>3, <1>4, Invariance, PTL DEF Spec

-----------------------------------------------------------------------------
(***************************************************************************)
(* The log.  log.ReadLog without a depth limit lists exactly the           *)
(* ancestors, with one the snapshots near by, for every history graph, and *)
(* it fails only in an incomplete archive.                                 *)
(***************************************************************************)

\* The inductive invariant: the inputs stay what they were, and the walk is
\* in the invariant of its loops.
LogInv ==
    /\ parents \in [Snapshot -> Seq(Snapshot)]
    /\ present \subseteq Snapshot
    /\ start \in Snapshot
    /\ maxDepth \in Int
    /\ WalkInv(walk, start, parents, present)

\* The walk of every reachable state satisfies the invariant of its loops.
THEOREM LogInvariance == LogSpec => []LogInv
<1>1. LogInit => LogInv
  BY StartWalkInv, HistoriesAssumption, ArchivesAssumption, DepthsAssumption DEF LogInit, LogInv
<1>2. LogInv /\ [LogNext]_logVars => LogInv'
  <2> SUFFICES ASSUME LogInv, [LogNext]_logVars PROVE LogInv'
    OBVIOUS
  <2>1. CASE LogStep
    <3>1. UNCHANGED <<parents, present, start, maxDepth>>
      BY <2>1 DEF LogStep, question
    <3>2. WalkInv(walk', start, parents, present)
      BY <2>1, WalkStepInv DEF LogStep, LogInv
    <3>3. QED
      BY <3>1, <3>2 DEF LogInv
  <2>2. CASE UNCHANGED logVars
    BY <2>2 DEF LogInv, logVars
  <2>3. QED
    BY <2>1, <2>2 DEF LogNext, LogReturned
<1>3. QED
  BY <1>1, <1>2, PTL DEF LogSpec

\* Type correctness.
THEOREM LogTypeCorrect == LogSpec => []LogTypeOK
<1>1. LogInv => LogTypeOK
  BY DEF LogInv, WalkInv, LogTypeOK
<1>2. QED
  BY <1>1, LogInvariance, PTL

\* log.ReadLog lists the ancestors of the snapshot and nothing else.
THEOREM ReadsExactlyTheAncestors == LogSpec => []LogIsAncestry
<1>1. LogInv => LogIsAncestry
  <2> SUFFICES ASSUME LogInv, LogFinished, maxDepth < 0
               PROVE  Range(walk.log) = Ancestors(parents, start)
    BY DEF LogIsAncestry
  <2>1. QED
    BY WalkReadsAncestors DEF LogInv, LogFinished
<1>2. QED
  BY <1>1, LogInvariance, PTL

\* log.ReadLog fails only when an ancestor is missing, and never misses that.
THEOREM FailsExactlyWhenIncomplete == LogSpec => []LogFailsOnlyWhenIncomplete
<1>1. LogInv => LogFailsOnlyWhenIncomplete
  <2> SUFFICES ASSUME LogInv
               PROVE  /\ walk.failed => ~(Ancestors(parents, start) \subseteq present)
                      /\ LogFinished /\ maxDepth < 0 => Ancestors(parents, start) \subseteq present
    BY DEF LogFailsOnlyWhenIncomplete
  <2>1. walk.failed => ~(Ancestors(parents, start) \subseteq present)
    BY DEF LogInv, WalkInv
  <2>2. LogFinished /\ maxDepth < 0 => Ancestors(parents, start) \subseteq present
    BY WalkReadsAncestors DEF LogInv, LogFinished
  <2>3. QED
    BY <2>1, <2>2
<1>2. QED
  BY <1>1, LogInvariance, PTL

-----------------------------------------------------------------------------
(***************************************************************************)
(* The order of the log.  Whatever is queued is the snapshot asked for or  *)
(* a parent of something that has been read, so that an entry can only     *)
(* follow a snapshot it is a parent of.                                    *)
(***************************************************************************)
Explained(w, h) ==
    \E i \in 1..Len(w.log) : h \in Range(parents[w.log[i]])

OrderInv ==
    /\ \/ /\ walk.log = <<>> /\ walk.level = <<start>>
          /\ walk.pending = <<>> /\ walk.next = <<>>
       \/ \A h \in Unread(walk) : Explained(walk, h)
    /\ ExplainedByEarlierEntry

\* Entries never follow a snapshot they have nothing to do with.
THEOREM NeverOutOfTheBlue == LogSpec => []ExplainedByEarlierEntry
<1>1. LogInit => OrderInv
  BY DEF LogInit, StartWalk, OrderInv, ExplainedByEarlierEntry
<1>2. LogInv /\ OrderInv /\ [LogNext]_logVars => OrderInv'
  <2> SUFFICES ASSUME LogInv, OrderInv, [LogNext]_logVars PROVE OrderInv'
    OBVIOUS
  <2>0. /\ walk \in Walks /\ parents \in [Snapshot -> Seq(Snapshot)]
        /\ walk.level \in Seq(Snapshot) /\ walk.pending \in Seq(Snapshot)
        /\ walk.next \in Seq(Snapshot) /\ walk.log \in Seq(Snapshot)
    BY DEF LogInv, WalkInv, Walks
  <2>1. CASE LogStep
    <3>0. parents' = parents /\ start' = start
      BY <2>1 DEF LogStep, question
    <3>1. CASE walk.pending # <<>> /\ walk' = EnqueueParent(walk)
      <4>1. /\ walk'.level = walk.level /\ walk'.pending = Tail(walk.pending)
            /\ walk'.next = (IF Head(walk.pending) \in walk.visited
                             THEN walk.next ELSE Append(walk.next, Head(walk.pending)))
            /\ walk'.log = walk.log
        BY <2>0, <3>1 DEF EnqueueParent, Walks
      <4>2. /\ Head(walk.pending) \in Snapshot
            /\ Range(walk.pending) = {Head(walk.pending)} \cup Range(Tail(walk.pending))
        BY <2>0, <3>1, RangeHeadTail
      <4>3. Range(Append(walk.next, Head(walk.pending)))
                = Range(walk.next) \cup {Head(walk.pending)}
        BY <2>0, <4>2, RangeAppend
      <4>4. Unread(walk') \subseteq Unread(walk)
        BY <4>1, <4>2, <4>3 DEF Unread
      <4>5. \A h \in Unread(walk) : Explained(walk, h)
        BY <3>1 DEF OrderInv
      <4>6. \A h \in Unread(walk)' : Explained(walk, h)'
        BY <3>0, <4>1, <4>4, <4>5 DEF Explained, Unread
      <4>7. ExplainedByEarlierEntry'
        BY <3>0, <4>1 DEF OrderInv, ExplainedByEarlierEntry
      <4>8. QED
        BY <4>6, <4>7 DEF OrderInv
    <3>2. CASE walk.pending = <<>> /\ walk.level = <<>> /\ walk' = NextLevel(walk)
      <4>1. /\ walk'.level = walk.next /\ walk'.pending = walk.pending
            /\ walk'.next = <<>> /\ walk'.log = walk.log
        BY <2>0, <3>2 DEF NextLevel, Walks
      <4>2. Unread(walk') \subseteq Unread(walk)
        BY <4>1, RangeBasics DEF Unread
      <4>3. \A h \in Unread(walk) : Explained(walk, h)
        BY <3>2 DEF OrderInv
      <4>4. \A h \in Unread(walk)' : Explained(walk, h)'
        BY <3>0, <4>1, <4>2, <4>3 DEF Explained, Unread
      <4>5. ExplainedByEarlierEntry'
        BY <3>0, <4>1 DEF OrderInv, ExplainedByEarlierEntry
      <4>6. QED
        BY <4>4, <4>5 DEF OrderInv
    <3>3. CASE /\ walk.pending = <<>> /\ walk.level # <<>>
               /\ walk' = ReadNext(walk, parents, present)
      <4> DEFINE x == Head(walk.level)
      <4>1. CASE x \notin present
        <5>1. walk' = [walk EXCEPT !.failed = TRUE]
          BY <3>3, <4>1 DEF ReadNext
        <5>2. /\ walk'.level = walk.level /\ walk'.pending = walk.pending
              /\ walk'.next = walk.next /\ walk'.log = walk.log
          BY <2>0, <5>1 DEF Walks
        <5>3. QED
          BY <3>0, <5>2 DEF OrderInv, Explained, Unread, ExplainedByEarlierEntry
      <4>2. CASE x \in present
        <5>1. /\ walk'.level = Tail(walk.level) /\ walk'.pending = parents[x]
              /\ walk'.next = walk.next /\ walk'.log = Append(walk.log, x)
          BY <2>0, <3>3, <4>2 DEF ReadNext, Walks
        <5>2. x \in Snapshot /\ Range(walk.level) = {x} \cup Range(Tail(walk.level))
          BY <2>0, <3>3, RangeHeadTail
        <5>3. /\ Len(walk.log) \in Nat /\ Len(walk'.log) = Len(walk.log) + 1
              /\ \A i \in 1..Len(walk.log) : walk'.log[i] = walk.log[i]
              /\ walk'.log[Len(walk.log) + 1] = x
          BY <2>0, <5>1, <5>2
        <5>4. ASSUME NEW h, Explained(walk, h)
              PROVE  Explained(walk, h)'
          BY <3>0, <5>3, <5>4 DEF Explained
        <5>5. ASSUME NEW h \in Range(parents[x])
              PROVE  Explained(walk, h)'
          <6>1. Len(walk.log) + 1 \in 1..Len(walk'.log)
            BY <5>3
          <6>2. QED
            BY <3>0, <5>3, <6>1 DEF Explained
        <5>6. \A h \in Unread(walk)' : Explained(walk, h)'
          <6>1. Unread(walk)' = Range(Tail(walk.level)) \cup Range(parents[x]) \cup Range(walk.next)
            BY <5>1 DEF Unread
          <6>2. CASE walk.log = <<>> /\ walk.level = <<start>> /\ walk.next = <<>>
            <7>1. Tail(walk.level) = <<>>
              BY <6>2
            <7>2. QED
              BY <5>5, <6>1, <6>2, <7>1, RangeBasics
          <6>3. CASE \A h \in Unread(walk) : Explained(walk, h)
            <7>1. Range(Tail(walk.level)) \cup Range(walk.next) \subseteq Unread(walk)
              BY <5>2 DEF Unread
            <7>2. QED
              BY <5>4, <5>5, <6>1, <6>3, <7>1
          <6>4. QED
            BY <6>2, <6>3 DEF OrderInv
        <5>7. ExplainedByEarlierEntry'
          <6> SUFFICES ASSUME NEW j \in 2..Len(walk'.log)
                       PROVE  \E i \in 1..(j - 1) :
                                  walk'.log[j] \in Range(parents[walk'.log[i]])
            BY <3>0 DEF ExplainedByEarlierEntry
          <6>1. CASE j \in 2..Len(walk.log)
            <7>1. PICK i \in 1..(j - 1) : walk.log[j] \in Range(parents[walk.log[i]])
              BY <6>1 DEF OrderInv, ExplainedByEarlierEntry
            <7>2. i \in 1..Len(walk.log) /\ j \in 1..Len(walk.log)
              BY <5>3, <6>1
            <7>3. QED
              BY <5>3, <7>1, <7>2
          <6>2. CASE j = Len(walk.log) + 1
            <7>1. walk.log # <<>>
              <8>1. Len(walk.log) # 0
                BY <5>3, <6>2
              <8>2. QED
                BY <8>1
            <7>2. x \in Unread(walk)
              BY <5>2 DEF Unread
            <7>3. Explained(walk, x)
              BY <7>1, <7>2 DEF OrderInv
            <7>4. PICK i \in 1..Len(walk.log) : x \in Range(parents[walk.log[i]])
              BY <7>3 DEF Explained
            <7>5. i \in 1..(j - 1)
              BY <5>3, <6>2
            <7>6. QED
              BY <5>3, <6>2, <7>4, <7>5
          <6>3. QED
            BY <5>3, <6>1, <6>2
        <5>8. QED
          BY <5>6, <5>7 DEF OrderInv
      <4>3. QED
        BY <4>1, <4>2
    <3>4. QED
      BY <2>1, <3>1, <3>2, <3>3 DEF LogStep, WalkStep
  <2>2. CASE UNCHANGED logVars
    BY <2>2 DEF logVars, OrderInv, Explained, Unread, ExplainedByEarlierEntry
  <2>3. QED
    BY <2>1, <2>2 DEF LogNext, LogReturned
<1>3. OrderInv => ExplainedByEarlierEntry
  BY DEF OrderInv
<1>4. QED
  BY <1>1, <1>2, <1>3, LogInvariance, PTL DEF LogSpec

-----------------------------------------------------------------------------
(***************************************************************************)
(* The depth limit.  While level n is read, everything fewer than n links  *)
(* away has been read, everything n links away or nearer is read or in the *)
(* level, and the next level holds nothing that is farther than n + 1      *)
(* links.  The recursive function Within exists, because the recursion is  *)
(* over the numbers.                                                       *)
(***************************************************************************)
ParentsOf(S) == UNION {Range(parents[h]) : h \in S}

\* The equations of Within.
LEMMA WithinDef ==
    ASSUME parents \in [Snapshot -> Seq(Snapshot)], start \in Snapshot
    PROVE  /\ Within[0] = {}
           /\ Within[1] = {start}
           /\ \A d \in Nat : d # 0 => Within[d + 1] = Within[d] \cup ParentsOf(Within[d])
<1>0. PICK V : V = SUBSET Snapshot
  OBVIOUS
<1>1. PICK F : F = [S \in V |-> S \cup ParentsOf(S)]
  OBVIOUS
<1>2. F \in [V -> V]
  <2>1. ASSUME NEW S \in V PROVE S \cup ParentsOf(S) \in V
    BY <1>0, RangeBasics DEF ParentsOf
  <2>2. QED
    BY <1>1, <2>1
<1>3. PICK v : v = {start}
  OBVIOUS
<1>4. v \in V
  BY <1>0, <1>3
<1>5. PICK f \in [Nat -> V] : f[0] = v /\ \A n \in Nat : f[n + 1] = F[f[n]]
  BY ONLY <1>2, <1>4, NatRecursion
<1>6. PICK g : g = [d \in Nat |-> IF d = 0 THEN {} ELSE f[d - 1]]
  OBVIOUS
<1>7. g = [d \in Nat |-> IF d = 0 THEN {}
                         ELSE IF d = 1 THEN {start}
                         ELSE g[d - 1] \cup UNION {Range(parents[h]) : h \in g[d - 1]}]
  <2>1. ASSUME NEW d \in Nat
        PROVE  (IF d = 0 THEN {} ELSE f[d - 1])
               = (IF d = 0 THEN {}
                  ELSE IF d = 1 THEN {start}
                  ELSE g[d - 1] \cup UNION {Range(parents[h]) : h \in g[d - 1]})
    <3>1. CASE d = 0 \/ d = 1
      BY <1>3, <1>5, <3>1, 1 - 1 = 0
    <3>2. CASE d # 0 /\ d # 1
      <4>1. d - 2 \in Nat /\ (d - 2) + 1 = d - 1 /\ d - 1 \in Nat /\ d - 1 # 0
            /\ (d - 1) - 1 = d - 2
        BY <3>2
      <4>2. f[d - 1] = F[f[d - 2]]
        BY <1>5, <4>1
      <4>3. g[d - 1] = f[d - 2] /\ f[d - 2] \in V
        BY <1>6, <4>1
      <4>4. F[f[d - 2]] = f[d - 2] \cup ParentsOf(f[d - 2])
        BY <1>1, <4>3
      <4>5. QED
        BY <3>2, <4>2, <4>3, <4>4 DEF ParentsOf
    <3>3. QED
      BY <3>1, <3>2
  <2>2. PICK h : h = [d \in Nat |-> IF d = 0 THEN {}
                         ELSE IF d = 1 THEN {start}
                         ELSE g[d - 1] \cup UNION {Range(parents[x]) : x \in g[d - 1]}]
    OBVIOUS
  <2>3. \A d \in Nat : g[d] = h[d]
    BY <1>6, <2>1, <2>2
  <2>4. g = h
    <3>1. g = [d \in Nat |-> g[d]] /\ h = [d \in Nat |-> h[d]]
      BY <1>6, <2>2, Zenon
    <3>2. QED
      BY <2>3, <3>1, Zenon
  <2>5. QED
    BY <2>2, <2>4
<1>8. Within = [d \in Nat |-> IF d = 0 THEN {}
                              ELSE IF d = 1 THEN {start}
                              ELSE Within[d - 1] \cup
                                   UNION {Range(parents[h]) : h \in Within[d - 1]}]
  BY <1>7, Zenon DEF Within
<1>9. Within[0] = {} /\ Within[1] = {start}
  BY <1>8
<1>10. ASSUME NEW d \in Nat, d # 0
      PROVE  Within[d + 1] = Within[d] \cup ParentsOf(Within[d])
  <2>1. d + 1 \in Nat /\ d + 1 # 0 /\ d + 1 # 1 /\ (d + 1) - 1 = d
    BY <1>10
  <2>2. QED
    BY <1>8, <2>1 DEF ParentsOf
<1>11. QED
  BY <1>9, <1>10

\* More links lead at least as far, and nowhere but to ancestors.
LEMMA WithinGrows ==
    ASSUME parents \in [Snapshot -> Seq(Snapshot)], start \in Snapshot
    PROVE  /\ \A d \in Nat : Within[d] \subseteq Ancestors(parents, start)
           /\ \A d \in Nat : Within[d] \subseteq Within[d + 1]
           /\ \A d, e \in Nat : d <= e => Within[d] \subseteq Within[e]
<1>1. ASSUME NEW d \in Nat
      PROVE  Within[d] \subseteq Within[d + 1]
  BY WithinDef
<1>2. \A d \in Nat : Within[d] \subseteq Ancestors(parents, start)
  <2> DEFINE S == {d \in Nat : Within[d] \subseteq Ancestors(parents, start)}
  <2>1. 0 \in S
    BY WithinDef
  <2>2. ASSUME NEW d \in Nat, d \in S
        PROVE  d + 1 \in S
    <3>1. CASE d = 0
      BY <3>1, WithinDef, AncestorOfItself
    <3>2. CASE d # 0
      <4>1. Within[d + 1] = Within[d] \cup ParentsOf(Within[d])
        BY <3>2, WithinDef
      <4>2. ParentsOf(Within[d]) \subseteq Ancestors(parents, start)
        BY <2>2, ParentOfAncestor DEF ParentsOf
      <4>3. QED
        BY <2>2, <4>1, <4>2
    <3>3. QED
      BY <3>1, <3>2
  <2> HIDE DEF S
  <2>3. Nat \subseteq S
    BY <2>1, <2>2, SetInduction
  <2>4. QED
    BY <2>3 DEF S
<1>3. ASSUME NEW d \in Nat
      PROVE  \A e \in Nat : d <= e => Within[d] \subseteq Within[e]
  <2> DEFINE S == {e \in Nat : d <= e => Within[d] \subseteq Within[e]}
  <2>1. 0 \in S
    OBVIOUS
  <2>2. ASSUME NEW e \in Nat, e \in S
        PROVE  e + 1 \in S
    <3>1. d <= e + 1 => d <= e \/ d = e + 1
      OBVIOUS
    <3>2. QED
      BY <1>1, <2>2, <3>1
  <2> HIDE DEF S
  <2>3. Nat \subseteq S
    BY <2>1, <2>2, SetInduction
  <2>4. QED
    BY <2>3 DEF S
<1>4. QED
  BY <1>1, <1>2, <1>3

DepthInv ==
    /\ maxDepth >= 0 => /\ walk.depth <= maxDepth
                        /\ walk.depth = maxDepth => walk.visited \subseteq Within[walk.depth]
    /\ Within[walk.depth] \subseteq walk.visited
    /\ Within[walk.depth + 1] \subseteq walk.visited \cup Range(walk.level)
    /\ walk.visited \cup Range(walk.level) \subseteq Within[walk.depth + 1]
    /\ Range(walk.pending) \cup Range(walk.next) \subseteq Within[walk.depth + 2]

\* The invariant of the depth starts with the walk.
LEMMA DepthInit ==
    ASSUME LogInit
    PROVE  DepthInv
<1>0. parents \in [Snapshot -> Seq(Snapshot)] /\ start \in Snapshot /\ maxDepth \in Int
  BY HistoriesAssumption, DepthsAssumption DEF LogInit
<1>1. /\ walk.level = <<start>> /\ walk.pending = <<>> /\ walk.next = <<>>
      /\ walk.visited = {} /\ walk.depth = 0
  BY DEF LogInit, StartWalk
<1>2. Range(walk.level) = {start} /\ Range(walk.pending) = {} /\ Range(walk.next) = {}
  BY <1>0, <1>1, RangeSingleton, RangeBasics
<1>3. 0 + 1 = 1 /\ Within[0] = {} /\ Within[1] = {start}
  BY <1>0, WithinDef
<1>4. QED
  BY <1>0, <1>1, <1>2, <1>3 DEF DepthInv

\* Every iteration of the loops keeps it.
LEMMA DepthStep == LogInv /\ DepthInv /\ LogStep => DepthInv'
<1> SUFFICES ASSUME LogInv, DepthInv, LogStep PROVE DepthInv'
  OBVIOUS
<1>0. /\ walk \in Walks /\ parents \in [Snapshot -> Seq(Snapshot)]
      /\ start \in Snapshot /\ maxDepth \in Int
      /\ walk.level \in Seq(Snapshot) /\ walk.pending \in Seq(Snapshot)
      /\ walk.next \in Seq(Snapshot) /\ walk.log \in Seq(Snapshot) /\ walk.depth \in Nat
  BY DEF LogInv, WalkInv, Walks
<1>1. parents' = parents /\ start' = start /\ maxDepth' = maxDepth
  BY DEF LogStep, question
<1>2. Within' = Within
  BY <1>1 DEF Within
<1>3. walk.depth # maxDepth
  BY DEF LogStep, WalkStep, WalkDone
<1>4. CASE walk.pending # <<>> /\ walk' = EnqueueParent(walk)
  <2>1. /\ walk'.level = walk.level /\ walk'.pending = Tail(walk.pending)
        /\ walk'.next = (IF Head(walk.pending) \in walk.visited
                         THEN walk.next ELSE Append(walk.next, Head(walk.pending)))
        /\ walk'.visited = walk.visited /\ walk'.depth = walk.depth
    BY <1>0, <1>4 DEF EnqueueParent, Walks
  <2>2. /\ Head(walk.pending) \in Snapshot
        /\ Range(walk.pending) = {Head(walk.pending)} \cup Range(Tail(walk.pending))
    BY <1>0, <1>4, RangeHeadTail
  <2>3. Range(Append(walk.next, Head(walk.pending)))
            = Range(walk.next) \cup {Head(walk.pending)}
    BY <1>0, <2>2, RangeAppend
  <2>4. Range(walk'.pending) \cup Range(walk'.next)
            \subseteq Range(walk.pending) \cup Range(walk.next)
    BY <2>1, <2>2, <2>3
  <2>5. QED
    BY <1>1, <1>2, <2>1, <2>4 DEF DepthInv
<1>5. CASE walk.pending = <<>> /\ walk.level = <<>> /\ walk' = NextLevel(walk)
  <2>1. /\ walk'.level = walk.next /\ walk'.pending = <<>> /\ walk'.next = <<>>
        /\ walk'.visited = walk.visited /\ walk'.depth = walk.depth + 1
    BY <1>0, <1>5 DEF NextLevel, Walks
  <2>2. Range(walk.level) = {} /\ Range(walk.pending) = {} /\ Range(walk'.pending) = {}
        /\ Range(walk'.next) = {}
    BY <1>5, <2>1, RangeBasics
  <2>3. walk.visited = Within[walk.depth + 1]
    BY <2>2 DEF DepthInv
  <2>4. /\ walk.depth + 1 \in Nat /\ walk.depth + 1 # 0
        /\ (walk.depth + 1) + 1 = walk.depth + 2
    BY <1>0
  <2>5. Within[walk.depth + 2] = walk.visited \cup ParentsOf(walk.visited)
    BY <1>0, <2>3, <2>4, WithinDef
  <2>6. ParentsOf(walk.visited) \subseteq walk.visited \cup Range(walk.next)
    BY <2>2 DEF ParentsOf, LogInv, WalkInv, Unread
  <2>7. Range(walk.next) \subseteq Within[walk.depth + 2]
    BY DEF DepthInv
  <2>8. maxDepth >= 0 => walk.depth + 1 <= maxDepth
    BY <1>0, <1>3 DEF DepthInv
  <2>9. walk'.depth + 1 = walk.depth + 2
    BY <1>0, <2>1
  <2>10. walk.visited \cup Range(walk'.level) = Within[walk.depth + 2]
    BY <2>1, <2>5, <2>6, <2>7
  <2>11. QED
    BY <1>1, <1>2, <2>1, <2>2, <2>3, <2>8, <2>9, <2>10 DEF DepthInv
<1>6. CASE walk.pending = <<>> /\ walk.level # <<>> /\ walk' = ReadNext(walk, parents, present)
  <2> DEFINE x == Head(walk.level)
  <2>1. CASE x \notin present
    <3>1. walk' = [walk EXCEPT !.failed = TRUE]
      BY <1>6, <2>1 DEF ReadNext
    <3>2. /\ walk'.level = walk.level /\ walk'.pending = walk.pending
          /\ walk'.next = walk.next /\ walk'.visited = walk.visited
          /\ walk'.depth = walk.depth
      BY <1>0, <3>1 DEF Walks
    <3>3. QED
      BY <1>1, <1>2, <3>2 DEF DepthInv
  <2>2. CASE x \in present
    <3>1. /\ walk'.level = Tail(walk.level) /\ walk'.pending = parents[x]
          /\ walk'.next = walk.next /\ walk'.visited = walk.visited \cup {x}
          /\ walk'.depth = walk.depth
      BY <1>0, <1>6, <2>2 DEF ReadNext, Walks
    <3>2. x \in Snapshot /\ Range(walk.level) = {x} \cup Range(Tail(walk.level))
      BY <1>0, <1>6, RangeHeadTail
    <3>3. walk'.visited \cup Range(walk'.level) = walk.visited \cup Range(walk.level)
      BY <3>1, <3>2
    <3>4. x \in Within[walk.depth + 1]
      BY <3>2 DEF DepthInv
    <3>5. /\ walk.depth + 1 \in Nat /\ walk.depth + 1 # 0
          /\ (walk.depth + 1) + 1 = walk.depth + 2
      BY <1>0
    <3>6. Range(parents[x]) \subseteq Within[walk.depth + 2]
      <4>1. Within[walk.depth + 2]
                = Within[walk.depth + 1] \cup ParentsOf(Within[walk.depth + 1])
        BY <1>0, <3>5, WithinDef
      <4>2. QED
        BY <3>4, <4>1 DEF ParentsOf
    <3>7. Within[walk.depth] \subseteq walk'.visited
      BY <3>1 DEF DepthInv
    <3>8. maxDepth >= 0 => walk'.depth <= maxDepth /\ walk'.depth # maxDepth
      BY <1>3, <3>1 DEF DepthInv
    <3>9. Range(walk'.pending) \cup Range(walk'.next) \subseteq Within[walk.depth + 2]
      BY <3>1, <3>6 DEF DepthInv
    <3>10. /\ Within[walk.depth + 1] \subseteq walk'.visited \cup Range(walk'.level)
           /\ walk'.visited \cup Range(walk'.level) \subseteq Within[walk.depth + 1]
      BY <3>3 DEF DepthInv
    <3>11. QED
      BY <1>1, <1>2, <3>1, <3>7, <3>8, <3>9, <3>10 DEF DepthInv
  <2>3. QED
    BY <2>1, <2>2 DEF LogNext, LogReturned
<1>7. QED
  BY <1>4, <1>5, <1>6 DEF LogStep, WalkStep

\* A log with a depth limit holds the snapshots fewer links away, and only them.
THEOREM RespectsDepth == LogSpec => []DepthIsRespected
<1>0. LogInit => DepthInv
  BY DepthInit
<1>1. LogInv /\ DepthInv /\ [LogNext]_logVars => DepthInv'
  <2> SUFFICES ASSUME LogInv, DepthInv, [LogNext]_logVars PROVE DepthInv'
    OBVIOUS
  <2>1. CASE LogStep
    BY <2>1, DepthStep
  <2>2. CASE UNCHANGED logVars
    <3>1. walk' = walk /\ parents' = parents /\ start' = start /\ maxDepth' = maxDepth
      BY <2>2 DEF logVars
    <3>2. Within' = Within
      BY <3>1 DEF Within
    <3>3. QED
      BY <3>1, <3>2 DEF DepthInv
  <2>3. QED
    BY <2>1, <2>2 DEF LogNext, LogReturned
<1>2. LogInv /\ DepthInv => DepthIsRespected
  <2> SUFFICES ASSUME LogInv, DepthInv, LogFinished, maxDepth >= 0
               PROVE  Range(walk.log) = Within[maxDepth]
    BY DEF DepthIsRespected
  <2>0. /\ parents \in [Snapshot -> Seq(Snapshot)] /\ start \in Snapshot
        /\ maxDepth \in Nat /\ walk.depth \in Nat /\ walk.depth <= maxDepth
        /\ walk.visited = Range(walk.log)
    BY DEF LogInv, DepthInv, WalkInv, Walks
  <2>1. CASE walk.depth = maxDepth
    <3>1. walk.visited = Within[walk.depth]
      BY <2>1 DEF DepthInv
    <3>2. QED
      BY <2>0, <2>1, <3>1
  <2>2. CASE /\ walk.depth # maxDepth
             /\ walk.level = <<>> /\ walk.pending = <<>> /\ walk.next = <<>>
    <3>1. Unread(walk) = {} /\ Range(walk.level) = {}
      BY <2>2, RangeBasics DEF Unread
    <3>2. walk.visited \subseteq Snapshot /\ start \in walk.visited
      BY <3>1 DEF LogInv, WalkInv, Walks
    <3>3. ClosedUnderParents(parents, walk.visited)
      BY <3>1 DEF LogInv, WalkInv, ClosedUnderParents
    <3>4. Ancestors(parents, start) \subseteq walk.visited
      BY <3>2, <3>3, AncestorsInClosedSet
    <3>5. Within[maxDepth] \subseteq walk.visited
      BY <2>0, <3>4, WithinGrows
    <3>6. walk.depth + 1 \in Nat /\ walk.depth + 1 <= maxDepth
      BY <2>0, <2>2
    <3>7. walk.visited \subseteq Within[maxDepth]
      BY <2>0, <3>1, <3>6, WithinGrows DEF DepthInv
    <3>8. QED
      BY <2>0, <3>5, <3>7
  <2>3. QED
    BY <2>1, <2>2 DEF LogFinished, WalkDone
<1>3. QED
  BY <1>0, <1>1, <1>2, LogInvariance, PTL DEF LogSpec

=============================================================================
