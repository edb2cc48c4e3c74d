--------------------------- MODULE AncestryProofs ---------------------------
(***************************************************************************)
(* Lemmas about the ancestry relation and the walk of Ancestry, for every  *)
(* history graph, of any shape and size.                                   *)
(***************************************************************************)
EXTENDS Ancestry, WellFoundedInduction, TLAPS

\* The last element appended to a sequence joins its range.
LEMMA RangeAppend ==
    ASSUME NEW S, NEW s \in Seq(S), NEW e \in S
    PROVE  Range(Append(s, e)) = Range(s) \cup {e}
<1>1. Append(s, e) \in Seq(S) /\ Len(Append(s, e)) = Len(s) + 1
  OBVIOUS
<1>2. \A i \in 1..Len(s) : Append(s, e)[i] = s[i]
  OBVIOUS
<1>3. Append(s, e)[Len(s) + 1] = e
  OBVIOUS
<1>4. DOMAIN s = 1..Len(s) /\ DOMAIN Append(s, e) = 1..(Len(s) + 1) /\ Len(s) \in Nat
  BY <1>1
<1>5. Range(s) \cup {e} \subseteq Range(Append(s, e))
  BY <1>2, <1>3, <1>4 DEF Range
<1>6. Range(Append(s, e)) \subseteq Range(s) \cup {e}
  <2>1. ASSUME NEW i \in 1..(Len(s) + 1)
        PROVE  Append(s, e)[i] \in Range(s) \cup {e}
    <3>1. CASE i = Len(s) + 1
      BY <3>1, <1>3
    <3>2. CASE i \in 1..Len(s)
      BY <3>2, <1>2, <1>4 DEF Range
    <3>3. QED
      BY <3>1, <3>2, <1>4
  <2>2. QED
    BY <2>1, <1>4 DEF Range
<1>7. QED
  BY <1>5, <1>6

\* A non-empty sequence holds its head and what its tail holds.
LEMMA RangeHeadTail ==
    ASSUME NEW S, NEW s \in Seq(S), s # <<>>
    PROVE  /\ Head(s) \in S
           /\ Tail(s) \in Seq(S)
           /\ Range(s) = {Head(s)} \cup Range(Tail(s))
<1>1. Len(s) \in Nat \ {0} /\ DOMAIN s = 1..Len(s)
  OBVIOUS
<1>2. Tail(s) \in Seq(S) /\ Len(Tail(s)) = Len(s) - 1
  OBVIOUS
<1>3. DOMAIN Tail(s) = 1..(Len(s) - 1)
  BY <1>2
<1>4. \A i \in 1..(Len(s) - 1) : Tail(s)[i] = s[i + 1]
  OBVIOUS
<1>5. Head(s) = s[1] /\ Head(s) \in S
  BY <1>1
<1>6. {Head(s)} \cup Range(Tail(s)) \subseteq Range(s)
  BY <1>1, <1>3, <1>4, <1>5 DEF Range
<1>7. Range(s) \subseteq {Head(s)} \cup Range(Tail(s))
  <2>1. ASSUME NEW i \in 1..Len(s)
        PROVE  s[i] \in {Head(s)} \cup Range(Tail(s))
    <3>1. CASE i = 1
      BY <3>1, <1>5
    <3>2. CASE i # 1
      <4>1. i - 1 \in 1..(Len(s) - 1) /\ Tail(s)[i - 1] = s[i]
        BY <3>2, <1>1, <1>4
      <4>2. QED
        BY <4>1, <1>3 DEF Range
    <3>3. QED
      BY <3>1, <3>2
  <2>2. QED
    BY <2>1, <1>1 DEF Range
<1>8. QED
  BY <1>2, <1>5, <1>6, <1>7

\* The empty sequence holds nothing, and a sequence holds elements of its set.
LEMMA RangeBasics ==
    /\ Range(<<>>) = {}
    /\ \A S : \A s \in Seq(S) : Range(s) \subseteq S
BY DEF Range

\* A one-element sequence holds that element.
LEMMA RangeSingleton ==
    ASSUME NEW S, NEW e \in S
    PROVE  <<e>> \in Seq(S) /\ Range(<<e>>) = {e}
<1>1. <<e>> \in Seq(S) /\ DOMAIN <<e>> = {1} /\ <<e>>[1] = e
  OBVIOUS
<1>2. QED
  BY <1>1 DEF Range

-----------------------------------------------------------------------------
\* Every snapshot is an ancestor of itself.
LEMMA AncestorOfItself ==
    ASSUME NEW parents, NEW h \in Snapshot
    PROVE  h \in Ancestors(parents, h)
BY DEF Ancestors

\* The parents of an ancestor are ancestors.
LEMMA ParentOfAncestor ==
    ASSUME NEW parents \in [Snapshot -> Seq(Snapshot)], NEW h \in Snapshot,
           NEW a \in Ancestors(parents, h)
    PROVE  Range(parents[a]) \subseteq Ancestors(parents, h)
<1>1. a \in Snapshot /\ Range(parents[a]) \subseteq Snapshot
  BY RangeBasics DEF Ancestors
<1>2. ASSUME NEW p \in Range(parents[a]), NEW S \in SUBSET Snapshot,
             h \in S, ClosedUnderParents(parents, S)
      PROVE  p \in S
  <2>1. a \in S
    BY <1>2 DEF Ancestors
  <2>2. QED
    BY <2>1, <1>2 DEF ClosedUnderParents
<1>3. QED
  BY <1>1, <1>2 DEF Ancestors

\* A set closed under parents that holds a snapshot holds its ancestors.
LEMMA AncestorsInClosedSet ==
    ASSUME NEW parents, NEW h, NEW S \in SUBSET Snapshot,
           h \in S, ClosedUnderParents(parents, S)
    PROVE  Ancestors(parents, h) \subseteq S
BY DEF Ancestors

-----------------------------------------------------------------------------
\* What a walk still has to look at.
Unread(w) == Range(w.level) \cup Range(w.pending) \cup Range(w.next)

(***************************************************************************)
(* The invariant of the loops of ReadLog.  Everything read or queued is an *)
(* ancestor, and no parent of a snapshot already read is forgotten: it has *)
(* been read or is still queued.                                           *)
(***************************************************************************)
WalkInv(w, h, parents, present) ==
    /\ w \in Walks
    /\ w.visited = Range(w.log)
    /\ w.visited \subseteq present
    /\ w.visited \cup Unread(w) \subseteq Ancestors(parents, h)
    /\ h \in w.visited \cup Unread(w)
    /\ \A x \in w.visited : Range(parents[x]) \subseteq w.visited \cup Unread(w)
    /\ w.failed => ~(Ancestors(parents, h) \subseteq present)

\* A walk starts in the invariant.
LEMMA StartWalkInv ==
    ASSUME NEW parents, NEW present, NEW h \in Snapshot
    PROVE  WalkInv(StartWalk(h), h, parents, present)
<1> DEFINE w == StartWalk(h)
<1>1. Range(w.level) = {h} /\ w.level \in Seq(Snapshot)
  BY RangeSingleton DEF StartWalk
<1>2. Range(w.pending) = {} /\ Range(w.next) = {} /\ Range(w.log) = {}
  BY RangeBasics DEF StartWalk
<1>3. w \in Walks
  BY <1>1 DEF StartWalk, Walks
<1>4. w.visited = {} /\ ~w.failed
  BY DEF StartWalk
<1>5. QED
  BY <1>1, <1>2, <1>3, <1>4, AncestorOfItself DEF WalkInv, Unread

\* Reading the next snapshot of the level keeps the invariant.
LEMMA ReadNextInv ==
    ASSUME NEW parents \in [Snapshot -> Seq(Snapshot)], NEW present,
           NEW h \in Snapshot, NEW w,
           WalkInv(w, h, parents, present), ~w.failed,
           w.pending = <<>>, w.level # <<>>
    PROVE  WalkInv(ReadNext(w, parents, present), h, parents, present)
<1> DEFINE x == Head(w.level)
           v == ReadNext(w, parents, present)
<1>0. w \in Walks
  BY DEF WalkInv
<1>1. /\ x \in Snapshot
      /\ Tail(w.level) \in Seq(Snapshot)
      /\ Range(w.level) = {x} \cup Range(Tail(w.level))
  BY <1>0, RangeHeadTail DEF Walks
<1>2. x \in Ancestors(parents, h)
  BY <1>1 DEF WalkInv, Unread
<1>3. CASE x \notin present
  <2>1. v = [w EXCEPT !.failed = TRUE]
    BY <1>3 DEF ReadNext
  <2>2. v \in Walks /\ v.failed
    BY <1>0, <2>1 DEF Walks
  <2>3. /\ v.level = w.level /\ v.pending = w.pending /\ v.next = w.next
        /\ v.log = w.log /\ v.visited = w.visited
    BY <1>0, <2>1 DEF Walks
  <2>4. QED
    BY <1>2, <1>3, <2>2, <2>3 DEF WalkInv, Unread
<1>4. CASE x \in present
  <2>1. /\ v.level = Tail(w.level) /\ v.pending = parents[x] /\ v.next = w.next
        /\ v.log = Append(w.log, x) /\ v.visited = w.visited \cup {x}
        /\ v.failed = w.failed /\ v.depth = w.depth
    BY <1>0, <1>4 DEF ReadNext, Walks
  <2>2. v \in Walks
    <3>1. Append(w.log, x) \in Seq(Snapshot) /\ parents[x] \in Seq(Snapshot)
      BY <1>0, <1>1 DEF Walks
    <3>2. QED
      BY <1>0, <1>1, <1>4, <3>1 DEF ReadNext, Walks
  <2>3. Range(v.log) = Range(w.log) \cup {x}
    BY <1>0, <1>1, <2>1, RangeAppend DEF Walks
  <2>4. Range(parents[x]) \subseteq Ancestors(parents, h)
    BY <1>2, ParentOfAncestor
  <2>5. Unread(v) = Range(Tail(w.level)) \cup Range(parents[x]) \cup Range(w.next)
    BY <2>1 DEF Unread
  <2>6. Unread(w) = {x} \cup Range(Tail(w.level)) \cup Range(w.next)
    BY <1>1, RangeBasics DEF Unread
  <2>7. v.visited \cup Unread(v) = w.visited \cup Unread(w) \cup Range(parents[x])
    BY <2>1, <2>5, <2>6
  <2>8. \A y \in v.visited : Range(parents[y]) \subseteq v.visited \cup Unread(v)
    BY <2>1, <2>7 DEF WalkInv
  <2>9. QED
    BY <1>2, <1>4, <2>1, <2>2, <2>3, <2>4, <2>7, <2>8 DEF WalkInv
<1>5. QED
  BY <1>3, <1>4

\* Queueing a parent, or skipping one already visited, keeps the invariant.
LEMMA EnqueueParentInv ==
    ASSUME NEW parents, NEW present, NEW h, NEW w,
           WalkInv(w, h, parents, present), ~w.failed, w.pending # <<>>
    PROVE  WalkInv(EnqueueParent(w), h, parents, present)
<1> DEFINE p == Head(w.pending)
           v == EnqueueParent(w)
<1>0. w \in Walks
  BY DEF WalkInv
<1>1. /\ p \in Snapshot
      /\ Tail(w.pending) \in Seq(Snapshot)
      /\ Range(w.pending) = {p} \cup Range(Tail(w.pending))
  BY <1>0, RangeHeadTail DEF Walks
<1>2. /\ v.level = w.level /\ v.pending = Tail(w.pending)
      /\ v.next = (IF p \in w.visited THEN w.next ELSE Append(w.next, p))
      /\ v.log = w.log /\ v.visited = w.visited /\ v.failed = w.failed
  BY <1>0 DEF EnqueueParent, Walks
<1>3. Append(w.next, p) \in Seq(Snapshot) /\ Range(Append(w.next, p)) = Range(w.next) \cup {p}
  BY <1>0, <1>1, RangeAppend DEF Walks
<1>4. v \in Walks
  BY <1>0, <1>1, <1>3 DEF EnqueueParent, Walks
<1>5. v.visited \cup Unread(v) = w.visited \cup Unread(w)
  BY <1>1, <1>2, <1>3 DEF Unread
<1>6. QED
  BY <1>2, <1>4, <1>5 DEF WalkInv

\* Going on to the next level keeps the invariant.
LEMMA NextLevelInv ==
    ASSUME NEW parents, NEW present, NEW h, NEW w,
           WalkInv(w, h, parents, present), ~w.failed,
           w.pending = <<>>, w.level = <<>>
    PROVE  WalkInv(NextLevel(w), h, parents, present)
<1> DEFINE v == NextLevel(w)
<1>0. w \in Walks
  BY DEF WalkInv
<1>1. /\ v.level = w.next /\ v.next = <<>> /\ v.pending = w.pending
      /\ v.log = w.log /\ v.visited = w.visited /\ v.failed = w.failed
  BY <1>0 DEF NextLevel, Walks
<1>2. v \in Walks
  <2>1. <<>> \in Seq(Snapshot) /\ w.next \in Seq(Snapshot) /\ w.depth + 1 \in Nat
    BY <1>0 DEF Walks
  <2>2. v = [w EXCEPT !.level = w.next, !.next = <<>>, !.depth = w.depth + 1]
    BY DEF NextLevel
  <2>3. QED
    BY <1>0, <2>1, <2>2 DEF Walks
<1>3. Unread(v) = Unread(w)
  BY <1>1 DEF Unread
<1>4. QED
  BY <1>1, <1>2, <1>3 DEF WalkInv

\* So does every iteration.
LEMMA WalkStepInv ==
    ASSUME NEW parents \in [Snapshot -> Seq(Snapshot)], NEW present,
           NEW h \in Snapshot, NEW maxDepth, NEW w, NEW v,
           WalkInv(w, h, parents, present),
           WalkStep(w, v, parents, present, maxDepth)
    PROVE  WalkInv(v, h, parents, present)
<1>1. ~w.failed
  BY DEF WalkStep, WalkDone
<1>2. CASE w.pending # <<>> /\ v = EnqueueParent(w)
  BY <1>1, <1>2, EnqueueParentInv
<1>3. CASE w.pending = <<>> /\ w.level # <<>> /\ v = ReadNext(w, parents, present)
  BY <1>1, <1>3, ReadNextInv
<1>4. CASE w.pending = <<>> /\ w.level = <<>> /\ v = NextLevel(w)
  BY <1>1, <1>4, NextLevelInv
<1>5. QED
  BY <1>2, <1>3, <1>4 DEF WalkStep

\* A finished walk without a depth limit has read the ancestors, all of which
\* the archive holds.
LEMMA WalkReadsAncestors ==
    ASSUME NEW parents \in [Snapshot -> Seq(Snapshot)], NEW present,
           NEW h \in Snapshot, NEW maxDepth \in Int, maxDepth < 0, NEW w,
           WalkInv(w, h, parents, present), WalkDone(w, maxDepth), ~w.failed
    PROVE  /\ Range(w.log) = Ancestors(parents, h)
           /\ Ancestors(parents, h) \subseteq present
<1>1. w.level = <<>> /\ w.pending = <<>> /\ w.next = <<>>
  BY DEF WalkDone, WalkInv, Walks
<1>2. Unread(w) = {}
  BY <1>1, RangeBasics DEF Unread
<1>3. w.visited \subseteq Snapshot /\ h \in w.visited
  BY <1>2 DEF WalkInv, Walks
<1>4. ClosedUnderParents(parents, w.visited)
  BY <1>2 DEF WalkInv, ClosedUnderParents
<1>5. Ancestors(parents, h) \subseteq w.visited
  BY <1>3, <1>4, AncestorsInClosedSet
<1>6. QED
  BY <1>5 DEF WalkInv

-----------------------------------------------------------------------------
\* Induction, for sets of numbers.
LEMMA SetInduction ==
    ASSUME NEW S, 0 \in S, \A n \in Nat : n \in S => n + 1 \in S
    PROVE  Nat \subseteq S
<1> DEFINE T == Nat \ S
           R == OpToRel(<, Nat)
<1>1. SUFFICES ASSUME T # {} PROVE FALSE
  OBVIOUS
<1>2. IsWellFoundedOn(R, Nat)
  BY NatLessThanWellFounded
<1>3. \E m \in T : \A k \in T : <<k, m>> \notin R
  <2> HIDE DEF R
  <2>1. T \subseteq Nat
    OBVIOUS
  <2> HIDE DEF T
  <2>2. QED
    BY <1>1, <1>2, <2>1, WFMin
<1>4. PICK m \in T : \A k \in T : <<k, m>> \notin R
  BY <1>3
<1>5. m \in Nat /\ m # 0 /\ m \notin S
  BY <1>4
<1>6. m - 1 \in Nat /\ m - 1 < m /\ (m - 1) + 1 = m
  BY <1>5
<1>7. <<m - 1, m>> \in R
  BY <1>5, <1>6 DEF OpToRel
<1>8. m - 1 \in S
  BY <1>4, <1>6, <1>7
<1>9. QED
  BY <1>5, <1>6, <1>8

\* The first values of a sequence that starts with v0 and goes on with F.
Starts(F, v0, n, g) == g[0] = v0 /\ \A i \in 0..(n - 1) : g[i + 1] = F[g[i]]

\* Definition by recursion, for functions.
LEMMA NatRecursion ==
    ASSUME NEW V, NEW v0 \in V, NEW F \in [V -> V]
    PROVE  \E f \in [Nat -> V] : f[0] = v0 /\ \A n \in Nat : f[n + 1] = F[f[n]]
<1> DEFINE S == {n \in Nat : \E g \in [0..n -> V] : Starts(F, v0, n, g)}
<1>1. Nat \subseteq S
  <2>1. 0 \in S
    <3>1. [i \in 0..0 |-> v0] \in [0..0 -> V]
      OBVIOUS
    <3>2. Starts(F, v0, 0, [i \in 0..0 |-> v0])
      BY DEF Starts
    <3>3. QED
      BY <3>1, <3>2
  <2>2. ASSUME NEW n \in Nat, n \in S
        PROVE  n + 1 \in S
    <3>1. PICK g \in [0..n -> V] : Starts(F, v0, n, g)
      BY <2>2
    <3>2. PICK h : h = [i \in 0..(n + 1) |-> IF i = n + 1 THEN F[g[n]] ELSE g[i]]
      OBVIOUS
    <3>3. n \in 0..n /\ g[n] \in V
      OBVIOUS
    <3>4. h \in [0..(n + 1) -> V]
      <4>1. ASSUME NEW i \in 0..(n + 1)
            PROVE  (IF i = n + 1 THEN F[g[n]] ELSE g[i]) \in V
        <5>1. i = n + 1 \/ i \in 0..n
          OBVIOUS
        <5>2. QED
          BY <3>3, <5>1
      <4>2. QED
        BY <3>2, <4>1
    <3>5. h[0] = v0
      BY <3>1, <3>2 DEF Starts
    <3>6. ASSUME NEW i \in 0..n
          PROVE  h[i + 1] = F[h[i]]
      <4>1. h[i] = g[i]
        BY <3>2
      <4>2. CASE i = n
        BY <3>2, <4>1, <4>2
      <4>3. CASE i # n
        <5>1. i \in 0..(n - 1) /\ i + 1 \in 0..n /\ i + 1 # n + 1
          BY <4>3
        <5>2. h[i + 1] = g[i + 1]
          BY <3>2, <5>1
        <5>3. g[i + 1] = F[g[i]]
          BY <3>1, <5>1 DEF Starts
        <5>4. QED
          BY <4>1, <5>2, <5>3
      <4>4. QED
        BY <4>2, <4>3
    <3>7. (n + 1) - 1 = n
      OBVIOUS
    <3>8. Starts(F, v0, n + 1, h)
      BY <3>5, <3>6, <3>7 DEF Starts
    <3>9. QED
      BY <3>4, <3>8
  <2> HIDE DEF S
  <2>3. QED
    BY <2>1, <2>2, SetInduction
<1>2. ASSUME NEW n \in Nat, NEW m \in Nat, NEW g \in [0..n -> V], NEW h \in [0..m -> V],
             Starts(F, v0, n, g), Starts(F, v0, m, h)
      PROVE  \A i \in Nat : i <= n /\ i <= m => g[i] = h[i]
  <2> DEFINE A == {i \in Nat : i <= n /\ i <= m => g[i] = h[i]}
  <2>1. 0 \in A
    BY <1>2 DEF Starts
  <2>2. ASSUME NEW i \in Nat, i \in A
        PROVE  i + 1 \in A
    <3>1. SUFFICES ASSUME i + 1 <= n, i + 1 <= m PROVE g[i + 1] = h[i + 1]
      OBVIOUS
    <3>2. g[i] = h[i] /\ i \in 0..(n - 1) /\ i \in 0..(m - 1)
      BY <2>2, <3>1
    <3>3. QED
      BY <1>2, <3>2 DEF Starts
  <2> HIDE DEF A
  <2>3. Nat \subseteq A
    BY <2>1, <2>2, SetInduction
  <2>4. QED
    BY <2>3 DEF A
<1> DEFINE G(n) == CHOOSE g \in [0..n -> V] : Starts(F, v0, n, g)
<1>3. ASSUME NEW n \in Nat
      PROVE  G(n) \in [0..n -> V] /\ Starts(F, v0, n, G(n))
  BY <1>1
<1>4. PICK f : f = [n \in Nat |-> G(n)[n]]
  OBVIOUS
<1> HIDE DEF G
<1>5. f \in [Nat -> V]
  <2>1. ASSUME NEW n \in Nat PROVE G(n)[n] \in V
    BY <1>3
  <2>2. QED
    BY <1>4, <2>1
<1>6. f[0] = v0
  BY <1>3, <1>4 DEF Starts
<1>7. ASSUME NEW n \in Nat
      PROVE  f[n + 1] = F[f[n]]
  <2>1. n + 1 \in Nat /\ n \in 0..((n + 1) - 1) /\ n <= n + 1
    OBVIOUS
  <2>2. G(n + 1)[n + 1] = F[G(n + 1)[n]]
    BY <1>3, <2>1 DEF Starts
  <2>3. G(n + 1)[n] = G(n)[n]
    BY <1>2, <1>3, <2>1
  <2>4. QED
    BY <1>4, <2>1, <2>2, <2>3
<1>8. QED
  BY <1>5, <1>6, <1>7

=============================================================================
