--------------------------- MODULE WorkTreeProofs ---------------------------
(***************************************************************************)
(* A tree under version control, for every tree, user and history: a merge *)
(* is the three-way merge of its sides, no snapshot that was taken is      *)
(* forgotten, the path map is the tree of the latest snapshot, and so are  *)
(* the files after a command amid which nobody has touched them.           *)
(***************************************************************************)
EXTENDS WorkTree, SequenceTheorems, TLAPS

\* Induction over the numbers.
Numbers == INSTANCE AncestryProofs WITH Snapshot <- {}, Histories <- {}

-----------------------------------------------------------------------------
(***************************************************************************)
(* Paths.                                                                  *)
(***************************************************************************)
\* A path is a sequence of names.
LEMMA PathIsSeq ==
    ASSUME NEW p \in Path
    PROVE  /\ p \in Seq(Name) /\ Len(p) \in Nat /\ DOMAIN p = 1..Len(p)
           /\ p \in [1..Len(p) -> Name]
           /\ p = Top <=> Len(p) = 0
<1>1. p \in Seq(Name)
  BY PathAssumption
<1>2. QED
  BY <1>1, LenProperties, EmptySeq DEF Top

\* The path above a path.
LEMMA FrontOfPath ==
    ASSUME NEW p \in Path, p # Top
    PROVE  /\ Front(p) \in Path /\ Len(Front(p)) = Len(p) - 1 /\ Len(p) \in Nat \ {0}
           /\ \A i \in 1..(Len(p) - 1) : Front(p)[i] = p[i]
           /\ p = Append(Front(p), Last(p)) /\ p \in Children(Front(p))
<1>1. p \in Seq(Name) /\ Len(p) \in Nat \ {0} /\ Front(p) \in Path
  BY PathIsSeq, PathAssumption DEF Top
<1>2. /\ Front(p) \in Seq(Name) /\ Len(Front(p)) = Len(p) - 1
      /\ \A i \in 1..(Len(p) - 1) : Front(p)[i] = p[i]
  <2>1. \A i \in 1..(Len(p) - 1) : p[i] \in Name
    BY <1>1, ElementOfSeq
  <2> PICK n : n = Len(p) - 1
    OBVIOUS
  <2>2. n \in Int /\ 1 \in Int /\ n - 1 + 1 = n /\ n \in Nat
    BY <1>1
  <2>3. SubSeq(p, 1, Len(p) - 1) \in Seq(Name)
        /\ Len(SubSeq(p, 1, Len(p) - 1)) = n
        /\ \A i \in 1..(Len(p) - 1) : SubSeq(p, 1, Len(p) - 1)[i] = p[1 + i - 1]
    <3>1. \A i \in 1..n : p[i] \in Name
      BY <2>1
    <3>2. /\ SubSeq(p, 1, n) \in Seq(Name)
          /\ Len(SubSeq(p, 1, n)) = IF 1 <= n THEN n - 1 + 1 ELSE 0
          /\ \A i \in 1..(n - 1 + 1) : SubSeq(p, 1, n)[i] = p[1 + i - 1]
      BY <2>2, <3>1, SubSeqProperties
    <3>3. Len(SubSeq(p, 1, n)) = n
      BY <2>2, <3>2
    <3>4. QED
      BY <2>2, <3>2, <3>3
  <2>4. \A i \in 1..(Len(p) - 1) : 1 + i - 1 = i
    OBVIOUS
  <2>5. QED
    BY <2>3, <2>4 DEF Front
<1>3. Last(p) \in Name
  BY <1>1, ElementOfSeq DEF Last
<1>4. p = Append(Front(p), Last(p))
  <2>1. /\ Append(Front(p), Last(p)) \in Seq(Name)
        /\ Len(Append(Front(p), Last(p))) = Len(p)
        /\ \A i \in 1..(Len(p) - 1) : Append(Front(p), Last(p))[i] = p[i]
        /\ Append(Front(p), Last(p))[Len(p)] = p[Len(p)]
    BY <1>1, <1>2, <1>3, AppendProperties DEF Last
  <2>2. \A i \in 1..Len(p) : p[i] = Append(Front(p), Last(p))[i]
    BY <1>1, <2>1
  <2>3. QED
    BY <1>1, <2>1, <2>2, SeqEqual
<1>5. QED
  BY <1>1, <1>2, <1>4 DEF Children, Top

\* A child has one name more.
LEMMA ChildOfPath ==
    ASSUME NEW p \in Path, NEW c \in Children(p)
    PROVE  /\ c \in Path /\ c # Top /\ Front(c) = p /\ Len(c) = Len(p) + 1
           /\ c = Append(p, Last(c))
<1>1. c \in Path /\ c # Top /\ Front(c) = p
  BY DEF Children, Top
<1>2. QED
  BY <1>1, FrontOfPath, PathIsSeq

\* The last name tells the children apart.
LEMMA SameChild ==
    ASSUME NEW p \in Path, NEW c \in Children(p), NEW d \in Children(p), Last(c) = Last(d)
    PROVE  c = d
BY ChildOfPath

\* A path is below another when it starts with it.
LEMMA IsPrefixIs ==
    ASSUME NEW p \in Path, NEW q \in Path
    PROVE  IsPrefix(p, q) <=> Len(p) <= Len(q) /\ \A i \in 1..Len(p) : p[i] = q[i]
<1>1. /\ p \in Seq(Name) /\ q \in Seq(Name) /\ Len(p) \in Nat /\ Len(q) \in Nat
  BY PathIsSeq
<1>2. SUFFICES ASSUME Len(p) <= Len(q)
               PROVE  SubSeq(p, 1, Len(p)) = SubSeq(q, 1, Len(p))
                          <=> \A i \in 1..Len(p) : p[i] = q[i]
  BY DEF IsPrefix
<1>3. SubSeq(p, 1, Len(p)) = p
  BY <1>1, SubSeqFull
<1>4. SubSeq(q, 1, Len(p)) \in Seq(Name) /\ Len(SubSeq(q, 1, Len(p))) = Len(p)
      /\ \A i \in 1..Len(p) : SubSeq(q, 1, Len(p))[i] = q[i]
  <2>1. CASE Len(p) = 0
    BY <1>1, <2>1, SubSeqEmpty, EmptySeq
  <2>2. CASE Len(p) # 0
    <3>1. 1 \in 1..(Len(q) + 1) /\ Len(p) \in (1 - 1)..Len(q) /\ (Len(p) - 1) + 1 = Len(p)
      BY <1>1, <1>2, <2>2
    <3>2. QED
      BY <1>1, <1>2, <3>1, SubSeqProperties
  <2>3. QED
    BY <2>1, <2>2
<1>5. QED
  BY <1>1, <1>3, <1>4, SeqEqual

\* Being above is reflexive, and goes with the lengths.
LEMMA PrefixFacts ==
    ASSUME NEW p \in Path, NEW q \in Path
    PROVE  /\ IsPrefix(p, p) /\ IsPrefix(Top, p)
           /\ IsPrefix(p, q) => Len(p) <= Len(q)
           /\ IsPrefix(p, q) /\ Len(p) = Len(q) => p = q
<1>1. p \in Seq(Name) /\ q \in Seq(Name) /\ Len(p) \in Nat /\ Len(q) \in Nat
  BY PathIsSeq
<1>2. Top \in Path /\ Len(Top) = 0
  BY PathIsSeq, PathAssumption DEF Top
<1>3. IsPrefix(p, p) /\ (IsPrefix(p, q) => Len(p) <= Len(q))
  BY <1>1, IsPrefixIs
<1>4. IsPrefix(Top, p)
  BY <1>1, <1>2, IsPrefixIs
<1>5. ASSUME IsPrefix(p, q), Len(p) = Len(q)
      PROVE  p = q
  <2>1. \A i \in 1..Len(p) : p[i] = q[i]
    BY <1>5, IsPrefixIs
  <2>2. QED
    BY <1>1, <1>5, <2>1, SeqEqual
<1>6. QED
  BY <1>3, <1>4, <1>5

\* What is above a path is the path or above its directory.
LEMMA PrefixOfFront ==
    ASSUME NEW p \in Path, NEW q \in Path, q # Top
    PROVE  IsPrefix(p, q) <=> (p = q \/ IsPrefix(p, Front(q)))
<1>1. /\ Front(q) \in Path /\ Len(Front(q)) = Len(q) - 1 /\ Len(q) \in Nat \ {0}
      /\ \A i \in 1..(Len(q) - 1) : Front(q)[i] = q[i]
  BY FrontOfPath
<1>2. Len(p) \in Nat
  BY PathIsSeq
<1>3. IsPrefix(p, Front(q)) <=>
          (Len(p) <= Len(q) - 1 /\ \A i \in 1..Len(p) : p[i] = Front(q)[i])
  BY <1>1, IsPrefixIs
<1>4. IsPrefix(p, q) <=> (Len(p) <= Len(q) /\ \A i \in 1..Len(p) : p[i] = q[i])
  BY IsPrefixIs
<1>5. CASE Len(p) <= Len(q) - 1
  <2>1. \A i \in 1..Len(p) : Front(q)[i] = q[i]
    BY <1>1, <1>2, <1>5
  <2>2. p # q
    BY <1>1, <1>2, <1>5
  <2>3. QED
    BY <1>1, <1>2, <1>3, <1>4, <1>5, <2>1, <2>2
<1>6. CASE Len(p) > Len(q) - 1
  <2>1. ~IsPrefix(p, Front(q))
    BY <1>1, <1>2, <1>3, <1>6
  <2>2. IsPrefix(p, q) => p = q
    BY <1>1, <1>2, <1>4, <1>6, PrefixFacts
  <2>3. p = q => IsPrefix(p, q)
    BY PrefixFacts
  <2>4. QED
    BY <2>1, <2>2, <2>3
<1>7. QED
  BY <1>1, <1>2, <1>5, <1>6

\* Since they are finitely many, paths have a greatest length.
LEMMA LongestPath ==
    \E n \in Nat : \A p \in Path : Len(p) <= n
<1>1. PICK s \in Seq(Path) : \A p \in Path : \E i \in 1..Len(s) : s[i] = p
  BY PathAssumption DEF IsFiniteSet
<1>2. Len(s) \in Nat
  BY <1>1, LenProperties
<1> DEFINE S == {k \in Nat : k <= Len(s) =>
                    \E n \in Nat : \A i \in 1..k : Len(s[i]) <= n}
<1>3. 0 \in S
  OBVIOUS
<1>4. ASSUME NEW k \in Nat, k \in S, k + 1 <= Len(s)
      PROVE  \E n \in Nat : \A i \in 1..(k + 1) : Len(s[i]) <= n
  <2>1. PICK n \in Nat : \A i \in 1..k : Len(s[i]) <= n
    BY <1>2, <1>4
  <2> HIDE DEF S
  <2>2. \A i \in 1..(k + 1) : Len(s[i]) \in Nat
    <3> SUFFICES ASSUME NEW i \in 1..(k + 1) PROVE Len(s[i]) \in Nat
      OBVIOUS
    <3>1. i \in 1..Len(s)
      BY <1>2, <1>4
    <3>2. s[i] \in Path
      BY <1>1, <3>1, ElementOfSeq
    <3>3. QED
      BY <3>2, PathIsSeq
  <2> PICK m : m = n + Len(s[k + 1])
    OBVIOUS
  <2>5. Len(s[k + 1]) \in Nat /\ m \in Nat
    <3>1. k + 1 \in 1..(k + 1)
      BY <1>4
    <3>2. Len(s[k + 1]) \in Nat
      BY <2>2, <3>1
    <3>3. QED
      BY <2>1, <3>2
  <2>3. \A i \in 1..(k + 1) : Len(s[i]) <= m
    <3> SUFFICES ASSUME NEW i \in 1..(k + 1) PROVE Len(s[i]) <= m
      OBVIOUS
    <3>1. i \in 1..k \/ i = k + 1
      OBVIOUS
    <3>2. Len(s[i]) \in Nat /\ Len(s[k + 1]) \in Nat
      BY <2>2
    <3>3. CASE i \in 1..k
      BY <2>1, <2>5, <3>2, <3>3
    <3>4. CASE i = k + 1
      BY <2>1, <2>5, <3>4
    <3>5. QED
      BY <3>1, <3>3, <3>4
  <2>4. QED
    BY <2>3, <2>5
<1>5. ASSUME NEW k \in Nat, k \in S PROVE k + 1 \in S
  <2>1. k + 1 <= Len(s) => \E n \in Nat : \A i \in 1..(k + 1) : Len(s[i]) <= n
    BY <1>4, <1>5
  <2>2. QED
    BY <2>1
<1> HIDE DEF S
<1>6. Nat \subseteq S
  BY <1>3, <1>5, Numbers!SetInduction
<1>7. PICK n \in Nat : \A i \in 1..Len(s) : Len(s[i]) <= n
  <2>1. Len(s) \in S /\ Len(s) <= Len(s)
    BY <1>2, <1>6
  <2>2. QED
    BY <2>1 DEF S
<1>8. QED
  BY <1>1, <1>7

-----------------------------------------------------------------------------
(***************************************************************************)
(* The trees of snapshots.                                                 *)
(***************************************************************************)
\* What the snapshot h of the path above p says of p.
Under(h, p) == IF Lists(h, p) THEN h.contents[Last(p)] ELSE None

\* The tree of h, at the paths of at most n names.
TreeTo(h, n, t) ==
    t = [p \in {q \in Path : Len(q) <= n} |->
            IF p = Top THEN h ELSE Under(t[Front(p)], p)]

\* The recursion of At has a solution down to every depth.
LEMMA TreeExists ==
    ASSUME NEW h, NEW n \in Nat
    PROVE  \E t : TreeTo(h, n, t)
<1> DEFINE S == {k \in Nat : \E t : TreeTo(h, k, t)}
<1>1. 0 \in S
  <2> PICK t : t = [p \in {q \in Path : Len(q) <= 0} |-> h]
    OBVIOUS
  <2>1. \A p \in {q \in Path : Len(q) <= 0} : p = Top
    BY PathIsSeq
  <2>2. TreeTo(h, 0, t)
    BY <2>1 DEF TreeTo
  <2>3. QED
    BY <2>2
<1>2. ASSUME NEW k \in Nat, k \in S PROVE k + 1 \in S
  <2>1. PICK t : TreeTo(h, k, t)
    BY <1>2
  <2> HIDE DEF S
  <2> PICK u : u = [p \in {q \in Path : Len(q) <= k + 1} |->
                      IF p = Top THEN h ELSE Under(t[Front(p)], p)]
    OBVIOUS
  <2>2. ASSUME NEW p \in Path, Len(p) <= k
        PROVE  u[p] = t[p]
    <3>1. p \in {q \in Path : Len(q) <= k} /\ p \in {q \in Path : Len(q) <= k + 1}
      BY <2>2, PathIsSeq
    <3>2. u[p] = IF p = Top THEN h ELSE Under(t[Front(p)], p)
      BY <3>1
    <3>3. t[p] = IF p = Top THEN h ELSE Under(t[Front(p)], p)
      BY <2>1, <3>1 DEF TreeTo
    <3>4. QED
      BY <3>2, <3>3
  <2>3. ASSUME NEW p \in Path, Len(p) <= k + 1, p # Top
        PROVE  u[Front(p)] = t[Front(p)]
    <3>1. Front(p) \in Path /\ Len(Front(p)) = Len(p) - 1 /\ Len(p) \in Nat
      BY <2>3, FrontOfPath
    <3>2. Len(Front(p)) <= k
      BY <2>3, <3>1
    <3>3. QED
      BY <2>2, <3>1, <3>2
  <2>4. u = [p \in {q \in Path : Len(q) <= k + 1} |->
               IF p = Top THEN h ELSE Under(u[Front(p)], p)]
    BY <2>3
  <2>5. TreeTo(h, k + 1, u)
    BY <2>4 DEF TreeTo
  <2>6. QED
    BY <2>5 DEF S
<1> HIDE DEF S
<1>3. Nat \subseteq S
  BY <1>1, <1>2, Numbers!SetInduction
<1>4. QED
  BY <1>3 DEF S

\* At walks down the tree.
LEMMA AtSolves ==
    ASSUME NEW h
    PROVE  At(h, Top) = h /\ \A p \in Path \ {Top} : At(h, p) = Under(At(h, Front(p)), p)
<1> DEFINE in == CHOOSE in : in = [p \in Path |->
                     IF p = <<>> THEN h
                     ELSE IF Lists(in[Front(p)], p) THEN in[Front(p)].contents[Last(p)]
                     ELSE None]
<1>1. \E t : t = [p \in Path |->
                     IF p = <<>> THEN h
                     ELSE IF Lists(t[Front(p)], p) THEN t[Front(p)].contents[Last(p)]
                     ELSE None]
  <2>1. PICK n \in Nat : \A p \in Path : Len(p) <= n
    BY LongestPath
  <2>2. PICK t : TreeTo(h, n, t)
    BY TreeExists
  <2>3. {q \in Path : Len(q) <= n} = Path
    BY <2>1
  <2>4. QED
    BY <2>2, <2>3 DEF TreeTo, Under, Top
<1>2. in = [p \in Path |->
              IF p = <<>> THEN h
              ELSE IF Lists(in[Front(p)], p) THEN in[Front(p)].contents[Last(p)]
              ELSE None]
  BY <1>1
<1>3. \A p : At(h, p) = in[p]
  BY DEF At
<1> HIDE DEF in
<1>4. At(h, Top) = h
  BY <1>2, <1>3, PathAssumption DEF Top
<1>5. ASSUME NEW p \in Path \ {Top}
      PROVE  At(h, p) = Under(At(h, Front(p)), p)
  BY <1>2, <1>3 DEF Under, Top
<1>6. QED
  BY <1>4, <1>5

-----------------------------------------------------------------------------
(***************************************************************************)
(* The history of a snapshot.                                              *)
(***************************************************************************)
\* The first n generations.
GenerationsTo(h, n, g) ==
    g = [k \in 0..n |-> IF k = 0 THEN {h} ELSE UNION {Range(a.parents) : a \in g[k - 1]}]

\* The recursion of Ancestors has a solution up to every generation.
LEMMA GenerationsExist ==
    ASSUME NEW h, NEW n \in Nat
    PROVE  \E g : GenerationsTo(h, n, g)
<1> DEFINE S == {k \in Nat : \E g : GenerationsTo(h, k, g)}
<1>1. 0 \in S
  <2> PICK g : g = [k \in 0..0 |-> {h}]
    OBVIOUS
  <2>1. \A k \in 0..0 : k = 0
    OBVIOUS
  <2>2. GenerationsTo(h, 0, g)
    BY <2>1 DEF GenerationsTo
  <2>3. QED
    BY <2>2
<1>2. ASSUME NEW k \in Nat, k \in S PROVE k + 1 \in S
  <2>1. PICK g : GenerationsTo(h, k, g)
    BY <1>2
  <2> HIDE DEF S
  <2> PICK f : f = [i \in 0..(k + 1) |->
                      IF i = 0 THEN {h} ELSE UNION {Range(a.parents) : a \in g[i - 1]}]
    OBVIOUS
  <2>2. ASSUME NEW i \in 0..k PROVE f[i] = g[i]
    <3>1. i \in 0..(k + 1)
      OBVIOUS
    <3>2. f[i] = IF i = 0 THEN {h} ELSE UNION {Range(a.parents) : a \in g[i - 1]}
      BY <3>1
    <3>3. g[i] = IF i = 0 THEN {h} ELSE UNION {Range(a.parents) : a \in g[i - 1]}
      BY <2>1 DEF GenerationsTo
    <3>4. QED
      BY <3>2, <3>3
  <2>3. ASSUME NEW i \in 0..(k + 1), i # 0 PROVE f[i - 1] = g[i - 1]
    <3>1. i - 1 \in 0..k
      BY <2>3
    <3>2. QED
      BY <2>2, <3>1
  <2>4. f = [i \in 0..(k + 1) |->
               IF i = 0 THEN {h} ELSE UNION {Range(a.parents) : a \in f[i - 1]}]
    BY <2>3
  <2>5. GenerationsTo(h, k + 1, f)
    BY <2>4 DEF GenerationsTo
  <2>6. QED
    BY <2>5 DEF S
<1> HIDE DEF S
<1>3. Nat \subseteq S
  BY <1>1, <1>2, Numbers!SetInduction
<1>4. QED
  BY <1>3 DEF S

-----------------------------------------------------------------------------
(***************************************************************************)
(* mergeWithBase.                                                          *)
(***************************************************************************)
\* What it returns for a path depends on what it returns for the children.
LEMMA MergedEntryOfChildren ==
    ASSUME NEW p \in Path, NEW base, NEW src, NEW dest, NEW helper, NEW f, NEW g,
           \A c \in Children(p) : f[c] = g[c]
    PROVE  MergedEntry(p, base, src, dest, helper, f) = MergedEntry(p, base, src, dest, helper, g)
<1> DEFINE entries == EntriesOfEither(p, src, dest)
           Some(m) == {Last(c) : c \in {e \in entries : m[e] # None}}
<1>1. entries \subseteq Children(p)
  BY DEF EntriesOfEither
<1>2. (\E c \in entries : f[c] = Failed) <=> (\E c \in entries : g[c] = Failed)
  BY <1>1
<1>3. Some(f) = Some(g)
  BY <1>1
<1>4. ASSUME NEW n \in Some(f) PROVE f[Append(p, n)] = g[Append(p, n)]
  <2>1. PICK c \in Children(p) : n = Last(c)
    BY <1>1
  <2>2. Append(p, n) = c
    BY <2>1, ChildOfPath
  <2>3. QED
    BY <2>2
<1>5. [n \in Some(f) |-> f[Append(p, n)]] = [n \in Some(g) |-> g[Append(p, n)]]
  BY <1>3, <1>4
<1>6. QED
  BY <1>2, <1>5 DEF MergedEntry

\* What it returns for the paths of n names and more.
MergedFrom(base, src, dest, helper, n, m) ==
    m = [p \in {q \in Path : Len(q) >= n} |->
            MergedEntry(p, At(base, p), At(src, p), At(dest, p), helper, m)]

\* The recursion of Merged has a solution.
LEMMA MergedExists ==
    ASSUME NEW base, NEW src, NEW dest, NEW helper
    PROVE  \E m : m = [p \in Path |->
                          MergedEntry(p, At(base, p), At(src, p), At(dest, p), helper, m)]
<1>1. PICK n \in Nat : \A p \in Path : Len(p) <= n
  BY LongestPath
<1> DEFINE S == {k \in Nat : k <= n + 1 =>
                    \E m : MergedFrom(base, src, dest, helper, (n + 1) - k, m)}
<1>2. 0 \in S
  <2> PICK m : m = [p \in {} |-> None]
    OBVIOUS
  <2>1. {q \in Path : Len(q) >= n + 1} = {}
    BY <1>1, PathIsSeq
  <2>2. MergedFrom(base, src, dest, helper, n + 1, m)
    BY <2>1 DEF MergedFrom
  <2>3. (n + 1) - 0 = n + 1
    BY <1>1
  <2>4. QED
    BY <2>2, <2>3
<1>3. ASSUME NEW k \in Nat, k \in S, k + 1 <= n + 1
      PROVE  \E m : MergedFrom(base, src, dest, helper, (n + 1) - (k + 1), m)
  <2>1. PICK f : MergedFrom(base, src, dest, helper, (n + 1) - k, f)
    BY <1>1, <1>3
  <2> HIDE DEF S
  <2> PICK i : i = (n + 1) - (k + 1)
    OBVIOUS
  <2>2. i \in Nat /\ (n + 1) - k = i + 1
    BY <1>1, <1>3
  <2>3. f = [p \in {q \in Path : Len(q) >= i + 1} |->
                MergedEntry(p, At(base, p), At(src, p), At(dest, p), helper, f)]
    BY <2>1, <2>2 DEF MergedFrom
  <2> PICK g : g = [p \in {q \in Path : Len(q) >= i} |->
                      MergedEntry(p, At(base, p), At(src, p), At(dest, p), helper, f)]
    OBVIOUS
  <2>4. ASSUME NEW p \in Path, Len(p) >= i
        PROVE  MergedEntry(p, At(base, p), At(src, p), At(dest, p), helper, f)
                   = MergedEntry(p, At(base, p), At(src, p), At(dest, p), helper, g)
    <3>1. ASSUME NEW c \in Children(p) PROVE f[c] = g[c]
      <4>1. c \in Path /\ Len(c) = Len(p) + 1
        BY ChildOfPath
      <4>2. Len(c) >= i + 1 /\ Len(c) >= i
        BY <2>2, <2>4, <4>1, PathIsSeq
      <4>3. f[c] = MergedEntry(c, At(base, c), At(src, c), At(dest, c), helper, f)
        BY <2>3, <4>1, <4>2
      <4>4. g[c] = MergedEntry(c, At(base, c), At(src, c), At(dest, c), helper, f)
        BY <4>1, <4>2
      <4>5. QED
        BY <4>3, <4>4
    <3>2. p \in Path /\ \A c \in Children(p) : f[c] = g[c]
      BY <3>1
    <3>3. \A b, s, d, h : MergedEntry(p, b, s, d, h, f) = MergedEntry(p, b, s, d, h, g)
      BY ONLY <3>2, MergedEntryOfChildren
    <3>4. QED
      BY <3>3
  <2>5. g = [p \in {q \in Path : Len(q) >= i} |->
                MergedEntry(p, At(base, p), At(src, p), At(dest, p), helper, g)]
    BY <2>4
  <2>6. MergedFrom(base, src, dest, helper, i, g)
    BY <2>5 DEF MergedFrom
  <2>7. MergedFrom(base, src, dest, helper, (n + 1) - (k + 1), g)
    BY <2>6, Zenon
  <2>8. QED
    BY <2>7
<1>4. ASSUME NEW k \in Nat, k \in S PROVE k + 1 \in S
  <2>1. k + 1 <= n + 1 => \E m : MergedFrom(base, src, dest, helper, (n + 1) - (k + 1), m)
    BY <1>3, <1>4
  <2>2. QED
    BY <2>1
<1> HIDE DEF S
<1>5. Nat \subseteq S
  BY <1>2, <1>4, Numbers!SetInduction
<1>6. PICK m : MergedFrom(base, src, dest, helper, 0, m)
  <2>1. n + 1 \in S /\ n + 1 <= n + 1 /\ (n + 1) - (n + 1) = 0
    BY <1>1, <1>5
  <2>2. QED
    BY <2>1 DEF S
<1>7. {q \in Path : Len(q) >= 0} = Path
  BY PathIsSeq
<1>8. QED
  BY <1>6, <1>7 DEF MergedFrom

\* What is merged at the top comes from what is merged at every path.
LEMMA MergedSolves ==
    ASSUME NEW base, NEW src, NEW dest, NEW helper
    PROVE  \E m : /\ Merged(base, src, dest, helper) = m[Top]
                  /\ \A p \in Path :
                        m[p] = MergedEntry(p, At(base, p), At(src, p), At(dest, p), helper, m)
<1> DEFINE m == CHOOSE m : m = [p \in Path |->
                    MergedEntry(p, At(base, p), At(src, p), At(dest, p), helper, m)]
<1>1. m = [p \in Path |->
              MergedEntry(p, At(base, p), At(src, p), At(dest, p), helper, m)]
  BY MergedExists
<1>2. Merged(base, src, dest, helper) = m[Top]
  BY DEF Merged
<1> HIDE DEF m
<1>3. ASSUME NEW p \in Path
      PROVE  m[p] = MergedEntry(p, At(base, p), At(src, p), At(dest, p), helper, m)
  BY <1>1
<1>4. QED
  BY <1>2, <1>3

\* No snapshot is None, which stands for the nil hash.
NoneIsNoSnapshot ==
    \A kind, mode, contents, ps :
        [kind |-> kind, mode |-> mode, contents |-> contents, parents |-> ps] # None

\* Three ways in which the tree of a merge m gets what it has at p: it is what
\* was merged there, or what one of the sides has there, which the other left
\* as it was.
MergedAt(m, p) == m[p] # Failed /\ At(m[Top], p) = m[p]
FromSource(base, src, dest, h, p) ==
    /\ At(h, p) = At(src, p)
    /\ At(src, p) = At(dest, p) \/ At(dest, p) = At(base, p)
FromDest(base, src, dest, h, p) ==
    At(h, p) = At(dest, p) /\ At(src, p) = At(base, p)

Merges(base, src, dest, helper, m) ==
    /\ m[Top] # Failed
    /\ \A p \in Path :
          m[p] = MergedEntry(p, At(base, p), At(src, p), At(dest, p), helper, m)

\* What was merged at a path: one of the sides, a file, or a directory.
MergedHere(base, src, dest, helper, m, p) ==
    \/ m[p] = At(src, p) /\ (At(src, p) = At(dest, p) \/ At(dest, p) = At(base, p))
    \/ m[p] = At(dest, p) /\ At(src, p) = At(base, p)
    \/ /\ m[p] = [kind |-> "file", mode |-> At(dest, p).mode, contents |-> helper,
                  parents |-> <<At(src, p), At(dest, p)>>]
       /\ helper # Failed
       /\ At(src, p) # At(dest, p) /\ At(dest, p) # At(base, p)
       /\ At(src, p) # At(base, p)
       /\ At(src, p) # None /\ At(dest, p) # None
       /\ At(src, p).kind # "dir" /\ At(dest, p).kind # "dir"
    \/ /\ \A c \in EntriesOfEither(p, At(src, p), At(dest, p)) : m[c] # Failed
       /\ m[p] = [kind |-> "dir", mode |-> At(src, p).mode,
             contents |-> [n \in {Last(c) : c \in {e \in
                     EntriesOfEither(p, At(src, p), At(dest, p)) : m[e] # None}} |->
                             m[Append(p, n)]],
             parents |-> <<At(src, p), At(dest, p)>>]
       /\ At(src, p) # None /\ At(dest, p) # None
       /\ At(src, p).kind = "dir" /\ At(dest, p).kind = "dir"

IsMerge(base, src, dest, helper, m) ==
    /\ m[Top] # Failed
    /\ \A p \in Path : m[p] # Failed => MergedHere(base, src, dest, helper, m, p)

\* The cases of mergeWithBase, for what is no failure.
LEMMA MergedCases ==
    ASSUME NEW base, NEW src, NEW dest, NEW helper, NEW m, NEW p \in Path,
           Merges(base, src, dest, helper, m), m[p] # Failed
    PROVE  MergedHere(base, src, dest, helper, m, p)
<1> PICK b : b = At(base, p)
  OBVIOUS
<1> PICK s : s = At(src, p)
  OBVIOUS
<1> PICK d : d = At(dest, p)
  OBVIOUS
<1>1. m[p] = MergedEntry(p, b, s, d, helper, m)
  BY DEF Merges
<1>2. CASE s = d \/ d = b
  <2>1. m[p] = s
    BY <1>1, <1>2 DEF MergedEntry
  <2>2. QED
    BY <1>2, <2>1 DEF MergedHere
<1>3. CASE s # d /\ d # b /\ s = b
  <2>1. m[p] = d
    BY <1>1, <1>3 DEF MergedEntry
  <2>2. QED
    BY <1>3, <2>1 DEF MergedHere
<1>4. CASE s # d /\ d # b /\ s # b
  <2>1. s # None /\ d # None /\ Mergeable(b, s, d)
    BY <1>1, <1>4 DEF MergedEntry
  <2>2. CASE ~(s.kind = "dir" /\ d.kind = "dir")
    <3>1. m[p] = MergedFile(s, d, helper)
      BY <1>1, <1>4, <2>1, <2>2 DEF MergedEntry
    <3>2. ~(helper = Failed \/ "dir" \in {s.kind, d.kind})
      BY <3>1 DEF MergedFile
    <3>3. m[p] = [kind |-> "file", mode |-> d.mode, contents |-> helper, parents |-> <<s, d>>]
      BY <3>1, <3>2 DEF MergedFile, ParentsOfMerge
    <3>4. QED
      BY <1>4, <2>1, <3>2, <3>3 DEF MergedHere
  <2>3. CASE s.kind = "dir" /\ d.kind = "dir"
    <3> PICK entries : entries = EntriesOfEither(p, s, d)
      OBVIOUS
    <3>1. m[p] = IF s.mode # d.mode \/ \E c \in entries : m[c] = Failed
                 THEN Failed
                 ELSE [kind |-> "dir", mode |-> s.mode,
                       contents |-> [n \in {Last(c) : c \in {e \in entries : m[e] # None}} |->
                                        m[Append(p, n)]],
                       parents |-> <<s, d>>]
      BY <1>1, <1>4, <2>1, <2>3 DEF MergedEntry, ParentsOfMerge
    <3>2. \A c \in entries : m[c] # Failed
      BY <3>1
    <3>3. m[p] = [kind |-> "dir", mode |-> s.mode,
                  contents |-> [n \in {Last(c) : c \in {e \in entries : m[e] # None}} |->
                                    m[Append(p, n)]],
                  parents |-> <<s, d>>]
      BY <3>1, <3>2
    <3>4. QED
      BY <2>1, <2>3, <3>2, <3>3 DEF MergedHere
  <2>4. QED
    BY <2>2, <2>3
<1>5. QED
  BY <1>2, <1>3, <1>4

\* A merge that does not fail is, path by path, one of the ways above.
LEMMA MergesIsMerge ==
    ASSUME NEW base, NEW src, NEW dest, NEW helper, NEW m, Merges(base, src, dest, helper, m)
    PROVE  IsMerge(base, src, dest, helper, m)
BY MergedCases DEF IsMerge, Merges

\* From a path to its children.
LEMMA MergeGoesDown ==
    ASSUME NEW base, NEW src, NEW dest, NEW helper, NEW m, NoneIsNoSnapshot,
           IsMerge(base, src, dest, helper, m),
           NEW p \in Path, NEW c \in Children(p),
           \/ MergedAt(m, p)
           \/ FromSource(base, src, dest, m[Top], p)
           \/ FromDest(base, src, dest, m[Top], p)
    PROVE  \/ MergedAt(m, c)
           \/ FromSource(base, src, dest, m[Top], c)
           \/ FromDest(base, src, dest, m[Top], c)
<1>1. c \in Path \ {Top} /\ Front(c) = p
  BY ChildOfPath
<1>2. \A h : At(h, c) = Under(At(h, p), c)
  BY <1>1, AtSolves
<1>3. CASE FromSource(base, src, dest, m[Top], p)
  BY <1>2, <1>3 DEF FromSource
<1>4. CASE FromDest(base, src, dest, m[Top], p)
  BY <1>2, <1>4 DEF FromDest
<1>5. CASE MergedAt(m, p)
  <2>1. m[p] # Failed /\ At(m[Top], p) = m[p]
    BY <1>5 DEF MergedAt
  <2>1a. MergedHere(base, src, dest, helper, m, p)
    BY <2>1 DEF IsMerge
  <2>2. At(m[Top], c) = Under(m[p], c)
    BY <1>2, <2>1
  <2>3. CASE m[p] = At(src, p) /\ (At(src, p) = At(dest, p) \/ At(dest, p) = At(base, p))
    BY <1>3, <2>1, <2>3 DEF FromSource
  <2>4. CASE m[p] = At(dest, p) /\ At(src, p) = At(base, p)
    BY <1>4, <2>1, <2>4 DEF FromDest
  <2>5. CASE /\ m[p] = [kind |-> "file", mode |-> At(dest, p).mode, contents |-> helper,
                        parents |-> <<At(src, p), At(dest, p)>>]
             /\ At(src, p).kind # "dir" /\ At(dest, p).kind # "dir"
    <3>1. m[p].kind # "dir"
      BY <2>5
    <3>2. At(m[Top], c) = None /\ At(src, c) = None /\ At(dest, c) = None
      BY <1>2, <2>2, <2>5, <3>1 DEF Under, Lists
    <3>3. QED
      BY <3>2 DEF FromSource
  <2>6. CASE /\ \A e \in EntriesOfEither(p, At(src, p), At(dest, p)) : m[e] # Failed
             /\ m[p] = [kind |-> "dir", mode |-> At(src, p).mode,
                    contents |-> [n \in {Last(e) : e \in {o \in
                            EntriesOfEither(p, At(src, p), At(dest, p)) : m[o] # None}} |->
                                    m[Append(p, n)]],
                    parents |-> <<At(src, p), At(dest, p)>>]
    <3> PICK entries : entries = EntriesOfEither(p, At(src, p), At(dest, p))
      OBVIOUS
    <3> PICK names : names = {Last(e) : e \in {o \in entries : m[o] # None}}
      OBVIOUS
    <3>1. entries = {e \in Children(p) : Lists(At(src, p), e) \/ Lists(At(dest, p), e)}
      BY DEF EntriesOfEither
    <3>2. m[p] # None
      BY <2>6 DEF NoneIsNoSnapshot
    <3>3. m[p].kind = "dir" /\ m[p].contents = [n \in names |-> m[Append(p, n)]]
      BY <2>6
    <3>4. Lists(m[p], c) <=> Last(c) \in names
      BY <3>2, <3>3 DEF Lists
    <3>5. Last(c) \in names <=> c \in entries /\ m[c] # None
      <4>1. ASSUME Last(c) \in names PROVE c \in entries /\ m[c] # None
        <5>1. PICK e \in entries : m[e] # None /\ Last(e) = Last(c)
          BY <4>1
        <5>2. e = c
          BY <3>1, <5>1, SameChild
        <5>3. QED
          BY <5>1, <5>2
      <4>2. QED
        BY <4>1
    <3>6. Append(p, Last(c)) = c
      BY ChildOfPath
    <3>7. CASE Last(c) \in names
      <4>1. At(m[Top], c) = m[c]
        BY <2>2, <3>3, <3>4, <3>6, <3>7 DEF Under
      <4>2. QED
        BY <2>6, <3>5, <3>7, <4>1 DEF MergedAt
    <3>8. CASE Last(c) \notin names
      <4>1. At(m[Top], c) = None
        BY <2>2, <3>4, <3>8 DEF Under
      <4>2. CASE c \in entries
        BY <2>6, <3>5, <3>8, <4>1, <4>2 DEF MergedAt
      <4>3. CASE c \notin entries
        <5>1. At(src, c) = None /\ At(dest, c) = None
          BY <1>2, <3>1, <4>3 DEF Under
        <5>2. QED
          BY <4>1, <5>1 DEF FromSource
      <4>4. QED
        BY <4>2, <4>3
    <3>9. QED
      BY <3>7, <3>8
  <2>7. QED
    BY <2>1, <2>3, <2>4, <2>5, <2>6, <2>1a DEF MergedHere
<1>6. QED
  BY <1>3, <1>4, <1>5

\* The snapshots that a merge has at a path.
LEMMA MergeIsAnyOf ==
    ASSUME NEW base, NEW src, NEW dest, NEW helper, NEW m, NoneIsNoSnapshot,
           IsMerge(base, src, dest, helper, m), NEW p \in Path
    PROVE  \/ MergedAt(m, p)
           \/ FromSource(base, src, dest, m[Top], p)
           \/ FromDest(base, src, dest, m[Top], p)
<1> DEFINE Is(q) == \/ MergedAt(m, q)
                    \/ FromSource(base, src, dest, m[Top], q)
                    \/ FromDest(base, src, dest, m[Top], q)
           S == {k \in Nat : \A q \in Path : Len(q) = k => Is(q)}
<1>1. 0 \in S
  <2>1. \A q \in Path : Len(q) = 0 => q = Top
    BY PathIsSeq
  <2>2. MergedAt(m, Top)
    BY AtSolves DEF MergedAt, IsMerge
  <2>3. QED
    BY <2>1, <2>2
<1>2. ASSUME NEW k \in Nat, k \in S PROVE k + 1 \in S
  <2>1. ASSUME NEW q \in Path, Len(q) = k + 1 PROVE Is(q)
    <3>1. /\ q # Top /\ Front(q) \in Path /\ q \in Children(Front(q)) /\ Len(Front(q)) = k
      <4>1. q # Top
        BY <2>1, PathIsSeq
      <4>2. Len(q) - 1 = k
        BY <2>1
      <4>3. QED
        BY <4>1, <4>2, FrontOfPath
    <3>2. Is(Front(q))
      BY <1>2, <3>1
    <3>3. QED
      BY <3>1, <3>2, MergeGoesDown
  <2>2. QED
    BY <2>1
<1> HIDE DEF S
<1>3. Nat \subseteq S
  BY <1>1, <1>2, Numbers!SetInduction
<1>4. Len(p) \in S
  BY <1>3, PathIsSeq
<1>5. QED
  BY <1>4 DEF S

\* A merge is the three-way merge of its sides at every path.
LEMMA MergesThreeWay ==
    ASSUME NEW base, NEW src, NEW dest, NEW helper, NEW m, NoneIsNoSnapshot,
           IsMerge(base, src, dest, helper, m), NEW p \in Path
    PROVE  Leaf(m[Top], p) \in ThreeWay(Leaf(base, p), Leaf(src, p), Leaf(dest, p), helper)
<1>1. ASSUME FromSource(base, src, dest, m[Top], p)
      PROVE  Leaf(m[Top], p) \in ThreeWay(Leaf(base, p), Leaf(src, p), Leaf(dest, p), helper)
  <2>1. /\ Leaf(m[Top], p) = Leaf(src, p)
        /\ Leaf(src, p) = Leaf(dest, p) \/ Leaf(dest, p) = Leaf(base, p)
    BY <1>1 DEF FromSource, Leaf
  <2>2. QED
    BY <2>1 DEF ThreeWay
<1>2. ASSUME FromDest(base, src, dest, m[Top], p)
      PROVE  Leaf(m[Top], p) \in ThreeWay(Leaf(base, p), Leaf(src, p), Leaf(dest, p), helper)
  <2>1. Leaf(m[Top], p) = Leaf(dest, p) /\ Leaf(src, p) = Leaf(base, p)
    BY <1>2 DEF FromDest, Leaf
  <2>2. QED
    BY <2>1 DEF ThreeWay
<1>3. ASSUME MergedAt(m, p)
      PROVE  Leaf(m[Top], p) \in ThreeWay(Leaf(base, p), Leaf(src, p), Leaf(dest, p), helper)
  <2>1. m[p] # Failed /\ At(m[Top], p) = m[p]
    BY <1>3 DEF MergedAt
  <2>1a. MergedHere(base, src, dest, helper, m, p)
    BY <2>1 DEF IsMerge
  <2>2. CASE m[p] = At(src, p) /\ (At(src, p) = At(dest, p) \/ At(dest, p) = At(base, p))
    BY <1>1, <2>1, <2>2 DEF FromSource
  <2>3. CASE m[p] = At(dest, p) /\ At(src, p) = At(base, p)
    BY <1>2, <2>1, <2>3 DEF FromDest
  <2>4. CASE /\ m[p] = [kind |-> "file", mode |-> At(dest, p).mode, contents |-> helper,
                        parents |-> <<At(src, p), At(dest, p)>>]
             /\ At(src, p) # At(dest, p) /\ At(dest, p) # At(base, p)
             /\ At(src, p) # At(base, p)
             /\ At(src, p) # None /\ At(dest, p) # None
             /\ At(src, p).kind # "dir" /\ At(dest, p).kind # "dir"
    <3>1. Leaf(src, p) = At(src, p) /\ Leaf(dest, p) = At(dest, p)
      BY <2>4 DEF Leaf
    <3>2. Leaf(base, p) = At(base, p) \/ Leaf(base, p) = None
      BY DEF Leaf
    <3>3. m[p] # None /\ m[p].kind = "file"
      BY <2>4 DEF NoneIsNoSnapshot
    <3>4. Leaf(m[Top], p) = m[p]
      BY <2>1, <3>3 DEF Leaf
    <3>5. ThreeWay(Leaf(base, p), Leaf(src, p), Leaf(dest, p), helper)
            = {[kind |-> "file", mode |-> mode, contents |-> helper,
                parents |-> <<At(src, p), At(dest, p)>>] :
                    mode \in {At(src, p).mode, At(dest, p).mode}}
      BY <2>4, <3>1, <3>2 DEF ThreeWay
    <3>6. QED
      BY <2>4, <3>4, <3>5
  <2>5. CASE /\ m[p] = [kind |-> "dir", mode |-> At(src, p).mode,
                    contents |-> [n \in {Last(c) : c \in {e \in
                            EntriesOfEither(p, At(src, p), At(dest, p)) : m[e] # None}} |->
                                    m[Append(p, n)]],
                    parents |-> <<At(src, p), At(dest, p)>>]
             /\ At(src, p).kind = "dir" /\ At(dest, p).kind = "dir"
    <3>1. m[p].kind = "dir"
      BY <2>5
    <3>2. Leaf(m[Top], p) = None /\ Leaf(src, p) = None /\ Leaf(dest, p) = None
      BY <2>1, <2>5, <3>1 DEF Leaf
    <3>3. QED
      BY <3>2 DEF ThreeWay
  <2>6. QED
    BY <2>1, <2>2, <2>3, <2>4, <2>5, <2>1a DEF MergedHere
<1>4. QED
  BY <1>1, <1>2, <1>3, MergeIsAnyOf

-----------------------------------------------------------------------------
(***************************************************************************)
(* The stacks of the recursive functions.                                  *)
(***************************************************************************)
\* A stack of calls: each frame is that of an entry of the directory of the
\* frame before it, which is no longer left to do there.
Stacked(s) ==
    /\ \E F : s \in Seq(F)
    /\ \A i \in 1..Len(s) :
          /\ s[i].path \in Path /\ Len(s[i].path) = i - 1
          /\ s[i].left \subseteq Children(s[i].path)
          /\ i # 1 => s[i].path \in Children(s[i - 1].path) \ s[i - 1].left

\* No call is under way.
LEMMA EmptyStack == Stacked(<<>>) /\ Len(<<>>) = 0
<1>1. <<>> \in Seq({}) /\ Len(<<>>) = 0
  BY EmptySeq
<1>2. 1..0 = {}
  OBVIOUS
<1>3. QED
  BY <1>1, <1>2 DEF Stacked

\* The length of a stack.
LEMMA StackLength ==
    ASSUME NEW s, Stacked(s)
    PROVE  /\ Len(s) \in Nat /\ (s = <<>> <=> Len(s) = 0)
           /\ s # <<>> => Len(s) \in Nat \ {0} /\ Len(s) \in 1..Len(s) /\ 1 \in 1..Len(s)
           /\ DOMAIN s = 1..Len(s)
           /\ Last(s) = s[Len(s)]
<1>1. PICK F : s \in Seq(F)
  BY DEF Stacked
<1>2. Len(s) \in Nat /\ (s # <<>> => Len(s) \in Nat \ {0}) /\ Len(<<>>) = 0
      /\ DOMAIN s = 1..Len(s)
  BY <1>1, EmptySeq, LenProperties
<1>3. Last(s) = s[Len(s)]
  BY DEF Last
<1>4. QED
  BY <1>2, <1>3

\* The frame of a stack is that of a path as deep as it is.
LEMMA FrameOfStack ==
    ASSUME NEW s, Stacked(s), NEW i \in 1..Len(s)
    PROVE  /\ s[i].path \in Path /\ Len(s[i].path) = i - 1
           /\ s[i].left \subseteq Children(s[i].path)
           /\ s[i].path = Top <=> i = 1
<1>1. /\ s[i].path \in Path /\ Len(s[i].path) = i - 1
      /\ s[i].left \subseteq Children(s[i].path)
  BY DEF Stacked
<1>2. s[i].path = Top <=> Len(s[i].path) = 0
  BY <1>1, PathIsSeq
<1>3. Len(s) \in Nat
  BY StackLength
<1>4. QED
  BY <1>1, <1>2, <1>3

\* The path of one frame is the path of only one.
LEMMA NextOfFrame ==
    ASSUME NEW s, Stacked(s), NEW i \in 1..Len(s), i # Len(s)
    PROVE  /\ i + 1 \in 1..Len(s)
           /\ s[i + 1].path \in Children(s[i].path) /\ s[i + 1].path \notin s[i].left
<1>1. Len(s) \in Nat
  BY StackLength
<1>2. i + 1 \in 1..Len(s) /\ i + 1 # 1 /\ (i + 1) - 1 = i
  BY <1>1
<1>3. \A j \in 1..Len(s) : j # 1 => s[j].path \in Children(s[j - 1].path) \ s[j - 1].left
  BY DEF Stacked
<1>4. s[i + 1].path \in Children(s[(i + 1) - 1].path) \ s[(i + 1) - 1].left
  BY <1>2, <1>3
<1>5. QED
  BY <1>2, <1>4

\* The frame on top is replaced.
SetTop(s, f) == [s EXCEPT ![Len(s)] = f]

\* The frame at the top may change, with no more left to do.
LEMMA StackSet ==
    ASSUME NEW s, Stacked(s), s # <<>>, NEW f,
           f.path = s[Len(s)].path, f.left \subseteq s[Len(s)].left,
           NEW t, t = SetTop(s, f)
    PROVE  /\ Stacked(t) /\ Len(t) = Len(s) /\ t # <<>>
           /\ t[Len(s)] = f
           /\ \A i \in 1..Len(s) : i # Len(s) => t[i] = s[i]
           /\ \A i \in 1..Len(s) : t[i].path = s[i].path
<1>1. PICK F : s \in Seq(F)
  BY DEF Stacked
<1>2. s \in Seq(F \cup {f})
  BY <1>1, SeqMonotonic
<1>3. Len(s) \in 1..Len(s) /\ Len(s) \in Nat
  BY StackLength
<1>4. /\ t \in Seq(F \cup {f}) /\ Len(t) = Len(s)
      /\ \A j \in 1..Len(s) : t[j] = IF j = Len(s) THEN f ELSE s[j]
  BY <1>2, <1>3, ExceptSeq DEF SetTop
<1>5. t # <<>>
  BY <1>3, <1>4, EmptySeq
<1>6. ASSUME NEW i \in 1..Len(t)
      PROVE  /\ t[i].path \in Path /\ Len(t[i].path) = i - 1
             /\ t[i].left \subseteq Children(t[i].path)
             /\ i # 1 => t[i].path \in Children(t[i - 1].path) \ t[i - 1].left
  <2>1. t[i].path = s[i].path /\ t[i].left \subseteq s[i].left
    BY <1>4
  <2>2. /\ s[i].path \in Path /\ Len(s[i].path) = i - 1
        /\ s[i].left \subseteq Children(s[i].path)
        /\ i # 1 => s[i].path \in Children(s[i - 1].path) \ s[i - 1].left
    BY <1>4 DEF Stacked
  <2>3. i # 1 => t[i - 1].path = s[i - 1].path /\ t[i - 1].left \subseteq s[i - 1].left
    <3> SUFFICES ASSUME i # 1
                 PROVE  t[i - 1].path = s[i - 1].path /\ t[i - 1].left \subseteq s[i - 1].left
      OBVIOUS
    <3>1. i - 1 \in 1..Len(s)
      BY <1>3, <1>4
    <3>2. QED
      BY <1>4, <3>1
  <2>4. QED
    BY <2>1, <2>2, <2>3
<1>7. Stacked(t)
  BY <1>4, <1>6 DEF Stacked
<1>8. QED
  BY <1>3, <1>4, <1>5, <1>7

\* A directory is entered.
LEMMA StackPush ==
    ASSUME NEW s, Stacked(s), NEW f,
           f.path \in Path, f.left \subseteq Children(f.path),
           IF s = <<>> THEN f.path = Top
           ELSE f.path \in Children(s[Len(s)].path) \ s[Len(s)].left
    PROVE  /\ Stacked(Append(s, f))
           /\ Len(Append(s, f)) = Len(s) + 1
           /\ Append(s, f)[Len(s) + 1] = f
           /\ \A i \in 1..Len(s) : Append(s, f)[i] = s[i]
<1>1. PICK F : s \in Seq(F)
  BY DEF Stacked
<1>2. s \in Seq(F \cup {f})
  BY <1>1, SeqMonotonic
<1>3. Len(s) \in Nat /\ (s = <<>> <=> Len(s) = 0)
  BY StackLength
<1> PICK t : t = Append(s, f)
  OBVIOUS
<1>4. /\ t \in Seq(F \cup {f}) /\ Len(t) = Len(s) + 1
      /\ \A i \in 1..Len(s) : t[i] = s[i]
      /\ t[Len(s) + 1] = f
  BY <1>2, AppendProperties
<1>5. ASSUME NEW i \in 1..Len(t)
      PROVE  /\ t[i].path \in Path /\ Len(t[i].path) = i - 1
             /\ t[i].left \subseteq Children(t[i].path)
             /\ i # 1 => t[i].path \in Children(t[i - 1].path) \ t[i - 1].left
  <2>1. CASE i \in 1..Len(s)
    <3>1. t[i] = s[i]
      BY <1>4, <2>1
    <3>2. i # 1 => t[i - 1] = s[i - 1]
      <4> SUFFICES ASSUME i # 1 PROVE t[i - 1] = s[i - 1]
        OBVIOUS
      <4>1. i - 1 \in 1..Len(s)
        BY <1>3, <2>1
      <4>2. QED
        BY <1>4, <4>1
    <3>3. /\ s[i].path \in Path /\ Len(s[i].path) = i - 1
          /\ s[i].left \subseteq Children(s[i].path)
          /\ i # 1 => s[i].path \in Children(s[i - 1].path) \ s[i - 1].left
      BY <2>1 DEF Stacked
    <3>4. QED
      BY <3>1, <3>2, <3>3
  <2>2. CASE i = Len(s) + 1
    <3>1. t[i] = f
      BY <1>4, <2>2
    <3>2. CASE s = <<>>
      <4>1. i = 1 /\ Len(f.path) = i - 1
        BY <1>3, <2>2, <3>2, PathIsSeq
      <4>2. QED
        BY <3>1, <4>1
    <3>3. CASE s # <<>>
      <4>1. i # 1 /\ i - 1 = Len(s) /\ Len(s) \in 1..Len(s)
        BY <1>3, <2>2, <3>3
      <4>2. t[i - 1] = s[Len(s)]
        BY <1>4, <4>1
      <4>3. s[Len(s)].path \in Path /\ Len(s[Len(s)].path) = Len(s) - 1
        BY <4>1, FrameOfStack
      <4>4. f.path \in Children(s[Len(s)].path) /\ f.path \notin s[Len(s)].left
        BY <3>3
      <4>5. Len(f.path) = Len(s[Len(s)].path) + 1
        BY <4>3, <4>4, ChildOfPath
      <4>6. Len(f.path) = i - 1
        BY <1>3, <2>2, <4>3, <4>5
      <4>7. QED
        BY <3>1, <4>2, <4>4, <4>6
    <3>4. QED
      BY <3>2, <3>3
  <2>3. i \in 1..Len(s) \/ i = Len(s) + 1
    BY <1>3, <1>4
  <2>4. QED
    BY <2>1, <2>2, <2>3
<1>6. Stacked(t)
  BY <1>4, <1>5 DEF Stacked
<1>7. QED
  BY <1>4, <1>6

\* A directory is left.
LEMMA StackPop ==
    ASSUME NEW s, Stacked(s), s # <<>>
    PROVE  /\ Stacked(Front(s)) /\ Len(Front(s)) = Len(s) - 1
           /\ \A i \in 1..Len(Front(s)) : i \in 1..Len(s) /\ i # Len(s) /\ Front(s)[i] = s[i]
           /\ Front(s) = <<>> <=> Len(s) = 1
           /\ Front(s) # <<>> => s[Len(s)].path \in Children(Front(s)[Len(Front(s))].path)
                                    \ Front(s)[Len(Front(s))].left
<1>1. PICK F : s \in Seq(F)
  BY DEF Stacked
<1>2. Len(s) \in Nat \ {0}
  BY StackLength
<1> PICK n : n = Len(s) - 1
  OBVIOUS
<1>3. n \in Nat /\ n \in Int /\ Len(s) = n + 1
  BY <1>2
<1>4. \A i \in 1..n : s[i] \in F
  <2> SUFFICES ASSUME NEW i \in 1..n PROVE s[i] \in F
    OBVIOUS
  <2>1. i \in 1..Len(s)
    BY <1>3
  <2>2. QED
    BY <1>1, <2>1, ElementOfSeq
<1> PICK t : t = Front(s)
  OBVIOUS
<1>5. t = SubSeq(s, 1, n)
  BY DEF Front
<1>6. /\ t \in Seq(F) /\ Len(t) = IF 1 <= n THEN n - 1 + 1 ELSE 0
      /\ \A i \in 1..(n - 1 + 1) : t[i] = s[1 + i - 1]
  <2>1. 1 \in Int
    OBVIOUS
  <2>2. /\ SubSeq(s, 1, n) \in Seq(F) /\ Len(SubSeq(s, 1, n)) = IF 1 <= n THEN n - 1 + 1 ELSE 0
        /\ \A i \in 1..(n - 1 + 1) : SubSeq(s, 1, n)[i] = s[1 + i - 1]
    BY <1>3, <1>4, <2>1, SubSeqProperties
  <2>3. QED
    BY <1>5, <2>2
<1>7. Len(t) = n
  BY <1>3, <1>6
<1>8. \A i \in 1..n : t[i] = s[i] /\ i \in 1..Len(s) /\ i # Len(s)
  <2> SUFFICES ASSUME NEW i \in 1..n PROVE t[i] = s[i] /\ i \in 1..Len(s) /\ i # Len(s)
    OBVIOUS
  <2>1. i \in 1..(n - 1 + 1) /\ 1 + i - 1 = i /\ i \in 1..Len(s) /\ i # Len(s)
    BY <1>3
  <2>2. t[i] = s[1 + i - 1]
    BY <1>6, <2>1
  <2>3. QED
    BY <2>1, <2>2
<1>9. ASSUME NEW i \in 1..Len(t)
      PROVE  /\ t[i].path \in Path /\ Len(t[i].path) = i - 1
             /\ t[i].left \subseteq Children(t[i].path)
             /\ i # 1 => t[i].path \in Children(t[i - 1].path) \ t[i - 1].left
  <2>1. t[i] = s[i] /\ i \in 1..Len(s)
    BY <1>7, <1>8
  <2>2. i # 1 => t[i - 1] = s[i - 1]
    <3> SUFFICES ASSUME i # 1 PROVE t[i - 1] = s[i - 1]
      OBVIOUS
    <3>1. i - 1 \in 1..n
      BY <1>3, <1>7
    <3>2. QED
      BY <1>8, <3>1
  <2>3. /\ s[i].path \in Path /\ Len(s[i].path) = i - 1
        /\ s[i].left \subseteq Children(s[i].path)
        /\ i # 1 => s[i].path \in Children(s[i - 1].path) \ s[i - 1].left
    BY <2>1 DEF Stacked
  <2>4. QED
    BY <2>1, <2>2, <2>3
<1>10. Stacked(t)
  BY <1>6, <1>9 DEF Stacked
<1>11. t = <<>> <=> Len(s) = 1
  <2>1. t = <<>> <=> Len(t) = 0
    BY <1>10, StackLength
  <2>2. QED
    BY <1>3, <1>7, <2>1
<1>12. ASSUME t # <<>>
       PROVE  s[Len(s)].path \in Children(t[Len(t)].path) \ t[Len(t)].left
  <2>1. n \in 1..Len(s) /\ n # Len(s) /\ n \in 1..n
    BY <1>2, <1>3, <1>11, <1>12
  <2>2. /\ s[n + 1].path \in Children(s[n].path) /\ s[n + 1].path \notin s[n].left
    BY <2>1, NextOfFrame
  <2>3. t[n] = s[n]
    BY <1>8, <2>1
  <2>4. QED
    BY <1>3, <1>7, <2>2, <2>3
<1>13. QED
  BY <1>3, <1>7, <1>8, <1>10, <1>11, <1>12

-----------------------------------------------------------------------------
(***************************************************************************)
(* Commands.                                                               *)
(***************************************************************************)
Current(src, s) == [pc |-> "current", src |-> src, stack |-> s]
Merging(src, prev) == [pc |-> "merge", src |-> src, prev |-> prev]
Removing(src, prev, base, merged, helper) ==
    [pc |-> "remove", src |-> src, prev |-> prev, base |-> base, merged |-> merged,
     helper |-> helper]
Checkout(h, s) == [pc |-> "checkout", snapshot |-> h, stack |-> s]

CurrentCalls(s) ==
    /\ Stacked(s)
    /\ \A i \in 1..Len(s) :
          s[i] = [path |-> s[i].path, mode |-> s[i].mode, found |-> s[i].found,
                  left |-> s[i].left]

\* A frame of Checkout is that of an entry of the snapshot of the frame before.
CheckoutCalls(s, h) ==
    /\ Stacked(s)
    /\ \A i \in 1..Len(s) :
          /\ s[i] = [path |-> s[i].path, snapshot |-> s[i].snapshot, left |-> s[i].left]
          /\ i = 1 => s[i].snapshot = h
          /\ i # 1 => /\ s[i].snapshot = Under(s[i - 1].snapshot, s[i].path)
                      /\ Lists(s[i - 1].snapshot, s[i].path)
          /\ \A c \in s[i].left : Lists(s[i].snapshot, c)

WellFormed(c) ==
    \/ c = Idle
    \/ \E src \in Sources \cup {None} : \E s : c = Current(src, s) /\ CurrentCalls(s)
    \/ \E src \in Sources \ {None} : \E prev : c = Merging(src, prev)
    \/ \E src \in Sources \ {None} : \E prev, base, helper, m :
          /\ c = Removing(src, prev, base, m[Top], helper)
          /\ IsMerge(base, src, prev, helper, m)
    \/ \E h, s : c = Checkout(h, s) /\ CheckoutCalls(s, h)

CommandInv == WellFormed(command)

\* What a command keeps in memory in each of its phases.
LEMMA CommandCases ==
    ASSUME CommandInv
    PROVE  /\ command.pc = "idle" => command = Idle
           /\ command.pc = "current" =>
                 \E src \in Sources \cup {None} : \E s :
                    command = Current(src, s) /\ CurrentCalls(s)
           /\ command.pc = "merge" =>
                 \E src \in Sources \ {None} : \E prev : command = Merging(src, prev)
           /\ command.pc = "remove" =>
                 \E src \in Sources \ {None} : \E prev, base, helper, m :
                    /\ command = Removing(src, prev, base, m[Top], helper)
                    /\ IsMerge(base, src, prev, helper, m)
           /\ command.pc = "checkout" =>
                 \E h, s : command = Checkout(h, s) /\ CheckoutCalls(s, h)
<1>1. CASE command = Idle
  <2>1. command.pc = "idle"
    BY <1>1 DEF Idle
  <2>2. QED
    BY <1>1, <2>1
<1>2. CASE \E src \in Sources \cup {None} : \E s : command = Current(src, s) /\ CurrentCalls(s)
  <2>1. command.pc = "current"
    BY <1>2 DEF Current
  <2>2. QED
    BY <1>2, <2>1
<1>3. CASE \E src \in Sources \ {None} : \E prev : command = Merging(src, prev)
  <2>1. command.pc = "merge"
    BY <1>3 DEF Merging
  <2>2. QED
    BY <1>3, <2>1
<1>4. CASE \E src \in Sources \ {None} : \E prev, base, helper, m :
              /\ command = Removing(src, prev, base, m[Top], helper)
              /\ IsMerge(base, src, prev, helper, m)
  <2>1. command.pc = "remove"
    BY <1>4 DEF Removing
  <2>2. QED
    BY <1>4, <2>1
<1>5. CASE \E h, s : command = Checkout(h, s) /\ CheckoutCalls(s, h)
  <2>1. command.pc = "checkout"
    BY <1>5 DEF Checkout
  <2>2. QED
    BY <1>5, <2>1
<1>6. QED
  BY <1>1, <1>2, <1>3, <1>4, <1>5 DEF CommandInv, WellFormed

-----------------------------------------------------------------------------
\* The path p is the next to be looked at.
EntryOf(s, p) == IF s = <<>> THEN p = Top ELSE p \in s[Len(s)].left

\* The entry p is no longer left to do.
CurrentTaken(s, p) ==
    IF s = <<>> THEN <<>>
    ELSE [s EXCEPT ![Len(s)] =
             [path |-> s[Len(s)].path, mode |-> s[Len(s)].mode, found |-> s[Len(s)].found,
              left |-> s[Len(s)].left \ {p}]]
CheckoutTaken(s, p) ==
    IF s = <<>> THEN <<>>
    ELSE [s EXCEPT ![Len(s)] =
             [path |-> s[Len(s)].path, snapshot |-> s[Len(s)].snapshot,
              left |-> s[Len(s)].left \ {p}]]

WithFound(s, p, h) ==
    IF h = None THEN s
    ELSE [s EXCEPT ![Len(s)] =
             [path |-> s[Len(s)].path, mode |-> s[Len(s)].mode,
              found |-> WithEntry(s[Len(s)].found, Last(p), h), left |-> s[Len(s)].left]]

\* How the snapshot of a path is returned.
Returns(src, t, p, h) ==
    IF t # <<>> THEN command' = Current(src, WithFound(t, p, h)) /\ UNCHANGED <<outcome, taken>>
    ELSE IF src = None
    THEN command' = Idle /\ outcome' = "ok" /\ taken' = taken \cup ({h} \ {None})
    ELSE IF h = None
    THEN command' = Checkout(src, <<>>) /\ taken' = {} /\ UNCHANGED outcome
    ELSE command' = Merging(src, h) /\ taken' = taken \cup {h} /\ UNCHANGED outcome

\* Taking an entry leaves a stack of calls of snapshot.Current.
LEMMA CurrentTakenStack ==
    ASSUME NEW s, CurrentCalls(s), NEW p \in Path, EntryOf(s, p)
    PROVE  LET t == CurrentTaken(s, p)
           IN  /\ CurrentCalls(t) /\ Len(t) = Len(s) /\ (t = <<>> <=> s = <<>>)
               /\ t = <<>> => p = Top
               /\ t # <<>> => /\ p \in Children(t[Len(t)].path) /\ p \notin t[Len(t)].left
                              /\ p \in Children(s[Len(s)].path) /\ p \in s[Len(s)].left
                              /\ t[Len(t)].left = s[Len(s)].left \ {p}
                              /\ p # Top
               /\ \A i \in 1..Len(s) : /\ t[i].path = s[i].path /\ t[i].found = s[i].found
                                       /\ t[i].mode = s[i].mode
                                       /\ i # Len(s) => t[i] = s[i]
<1> PICK t : t = CurrentTaken(s, p)
  OBVIOUS
<1>1. CASE s = <<>>
  <2>1. t = <<>> /\ p = Top /\ Len(s) = 0
    BY <1>1, EmptyStack DEF CurrentTaken, EntryOf
  <2>2. 1..0 = {}
    OBVIOUS
  <2>3. QED
    BY <1>1, <2>1, <2>2
<1>2. CASE s # <<>>
  <2> PICK n : n = Len(s)
    OBVIOUS
  <2>1. Stacked(s) /\ n \in 1..Len(s) /\ p \in s[n].left
    BY <1>2, StackLength DEF CurrentCalls, EntryOf
  <2>2. s[n].left \subseteq Children(s[n].path) /\ p # Top
    BY <2>1, FrameOfStack, ChildOfPath
  <2> PICK f : f = [path |-> s[n].path, mode |-> s[n].mode, found |-> s[n].found,
                    left |-> s[n].left \ {p}]
    OBVIOUS
  <2>3. /\ f.path = s[n].path /\ f.left = s[n].left \ {p} /\ f.found = s[n].found
        /\ f.mode = s[n].mode
        /\ f = [path |-> f.path, mode |-> f.mode, found |-> f.found, left |-> f.left]
    OBVIOUS
  <2>4. t = SetTop(s, f)
    BY <1>2 DEF CurrentTaken, SetTop
  <2>41. f.path = s[Len(s)].path /\ f.left \subseteq s[Len(s)].left
    BY <2>3
  <2>5. /\ Stacked(t) /\ Len(t) = Len(s) /\ t # <<>> /\ t[Len(s)] = f
        /\ \A i \in 1..Len(s) : i # Len(s) => t[i] = s[i]
        /\ \A i \in 1..Len(s) : t[i].path = s[i].path
    BY ONLY <1>2, <2>1, <2>4, <2>41, StackSet
  <2>6. \A i \in 1..Len(t) :
           t[i] = [path |-> t[i].path, mode |-> t[i].mode, found |-> t[i].found,
                   left |-> t[i].left]
    BY <2>3, <2>5 DEF CurrentCalls
  <2>7. CurrentCalls(t)
    BY <2>5, <2>6 DEF CurrentCalls
  <2>8. t[Len(t)].left = s[n].left \ {p} /\ t[Len(t)].path = s[n].path
    BY <2>3, <2>5
  <2>9. \A i \in 1..Len(s) : t[i].found = s[i].found /\ t[i].mode = s[i].mode
    BY <2>3, <2>5
  <2>10. QED
    BY <1>2, <2>1, <2>2, <2>5, <2>7, <2>8, <2>9
<1>3. QED
  BY <1>1, <1>2

\* So does the snapshot of an entry, as it is returned,
LEMMA WithFoundStack ==
    ASSUME NEW t, CurrentCalls(t), t # <<>>, NEW p, NEW h
    PROVE  LET u == WithFound(t, p, h)
           IN  /\ CurrentCalls(u) /\ Len(u) = Len(t) /\ u # <<>>
               /\ \A i \in 1..Len(t) : /\ u[i].path = t[i].path /\ u[i].left = t[i].left
                                       /\ u[i].mode = t[i].mode
                                       /\ i # Len(t) => u[i] = t[i]
               /\ u[Len(t)].found = IF h = None THEN t[Len(t)].found
                                    ELSE WithEntry(t[Len(t)].found, Last(p), h)
<1> PICK u : u = WithFound(t, p, h)
  OBVIOUS
<1>1. CASE h = None
  BY <1>1 DEF WithFound
<1>2. CASE h # None
  <2> PICK n : n = Len(t)
    OBVIOUS
  <2> PICK found : found = WithEntry(t[n].found, Last(p), h)
    OBVIOUS
  <2>1. Stacked(t) /\ n \in 1..Len(t)
    BY StackLength DEF CurrentCalls
  <2> PICK f : f = [path |-> t[n].path, mode |-> t[n].mode, found |-> found, left |-> t[n].left]
    OBVIOUS
  <2>3. /\ f.path = t[n].path /\ f.left = t[n].left /\ f.found = found /\ f.mode = t[n].mode
        /\ f = [path |-> f.path, mode |-> f.mode, found |-> f.found, left |-> f.left]
    OBVIOUS
  <2>4. u = SetTop(t, f)
    BY <1>2 DEF WithFound, SetTop
  <2>41. f.path = t[Len(t)].path /\ f.left \subseteq t[Len(t)].left
    BY <2>3
  <2>5. /\ Stacked(u) /\ Len(u) = Len(t) /\ u # <<>> /\ u[Len(t)] = f
        /\ \A i \in 1..Len(t) : i # Len(t) => u[i] = t[i]
    BY ONLY <2>1, t # <<>>, <2>4, <2>41, StackSet
  <2>6. \A i \in 1..Len(u) :
           u[i] = [path |-> u[i].path, mode |-> u[i].mode, found |-> u[i].found,
                   left |-> u[i].left]
    BY <2>3, <2>5 DEF CurrentCalls
  <2>7. CurrentCalls(u)
    BY <2>5, <2>6 DEF CurrentCalls
  <2>8. \A i \in 1..Len(t) : u[i].path = t[i].path /\ u[i].left = t[i].left /\ u[i].mode = t[i].mode
    BY <2>3, <2>5
  <2>9. u[Len(t)].found = found
    BY <2>3, <2>5
  <2>10. QED
    BY <1>2, <2>5, <2>7, <2>8, <2>9
<1>3. QED
  BY <1>1, <1>2

\* the call for a directory,
LEMMA CurrentPushStack ==
    ASSUME NEW t, CurrentCalls(t), NEW p \in Path, NEW m, NEW left \in SUBSET Children(p),
           IF t = <<>> THEN p = Top ELSE p \in Children(t[Len(t)].path) \ t[Len(t)].left
    PROVE  LET f == [path |-> p, mode |-> m, found |-> <<>>, left |-> left]
               u == Append(t, f)
           IN  /\ CurrentCalls(u) /\ Len(u) = Len(t) + 1 /\ u[Len(t) + 1] = f
               /\ \A i \in 1..Len(t) : u[i] = t[i]
<1> PICK f : f = [path |-> p, mode |-> m, found |-> <<>>, left |-> left]
  OBVIOUS
<1> PICK u : u = Append(t, f)
  OBVIOUS
<1>1. /\ f.path = p /\ f.left = left
      /\ f = [path |-> f.path, mode |-> f.mode, found |-> f.found, left |-> f.left]
  OBVIOUS
<1>2. Stacked(t) /\ Len(t) \in Nat
  BY StackLength DEF CurrentCalls
<1>3. /\ Stacked(u) /\ Len(u) = Len(t) + 1 /\ u[Len(t) + 1] = f
      /\ \A i \in 1..Len(t) : u[i] = t[i]
  BY <1>1, <1>2, StackPush
<1>4. ASSUME NEW i \in 1..Len(u)
      PROVE  u[i] = [path |-> u[i].path, mode |-> u[i].mode, found |-> u[i].found,
                     left |-> u[i].left]
  <2>1. i \in 1..Len(t) \/ i = Len(t) + 1
    BY <1>2, <1>3
  <2>2. CASE i \in 1..Len(t)
    BY <1>3, <2>2 DEF CurrentCalls
  <2>3. CASE i = Len(t) + 1
    BY <1>1, <1>3, <2>3
  <2>4. QED
    BY <2>1, <2>2, <2>3
<1>5. QED
  BY <1>3, <1>4 DEF CurrentCalls

\* and the return from it.
LEMMA CurrentPopStack ==
    ASSUME NEW s, CurrentCalls(s), s # <<>>
    PROVE  LET t == Front(s)
           IN  /\ CurrentCalls(t) /\ Len(t) = Len(s) - 1 /\ (t = <<>> <=> Len(s) = 1)
               /\ \A i \in 1..Len(t) : i \in 1..Len(s) /\ i # Len(s) /\ t[i] = s[i]
               /\ t = <<>> => s[Len(s)].path = Top
               /\ t # <<>> => /\ s[Len(s)].path \in Children(t[Len(t)].path)
                              /\ s[Len(s)].path \notin t[Len(t)].left
                              /\ s[Len(s)].path # Top
<1> PICK t : t = Front(s)
  OBVIOUS
<1>1. Stacked(s) /\ Len(s) \in 1..Len(s)
  BY StackLength DEF CurrentCalls
<1>2. /\ Stacked(t) /\ Len(t) = Len(s) - 1
      /\ \A i \in 1..Len(t) : i \in 1..Len(s) /\ i # Len(s) /\ t[i] = s[i]
      /\ t = <<>> <=> Len(s) = 1
      /\ t # <<>> => s[Len(s)].path \in Children(t[Len(t)].path) \ t[Len(t)].left
  BY <1>1, StackPop
<1>3. s[Len(s)].path = Top <=> Len(s) = 1
  BY <1>1, FrameOfStack
<1>4. CurrentCalls(t)
  BY <1>2 DEF CurrentCalls
<1>5. QED
  BY <1>2, <1>3, <1>4

\* A frame with other entries left to do.
LEMMA FrameLessLeft ==
    ASSUME NEW f, NEW l,
           f = [path |-> f.path, mode |-> f.mode, found |-> f.found, left |-> f.left]
    PROVE  [f EXCEPT !.left = l]
               = [path |-> f.path, mode |-> f.mode, found |-> f.found, left |-> l]
OBVIOUS

\* Returning a snapshot, without the nested updates.
LEMMA ReturnIs ==
    ASSUME NEW src, NEW s, command = Current(src, s), NEW t, CurrentCalls(t), NEW p, NEW h,
           Return(p, h, t)
    PROVE  Returns(src, t, p, h)
<1>1. command.src = src /\ \A u : [command EXCEPT !.stack = u] = Current(src, u)
  BY DEF Current
<1>2. CASE t # <<>>
  <2> PICK n : n = Len(t)
    OBVIOUS
  <2>1. n \in 1..Len(t) /\ DOMAIN t = 1..Len(t)
    BY <1>2, StackLength DEF CurrentCalls
  <2>2. t[n] = [path |-> t[n].path, mode |-> t[n].mode, found |-> t[n].found,
                left |-> t[n].left]
    BY <2>1 DEF CurrentCalls
  <2> PICK found : found = WithEntry(t[n].found, Last(p), h)
    OBVIOUS
  <2>3. [t[n] EXCEPT !.found = found]
          = [path |-> t[n].path, mode |-> t[n].mode, found |-> found, left |-> t[n].left]
    BY <2>2
  <2>4. command' = [command EXCEPT !.stack =
                       IF h = None THEN t
                       ELSE [t EXCEPT ![Len(t)].found = WithEntry(@, Last(p), h)]]
        /\ UNCHANGED <<outcome, taken>>
    BY <1>2 DEF Return
  <2>5. [t EXCEPT ![Len(t)].found = WithEntry(@, Last(p), h)]
          = [t EXCEPT ![n] = [t[n] EXCEPT !.found = found]]
    OBVIOUS
  <2>6. (IF h = None THEN t ELSE [t EXCEPT ![Len(t)].found = WithEntry(@, Last(p), h)])
          = WithFound(t, p, h)
    BY <2>3, <2>5 DEF WithFound
  <2>7. command' = Current(src, WithFound(t, p, h))
    BY <1>1, <2>4, <2>6
  <2>8. QED
    BY <1>2, <2>4, <2>7 DEF Returns
<1>3. CASE t = <<>>
  BY <1>1, <1>3 DEF Return, Returns, Finish, Checkout, Merging
<1>4. QED
  BY <1>2, <1>3

\* What a step of snapshot.Current does: there is nothing at the path p, or
\* a directory, or a file.
CurrentNothingOf(src, t, p) ==
    /\ Excluded(p) \/ files[p] = None
    /\ Returns(src, t, p, None) /\ UNCHANGED <<paths, absent>>
CurrentDirectoryEntryOf(src, t, p) ==
    /\ ~Excluded(p) /\ files[p] # None /\ files[p].kind = "dir"
    /\ command' = Current(src, Append(t,
                       [path |-> p, mode |-> files[p].mode, found |-> <<>>,
                        left |-> {c \in Children(p) : files[c] # None}]))
    /\ UNCHANGED <<paths, absent, outcome, taken>>
CurrentFileOf(src, t, p, h) ==
    /\ ~Excluded(p) /\ files[p] # None /\ files[p].kind # "dir"
    /\ h = SnapshotOf(p, files[p].kind, files[p].mode, files[p].data)
    /\ paths.latest[p] # Blank
    /\ Record(p, h) /\ Returns(src, t, p, h)

CurrentEntryOf(src, s, t, p) ==
    /\ command = Current(src, s) /\ CurrentCalls(s) /\ EntryOf(s, p)
    /\ t = CurrentTaken(s, p)
    /\ UNCHANGED <<files, lost, edited, interrupted, counters>>
    /\ \/ CurrentNothingOf(src, t, p)
       \/ CurrentDirectoryEntryOf(src, t, p)
       \/ \E h : CurrentFileOf(src, t, p, h)

\* CurrentEntry does one of these things.
LEMMA CurrentEntryIs ==
    ASSUME CommandInv, NEW p \in Path, CurrentEntry(p)
    PROVE  \E src \in Sources \cup {None} : \E s, t : CurrentEntryOf(src, s, t, p)
<1>1. command.pc = "current"
  BY DEF CurrentEntry
<1>0. PICK src \in Sources \cup {None} : \E s : command = Current(src, s) /\ CurrentCalls(s)
  BY <1>1, CommandCases
<1>2. PICK s : command = Current(src, s) /\ CurrentCalls(s)
  BY <1>0
<1>3. Calls = s /\ Frame = s[Len(s)] /\ \A u : [command EXCEPT !.stack = u] = Current(src, u)
  BY <1>2 DEF Current, Calls, Frame, Last
<1>4. EntryOf(s, p)
  BY <1>3 DEF CurrentEntry, AtEntry, EntryOf
<1> PICK t : t = CurrentTaken(s, p)
  OBVIOUS
<1>5. t = IF Calls = <<>> THEN Calls ELSE [Calls EXCEPT ![Len(Calls)].left = @ \ {p}]
  <2>1. CASE s = <<>>
    BY <1>3, <2>1 DEF CurrentTaken
  <2>2. CASE s # <<>>
    <3> PICK n : n = Len(s)
      OBVIOUS
    <3>1. n \in 1..Len(s)
      BY <1>2, <2>2, StackLength DEF CurrentCalls
    <3>2. s[n] = [path |-> s[n].path, mode |-> s[n].mode, found |-> s[n].found,
                  left |-> s[n].left]
      BY <1>2, <3>1 DEF CurrentCalls
    <3> PICK left : left = s[n].left \ {p}
      OBVIOUS
    <3>3. [s[n] EXCEPT !.left = left]
            = [path |-> s[n].path, mode |-> s[n].mode, found |-> s[n].found, left |-> left]
      BY ONLY <3>2, FrameLessLeft
    <3>4. [s EXCEPT ![Len(s)].left = @ \ {p}] = [s EXCEPT ![n] = [s[n] EXCEPT !.left = left]]
      OBVIOUS
    <3>5. [s EXCEPT ![Len(s)].left = @ \ {p}] = t
      BY <2>2, <3>3, <3>4 DEF CurrentTaken
    <3>6. QED
      BY <1>3, <2>2, <3>5
  <2>3. QED
    BY <2>1, <2>2
<1>6. CurrentCalls(t)
  BY <1>2, <1>4, CurrentTakenStack
<1>7. UNCHANGED <<files, lost, edited, interrupted, counters>>
  BY DEF CurrentEntry
<1>8. ASSUME Excluded(p) \/ files[p] = None
      PROVE  CurrentNothingOf(src, t, p)
  <2>1. Return(p, None, t) /\ UNCHANGED <<paths, absent>>
    BY <1>5, <1>8 DEF CurrentEntry
  <2>2. Returns(src, t, p, None)
    BY <1>2, <1>6, <2>1, ReturnIs
  <2>3. QED
    BY <1>8, <2>1, <2>2 DEF CurrentNothingOf
<1>9. ASSUME ~Excluded(p), files[p] # None, files[p].kind = "dir"
      PROVE  CurrentDirectoryEntryOf(src, t, p)
  <2>1. /\ command' = [command EXCEPT !.stack = Append(t,
                       [path |-> p, mode |-> files[p].mode, found |-> <<>>,
                        left |-> {c \in Children(p) : files[c] # None}])]
        /\ UNCHANGED <<paths, absent, outcome, taken>>
    BY <1>5, <1>9 DEF CurrentEntry
  <2>2. command' = Current(src, Append(t,
                       [path |-> p, mode |-> files[p].mode, found |-> <<>>,
                        left |-> {c \in Children(p) : files[c] # None}]))
    BY <1>3, <2>1
  <2>3. QED
    BY <1>9, <2>1, <2>2 DEF CurrentDirectoryEntryOf
<1>10. ASSUME ~Excluded(p), files[p] # None, files[p].kind # "dir"
       PROVE  \E h : CurrentFileOf(src, t, p, h)
  <2> PICK h : h = SnapshotOf(p, files[p].kind, files[p].mode, files[p].data)
    OBVIOUS
  <2>1. Record(p, h) /\ Return(p, h, t)
    BY <1>5, <1>10 DEF CurrentEntry
  <2>2. Returns(src, t, p, h)
    BY <1>2, <1>6, <2>1, ReturnIs
  <2>3. paths.latest[p] # Blank
    BY <1>10 DEF CurrentEntry, LooksUp
  <2>4. CurrentFileOf(src, t, p, h)
    BY <1>10, <2>1, <2>2, <2>3 DEF CurrentFileOf
  <2>5. QED
    BY <2>4
<1>11. \/ CurrentNothingOf(src, t, p)
       \/ CurrentDirectoryEntryOf(src, t, p)
       \/ \E h : CurrentFileOf(src, t, p, h)
  BY <1>8, <1>9, <1>10
<1>12. CurrentEntryOf(src, s, t, p)
  BY <1>2, <1>4, <1>7, <1>11 DEF CurrentEntryOf
<1>13. QED
  BY <1>12

\* The end of a directory of the snapshot of src, which is h.
CurrentDirectoryOf(src, s, p, h) ==
    /\ command = Current(src, s) /\ CurrentCalls(s)
    /\ s # <<>> /\ s[Len(s)].left = {} /\ p = s[Len(s)].path
    /\ h = SnapshotOf(p, "dir", s[Len(s)].mode, s[Len(s)].found)
    /\ paths.latest[p] # Blank
    /\ UNCHANGED <<files, lost, edited, interrupted, counters>>
    /\ Record(p, h) /\ Returns(src, Front(s), p, h)

\* CurrentDirectory does that.
LEMMA CurrentDirectoryIs ==
    ASSUME CommandInv, CurrentDirectory
    PROVE  \E src \in Sources \cup {None} : \E p \in Path : \E s, h : CurrentDirectoryOf(src, s, p, h)
<1>1. command.pc = "current" /\ Calls # <<>> /\ Frame.left = {}
  BY DEF CurrentDirectory
<1>0. PICK src \in Sources \cup {None} : \E s : command = Current(src, s) /\ CurrentCalls(s)
  BY <1>1, CommandCases
<1>2. PICK s : command = Current(src, s) /\ CurrentCalls(s)
  BY <1>0
<1>3. Calls = s /\ Frame = s[Len(s)]
  BY <1>2 DEF Current, Calls, Frame, Last
<1> PICK p : p = s[Len(s)].path
  OBVIOUS
<1> PICK h : h = SnapshotOf(p, "dir", s[Len(s)].mode, s[Len(s)].found)
  OBVIOUS
<1>4. p \in Path
  <2>1. Stacked(s) /\ Len(s) \in 1..Len(s)
    BY <1>1, <1>2, <1>3, StackLength DEF CurrentCalls
  <2>2. QED
    BY <2>1, FrameOfStack
<1>5. CurrentCalls(Front(s))
  BY <1>1, <1>2, <1>3, CurrentPopStack
<1>6. Record(p, h) /\ Return(p, h, Front(s)) /\ paths.latest[p] # Blank
      /\ UNCHANGED <<files, lost, edited, interrupted, counters>>
  BY <1>3 DEF CurrentDirectory
<1>7. Returns(src, Front(s), p, h)
  BY <1>2, <1>5, <1>6, ReturnIs
<1>8. QED
  <2>1. CurrentDirectoryOf(src, s, p, h)
    BY <1>1, <1>2, <1>3, <1>6, <1>7 DEF CurrentDirectoryOf
  <2>2. QED
    BY <1>4, <2>1

-----------------------------------------------------------------------------
\* Taking an entry leaves a stack of calls of Checkout.
LEMMA CheckoutTakenStack ==
    ASSUME NEW h, NEW s, CheckoutCalls(s, h), NEW p \in Path, EntryOf(s, p)
    PROVE  LET t == CheckoutTaken(s, p)
           IN  /\ CheckoutCalls(t, h) /\ Len(t) = Len(s) /\ (t = <<>> <=> s = <<>>)
               /\ t = <<>> => p = Top
               /\ t # <<>> => /\ p \in Children(t[Len(t)].path) /\ p \notin t[Len(t)].left
                              /\ p \in Children(s[Len(s)].path) /\ p \in s[Len(s)].left
                              /\ t[Len(t)].left = s[Len(s)].left \ {p}
                              /\ Lists(s[Len(s)].snapshot, p)
                              /\ p # Top
               /\ \A i \in 1..Len(s) : /\ t[i].path = s[i].path
                                       /\ t[i].snapshot = s[i].snapshot
                                       /\ i # Len(s) => t[i] = s[i]
<1> PICK t : t = CheckoutTaken(s, p)
  OBVIOUS
<1>1. CASE s = <<>>
  <2>1. t = <<>> /\ p = Top /\ Len(s) = 0
    BY <1>1, EmptyStack DEF CheckoutTaken, EntryOf
  <2>2. 1..0 = {}
    OBVIOUS
  <2>3. QED
    BY <1>1, <2>1, <2>2
<1>2. CASE s # <<>>
  <2> PICK n : n = Len(s)
    OBVIOUS
  <2>1. Stacked(s) /\ n \in 1..Len(s) /\ p \in s[n].left
    BY <1>2, StackLength DEF CheckoutCalls, EntryOf
  <2>12. n \in Nat
    BY <2>1, StackLength
  <2>20. s[n].left \subseteq Children(s[n].path) /\ s[n].path \in Path
    BY ONLY <2>1, FrameOfStack
  <2>2. s[n].left \subseteq Children(s[n].path) /\ p # Top
    BY <2>1, <2>20, ChildOfPath
  <2> PICK f : f = [path |-> s[n].path, snapshot |-> s[n].snapshot, left |-> s[n].left \ {p}]
    OBVIOUS
  <2>3. /\ f.path = s[n].path /\ f.left = s[n].left \ {p} /\ f.snapshot = s[n].snapshot
        /\ f = [path |-> f.path, snapshot |-> f.snapshot, left |-> f.left]
    OBVIOUS
  <2>4. t = SetTop(s, f)
    BY <1>2 DEF CheckoutTaken, SetTop
  <2>41. f.path = s[Len(s)].path /\ f.left \subseteq s[Len(s)].left
    BY <2>3
  <2>5. /\ Stacked(t) /\ Len(t) = Len(s) /\ t # <<>> /\ t[Len(s)] = f
        /\ \A i \in 1..Len(s) : i # Len(s) => t[i] = s[i]
        /\ \A i \in 1..Len(s) : t[i].path = s[i].path
    BY ONLY <1>2, <2>1, <2>4, <2>41, StackSet
  <2>6. \A i \in 1..Len(s) : t[i].snapshot = s[i].snapshot /\ t[i].left \subseteq s[i].left
    BY <2>3, <2>5
  <2>7. ASSUME NEW i \in 1..Len(t)
        PROVE  /\ t[i] = [path |-> t[i].path, snapshot |-> t[i].snapshot, left |-> t[i].left]
               /\ i = 1 => t[i].snapshot = h
               /\ i # 1 => /\ t[i].snapshot = Under(t[i - 1].snapshot, t[i].path)
                           /\ Lists(t[i - 1].snapshot, t[i].path)
               /\ \A c \in t[i].left : Lists(t[i].snapshot, c)
    <3>1. /\ s[i] = [path |-> s[i].path, snapshot |-> s[i].snapshot, left |-> s[i].left]
          /\ i = 1 => s[i].snapshot = h
          /\ i # 1 => /\ s[i].snapshot = Under(s[i - 1].snapshot, s[i].path)
                      /\ Lists(s[i - 1].snapshot, s[i].path)
          /\ \A c \in s[i].left : Lists(s[i].snapshot, c)
      BY <2>5 DEF CheckoutCalls
    <3>2. i # 1 => t[i - 1].snapshot = s[i - 1].snapshot
      <4> SUFFICES ASSUME i # 1 PROVE t[i - 1].snapshot = s[i - 1].snapshot
        OBVIOUS
      <4>1. i - 1 \in 1..Len(s)
        BY <2>1, <2>12, <2>5
      <4>2. QED
        BY <2>6, <4>1
    <3>3. t[i] = [path |-> t[i].path, snapshot |-> t[i].snapshot, left |-> t[i].left]
      BY <2>3, <2>5, <3>1
    <3>4. t[i].path = s[i].path /\ t[i].snapshot = s[i].snapshot /\ t[i].left \subseteq s[i].left
      BY <2>5, <2>6
    <3>5. QED
      BY <3>1, <3>2, <3>3, <3>4
  <2>8. CheckoutCalls(t, h)
    BY <2>5, <2>7 DEF CheckoutCalls
  <2>9. t[Len(t)].left = s[n].left \ {p} /\ t[Len(t)].path = s[n].path
    BY <2>3, <2>5
  <2>10. Lists(s[n].snapshot, p)
    BY <2>1 DEF CheckoutCalls
  <2>11. QED
    BY <1>2, <2>1, <2>2, <2>5, <2>6, <2>8, <2>9, <2>10
<1>3. QED
  BY <1>1, <1>2

\* So does the call for a directory,
LEMMA CheckoutPushStack ==
    ASSUME NEW h, NEW t, CheckoutCalls(t, h), NEW p \in Path, NEW g,
           NEW left \in SUBSET Children(p), \A c \in left : Lists(g, c),
           IF t = <<>> THEN p = Top /\ g = h
           ELSE /\ p \in Children(t[Len(t)].path) \ t[Len(t)].left
                /\ g = Under(t[Len(t)].snapshot, p) /\ Lists(t[Len(t)].snapshot, p)
    PROVE  LET f == [path |-> p, snapshot |-> g, left |-> left]
               u == Append(t, f)
           IN  /\ CheckoutCalls(u, h) /\ Len(u) = Len(t) + 1 /\ u[Len(t) + 1] = f
               /\ \A i \in 1..Len(t) : u[i] = t[i]
<1> PICK f : f = [path |-> p, snapshot |-> g, left |-> left]
  OBVIOUS
<1> PICK u : u = Append(t, f)
  OBVIOUS
<1>1. /\ f.path = p /\ f.left = left /\ f.snapshot = g
      /\ f = [path |-> f.path, snapshot |-> f.snapshot, left |-> f.left]
  OBVIOUS
<1>2. Stacked(t) /\ Len(t) \in Nat /\ (t = <<>> <=> Len(t) = 0)
  BY StackLength DEF CheckoutCalls
<1>3. /\ Stacked(u) /\ Len(u) = Len(t) + 1 /\ u[Len(t) + 1] = f
      /\ \A i \in 1..Len(t) : u[i] = t[i]
  BY <1>1, <1>2, StackPush
<1>4. ASSUME NEW i \in 1..Len(u)
      PROVE  /\ u[i] = [path |-> u[i].path, snapshot |-> u[i].snapshot, left |-> u[i].left]
             /\ i = 1 => u[i].snapshot = h
             /\ i # 1 => /\ u[i].snapshot = Under(u[i - 1].snapshot, u[i].path)
                         /\ Lists(u[i - 1].snapshot, u[i].path)
             /\ \A c \in u[i].left : Lists(u[i].snapshot, c)
  <2>1. i \in 1..Len(t) \/ i = Len(t) + 1
    BY <1>2, <1>3
  <2>2. CASE i \in 1..Len(t)
    <3>1. u[i] = t[i]
      BY <1>3, <2>2
    <3>2. i # 1 => u[i - 1] = t[i - 1]
      <4> SUFFICES ASSUME i # 1 PROVE u[i - 1] = t[i - 1]
        OBVIOUS
      <4>1. i - 1 \in 1..Len(t)
        BY <1>2, <2>2
      <4>2. QED
        BY <1>3, <4>1
    <3>3. /\ t[i] = [path |-> t[i].path, snapshot |-> t[i].snapshot, left |-> t[i].left]
          /\ i = 1 => t[i].snapshot = h
          /\ i # 1 => /\ t[i].snapshot = Under(t[i - 1].snapshot, t[i].path)
                      /\ Lists(t[i - 1].snapshot, t[i].path)
          /\ \A c \in t[i].left : Lists(t[i].snapshot, c)
      BY <2>2 DEF CheckoutCalls
    <3>4. QED
      BY <3>1, <3>2, <3>3
  <2>3. CASE i = Len(t) + 1
    <3>1. u[i] = f
      BY <1>3, <2>3
    <3>2. i = 1 => g = h
      BY <1>2, <2>3
    <3>3. i # 1 => u[i - 1] = t[Len(t)] /\ t # <<>>
      <4> SUFFICES ASSUME i # 1 PROVE u[i - 1] = t[Len(t)] /\ t # <<>>
        OBVIOUS
      <4>1. Len(t) \in 1..Len(t) /\ i - 1 = Len(t)
        BY <1>2, <2>3
      <4>2. QED
        BY <1>2, <1>3, <4>1
    <3>4. QED
      BY <1>1, <3>1, <3>2, <3>3
  <2>4. QED
    BY <2>1, <2>2, <2>3
<1>5. QED
  BY <1>3, <1>4 DEF CheckoutCalls

\* and the return from it.
LEMMA CheckoutPopStack ==
    ASSUME NEW h, NEW s, CheckoutCalls(s, h), s # <<>>
    PROVE  LET t == Front(s)
           IN  /\ CheckoutCalls(t, h) /\ Len(t) = Len(s) - 1 /\ (t = <<>> <=> Len(s) = 1)
               /\ \A i \in 1..Len(t) : i \in 1..Len(s) /\ i # Len(s) /\ t[i] = s[i]
               /\ t = <<>> => s[Len(s)].path = Top /\ s[Len(s)].snapshot = h
               /\ t # <<>> => /\ s[Len(s)].path \in Children(t[Len(t)].path)
                              /\ s[Len(s)].path \notin t[Len(t)].left
                              /\ s[Len(s)].path # Top
                              /\ s[Len(s)].snapshot = Under(t[Len(t)].snapshot, s[Len(s)].path)
                              /\ Lists(t[Len(t)].snapshot, s[Len(s)].path)
<1> PICK t : t = Front(s)
  OBVIOUS
<1>1. Stacked(s) /\ Len(s) \in 1..Len(s) /\ Len(s) \in Nat
  BY StackLength DEF CheckoutCalls
<1>2. /\ Stacked(t) /\ Len(t) = Len(s) - 1
      /\ \A i \in 1..Len(t) : i \in 1..Len(s) /\ i # Len(s) /\ t[i] = s[i]
      /\ t = <<>> <=> Len(s) = 1
      /\ t # <<>> => s[Len(s)].path \in Children(t[Len(t)].path) \ t[Len(t)].left
  BY <1>1, StackPop
<1>3. s[Len(s)].path = Top <=> Len(s) = 1
  BY <1>1, FrameOfStack
<1>4. ASSUME NEW i \in 1..Len(t)
      PROVE  /\ t[i] = [path |-> t[i].path, snapshot |-> t[i].snapshot, left |-> t[i].left]
             /\ i = 1 => t[i].snapshot = h
             /\ i # 1 => /\ t[i].snapshot = Under(t[i - 1].snapshot, t[i].path)
                         /\ Lists(t[i - 1].snapshot, t[i].path)
             /\ \A c \in t[i].left : Lists(t[i].snapshot, c)
  <2>1. i \in 1..Len(s) /\ t[i] = s[i]
    BY <1>2
  <2>2. i # 1 => t[i - 1] = s[i - 1]
    <3> SUFFICES ASSUME i # 1 PROVE t[i - 1] = s[i - 1]
      OBVIOUS
    <3>1. i - 1 \in 1..Len(t)
      BY <1>1, <1>2
    <3>2. QED
      BY <1>2, <3>1
  <2>3. /\ s[i] = [path |-> s[i].path, snapshot |-> s[i].snapshot, left |-> s[i].left]
        /\ i = 1 => s[i].snapshot = h
        /\ i # 1 => /\ s[i].snapshot = Under(s[i - 1].snapshot, s[i].path)
                    /\ Lists(s[i - 1].snapshot, s[i].path)
        /\ \A c \in s[i].left : Lists(s[i].snapshot, c)
    BY <2>1 DEF CheckoutCalls
  <2>4. QED
    BY <2>1, <2>2, <2>3
<1>5. CheckoutCalls(t, h)
  BY <1>2, <1>4 DEF CheckoutCalls
<1>6. t = <<>> => s[Len(s)].snapshot = h
  BY <1>1, <1>2 DEF CheckoutCalls
<1>7. t # <<>> => /\ s[Len(s)].snapshot = Under(t[Len(t)].snapshot, s[Len(s)].path)
                  /\ Lists(t[Len(t)].snapshot, s[Len(s)].path)
  <2> SUFFICES ASSUME t # <<>>
               PROVE  /\ s[Len(s)].snapshot = Under(t[Len(t)].snapshot, s[Len(s)].path)
                      /\ Lists(t[Len(t)].snapshot, s[Len(s)].path)
    OBVIOUS
  <2>1. Len(s) # 1 /\ Len(t) \in 1..Len(t)
    BY <1>1, <1>2
  <2>2. t[Len(t)] = s[Len(s) - 1]
    BY <1>2, <2>1
  <2>3. /\ s[Len(s)].snapshot = Under(s[Len(s) - 1].snapshot, s[Len(s)].path)
        /\ Lists(s[Len(s) - 1].snapshot, s[Len(s)].path)
    BY <1>1, <2>1 DEF CheckoutCalls
  <2>4. QED
    BY <2>2, <2>3
<1>8. QED
  BY <1>2, <1>3, <1>5, <1>6, <1>7

\* The entry that Checkout looks up is what the snapshot says of the path.
LEMMA ChildIs ==
    ASSUME NEW h, NEW p
    PROVE  Child(h, Last(p)) = Under(h, p)
<1>1. Last(<<Last(p)>>) = Last(p)
  BY DEF Last
<1>2. QED
  BY <1>1 DEF Child, Under, Lists

\* A frame of Checkout with other entries left to do.
LEMMA FrameLeftToDo ==
    ASSUME NEW f, NEW l, f = [path |-> f.path, snapshot |-> f.snapshot, left |-> f.left]
    PROVE  [f EXCEPT !.left = l] = [path |-> f.path, snapshot |-> f.snapshot, left |-> l]
OBVIOUS

\* What a step of Checkout does: it is at the snapshot g of the path p.
CheckoutFailsOf == /\ command' = Idle /\ outcome' = "failed" /\ interrupted' = TRUE
                   /\ UNCHANGED <<files, paths>>
CheckoutDirectoryEntryOf(h, t, p, g) ==
    /\ g.kind = "dir" /\ UNCHANGED <<interrupted, paths, outcome>>
    /\ ~Unmakeable(p)
    /\ files' = RecreateDir(WithDirectories(p), p, g)
    /\ command' = Checkout(h, Append(t, [path |-> p, snapshot |-> g,
                       left |-> {c \in Children(p) : Lists(g, c) /\ ~Excluded(c)}]))
CheckoutFileOf(h, t, p, g) ==
    /\ g.kind # "dir" /\ UNCHANGED interrupted
    /\ ~Unmakeable(p)
    /\ files' \in Recreations(WithDirectories(p), p, g)
    /\ paths' = StoreSnapshot(paths, p, g)
    /\ IF t = <<>> THEN command' = Idle /\ outcome' = "ok"
       ELSE command' = Checkout(h, t) /\ UNCHANGED outcome

CheckoutEntryOf(h, s, t, p, g) ==
    /\ command = Checkout(h, s) /\ CheckoutCalls(s, h) /\ EntryOf(s, p)
    /\ t = CheckoutTaken(s, p)
    /\ g = IF s = <<>> THEN h ELSE Under(s[Len(s)].snapshot, p)
    /\ UNCHANGED <<absent, lost, edited, taken, counters>>
    /\ CheckoutFailsOf \/ CheckoutDirectoryEntryOf(h, t, p, g) \/ CheckoutFileOf(h, t, p, g)

\* CheckoutEntry does one of these things.
LEMMA CheckoutEntryIs ==
    ASSUME CommandInv, NEW p \in Path, CheckoutEntry(p)
    PROVE  \E h, s, t, g : CheckoutEntryOf(h, s, t, p, g)
<1>1. command.pc = "checkout"
  BY DEF CheckoutEntry
<1>2. PICK h, s : command = Checkout(h, s) /\ CheckoutCalls(s, h)
  BY <1>1, CommandCases
<1>3. /\ Calls = s /\ Frame = s[Len(s)] /\ command.snapshot = h
      /\ \A u : [command EXCEPT !.stack = u] = Checkout(h, u)
  BY <1>2 DEF Checkout, Calls, Frame, Last
<1>4. EntryOf(s, p)
  BY <1>3 DEF CheckoutEntry, AtEntry, EntryOf
<1> PICK t : t = CheckoutTaken(s, p)
  OBVIOUS
<1> PICK g : g = IF s = <<>> THEN h ELSE Under(s[Len(s)].snapshot, p)
  OBVIOUS
<1>5. t = IF Calls = <<>> THEN Calls ELSE [Calls EXCEPT ![Len(Calls)].left = @ \ {p}]
  <2>1. CASE s = <<>>
    BY <1>3, <2>1 DEF CheckoutTaken
  <2>2. CASE s # <<>>
    <3> PICK n : n = Len(s)
      OBVIOUS
    <3>1. n \in 1..Len(s)
      BY <1>2, <2>2, StackLength DEF CheckoutCalls
    <3>2. s[n] = [path |-> s[n].path, snapshot |-> s[n].snapshot, left |-> s[n].left]
      BY <1>2, <3>1 DEF CheckoutCalls
    <3> PICK left : left = s[n].left \ {p}
      OBVIOUS
    <3>3. [s[n] EXCEPT !.left = left]
            = [path |-> s[n].path, snapshot |-> s[n].snapshot, left |-> left]
      BY ONLY <3>2, FrameLeftToDo
    <3>4. [s EXCEPT ![Len(s)].left = @ \ {p}] = [s EXCEPT ![n] = [s[n] EXCEPT !.left = left]]
      OBVIOUS
    <3>5. [s EXCEPT ![Len(s)].left = @ \ {p}] = t
      BY <2>2, <3>3, <3>4 DEF CheckoutTaken
    <3>6. QED
      BY <1>3, <2>2, <3>5
  <2>3. QED
    BY <2>1, <2>2
<1>6. g = SnapshotAt(p)
  BY <1>3, ChildIs DEF SnapshotAt
<1>7. UNCHANGED <<absent, lost, edited, taken, counters>>
  BY DEF CheckoutEntry
<1>8. CheckoutFailsOf \/ CheckoutDirectoryEntryOf(h, t, p, g) \/ CheckoutFileOf(h, t, p, g)
  <2>1. (g \in absent \/ lost \/ Unmakeable(p)) => CheckoutFailsOf
    BY <1>5, <1>6 DEF CheckoutEntry, CheckoutFails, Finish, CheckoutFailsOf
  <2>2. ASSUME ~(g \in absent \/ lost \/ Unmakeable(p)), g.kind = "dir"
        PROVE  CheckoutDirectoryEntryOf(h, t, p, g)
    <3>1. /\ UNCHANGED <<interrupted, paths, outcome>>
          /\ files' = RecreateDir(WithDirectories(p), p, g)
          /\ command' = [command EXCEPT !.stack = Append(t, [path |-> p, snapshot |-> g,
                         left |-> {c \in Children(p) : Lists(g, c) /\ ~Excluded(c)}])]
      BY <1>5, <1>6, <2>2 DEF CheckoutEntry
    <3>2. QED
      BY <1>3, <2>2, <3>1 DEF CheckoutDirectoryEntryOf
  <2>3. ASSUME ~(g \in absent \/ lost \/ Unmakeable(p)), g.kind # "dir"
        PROVE  CheckoutFileOf(h, t, p, g)
    <3>1. /\ UNCHANGED interrupted
          /\ files' \in Recreations(WithDirectories(p), p, g)
          /\ paths' = StoreSnapshot(paths, p, g)
          /\ IF t = <<>> THEN Finish("ok")
             ELSE command' = [command EXCEPT !.stack = t] /\ UNCHANGED outcome
      BY <1>5, <1>6, <2>3 DEF CheckoutEntry
    <3>2. QED
      BY <1>3, <2>3, <3>1 DEF CheckoutFileOf, Finish
  <2>4. QED
    BY <2>1, <2>2, <2>3
<1>9. CheckoutEntryOf(h, s, t, p, g)
  BY <1>2, <1>4, <1>7, <1>8 DEF CheckoutEntryOf
<1>10. QED
  BY <1>9

CheckoutDirectoryOf(h, s) ==
    /\ command = Checkout(h, s) /\ CheckoutCalls(s, h) /\ s # <<>> /\ s[Len(s)].left = {}
    /\ paths' = StoreSnapshot(paths, s[Len(s)].path, s[Len(s)].snapshot)
    /\ IF Len(s) = 1 THEN command' = Idle /\ outcome' = "ok"
       ELSE command' = Checkout(h, Front(s)) /\ UNCHANGED outcome
    /\ UNCHANGED <<files, absent, lost, edited, interrupted, taken, counters>>

\* What the end of a directory in Checkout does.
LEMMA CheckoutDirectoryIs ==
    ASSUME CommandInv, CheckoutDirectory
    PROVE  \E h, s : CheckoutDirectoryOf(h, s)
<1>1. command.pc = "checkout" /\ Calls # <<>> /\ Frame.left = {}
  BY DEF CheckoutDirectory
<1>2. PICK h, s : command = Checkout(h, s) /\ CheckoutCalls(s, h)
  BY <1>1, CommandCases
<1>3. /\ Calls = s /\ Frame = s[Len(s)]
      /\ \A u : [command EXCEPT !.stack = u] = Checkout(h, u)
  BY <1>2 DEF Checkout, Calls, Frame, Last
<1>4. CheckoutDirectoryOf(h, s)
  BY <1>1, <1>2, <1>3 DEF CheckoutDirectory, CheckoutDirectoryOf, Finish
<1>5. QED
  BY <1>4

\* What the merge of a command does.
MergeOf(src, prev, base, helper, m) ==
    /\ command = Merging(src, prev)
    /\ base \in Bases(src, prev) /\ helper \in Data \cup {Failed}
    /\ \/ command' = Idle /\ outcome' \in {"ok", "refused"}
       \/ /\ base # Failed /\ base # src
          /\ IsMerge(base, src, prev, helper, m)
          /\ command' = Removing(src, prev, base, m[Top], helper)
          /\ UNCHANGED outcome
    /\ UNCHANGED <<files, paths, absent, lost, edited, interrupted, taken, counters>>

\* MergeSnapshots does that.
LEMMA MergeIs ==
    ASSUME CommandInv, MergeSnapshots
    PROVE  \E src \in Sources \ {None} : \E prev, base, helper, m : MergeOf(src, prev, base, helper, m)
<1>1. command.pc = "merge"
  BY DEF MergeSnapshots
<1>2. PICK src \in Sources \ {None} : \E prev : command = Merging(src, prev)
  BY <1>1, CommandCases
<1>3. PICK prev : command = Merging(src, prev)
  BY <1>2
<1>4. command.src = src /\ command.prev = prev
  BY <1>3 DEF Merging
<1>5. PICK base \in Bases(src, prev), helper \in Data \cup {Failed} :
         LET merged == Merged(base, src, prev, helper)
         IN  IF base = Failed THEN Finish("refused")
             ELSE IF base = src THEN Finish("ok")
             ELSE IF merged = Failed THEN Finish("refused")
             ELSE /\ command' = [pc |-> "remove", src |-> src, prev |-> prev,
                                 base |-> base, merged |-> merged, helper |-> helper]
                  /\ UNCHANGED outcome
  BY <1>4 DEF MergeSnapshots
<1>6. UNCHANGED <<files, paths, absent, lost, edited, interrupted, taken, counters>>
  BY DEF MergeSnapshots
<1>7. PICK m : /\ Merged(base, src, prev, helper) = m[Top]
                 /\ \A q \in Path :
                       m[q] = MergedEntry(q, At(base, q), At(src, q), At(prev, q), helper, m)
  BY MergedSolves
<1>8. m[Top] # Failed => IsMerge(base, src, prev, helper, m)
  <2>1. m[Top] # Failed => Merges(base, src, prev, helper, m)
    BY <1>7 DEF Merges
  <2>2. QED
    BY <2>1, MergesIsMerge
<1>9. MergeOf(src, prev, base, helper, m)
  BY <1>3, <1>5, <1>6, <1>7, <1>8 DEF MergeOf, Finish, Removing
<1>10. QED
  BY <1>9

\* RemoveTree goes on to check out the merge.
LEMMA RemoveTreeIs ==
    ASSUME CommandInv, RemoveTree
    PROVE  \E src \in Sources \ {None} : \E prev, base, helper, m :
              /\ command = Removing(src, prev, base, m[Top], helper)
              /\ IsMerge(base, src, prev, helper, m)
              /\ command' = Checkout(m[Top], <<>>)
<1>1. command.pc = "remove"
  BY DEF RemoveTree
<1>2. PICK src \in Sources \ {None} : \E prev, base, helper, m :
          command = Removing(src, prev, base, m[Top], helper) /\ IsMerge(base, src, prev, helper, m)
  BY <1>1, CommandCases
<1>3. PICK prev, base, helper, m :
          command = Removing(src, prev, base, m[Top], helper) /\ IsMerge(base, src, prev, helper, m)
  BY <1>2
<1>4. command' = Checkout(m[Top], <<>>)
  BY <1>3 DEF RemoveTree, Removing, Checkout
<1>5. QED
  BY <1>3, <1>4

\* A command that ends amid its writes.
FailsOf ==
    /\ command' = Idle /\ outcome' = "failed" /\ interrupted' = TRUE
    /\ UNCHANGED <<lost, edited, taken>>

\* One that cannot look up a snapshot leaves all as it is.
LEMMA CurrentFailsIs ==
    ASSUME NEW p, CurrentFails(p)
    PROVE  FailsOf /\ UNCHANGED <<files, paths, absent>>
BY DEF CurrentFails, FailsOf, Finish

\* One that dies in StoreSnapshot, of p and h, may have written a file.
DieAt(p) == DieInCurrent(p) \/ DieInCheckoutEntry(p) \/ DieInCheckoutDirectory(p)

DiesTaking(p, h) ==
    /\ command.pc = "current" /\ UNCHANGED files
    /\ paths.latest[p] # Blank
    /\ \E kind, mode, contents : h = SnapshotOf(p, kind, mode, contents)

DiesCheckingOut(p, h) ==
    /\ command.pc = "checkout"
    /\ p = Top => h = command.snapshot
    /\ \/ UNCHANGED files
       \/ /\ ~lost /\ ~Unmakeable(p) /\ files' \in Recreations(WithDirectories(p), p, h)
          /\ \E s : command = Checkout(command.snapshot, s) /\ CheckoutCalls(s, command.snapshot)
                   /\ EntryOf(s, p)
                   /\ h = IF s = <<>> THEN command.snapshot ELSE Under(s[Len(s)].snapshot, p)

LEMMA DieAtIs ==
    ASSUME CommandInv, NEW p \in Path, DieAt(p)
    PROVE  /\ FailsOf
           /\ \E h : paths' \in CutShort(paths, p, h) /\ (DiesTaking(p, h) \/ DiesCheckingOut(p, h))
<1>1. ASSUME NEW h, NEW fs, DieStoring(p, h, fs)
      PROVE  FailsOf /\ files' = fs /\ paths' \in CutShort(paths, p, h)
  BY <1>1 DEF DieStoring, FailsOf, Finish
<1>2. CASE DieInCurrent(p)
  <2> PICK h : h = NewSnapshot(p)
    OBVIOUS
  <2>1. /\ DieStoring(p, h, files) /\ command.pc = "current" /\ paths.latest[p] # Blank
    BY <1>2 DEF DieInCurrent, LooksUp
  <2>2. \E kind, mode, contents : h = SnapshotOf(p, kind, mode, contents)
    BY DEF NewSnapshot
  <2>3. QED
    BY <1>1, <2>1, <2>2 DEF DiesTaking
<1>3. ASSUME command.pc = "checkout"
      PROVE  \E h, s : /\ command = Checkout(h, s) /\ CheckoutCalls(s, h)
                       /\ command.snapshot = h /\ Calls = s /\ Frame = s[Len(s)]
  <2>1. PICK h, s : command = Checkout(h, s) /\ CheckoutCalls(s, h)
    BY <1>3, CommandCases
  <2>2. command.snapshot = h /\ Calls = s /\ Frame = s[Len(s)]
    BY <2>1 DEF Checkout, Calls, Frame, Last
  <2>3. QED
    BY <2>1, <2>2
<1>4. CASE DieInCheckoutEntry(p)
  <2> PICK g : g = SnapshotAt(p)
    OBVIOUS
  <2>1. /\ command.pc = "checkout" /\ AtEntry(p) /\ ~lost /\ ~Unmakeable(p)
        /\ \E fs \in Recreations(WithDirectories(p), p, g) : DieStoring(p, g, fs)
    BY <1>4 DEF DieInCheckoutEntry
  <2>2. PICK h, s : /\ command = Checkout(h, s) /\ CheckoutCalls(s, h)
                    /\ command.snapshot = h /\ Calls = s /\ Frame = s[Len(s)]
    BY <1>3, <2>1
  <2>3. /\ EntryOf(s, p)
        /\ g = IF s = <<>> THEN h ELSE Under(s[Len(s)].snapshot, p)
    BY <2>1, <2>2, ChildIs DEF AtEntry, EntryOf, SnapshotAt
  <2>4. p = Top => s = <<>>
    BY <2>2, <2>3, CheckoutTakenStack
  <2>5. DiesCheckingOut(p, g)
    BY <1>1, <2>1, <2>2, <2>3, <2>4 DEF DiesCheckingOut
  <2>6. QED
    BY <1>1, <2>1, <2>5
<1>5. CASE DieInCheckoutDirectory(p)
  <2>1. command.pc = "checkout" /\ AtEnd(p) /\ DieStoring(p, Frame.snapshot, files)
    BY <1>5 DEF DieInCheckoutDirectory
  <2>2. PICK h, s : /\ command = Checkout(h, s) /\ CheckoutCalls(s, h)
                    /\ command.snapshot = h /\ Calls = s /\ Frame = s[Len(s)]
    BY <1>3, <2>1
  <2>3. s # <<>> /\ p = s[Len(s)].path
    BY <2>1, <2>2 DEF AtEnd
  <2>4. p = Top => s[Len(s)].snapshot = h
    BY <2>2, <2>3, CheckoutPopStack
  <2>5. DiesCheckingOut(p, Frame.snapshot)
    BY <1>1, <2>1, <2>2, <2>4 DEF DiesCheckingOut
  <2>6. QED
    BY <1>1, <2>1, <2>5
<1>6. QED
  BY <1>2, <1>4, <1>5 DEF DieAt

\* Without calls, there is nothing to say of their frames.
LEMMA NoCalls ==
    CurrentCalls(<<>>) /\ \A h : CheckoutCalls(<<>>, h)
<1>1. 1..0 = {}
  OBVIOUS
<1>2. QED
  BY <1>1, EmptyStack DEF CurrentCalls, CheckoutCalls

\* Returning a snapshot leaves the command well-formed.
LEMMA ReturnsKeepsCommand ==
    ASSUME NEW src \in Sources \cup {None}, NEW t, CurrentCalls(t), NEW p, NEW h,
           Returns(src, t, p, h)
    PROVE  CommandInv'
<1>1. CASE t # <<>>
  <2>1. CurrentCalls(WithFound(t, p, h))
    BY <1>1, WithFoundStack
  <2>2. command' = Current(src, WithFound(t, p, h))
    BY <1>1 DEF Returns
  <2>3. QED
    BY <2>1, <2>2 DEF CommandInv, WellFormed
<1>2. CASE t = <<>> /\ src = None
  BY <1>2 DEF Returns, CommandInv, WellFormed
<1>3. CASE t = <<>> /\ src # None /\ h = None
  BY <1>3, NoCalls DEF Returns, CommandInv, WellFormed
<1>4. CASE t = <<>> /\ src # None /\ h # None
  BY <1>4 DEF Returns, CommandInv, WellFormed
<1>5. QED
  BY <1>1, <1>2, <1>3, <1>4

\* What a command keeps in memory stays well-formed.
LEMMA CommandStep ==
    ASSUME CommandInv, [Next]_vars
    PROVE  CommandInv'
<1>1. CASE UNCHANGED command
  BY ONLY CommandInv, <1>1 DEF CommandInv, WellFormed
<1>2. ASSUME NEW src \in Sources \cup {None}, Begin(src)
      PROVE  CommandInv'
  <2>1. command' = Current(src, <<>>)
    BY <1>2 DEF Begin, Current
  <2>2. QED
    BY <2>1, NoCalls DEF CommandInv, WellFormed
<1>3. ASSUME NEW p \in Path, CurrentEntry(p)
      PROVE  CommandInv'
  <2>1. PICK src \in Sources \cup {None} : \E s, t : CurrentEntryOf(src, s, t, p)
    BY <1>3, CurrentEntryIs
  <2>2. PICK s, t : CurrentEntryOf(src, s, t, p)
    BY <2>1
  <2>3. CurrentCalls(t) /\ (t = <<>> => p = Top)
        /\ (t # <<>> => p \in Children(t[Len(t)].path) \ t[Len(t)].left)
    BY <2>2, CurrentTakenStack DEF CurrentEntryOf
  <2>4. CASE \E h : Returns(src, t, p, h)
    BY <2>3, <2>4, ReturnsKeepsCommand
  <2>5. CASE CurrentDirectoryEntryOf(src, t, p)
    <3> PICK m : m = files[p].mode
      OBVIOUS
    <3> PICK left : left = {c \in Children(p) : files[c] # None}
      OBVIOUS
    <3> PICK u : u = Append(t, [path |-> p, mode |-> m, found |-> <<>>, left |-> left])
      OBVIOUS
    <3>1. left \in SUBSET Children(p)
      OBVIOUS
    <3>2. CurrentCalls(u)
      BY <2>3, <3>1, CurrentPushStack
    <3>3. command' = Current(src, u)
      BY <2>5 DEF CurrentDirectoryEntryOf
    <3>4. QED
      BY <3>2, <3>3 DEF CommandInv, WellFormed
  <2>6. QED
    BY <2>2, <2>4, <2>5 DEF CurrentEntryOf, CurrentNothingOf, CurrentFileOf
<1>4. CASE CurrentDirectory
  <2>1. PICK src \in Sources \cup {None} : \E p \in Path : \E s, h : CurrentDirectoryOf(src, s, p, h)
    BY <1>4, CurrentDirectoryIs
  <2>2. PICK p, s, h : CurrentDirectoryOf(src, s, p, h)
    BY <2>1
  <2>3. CurrentCalls(Front(s)) /\ Returns(src, Front(s), p, h)
    BY <2>2, CurrentPopStack DEF CurrentDirectoryOf
  <2>4. QED
    BY <2>3, ReturnsKeepsCommand
<1>5. CASE MergeSnapshots
  <2>1. PICK src \in Sources \ {None} : \E prev, base, helper, m : MergeOf(src, prev, base, helper, m)
    BY <1>5, MergeIs
  <2>2. PICK prev, base, helper, m : MergeOf(src, prev, base, helper, m)
    BY <2>1
  <2>3. CASE command' = Idle
    BY <2>3 DEF CommandInv, WellFormed
  <2>4. CASE /\ IsMerge(base, src, prev, helper, m)
             /\ command' = Removing(src, prev, base, m[Top], helper)
    BY <2>4 DEF CommandInv, WellFormed
  <2>5. QED
    BY <2>2, <2>3, <2>4 DEF MergeOf
<1>6. CASE RemoveTree
  <2>1. \E h : command' = Checkout(h, <<>>)
    BY <1>6, RemoveTreeIs
  <2>2. QED
    BY <2>1, NoCalls DEF CommandInv, WellFormed
<1>7. ASSUME NEW p \in Path, CheckoutEntry(p)
      PROVE  CommandInv'
  <2>1. PICK h, s, t, g : CheckoutEntryOf(h, s, t, p, g)
    BY <1>7, CheckoutEntryIs
  <2>2. /\ CheckoutCalls(s, h) /\ EntryOf(s, p) /\ t = CheckoutTaken(s, p)
        /\ g = IF s = <<>> THEN h ELSE Under(s[Len(s)].snapshot, p)
    BY <2>1 DEF CheckoutEntryOf
  <2>3. /\ CheckoutCalls(t, h) /\ (t = <<>> <=> s = <<>>) /\ (t = <<>> => p = Top)
        /\ Len(t) = Len(s)
        /\ t # <<>> => /\ p \in Children(t[Len(t)].path) \ t[Len(t)].left
                       /\ Lists(s[Len(s)].snapshot, p)
        /\ \A i \in 1..Len(s) : t[i].snapshot = s[i].snapshot
    BY <2>2, CheckoutTakenStack
  <2>4. CASE CheckoutFailsOf
    BY <2>4 DEF CheckoutFailsOf, CommandInv, WellFormed
  <2>5. CASE CheckoutFileOf(h, t, p, g)
    BY <2>3, <2>5 DEF CheckoutFileOf, CommandInv, WellFormed
  <2>6. CASE CheckoutDirectoryEntryOf(h, t, p, g)
    <3> PICK left : left = {c \in Children(p) : Lists(g, c) /\ ~Excluded(c)}
      OBVIOUS
    <3> PICK u : u = Append(t, [path |-> p, snapshot |-> g, left |-> left])
      OBVIOUS
    <3>1. left \in SUBSET Children(p) /\ \A c \in left : Lists(g, c)
      OBVIOUS
    <3>2. t # <<>> => t[Len(t)].snapshot = s[Len(s)].snapshot
      <4>1. s # <<>> => Len(s) \in 1..Len(s)
        BY <2>2, StackLength DEF CheckoutCalls
      <4>2. QED
        BY <2>3, <4>1
    <3>3. IF t = <<>> THEN p = Top /\ g = h
          ELSE /\ p \in Children(t[Len(t)].path) \ t[Len(t)].left
               /\ g = Under(t[Len(t)].snapshot, p) /\ Lists(t[Len(t)].snapshot, p)
      BY <2>2, <2>3, <3>2
    <3>4. CheckoutCalls(u, h)
      BY <2>3, <3>1, <3>3, CheckoutPushStack
    <3>5. command' = Checkout(h, u)
      BY <2>6 DEF CheckoutDirectoryEntryOf
    <3>6. QED
      BY <3>4, <3>5 DEF CommandInv, WellFormed
  <2>7. QED
    BY <2>1, <2>4, <2>5, <2>6 DEF CheckoutEntryOf
<1>8. CASE CheckoutDirectory
  <2>1. PICK h, s : CheckoutDirectoryOf(h, s)
    BY <1>8, CheckoutDirectoryIs
  <2>2. CheckoutCalls(Front(s), h)
    BY <2>1, CheckoutPopStack DEF CheckoutDirectoryOf
  <2>3. QED
    BY <2>1, <2>2 DEF CheckoutDirectoryOf, CommandInv, WellFormed
<1>9. CASE Die \/ \E p \in Path : CurrentFails(p) \/ DieAt(p)
  <2>1. command' = Idle
    BY <1>9, CurrentFailsIs, DieAtIs DEF Die, Finish, FailsOf
  <2>2. QED
    BY <2>1 DEF CommandInv, WellFormed
<1>10. User => UNCHANGED command
  BY DEF User, Write, Delete, Chmod, Edit
<1>11. UNCHANGED vars => UNCHANGED command
  BY DEF vars
<1>12. QED
  BY <1>1, <1>2, <1>3, <1>4, <1>5, <1>6, <1>7, <1>8, <1>9, <1>10, <1>11
     DEF Next, Command, DieAt

\* What a command keeps in memory is always well-formed: the frames are those
\* of the directories on the way to the entry at hand, and what is about to be
\* checked out is the merge of the sides it was made from.
THEOREM CommandInvariance == Spec => []CommandInv
<1>1. Init => CommandInv
  BY DEF Init, CommandInv, WellFormed
<1>2. CommandInv /\ [Next]_vars => CommandInv'
  BY CommandStep
<1>3. QED
  BY <1>1, <1>2, PTL DEF Spec

\* mergeWithBase merges path by path.
THEOREM MergesPathByPath ==
    ASSUME NoneIsNoSnapshot
    PROVE  Spec => []MergeIsThreeWay
<1>1. CommandInv => MergeIsThreeWay
  <2> SUFFICES ASSUME CommandInv, command.pc = "remove", NEW p \in Path
               PROVE  Leaf(command.merged, p) \in
                         ThreeWay(Leaf(command.base, p), Leaf(command.src, p),
                                  Leaf(command.prev, p), command.helper)
    BY DEF MergeIsThreeWay
  <2>1. PICK src \in Sources \ {None} : \E prev, base, helper, m :
          command = Removing(src, prev, base, m[Top], helper) /\ IsMerge(base, src, prev, helper, m)
    BY CommandCases
  <2>2. PICK prev, base, helper, m :
          command = Removing(src, prev, base, m[Top], helper) /\ IsMerge(base, src, prev, helper, m)
    BY <2>1
  <2>5. Leaf(m[Top], p) \in ThreeWay(Leaf(base, p), Leaf(src, p), Leaf(prev, p), helper)
    BY <2>2, MergesThreeWay
  <2>6. /\ command.merged = m[Top] /\ command.base = base /\ command.src = src
        /\ command.prev = prev /\ command.helper = helper
    BY <2>2 DEF Removing
  <2>7. QED
    BY <2>5, <2>6
<1>2. QED
  BY <1>1, CommandInvariance, PTL

\* Solutions for different generations agree on those they share.
LEMMA GenerationsAgree ==
    ASSUME NEW h, NEW n \in Nat, NEW m \in Nat, NEW f, NEW g,
           GenerationsTo(h, n, f), GenerationsTo(h, m, g)
    PROVE  \A k \in Nat : k <= n /\ k <= m => f[k] = g[k]
<1> DEFINE S == {k \in Nat : k <= n /\ k <= m => f[k] = g[k]}
<1>1. \A k \in 0..n : f[k] = IF k = 0 THEN {h} ELSE UNION {Range(a.parents) : a \in f[k - 1]}
  BY DEF GenerationsTo
<1>2. \A k \in 0..m : g[k] = IF k = 0 THEN {h} ELSE UNION {Range(a.parents) : a \in g[k - 1]}
  BY DEF GenerationsTo
<1>3. 0 \in S
  <2>1. 0 \in 0..n /\ 0 \in 0..m
    OBVIOUS
  <2>2. f[0] = {h} /\ g[0] = {h}
    BY <1>1, <1>2, <2>1
  <2>3. QED
    BY <2>2
<1>4. ASSUME NEW k \in Nat, k \in S PROVE k + 1 \in S
  <2>1. ASSUME k + 1 <= n, k + 1 <= m PROVE f[k + 1] = g[k + 1]
    <3>1. k + 1 \in 0..n /\ k + 1 \in 0..m /\ k + 1 # 0 /\ (k + 1) - 1 = k
      BY <2>1
    <3>2. f[k] = g[k]
      BY <1>4, <2>1
    <3>3. f[k + 1] = UNION {Range(a.parents) : a \in f[k]}
      BY <1>1, <3>1
    <3>4. g[k + 1] = UNION {Range(a.parents) : a \in g[k]}
      BY <1>2, <3>1
    <3>5. QED
      BY <3>2, <3>3, <3>4
  <2>2. QED
    BY <2>1
<1> HIDE DEF S
<1>5. Nat \subseteq S
  BY <1>3, <1>4, Numbers!SetInduction
<1>6. QED
  BY <1>5 DEF S

\* All generations.
IsGenerations(h, g) ==
    g = [n \in Nat |-> IF n = 0 THEN {h} ELSE UNION {Range(a.parents) : a \in g[n - 1]}]

\* There is one solution for all generations.
LEMMA AllGenerations ==
    ASSUME NEW h
    PROVE  \E g : IsGenerations(h, g)
<1> DEFINE To(n) == CHOOSE g : GenerationsTo(h, n, g)
<1>1. ASSUME NEW n \in Nat PROVE GenerationsTo(h, n, To(n))
  BY GenerationsExist
<1> HIDE DEF To
<1> PICK g : g = [n \in Nat |-> To(n)[n]]
  OBVIOUS
<1>2. ASSUME NEW n \in Nat, n # 0
      PROVE  To(n)[n - 1] = g[n - 1]
  <2>1. n - 1 \in Nat /\ n - 1 <= n
    BY <1>2
  <2>2. GenerationsTo(h, n, To(n)) /\ GenerationsTo(h, n - 1, To(n - 1))
    BY <1>1, <2>1
  <2>3. To(n)[n - 1] = To(n - 1)[n - 1]
    BY <2>1, <2>2, GenerationsAgree
  <2>4. QED
    BY <2>1, <2>3
<1>3. ASSUME NEW n \in Nat
      PROVE  To(n)[n] = IF n = 0 THEN {h} ELSE UNION {Range(a.parents) : a \in g[n - 1]}
  <2>1. n \in 0..n /\ GenerationsTo(h, n, To(n))
    BY <1>1
  <2>2. To(n)[n] = IF n = 0 THEN {h} ELSE UNION {Range(a.parents) : a \in To(n)[n - 1]}
    BY <2>1 DEF GenerationsTo
  <2>3. QED
    BY <1>2, <2>2
<1>4. g = [n \in Nat |-> IF n = 0 THEN {h} ELSE UNION {Range(a.parents) : a \in g[n - 1]}]
  BY <1>3
<1>5. QED
  BY <1>4 DEF IsGenerations

\* The ancestors are those of all generations.
LEMMA AncestorsAre ==
    ASSUME NEW h, Generations = Nat
    PROVE  \E g : /\ g[0] = {h}
                  /\ \A n \in Nat : g[n + 1] = UNION {Range(a.parents) : a \in g[n]}
                  /\ Ancestors(h) = UNION {g[n] : n \in Nat}
<1> DEFINE g == CHOOSE g : g = [n \in Nat |->
                    IF n = 0 THEN {h} ELSE UNION {Range(a.parents) : a \in g[n - 1]}]
<1>1. \E f : f = [n \in Nat |->
                    IF n = 0 THEN {h} ELSE UNION {Range(a.parents) : a \in f[n - 1]}]
  BY AllGenerations DEF IsGenerations
<1>2. g = [n \in Nat |->
              IF n = 0 THEN {h} ELSE UNION {Range(a.parents) : a \in g[n - 1]}]
  BY <1>1
<1>3. Ancestors(h) = UNION {g[n] : n \in Generations}
  BY DEF Ancestors
<1> HIDE DEF g
<1>4. g[0] = {h}
  BY <1>2
<1>5. ASSUME NEW n \in Nat PROVE g[n + 1] = UNION {Range(a.parents) : a \in g[n]}
  <2>1. n + 1 \in Nat /\ n + 1 # 0 /\ (n + 1) - 1 = n
    OBVIOUS
  <2>2. QED
    BY <1>2, <2>1
<1>6. QED
  BY <1>3, <1>4, <1>5

\* The ancestors of a snapshot are the least set with the snapshot and the
\* parents of all of its elements.
LEMMA AncestorsClosed ==
    ASSUME NEW h, Generations = Nat
    PROVE  h \in Ancestors(h) /\ \A a \in Ancestors(h) : Range(a.parents) \subseteq Ancestors(h)
<1>1. PICK g : /\ g[0] = {h}
               /\ \A n \in Nat : g[n + 1] = UNION {Range(a.parents) : a \in g[n]}
               /\ Ancestors(h) = UNION {g[n] : n \in Nat}
  BY AncestorsAre
<1>2. h \in Ancestors(h)
  BY <1>1
<1>3. ASSUME NEW a \in Ancestors(h), NEW b \in Range(a.parents)
      PROVE  b \in Ancestors(h)
  <2>1. PICK n \in Nat : a \in g[n]
    BY <1>1
  <2>2. b \in g[n + 1] /\ n + 1 \in Nat
    BY <1>1, <1>3, <2>1
  <2>3. QED
    BY <1>1, <2>2
<1>4. QED
  BY <1>2, <1>3

\* They are the least such set.
LEMMA AncestorsLeast ==
    ASSUME NEW h, Generations = Nat, NEW S, h \in S, \A a \in S : Range(a.parents) \subseteq S
    PROVE  Ancestors(h) \subseteq S
<1>1. PICK g : /\ g[0] = {h}
               /\ \A n \in Nat : g[n + 1] = UNION {Range(a.parents) : a \in g[n]}
               /\ Ancestors(h) = UNION {g[n] : n \in Nat}
  BY AncestorsAre
<1> DEFINE N == {n \in Nat : g[n] \subseteq S}
<1>2. 0 \in N
  BY <1>1
<1>3. ASSUME NEW n \in Nat, n \in N PROVE n + 1 \in N
  BY <1>1, <1>3
<1> HIDE DEF N
<1>4. Nat \subseteq N
  BY <1>2, <1>3, Numbers!SetInduction
<1>5. \A n \in Nat : g[n] \subseteq S
  BY <1>4 DEF N
<1>6. QED
  BY <1>1, <1>5

\* The ancestors of an ancestor are ancestors.
LEMMA AncestorsTransitive ==
    ASSUME NEW h, NEW g, Generations = Nat, g \in Ancestors(h)
    PROVE  Ancestors(g) \subseteq Ancestors(h)
BY AncestorsClosed, AncestorsLeast

\* A new snapshot has all of the history of its parents.
LEMMA ParentIsAncestor ==
    ASSUME NEW h, NEW g, Generations = Nat, g \in Range(h.parents)
    PROVE  g \in Ancestors(h)
BY AncestorsClosed

-----------------------------------------------------------------------------
(***************************************************************************)
(* The path map.                                                           *)
(***************************************************************************)
IsMap(m) == m.latest = [q \in Path |-> m.latest[q]]

\* Being above is transitive.
LEMMA PrefixTransitive ==
    ASSUME NEW p \in Path, NEW q \in Path, NEW r \in Path, IsPrefix(p, q), IsPrefix(q, r)
    PROVE  IsPrefix(p, r)
<1>1. Len(p) \in Nat /\ Len(q) \in Nat /\ Len(r) \in Nat
  BY PathIsSeq
<1>2. Len(p) <= Len(q) /\ \A i \in 1..Len(p) : p[i] = q[i]
  BY IsPrefixIs
<1>3. Len(q) <= Len(r) /\ \A i \in 1..Len(q) : q[i] = r[i]
  BY IsPrefixIs
<1>4. Len(p) <= Len(r) /\ \A i \in 1..Len(p) : p[i] = r[i]
  BY <1>1, <1>2, <1>3
<1>5. QED
  BY <1>4, IsPrefixIs

\* What is below a child is below its directory.
LEMMA BelowChild ==
    ASSUME NEW p \in Path, NEW c \in Children(p), NEW r \in Below(c)
    PROVE  r \in Below(p) /\ r # p
<1>1. c \in Path /\ c # Top /\ Front(c) = p /\ Len(c) = Len(p) + 1
  BY ChildOfPath
<1>2. IsPrefix(p, c)
  BY <1>1, PrefixOfFront, PrefixFacts
<1>3. r \in Path /\ IsPrefix(c, r)
  BY DEF Below
<1>4. IsPrefix(p, r)
  BY <1>1, <1>2, <1>3, PrefixTransitive
<1>5. r # p
  <2>1. Len(c) <= Len(r)
    BY <1>1, <1>3, PrefixFacts
  <2>2. Len(p) \in Nat
    BY PathIsSeq
  <2>3. QED
    BY <1>1, <2>1, <2>2
<1>6. QED
  BY <1>3, <1>4, <1>5 DEF Below

\* StoreSnapshot changes the mapping of p, and forgets mappings below p.
LEMMA StoreSnapshotIs ==
    ASSUME NEW m, NEW p \in Path, NEW f, IsMap(m)
    PROVE  LET n == StoreSnapshot(m, p, f)
           IN  /\ IsMap(n) /\ n.latest[p] = f
               /\ \A q \in Path : q \notin Below(p) => n.latest[q] = m.latest[q]
               /\ \A q \in Path \ {p} : n.latest[q] = m.latest[q] \/ n.latest[q] = None
<1> PICK latest : latest = [m.latest EXCEPT ![p] = f]
  OBVIOUS
<1> PICK removed : removed = {q \in Children(p) \cap m.known : ~Lists(f, q)}
  OBVIOUS
<1> PICK forgotten : forgotten = UNION {Forgotten(latest, q) : q \in removed}
  OBVIOUS
<1> PICK n : n = StoreSnapshot(m, p, f)
  OBVIOUS
<1>1. n.latest = [q \in Path |-> IF q \in forgotten THEN None ELSE latest[q]]
  BY DEF StoreSnapshot, Forgetting, ForgottenBy, Removed
<1>2. \A q \in Path : latest[q] = IF q = p THEN f ELSE m.latest[q]
  BY DEF IsMap
<1>3. \A q \in forgotten : q \in Below(p) /\ q # p
  <2> SUFFICES ASSUME NEW q \in forgotten PROVE q \in Below(p) /\ q # p
    OBVIOUS
  <2>1. PICK c \in removed : q \in Forgotten(latest, c)
    OBVIOUS
  <2>2. q \in Below(c) /\ c \in Children(p)
    BY <2>1 DEF Forgotten
  <2>3. QED
    BY <2>2, BelowChild
<1>4. IsMap(n)
  BY <1>1 DEF IsMap
<1>5. n.latest[p] = f
  BY <1>1, <1>2, <1>3
<1>6. \A q \in Path \ {p} : n.latest[q] = IF q \in forgotten THEN None ELSE m.latest[q]
  BY <1>1, <1>2
<1>7. \A q \in Path : q \notin Below(p) => n.latest[q] = m.latest[q]
  <2> SUFFICES ASSUME NEW q \in Path, q \notin Below(p) PROVE n.latest[q] = m.latest[q]
    OBVIOUS
  <2>1. p \in Below(p)
    BY PrefixFacts DEF Below
  <2>2. q # p /\ q \notin forgotten
    BY <1>3, <2>1
  <2>3. QED
    BY <1>6, <2>2
<1>8. QED
  BY <1>4, <1>5, <1>6, <1>7

\* Only a snapshot of the whole tree changes the mapping of the whole tree.
LEMMA OnlyTopAtTop ==
    ASSUME NEW p \in Path
    PROVE  Top \in Path /\ (Top \in Below(p) => p = Top)
<1>1. Top \in Path
  BY PathAssumption DEF Top
<1>2. Top \in Below(p) => Len(p) <= Len(Top)
  BY <1>1, PrefixFacts DEF Below
<1>3. Len(Top) = 0 /\ Len(p) \in Nat
  BY <1>1, PathIsSeq
<1>4. QED
  BY <1>1, <1>2, <1>3, PathIsSeq

LEMMA StoreAtTop ==
    ASSUME NEW m, NEW p \in Path, NEW f, IsMap(m)
    PROVE  StoreSnapshot(m, p, f).latest[Top] = IF p = Top THEN f ELSE m.latest[Top]
<1> PICK n : n = StoreSnapshot(m, p, f)
  OBVIOUS
<1>1. n.latest[p] = f /\ \A q \in Path : q \notin Below(p) => n.latest[q] = m.latest[q]
  BY StoreSnapshotIs
<1>2. Top \in Path /\ (Top \in Below(p) => p = Top)
  BY OnlyTopAtTop
<1>3. n.latest[Top] = IF p = Top THEN f ELSE m.latest[Top]
  BY <1>1, <1>2
<1>4. QED
  BY <1>3

\* The ways in which StoreSnapshot may be cut short.
LEMMA CutShortCases ==
    ASSUME NEW m, NEW p, NEW f, NEW n \in CutShort(m, p, f)
    PROVE  \/ n = m
           \/ /\ n.known = m.known \cup Above(p)
              /\ n.latest = m.latest \/ n.latest = [m.latest EXCEPT ![p] = Blank]
           \/ \E begun \in SUBSET Removed(m, p, f) :
                 \E gone \in SUBSET ForgottenBy(m, p, f, Removed(m, p, f)) :
                    n = Forgetting(m, p, f, begun, gone)
BY DEF CutShort

\* Cut short or not, it leaves a map, and what it may leave at the whole tree.
LEMMA CutShortIs ==
    ASSUME NEW m, NEW p \in Path, NEW f, IsMap(m), NEW n \in CutShort(m, p, f)
    PROVE  /\ IsMap(n)
           /\ n.latest[Top] = m.latest[Top] \/ (p = Top /\ n.latest[Top] \in {Blank, f})
<1>1. Top \in Path /\ (Top \in Below(p) => p = Top)
  BY OnlyTopAtTop
<1>2. CASE n = m
  BY <1>2
<1>3. CASE n.latest = m.latest
  BY <1>3 DEF IsMap
<1>4. CASE n.latest = [m.latest EXCEPT ![p] = Blank]
  BY <1>1, <1>4 DEF IsMap
<1>5. ASSUME NEW begun, NEW gone \in SUBSET ForgottenBy(m, p, f, Removed(m, p, f)),
             n = Forgetting(m, p, f, begun, gone)
      PROVE  /\ IsMap(n)
             /\ n.latest[Top] = m.latest[Top] \/ (p = Top /\ n.latest[Top] \in {Blank, f})
  <2> PICK latest : latest = [m.latest EXCEPT ![p] = f]
    OBVIOUS
  <2>1. n.latest = [q \in Path |-> IF q \in gone THEN None ELSE latest[q]]
    BY <1>5 DEF Forgetting
  <2>2. Top \notin gone
    <3> SUFFICES ASSUME Top \in gone PROVE FALSE
      OBVIOUS
    <3>1. PICK c \in Removed(m, p, f) : Top \in Forgotten(latest, c)
      BY DEF ForgottenBy
    <3>2. c \in Children(p) /\ Top \in Below(c)
      BY <3>1 DEF Removed, Forgotten
    <3>3. Top \in Below(p) /\ Top # p
      BY <3>2, BelowChild
    <3>4. QED
      BY <1>1, <3>3
  <2>3. latest[Top] = IF p = Top THEN f ELSE m.latest[Top]
    BY <1>1 DEF IsMap
  <2>4. QED
    BY <1>1, <2>1, <2>2, <2>3 DEF IsMap
<1>6. QED
  BY <1>2, <1>3, <1>4, <1>5, CutShortCases

\* So does only recording the snapshot of the whole tree.
LEMMA RecordAtTop ==
    ASSUME NEW p \in Path, NEW h, IsMap(paths), Record(p, h)
    PROVE  /\ IsMap(paths')
           /\ paths'.latest[Top] = IF p = Top THEN h ELSE paths.latest[Top]
<1>1. CASE paths.latest[p] = h
  BY <1>1 DEF Record
<1>2. CASE paths.latest[p] # h
  <2>1. paths' = StoreSnapshot(paths, p, h)
    BY <1>2 DEF Record
  <2>2. IsMap(StoreSnapshot(paths, p, h))
    BY StoreSnapshotIs
  <2>3. StoreSnapshot(paths, p, h).latest[Top] = IF p = Top THEN h ELSE paths.latest[Top]
    BY StoreAtTop
  <2>4. QED
    BY <2>1, <2>2, <2>3
<1>3. QED
  BY <1>1, <1>2

\* A snapshot is there, and has its predecessor in its history.
LEMMA SnapshotOfPath ==
    ASSUME NEW p, NEW kind, NEW mode, NEW contents, NoneIsNoSnapshot, Generations = Nat
    PROVE  LET h == SnapshotOf(p, kind, mode, contents)
           IN  /\ h # None /\ h.kind = kind /\ h.mode = mode /\ h.contents = contents
               /\ paths.latest[p] # None => paths.latest[p] \in Ancestors(h)
<1> PICK prev : prev = paths.latest[p]
  OBVIOUS
<1> PICK h : h = SnapshotOf(p, kind, mode, contents)
  OBVIOUS
<1>1. CASE prev # None /\ prev.kind = kind /\ prev.mode = mode /\ prev.contents = contents
  <2>1. h = prev
    BY <1>1 DEF SnapshotOf
  <2>2. QED
    BY <1>1, <2>1, AncestorsClosed
<1>2. CASE ~(prev # None /\ prev.kind = kind /\ prev.mode = mode /\ prev.contents = contents)
  <2> PICK ps : ps = IF prev = None THEN <<>> ELSE <<prev>>
    OBVIOUS
  <2>1. h = [kind |-> kind, mode |-> mode, contents |-> contents, parents |-> ps]
    BY <1>2 DEF SnapshotOf
  <2>2. h # None
    BY <2>1 DEF NoneIsNoSnapshot
  <2>3. ASSUME prev # None PROVE prev \in Ancestors(h)
    <3>1. h.parents = <<prev>>
      BY <2>1, <2>3
    <3>2. prev \in Range(h.parents)
      <4>1. 1 \in DOMAIN <<prev>> /\ <<prev>>[1] = prev
        OBVIOUS
      <4>2. QED
        BY <3>1, <4>1 DEF Range
    <3>3. QED
      BY <3>2, ParentIsAncestor
  <2>4. QED
    BY <2>1, <2>2, <2>3
<1>3. QED
  BY <1>1, <1>2

-----------------------------------------------------------------------------
(***************************************************************************)
(* The snapshots taken are in the history of the latest one.               *)
(***************************************************************************)
Latest == paths.latest[Top]

Retained == \A h \in taken : Latest # None /\ h \in Ancestors(Latest)

\* The inductive invariant: a snapshot that is about to be checked out has the
\* latest one in its history, unless the files that were there are gone.  A
\* mapping of the whole tree that has not been written stops every command
\* before it gets to a merge.
RetainedInv ==
    /\ IsMap(paths)
    /\ Latest # Blank \/ command.pc \notin {"idle", "current"} => Retained
    /\ command.pc = "merge" => command.prev = Latest /\ Latest # None
    /\ command.pc = "remove" =>
          /\ Latest # None /\ Latest \in Ancestors(command.merged)
          /\ command.merged # None
    /\ command.pc = "checkout" =>
          /\ command.snapshot # None
          /\ taken = {} \/ Latest \in Ancestors(command.snapshot)

\* Returning a snapshot that has the latest one in its history loses nothing.
LEMMA ReturnsRetained ==
    ASSUME Generations = Nat, RetainedInv, NEW src, NEW t, NEW p \in Path, NEW h,
           command.pc = "current", Returns(src, t, p, h),
           t = <<>> <=> p = Top,
           \/ h = None /\ UNCHANGED paths
           \/ /\ h # None /\ Record(p, h) /\ paths.latest[p] # Blank
              /\ paths.latest[p] # None => paths.latest[p] \in Ancestors(h)
    PROVE  RetainedInv'
<1>1. /\ IsMap(paths')
      /\ Latest' = IF p = Top /\ h # None THEN h ELSE Latest
  BY RecordAtTop DEF RetainedInv, Latest
<1>2. CASE t # <<>>
  <2>1. Latest' = Latest /\ taken' = taken /\ command' = Current(src, WithFound(t, p, h))
    BY <1>1, <1>2 DEF Returns
  <2>2. command'.pc = "current"
    BY <2>1 DEF Current
  <2>3. QED
    BY <1>1, <2>1, <2>2 DEF RetainedInv, Retained
<1>3. CASE t = <<>> /\ h = None
  <2>1. Latest' = Latest /\ (Latest # Blank => Retained)
    BY <1>1, <1>3 DEF RetainedInv
  <2>2. CASE src = None
    <3>1. command' = Idle /\ taken' = taken
      BY <1>3, <2>2 DEF Returns
    <3>2. command'.pc = "idle"
      BY <3>1 DEF Idle
    <3>3. QED
      BY <1>1, <2>1, <3>1, <3>2 DEF RetainedInv, Retained
  <2>3. CASE src # None
    <3>1. command' = Checkout(src, <<>>) /\ taken' = {}
      BY <1>3, <2>3 DEF Returns
    <3>2. command'.pc = "checkout" /\ command'.snapshot = src
      BY <3>1 DEF Checkout
    <3>3. QED
      BY <1>1, <2>3, <3>1, <3>2 DEF RetainedInv, Retained
  <2>4. QED
    BY <2>2, <2>3
<1>4. CASE t = <<>> /\ h # None
  <2>1. Latest' = h /\ Retained
    BY <1>1, <1>4 DEF RetainedInv, Latest
  <2>2. \A g \in taken : g \in Ancestors(h)
    <3> SUFFICES ASSUME NEW g \in taken PROVE g \in Ancestors(h)
      OBVIOUS
    <3>1. Latest # None /\ g \in Ancestors(Latest)
      BY <2>1 DEF Retained
    <3>2. Latest \in Ancestors(h)
      BY <1>4, <3>1 DEF Latest
    <3>3. QED
      BY <3>1, <3>2, AncestorsTransitive
  <2>3. h \in Ancestors(h)
    BY AncestorsClosed
  <2>4. taken' \subseteq taken \cup {h} => Retained'
    BY <1>4, <2>1, <2>2, <2>3 DEF Retained
  <2>5. CASE src = None
    <3>1. command' = Idle /\ taken' = taken \cup ({h} \ {None})
      BY <1>4, <2>5 DEF Returns
    <3>2. command'.pc = "idle"
      BY <3>1 DEF Idle
    <3>3. QED
      BY <1>1, <2>4, <3>1, <3>2 DEF RetainedInv
  <2>6. CASE src # None
    <3>1. command' = Merging(src, h) /\ taken' = taken \cup {h}
      BY <1>4, <2>6 DEF Returns
    <3>2. command'.pc = "merge" /\ command'.prev = h
      BY <3>1 DEF Merging
    <3>3. QED
      BY <1>1, <1>4, <2>1, <2>4, <3>1, <3>2 DEF RetainedInv
  <2>7. QED
    BY <2>5, <2>6
<1>5. QED
  BY <1>2, <1>3, <1>4

\* What is merged has the history of the destination, unless that is in the
\* history of the source.
LEMMA MergeRetains ==
    ASSUME Generations = Nat, NoneIsNoSnapshot, NEW src, src # None,
           NEW prev, prev # None, NEW base, NEW helper, NEW m,
           base \in Bases(src, prev), base # Failed, base # src,
           IsMerge(base, src, prev, helper, m)
    PROVE  m[Top] # None /\ prev \in Ancestors(m[Top])
<1>1. MergedHere(base, src, prev, helper, m, Top)
  BY PathAssumption DEF IsMerge, Top
<1>2. \A h : At(h, Top) = h
  BY AtSolves
<1>3. src # prev
  BY DEF Bases
<1>4. ASSUME prev = base PROVE prev \in Ancestors(src)
  <2> PICK common : common = Ancestors(src) \cap Ancestors(prev)
    OBVIOUS
  <2>1. base \in IF src \in common THEN {src} ELSE IF prev \in common THEN {prev}
                ELSE IF common = {} THEN {None} ELSE common
    BY <1>3 DEF Bases
  <2>2. prev \in common
    BY <1>4, <2>1
  <2>3. QED
    BY <2>2
<1>5. ASSUME NEW kind, NEW mode, NEW contents,
             m[Top] = [kind |-> kind, mode |-> mode, contents |-> contents,
                       parents |-> <<src, prev>>]
      PROVE  m[Top] # None /\ prev \in Ancestors(m[Top])
  <2>1. m[Top] # None
    BY <1>5 DEF NoneIsNoSnapshot
  <2>2. m[Top].parents = <<src, prev>>
    BY <1>5
  <2>3. 2 \in DOMAIN <<src, prev>> /\ <<src, prev>>[2] = prev
    OBVIOUS
  <2>4. prev \in Range(m[Top].parents)
    BY <2>2, <2>3 DEF Range
  <2>5. QED
    BY <2>1, <2>4, ParentIsAncestor
<1>6. CASE m[Top] = At(src, Top) /\ (At(src, Top) = At(prev, Top) \/ At(prev, Top) = At(base, Top))
  BY <1>2, <1>3, <1>4, <1>6
<1>7. CASE m[Top] = At(prev, Top) /\ At(src, Top) = At(base, Top)
  BY <1>2, <1>7
<1>8. QED
  BY <1>1, <1>2, <1>5, <1>6, <1>7 DEF MergedHere

\* No step loses a snapshot.
LEMMA RetainedStep ==
    ASSUME Generations = Nat, NoneIsNoSnapshot, ArchivePath = None,
           CommandInv, RetainedInv, [Next]_vars
    PROVE  RetainedInv'
<1>1. CASE UNCHANGED <<paths, command, taken>>
  BY <1>1 DEF RetainedInv, Retained, Latest
<1>2. ASSUME UNCHANGED <<paths, taken>>, command'.pc \in {"idle", "current"}
      PROVE  RetainedInv'
  BY <1>2 DEF RetainedInv, Retained, Latest
<1>3. ASSUME NEW src \in Sources \cup {None}, Begin(src)
      PROVE  RetainedInv'
  BY <1>2, <1>3 DEF Begin
<1>4. ASSUME NEW p \in Path, CurrentEntry(p)
      PROVE  RetainedInv'
  <2>1. PICK src \in Sources \cup {None} : \E s, t : CurrentEntryOf(src, s, t, p)
    BY <1>4, CurrentEntryIs
  <2>2. PICK s, t : CurrentEntryOf(src, s, t, p)
    BY <2>1
  <2>3. t = <<>> <=> p = Top
    BY <2>2, CurrentTakenStack DEF CurrentEntryOf
  <2>4. command.pc = "current"
    BY <1>4 DEF CurrentEntry
  <2>5. CASE CurrentNothingOf(src, t, p)
    BY <2>3, <2>4, <2>5, ReturnsRetained DEF CurrentNothingOf
  <2>6. CASE CurrentDirectoryEntryOf(src, t, p)
    <3>1. command'.pc = "current" /\ UNCHANGED <<paths, taken>>
      BY <2>6 DEF CurrentDirectoryEntryOf, Current
    <3>2. QED
      BY <1>2, <3>1
  <2>7. ASSUME NEW h, CurrentFileOf(src, t, p, h)
        PROVE  RetainedInv'
    <3>1. Record(p, h) /\ Returns(src, t, p, h) /\ paths.latest[p] # Blank
      BY <2>7 DEF CurrentFileOf
    <3>2. h # None /\ (paths.latest[p] # None => paths.latest[p] \in Ancestors(h))
      BY <2>7, SnapshotOfPath DEF CurrentFileOf
    <3>3. QED
      BY <2>3, <2>4, <3>1, <3>2, ReturnsRetained
  <2>8. QED
    BY <2>2, <2>5, <2>6, <2>7 DEF CurrentEntryOf
<1>5. CASE CurrentDirectory
  <2>1. PICK src \in Sources \cup {None} : \E p \in Path : \E s, h : CurrentDirectoryOf(src, s, p, h)
    BY <1>5, CurrentDirectoryIs
  <2>11. PICK p \in Path : \E s, h : CurrentDirectoryOf(src, s, p, h)
    BY <2>1
  <2>2. PICK s, h : CurrentDirectoryOf(src, s, p, h)
    BY <2>11
  <2>3. command.pc = "current"
    BY <1>5 DEF CurrentDirectory
  <2>4. /\ Returns(src, Front(s), p, h) /\ Record(p, h) /\ paths.latest[p] # Blank
        /\ h = SnapshotOf(p, "dir", s[Len(s)].mode, s[Len(s)].found)
        /\ CurrentCalls(s) /\ s # <<>> /\ p = s[Len(s)].path
    BY <2>2 DEF CurrentDirectoryOf
  <2>5. Front(s) = <<>> <=> p = Top
    BY <2>4, CurrentPopStack
  <2>6. h # None /\ (paths.latest[p] # None => paths.latest[p] \in Ancestors(h))
    BY <2>4, SnapshotOfPath
  <2>7. QED
    BY <2>3, <2>4, <2>5, <2>6, ReturnsRetained
<1>6. CASE MergeSnapshots
  <2>1. PICK src \in Sources \ {None} : \E prev, base, helper, m : MergeOf(src, prev, base, helper, m)
    BY <1>6, MergeIs
  <2>2. PICK prev, base, helper, m : MergeOf(src, prev, base, helper, m)
    BY <2>1
  <2>3. command = Merging(src, prev) /\ UNCHANGED <<paths, taken>> /\ base \in Bases(src, prev)
    BY <2>2 DEF MergeOf
  <2>4. command.pc = "merge" /\ command.prev = prev
    BY <2>3 DEF Merging
  <2>5. prev = Latest /\ Latest # None
    BY <2>4 DEF RetainedInv
  <2>6. CASE command' = Idle
    <3>1. command'.pc = "idle"
      BY <2>6 DEF Idle
    <3>2. QED
      BY <1>2, <2>3, <3>1
  <2>7. CASE /\ base # Failed /\ base # src /\ IsMerge(base, src, prev, helper, m)
             /\ command' = Removing(src, prev, base, m[Top], helper)
    <3>1. command'.pc = "remove" /\ command'.merged = m[Top]
      BY <2>7 DEF Removing
    <3>2. m[Top] # None /\ prev \in Ancestors(m[Top])
      BY <2>3, <2>5, <2>7, MergeRetains
    <3>3. Latest' = Latest
      BY <2>3 DEF Latest
    <3>4. QED
      BY <2>3, <2>4, <2>5, <3>1, <3>2, <3>3 DEF RetainedInv, Retained
  <2>8. QED
    BY <2>2, <2>6, <2>7 DEF MergeOf
<1>7. CASE RemoveTree
  <2>1. PICK src \in Sources \ {None} : \E prev, base, helper, m :
              /\ command = Removing(src, prev, base, m[Top], helper)
              /\ command' = Checkout(m[Top], <<>>)
    BY <1>7, RemoveTreeIs
  <2>2. PICK prev, base, helper, m :
              /\ command = Removing(src, prev, base, m[Top], helper)
              /\ command' = Checkout(m[Top], <<>>)
    BY <2>1
  <2>3. /\ command.pc = "remove" /\ command.merged = m[Top]
        /\ command'.pc = "checkout" /\ command'.snapshot = m[Top]
    BY <2>2 DEF Removing, Checkout
  <2>4. UNCHANGED <<paths, taken>>
    BY <1>7 DEF RemoveTree
  <2>5. QED
    BY <2>3, <2>4 DEF RetainedInv, Retained, Latest
<1>8. ASSUME NEW h, NEW p \in Path, NEW g, command.pc = "checkout", command.snapshot = h,
             paths' = StoreSnapshot(paths, p, g), UNCHANGED taken, p = Top => g = h,
             \/ command'.pc = "idle" 
             \/ p # Top /\ command'.pc = "checkout" /\ command'.snapshot = h
      PROVE  RetainedInv'
  <2>1. /\ IsMap(paths) /\ h # None /\ (taken = {} \/ Latest \in Ancestors(h))
        /\ \A k \in taken : Latest # None /\ k \in Ancestors(Latest)
    BY <1>8 DEF RetainedInv, Retained
  <2>2. IsMap(paths') /\ Latest' = IF p = Top THEN h ELSE Latest
    <3>1. IsMap(StoreSnapshot(paths, p, g))
      BY <2>1, StoreSnapshotIs
    <3>2. StoreSnapshot(paths, p, g).latest[Top] = IF p = Top THEN g ELSE paths.latest[Top]
      BY <2>1, StoreAtTop
    <3>3. QED
      BY <1>8, <3>1, <3>2 DEF Latest
  <2>3. CASE p # Top
    BY <1>8, <2>1, <2>2, <2>3 DEF RetainedInv, Retained
  <2>4. CASE p = Top
    <3>1. \A k \in taken : k \in Ancestors(h)
      BY <2>1, AncestorsTransitive
    <3>2. QED
      BY <1>8, <2>1, <2>2, <2>4, <3>1 DEF RetainedInv, Retained
  <2>5. QED
    BY <2>3, <2>4
<1>9. ASSUME NEW p \in Path, CheckoutEntry(p)
      PROVE  RetainedInv'
  <2>1. PICK h, s, t, g : CheckoutEntryOf(h, s, t, p, g)
    BY <1>9, CheckoutEntryIs
  <2>2. /\ CheckoutCalls(s, h) /\ EntryOf(s, p) /\ t = CheckoutTaken(s, p)
        /\ g = IF s = <<>> THEN h ELSE Under(s[Len(s)].snapshot, p)
        /\ command = Checkout(h, s) /\ UNCHANGED taken
    BY <2>1 DEF CheckoutEntryOf
  <2>3. (t = <<>> <=> s = <<>>) /\ (t = <<>> => p = Top) /\ (t # <<>> => p # Top)
    BY <2>2, CheckoutTakenStack
  <2>4. command.pc = "checkout" /\ command.snapshot = h
    BY <2>2 DEF Checkout
  <2>5. CASE CheckoutFailsOf
    <3>1. command'.pc = "idle" /\ UNCHANGED paths
      BY <2>5 DEF CheckoutFailsOf, Idle
    <3>2. QED
      BY <1>2, <2>2, <3>1
  <2>6. CASE CheckoutDirectoryEntryOf(h, t, p, g)
    <3>1. command'.pc = "checkout" /\ command'.snapshot = h /\ UNCHANGED paths
      BY <2>6 DEF CheckoutDirectoryEntryOf, Checkout
    <3>2. QED
      BY <2>2, <2>4, <3>1 DEF RetainedInv, Retained, Latest
  <2>7. CASE CheckoutFileOf(h, t, p, g)
    <3>1. paths' = StoreSnapshot(paths, p, g)
      BY <2>7 DEF CheckoutFileOf
    <3>2. p = Top => g = h
      BY <2>2, <2>3
    <3>3. \/ command'.pc = "idle"
          \/ p # Top /\ command'.pc = "checkout" /\ command'.snapshot = h
      BY <2>3, <2>7 DEF CheckoutFileOf, Idle, Checkout
    <3>4. QED
      BY <1>8, <2>2, <2>4, <3>1, <3>2, <3>3
  <2>8. QED
    BY <2>1, <2>5, <2>6, <2>7 DEF CheckoutEntryOf
<1>10. CASE CheckoutDirectory
  <2>1. PICK h, s : CheckoutDirectoryOf(h, s)
    BY <1>10, CheckoutDirectoryIs
  <2> PICK p : p = s[Len(s)].path
    OBVIOUS
  <2> PICK g : g = s[Len(s)].snapshot
    OBVIOUS
  <2>2. /\ command = Checkout(h, s) /\ CheckoutCalls(s, h) /\ s # <<>>
        /\ paths' = StoreSnapshot(paths, p, g) /\ UNCHANGED taken
    BY <2>1 DEF CheckoutDirectoryOf
  <2>3. command.pc = "checkout" /\ command.snapshot = h
    BY <2>2 DEF Checkout
  <2>4. /\ Front(s) = <<>> <=> Len(s) = 1
        /\ Front(s) = <<>> => p = Top /\ g = h
        /\ Front(s) # <<>> => p # Top
    BY <2>2, CheckoutPopStack
  <2>5. p \in Path
    <3>1. Stacked(s) /\ Len(s) \in 1..Len(s)
      BY <2>2, StackLength DEF CheckoutCalls
    <3>2. QED
      BY <3>1, FrameOfStack
  <2>6. \/ command'.pc = "idle"
        \/ p # Top /\ command'.pc = "checkout" /\ command'.snapshot = h
    BY <2>1, <2>4 DEF CheckoutDirectoryOf, Idle, Checkout
  <2>7. p = Top => g = h
    BY <2>4
  <2>8. QED
    BY <1>8, <2>2, <2>3, <2>5, <2>6, <2>7
<1>11. CASE Die
  <2>1. UNCHANGED <<paths, taken>> /\ command'.pc = "idle"
    BY <1>11 DEF Die, Finish, Idle
  <2>2. QED
    BY <1>2, <2>1
<1>12. ASSUME NEW p \in Path, CurrentFails(p)
       PROVE  RetainedInv'
  <2>1. command' = Idle /\ paths' = paths /\ taken' = taken
    BY <1>12, CurrentFailsIs, Zenon DEF FailsOf
  <2>2. command'.pc = "idle"
    BY <2>1 DEF Idle
  <2>3. QED
    BY <1>2, <2>1, <2>2
<1>13. ASSUME NEW p \in Path, DieAt(p)
       PROVE  RetainedInv'
  <2>1. taken' = taken /\ command'.pc = "idle"
    <3>1. command' = Idle /\ taken' = taken
      BY <1>13, DieAtIs, Zenon DEF FailsOf
    <3>2. QED
      BY <3>1 DEF Idle
  <2>2. PICK h : paths' \in CutShort(paths, p, h) /\ (DiesTaking(p, h) \/ DiesCheckingOut(p, h))
    BY <1>13, DieAtIs
  <2>3. /\ IsMap(paths')
        /\ Latest' = Latest \/ (p = Top /\ Latest' \in {Blank, h})
    BY <2>2, CutShortIs DEF RetainedInv, Latest
  <2>4. ASSUME Latest' # Blank PROVE Retained'
    <3>1. CASE Latest' = Latest
      BY <2>1, <2>4, <3>1 DEF RetainedInv, Retained
    <3>2. CASE p = Top /\ Latest' = h /\ DiesTaking(p, h)
      <4>1. PICK kind, mode, contents : h = SnapshotOf(p, kind, mode, contents)
        BY <3>2 DEF DiesTaking
      <4>2. h # None /\ (Latest # None => Latest \in Ancestors(h))
        BY <3>2, <4>1, SnapshotOfPath DEF Latest
      <4>3. Retained
        BY <3>2 DEF RetainedInv, DiesTaking, Latest
      <4>4. QED
        BY <2>1, <3>2, <4>2, <4>3, AncestorsTransitive DEF Retained
    <3>3. CASE p = Top /\ Latest' = h /\ DiesCheckingOut(p, h)
      <4>1. command.pc = "checkout" /\ h = command.snapshot
        BY <3>3 DEF DiesCheckingOut
      <4>2. h # None /\ Retained /\ (taken = {} \/ Latest \in Ancestors(h))
        BY <4>1 DEF RetainedInv
      <4>3. QED
        BY <2>1, <3>3, <4>2, AncestorsTransitive DEF Retained
    <3>4. QED
      BY <2>2, <2>3, <2>4, <3>1, <3>2, <3>3
  <2>5. QED
    BY <2>1, <2>3, <2>4 DEF RetainedInv
<1>14. User => UNCHANGED <<paths, command, taken>>
  BY DEF User, Write, Delete, Chmod, Edit
<1>15. UNCHANGED vars => UNCHANGED <<paths, command, taken>>
  BY DEF vars
<1>16. QED
  BY <1>1, <1>3, <1>4, <1>5, <1>6, <1>7, <1>9, <1>10, <1>11, <1>12, <1>13,
     <1>14, <1>15 DEF Next, Command, DieAt

\* Whatever is missing, fails or dies, every snapshot of the tree that was
\* taken stays in the history from which `rvcs log` starts, as long as no
\* command has died amid the write of the mapping of the tree itself, which
\* leaves it blank.  One that dies anywhere else in StoreSnapshot is covered.
THEOREM NothingIsForgotten ==
    ASSUME Generations = Nat, NoneIsNoSnapshot, ArchivePath = None
    PROVE  Spec => []PreviousVersionsAreRetrievable
<1>1. Init => RetainedInv
  <2> SUFFICES ASSUME Init PROVE RetainedInv
    OBVIOUS
  <2>1. PICK h : /\ paths = [latest |-> [p \in Path |-> At(h, p)],
                             known  |-> {p \in Path : At(h, p) # None}]
                 /\ taken = {h} \ {None}
    BY DEF Init
  <2>2. paths.latest = [p \in Path |-> At(h, p)]
    BY <2>1
  <2>3. IsMap(paths)
    BY <2>2 DEF IsMap
  <2>4. Latest = h
    BY <2>2, AtSolves, PathAssumption DEF Latest, Top
  <2>5. h \in Ancestors(h)
    BY AncestorsClosed
  <2>6. command.pc = "idle"
    BY DEF Init, Idle
  <2>7. QED
    BY <2>1, <2>3, <2>4, <2>5, <2>6 DEF RetainedInv, Retained
<1>2. CommandInv /\ RetainedInv /\ [Next]_vars => RetainedInv'
  BY RetainedStep
<1>3. RetainedInv => PreviousVersionsAreRetrievable
  BY DEF RetainedInv, Retained, PreviousVersionsAreRetrievable, Latest
<1>4. QED
  BY <1>1, <1>2, <1>3, CommandInvariance, PTL DEF Spec

-----------------------------------------------------------------------------
(***************************************************************************)
(* The path map is the tree of the latest snapshot.                        *)
(***************************************************************************)
\* The mapping of q is what that of the directory above says of it.
Local(m, q) == m.latest[q] = Under(m.latest[Front(q)], q)

\* Every path that has a mapping can be listed.
Known(m) == \A q \in Path : m.latest[q] # None => q \in m.known

\* Nothing outside of a path has a directory below it.
LEMMA OutsideIsAboveOutside ==
    ASSUME NEW p \in Path, NEW q \in Path, q # Top, q \notin Below(p)
    PROVE  Front(q) \in Path /\ Front(q) \notin Below(p)
BY FrontOfPath, PrefixOfFront DEF Below

\* What is below a path is below one of its children.
LEMMA ChildAbove ==
    ASSUME NEW p \in Path, NEW q \in Below(p), q # p
    PROVE  \E c \in Children(p) : q \in Below(c)
<1> DEFINE S == {k \in Nat : \A r \in Below(p) :
                    Len(r) = k /\ r # p => \E c \in Children(p) : r \in Below(c)}
<1>1. 0 \in S
  <2>1. ASSUME NEW r \in Below(p), Len(r) = 0 PROVE r = p
    <3>1. r \in Path /\ IsPrefix(p, r) /\ Len(p) \in Nat
      BY PathIsSeq DEF Below
    <3>2. Len(p) <= Len(r)
      BY <3>1, PrefixFacts
    <3>3. QED
      BY <2>1, <3>1, <3>2, PrefixFacts
  <2>2. QED
    BY <2>1
<1>2. ASSUME NEW k \in Nat, k \in S PROVE k + 1 \in S
  <2>1. ASSUME NEW r \in Below(p), Len(r) = k + 1, r # p
        PROVE  \E c \in Children(p) : r \in Below(c)
    <3>1. r \in Path /\ IsPrefix(p, r)
      BY DEF Below
    <3>2. r # Top
      BY <2>1, <3>1, PathIsSeq
    <3>3. Front(r) \in Path /\ Len(Front(r)) = Len(r) - 1 /\ r \in Children(Front(r))
      BY <3>1, <3>2, FrontOfPath
    <3>4. IsPrefix(p, Front(r))
      BY <2>1, <3>1, <3>2, PrefixOfFront
    <3>5. CASE Front(r) = p
      <4>1. r \in Below(r)
        BY <3>1, PrefixFacts DEF Below
      <4>2. QED
        BY <3>3, <3>5, <4>1
    <3>6. CASE Front(r) # p
      <4>1. Len(Front(r)) = k /\ Front(r) \in Below(p)
        BY <2>1, <3>3, <3>4 DEF Below
      <4>2. PICK c \in Children(p) : Front(r) \in Below(c)
        BY <1>2, <3>6, <4>1
      <4>3. c \in Path /\ IsPrefix(c, Front(r))
        BY <4>2, ChildOfPath DEF Below
      <4>4. IsPrefix(c, r)
        BY <3>1, <3>2, <4>3, PrefixOfFront
      <4>5. r \in Below(c)
        BY <3>1, <4>4 DEF Below
      <4>6. QED
        BY <4>5
    <3>7. QED
      BY <3>5, <3>6
  <2>2. QED
    BY <2>1
<1> HIDE DEF S
<1>3. Nat \subseteq S
  BY <1>1, <1>2, Numbers!SetInduction
<1>4. Len(q) \in S
  BY <1>3, PathIsSeq DEF Below
<1>5. QED
  BY <1>4 DEF S

\* One path is below one child only.
LEMMA OneChildAbove ==
    ASSUME NEW p \in Path, NEW c \in Children(p), NEW d \in Children(p),
           NEW r \in Path, r \in Below(c), r \in Below(d)
    PROVE  c = d
<1>1. c \in Path /\ d \in Path /\ Len(c) = Len(d)
  BY ChildOfPath
<1>2. IsPrefix(c, r) /\ IsPrefix(d, r)
  BY DEF Below
<1>3. /\ \A i \in 1..Len(c) : c[i] = r[i]
      /\ \A i \in 1..Len(d) : d[i] = r[i]
  BY <1>1, <1>2, IsPrefixIs
<1>4. c \in Seq(Name) /\ d \in Seq(Name) /\ \A i \in 1..Len(c) : c[i] = d[i]
  BY <1>1, <1>3, PathIsSeq
<1>5. QED
  BY <1>1, <1>4, SeqEqual

\* Below a path whose mappings form a tree, RemoveMappingForPath forgets all.
LEMMA ForgottenIs ==
    ASSUME NEW l, NEW c \in Path,
           \A q \in Below(c) : q # c => l[q] = Under(l[Front(q)], q),
           NEW r \in Below(c), l[r] # None
    PROVE  r \in Forgotten(l, c)
<1> DEFINE Mapped(x) == l[x] # None /\ (x # c => Lists(l[Front(x)], x))
           S == {k \in Nat : \A q \in Below(c) :
                    Len(q) = k /\ l[q] # None => \A x \in Below(c) \cap Above(q) : Mapped(x)}
<1>1. ASSUME NEW q \in Below(c), q = c, l[q] # None, NEW x \in Below(c) \cap Above(q)
      PROVE  Mapped(x)
  <2>1. x \in Path /\ IsPrefix(c, x) /\ IsPrefix(x, c)
    BY <1>1 DEF Below, Above
  <2>2. Len(x) \in Nat /\ Len(c) \in Nat /\ Len(x) <= Len(c) /\ Len(c) <= Len(x)
    BY <2>1, PrefixFacts, PathIsSeq
  <2>3. x = c
    BY <2>1, <2>2, PrefixFacts
  <2>4. QED
    BY <1>1, <2>3
<1>2. 0 \in S
  <2>1. ASSUME NEW q \in Below(c), Len(q) = 0 PROVE q = c
    <3>1. q \in Path /\ IsPrefix(c, q) /\ Len(c) \in Nat
      BY PathIsSeq DEF Below
    <3>2. Len(c) <= Len(q)
      BY <3>1, PrefixFacts
    <3>3. QED
      BY <2>1, <3>1, <3>2, PrefixFacts
  <2>2. QED
    BY <1>1, <2>1
<1>3. ASSUME NEW k \in Nat, k \in S PROVE k + 1 \in S
  <2>1. ASSUME NEW q \in Below(c), Len(q) = k + 1, l[q] # None, q # c,
               NEW x \in Below(c) \cap Above(q)
        PROVE  Mapped(x)
    <3>1. q \in Path /\ IsPrefix(c, q) /\ q # Top
      BY <2>1, PathIsSeq DEF Below
    <3>2. Front(q) \in Path /\ Len(Front(q)) = k
      <4>1. Len(Front(q)) = Len(q) - 1 /\ Front(q) \in Path
        BY <3>1, FrontOfPath
      <4>2. QED
        BY <2>1, <4>1
    <3>3. Front(q) \in Below(c)
      BY <2>1, <3>1, <3>2, PrefixOfFront DEF Below
    <3>4. Lists(l[Front(q)], q) /\ l[Front(q)] # None
      BY <2>1 DEF Under, Lists
    <3>5. x = q \/ x \in Above(Front(q))
      <4>1. x \in Path /\ IsPrefix(x, q)
        BY DEF Above
      <4>2. QED
        BY <3>1, <4>1, PrefixOfFront DEF Above
    <3>6. x \in Above(Front(q)) => Mapped(x)
      BY <1>3, <3>2, <3>3, <3>4
    <3>7. QED
      BY <2>1, <3>4, <3>5, <3>6
  <2>2. QED
    BY <1>1, <2>1
<1> HIDE DEF S
<1>4. Nat \subseteq S
  BY <1>2, <1>3, Numbers!SetInduction
<1>5. Len(r) \in S
  BY <1>4, PathIsSeq DEF Below
<1>6. \A x \in Below(c) \cap Above(r) : Mapped(x)
  BY <1>5 DEF S
<1>7. QED
  BY <1>6 DEF Forgotten

\* If the mappings are those of trees further below, and those of the children
\* that f lists are what it lists, then below p they are the tree of f.
LEMMA StoreSnapshotMakesTree ==
    ASSUME NEW m, NEW p \in Path, NEW f, IsMap(m), Known(m),
           \A q \in Below(p) : q # p /\ Front(q) # p => Local(m, q),
           \A c \in Children(p) : Lists(f, c) => m.latest[c] = f.contents[Last(c)],
           NEW n, n = StoreSnapshot(m, p, f)
    PROVE  /\ IsMap(n) /\ Known(n) /\ n.latest[p] = f
           /\ \A q \in Path : q \notin Below(p) => n.latest[q] = m.latest[q]
           /\ \A q \in Below(p) : q # p => Local(n, q)
<1> PICK latest : latest = [m.latest EXCEPT ![p] = f]
  OBVIOUS
<1> PICK removed : removed = {q \in Children(p) \cap m.known : ~Lists(f, q)}
  OBVIOUS
<1> PICK forgotten : forgotten = UNION {Forgotten(latest, q) : q \in removed}
  OBVIOUS
<1>1. /\ IsMap(n) /\ n.latest[p] = f
      /\ \A q \in Path : q \notin Below(p) => n.latest[q] = m.latest[q]
      /\ \A q \in Path \ {p} : n.latest[q] = m.latest[q] \/ n.latest[q] = None
  BY StoreSnapshotIs
<1>2. /\ n.latest = [q \in Path |-> IF q \in forgotten THEN None ELSE latest[q]]
      /\ n.known = (m.known \cup Above(p)) \ UNION {Below(q) : q \in removed}
  BY DEF StoreSnapshot, Forgetting, ForgottenBy, Removed
<1>3. \A q \in Path : latest[q] = IF q = p THEN f ELSE m.latest[q]
  BY DEF IsMap
<1>4. ASSUME NEW c \in Children(p), Lists(f, c), NEW r \in Below(c)
      PROVE  n.latest[r] = m.latest[r]
  <2>1. r \in Path /\ r # p
    BY BelowChild DEF Below
  <2>2. r \notin forgotten
    <3> SUFFICES ASSUME r \in forgotten PROVE FALSE
      OBVIOUS
    <3>1. PICK d \in removed : r \in Forgotten(latest, d)
      OBVIOUS
    <3>2. d \in Children(p) /\ r \in Below(d) /\ ~Lists(f, d)
      BY <3>1 DEF Forgotten
    <3>3. c = d
      BY <1>4, <2>1, <3>2, OneChildAbove
    <3>4. QED
      BY <1>4, <3>2, <3>3
  <2>3. QED
    BY <1>2, <1>3, <2>1, <2>2
<1>5. ASSUME NEW c \in Children(p), ~Lists(f, c), NEW r \in Below(c)
      PROVE  n.latest[r] = None
  <2>1. r \in Path /\ r # p
    BY BelowChild DEF Below
  <2>2. CASE m.latest[r] = None
    BY <1>1, <2>1, <2>2
  <2>3. CASE m.latest[r] # None
    <3>1. c \in Path /\ \A q \in Below(c) : q \in Path /\ q \in Below(p) /\ q # p
      BY ChildOfPath, BelowChild DEF Below
    <3>2. ASSUME NEW q \in Below(c), q # c
          PROVE  latest[q] = Under(latest[Front(q)], q)
      <4>1. q \in Path /\ q # Top /\ IsPrefix(c, q)
        <5>1. q \in Path /\ IsPrefix(c, q) /\ Len(c) <= Len(q)
          BY <3>1, PrefixFacts DEF Below
        <5>2. Len(c) = Len(p) + 1 /\ Len(p) \in Nat
          BY ChildOfPath, PathIsSeq
        <5>3. QED
          BY <5>1, <5>2, PathIsSeq
      <4>2. Front(q) \in Path /\ Front(q) \in Below(c)
        BY <3>1, <3>2, <4>1, PrefixOfFront, FrontOfPath DEF Below
      <4>3. Front(q) # p /\ q # p /\ q \in Below(p)
        BY <3>1, <4>2
      <4>4. Local(m, q)
        BY <4>3
      <4>5. QED
        BY <1>3, <4>1, <4>2, <4>3, <4>4 DEF Local
    <3>3. latest[r] # None
      BY <1>3, <2>1, <2>3
    <3>4. r \in Forgotten(latest, c)
      BY <3>1, <3>2, <3>3, ForgottenIs
    <3>5. latest[c] # None
      <4>1. c \in Below(c) \cap Above(r)
        BY <3>1, PrefixFacts DEF Below, Above
      <4>2. QED
        BY <3>4, <4>1 DEF Forgotten
    <3>6. c \in m.known
      <4>1. c # p
        BY <3>1, PrefixFacts DEF Below
      <4>2. QED
        BY <1>3, <3>1, <3>5, <4>1 DEF Known
    <3>7. c \in removed
      BY <1>5, <3>6
    <3>8. r \in forgotten
      BY <3>4, <3>7
    <3>9. QED
      BY <1>2, <2>1, <3>8
  <2>4. QED
    BY <2>2, <2>3
<1>6. ASSUME NEW q \in Below(p), q # p
      PROVE  Local(n, q)
  <2>1. PICK c \in Children(p) : q \in Below(c)
    BY <1>6, ChildAbove
  <2>2. c \in Path /\ c # Top /\ Front(c) = p /\ c \in Below(c)
    BY ChildOfPath, PrefixFacts DEF Below
  <2>3. CASE q = c
    <3>1. CASE Lists(f, c)
      <4>1. n.latest[c] = f.contents[Last(c)]
        BY <1>4, <2>2, <3>1
      <4>2. QED
        BY <1>1, <2>2, <2>3, <3>1, <4>1 DEF Local, Under
    <3>2. CASE ~Lists(f, c)
      BY <1>1, <1>5, <2>2, <2>3, <3>2 DEF Local, Under
    <3>3. QED
      BY <3>1, <3>2
  <2>4. CASE q # c
    <3>1. q \in Path /\ IsPrefix(c, q) /\ q # Top
      <4>1. q \in Path /\ IsPrefix(c, q) /\ Len(c) <= Len(q)
        BY <2>1, <2>2, PrefixFacts DEF Below
      <4>2. Len(c) = Len(p) + 1 /\ Len(p) \in Nat
        BY ChildOfPath, PathIsSeq
      <4>3. QED
        BY <4>1, <4>2, PathIsSeq
    <3>2. Front(q) \in Below(c)
      BY <2>2, <2>4, <3>1, PrefixOfFront, FrontOfPath DEF Below
    <3>3. Front(q) # p
      BY <3>2, BelowChild
    <3>4. CASE Lists(f, c)
      <4>1. n.latest[q] = m.latest[q] /\ n.latest[Front(q)] = m.latest[Front(q)]
        BY <1>4, <2>1, <3>2, <3>4
      <4>2. Local(m, q)
        BY <1>6, <3>3
      <4>3. QED
        BY <4>1, <4>2 DEF Local
    <3>5. CASE ~Lists(f, c)
      <4>1. n.latest[q] = None /\ n.latest[Front(q)] = None
        BY <1>5, <2>1, <3>2, <3>5
      <4>2. QED
        BY <4>1 DEF Local, Under, Lists
    <3>6. QED
      BY <3>4, <3>5
  <2>5. QED
    BY <2>3, <2>4
<1>7. Known(n)
  <2> SUFFICES ASSUME NEW q \in Path, n.latest[q] # None PROVE q \in n.known
    BY DEF Known
  <2>1. \A c \in removed : q \notin Below(c)
    BY <1>5
  <2>2. q \in m.known \cup Above(p)
    <3>1. CASE q = p
      BY <3>1, PrefixFacts DEF Above
    <3>2. CASE q # p
      BY <1>1, <3>2 DEF Known
    <3>3. QED
      BY <3>1, <3>2
  <2>3. QED
    BY <1>2, <2>1, <2>2
<1>8. QED
  BY <1>1, <1>6, <1>7

\* Without the histories: a new snapshot is what it is said to be.
LEMMA SnapshotOfIs ==
    ASSUME NEW p, NEW kind, NEW mode, NEW contents, NoneIsNoSnapshot,
           NEW h, h = SnapshotOf(p, kind, mode, contents)
    PROVE  h # None /\ h.kind = kind /\ h.mode = mode /\ h.contents = contents
<1> PICK prev : prev = paths.latest[p]
  OBVIOUS
<1>1. CASE prev # None /\ prev.kind = kind /\ prev.mode = mode /\ prev.contents = contents
  BY <1>1 DEF SnapshotOf
<1>2. CASE ~(prev # None /\ prev.kind = kind /\ prev.mode = mode /\ prev.contents = contents)
  <2> PICK ps : ps = IF prev = None THEN <<>> ELSE <<prev>>
    OBVIOUS
  <2>1. h = [kind |-> kind, mode |-> mode, contents |-> contents, parents |-> ps]
    BY <1>2 DEF SnapshotOf
  <2>2. h # None
    BY <2>1 DEF NoneIsNoSnapshot
  <2>3. QED
    BY <2>1, <2>2
<1>3. QED
  BY <1>1, <1>2

-----------------------------------------------------------------------------
\* Recording h at p makes the mappings from p on the tree of h, and leaves
\* alone what is not below p.
TreeAt(m, n, p, h) ==
    /\ IsMap(n) /\ Known(n) /\ n.latest[p] = h
    /\ \A q \in Path : q \notin Below(p) => n.latest[q] = m.latest[q]
    /\ \A q \in Below(p) : q # p => Local(n, q)

\* What makes it so: the mappings of the entries of h are those that h lists,
\* and whatever is not an entry of h has the mapping that its directory says.
ReadyFor(m, p, h) ==
    /\ IsMap(m) /\ Known(m)
    /\ \A q \in Below(p) : q # p /\ Front(q) # p => Local(m, q)
    /\ \A c \in Children(p) : IF Lists(h, c) THEN m.latest[c] = h.contents[Last(c)]
                              ELSE Local(m, c)

\* StoreSnapshot makes the mappings below p the tree of h,
LEMMA StoreMakesTree ==
    ASSUME NEW m, NEW p \in Path, NEW h, ReadyFor(m, p, h)
    PROVE  TreeAt(m, StoreSnapshot(m, p, h), p, h)
<1> PICK n : n = StoreSnapshot(m, p, h)
  OBVIOUS
<1>1. /\ IsMap(m) /\ Known(m)
      /\ \A q \in Below(p) : q # p /\ Front(q) # p => Local(m, q)
      /\ \A c \in Children(p) : Lists(h, c) => m.latest[c] = h.contents[Last(c)]
  BY DEF ReadyFor
<1>2. /\ IsMap(n) /\ Known(n) /\ n.latest[p] = h
      /\ \A q \in Path : q \notin Below(p) => n.latest[q] = m.latest[q]
      /\ \A q \in Below(p) : q # p => Local(n, q)
  BY <1>1, StoreSnapshotMakesTree
<1>3. QED
  BY <1>2 DEF TreeAt

\* and so does Record, which leaves alone what is the tree of h already.
LEMMA RecordMakesTree ==
    ASSUME NEW p \in Path, NEW h, ReadyFor(paths, p, h), Record(p, h)
    PROVE  TreeAt(paths, paths', p, h)
<1>1. CASE paths.latest[p] # h
  <2>1. paths' = StoreSnapshot(paths, p, h)
    BY <1>1 DEF Record
  <2>2. TreeAt(paths, StoreSnapshot(paths, p, h), p, h)
    BY StoreMakesTree
  <2>3. QED
    BY <2>1, <2>2
<1>2. CASE paths.latest[p] = h
  <2> PICK m : m = paths
    OBVIOUS
  <2>1. paths' = m /\ m.latest[p] = h
    BY <1>2 DEF Record
  <2>2. ASSUME NEW q \in Below(p), q # p PROVE Local(m, q)
    <3>1. CASE Front(q) # p
      BY <2>2, <3>1 DEF ReadyFor
    <3>2. CASE Front(q) = p
      <4>1. q # Top
        <5>1. q \in Path /\ IsPrefix(p, q)
          BY DEF Below
        <5>2. Len(p) \in Nat /\ (q = Top => Len(q) = 0) /\ Len(p) <= Len(q)
          BY <5>1, PrefixFacts, PathIsSeq
        <5>3. QED
          BY <2>2, <5>1, <5>2, PathIsSeq
      <4>2. q \in Children(p)
        BY <3>2, <4>1 DEF Children, Below, Top
      <4>3. CASE Lists(h, q)
        <5>1. m.latest[q] = h.contents[Last(q)]
          BY <4>2, <4>3 DEF ReadyFor
        <5>2. QED
          BY <2>1, <3>2, <4>3, <5>1 DEF Local, Under
      <4>4. CASE ~Lists(h, q)
        BY <4>2, <4>4 DEF ReadyFor
      <4>5. QED
        BY <4>3, <4>4
    <3>3. QED
      BY <3>1, <3>2
  <2>3. IsMap(m) /\ Known(m)
    BY DEF ReadyFor
  <2>4. QED
    BY <2>1, <2>2, <2>3 DEF TreeAt
<1>3. QED
  BY <1>1, <1>2

\* Outside of p, what was the mapping that the directory above says remains so.
LEMMA TreeAtOutside ==
    ASSUME NEW m, NEW n, NEW p \in Path, NEW h, TreeAt(m, n, p, h),
           NEW q \in Path, q # Top, q \notin Below(p)
    PROVE  n.latest[q] = m.latest[q] /\ (Local(m, q) => Local(n, q))
<1>1. Front(q) \in Path /\ Front(q) \notin Below(p)
  BY OutsideIsAboveOutside
<1>2. n.latest[q] = m.latest[q] /\ n.latest[Front(q)] = m.latest[Front(q)]
  BY <1>1 DEF TreeAt
<1>3. QED
  BY <1>2 DEF Local

AllLocal(m) == \A q \in Path : q # Top => Local(m, q)

\* A tree at the top is the tree of everything.
LEMMA TreeAtTop ==
    ASSUME NEW m, NEW n, NEW h, TreeAt(m, n, Top, h)
    PROVE  AllLocal(n)
<1>1. \A q \in Path : q \in Below(Top)
  BY PrefixFacts DEF Below
<1>2. QED
  BY <1>1 DEF TreeAt, AllLocal

\* The paths below p that are not its entries are longer.
LEMMA DeeperIsLonger ==
    ASSUME NEW p \in Path, NEW q \in Below(p), q # p
    PROVE  /\ q \in Path /\ q # Top /\ Len(q) \in Nat /\ Len(p) \in Nat /\ Len(q) > Len(p)
           /\ Front(q) # p => Len(q) > Len(p) + 1
<1>1. q \in Path /\ IsPrefix(p, q)
  BY DEF Below
<1>2. Len(p) \in Nat /\ Len(q) \in Nat /\ Len(p) <= Len(q) /\ Len(p) # Len(q)
  BY <1>1, PrefixFacts, PathIsSeq
<1>3. q # Top
  BY <1>1, <1>2, PathIsSeq
<1>4. Front(q) \in Path /\ Len(Front(q)) = Len(q) - 1 /\ IsPrefix(p, Front(q))
  BY <1>1, <1>3, FrontOfPath, PrefixOfFront
<1>5. Front(q) # p => Len(p) # Len(q) - 1
  BY <1>4, PrefixFacts
<1>6. QED
  BY <1>1, <1>2, <1>3, <1>5

-----------------------------------------------------------------------------
\* The entry q has been found by the calls s of snapshot.Current.
FoundIn(s, q) ==
    /\ Len(q) \in 1..Len(s) /\ s[Len(q)].path = Front(q)
    /\ Last(q) \in DOMAIN s[Len(q)].found

\* The mapping of what has been found is new, the others are as before.
CurrentMappings(m, s) ==
    \A q \in Path : q # Top =>
        IF FoundIn(s, q) THEN m.latest[q] = s[Len(q)].found[Last(q)] ELSE Local(m, q)

\* The entry q has been checked out by the calls s of Checkout.
DoneIn(s, q) ==
    /\ Len(q) \in 1..Len(s) /\ s[Len(q)].path = Front(q)
    /\ Lists(s[Len(q)].snapshot, q) /\ q \notin s[Len(q)].left
    /\ Len(q) + 1 \in 1..Len(s) => s[Len(q) + 1].path # q

CheckoutMappings(m, s) ==
    \A q \in Path : q # Top =>
        IF DoneIn(s, q) THEN m.latest[q] = Under(s[Len(q)].snapshot, q) ELSE Local(m, q)

MappingsInv ==
    /\ IsMap(paths)
    /\ ~interrupted =>
          /\ Known(paths)
          /\ command.pc \in {"idle", "merge", "remove"} => AllLocal(paths)
          /\ \A src, s : command = Current(src, s) => CurrentMappings(paths, s)
          /\ \A h, s : command = Checkout(h, s) => CheckoutMappings(paths, s)

\* A stack is as deep as the path at its top.
LEMMA EntryDepth ==
    ASSUME NEW s, Stacked(s), NEW p \in Path, EntryOf(s, p)
    PROVE  /\ Len(p) = Len(s) /\ Len(p) \in Nat
           /\ s # <<>> => p # Top /\ Len(p) \in 1..Len(s) /\ s[Len(p)].path = Front(p)
<1>1. CASE s = <<>>
  BY <1>1, EmptyStack, PathIsSeq DEF EntryOf
<1>2. CASE s # <<>>
  <2>1. Len(s) \in 1..Len(s) /\ p \in s[Len(s)].left /\ Len(s) \in Nat
    BY <1>2, StackLength DEF EntryOf
  <2>2. s[Len(s)].path \in Path /\ Len(s[Len(s)].path) = Len(s) - 1 /\ p \in Children(s[Len(s)].path)
    BY <2>1, FrameOfStack
  <2>3. p # Top /\ Front(p) = s[Len(s)].path /\ Len(p) = Len(s[Len(s)].path) + 1
    BY <2>2, ChildOfPath
  <2>4. Len(p) = Len(s)
    BY <2>1, <2>2, <2>3
  <2>5. QED
    BY <2>1, <2>3, <2>4
<1>3. QED
  BY <1>1, <1>2

\* So is the directory that is at its end.
LEMMA FrameDepth ==
    ASSUME NEW s, Stacked(s), s # <<>>
    PROVE  LET p == s[Len(s)].path
           IN  /\ p \in Path /\ Len(p) = Len(s) - 1 /\ Len(p) \in Nat /\ Len(s) \in 1..Len(s)
               /\ Len(Front(s)) = Len(s) - 1
               /\ Front(s) # <<>> => /\ Len(p) \in 1..Len(Front(s)) /\ p # Top
                                     /\ s[Len(p)].path = Front(p)
<1> PICK p : p = s[Len(s)].path
  OBVIOUS
<1> PICK t : t = Front(s)
  OBVIOUS
<1>1. Len(s) \in 1..Len(s) /\ Len(s) \in Nat
  BY StackLength
<1>2. p \in Path /\ Len(p) = Len(s) - 1 /\ Len(p) \in Nat
  BY <1>1, FrameOfStack, PathIsSeq
<1>3. /\ Stacked(t) /\ Len(t) = Len(s) - 1
      /\ \A i \in 1..Len(t) : t[i] = s[i]
      /\ t # <<>> => p \in Children(t[Len(t)].path)
  BY StackPop
<1>4. ASSUME t # <<>>
      PROVE  Len(p) \in 1..Len(t) /\ p # Top /\ s[Len(p)].path = Front(p)
  <2>1. Len(t) \in 1..Len(t) /\ t[Len(t)].path \in Path
    BY <1>3, <1>4, StackLength, FrameOfStack
  <2>2. p # Top /\ Front(p) = t[Len(t)].path
    BY <1>3, <1>4, <2>1, ChildOfPath
  <2>3. t[Len(t)] = s[Len(p)] /\ Len(p) = Len(t)
    BY <1>2, <1>3, <2>1
  <2>4. QED
    BY <2>1, <2>2, <2>3
<1>5. QED
  BY <1>1, <1>2, <1>3, <1>4

\* Where no frame is, nothing has been found or checked out.
LEMMA NothingFound ==
    ASSUME NEW s, NEW q, ~(Len(q) \in 1..Len(s))
    PROVE  ~FoundIn(s, q) /\ ~DoneIn(s, q)
BY DEF FoundIn, DoneIn

\* Without calls, every mapping is what its directory says.
LEMMA WithoutCalls ==
    ASSUME NEW m
    PROVE  (CurrentMappings(m, <<>>) <=> AllLocal(m)) /\ (CheckoutMappings(m, <<>>) <=> AllLocal(m))
<1>1. 1..0 = {} /\ Len(<<>>) = 0
  BY EmptyStack
<1>2. QED
  BY <1>1, NothingFound DEF CurrentMappings, CheckoutMappings, AllLocal

-----------------------------------------------------------------------------
\* An entry of a directory that is being looked at has been recorded.
LEMMA FoundOne ==
    ASSUME NEW m, NEW n, NEW s, NEW t, CurrentCalls(t), t # <<>>,
           NEW p \in Path, p # Top, NEW h, h # None, TreeAt(m, n, p, h),
           Len(p) = Len(t), t[Len(t)].path = Front(p), CurrentMappings(m, s),
           \A q \in Path : q # Top /\ q \notin Below(p) =>
               /\ FoundIn(t, q) <=> FoundIn(s, q)
               /\ FoundIn(t, q) => t[Len(q)].found[Last(q)] = s[Len(q)].found[Last(q)]
    PROVE  CurrentMappings(n, WithFound(t, p, h))
<1> PICK u : u = WithFound(t, p, h)
  OBVIOUS
<1>1. /\ Len(u) = Len(t)
      /\ \A i \in 1..Len(t) : u[i].path = t[i].path /\ (i # Len(t) => u[i] = t[i])
      /\ u[Len(t)].found = WithEntry(t[Len(t)].found, Last(p), h)
  BY WithFoundStack
<1>2. Len(t) \in 1..Len(t) /\ Len(t) \in Nat
  BY StackLength DEF CurrentCalls
<1> SUFFICES ASSUME NEW q \in Path, q # Top
             PROVE  IF FoundIn(u, q) THEN n.latest[q] = u[Len(q)].found[Last(q)] ELSE Local(n, q)
  BY DEF CurrentMappings
<1>3. /\ DOMAIN u[Len(t)].found = {Last(p)} \cup DOMAIN t[Len(t)].found
      /\ u[Len(t)].found[Last(p)] = h
      /\ \A x \in DOMAIN t[Len(t)].found : x # Last(p) =>
            u[Len(t)].found[x] = t[Len(t)].found[x]
  BY <1>1 DEF WithEntry
<1>4. CASE q = p
  <2>1. FoundIn(u, q) /\ u[Len(q)].found[Last(q)] = h
    BY <1>1, <1>2, <1>3, <1>4 DEF FoundIn
  <2>2. QED
    BY <1>4, <2>1 DEF TreeAt
<1>5. CASE q \in Below(p) /\ q # p
  <2>1. ~(Len(q) \in 1..Len(u))
    BY <1>1, <1>2, <1>5, DeeperIsLonger
  <2>2. ~FoundIn(u, q)
    BY <2>1, NothingFound
  <2>3. QED
    BY <1>5, <2>2 DEF TreeAt
<1>6. CASE q \notin Below(p)
  <2>1. n.latest[q] = m.latest[q] /\ (Local(m, q) => Local(n, q))
    BY <1>6, TreeAtOutside
  <2>2. q # p
    BY <1>6, PrefixFacts DEF Below
  <2>3. /\ FoundIn(u, q) <=> FoundIn(t, q)
        /\ FoundIn(u, q) => u[Len(q)].found[Last(q)] = t[Len(q)].found[Last(q)]
    <3>1. CASE Len(q) \in 1..Len(t) /\ Len(q) # Len(t)
      BY <1>1, <3>1 DEF FoundIn
    <3>2. CASE Len(q) = Len(t) /\ Front(q) = Front(p)
      <4>1. Last(q) # Last(p)
        <5>1. q = Append(Front(q), Last(q)) /\ p = Append(Front(p), Last(p))
          BY FrontOfPath
        <5>2. QED
          BY <2>2, <3>2, <5>1
      <4>2. QED
        BY <1>1, <1>2, <1>3, <3>2, <4>1 DEF FoundIn
    <3>3. CASE Len(q) = Len(t) /\ Front(q) # Front(p)
      BY <1>1, <1>2, <3>3 DEF FoundIn
    <3>4. CASE ~(Len(q) \in 1..Len(t))
      BY <1>1, <3>4 DEF FoundIn
    <3>5. QED
      BY <3>1, <3>2, <3>3, <3>4
  <2>4. IF FoundIn(s, q) THEN m.latest[q] = s[Len(q)].found[Last(q)] ELSE Local(m, q)
    BY DEF CurrentMappings
  <2>5. QED
    BY <1>6, <2>1, <2>3, <2>4
<1>7. QED
  BY <1>4, <1>5, <1>6

\* How recording h at p and returning it keeps the mappings.
LEMMA ReturnsMappings ==
    ASSUME MappingsInv, NEW src, NEW s, NEW t, CurrentCalls(t),
           command = Current(src, s), NEW p \in Path, NEW h, h # None,
           Returns(src, t, p, h), interrupted' = interrupted,
           IsMap(paths'), ~interrupted => TreeAt(paths, paths', p, h),
           t = <<>> => p = Top,
           t # <<>> => p # Top /\ Len(p) = Len(t) /\ t[Len(t)].path = Front(p),
           \A q \in Path : q # Top /\ q \notin Below(p) =>
               /\ FoundIn(t, q) <=> FoundIn(s, q)
               /\ FoundIn(t, q) => t[Len(q)].found[Last(q)] = s[Len(q)].found[Last(q)]
    PROVE  MappingsInv'
<1>1. CASE interrupted
  BY <1>1 DEF MappingsInv
<1>2. CASE ~interrupted
  <2>1. TreeAt(paths, paths', p, h) /\ CurrentMappings(paths, s)
    BY <1>2 DEF MappingsInv
  <2>2. Known(paths')
    BY <2>1 DEF TreeAt
  <2>3. CASE t # <<>>
    <3>1. CurrentMappings(paths', WithFound(t, p, h))
      BY <2>1, <2>3, FoundOne
    <3>2. command' = Current(src, WithFound(t, p, h))
      BY <2>3 DEF Returns
    <3>3. /\ command'.pc = "current" /\ command'.stack = WithFound(t, p, h)
          /\ \A x, y : Current(x, y).stack = y /\ Checkout(x, y).pc = "checkout"
      BY <3>2 DEF Current, Checkout
    <3>4. QED
      BY <2>2, <3>1, <3>3 DEF MappingsInv
  <2>4. CASE t = <<>>
    <3>1. AllLocal(paths')
      BY <2>1, <2>4, TreeAtTop
    <3>2. \/ command' = Idle \/ command' = Merging(src, h)
          \/ command' = Checkout(src, <<>>)
      BY <2>4 DEF Returns
    <3>3. /\ command'.pc # "current"
          /\ \A x, y : Current(x, y).pc = "current"
          /\ \A x, y : command' = Checkout(x, y) => y = <<>>
      BY <3>2 DEF Idle, Merging, Checkout, Current
    <3>4. CheckoutMappings(paths', <<>>)
      BY <3>1, WithoutCalls
    <3>5. QED
      BY <2>2, <3>1, <3>3, <3>4 DEF MappingsInv
  <2>5. QED
    BY <2>3, <2>4
<1>3. QED
  BY <1>1, <1>2

\* What the invariant says amid a snapshot,
LEMMA MappingsOfCurrent ==
    ASSUME IsMap(paths'), NEW src, NEW u, command' = Current(src, u),
           ~interrupted' => Known(paths') /\ CurrentMappings(paths', u)
    PROVE  MappingsInv'
<1>1. command'.pc = "current" /\ command'.stack = u
  BY DEF Current
<1>2. \A x, y : /\ Current(x, y).pc = "current" /\ Current(x, y).stack = y
                /\ Checkout(x, y).pc = "checkout" 
  BY DEF Current, Checkout
<1>3. command'.pc \notin {"idle", "merge", "remove"} /\ \A x, y : command' # Checkout(x, y)
  BY <1>1, <1>2
<1>4. \A x, y : command' = Current(x, y) => y = u
  BY <1>1, <1>2
<1>5. QED
  BY <1>3, <1>4 DEF MappingsInv

\* amid a checkout,
LEMMA MappingsOfCheckout ==
    ASSUME IsMap(paths'), NEW h, NEW u, command' = Checkout(h, u),
           ~interrupted' => Known(paths') /\ CheckoutMappings(paths', u)
    PROVE  MappingsInv'
<1>1. command'.pc = "checkout" /\ command'.stack = u
  BY DEF Checkout
<1>2. \A x, y : /\ Checkout(x, y).pc = "checkout" /\ Checkout(x, y).stack = y
                /\ Current(x, y).pc = "current" 
  BY DEF Current, Checkout
<1>3. command'.pc \notin {"idle", "merge", "remove"} /\ \A x, y : command' # Current(x, y)
  BY <1>1, <1>2
<1>4. \A x, y : command' = Checkout(x, y) => y = u
  BY <1>1, <1>2
<1>5. QED
  BY <1>3, <1>4 DEF MappingsInv

\* and otherwise.
LEMMA MappingsOfOthers ==
    ASSUME IsMap(paths'), command'.pc \in {"idle", "merge", "remove"},
           ~interrupted' => Known(paths') /\ AllLocal(paths')
    PROVE  MappingsInv'
<1>1. \A x, y : Current(x, y).pc = "current" /\ Checkout(x, y).pc = "checkout" 
  BY DEF Current, Checkout
<1>2. \A x, y : command' # Current(x, y) /\ command' # Checkout(x, y)
  BY <1>1
<1>3. QED
  BY <1>2 DEF MappingsInv

\* The snapshot of an entry is recorded after those of all below it.
LEMMA CurrentEntryMappings ==
    ASSUME NoneIsNoSnapshot, CommandInv, MappingsInv, NEW p \in Path, CurrentEntry(p)
    PROVE  MappingsInv'
<1>1. PICK src \in Sources \cup {None} : \E s, t : CurrentEntryOf(src, s, t, p)
  BY CurrentEntryIs
<1>2. PICK s, t : CurrentEntryOf(src, s, t, p)
  BY <1>1
<1>3. /\ command = Current(src, s) /\ CurrentCalls(s) /\ EntryOf(s, p)
      /\ t = CurrentTaken(s, p) /\ interrupted' = interrupted
  BY <1>2 DEF CurrentEntryOf
<1>4. /\ CurrentCalls(t) /\ Len(t) = Len(s) /\ (t = <<>> <=> s = <<>>)
      /\ t = <<>> => p = Top
      /\ t # <<>> => p \in Children(t[Len(t)].path) /\ p \notin t[Len(t)].left
      /\ \A i \in 1..Len(s) : t[i].path = s[i].path /\ t[i].found = s[i].found
  BY <1>3, CurrentTakenStack
<1>5. /\ Len(p) = Len(t) /\ Len(p) \in Nat
      /\ t # <<>> => p # Top /\ t[Len(t)].path = Front(p)
  <2>1. /\ Len(p) = Len(s) /\ Len(p) \in Nat
        /\ s # <<>> => p # Top /\ Len(p) \in 1..Len(s) /\ s[Len(p)].path = Front(p)
    BY <1>3, EntryDepth DEF CurrentCalls
  <2>2. QED
    BY <1>4, <2>1
<1>6. \A q \in Path : /\ FoundIn(t, q) <=> FoundIn(s, q)
                      /\ FoundIn(t, q) => t[Len(q)].found[Last(q)] = s[Len(q)].found[Last(q)]
  BY <1>4 DEF FoundIn
<1>7. IsMap(paths) /\ (~interrupted => Known(paths) /\ CurrentMappings(paths, s))
  BY <1>3 DEF MappingsInv
<1>8. /\ \A x, y : Current(x, y).pc = "current" /\ Current(x, y).stack = y
      /\ \A x, y : Checkout(x, y).pc = "checkout" /\ Checkout(x, y).stack = y
      /\ \A x, y : Merging(x, y).pc = "merge"
      /\ Idle.pc = "idle"
  BY DEF Current, Checkout, Merging, Idle
<1>9. CASE CurrentNothingOf(src, t, p)
  <2>1. Returns(src, t, p, None) /\ paths' = paths
    BY <1>9 DEF CurrentNothingOf
  <2>2. CASE t # <<>>
    <3>1. command' = Current(src, t)
      BY <2>1, <2>2 DEF Returns, WithFound
    <3>2. ~interrupted => CurrentMappings(paths, t)
      BY <1>6, <1>7 DEF CurrentMappings
    <3>3. QED
      BY <1>3, <1>7, <1>8, <2>1, <3>1, <3>2 DEF MappingsInv
  <2>3. CASE t = <<>>
    <3>1. command' = Idle \/ command' = Checkout(src, <<>>)
      BY <2>1, <2>3 DEF Returns
    <3>2. ~interrupted => AllLocal(paths)
      BY <1>4, <1>7, <2>3, WithoutCalls
    <3>3. ~interrupted => CheckoutMappings(paths, <<>>)
      BY <3>2, WithoutCalls
    <3>4. \A x, y : command' = Checkout(x, y) => y = <<>>
      BY <1>8, <3>1
    <3>5. QED
      BY <1>3, <1>7, <1>8, <2>1, <3>1, <3>2, <3>3, <3>4 DEF MappingsInv
  <2>4. QED
    BY <2>2, <2>3
<1>10. CASE CurrentDirectoryEntryOf(src, t, p)
  <2> PICK m : m = files[p].mode
    OBVIOUS
  <2> PICK left : left = {c \in Children(p) : files[c] # None}
    OBVIOUS
  <2> PICK f : f = [path |-> p, mode |-> m, found |-> <<>>, left |-> left]
    OBVIOUS
  <2> PICK u : u = Append(t, f)
    OBVIOUS
  <2>1. command' = Current(src, u) /\ paths' = paths
    BY <1>10 DEF CurrentDirectoryEntryOf
  <2>2. /\ Len(u) = Len(t) + 1 /\ u[Len(t) + 1] = f
        /\ \A i \in 1..Len(t) : u[i] = t[i]
    BY <1>4, CurrentPushStack
  <2>3. f.found = <<>> /\ DOMAIN f.found = {}
    OBVIOUS
  <2>4. ASSUME NEW q \in Path
        PROVE  /\ FoundIn(u, q) <=> FoundIn(s, q)
               /\ FoundIn(u, q) => u[Len(q)].found[Last(q)] = s[Len(q)].found[Last(q)]
    <3>1. CASE Len(q) \in 1..Len(t)
      <4>1. u[Len(q)] = t[Len(q)] /\ Len(q) \in 1..Len(u)
        BY <1>5, <2>2, <3>1
      <4>2. FoundIn(u, q) <=> FoundIn(t, q)
        BY <3>1, <4>1 DEF FoundIn
      <4>3. QED
        BY <1>6, <4>1, <4>2
    <3>2. CASE Len(q) = Len(t) + 1
      <4>1. ~FoundIn(u, q)
        BY <2>2, <2>3, <3>2 DEF FoundIn
      <4>2. ~(Len(q) \in 1..Len(s))
        BY <1>4, <1>5, <3>2
      <4>3. QED
        BY <4>1, <4>2, NothingFound
    <3>3. CASE ~(Len(q) \in 1..Len(t)) /\ Len(q) # Len(t) + 1
      <4>1. ~(Len(q) \in 1..Len(u)) /\ ~(Len(q) \in 1..Len(s))
        BY <1>4, <1>5, <2>2, <3>3
      <4>2. QED
        BY <4>1, NothingFound
    <3>4. QED
      BY <3>1, <3>2, <3>3
  <2>5. ~interrupted => CurrentMappings(paths, u)
    BY <1>7, <2>4 DEF CurrentMappings
  <2>6. QED
    BY <1>3, <1>7, <2>1, <2>5, MappingsOfCurrent
<1>11. ASSUME NEW h, CurrentFileOf(src, t, p, h)
       PROVE  MappingsInv'
  <2>1. /\ files[p].kind # "dir" /\ Record(p, h) /\ Returns(src, t, p, h)
        /\ h = SnapshotOf(p, files[p].kind, files[p].mode, files[p].data)
    BY <1>11 DEF CurrentFileOf
  <2>2. h # None /\ h.kind # "dir"
    BY <2>1, SnapshotOfIs
  <2>3. ASSUME ~interrupted PROVE ReadyFor(paths, p, h)
    <3>1. ASSUME NEW q \in Below(p), q # p PROVE Local(paths, q)
      <4>1. q \in Path /\ q # Top /\ ~(Len(q) \in 1..Len(s))
        BY <1>4, <1>5, <3>1, DeeperIsLonger
      <4>2. QED
        BY <1>7, <2>3, <4>1, NothingFound DEF CurrentMappings
    <3>2. ASSUME NEW c \in Children(p)
          PROVE  Local(paths, c) /\ ~Lists(h, c)
      <4>1. c \in Below(p) /\ c # p
        <5>1. c \in Path /\ c # Top /\ Front(c) = p
          BY ChildOfPath
        <5>2. c \in Below(c)
          BY <5>1, PrefixFacts DEF Below
        <5>3. QED
          BY <5>2, BelowChild
      <4>2. QED
        BY <2>2, <3>1, <4>1 DEF Lists
    <3>3. QED
      BY <1>7, <2>3, <3>1, <3>2 DEF ReadyFor
  <2>4. ~interrupted => TreeAt(paths, paths', p, h)
    BY <2>1, <2>3, RecordMakesTree
  <2>5. IsMap(paths')
    BY <1>7, <2>1, RecordAtTop
  <2>6. QED
    BY <1>3, <1>4, <1>5, <1>6, <2>1, <2>2, <2>4, <2>5, ReturnsMappings
<1>12. QED
  BY <1>2, <1>9, <1>10, <1>11 DEF CurrentEntryOf

\* A directory is recorded with the entries that have been recorded.
LEMMA CurrentDirectoryMappings ==
    ASSUME NoneIsNoSnapshot, CommandInv, MappingsInv, CurrentDirectory
    PROVE  MappingsInv'
<1>0. PICK src \in Sources \cup {None} : \E p \in Path : \E s, h : CurrentDirectoryOf(src, s, p, h)
  BY CurrentDirectoryIs
<1>1. PICK p \in Path : \E s, h : CurrentDirectoryOf(src, s, p, h)
  BY <1>0
<1>2. PICK s, h : CurrentDirectoryOf(src, s, p, h)
  BY <1>1
<1> PICK t : t = Front(s)
  OBVIOUS
<1>3. /\ command = Current(src, s) /\ CurrentCalls(s) /\ s # <<>> /\ p = s[Len(s)].path
      /\ h = SnapshotOf(p, "dir", s[Len(s)].mode, s[Len(s)].found)
      /\ interrupted' = interrupted /\ Record(p, h) /\ Returns(src, t, p, h)
  BY <1>2 DEF CurrentDirectoryOf
<1>4. /\ CurrentCalls(t) /\ Len(t) = Len(s) - 1
      /\ \A i \in 1..Len(t) : i \in 1..Len(s) /\ t[i] = s[i]
      /\ t = <<>> => p = Top
  BY <1>3, CurrentPopStack
<1>5. /\ Len(p) = Len(t) /\ Len(p) \in Nat /\ Len(s) = Len(p) + 1 /\ Len(s) \in 1..Len(s)
      /\ t # <<>> => p # Top /\ t[Len(t)].path = Front(p)
  <2>1. /\ Len(p) = Len(s) - 1 /\ Len(p) \in Nat /\ Len(s) \in 1..Len(s)
        /\ t # <<>> => Len(p) \in 1..Len(t) /\ p # Top /\ s[Len(p)].path = Front(p)
    BY <1>3, FrameDepth DEF CurrentCalls
  <2>2. QED
    BY <1>4, <2>1
<1>6. IsMap(paths) /\ (~interrupted => Known(paths) /\ CurrentMappings(paths, s))
  BY <1>3 DEF MappingsInv
<1>7. h # None /\ h.kind = "dir" /\ h.contents = s[Len(s)].found
  BY <1>3, SnapshotOfIs
<1>8. ASSUME NEW q \in Path, q # Top, q \notin Below(p)
      PROVE  /\ FoundIn(t, q) <=> FoundIn(s, q)
             /\ FoundIn(t, q) => t[Len(q)].found[Last(q)] = s[Len(q)].found[Last(q)]
  <2>1. CASE Len(q) \in 1..Len(t)
    BY <1>4, <2>1 DEF FoundIn
  <2>2. CASE Len(q) = Len(s)
    <3>1. Front(q) # p
      BY <1>8, PrefixOfFront, PrefixFacts DEF Below
    <3>2. ~FoundIn(s, q)
      BY <1>3, <2>2, <3>1 DEF FoundIn
    <3>3. ~(Len(q) \in 1..Len(t))
      BY <1>4, <1>5, <2>2
    <3>4. QED
      BY <3>2, <3>3, NothingFound
  <2>3. CASE ~(Len(q) \in 1..Len(t)) /\ Len(q) # Len(s)
    <3>1. ~(Len(q) \in 1..Len(s))
      BY <1>4, <1>5, <2>3
    <3>2. QED
      BY <2>3, <3>1, NothingFound
  <2>4. QED
    BY <2>1, <2>2, <2>3
<1>9. ASSUME ~interrupted PROVE ReadyFor(paths, p, h)
  <2>1. ASSUME NEW q \in Below(p), q # p, Front(q) # p PROVE Local(paths, q)
    <3>1. q \in Path /\ q # Top /\ ~(Len(q) \in 1..Len(s))
      BY <1>5, <2>1, DeeperIsLonger
    <3>2. QED
      BY <1>6, <1>9, <3>1, NothingFound DEF CurrentMappings
  <2>2. ASSUME NEW c \in Children(p)
        PROVE  IF Lists(h, c) THEN paths.latest[c] = h.contents[Last(c)] ELSE Local(paths, c)
    <3>1. c \in Path /\ c # Top /\ Front(c) = p /\ Len(c) = Len(s)
      BY <1>5, ChildOfPath
    <3>2. FoundIn(s, c) <=> Lists(h, c)
      BY <1>3, <1>5, <1>7, <3>1 DEF FoundIn, Lists
    <3>3. QED
      BY <1>6, <1>7, <1>9, <3>1, <3>2 DEF CurrentMappings
  <2>3. QED
    BY <1>6, <1>9, <2>1, <2>2 DEF ReadyFor
<1>10. ~interrupted => TreeAt(paths, paths', p, h)
  BY <1>3, <1>9, RecordMakesTree
<1>11. IsMap(paths')
  BY <1>3, <1>6, RecordAtTop
<1>12. QED
  BY <1>3, <1>4, <1>5, <1>7, <1>8, <1>10, <1>11, ReturnsMappings

\* How storing g at p keeps the mappings of a checkout that goes on with the
\* calls t, or ends.
LEMMA CheckoutStores ==
    ASSUME MappingsInv, NEW h, NEW s, NEW t, CheckoutCalls(t, h), command = Checkout(h, s),
           NEW p \in Path, NEW g, interrupted' = interrupted,
           paths' = StoreSnapshot(paths, p, g),
           ~interrupted => ReadyFor(paths, p, g),
           t = <<>> => p = Top /\ command' = Idle,
           t # <<>> => /\ p # Top /\ command' = Checkout(h, t)
                       /\ Len(p) = Len(t) /\ t[Len(t)].path = Front(p)
                       /\ p \notin t[Len(t)].left
                       /\ g = Under(t[Len(t)].snapshot, p) /\ Lists(t[Len(t)].snapshot, p),
           \A q \in Path : q # Top /\ q \notin Below(p) =>
               /\ DoneIn(t, q) <=> DoneIn(s, q)
               /\ DoneIn(t, q) => t[Len(q)].snapshot = s[Len(q)].snapshot
    PROVE  MappingsInv'
<1>1. IsMap(paths')
  <2>1. IsMap(paths)
    BY DEF MappingsInv
  <2>2. IsMap(StoreSnapshot(paths, p, g))
    BY <2>1, StoreSnapshotIs
  <2>3. QED
    BY <2>2
<1>2. ASSUME ~interrupted
      PROVE  TreeAt(paths, paths', p, g) /\ CheckoutMappings(paths, s)
  <2>1. TreeAt(paths, StoreSnapshot(paths, p, g), p, g)
    BY <1>2, StoreMakesTree
  <2>2. QED
    BY <1>2, <2>1 DEF MappingsInv
<1>3. CASE t = <<>>
  <2>1. command'.pc = "idle"
    BY <1>3 DEF Idle
  <2>2. ~interrupted => Known(paths') /\ AllLocal(paths')
    BY <1>2, <1>3, TreeAtTop DEF TreeAt
  <2>3. QED
    BY <1>1, <2>1, <2>2, MappingsOfOthers
<1>4. CASE t # <<>>
  <2> PICK m : m = paths
    OBVIOUS
  <2> PICK n : n = paths'
    OBVIOUS
  <2>1. Len(t) \in 1..Len(t) /\ Len(t) \in Nat
    BY <1>4, StackLength DEF CheckoutCalls
  <2>2. ASSUME ~interrupted, NEW q \in Path, q # Top
        PROVE  IF DoneIn(t, q) THEN n.latest[q] = Under(t[Len(q)].snapshot, q) ELSE Local(n, q)
    <3>1. TreeAt(m, n, p, g)
      BY <1>2, <2>2
    <3>2. CASE q = p
      <4>1. Len(q) \in 1..Len(t) /\ ~(Len(q) + 1 \in 1..Len(t))
        BY <1>4, <2>1, <3>2
      <4>2. DoneIn(t, q)
        BY <1>4, <3>2, <4>1 DEF DoneIn
      <4>3. n.latest[q] = g
        BY <3>1, <3>2 DEF TreeAt
      <4>4. QED
        BY <1>4, <3>2, <4>2, <4>3
    <3>3. CASE q \in Below(p) /\ q # p
      <4>1. ~(Len(q) \in 1..Len(t))
        BY <1>4, <2>1, <3>3, DeeperIsLonger
      <4>2. QED
        BY <3>1, <3>3, <4>1, NothingFound DEF TreeAt
    <3>4. CASE q \notin Below(p)
      <4>1. n.latest[q] = m.latest[q] /\ (Local(m, q) => Local(n, q))
        BY <2>2, <3>1, <3>4, TreeAtOutside
      <4>2. IF DoneIn(s, q) THEN m.latest[q] = Under(s[Len(q)].snapshot, q) ELSE Local(m, q)
        BY <1>2, <2>2 DEF CheckoutMappings
      <4>3. QED
        BY <2>2, <3>4, <4>1, <4>2
    <3>5. QED
      BY <3>2, <3>3, <3>4
  <2>3. ~interrupted => CheckoutMappings(paths', t)
    BY <2>2 DEF CheckoutMappings
  <2>4. ~interrupted => Known(paths')
    BY <1>2 DEF TreeAt
  <2>5. QED
    BY <1>1, <1>4, <2>3, <2>4, MappingsOfCheckout
<1>5. QED
  BY <1>3, <1>4

\* Checkout records a file when it has written it,
LEMMA CheckoutEntryMappings ==
    ASSUME ArchivePath = None, CommandInv, MappingsInv, NEW p \in Path, CheckoutEntry(p)
    PROVE  MappingsInv'
<1>1. PICK h, s, t, g : CheckoutEntryOf(h, s, t, p, g)
  BY CheckoutEntryIs
<1>2. /\ command = Checkout(h, s) /\ CheckoutCalls(s, h) /\ EntryOf(s, p)
      /\ t = CheckoutTaken(s, p)
      /\ g = IF s = <<>> THEN h ELSE Under(s[Len(s)].snapshot, p)
  BY <1>1 DEF CheckoutEntryOf
<1>3. /\ CheckoutCalls(t, h) /\ Len(t) = Len(s) /\ (t = <<>> <=> s = <<>>)
      /\ t = <<>> => p = Top
      /\ t # <<>> => /\ p \in Children(t[Len(t)].path) /\ p \notin t[Len(t)].left
                     /\ p \in s[Len(s)].left
                     /\ t[Len(t)].left = s[Len(s)].left \ {p}
                     /\ Lists(s[Len(s)].snapshot, p)
      /\ \A i \in 1..Len(s) : /\ t[i].path = s[i].path /\ t[i].snapshot = s[i].snapshot
                              /\ i # Len(s) => t[i] = s[i]
  BY <1>2, CheckoutTakenStack
<1>4. /\ Len(p) = Len(t) /\ Len(p) \in Nat /\ Len(t) \in Nat
      /\ t # <<>> => p # Top /\ t[Len(t)].path = Front(p) /\ Len(t) \in 1..Len(t)
  <2>1. /\ Len(p) = Len(s) /\ Len(p) \in Nat
        /\ s # <<>> => p # Top /\ Len(p) \in 1..Len(s) /\ s[Len(p)].path = Front(p)
    BY <1>2, EntryDepth DEF CheckoutCalls
  <2>2. QED
    BY <1>3, <2>1
<1>5. t # <<>> => g = Under(t[Len(t)].snapshot, p) /\ Lists(t[Len(t)].snapshot, p)
  BY <1>2, <1>3, <1>4
<1>6. ASSUME NEW q \in Path, q # p
      PROVE  /\ DoneIn(t, q) <=> DoneIn(s, q)
             /\ DoneIn(t, q) => t[Len(q)].snapshot = s[Len(q)].snapshot
  <2>1. CASE Len(q) \in 1..Len(s)
    <3>1. q \notin t[Len(q)].left <=> q \notin s[Len(q)].left
      <4>1. CASE Len(q) = Len(s)
        <5>1. t # <<>>
          BY <1>3, <1>4, <2>1
        <5>2. QED
          BY <1>3, <1>6, <4>1, <5>1
      <4>2. CASE Len(q) # Len(s)
        BY <1>3, <2>1, <4>2
      <4>3. QED
        BY <4>1, <4>2
    <3>2. QED
      BY <1>3, <2>1, <3>1 DEF DoneIn
  <2>2. CASE ~(Len(q) \in 1..Len(s))
    BY <1>3, <2>2, NothingFound
  <2>3. QED
    BY <2>1, <2>2
<1>7. IsMap(paths) /\ (~interrupted => Known(paths) /\ CheckoutMappings(paths, s))
  BY <1>2 DEF MappingsInv
<1>8. CASE CheckoutFailsOf
  <2>1. interrupted' = TRUE /\ paths' = paths
    BY <1>8 DEF CheckoutFailsOf
  <2>2. QED
    BY <1>7, <2>1 DEF MappingsInv
<1>9. CASE CheckoutDirectoryEntryOf(h, t, p, g)
  <2> PICK left : left = {c \in Children(p) : Lists(g, c) /\ ~Excluded(c)}
    OBVIOUS
  <2> PICK f : f = [path |-> p, snapshot |-> g, left |-> left]
    OBVIOUS
  <2> PICK u : u = Append(t, f)
    OBVIOUS
  <2>1. command' = Checkout(h, u) /\ paths' = paths /\ interrupted' = interrupted
    BY <1>9 DEF CheckoutDirectoryEntryOf
  <2>2. /\ f.path = p /\ f.snapshot = g /\ f.left = left
        /\ \A c \in Children(p) : Lists(g, c) => c \in left
    BY DEF Excluded
  <2>3. /\ Len(u) = Len(t) + 1 /\ u[Len(t) + 1] = f
        /\ \A i \in 1..Len(t) : u[i] = t[i]
    <3>1. left \in SUBSET Children(p) /\ \A c \in left : Lists(g, c)
      OBVIOUS
    <3>2. IF t = <<>> THEN p = Top /\ g = h
          ELSE /\ p \in Children(t[Len(t)].path) \ t[Len(t)].left
               /\ g = Under(t[Len(t)].snapshot, p) /\ Lists(t[Len(t)].snapshot, p)
      BY <1>2, <1>3, <1>5
    <3>3. QED
      BY <1>3, <3>1, <3>2, CheckoutPushStack
  <2>4. ASSUME NEW q \in Path, q # Top
        PROVE  /\ DoneIn(u, q) <=> DoneIn(s, q)
               /\ DoneIn(u, q) => u[Len(q)].snapshot = s[Len(q)].snapshot
    <3>1. CASE q = p
      <4>1. ~DoneIn(u, q)
        <5>1. Len(q) + 1 \in 1..Len(u) /\ u[Len(q) + 1].path = q
          BY <1>4, <2>2, <2>3, <3>1
        <5>2. QED
          BY <5>1 DEF DoneIn
      <4>2. ~DoneIn(s, q)
        <5>1. t # <<>> /\ Len(q) = Len(s)
          BY <1>3, <1>4, <2>4, <3>1
        <5>2. QED
          BY <1>3, <3>1, <5>1 DEF DoneIn
      <4>3. QED
        BY <4>1, <4>2
    <3>2. CASE q # p /\ Len(q) \in 1..Len(t)
      <4>1. u[Len(q)] = t[Len(q)] /\ Len(q) \in 1..Len(u)
        BY <1>4, <2>3, <3>2
      <4>2. (Len(q) + 1 \in 1..Len(u) => u[Len(q) + 1].path # q)
              <=> (Len(q) + 1 \in 1..Len(t) => t[Len(q) + 1].path # q)
        <5>1. CASE Len(q) + 1 \in 1..Len(t)
          <6>1. u[Len(q) + 1] = t[Len(q) + 1] /\ Len(q) + 1 \in 1..Len(u)
            BY <1>4, <2>3, <5>1
          <6>2. QED
            BY <5>1, <6>1
        <5>2. CASE ~(Len(q) + 1 \in 1..Len(t))
          <6>1. Len(q) + 1 = Len(t) + 1
            BY <1>4, <3>2, <5>2
          <6>2. u[Len(q) + 1].path # q
            BY <2>2, <2>3, <3>2, <6>1
          <6>3. QED
            BY <5>2, <6>2
        <5>3. QED
          BY <5>1, <5>2
      <4>3. DoneIn(u, q) <=> DoneIn(t, q)
        BY <3>2, <4>1, <4>2 DEF DoneIn
      <4>4. QED
        BY <1>6, <3>2, <4>1, <4>3
    <3>3. CASE q # p /\ Len(q) = Len(t) + 1
      <4>1. ~DoneIn(s, q)
        <5>1. ~(Len(q) \in 1..Len(s))
          BY <1>3, <1>4, <3>3
        <5>2. QED
          BY <5>1, NothingFound
      <4>2. ~DoneIn(u, q)
        <5> SUFFICES ASSUME DoneIn(u, q) PROVE FALSE
          OBVIOUS
        <5>1. u[Len(q)] = f
          BY <2>3, <3>3
        <5>2. p = Front(q) /\ Lists(g, q) /\ q \notin left
          BY <2>2, <5>1 DEF DoneIn
        <5>3. q \in Children(p)
          BY <2>4, <5>2 DEF Children, Top
        <5>4. QED
          BY <2>2, <5>2, <5>3
      <4>3. QED
        BY <4>1, <4>2
    <3>4. CASE ~(Len(q) \in 1..Len(t)) /\ Len(q) # Len(t) + 1
      <4>1. ~(Len(q) \in 1..Len(u)) /\ ~(Len(q) \in 1..Len(s))
        BY <1>3, <1>4, <2>3, <3>4
      <4>2. QED
        BY <4>1, NothingFound
    <3>5. QED
      BY <3>1, <3>2, <3>3, <3>4
  <2>5. ~interrupted => CheckoutMappings(paths, u)
    BY <1>7, <2>4 DEF CheckoutMappings
  <2>6. QED
    BY <1>7, <2>1, <2>5, MappingsOfCheckout
<1>10. CASE CheckoutFileOf(h, t, p, g)
  <2>1. /\ g.kind # "dir" /\ paths' = StoreSnapshot(paths, p, g) /\ interrupted' = interrupted
        /\ IF t = <<>> THEN command' = Idle ELSE command' = Checkout(h, t)
    BY <1>10 DEF CheckoutFileOf
  <2>2. ASSUME ~interrupted PROVE ReadyFor(paths, p, g)
    <3>1. ASSUME NEW q \in Below(p), q # p PROVE Local(paths, q)
      <4>1. q \in Path /\ q # Top /\ ~(Len(q) \in 1..Len(s))
        BY <1>3, <1>4, <3>1, DeeperIsLonger
      <4>2. QED
        BY <1>7, <2>2, <4>1, NothingFound DEF CheckoutMappings
    <3>2. ASSUME NEW c \in Children(p)
          PROVE  Local(paths, c) /\ ~Lists(g, c)
      <4>1. c \in Below(p) /\ c # p
        <5>1. c \in Path /\ c # Top /\ Front(c) = p
          BY ChildOfPath
        <5>2. c \in Below(c)
          BY <5>1, PrefixFacts DEF Below
        <5>3. QED
          BY <5>2, BelowChild
      <4>2. QED
        BY <2>1, <3>1, <4>1 DEF Lists
    <3>3. QED
      BY <1>7, <2>2, <3>1, <3>2 DEF ReadyFor
  <2>3. \A q \in Path : q \notin Below(p) => q # p
    BY PrefixFacts DEF Below
  <2>4. QED
    BY <1>2, <1>3, <1>4, <1>5, <1>6, <2>1, <2>2, <2>3, CheckoutStores
<1>11. QED
  BY <1>1, <1>8, <1>9, <1>10 DEF CheckoutEntryOf

\* and a directory after all of its entries.
LEMMA CheckoutDirectoryMappings ==
    ASSUME CommandInv, MappingsInv, CheckoutDirectory
    PROVE  MappingsInv'
<1>1. PICK h, s : CheckoutDirectoryOf(h, s)
  BY CheckoutDirectoryIs
<1> PICK t : t = Front(s)
  OBVIOUS
<1> PICK p : p = s[Len(s)].path
  OBVIOUS
<1> PICK g : g = s[Len(s)].snapshot
  OBVIOUS
<1>2. /\ command = Checkout(h, s) /\ CheckoutCalls(s, h) /\ s # <<>> /\ s[Len(s)].left = {}
      /\ paths' = StoreSnapshot(paths, p, g) /\ interrupted' = interrupted
      /\ IF Len(s) = 1 THEN command' = Idle ELSE command' = Checkout(h, t)
  BY <1>1 DEF CheckoutDirectoryOf
<1>3. /\ CheckoutCalls(t, h) /\ Len(t) = Len(s) - 1 /\ (t = <<>> <=> Len(s) = 1)
      /\ \A i \in 1..Len(t) : i \in 1..Len(s) /\ i # Len(s) /\ t[i] = s[i]
      /\ t = <<>> => p = Top /\ g = h
      /\ t # <<>> => /\ p \notin t[Len(t)].left /\ p # Top
                     /\ g = Under(t[Len(t)].snapshot, p)
                     /\ Lists(t[Len(t)].snapshot, p)
  BY <1>2, CheckoutPopStack
<1>4. /\ p \in Path /\ Len(p) = Len(t) /\ Len(p) \in Nat /\ Len(s) = Len(p) + 1
      /\ Len(s) \in 1..Len(s)
      /\ t # <<>> => t[Len(t)].path = Front(p)
  <2>1. /\ p \in Path /\ Len(p) = Len(s) - 1 /\ Len(p) \in Nat /\ Len(s) \in 1..Len(s)
        /\ t # <<>> => Len(p) \in 1..Len(t) /\ s[Len(p)].path = Front(p)
    BY <1>2, FrameDepth DEF CheckoutCalls
  <2>2. QED
    BY <1>3, <2>1
<1>5. IsMap(paths) /\ (~interrupted => Known(paths) /\ CheckoutMappings(paths, s))
  BY <1>2 DEF MappingsInv
<1>6. ASSUME NEW q \in Path, q # Top, q \notin Below(p)
      PROVE  /\ DoneIn(t, q) <=> DoneIn(s, q)
             /\ DoneIn(t, q) => t[Len(q)].snapshot = s[Len(q)].snapshot
  <2>1. CASE Len(q) \in 1..Len(t)
    <3>1. Len(q) \in 1..Len(s) /\ t[Len(q)] = s[Len(q)]
      BY <1>3, <2>1
    <3>2. (Len(q) + 1 \in 1..Len(s) => s[Len(q) + 1].path # q)
            <=> (Len(q) + 1 \in 1..Len(t) => t[Len(q) + 1].path # q)
      <4>1. CASE Len(q) + 1 \in 1..Len(t)
        BY <1>3, <4>1
      <4>2. CASE ~(Len(q) + 1 \in 1..Len(t))
        <5>1. Len(q) + 1 = Len(s)
          BY <1>4, <2>1, <4>2
        <5>2. s[Len(q) + 1].path # q
          BY <1>4, <1>6, <5>1, PrefixFacts DEF Below
        <5>3. QED
          BY <4>2, <5>2
      <4>3. QED
        BY <4>1, <4>2
    <3>3. QED
      BY <2>1, <3>1, <3>2 DEF DoneIn
  <2>2. CASE Len(q) = Len(s)
    <3>1. Front(q) # p
      BY <1>4, <1>6, PrefixOfFront, PrefixFacts DEF Below
    <3>2. ~DoneIn(s, q)
      BY <2>2, <3>1 DEF DoneIn
    <3>3. ~(Len(q) \in 1..Len(t))
      BY <1>4, <2>2
    <3>4. QED
      BY <3>2, <3>3, NothingFound
  <2>3. CASE ~(Len(q) \in 1..Len(t)) /\ Len(q) # Len(s)
    <3>1. ~(Len(q) \in 1..Len(s))
      BY <1>4, <2>3
    <3>2. QED
      BY <2>3, <3>1, NothingFound
  <2>4. QED
    BY <2>1, <2>2, <2>3
<1>7. ASSUME ~interrupted PROVE ReadyFor(paths, p, g)
  <2>1. ASSUME NEW q \in Below(p), q # p, Front(q) # p PROVE Local(paths, q)
    <3>1. q \in Path /\ q # Top /\ ~(Len(q) \in 1..Len(s))
      BY <1>4, <2>1, DeeperIsLonger
    <3>2. QED
      BY <1>5, <1>7, <3>1, NothingFound DEF CheckoutMappings
  <2>2. ASSUME NEW c \in Children(p)
        PROVE  IF Lists(g, c) THEN paths.latest[c] = g.contents[Last(c)] ELSE Local(paths, c)
    <3>1. c \in Path /\ c # Top /\ Front(c) = p /\ Len(c) = Len(s)
      BY <1>4, ChildOfPath
    <3>2. ~(Len(c) + 1 \in 1..Len(s))
      BY <1>4, <3>1
    <3>3. DoneIn(s, c) <=> Lists(g, c)
      BY <1>2, <1>4, <3>1, <3>2 DEF DoneIn
    <3>4. QED
      BY <1>5, <1>7, <3>1, <3>3 DEF CheckoutMappings, Under
  <2>3. QED
    BY <1>5, <1>7, <2>1, <2>2 DEF ReadyFor
<1>8. /\ t = <<>> => p = Top /\ command' = Idle
      /\ t # <<>> => /\ p # Top /\ command' = Checkout(h, t)
                     /\ Len(p) = Len(t) /\ t[Len(t)].path = Front(p)
                     /\ p \notin t[Len(t)].left
                     /\ g = Under(t[Len(t)].snapshot, p) /\ Lists(t[Len(t)].snapshot, p)
  BY <1>2, <1>3, <1>4
<1>9. QED
  BY <1>2, <1>3, <1>4, <1>6, <1>7, <1>8, CheckoutStores

\* When each mapping is what the directory above says, all are those of the
\* tree of the latest snapshot.
LEMMA LocalIsTree ==
    ASSUME NEW m, AllLocal(m), NEW p \in Path
    PROVE  m.latest[p] = At(m.latest[Top], p)
<1> PICK h : h = m.latest[Top]
  OBVIOUS
<1> DEFINE S == {k \in Nat : \A q \in Path : Len(q) = k => m.latest[q] = At(h, q)}
<1>1. 0 \in S
  <2>1. \A q \in Path : Len(q) = 0 => q = Top
    BY PathIsSeq
  <2>2. QED
    BY <2>1, AtSolves
<1>2. ASSUME NEW k \in Nat, k \in S PROVE k + 1 \in S
  <2>1. ASSUME NEW q \in Path, Len(q) = k + 1 PROVE m.latest[q] = At(h, q)
    <3>1. q # Top
      BY <2>1, PathIsSeq
    <3>2. Front(q) \in Path /\ Len(Front(q)) = Len(q) - 1
      BY <3>1, FrontOfPath
    <3>3. Len(Front(q)) = k
      BY <2>1, <3>2
    <3>4. m.latest[Front(q)] = At(h, Front(q))
      BY <1>2, <3>2, <3>3
    <3>5. m.latest[q] = Under(m.latest[Front(q)], q)
      BY <3>1 DEF AllLocal, Local
    <3>6. QED
      BY <3>1, <3>4, <3>5, AtSolves
  <2>2. QED
    BY <2>1
<1> HIDE DEF S
<1>3. Nat \subseteq S
  BY <1>1, <1>2, Numbers!SetInduction
<1>4. Len(p) \in S
  BY <1>3, PathIsSeq
<1>5. QED
  BY <1>4 DEF S

-----------------------------------------------------------------------------
(***************************************************************************)
(* The files form a tree.                                                  *)
(***************************************************************************)
DirectoryAt(fs, p) == fs[p] # None /\ fs[p].kind = "dir"

FileTree(fs) ==
    /\ fs \in [Path -> File \cup {None}]
    /\ \A p \in Path : fs[p] # None /\ p # Top => DirectoryAt(fs, Front(p))

\* With a path, what is below it goes.
Downward(X) == \A q \in Path : q # Top /\ Front(q) \in X => q \in X

Without(fs, X) == [q \in Path |-> IF q \in X THEN None ELSE fs[q]]

\* What is left of a tree from which all below some paths goes is a tree.
LEMMA PrunedTree ==
    ASSUME NEW fs, FileTree(fs), NEW X, Downward(X)
    PROVE  FileTree(Without(fs, X))
<1> PICK gs : gs = Without(fs, X)
  OBVIOUS
<1>1. \A q \in Path : gs[q] = IF q \in X THEN None ELSE fs[q]
  BY DEF Without
<1>2. gs \in [Path -> File \cup {None}]
  <2>1. \A q \in Path : (IF q \in X THEN None ELSE fs[q]) \in File \cup {None}
    BY DEF FileTree
  <2>2. QED
    BY <2>1 DEF Without
<1>3. ASSUME NEW p \in Path, gs[p] # None, p # Top
      PROVE  DirectoryAt(gs, Front(p))
  <2>1. p \notin X /\ fs[p] # None
    BY <1>1, <1>3
  <2>2. Front(p) \in Path /\ Front(p) \notin X
    BY <1>3, <2>1, FrontOfPath DEF Downward
  <2>3. DirectoryAt(fs, Front(p))
    BY <1>3, <2>1 DEF FileTree
  <2>4. gs[Front(p)] = fs[Front(p)]
    BY <1>1, <2>2
  <2>5. QED
    BY <2>3, <2>4 DEF DirectoryAt
<1>4. QED
  BY <1>2, <1>3 DEF FileTree

\* All below a path.
LEMMA BelowDownward ==
    ASSUME NEW p \in Path
    PROVE  Downward(Below(p))
<1>1. ASSUME NEW q \in Path, q # Top, Front(q) \in Below(p)
      PROVE  q \in Below(p)
  BY <1>1, PrefixOfFront DEF Below
<1>2. QED
  BY <1>1 DEF Downward

LEMMA RemoveKeepsTree ==
    ASSUME NEW fs, FileTree(fs), NEW p \in Path
    PROVE  FileTree(RemoveAll(fs, p))
<1>1. RemoveAll(fs, p) = Without(fs, Below(p))
  BY DEF RemoveAll, Without
<1>2. FileTree(Without(fs, Below(p)))
  BY BelowDownward, PrunedTree
<1>3. QED
  BY <1>1, <1>2

\* What a new file does, without the nested updates.
LEMMA PutIs ==
    ASSUME NEW fs, NEW p \in Path, NEW f
    PROVE  LET gs == Put(fs, p, f)
           IN  /\ gs = [q \in Path |-> gs[q]] /\ gs[p] = f
               /\ \A q \in Path : q # p => gs[q] = IF q \in Below(p) THEN None ELSE fs[q]
<1> PICK rs : rs = RemoveAll(fs, p)
  OBVIOUS
<1>1. rs = [q \in Path |-> IF q \in Below(p) THEN None ELSE fs[q]]
  BY DEF RemoveAll
<1>2. Put(fs, p, f) = [rs EXCEPT ![p] = f]
  BY DEF Put
<1>3. QED
  BY <1>1, <1>2

\* A new file in a directory.
LEMMA PutKeepsTree ==
    ASSUME NEW fs, FileTree(fs), NEW p \in Path, NEW f \in File,
           p # Top => DirectoryAt(fs, Front(p))
    PROVE  FileTree(Put(fs, p, f))
<1> PICK gs : gs = Put(fs, p, f)
  OBVIOUS
<1>1. /\ gs = [q \in Path |-> gs[q]] /\ gs[p] = f
      /\ \A q \in Path : q # p => gs[q] = IF q \in Below(p) THEN None ELSE fs[q]
  BY PutIs
<1>2. \A q \in Path : gs[q] \in File \cup {None}
  BY <1>1 DEF FileTree
<1>3. ASSUME NEW q \in Path, gs[q] # None, q # Top
      PROVE  DirectoryAt(gs, Front(q))
  <2>1. Front(q) \in Path
    BY <1>3, FrontOfPath
  <2>2. DirectoryAt(fs, Front(q)) /\ Front(q) \notin Below(p)
    <3>1. CASE q = p
      <4>1. Len(Front(p)) < Len(p) /\ Len(p) \in Nat /\ Len(Front(p)) \in Nat
        BY <1>3, <3>1, FrontOfPath, PathIsSeq
      <4>2. Front(p) \notin Below(p)
        BY <2>1, <3>1, <4>1, PrefixFacts DEF Below
      <4>3. QED
        BY <1>3, <3>1, <4>2
    <3>2. CASE q # p
      <4>1. q \notin Below(p) /\ fs[q] # None
        BY <1>1, <1>3, <3>2
      <4>2. Front(q) \notin Below(p)
        BY <1>3, <4>1, BelowDownward DEF Downward
      <4>3. QED
        BY <1>3, <4>1, <4>2 DEF FileTree
    <3>3. QED
      BY <3>1, <3>2
  <2>3. Front(q) # p
    BY <2>2, PrefixFacts DEF Below
  <2>4. gs[Front(q)] = fs[Front(q)]
    BY <1>1, <2>1, <2>2, <2>3
  <2>5. QED
    BY <2>2, <2>4 DEF DirectoryAt
<1>4. QED
  BY <1>1, <1>2, <1>3 DEF FileTree

\* Other permissions of what is no link.
LEMMA FileWithMode ==
    ASSUME NEW f \in File, f.kind # "link", NEW m \in Mode
    PROVE  LET g == [f EXCEPT !.mode = m]
           IN  g \in File /\ g.kind = f.kind /\ g.mode = m /\ g.data = f.data
<1> PICK g : g = [f EXCEPT !.mode = m]
  OBVIOUS
<1>1. /\ f = [kind |-> f.kind, mode |-> f.mode, data |-> f.data]
      /\ \/ f.kind = "file" /\ f.data \in Data
         \/ f.kind = "dir" /\ f.data = None
  BY DEF File
<1>2. g = [kind |-> f.kind, mode |-> m, data |-> f.data]
  BY <1>1
<1>3. g \in File
  BY <1>1, <1>2 DEF File
<1>4. QED
  BY <1>2, <1>3

\* Other permissions leave a tree.
LEMMA ChmodKeepsTree ==
    ASSUME NEW fs, FileTree(fs), NEW p \in Path, fs[p] # None, fs[p].kind # "link",
           NEW m \in Mode
    PROVE  FileTree([fs EXCEPT ![p].mode = m])
<1> PICK gs : gs = [fs EXCEPT ![p].mode = m]
  OBVIOUS
<1>1. /\ gs = [q \in Path |-> gs[q]]
      /\ gs[p] = [fs[p] EXCEPT !.mode = m]
      /\ \A q \in Path : q # p => gs[q] = fs[q]
  BY DEF FileTree
<1>2. fs[p] \in File
  BY DEF FileTree
<1>3. gs[p] \in File /\ gs[p].kind = fs[p].kind
  <2> PICK f : f = fs[p]
    OBVIOUS
  <2>1. f \in File /\ f.kind # "link" /\ gs[p] = [f EXCEPT !.mode = m]
    BY <1>1, <1>2
  <2>2. [f EXCEPT !.mode = m] \in File /\ [f EXCEPT !.mode = m].kind = f.kind
    BY ONLY <2>1, FileWithMode, m \in Mode
  <2>3. QED
    BY <2>1, <2>2
<1>4. \A q \in Path : gs[q] \in File \cup {None}
  BY <1>1, <1>3 DEF FileTree
<1>5. ASSUME NEW q \in Path, gs[q] # None, q # Top
      PROVE  DirectoryAt(gs, Front(q))
  <2>1. fs[q] # None
    BY <1>1, <1>5
  <2>2. DirectoryAt(fs, Front(q)) /\ Front(q) \in Path
    BY <1>5, <2>1, FrontOfPath DEF FileTree
  <2>3. gs[Front(q)] # None /\ gs[Front(q)].kind = fs[Front(q)].kind
    BY <1>1, <1>3, <2>2, NoneAssumption DEF DirectoryAt
  <2>4. QED
    BY <2>2, <2>3 DEF DirectoryAt
<1>6. QED
  BY <1>1, <1>4, <1>5 DEF FileTree

\* Where a file is, there are directories above it.
LEMMA DirectoriesAbove ==
    ASSUME NEW fs, FileTree(fs), NEW p \in Path, fs[p] # None,
           NEW q \in Above(p), q # p
    PROVE  DirectoryAt(fs, q)
<1> DEFINE S == {k \in Nat : \A r \in Path : Len(r) = k /\ fs[r] # None =>
                    \A x \in Above(r) : x # r => DirectoryAt(fs, x)}
<1>1. 0 \in S
  <2>1. ASSUME NEW r \in Path, Len(r) = 0, NEW x \in Above(r) PROVE x = r
    <3>1. x \in Path /\ IsPrefix(x, r) /\ Len(x) \in Nat
      BY PathIsSeq DEF Above
    <3>2. Len(x) <= Len(r)
      BY <3>1, PrefixFacts
    <3>3. QED
      BY <2>1, <3>1, <3>2, PrefixFacts
  <2>2. QED
    BY <2>1
<1>2. ASSUME NEW k \in Nat, k \in S PROVE k + 1 \in S
  <2>1. ASSUME NEW r \in Path, Len(r) = k + 1, fs[r] # None, NEW x \in Above(r), x # r
        PROVE  DirectoryAt(fs, x)
    <3>1. r # Top /\ x \in Path /\ IsPrefix(x, r)
      BY <2>1, PathIsSeq DEF Above
    <3>2. Front(r) \in Path /\ Len(Front(r)) = Len(r) - 1 /\ IsPrefix(x, Front(r))
      BY <2>1, <3>1, FrontOfPath, PrefixOfFront
    <3>3. DirectoryAt(fs, Front(r)) /\ Len(Front(r)) = k
      BY <2>1, <3>1, <3>2 DEF FileTree
    <3>4. x \in Above(Front(r))
      BY <3>1, <3>2 DEF Above
    <3>5. QED
      BY <1>2, <3>2, <3>3, <3>4 DEF DirectoryAt
  <2>2. QED
    BY <2>1
<1> HIDE DEF S
<1>3. Nat \subseteq S
  BY <1>1, <1>2, Numbers!SetInduction
<1>4. Len(p) \in S
  BY <1>3, PathIsSeq
<1>5. QED
  BY <1>4 DEF S

\* Where nothing is, nothing is below.
LEMMA NothingBelow ==
    ASSUME NEW fs, FileTree(fs), NEW p \in Path, ~DirectoryAt(fs, p), NEW q \in Below(p), q # p
    PROVE  fs[q] = None
<1>1. q \in Path /\ p \in Above(q)
  BY DEF Below, Above
<1>2. QED
  BY <1>1, DirectoriesAbove

\* The directories that Checkout makes on the way to p.
LEMMA WithDirectoriesIs ==
    ASSUME FileTree(files), NEW p \in Path, ~Unmakeable(p), NEW ws, ws = WithDirectories(p)
    PROVE  /\ FileTree(ws)
           /\ p # Top => DirectoryAt(ws, Front(p))
           /\ ws = [q \in Path |-> ws[q]]
           /\ \A q \in Path : ws[q] = IF q \in Above(p) \ {p} /\ files[q] = None
                                      THEN MadeOnTheWay ELSE files[q]
<1>1. /\ ws = [q \in Path |-> ws[q]]
      /\ \A q \in Path : ws[q] = IF q \in Above(p) \ {p} /\ files[q] = None
                                 THEN MadeOnTheWay ELSE files[q]
  BY DEF WithDirectories
<1>2. MadeOnTheWay \in File /\ MadeOnTheWay # None /\ MadeOnTheWay.kind = "dir"
  BY ModesAssumption, NoneAssumption DEF MadeOnTheWay, File
<1>3. \A q \in Path : ws[q] \in File \cup {None}
  BY <1>1, <1>2 DEF FileTree
<1>4. ASSUME NEW q \in Path, q \in Above(p), q # p
      PROVE  DirectoryAt(ws, q)
  <2>1. files[q] # None => files[q].kind = "dir"
    BY <1>4 DEF Unmakeable
  <2>2. QED
    BY <1>1, <1>2, <1>4, <2>1 DEF DirectoryAt
<1>5. ASSUME NEW q \in Path, q # Top, q \in Above(p)
      PROVE  DirectoryAt(ws, Front(q))
  <2>1. IsPrefix(q, p) /\ Front(q) \in Path /\ Len(Front(q)) = Len(q) - 1
    BY <1>5, FrontOfPath DEF Above
  <2>2. IsPrefix(Front(q), q)
    BY <1>5, <2>1, PrefixOfFront, PrefixFacts
  <2>3. IsPrefix(Front(q), p)
    BY <1>5, <2>1, <2>2, PrefixTransitive
  <2>4. Front(q) # p
    <3>1. Len(q) <= Len(p) /\ Len(q) \in Nat /\ Len(p) \in Nat
      BY <1>5, <2>1, PrefixFacts, PathIsSeq
    <3>2. QED
      BY <2>1, <3>1
  <2>5. Front(q) \in Above(p)
    BY <2>1, <2>3 DEF Above
  <2>6. QED
    BY <1>4, <2>1, <2>4, <2>5
<1>6. ASSUME NEW q \in Path, ws[q] # None, q # Top
      PROVE  DirectoryAt(ws, Front(q))
  <2>1. CASE q \in Above(p)
    BY <1>5, <1>6, <2>1
  <2>2. CASE q \notin Above(p)
    <3>1. files[q] # None /\ Front(q) \in Path
      BY <1>1, <1>6, <2>2, FrontOfPath
    <3>2. DirectoryAt(files, Front(q))
      BY <1>6, <3>1 DEF FileTree
    <3>3. ws[Front(q)] = files[Front(q)]
      BY <1>1, <3>1, <3>2 DEF DirectoryAt
    <3>4. QED
      BY <3>2, <3>3 DEF DirectoryAt
  <2>3. QED
    BY <2>1, <2>2
<1>7. FileTree(ws)
  BY <1>1, <1>3, <1>6 DEF FileTree
<1>8. p # Top => DirectoryAt(ws, Front(p))
  <2>1. p \in Above(p)
    BY PrefixFacts DEF Above
  <2>2. QED
    BY <1>5, <2>1
<1>9. QED
  BY <1>1, <1>7, <1>8

\* What the snapshot of a file says.
LEMMA FileOfIs ==
    ASSUME NEW h, FileOf(h) \in File
    PROVE  /\ h # None /\ FileOf(h) # None /\ h.mode \in Mode
           /\ FileOf(h).kind = h.kind /\ FileOf(h).mode = h.mode
           /\ FileOf(h) = [kind |-> h.kind, mode |-> h.mode,
                           data |-> IF h.kind = "dir" THEN None ELSE h.contents]
<1>1. h # None
  BY NoneAssumption DEF FileOf
<1>2. FileOf(h) = [kind |-> h.kind, mode |-> h.mode,
                   data |-> IF h.kind = "dir" THEN None ELSE h.contents]
  BY <1>1 DEF FileOf
<1>3. FileOf(h).mode \in Mode
  BY ModesAssumption DEF File
<1>4. QED
  BY <1>1, <1>2, <1>3, NoneAssumption

\* The entries of a directory that Checkout removes, with all below them.
ExtraOf(p, h) ==
    {q \in Path : Above(q) \cap {c \in Children(p) : ~Lists(h, c) /\ ~Excluded(c)} # {}}

LEMMA ExtraDownward ==
    ASSUME NEW p, NEW h
    PROVE  Downward(ExtraOf(p, h))
<1> PICK extra : extra = {c \in Children(p) : ~Lists(h, c) /\ ~Excluded(c)}
  OBVIOUS
<1> SUFFICES ASSUME NEW q \in Path, q # Top, Front(q) \in ExtraOf(p, h)
             PROVE  q \in ExtraOf(p, h)
  BY DEF Downward
<1>1. PICK c \in Above(Front(q)) \cap extra : TRUE
  BY DEF ExtraOf
<1>2. c \in Path /\ IsPrefix(c, Front(q))
  BY <1>1 DEF Above
<1>3. c \in Above(q)
  BY <1>2, PrefixOfFront DEF Above
<1>4. QED
  BY <1>1, <1>3 DEF ExtraOf

\* A directory that was not there before gets the permissions that the umask
\* leaves, one that was there the right ones.
MadeDir(fs, p, h) ==
    IF DirectoryAt(fs, p) THEN [fs EXCEPT ![p].mode = h.mode]
    ELSE Put(fs, p, [FileOf(h) EXCEPT !.mode = Masked[h.mode]])

LEMMA RecreateDirIs ==
    ASSUME NEW fs, NEW p, NEW h
    PROVE  RecreateDir(fs, p, h) = Without(MadeDir(fs, p, h), ExtraOf(p, h))
<1> PICK extra : extra = {c \in Children(p) : ~Lists(h, c) /\ ~Excluded(c)}
  OBVIOUS
<1> PICK made : made = MadeDir(fs, p, h)
  OBVIOUS
<1>1. made = IF fs[p] # None /\ fs[p].kind = "dir" THEN [fs EXCEPT ![p].mode = h.mode]
             ELSE Put(fs, p, [FileOf(h) EXCEPT !.mode = Masked[h.mode]])
  BY DEF MadeDir, DirectoryAt
<1>2. RecreateDir(fs, p, h) = [q \in Path |-> IF Above(q) \cap extra # {} THEN None ELSE made[q]]
  BY <1>1 DEF RecreateDir
<1>3. \A q \in Path : q \in ExtraOf(p, h) <=> Above(q) \cap extra # {}
  BY DEF ExtraOf
<1>4. [q \in Path |-> IF Above(q) \cap extra # {} THEN None ELSE made[q]]
         = [q \in Path |-> IF q \in ExtraOf(p, h) THEN None ELSE made[q]]
  BY <1>3
<1>5. QED
  BY <1>2, <1>4 DEF Without

\* A directory is recreated.
LEMMA RecreateDirTree ==
    ASSUME NEW fs, FileTree(fs), NEW p \in Path, p # Top => DirectoryAt(fs, Front(p)),
           NEW h, FileOf(h) \in File, h.kind = "dir"
    PROVE  FileTree(RecreateDir(fs, p, h))
<1>1. FileTree(MadeDir(fs, p, h))
  <2>1. CASE DirectoryAt(fs, p)
    <3>1. fs[p] # None /\ fs[p].kind # "link" /\ h.mode \in Mode
      BY <2>1, FileOfIs DEF DirectoryAt
    <3>2. FileTree([fs EXCEPT ![p].mode = h.mode])
      BY <3>1, ChmodKeepsTree
    <3>3. QED
      BY <2>1, <3>2 DEF MadeDir
  <2>2. CASE ~DirectoryAt(fs, p)
    <3> PICK f : f = FileOf(h)
      OBVIOUS
    <3> PICK m : m = Masked[h.mode]
      OBVIOUS
    <3>1. f \in File /\ f.kind # "link" /\ m \in Mode
      BY FileOfIs, ModesAssumption
    <3>2. [f EXCEPT !.mode = m] \in File
      BY <3>1, FileWithMode
    <3>3. FileTree(Put(fs, p, [f EXCEPT !.mode = m]))
      BY <3>2, PutKeepsTree
    <3>4. QED
      BY <2>2, <3>3 DEF MadeDir
  <2>3. QED
    BY <2>1, <2>2
<1>2. FileTree(Without(MadeDir(fs, p, h), ExtraOf(p, h)))
  BY <1>1, ExtraDownward, PrunedTree
<1>3. QED
  BY <1>2, RecreateDirIs

\* A file or a link is recreated.
LEMMA RecreationsTree ==
    ASSUME NEW fs, FileTree(fs), NEW p \in Path, p # Top => DirectoryAt(fs, Front(p)),
           NEW h, FileOf(h) \in File, NEW gs \in Recreations(fs, p, h)
    PROVE  FileTree(gs)
<1>1. gs = Put(fs, p, FileOf(h)) \/ gs = fs
  BY DEF Recreations
<1>2. FileTree(Put(fs, p, FileOf(h)))
  BY PutKeepsTree
<1>3. QED
  BY <1>1, <1>2

-----------------------------------------------------------------------------
(***************************************************************************)
(* The directories of mappedPaths form a tree.                             *)
(***************************************************************************)
Upward(S) == S \subseteq Path /\ \A p \in S : Above(p) \subseteq S

\* It is enough to look at the directory above.
LEMMA UpwardByFront ==
    ASSUME NEW S, S \subseteq Path, \A p \in S : p # Top => Front(p) \in S
    PROVE  Upward(S)
<1> DEFINE N == {k \in Nat : \A p \in S : Len(p) = k => Above(p) \subseteq S}
<1>1. 0 \in N
  <2>1. ASSUME NEW p \in S, Len(p) = 0, NEW x \in Above(p) PROVE x = p
    <3>1. x \in Path /\ p \in Path /\ IsPrefix(x, p) /\ Len(x) \in Nat
      BY PathIsSeq DEF Above
    <3>2. Len(x) <= Len(p)
      BY <3>1, PrefixFacts
    <3>3. QED
      BY <2>1, <3>1, <3>2, PrefixFacts
  <2>2. QED
    BY <2>1
<1>2. ASSUME NEW k \in Nat, k \in N PROVE k + 1 \in N
  <2>1. ASSUME NEW p \in S, Len(p) = k + 1, NEW x \in Above(p) PROVE x \in S
    <3>1. p \in Path /\ p # Top /\ x \in Path /\ IsPrefix(x, p)
      BY <2>1, PathIsSeq DEF Above
    <3>2. Front(p) \in S /\ Front(p) \in Path /\ Len(Front(p)) = Len(p) - 1
          /\ (x = p \/ IsPrefix(x, Front(p)))
      BY <2>1, <3>1, FrontOfPath, PrefixOfFront
    <3>3. x = p \/ x \in Above(Front(p))
      BY <3>1, <3>2 DEF Above
    <3>4. Len(Front(p)) = k
      BY <2>1, <3>2
    <3>5. QED
      BY <1>2, <3>2, <3>3, <3>4
  <2>2. QED
    BY <2>1
<1> HIDE DEF N
<1>3. Nat \subseteq N
  BY <1>1, <1>2, Numbers!SetInduction
<1>4. ASSUME NEW p \in S PROVE Above(p) \subseteq S
  <2>1. Len(p) \in N
    BY <1>3, PathIsSeq
  <2>2. QED
    BY <2>1 DEF N
<1>5. QED
  BY <1>4 DEF Upward

\* StoreSnapshot makes the directories above, and removes whole trees.
LEMMA ForgettingKeepsKnown ==
    ASSUME NEW m, Upward(m.known), NEW p \in Path, NEW f,
           NEW removed, removed \subseteq Children(p), NEW gone
    PROVE  Upward(Forgetting(m, p, f, removed, gone).known)
<1> PICK k : k = (m.known \cup Above(p)) \ UNION {Below(q) : q \in removed}
  OBVIOUS
<1>1. Forgetting(m, p, f, removed, gone).known = k
  BY DEF Forgetting
<1>2. k \subseteq Path
  BY DEF Upward, Above
<1>3. ASSUME NEW r \in k, NEW x \in Above(r) PROVE x \in k
  <2>1. r \in Path /\ x \in Path /\ IsPrefix(x, r)
    BY <1>2 DEF Above
  <2>2. x \in m.known \cup Above(p)
    <3>1. CASE r \in m.known
      BY <3>1 DEF Upward
    <3>2. CASE r \in Above(p)
      <4>1. IsPrefix(r, p)
        BY <3>2 DEF Above
      <4>2. IsPrefix(x, p)
        BY <2>1, <4>1, PrefixTransitive
      <4>3. QED
        BY <2>1, <4>2 DEF Above
    <3>3. QED
      BY <3>1, <3>2
  <2>3. ASSUME NEW q \in removed, x \in Below(q) PROVE FALSE
    <3>1. q \in Path /\ IsPrefix(q, x)
      BY <2>3 DEF Children, Below
    <3>2. IsPrefix(q, r)
      BY <2>1, <3>1, PrefixTransitive
    <3>3. r \in Below(q)
      BY <2>1, <3>2 DEF Below
    <3>4. QED
      BY <3>3
  <2>4. QED
    BY <2>2, <2>3
<1>4. QED
  BY <1>1, <1>2, <1>3 DEF Upward

LEMMA StoreKeepsKnown ==
    ASSUME NEW m, Upward(m.known), NEW p \in Path, NEW f
    PROVE  Upward(StoreSnapshot(m, p, f).known)
<1>1. Removed(m, p, f) \subseteq Children(p)
  BY DEF Removed
<1>2. QED
  BY <1>1, ForgettingKeepsKnown DEF StoreSnapshot

\* So does one that is cut short.
LEMMA CutShortKeepsKnown ==
    ASSUME NEW m, Upward(m.known), NEW p \in Path, NEW f, NEW n \in CutShort(m, p, f)
    PROVE  Upward(n.known)
<1>1. CASE n = m
  BY <1>1
<1>2. CASE n.known = m.known \cup Above(p)
  <2>1. Forgetting(m, p, f, {}, {}).known = n.known
    BY <1>2 DEF Forgetting
  <2>2. Upward(Forgetting(m, p, f, {}, {}).known)
    BY ForgettingKeepsKnown
  <2>3. QED
    BY <2>1, <2>2
<1>3. ASSUME NEW begun \in SUBSET Removed(m, p, f), NEW gone,
             n = Forgetting(m, p, f, begun, gone)
      PROVE  Upward(n.known)
  <2>1. begun \subseteq Children(p)
    BY DEF Removed
  <2>2. QED
    BY <1>3, <2>1, ForgettingKeepsKnown
<1>4. \/ n = m
      \/ /\ n.known = m.known \cup Above(p)
         /\ n.latest = m.latest \/ n.latest = [m.latest EXCEPT ![p] = Blank]
      \/ \E begun \in SUBSET Removed(m, p, f) :
            \E gone \in SUBSET ForgottenBy(m, p, f, Removed(m, p, f)) :
               n = Forgetting(m, p, f, begun, gone)
  BY DEF CutShort
<1>5. CASE \E begun \in SUBSET Removed(m, p, f) :
              \E gone \in SUBSET ForgottenBy(m, p, f, Removed(m, p, f)) :
                 n = Forgetting(m, p, f, begun, gone)
  BY <1>3, <1>5
<1>6. QED
  BY <1>1, <1>2, <1>4, <1>5

-----------------------------------------------------------------------------
(***************************************************************************)
(* Snapshots of files, whole with what they list.                          *)
(***************************************************************************)
Whole(h) == \E snapshots : IsWhole(snapshots) /\ h \in snapshots

LEMMA WholeIs ==
    ASSUME NEW h, Whole(h)
    PROVE  /\ h # None /\ FileOf(h) \in File
           /\ h.kind = "dir" => \A n \in DOMAIN h.contents : Whole(h.contents[n])
           /\ \A q : Lists(h, q) => Whole(Under(h, q))
<1>1. PICK S : IsWhole(S) /\ h \in S
  BY DEF Whole
<1>2. /\ h # None /\ FileOf(h) \in File
      /\ h.kind = "dir" => \A n \in DOMAIN h.contents : h.contents[n] \in S
  BY <1>1 DEF IsWhole
<1>3. h.kind = "dir" => \A n \in DOMAIN h.contents : Whole(h.contents[n])
  BY <1>1, <1>2 DEF Whole
<1>4. QED
  BY <1>2, <1>3 DEF Lists, Under

\* What lists only whole snapshots is whole.
LEMMA WholeFrom ==
    ASSUME NEW h, FileOf(h) \in File,
           h.kind = "dir" => \A n \in DOMAIN h.contents : Whole(h.contents[n])
    PROVE  Whole(h)
<1> DEFINE names == IF h.kind = "dir" THEN DOMAIN h.contents ELSE {}
           Of(n) == CHOOSE S : IsWhole(S) /\ h.contents[n] \in S
           T == {h} \cup UNION {Of(n) : n \in names}
<1>1. ASSUME NEW n \in names PROVE IsWhole(Of(n)) /\ h.contents[n] \in Of(n)
  <2>1. \E S : IsWhole(S) /\ h.contents[n] \in S
    BY DEF Whole
  <2>2. QED
    BY <2>1
<1>2. h # None
  BY FileOfIs
<1> HIDE DEF Of
<1>3. ASSUME NEW g \in T
      PROVE  /\ g # None /\ FileOf(g) \in File
             /\ g.kind = "dir" => \A n \in DOMAIN g.contents : g.contents[n] \in T
  <2>1. CASE g = h
    BY <1>1, <1>2, <2>1
  <2>2. CASE g # h
    <3>1. PICK n \in names : g \in Of(n)
      BY <2>2
    <3>2. /\ g # None /\ FileOf(g) \in File
          /\ g.kind = "dir" => \A k \in DOMAIN g.contents : g.contents[k] \in Of(n)
      BY <1>1, <3>1 DEF IsWhole
    <3>3. QED
      BY <3>2
  <2>3. QED
    BY <2>1, <2>2
<1>4. h \in T
  OBVIOUS
<1> HIDE DEF T
<1>5. IsWhole(T)
  BY <1>3 DEF IsWhole
<1>6. QED
  BY <1>4, <1>5 DEF Whole

\* What comes from elsewhere is whole.
LEMMA ElsewhereWhole ==
    ASSUME NEW h \in Sources \cup Starts, h # None \/ h \in Sources
    PROVE  Whole(h) /\ h # None
<1>1. h \in Elsewhere /\ IsWhole(Elsewhere)
  BY ElsewhereAssumption
<1>2. Whole(h)
  BY <1>1 DEF Whole
<1>3. QED
  BY <1>2, WholeIs

\* All that is in the tree of a snapshot of such a set is in the set.
LEMMA AtWhole ==
    ASSUME NEW S, IsWhole(S), NEW h \in S, NEW p \in Path
    PROVE  At(h, p) \in S \cup {None}
<1> DEFINE N == {k \in Nat : \A q \in Path : Len(q) = k => At(h, q) \in S \cup {None}}
<1>1. 0 \in N
  <2>1. \A q \in Path : Len(q) = 0 => At(h, q) = h
    BY AtSolves, PathIsSeq
  <2>2. QED
    BY <2>1
<1>2. ASSUME NEW k \in Nat, k \in N PROVE k + 1 \in N
  <2>1. ASSUME NEW q \in Path, Len(q) = k + 1 PROVE At(h, q) \in S \cup {None}
    <3>1. q # Top
      BY <2>1, PathIsSeq
    <3>2. Front(q) \in Path /\ Len(Front(q)) = k
      <4>1. Front(q) \in Path /\ Len(Front(q)) = Len(q) - 1
        BY <3>1, FrontOfPath
      <4>2. QED
        BY <2>1, <4>1
    <3>3. At(h, q) = Under(At(h, Front(q)), q) /\ At(h, Front(q)) \in S \cup {None}
      BY <1>2, <3>1, <3>2, AtSolves
    <3>4. QED
      BY <3>3 DEF Under, Lists, IsWhole
  <2>2. QED
    BY <2>1
<1> HIDE DEF N
<1>3. Nat \subseteq N
  BY <1>1, <1>2, Numbers!SetInduction
<1>4. Len(p) \in N
  BY <1>3, PathIsSeq
<1>5. QED
  BY <1>4 DEF N

\* A new snapshot of a file that is there.
LEMMA SnapshotWhole ==
    ASSUME NoneIsNoSnapshot, NEW p, NEW kind, NEW mode, NEW contents,
           NEW h, h = SnapshotOf(p, kind, mode, contents),
           [kind |-> kind, mode |-> mode,
            data |-> IF kind = "dir" THEN None ELSE contents] \in File,
           kind = "dir" => \A n \in DOMAIN contents : Whole(contents[n])
    PROVE  /\ h # None /\ Whole(h)
           /\ FileOf(h) = [kind |-> kind, mode |-> mode,
                           data |-> IF kind = "dir" THEN None ELSE contents]
<1>1. h # None /\ h.kind = kind /\ h.mode = mode /\ h.contents = contents
  BY SnapshotOfIs
<1>2. FileOf(h) = [kind |-> kind, mode |-> mode,
                   data |-> IF kind = "dir" THEN None ELSE contents]
  BY <1>1 DEF FileOf
<1>3. FileOf(h) \in File
  BY <1>2
<1>4. Whole(h)
  BY <1>1, <1>3, WholeFrom
<1>5. QED
  BY <1>1, <1>2, <1>4

\* The merge of whole snapshots is whole.
LEMMA MergeWhole ==
    ASSUME NoneIsNoSnapshot, NEW base, NEW src, NEW dest, NEW helper \in Data \cup {Failed},
           NEW m, IsMerge(base, src, dest, helper, m), Whole(src), Whole(dest)
    PROVE  Whole(m[Top])
<1>1. PICK S : IsWhole(S) /\ src \in S
  BY DEF Whole
<1>2. PICK D : IsWhole(D) /\ dest \in D
  BY DEF Whole
<1> PICK M : M = {m[p] : p \in {q \in Path : m[q] # Failed /\ m[q] # None}}
  OBVIOUS
<1> PICK T : T = S \cup D \cup M
  OBVIOUS
<1>3. ASSUME NEW g \in S \cup D
      PROVE  /\ g # None /\ FileOf(g) \in File
             /\ g.kind = "dir" => \A n \in DOMAIN g.contents : g.contents[n] \in T
  BY <1>1, <1>2 DEF IsWhole
<1>4. ASSUME NEW p \in Path, m[p] # Failed, m[p] # None
      PROVE  /\ FileOf(m[p]) \in File
             /\ m[p].kind = "dir" => \A n \in DOMAIN m[p].contents : m[p].contents[n] \in T
  <2>0. At(src, p) \in S \cup {None} /\ At(dest, p) \in D \cup {None}
    BY <1>1, <1>2, AtWhole
  <2>1. MergedHere(base, src, dest, helper, m, p)
    BY <1>4 DEF IsMerge
  <2>2. CASE m[p] = At(src, p) \/ m[p] = At(dest, p)
    <3>1. m[p] \in S \cup D
      BY <1>4, <2>0, <2>2
    <3>2. QED
      BY <1>3, <3>1
  <2>3. CASE /\ m[p] = [kind |-> "file", mode |-> At(dest, p).mode, contents |-> helper,
                        parents |-> <<At(src, p), At(dest, p)>>]
             /\ helper # Failed /\ At(dest, p) # None
    <3>1. At(dest, p).mode \in Mode
      BY <1>2, <2>0, <2>3, FileOfIs DEF IsWhole
    <3>2. m[p].kind = "file" /\ m[p].mode = At(dest, p).mode /\ m[p].contents = helper
      BY <2>3
    <3>3. FileOf(m[p]) = [kind |-> "file", mode |-> At(dest, p).mode, data |-> helper]
      BY <1>4, <3>2 DEF FileOf
    <3>4. FileOf(m[p]) \in File
      BY <2>3, <3>1, <3>3 DEF File
    <3>5. QED
      BY <3>2, <3>4
  <2>4. CASE /\ \A c \in EntriesOfEither(p, At(src, p), At(dest, p)) : m[c] # Failed
             /\ m[p] = [kind |-> "dir", mode |-> At(src, p).mode,
                   contents |-> [n \in {Last(c) : c \in {e \in
                           EntriesOfEither(p, At(src, p), At(dest, p)) : m[e] # None}} |->
                                   m[Append(p, n)]],
                   parents |-> <<At(src, p), At(dest, p)>>]
             /\ At(src, p) # None
    <3> PICK entries : entries = EntriesOfEither(p, At(src, p), At(dest, p))
      OBVIOUS
    <3> PICK contents : contents = [n \in {Last(c) : c \in {e \in entries : m[e] # None}} |->
                                       m[Append(p, n)]]
      OBVIOUS
    <3>1. At(src, p).mode \in Mode
      BY <1>1, <2>0, <2>4, FileOfIs DEF IsWhole
    <3>2. m[p].kind = "dir" /\ m[p].mode = At(src, p).mode /\ m[p].contents = contents
      BY <2>4
    <3>3. FileOf(m[p]) = [kind |-> "dir", mode |-> At(src, p).mode, data |-> None]
      BY <1>4, <3>2 DEF FileOf
    <3>4. FileOf(m[p]) \in File
      BY <3>1, <3>3 DEF File
    <3>5. ASSUME NEW n \in DOMAIN contents PROVE contents[n] \in T
      <4>1. PICK c \in entries : m[c] # None /\ n = Last(c)
        OBVIOUS
      <4>2. c \in Children(p)
        BY DEF EntriesOfEither
      <4>3. c \in Path /\ Append(p, n) = c /\ m[c] # Failed
        BY <2>4, <4>1, <4>2, ChildOfPath
      <4>4. contents[n] = m[c]
        BY <4>3
      <4>5. QED
        BY <4>1, <4>3, <4>4
    <3>6. QED
      BY <3>2, <3>4, <3>5
  <2>5. QED
    BY <2>1, <2>2, <2>3, <2>4 DEF MergedHere
<1>5. IsWhole(T)
  <2>1. ASSUME NEW g \in T
        PROVE  /\ g # None /\ FileOf(g) \in File
               /\ g.kind = "dir" => \A n \in DOMAIN g.contents : g.contents[n] \in T
    <3>1. CASE g \in S \cup D
      BY <1>3, <3>1
    <3>2. CASE g \in M
      <4>1. PICK p \in Path : m[p] # Failed /\ m[p] # None /\ g = m[p]
        BY <3>2
      <4>2. QED
        BY <1>4, <4>1
    <3>3. QED
      BY <3>1, <3>2
  <2>2. QED
    BY <2>1 DEF IsWhole
<1>6. m[Top] \in T
  <2>1. Top \in Path /\ m[Top] # Failed
    BY PathAssumption DEF IsMerge, Top
  <2>2. MergedHere(base, src, dest, helper, m, Top)
    BY <2>1 DEF IsMerge
  <2>3. At(src, Top) = src /\ At(dest, Top) = dest /\ src # None /\ dest # None
    BY AtSolves, WholeIs
  <2>4. m[Top] # None
    BY <2>2, <2>3 DEF MergedHere, NoneIsNoSnapshot
  <2>5. QED
    BY <2>1, <2>4
<1>7. QED
  BY <1>5, <1>6 DEF Whole

-----------------------------------------------------------------------------
\* What the calls of snapshot.Current have found is whole.
HeldStack(s) ==
    \A i \in 1..Len(s) :
        s[i].mode \in Mode /\ \A n \in DOMAIN s[i].found : Whole(s[i].found[n])

\* So is every snapshot that a command holds.
Held(c) ==
    /\ c.pc = "current" => HeldStack(c.stack)
    /\ c.pc = "merge" => Whole(c.prev)
    /\ c.pc = "remove" => Whole(c.merged)
    /\ c.pc = "checkout" => /\ Whole(c.snapshot)
                            /\ \A i \in 1..Len(c.stack) : Whole(c.stack[i].snapshot)

LEMMA HeldOf ==
    /\ Held(Idle)
    /\ \A src, s : Held(Current(src, s)) <=> HeldStack(s)
    /\ \A src, prev : Held(Merging(src, prev)) <=> Whole(prev)
    /\ \A src, prev, base, g, helper : Held(Removing(src, prev, base, g, helper)) <=> Whole(g)
    /\ \A h, s : Held(Checkout(h, s)) <=> Whole(h) /\ \A i \in 1..Len(s) : Whole(s[i].snapshot)
BY DEF Held, Idle, Current, Merging, Removing, Checkout

LEMMA NothingHeld == HeldStack(<<>>) /\ 1..Len(<<>>) = {}
<1>1. 1..Len(<<>>) = {}
  BY EmptyStack
<1>2. QED
  BY <1>1 DEF HeldStack

\* Returning a whole snapshot.
LEMMA ReturnsHeld ==
    ASSUME NEW src \in Sources \cup {None}, NEW t, CurrentCalls(t), HeldStack(t),
           NEW p, NEW h, h = None \/ Whole(h), Returns(src, t, p, h)
    PROVE  Held(command')
<1>1. CASE t # <<>>
  <2> PICK u : u = WithFound(t, p, h)
    OBVIOUS
  <2>1. /\ Len(u) = Len(t)
        /\ \A i \in 1..Len(t) : u[i].mode = t[i].mode /\ (i # Len(t) => u[i] = t[i])
        /\ u[Len(t)].found = IF h = None THEN t[Len(t)].found
                             ELSE WithEntry(t[Len(t)].found, Last(p), h)
    BY <1>1, WithFoundStack
  <2>2. ASSUME NEW i \in 1..Len(u)
        PROVE  u[i].mode \in Mode /\ \A n \in DOMAIN u[i].found : Whole(u[i].found[n])
    <3>1. t[i].mode \in Mode /\ \A n \in DOMAIN t[i].found : Whole(t[i].found[n])
      BY <2>1 DEF HeldStack
    <3>2. CASE i # Len(t) \/ h = None
      BY <2>1, <3>1, <3>2
    <3>3. CASE i = Len(t) /\ h # None
      <4> PICK found : found = t[i].found
        OBVIOUS
      <4>1. u[i].found = [n \in DOMAIN found \cup {Last(p)} |-> IF n = Last(p) THEN h ELSE found[n]]
        BY <2>1, <3>3 DEF WithEntry
      <4>2. QED
        BY <2>1, <3>1, <3>3, <4>1
    <3>4. QED
      BY <3>2, <3>3
  <2>3. HeldStack(u)
    BY <2>2 DEF HeldStack
  <2>4. command' = Current(src, u)
    BY <1>1 DEF Returns
  <2>5. QED
    BY <2>3, <2>4, HeldOf
<1>2. CASE t = <<>> /\ src # None /\ h = None
  <2>1. command' = Checkout(src, <<>>) /\ Whole(src)
    BY <1>2, ElsewhereWhole DEF Returns
  <2>2. QED
    BY <2>1, HeldOf, NothingHeld
<1>3. CASE t = <<>> /\ (src = None \/ h # None)
  <2>1. command' = Idle \/ (command' = Merging(src, h) /\ h # None)
    BY <1>3 DEF Returns
  <2>2. QED
    BY <2>1, HeldOf
<1>4. QED
  BY <1>1, <1>2, <1>3

\* Snapshots are taken of files, and of directories with what was found there.
LEMMA CurrentHeld ==
    ASSUME NoneIsNoSnapshot, CommandInv, FileTree(files), Held(command),
           \/ \E p \in Path : CurrentEntry(p)
           \/ CurrentDirectory
    PROVE  Held(command')
<1>1. ASSUME NEW p \in Path, CurrentEntry(p)
      PROVE  Held(command')
  <2>1. PICK src \in Sources \cup {None} : \E s, t : CurrentEntryOf(src, s, t, p)
    BY <1>1, CurrentEntryIs
  <2>2. PICK s, t : CurrentEntryOf(src, s, t, p)
    BY <2>1
  <2>3. /\ command = Current(src, s) /\ CurrentCalls(s) /\ EntryOf(s, p)
        /\ t = CurrentTaken(s, p)
    BY <2>2 DEF CurrentEntryOf
  <2>4. /\ CurrentCalls(t) /\ Len(t) = Len(s)
        /\ t = <<>> => p = Top
        /\ t # <<>> => p \in Children(t[Len(t)].path) /\ p \notin t[Len(t)].left
        /\ \A i \in 1..Len(s) : t[i].found = s[i].found /\ t[i].mode = s[i].mode
    BY <2>3, CurrentTakenStack
  <2>5. HeldStack(s)
    BY <2>3, HeldOf
  <2>6. HeldStack(t)
    BY <2>4, <2>5 DEF HeldStack
  <2>7. CASE CurrentNothingOf(src, t, p)
    BY <2>4, <2>6, <2>7, ReturnsHeld DEF CurrentNothingOf
  <2>8. CASE CurrentDirectoryEntryOf(src, t, p)
    <3> PICK m : m = files[p].mode
      OBVIOUS
    <3> PICK left : left = {c \in Children(p) : files[c] # None}
      OBVIOUS
    <3> PICK f : f = [path |-> p, mode |-> m, found |-> <<>>, left |-> left]
      OBVIOUS
    <3> PICK u : u = Append(t, f)
      OBVIOUS
    <3>1. command' = Current(src, u) /\ files[p] # None
      BY <2>8 DEF CurrentDirectoryEntryOf
    <3>2. /\ Len(u) = Len(t) + 1 /\ u[Len(t) + 1] = f
          /\ \A i \in 1..Len(t) : u[i] = t[i]
      BY <2>4, CurrentPushStack
    <3>3. m \in Mode
      <4>1. files[p] \in File
        BY <3>1 DEF FileTree
      <4>2. QED
        BY <4>1, ModesAssumption DEF File
    <3>4. f.mode = m /\ DOMAIN f.found = {}
      OBVIOUS
    <3>5. Len(t) \in Nat
      BY <2>4, StackLength DEF CurrentCalls
    <3>6. ASSUME NEW i \in 1..Len(u)
          PROVE  u[i].mode \in Mode /\ \A n \in DOMAIN u[i].found : Whole(u[i].found[n])
      <4>1. CASE i = Len(t) + 1
        BY <3>2, <3>3, <3>4, <4>1
      <4>2. CASE i # Len(t) + 1
        <5>1. i \in 1..Len(t)
          BY <3>2, <3>5, <4>2
        <5>2. QED
          BY <2>6, <3>2, <5>1 DEF HeldStack
      <4>3. QED
        BY <4>1, <4>2
    <3>7. HeldStack(u)
      BY <3>6 DEF HeldStack
    <3>8. QED
      BY <3>1, <3>7, HeldOf
  <2>9. ASSUME NEW h, CurrentFileOf(src, t, p, h)
        PROVE  Held(command')
    <3> PICK f : f = files[p]
      OBVIOUS
    <3>1. /\ f # None /\ f.kind # "dir" /\ Returns(src, t, p, h)
          /\ h = SnapshotOf(p, f.kind, f.mode, f.data)
      BY <2>9 DEF CurrentFileOf
    <3>2. f \in File
      BY <3>1 DEF FileTree
    <3>3. [kind |-> f.kind, mode |-> f.mode,
           data |-> IF f.kind = "dir" THEN None ELSE f.data] = f
      BY <3>1, <3>2 DEF File
    <3>4. Whole(h)
      BY <3>1, <3>2, <3>3, SnapshotWhole
    <3>5. QED
      BY <2>4, <2>6, <3>1, <3>4, ReturnsHeld
  <2>10. QED
    BY <2>2, <2>7, <2>8, <2>9 DEF CurrentEntryOf
<1>2. CASE CurrentDirectory
  <2>1. PICK src \in Sources \cup {None} : \E p \in Path : \E s, h : CurrentDirectoryOf(src, s, p, h)
    BY <1>2, CurrentDirectoryIs
  <2>2. PICK p, s, h : CurrentDirectoryOf(src, s, p, h)
    BY <2>1
  <2> PICK f : f = s[Len(s)]
    OBVIOUS
  <2>3. /\ command = Current(src, s) /\ CurrentCalls(s) /\ s # <<>>
        /\ h = SnapshotOf(p, "dir", f.mode, f.found)
        /\ Returns(src, Front(s), p, h)
    BY <2>2 DEF CurrentDirectoryOf
  <2>4. /\ CurrentCalls(Front(s))
        /\ \A i \in 1..Len(Front(s)) : i \in 1..Len(s) /\ Front(s)[i] = s[i]
    BY <2>3, CurrentPopStack
  <2>5. HeldStack(s) /\ Len(s) \in 1..Len(s)
    BY <2>3, HeldOf, StackLength DEF CurrentCalls
  <2>6. HeldStack(Front(s))
    BY <2>4, <2>5 DEF HeldStack
  <2>7. f.mode \in Mode /\ \A n \in DOMAIN f.found : Whole(f.found[n])
    BY <2>5 DEF HeldStack
  <2>8. [kind |-> "dir", mode |-> f.mode, data |-> None] \in File
    BY <2>7 DEF File
  <2>9. Whole(h)
    BY <2>3, <2>7, <2>8, SnapshotWhole
  <2>10. QED
    BY <2>3, <2>4, <2>6, <2>9, ReturnsHeld
<1>3. QED
  BY <1>1, <1>2

\* Checkout is at a snapshot that is whole.
LEMMA EntryWhole ==
    ASSUME Held(command), NEW p \in Path, NEW h, NEW s, NEW g,
           command = Checkout(h, s), CheckoutCalls(s, h), EntryOf(s, p),
           g = IF s = <<>> THEN h ELSE Under(s[Len(s)].snapshot, p)
    PROVE  Whole(g)
<1>1. /\ command = Checkout(h, s) /\ CheckoutCalls(s, h) /\ EntryOf(s, p)
      /\ g = IF s = <<>> THEN h ELSE Under(s[Len(s)].snapshot, p)
  OBVIOUS
<1>2. Whole(h) /\ \A i \in 1..Len(s) : Whole(s[i].snapshot)
  BY <1>1, HeldOf
<1>3. CASE s = <<>>
  BY <1>1, <1>2, <1>3
<1>4. CASE s # <<>>
  <2>1. Len(s) \in 1..Len(s) /\ p \in s[Len(s)].left
    BY <1>1, <1>4, StackLength DEF CheckoutCalls, EntryOf
  <2>2. Whole(s[Len(s)].snapshot) /\ Lists(s[Len(s)].snapshot, p)
    BY <1>1, <1>2, <2>1 DEF CheckoutCalls
  <2>3. Whole(Under(s[Len(s)].snapshot, p))
    BY <2>2, WholeIs
  <2>4. QED
    BY <1>1, <1>4, <2>3
<1>5. QED
  BY <1>3, <1>4

LEMMA CheckoutAtWhole ==
    ASSUME Held(command), NEW p \in Path, NEW h, NEW s, NEW t, NEW g,
           CheckoutEntryOf(h, s, t, p, g)
    PROVE  Whole(g)
BY EntryWhole DEF CheckoutEntryOf

\* Checkout goes down the tree of what it checks out.
LEMMA CheckoutHeld ==
    ASSUME CommandInv, Held(command),
           \/ \E p \in Path : CheckoutEntry(p)
           \/ CheckoutDirectory
    PROVE  Held(command')
<1>1. ASSUME NEW p \in Path, CheckoutEntry(p)
      PROVE  Held(command')
  <2>1. PICK h, s, t, g : CheckoutEntryOf(h, s, t, p, g)
    BY <1>1, CheckoutEntryIs
  <2>2. /\ command = Checkout(h, s) /\ CheckoutCalls(s, h) /\ EntryOf(s, p)
        /\ t = CheckoutTaken(s, p)
        /\ g = IF s = <<>> THEN h ELSE Under(s[Len(s)].snapshot, p)
    BY <2>1 DEF CheckoutEntryOf
  <2>3. /\ CheckoutCalls(t, h) /\ Len(t) = Len(s) /\ (t = <<>> <=> s = <<>>)
        /\ t = <<>> => p = Top
        /\ t # <<>> => /\ p \in Children(t[Len(t)].path) /\ p \notin t[Len(t)].left
                       /\ Lists(s[Len(s)].snapshot, p)
        /\ \A i \in 1..Len(s) : t[i].snapshot = s[i].snapshot
    BY <2>2, CheckoutTakenStack
  <2>4. Whole(h) /\ \A i \in 1..Len(s) : Whole(s[i].snapshot)
    BY <2>2, HeldOf
  <2>5. \A i \in 1..Len(t) : Whole(t[i].snapshot)
    BY <2>3, <2>4
  <2>6. Whole(g)
    BY <2>1, CheckoutAtWhole
  <2>7. CASE CheckoutFailsOf
    BY <2>7, HeldOf DEF CheckoutFailsOf
  <2>8. CASE CheckoutFileOf(h, t, p, g)
    BY <2>4, <2>5, <2>8, HeldOf DEF CheckoutFileOf
  <2>9. CASE CheckoutDirectoryEntryOf(h, t, p, g)
    <3> PICK left : left = {c \in Children(p) : Lists(g, c) /\ ~Excluded(c)}
      OBVIOUS
    <3> PICK f : f = [path |-> p, snapshot |-> g, left |-> left]
      OBVIOUS
    <3> PICK u : u = Append(t, f)
      OBVIOUS
    <3>1. command' = Checkout(h, u)
      BY <2>9 DEF CheckoutDirectoryEntryOf
    <3>2. /\ Len(u) = Len(t) + 1 /\ u[Len(t) + 1] = f
          /\ \A i \in 1..Len(t) : u[i] = t[i]
      <4>1. left \in SUBSET Children(p) /\ \A c \in left : Lists(g, c)
        OBVIOUS
      <4>2. t # <<>> => t[Len(t)].snapshot = s[Len(s)].snapshot
        <5>1. s # <<>> => Len(s) \in 1..Len(s)
          BY <2>2, StackLength DEF CheckoutCalls
        <5>2. QED
          BY <2>3, <5>1
      <4>3. IF t = <<>> THEN p = Top /\ g = h
            ELSE /\ p \in Children(t[Len(t)].path) \ t[Len(t)].left
                 /\ g = Under(t[Len(t)].snapshot, p) /\ Lists(t[Len(t)].snapshot, p)
        BY <2>2, <2>3, <4>2
      <4>4. QED
        BY <2>3, <4>1, <4>3, CheckoutPushStack
    <3>3. Len(t) \in Nat
      BY <2>3, StackLength DEF CheckoutCalls
    <3>4. ASSUME NEW i \in 1..Len(u) PROVE Whole(u[i].snapshot)
      <4>1. CASE i = Len(t) + 1
        BY <2>6, <3>2, <4>1
      <4>2. CASE i # Len(t) + 1
        <5>1. i \in 1..Len(t)
          BY <3>2, <3>3, <4>2
        <5>2. QED
          BY <2>5, <3>2, <5>1
      <4>3. QED
        BY <4>1, <4>2
    <3>5. QED
      BY <2>4, <3>1, <3>4, HeldOf
  <2>10. QED
    BY <2>1, <2>7, <2>8, <2>9 DEF CheckoutEntryOf
<1>2. CASE CheckoutDirectory
  <2>1. PICK h, s : CheckoutDirectoryOf(h, s)
    BY <1>2, CheckoutDirectoryIs
  <2>2. /\ command = Checkout(h, s) /\ CheckoutCalls(s, h) /\ s # <<>>
        /\ command' = Idle \/ command' = Checkout(h, Front(s))
    BY <2>1 DEF CheckoutDirectoryOf
  <2>3. Whole(h) /\ \A i \in 1..Len(s) : Whole(s[i].snapshot)
    BY <2>2, HeldOf
  <2>4. \A i \in 1..Len(Front(s)) : i \in 1..Len(s) /\ Front(s)[i] = s[i]
    BY <2>2, CheckoutPopStack
  <2>5. QED
    BY <2>2, <2>3, <2>4, HeldOf
<1>3. QED
  BY <1>1, <1>2

LEMMA HeldStep ==
    ASSUME NoneIsNoSnapshot, CommandInv, FileTree(files), Held(command), [Next]_vars
    PROVE  Held(command')
<1>1. CASE UNCHANGED command
  BY <1>1
<1>2. ASSUME NEW src \in Sources \cup {None}, Begin(src)
      PROVE  Held(command')
  <2>1. command' = Current(src, <<>>)
    BY <1>2 DEF Begin, Current
  <2>2. QED
    BY <2>1, HeldOf, NothingHeld
<1>3. CASE MergeSnapshots
  <2>1. PICK src \in Sources \ {None} : \E prev, base, helper, m : MergeOf(src, prev, base, helper, m)
    BY <1>3, MergeIs
  <2>2. PICK prev, base, helper, m : MergeOf(src, prev, base, helper, m)
    BY <2>1
  <2>3. command = Merging(src, prev) /\ helper \in Data \cup {Failed}
    BY <2>2 DEF MergeOf
  <2>4. Whole(src) /\ Whole(prev)
    BY <2>3, HeldOf, ElsewhereWhole
  <2>5. CASE command' = Idle
    BY <2>5, HeldOf
  <2>6. CASE /\ IsMerge(base, src, prev, helper, m)
             /\ command' = Removing(src, prev, base, m[Top], helper)
    <3>1. Whole(m[Top])
      BY <2>3, <2>4, <2>6, MergeWhole
    <3>2. QED
      BY <2>6, <3>1, HeldOf
  <2>7. QED
    BY <2>2, <2>5, <2>6 DEF MergeOf
<1>4. CASE RemoveTree
  <2>1. PICK src \in Sources \ {None} : \E prev, base, helper, m :
              /\ command = Removing(src, prev, base, m[Top], helper)
              /\ command' = Checkout(m[Top], <<>>)
    BY <1>4, RemoveTreeIs
  <2>2. PICK prev, base, helper, m :
              /\ command = Removing(src, prev, base, m[Top], helper)
              /\ command' = Checkout(m[Top], <<>>)
    BY <2>1
  <2>3. Whole(m[Top])
    BY <2>2, HeldOf
  <2>4. QED
    BY <2>2, <2>3, HeldOf, NothingHeld
<1>5. CASE Die \/ \E p \in Path : CurrentFails(p) \/ DieAt(p)
  <2>1. command' = Idle
    BY <1>5, CurrentFailsIs, DieAtIs DEF Die, Finish, FailsOf
  <2>2. QED
    BY <2>1, HeldOf
<1>6. User => UNCHANGED command
  BY DEF User, Write, Delete, Chmod, Edit
<1>7. UNCHANGED vars => UNCHANGED command
  BY DEF vars
<1>8. QED
  BY <1>1, <1>2, <1>3, <1>4, <1>5, <1>6, <1>7, CurrentHeld, CheckoutHeld
     DEF Next, Command, DieAt

-----------------------------------------------------------------------------
\* The actions of the user, and Checkout, leave a tree of files.
LEMMA FilesStep ==
    ASSUME CommandInv, FileTree(files), Held(command), [Next]_vars
    PROVE  FileTree(files')
<1>1. CASE UNCHANGED files
  BY <1>1
<1>2. CASE User
  <2>1. PICK p \in Path : \/ \E f \in File : Write(p, f)
                          \/ Delete(p)
                          \/ \E m \in Mode : Chmod(p, m)
    BY <1>2 DEF User
  <2>2. CASE \E f \in File : Write(p, f)
    <3>1. PICK f \in File : Write(p, f)
      BY <2>2
    <3>2. files' = Put(files, p, f) /\ (p # Top => DirectoryAt(files, Front(p)))
      BY <3>1 DEF Write, Edit, InTree, IsDirectory, DirectoryAt
    <3>3. FileTree(Put(files, p, f))
      BY <3>2, PutKeepsTree
    <3>4. QED
      BY <3>2, <3>3
  <2>3. CASE Delete(p)
    <3>1. files' = RemoveAll(files, p)
      BY <2>3 DEF Delete, Edit
    <3>2. FileTree(RemoveAll(files, p))
      BY RemoveKeepsTree
    <3>3. QED
      BY <3>1, <3>2
  <2>4. CASE \E m \in Mode : Chmod(p, m)
    <3>1. PICK m \in Mode : Chmod(p, m)
      BY <2>4
    <3>2. files' = [files EXCEPT ![p].mode = m] /\ files[p] # None /\ files[p].kind # "link"
      BY <3>1 DEF Chmod, Edit
    <3>3. FileTree([files EXCEPT ![p].mode = m])
      BY <3>2, ChmodKeepsTree
    <3>4. QED
      BY <3>2, <3>3
  <2>5. QED
    BY <2>1, <2>2, <2>3, <2>4
<1>3. CASE RemoveTree
  <2>1. files' = RemoveAll(files, Top) /\ Top \in Path
    BY <1>3, PathAssumption DEF RemoveTree, Top
  <2>2. FileTree(RemoveAll(files, Top))
    BY <2>1, RemoveKeepsTree
  <2>3. QED
    BY <2>1, <2>2
<1>4. ASSUME NEW p \in Path, CheckoutEntry(p)
      PROVE  FileTree(files')
  <2>1. PICK h, s, t, g : CheckoutEntryOf(h, s, t, p, g)
    BY <1>4, CheckoutEntryIs
  <2>2. FileOf(g) \in File
    BY <2>1, CheckoutAtWhole, WholeIs
  <2> PICK ws : ws = WithDirectories(p)
    OBVIOUS
  <2>3. ASSUME ~Unmakeable(p)
        PROVE  FileTree(ws) /\ (p # Top => DirectoryAt(ws, Front(p)))
    BY <2>3, WithDirectoriesIs
  <2>4. CASE CheckoutFailsOf
    BY <2>4 DEF CheckoutFailsOf
  <2>5. CASE CheckoutDirectoryEntryOf(h, t, p, g)
    <3>1. g.kind = "dir" /\ ~Unmakeable(p) /\ files' = RecreateDir(ws, p, g)
      BY <2>5 DEF CheckoutDirectoryEntryOf
    <3>2. FileTree(RecreateDir(ws, p, g))
      BY <2>2, <2>3, <3>1, RecreateDirTree
    <3>3. QED
      BY <3>1, <3>2
  <2>6. CASE CheckoutFileOf(h, t, p, g)
    <3>1. ~Unmakeable(p) /\ files' \in Recreations(ws, p, g)
      BY <2>6 DEF CheckoutFileOf
    <3>2. QED
      BY <2>2, <2>3, <3>1, RecreationsTree
  <2>7. QED
    BY <2>1, <2>4, <2>5, <2>6 DEF CheckoutEntryOf
<1>5. ASSUME \/ \E src \in Sources \cup {None} : Begin(src)
             \/ \E p \in Path : CurrentEntry(p) \/ CurrentFails(p)
             \/ CurrentDirectory \/ MergeSnapshots \/ CheckoutDirectory \/ Die
             \/ UNCHANGED vars
      PROVE  UNCHANGED files
  BY <1>5 DEF Begin, CurrentEntry, CurrentFails, CurrentDirectory, MergeSnapshots,
              CheckoutDirectory, Die, vars
<1>6. ASSUME NEW p \in Path, DieAt(p)
      PROVE  FileTree(files')
  <2>1. PICK h : DiesTaking(p, h) \/ DiesCheckingOut(p, h)
    BY <1>6, DieAtIs
  <2>2. CASE UNCHANGED files
    BY <2>2
  <2>3. ASSUME ~Unmakeable(p), files' \in Recreations(WithDirectories(p), p, h),
               NEW g, NEW s, command = Checkout(g, s), CheckoutCalls(s, g), EntryOf(s, p),
               h = IF s = <<>> THEN g ELSE Under(s[Len(s)].snapshot, p)
        PROVE  FileTree(files')
    <3>1. FileOf(h) \in File
      BY <2>3, EntryWhole, WholeIs
    <3>2. /\ FileTree(WithDirectories(p))
          /\ p # Top => DirectoryAt(WithDirectories(p), Front(p))
      BY <2>3, WithDirectoriesIs
    <3>3. QED
      BY <2>3, <3>1, <3>2, RecreationsTree
  <2>4. QED
    BY <2>1, <2>2, <2>3 DEF DiesTaking, DiesCheckingOut
<1>7. QED
  BY <1>1, <1>2, <1>3, <1>4, <1>5, <1>6 DEF Next, Command, DieAt

\* Every mapping of a path is one of a map, whose directories form a tree.
PathsInv == IsMap(paths) /\ Upward(paths.known)

LEMMA StoreKeepsPaths ==
    ASSUME PathsInv, NEW p \in Path, NEW h, UNCHANGED paths \/ paths' = StoreSnapshot(paths, p, h)
    PROVE  PathsInv'
<1>1. IsMap(StoreSnapshot(paths, p, h)) /\ Upward(StoreSnapshot(paths, p, h).known)
  BY StoreSnapshotIs, StoreKeepsKnown DEF PathsInv
<1>2. QED
  BY <1>1 DEF PathsInv

LEMMA PathsStep ==
    ASSUME CommandInv, PathsInv, [Next]_vars
    PROVE  PathsInv'
<1>1. CASE UNCHANGED paths
  BY <1>1 DEF PathsInv
<1>2. ASSUME NEW p \in Path, CurrentEntry(p)
      PROVE  PathsInv'
  <2>1. PICK src \in Sources \cup {None} : \E s, t : CurrentEntryOf(src, s, t, p)
    BY <1>2, CurrentEntryIs
  <2>2. PICK s, t : CurrentEntryOf(src, s, t, p)
    BY <2>1
  <2>3. UNCHANGED paths \/ \E h : paths' = StoreSnapshot(paths, p, h)
    BY <2>2 DEF CurrentEntryOf, CurrentNothingOf, CurrentDirectoryEntryOf, CurrentFileOf, Record
  <2>4. QED
    BY <2>3, StoreKeepsPaths DEF PathsInv
<1>3. CASE CurrentDirectory
  <2>1. PICK src \in Sources \cup {None} : \E p \in Path : \E s, h : CurrentDirectoryOf(src, s, p, h)
    BY <1>3, CurrentDirectoryIs
  <2>2. PICK p \in Path : \E s, h : CurrentDirectoryOf(src, s, p, h)
    BY <2>1
  <2>3. UNCHANGED paths \/ \E h : paths' = StoreSnapshot(paths, p, h)
    BY <2>2 DEF CurrentDirectoryOf, Record
  <2>4. QED
    BY <2>3, StoreKeepsPaths
<1>4. CASE RemoveTree
  <2>1. paths' = paths \/ paths' = NoMappings
    BY <1>4 DEF RemoveTree
  <2>2. NoMappings.latest = [p \in Path |-> None] /\ NoMappings.known = {}
    BY DEF NoMappings
  <2>3. IsMap(NoMappings) /\ Upward(NoMappings.known)
    BY <2>2 DEF IsMap, Upward
  <2>4. QED
    BY <2>1, <2>3 DEF PathsInv
<1>5. ASSUME NEW p \in Path, CheckoutEntry(p)
      PROVE  PathsInv'
  <2>1. PICK h, s, t, g : CheckoutEntryOf(h, s, t, p, g)
    BY <1>5, CheckoutEntryIs
  <2>2. UNCHANGED paths \/ paths' = StoreSnapshot(paths, p, g)
    BY <2>1 DEF CheckoutEntryOf, CheckoutFailsOf, CheckoutDirectoryEntryOf, CheckoutFileOf
  <2>3. QED
    BY <2>2, StoreKeepsPaths
<1>6. CASE CheckoutDirectory
  <2>1. PICK h, s : CheckoutDirectoryOf(h, s)
    BY <1>6, CheckoutDirectoryIs
  <2>2. /\ Stacked(s) /\ s # <<>>
        /\ paths' = StoreSnapshot(paths, s[Len(s)].path, s[Len(s)].snapshot)
    BY <2>1 DEF CheckoutDirectoryOf, CheckoutCalls
  <2>3. s[Len(s)].path \in Path
    BY <2>2, StackLength, FrameOfStack
  <2>4. QED
    BY <2>2, <2>3, StoreKeepsPaths
<1>7. ASSUME \/ User
             \/ \E src \in Sources \cup {None} : Begin(src)
             \/ \E p \in Path : CurrentFails(p)
             \/ MergeSnapshots \/ Die \/ UNCHANGED vars
      PROVE  UNCHANGED paths
  BY <1>7 DEF User, Write, Delete, Chmod, Edit, Begin, CurrentFails, MergeSnapshots, Die, vars
<1>8. ASSUME NEW p \in Path, DieAt(p)
      PROVE  PathsInv'
  <2>1. PICK h : paths' \in CutShort(paths, p, h)
    BY <1>8, DieAtIs
  <2>2. QED
    BY <2>1, CutShortIs, CutShortKeepsKnown DEF PathsInv
<1>9. QED
  BY <1>1, <1>2, <1>3, <1>4, <1>5, <1>6, <1>7, <1>8 DEF Next, Command, DieAt

\* How commands end.
LEMMA OutcomeStep ==
    ASSUME CommandInv, outcome \in {"none", "ok", "refused", "failed"}, [Next]_vars
    PROVE  outcome' \in {"none", "ok", "refused", "failed"}
<1>1. ASSUME NEW p \in Path, CurrentEntry(p)
      PROVE  outcome' \in {outcome, "ok"}
  <2>1. PICK src \in Sources \cup {None} : \E s, t : CurrentEntryOf(src, s, t, p)
    BY <1>1, CurrentEntryIs
  <2>2. QED
    BY <2>1 DEF CurrentEntryOf, CurrentNothingOf, CurrentDirectoryEntryOf, CurrentFileOf, Returns
<1>2. CASE CurrentDirectory
  <2>1. PICK src \in Sources \cup {None} : \E p \in Path : \E s, h : CurrentDirectoryOf(src, s, p, h)
    BY <1>2, CurrentDirectoryIs
  <2>2. QED
    BY <2>1 DEF CurrentDirectoryOf, Returns
<1>3. CASE MergeSnapshots
  <2>1. PICK src \in Sources \ {None} : \E prev, base, helper, m : MergeOf(src, prev, base, helper, m)
    BY <1>3, MergeIs
  <2>2. QED
    BY <2>1 DEF MergeOf
<1>4. ASSUME NEW p \in Path, CheckoutEntry(p)
      PROVE  outcome' \in {outcome, "ok", "failed"}
  <2>1. PICK h, s, t, g : CheckoutEntryOf(h, s, t, p, g)
    BY <1>4, CheckoutEntryIs
  <2>2. QED
    BY <2>1 DEF CheckoutEntryOf, CheckoutFailsOf, CheckoutDirectoryEntryOf, CheckoutFileOf
<1>5. CASE CheckoutDirectory
  <2>1. PICK h, s : CheckoutDirectoryOf(h, s)
    BY <1>5, CheckoutDirectoryIs
  <2>2. QED
    BY <2>1 DEF CheckoutDirectoryOf
<1>6. ASSUME Die \/ \E p \in Path : CurrentFails(p) \/ DieAt(p)
      PROVE  outcome' = "failed"
  BY <1>6, CurrentFailsIs, DieAtIs DEF Die, Finish, FailsOf
<1>7. ASSUME \/ User
             \/ \E src \in Sources \cup {None} : Begin(src)
             \/ RemoveTree \/ UNCHANGED vars
      PROVE  UNCHANGED outcome
  BY <1>7 DEF User, Write, Delete, Chmod, Edit, Begin, RemoveTree, vars
<1>8. QED
  BY <1>1, <1>2, <1>3, <1>4, <1>5, <1>6, <1>7 DEF Next, Command, DieAt

\* The inductive invariant: what a command holds is whole.
TypeInv == TypeOK /\ PathsInv /\ Held(command)

LEMMA TypeIs ==
    /\ TypeOK => FileTree(files) /\ Upward(paths.known)
                 /\ outcome \in {"none", "ok", "refused", "failed"}
    /\ CommandInv /\ FileTree(files) /\ Upward(paths.known)
         /\ outcome \in {"none", "ok", "refused", "failed"} => TypeOK
<1>1. TypeOK => FileTree(files) /\ Upward(paths.known)
                /\ outcome \in {"none", "ok", "refused", "failed"}
  BY DEF TypeOK, FileTree, Upward, IsDirectory, DirectoryAt
<1>2. CommandInv => command.pc \in {"idle", "current", "merge", "remove", "checkout"}
  BY DEF CommandInv, WellFormed, Idle, Current, Merging, Removing, Checkout
<1>3. ASSUME CommandInv, FileTree(files), Upward(paths.known),
             outcome \in {"none", "ok", "refused", "failed"}
      PROVE  TypeOK
  BY <1>2, <1>3 DEF TypeOK, FileTree, Upward, IsDirectory, DirectoryAt
<1>4. QED
  BY <1>1, <1>3

LEMMA TypeStep ==
    ASSUME NoneIsNoSnapshot, CommandInv, TypeInv, [Next]_vars
    PROVE  TypeInv'
<1>1. /\ FileTree(files) /\ Held(command) /\ PathsInv
      /\ outcome \in {"none", "ok", "refused", "failed"}
  BY TypeIs DEF TypeInv
<1>2. FileTree(files')
  BY <1>1, FilesStep
<1>3. PathsInv'
  BY <1>1, PathsStep
<1>4. Held(command')
  BY <1>1, HeldStep
<1>5. outcome' \in {"none", "ok", "refused", "failed"} /\ CommandInv'
  BY <1>1, OutcomeStep, CommandStep
<1>6. TypeOK'
  <2>1. Upward(paths'.known)
    BY <1>3 DEF PathsInv
  <2>2. command'.pc \in {"idle", "current", "merge", "remove", "checkout"}
    BY <1>5 DEF CommandInv, WellFormed, Idle, Current, Merging, Removing, Checkout
  <2>3. QED
    BY <1>2, <1>5, <2>1, <2>2 DEF TypeOK, FileTree, Upward, IsDirectory, DirectoryAt
<1>7. QED
  BY <1>3, <1>4, <1>6 DEF TypeInv

\* In the beginning, the files are those of a snapshot, and the directories on
\* the way to the archive.
LEMMA InitTree ==
    ASSUME Init
    PROVE  FileTree(files) /\ PathsInv
<1>1. PICK h \in Starts :
           /\ files = [p \in Path |->
                          IF At(h, p) = None /\ HoldsArchive(p) THEN MadeOnTheWay
                          ELSE FileOf(At(h, p))]
           /\ paths = [latest |-> [p \in Path |-> At(h, p)],
                       known  |-> {p \in Path : At(h, p) # None}]
  BY DEF Init
<1>2. /\ MadeOnTheWay \in File /\ MadeOnTheWay # None /\ MadeOnTheWay.kind = "dir"
  BY ModesAssumption, NoneAssumption DEF MadeOnTheWay, File
<1>3. ASSUME NEW p \in Path
      PROVE  /\ At(h, p) = None => FileOf(At(h, p)) = None
             /\ At(h, p) # None => /\ FileOf(At(h, p)) \in File
                                   /\ FileOf(At(h, p)).kind = At(h, p).kind
  <2>1. At(h, p) = None => FileOf(At(h, p)) = None
    BY DEF FileOf
  <2>2. ASSUME h # None, At(h, p) # None PROVE FileOf(At(h, p)) \in File
    <3>1. h \in Elsewhere /\ IsWhole(Elsewhere)
      BY <2>2, ElsewhereAssumption
    <3>2. At(h, p) \in Elsewhere
      BY <2>2, <3>1, AtWhole
    <3>3. QED
      BY <3>1, <3>2 DEF IsWhole
  <2>3. ASSUME h = None PROVE At(h, p) = None
    <3> DEFINE N == {k \in Nat : \A q \in Path : Len(q) = k => At(h, q) = None}
    <3>1. 0 \in N
      BY <2>3, AtSolves, PathIsSeq
    <3>2. ASSUME NEW k \in Nat, k \in N PROVE k + 1 \in N
      <4>1. ASSUME NEW q \in Path, Len(q) = k + 1 PROVE At(h, q) = None
        <5>1. q # Top /\ Front(q) \in Path /\ Len(Front(q)) = Len(q) - 1
          BY <4>1, PathIsSeq, FrontOfPath
        <5>2. Len(Front(q)) = k
          BY <4>1, <5>1
        <5>3. QED
          BY <3>2, <5>1, <5>2, AtSolves DEF Under, Lists
      <4>2. QED
        BY <4>1
    <3> HIDE DEF N
    <3>3. Nat \subseteq N
      BY <3>1, <3>2, Numbers!SetInduction
    <3>4. Len(p) \in N
      BY <3>3, PathIsSeq
    <3>5. QED
      BY <3>4 DEF N
  <2>4. At(h, p) # None => FileOf(At(h, p)).kind = At(h, p).kind
    BY DEF FileOf
  <2>5. QED
    BY <2>1, <2>2, <2>3, <2>4
<1>4. \A p \in Path : files[p] = IF At(h, p) = None /\ HoldsArchive(p) THEN MadeOnTheWay
                                 ELSE FileOf(At(h, p))
  BY <1>1
<1>5. files \in [Path -> File \cup {None}]
  <2>1. \A p \in Path : (IF At(h, p) = None /\ HoldsArchive(p) THEN MadeOnTheWay
                         ELSE FileOf(At(h, p))) \in File \cup {None}
    BY <1>2, <1>3
  <2>2. QED
    BY <1>1, <2>1
<1>6. ASSUME NEW p \in Path, p # Top, At(h, p) # None
      PROVE  At(h, Front(p)) # None /\ At(h, Front(p)).kind = "dir"
  BY <1>6, AtSolves DEF Under, Lists
<1>7. ASSUME NEW p \in Path, files[p] # None, p # Top
      PROVE  DirectoryAt(files, Front(p))
  <2>1. Front(p) \in Path
    BY <1>7, FrontOfPath
  <2>2. CASE At(h, p) # None
    <3>1. files[Front(p)] = FileOf(At(h, Front(p))) /\ At(h, Front(p)).kind = "dir"
          /\ At(h, Front(p)) # None
      BY <1>4, <1>6, <1>7, <2>1, <2>2
    <3>2. QED
      BY <1>3, <2>1, <3>1, NoneAssumption DEF DirectoryAt
  <2>3. CASE At(h, p) = None
    <3>1. HoldsArchive(p)
      BY <1>3, <1>4, <1>7, <2>3
    <3>2. HoldsArchive(Front(p))
      <4>1. ArchivePath \in Path /\ IsPrefix(p, ArchivePath) /\ ArchivePath # None
        BY <3>1, ArchiveAssumption DEF HoldsArchive
      <4>2. IsPrefix(Front(p), p)
        BY <1>7, <2>1, PrefixOfFront, PrefixFacts
      <4>3. QED
        BY <2>1, <4>1, <4>2, PrefixTransitive DEF HoldsArchive
    <3>3. CASE At(h, Front(p)) = None
      BY <1>2, <1>4, <2>1, <3>2, <3>3 DEF DirectoryAt
    <3>4. CASE At(h, Front(p)) # None
      <4>1. At(h, Front(p)).kind = "dir"
        BY <2>1, <3>2, <3>4, StartsAssumption
      <4>2. files[Front(p)] = FileOf(At(h, Front(p)))
        BY <1>4, <2>1, <3>4
      <4>3. QED
        BY <1>3, <2>1, <3>4, <4>1, <4>2, NoneAssumption DEF DirectoryAt
    <3>5. QED
      BY <3>3, <3>4
  <2>4. QED
    BY <2>2, <2>3
<1>8. PathsInv
  <2> PICK known : known = {p \in Path : At(h, p) # None}
    OBVIOUS
  <2>1. known \subseteq Path /\ \A p \in known : p # Top => Front(p) \in known
    BY <1>6, FrontOfPath
  <2>2. Upward(known)
    BY <2>1, UpwardByFront
  <2>3. paths.latest = [p \in Path |-> At(h, p)] /\ paths.known = known
    BY <1>1
  <2>4. QED
    BY <2>2, <2>3 DEF PathsInv, IsMap
<1>9. QED
  BY <1>5, <1>7, <1>8 DEF FileTree

LEMMA InitHasType ==
    ASSUME Init
    PROVE  TypeInv
<1>1. FileTree(files) /\ PathsInv
  BY InitTree
<1>2. command = Idle /\ outcome = "none"
  BY DEF Init
<1>3. Held(command) /\ CommandInv
  BY <1>2, HeldOf DEF CommandInv, WellFormed
<1>4. QED
  BY <1>1, <1>2, <1>3, TypeIs DEF TypeInv, PathsInv

\* Whatever the user does between and amid the commands, and wherever they die,
\* the files are a tree, and so are the directories of mappedPaths: every path
\* that has a mapping can be listed from the top.
THEOREM TypeCorrect ==
    ASSUME NoneIsNoSnapshot
    PROVE  Spec => []TypeOK
<1>1. Init => TypeInv
  BY InitHasType
<1>2. CommandInv /\ TypeInv /\ [Next]_vars => TypeInv'
  BY TypeStep
<1>3. TypeInv => TypeOK
  BY DEF TypeInv
<1>4. QED
  BY <1>1, <1>2, <1>3, CommandInvariance, PTL DEF Spec

-----------------------------------------------------------------------------
(***************************************************************************)
(* The files are those of the latest snapshot.                             *)
(***************************************************************************)
\* What holds of a path and goes down holds of all below it.
LEMMA DownwardHasAll ==
    ASSUME NEW X, Downward(X), NEW p \in Path, p \in X
    PROVE  Below(p) \subseteq X
<1> DEFINE S == {k \in Nat : \A r \in Below(p) : Len(r) = k => r \in X}
<1>1. 0 \in S
  <2>1. ASSUME NEW r \in Below(p), Len(r) = 0 PROVE r = p
    <3>1. r \in Path /\ IsPrefix(p, r) /\ Len(p) \in Nat
      BY PathIsSeq DEF Below
    <3>2. Len(p) <= Len(r)
      BY <3>1, PrefixFacts
    <3>3. QED
      BY <2>1, <3>1, <3>2, PrefixFacts
  <2>2. QED
    BY <2>1
<1>2. ASSUME NEW k \in Nat, k \in S PROVE k + 1 \in S
  <2>1. ASSUME NEW r \in Below(p), Len(r) = k + 1 PROVE r \in X
    <3>1. r \in Path /\ IsPrefix(p, r) /\ r # Top
      BY <2>1, PathIsSeq DEF Below
    <3>2. Front(r) \in Path /\ Len(Front(r)) = Len(r) - 1
      BY <3>1, FrontOfPath
    <3>3. CASE r = p
      BY <3>3
    <3>4. CASE r # p
      <4>1. IsPrefix(p, Front(r))
        BY <3>1, <3>4, PrefixOfFront
      <4>2. Front(r) \in Below(p) /\ Len(Front(r)) = k
        BY <2>1, <3>2, <4>1 DEF Below
      <4>3. Front(r) \in X
        BY <1>2, <4>2
      <4>4. QED
        BY <3>1, <4>3 DEF Downward
    <3>5. QED
      BY <3>3, <3>4
  <2>2. QED
    BY <2>1
<1> HIDE DEF S
<1>3. Nat \subseteq S
  BY <1>1, <1>2, Numbers!SetInduction
<1>4. ASSUME NEW r \in Below(p) PROVE r \in X
  <2>1. Len(r) \in S
    BY <1>3, PathIsSeq DEF Below
  <2>2. QED
    BY <2>1 DEF S
<1>5. QED
  BY <1>4

\* A path is below itself, and its children are below it.
LEMMA BelowItself ==
    ASSUME NEW p \in Path
    PROVE  p \in Below(p) /\ \A c \in Children(p) : c \in Below(p) /\ c # p
<1>1. \A q \in Path : q \in Below(q)
  BY PrefixFacts DEF Below
<1>2. ASSUME NEW c \in Children(p) PROVE c \in Below(p) /\ c # p
  <2>1. c \in Below(c)
    BY <1>1, ChildOfPath
  <2>2. QED
    BY <2>1, BelowChild
<1>3. QED
  BY <1>1, <1>2

\* What snapshot.Current looks at: the files that are not excluded.
Seen(fs) == Without(fs, {q \in Path : Excluded(q)})

LEMMA SeenIs ==
    ASSUME NEW fs, FileTree(fs)
    PROVE  /\ FileTree(Seen(fs)) /\ ~Excluded(Top) /\ Seen(fs)[Top] = fs[Top]
           /\ \A q \in Path : Seen(fs)[q] = IF Excluded(q) THEN None ELSE fs[q]
<1> PICK X : X = {q \in Path : Excluded(q)}
  OBVIOUS
<1>1. Downward(X)
  <2> SUFFICES ASSUME NEW q \in Path, q # Top, Front(q) \in X
               PROVE  q \in X
    BY DEF Downward
  <2>1. ArchivePath # None /\ ArchivePath \in Path /\ IsPrefix(ArchivePath, Front(q))
    BY ArchiveAssumption DEF Excluded
  <2>2. IsPrefix(ArchivePath, q)
    BY <2>1, PrefixOfFront
  <2>3. QED
    BY <2>1, <2>2 DEF Excluded
<1>2. ~Excluded(Top)
  <2> SUFFICES ASSUME Excluded(Top) PROVE FALSE
    OBVIOUS
  <2>1. /\ ArchivePath \in Path /\ ArchivePath # Top /\ Top \in Path
        /\ IsPrefix(ArchivePath, Top)
    BY ArchiveAssumption, PathAssumption DEF Excluded, Top
  <2>2. Len(ArchivePath) <= Len(Top) /\ Len(Top) = 0 /\ Len(ArchivePath) \in Nat
    BY <2>1, PrefixFacts, PathIsSeq
  <2>3. QED
    BY <2>1, <2>2, PathIsSeq
<1>3. Seen(fs) = Without(fs, X)
  BY DEF Seen
<1>4. FileTree(Without(fs, X))
  BY <1>1, PrunedTree
<1>5. \A q \in Path : Without(fs, X)[q] = IF Excluded(q) THEN None ELSE fs[q]
  BY DEF Without
<1>6. Top \in Path
  BY PathAssumption DEF Top
<1>7. QED
  BY <1>2, <1>3, <1>4, <1>5, <1>6

\* The function t has the tree of h, which is at p.
TreeOf(t, p, h) ==
    t[p] = h /\ \A r \in Below(p) : r # p => t[r] = Under(t[Front(r)], r)

\* What v has from p on is what h says.
Agrees(v, p, h) ==
    \A t : TreeOf(t, p, h) => \A r \in Below(p) : v[r] = FileOf(t[r])

\* Where a tree has nothing, it has nothing below.
LEMMA NothingFrom ==
    ASSUME NEW t, NEW p \in Path, NEW h, TreeOf(t, p, h),
           NEW q \in Below(p), t[q] = None, NEW r \in Below(q)
    PROVE  t[r] = None
<1> PICK X : X = {x \in Below(q) : t[x] = None}
  OBVIOUS
<1>1. q \in Path /\ q \in X
  BY BelowItself DEF Below
<1>2. Downward(X)
  <2> SUFFICES ASSUME NEW x \in Path, x # Top, Front(x) \in X
               PROVE  x \in X
    BY DEF Downward
  <2>1. Front(x) \in Below(q) /\ t[Front(x)] = None /\ Front(x) \in Path
    BY FrontOfPath
  <2>2. x \in Below(q)
    BY <1>1, <2>1, BelowDownward DEF Downward
  <2>3. Front(x) \in Below(p)
    BY <1>1, <2>1, PrefixTransitive DEF Below
  <2>4. x \in Below(p)
    BY <2>3, BelowDownward DEF Downward
  <2>5. x # p
    <3>1. Len(Front(x)) < Len(x) /\ Len(x) \in Nat /\ Len(Front(x)) \in Nat
      BY FrontOfPath, PathIsSeq
    <3>2. Len(p) <= Len(Front(x)) /\ Len(p) \in Nat
      BY <2>1, <2>3, PrefixFacts, PathIsSeq DEF Below
    <3>3. QED
      BY <3>1, <3>2
  <2>6. t[x] = Under(t[Front(x)], x)
    BY <2>4, <2>5 DEF TreeOf
  <2>7. QED
    BY <2>1, <2>2, <2>6 DEF Under, Lists
<1>3. Below(q) \subseteq X
  BY <1>1, <1>2, DownwardHasAll
<1>4. QED
  BY <1>3

\* So has a tree of files.
LEMMA NoFileFrom ==
    ASSUME NEW v, FileTree(v), NEW q \in Path, v[q] = None, NEW r \in Below(q)
    PROVE  v[r] = None
<1>1. ~DirectoryAt(v, q)
  BY DEF DirectoryAt
<1>2. CASE r = q
  BY <1>2
<1>3. CASE r # q
  BY <1>1, <1>3, NothingBelow
<1>4. QED
  BY <1>2, <1>3

\* What is at p agrees with h when it is what h says, and so are the entries.
LEMMA AgreesFrom ==
    ASSUME NEW v, FileTree(v), NEW p \in Path, NEW h, v[p] = FileOf(h),
           \A c \in Children(p) :
               IF v[c] = None THEN ~Lists(h, c)
               ELSE Lists(h, c) /\ Agrees(v, c, h.contents[Last(c)])
    PROVE  Agrees(v, p, h)
<1> SUFFICES ASSUME NEW t, TreeOf(t, p, h), NEW r \in Below(p)
             PROVE  v[r] = FileOf(t[r])
  BY DEF Agrees
<1>1. CASE r = p
  BY <1>1 DEF TreeOf
<1>2. CASE r # p
  <2>1. PICK c \in Children(p) : r \in Below(c)
    BY <1>2, ChildAbove
  <2>2. c \in Path /\ c \in Below(p) /\ c # p /\ Front(c) = p
    BY BelowItself, ChildOfPath
  <2>3. t[c] = Under(h, c)
    BY <2>2 DEF TreeOf
  <2>4. CASE v[c] = None
    <3>1. t[c] = None
      BY <2>3, <2>4 DEF Under
    <3>2. t[r] = None /\ v[r] = None
      BY <2>1, <2>2, <2>4, <3>1, NothingFrom, NoFileFrom
    <3>3. QED
      BY <3>2 DEF FileOf
  <2>5. CASE v[c] # None
    <3>1. t[c] = h.contents[Last(c)] /\ Agrees(v, c, h.contents[Last(c)])
      BY <2>3, <2>5 DEF Under
    <3>2. ASSUME NEW x \in Below(c), x # c PROVE t[x] = Under(t[Front(x)], x)
      <4>1. x \in Below(p) /\ x # p
        BY BelowChild
      <4>2. QED
        BY <4>1 DEF TreeOf
    <3>3. TreeOf(t, c, h.contents[Last(c)])
      BY <3>1, <3>2 DEF TreeOf
    <3>4. QED
      BY <2>1, <3>1, <3>3 DEF Agrees
  <2>6. QED
    BY <2>4, <2>5
<1>3. QED
  BY <1>1, <1>2

\* At the top, what agrees with a snapshot is its tree.
LEMMA AgreesAtTop ==
    ASSUME NEW v, NEW h, Agrees(v, Top, h), NEW p \in Path
    PROVE  v[p] = FileOf(At(h, p))
<1> PICK t : t = [q \in Path |-> At(h, q)]
  OBVIOUS
<1>1. Top \in Path
  BY PathAssumption DEF Top
<1>2. ASSUME NEW r \in Below(Top), r # Top PROVE t[r] = Under(t[Front(r)], r)
  <2>1. r \in Path /\ Front(r) \in Path
    BY <1>2, FrontOfPath DEF Below
  <2>2. At(h, r) = Under(At(h, Front(r)), r)
    BY <1>2, <2>1, AtSolves
  <2>3. QED
    BY <2>1, <2>2
<1>3. t[Top] = h
  BY <1>1, AtSolves
<1>4. TreeOf(t, Top, h)
  BY <1>2, <1>3 DEF TreeOf
<1>5. p \in Below(Top)
  BY PrefixFacts DEF Below
<1>6. v[p] = FileOf(t[p])
  BY <1>4, <1>5 DEF Agrees
<1>7. QED
  BY <1>6

\* The path q is an entry of a directory that snapshot.Current is at,
OpenEntry(s, q) == Len(q) \in 1..Len(s) /\ s[Len(q)].path = Front(q)

\* and has been looked at.
LookedAt(s, q) ==
    /\ q \notin s[Len(q)].left
    /\ Len(q) + 1 \in 1..Len(s) => s[Len(q) + 1].path # q

Found(v, s, q) ==
    /\ Last(q) \in DOMAIN s[Len(q)].found
    /\ Agrees(v, q, s[Len(q)].found[Last(q)])
NotFound(s, q) == Last(q) \notin DOMAIN s[Len(q)].found

FramesTree(v, s) ==
    \A i \in 1..Len(s) :
        /\ v[s[i].path] = [kind |-> "dir", mode |-> s[i].mode, data |-> None]
        /\ v[s[i].path] # None

\* Of the entries that have been looked at, those that are there have been
\* found, with snapshots that agree with what is there.
CurrentTree(v, s) ==
    /\ FramesTree(v, s)
    /\ \A q \in Path : OpenEntry(s, q) =>
           IF LookedAt(s, q) /\ v[q] # None THEN Found(v, s, q) ELSE NotFound(s, q)

\* The same, but for the entry p, of which nothing is known yet.
TreeBut(v, s, p) ==
    /\ FramesTree(v, s)
    /\ \A q \in Path : OpenEntry(s, q) =>
           IF q # p /\ LookedAt(s, q) /\ v[q] # None THEN Found(v, s, q) ELSE NotFound(s, q)

\* The entry p is taken,
LEMMA TakenTree ==
    ASSUME NEW v, NEW s, CurrentCalls(s), NEW p \in Path, EntryOf(s, p), CurrentTree(v, s)
    PROVE  TreeBut(v, CurrentTaken(s, p), p)
<1> PICK t : t = CurrentTaken(s, p)
  OBVIOUS
<1>1. /\ CurrentCalls(t) /\ Len(t) = Len(s) /\ (t = <<>> <=> s = <<>>)
      /\ t # <<>> => /\ t[Len(t)].left = s[Len(s)].left \ {p} /\ p \in s[Len(s)].left
      /\ \A i \in 1..Len(s) : /\ t[i].path = s[i].path /\ t[i].found = s[i].found
                              /\ t[i].mode = s[i].mode
                              /\ i # Len(s) => t[i] = s[i]
  BY CurrentTakenStack
<1>2. FramesTree(v, t)
  BY <1>1 DEF FramesTree, CurrentTree
<1>3. ASSUME NEW q \in Path, OpenEntry(t, q)
      PROVE  IF q # p /\ LookedAt(t, q) /\ v[q] # None THEN Found(v, t, q) ELSE NotFound(t, q)
  <2>1. Len(q) \in 1..Len(s) /\ OpenEntry(s, q) /\ t[Len(q)].found = s[Len(q)].found
    BY <1>1, <1>3 DEF OpenEntry
  <2>2. (Found(v, t, q) <=> Found(v, s, q)) /\ (NotFound(t, q) <=> NotFound(s, q))
    BY <2>1 DEF Found, NotFound
  <2>3. IF LookedAt(s, q) /\ v[q] # None THEN Found(v, s, q) ELSE NotFound(s, q)
    BY <2>1 DEF CurrentTree
  <2>4. CASE q # p
    <3>1. q \in t[Len(q)].left <=> q \in s[Len(q)].left
      BY <1>1, <2>1, <2>4, StackLength DEF CurrentCalls
    <3>2. Len(q) + 1 \in 1..Len(s) => t[Len(q) + 1].path = s[Len(q) + 1].path
      BY <1>1
    <3>3. LookedAt(t, q) <=> LookedAt(s, q)
      BY <1>1, <3>1, <3>2 DEF LookedAt
    <3>4. QED
      BY <2>2, <2>3, <2>4, <3>3
  <2>5. CASE q = p
    <3>1. s # <<>>
      BY <2>1, EmptyStack
    <3>2. Len(p) = Len(s) /\ p \in s[Len(s)].left
      BY <1>1, <3>1, EntryDepth DEF CurrentCalls
    <3>3. ~LookedAt(s, q)
      BY <2>5, <3>2 DEF LookedAt
    <3>4. QED
      BY <2>2, <2>3, <2>5, <3>3
  <2>6. QED
    BY <2>4, <2>5
<1>4. QED
  BY <1>2, <1>3 DEF TreeBut

\* a directory is entered,
LEMMA PushTree ==
    ASSUME FileTree(files), NEW v, v = Seen(files), NEW t, CurrentCalls(t), NEW p \in Path,
           IF t = <<>> THEN p = Top ELSE p \in Children(t[Len(t)].path) \ t[Len(t)].left,
           Len(p) = Len(t), TreeBut(v, t, p),
           ~Excluded(p), files[p] # None, files[p].kind = "dir"
    PROVE  CurrentTree(v, Append(t, [path |-> p, mode |-> files[p].mode, found |-> <<>>,
                                     left |-> {c \in Children(p) : files[c] # None}]))
<1> PICK left : left = {c \in Children(p) : files[c] # None}
  OBVIOUS
<1> PICK f : f = [path |-> p, mode |-> files[p].mode, found |-> <<>>, left |-> left]
  OBVIOUS
<1> PICK u : u = Append(t, f)
  OBVIOUS
<1>1. /\ Len(u) = Len(t) + 1 /\ u[Len(t) + 1] = f
      /\ \A i \in 1..Len(t) : u[i] = t[i]
  BY CurrentPushStack
<1>2. /\ f.path = p /\ f.mode = files[p].mode /\ DOMAIN f.found = {} /\ f.left = left
      /\ Len(t) \in Nat
  BY StackLength DEF CurrentCalls
<1>3. v[p] = [kind |-> "dir", mode |-> files[p].mode, data |-> None] /\ v[p] # None
  <2>1. v[p] = files[p]
    BY SeenIs
  <2>2. files[p] \in File
    BY DEF FileTree
  <2>3. QED
    BY <2>1, <2>2 DEF File
<1>4. FramesTree(v, u)
  <2>1. ASSUME NEW i \in 1..Len(u)
        PROVE  /\ v[u[i].path] = [kind |-> "dir", mode |-> u[i].mode, data |-> None]
               /\ v[u[i].path] # None
    <3>1. CASE i = Len(t) + 1
      BY <1>1, <1>2, <1>3, <3>1
    <3>2. CASE i # Len(t) + 1
      <4>1. i \in 1..Len(t)
        BY <1>1, <1>2, <3>2
      <4>2. QED
        BY <1>1, <4>1 DEF TreeBut, FramesTree
    <3>3. QED
      BY <3>1, <3>2
  <2>2. QED
    BY <2>1 DEF FramesTree
<1>5. ASSUME NEW q \in Path, OpenEntry(u, q)
      PROVE  IF LookedAt(u, q) /\ v[q] # None THEN Found(v, u, q) ELSE NotFound(u, q)
  <2>1. Len(q) \in 1..Len(u) /\ u[Len(q)].path = Front(q)
    BY <1>5 DEF OpenEntry
  <2>2. CASE Len(q) = Len(t) + 1
    <3>1. NotFound(u, q)
      BY <1>1, <1>2, <2>2 DEF NotFound
    <3>2. ASSUME LookedAt(u, q) PROVE v[q] = None
      <4>1. q \notin left /\ Front(q) = p /\ q # Top
        BY <1>1, <1>2, <2>1, <2>2, <3>2, EmptyStack DEF LookedAt, Top
      <4>2. files[q] = None
        BY <4>1, FrontOfPath
      <4>3. QED
        BY <4>2, SeenIs
    <3>3. QED
      BY <3>1, <3>2
  <2>3. CASE Len(q) # Len(t) + 1
    <3>1. Len(q) \in 1..Len(t) /\ u[Len(q)] = t[Len(q)]
      BY <1>1, <1>2, <2>1, <2>3
    <3>2. OpenEntry(t, q) /\ (Found(v, u, q) <=> Found(v, t, q))
                          /\ (NotFound(u, q) <=> NotFound(t, q))
      BY <2>1, <3>1 DEF OpenEntry, Found, NotFound
    <3>3. IF q # p /\ LookedAt(t, q) /\ v[q] # None THEN Found(v, t, q) ELSE NotFound(t, q)
      BY <3>2 DEF TreeBut
    <3>4. LookedAt(u, q) <=> q # p /\ LookedAt(t, q)
      <4>1. CASE q = p
        <5>1. Len(q) + 1 \in 1..Len(u) /\ u[Len(q) + 1].path = q
          BY <1>1, <1>2, <4>1
        <5>2. QED
          BY <4>1, <5>1 DEF LookedAt
      <4>2. CASE q # p
        <5>1. (Len(q) + 1 \in 1..Len(u) => u[Len(q) + 1].path # q)
                <=> (Len(q) + 1 \in 1..Len(t) => t[Len(q) + 1].path # q)
          <6>1. CASE Len(q) + 1 \in 1..Len(t)
            BY <1>1, <1>2, <6>1
          <6>2. CASE ~(Len(q) + 1 \in 1..Len(t))
            <7>1. Len(q) + 1 = Len(t) + 1
              BY <1>2, <3>1, <6>2
            <7>2. u[Len(q) + 1].path # q
              BY <1>1, <1>2, <4>2, <7>1
            <7>3. QED
              BY <6>2, <7>2
          <6>3. QED
            BY <6>1, <6>2
        <5>2. QED
          BY <3>1, <4>2, <5>1 DEF LookedAt
      <4>3. QED
        BY <4>1, <4>2
    <3>5. QED
      BY <3>2, <3>3, <3>4
  <2>4. QED
    BY <2>2, <2>3
<1>6. QED
  BY <1>4, <1>5 DEF CurrentTree

\* or an entry is returned.
LEMMA ReturnedTree ==
    ASSUME NEW v, NEW t, CurrentCalls(t), t # <<>>, NEW p \in Path, p # Top,
           Len(p) = Len(t), t[Len(t)].path = Front(p), p \notin t[Len(t)].left,
           TreeBut(v, t, p), NEW h,
           IF h = None THEN v[p] = None ELSE v[p] # None /\ Agrees(v, p, h)
    PROVE  CurrentTree(v, WithFound(t, p, h))
<1> PICK u : u = WithFound(t, p, h)
  OBVIOUS
<1>1. /\ Len(u) = Len(t) /\ u # <<>>
      /\ \A i \in 1..Len(t) : /\ u[i].path = t[i].path /\ u[i].left = t[i].left
                              /\ u[i].mode = t[i].mode
                              /\ i # Len(t) => u[i] = t[i]
      /\ u[Len(t)].found = IF h = None THEN t[Len(t)].found
                           ELSE WithEntry(t[Len(t)].found, Last(p), h)
  BY WithFoundStack
<1>2. Len(t) \in 1..Len(t) /\ Len(t) \in Nat
  BY StackLength DEF CurrentCalls
<1>3. FramesTree(v, u)
  BY <1>1 DEF FramesTree, TreeBut
<1> PICK found : found = t[Len(t)].found
  OBVIOUS
<1>4. h # None => u[Len(t)].found
                    = [n \in DOMAIN found \cup {Last(p)} |-> IF n = Last(p) THEN h ELSE found[n]]
  BY <1>1 DEF WithEntry
<1>5. ASSUME NEW q \in Path, OpenEntry(u, q)
      PROVE  IF LookedAt(u, q) /\ v[q] # None THEN Found(v, u, q) ELSE NotFound(u, q)
  <2>1. Len(q) \in 1..Len(t) /\ OpenEntry(t, q)
    BY <1>1, <1>5 DEF OpenEntry
  <2>2. IF q # p /\ LookedAt(t, q) /\ v[q] # None THEN Found(v, t, q) ELSE NotFound(t, q)
    BY <2>1 DEF TreeBut
  <2>3. LookedAt(u, q) <=> LookedAt(t, q)
    BY <1>1, <2>1 DEF LookedAt
  <2>4. CASE q = p
    <3>1. LookedAt(u, q)
      BY <1>1, <1>2, <2>4 DEF LookedAt
    <3>2. NotFound(t, q)
      BY <2>2, <2>4
    <3>3. CASE h = None
      BY <1>1, <2>4, <3>2, <3>3 DEF NotFound
    <3>4. CASE h # None
      <4>1. Last(p) \in DOMAIN u[Len(t)].found /\ u[Len(t)].found[Last(p)] = h
        BY <1>4, <3>4
      <4>2. Found(v, u, q)
        BY <2>4, <3>4, <4>1 DEF Found
      <4>3. QED
        BY <2>4, <3>1, <3>4, <4>2
    <3>5. QED
      BY <3>3, <3>4
  <2>5. CASE q # p
    <3>1. /\ Last(q) \in DOMAIN u[Len(q)].found <=> Last(q) \in DOMAIN t[Len(q)].found
          /\ Last(q) \in DOMAIN t[Len(q)].found
                => u[Len(q)].found[Last(q)] = t[Len(q)].found[Last(q)]
      <4>1. CASE Len(q) # Len(t) \/ h = None
        BY <1>1, <1>2, <2>1, <4>1
      <4>2. CASE Len(q) = Len(t) /\ h # None
        <5>1. Front(q) = Front(p) /\ q # Top
          BY <1>1, <1>2, <2>1, <4>2, EmptyStack DEF OpenEntry, Top
        <5>2. q \in Children(Front(p)) /\ p \in Children(Front(p)) /\ Front(p) \in Path
          BY <5>1, FrontOfPath
        <5>3. Last(q) # Last(p)
          BY <2>5, <5>2, SameChild
        <5>4. QED
          BY <1>4, <4>2, <5>3
      <4>3. QED
        BY <4>1, <4>2
    <3>2. (Found(v, u, q) <=> Found(v, t, q)) /\ (NotFound(u, q) <=> NotFound(t, q))
      BY <3>1 DEF Found, NotFound
    <3>3. QED
      BY <2>2, <2>3, <2>5, <3>2
  <2>6. QED
    BY <2>4, <2>5
<1>6. QED
  BY <1>3, <1>5 DEF CurrentTree

\* A directory whose entries have all been looked at agrees with its snapshot,
\* and its call returns.
LEMMA PopTree ==
    ASSUME NoneIsNoSnapshot, NEW v, FileTree(v), NEW s, CurrentCalls(s), s # <<>>,
           s[Len(s)].left = {}, CurrentTree(v, s), NEW p, p = s[Len(s)].path,
           NEW h, h = SnapshotOf(p, "dir", s[Len(s)].mode, s[Len(s)].found)
    PROVE  v[p] # None /\ Agrees(v, p, h) /\ TreeBut(v, Front(s), p)
<1> PICK t : t = Front(s)
  OBVIOUS
<1>1. /\ CurrentCalls(t) /\ Len(t) = Len(s) - 1
      /\ \A i \in 1..Len(t) : i \in 1..Len(s) /\ i # Len(s) /\ t[i] = s[i]
  BY CurrentPopStack
<1>2. p \in Path /\ Len(p) = Len(s) - 1 /\ Len(p) \in Nat /\ Len(s) \in 1..Len(s)
  BY FrameDepth DEF CurrentCalls
<1>3. h # None /\ h.kind = "dir" /\ h.mode = s[Len(s)].mode /\ h.contents = s[Len(s)].found
  BY SnapshotOfIs
<1>4. v[p] = [kind |-> "dir", mode |-> s[Len(s)].mode, data |-> None]
  BY <1>2 DEF CurrentTree, FramesTree
<1>5. v[p] = FileOf(h)
  BY <1>3, <1>4 DEF FileOf
<1>6. v[p] # None
  BY <1>2 DEF CurrentTree, FramesTree
<1>7. ASSUME NEW c \in Children(p)
      PROVE  IF v[c] = None THEN ~Lists(h, c)
             ELSE Lists(h, c) /\ Agrees(v, c, h.contents[Last(c)])
  <2>1. c \in Path /\ Len(c) = Len(s) /\ Front(c) = p
    BY <1>2, ChildOfPath
  <2>2. OpenEntry(s, c) /\ LookedAt(s, c)
    BY <1>2, <2>1 DEF OpenEntry, LookedAt
  <2>3. IF v[c] # None THEN Found(v, s, c) ELSE NotFound(s, c)
    BY <2>1, <2>2 DEF CurrentTree
  <2>4. QED
    BY <1>3, <2>1, <2>3 DEF Found, NotFound, Lists
<1>8. Agrees(v, p, h)
  BY <1>2, <1>5, <1>7, AgreesFrom
<1>9. FramesTree(v, t)
  BY <1>1 DEF CurrentTree, FramesTree
<1>10. ASSUME NEW q \in Path, OpenEntry(t, q)
       PROVE  IF q # p /\ LookedAt(t, q) /\ v[q] # None THEN Found(v, t, q) ELSE NotFound(t, q)
  <2>1. Len(q) \in 1..Len(t) /\ OpenEntry(s, q) /\ t[Len(q)] = s[Len(q)]
    BY <1>1, <1>10 DEF OpenEntry
  <2>2. (Found(v, t, q) <=> Found(v, s, q)) /\ (NotFound(t, q) <=> NotFound(s, q))
    BY <2>1 DEF Found, NotFound
  <2>3. IF LookedAt(s, q) /\ v[q] # None THEN Found(v, s, q) ELSE NotFound(s, q)
    BY <2>1 DEF CurrentTree
  <2>4. LookedAt(s, q) <=> q # p /\ LookedAt(t, q)
    <3>1. CASE q = p
      <4>1. Len(q) + 1 \in 1..Len(s) /\ s[Len(q) + 1].path = q
        BY <1>2, <3>1
      <4>2. QED
        BY <3>1, <4>1 DEF LookedAt
    <3>2. CASE q # p
      <4>1. (Len(q) + 1 \in 1..Len(s) => s[Len(q) + 1].path # q)
              <=> (Len(q) + 1 \in 1..Len(t) => t[Len(q) + 1].path # q)
        <5>1. CASE Len(q) + 1 \in 1..Len(t)
          BY <1>1, <5>1
        <5>2. CASE ~(Len(q) + 1 \in 1..Len(t))
          <6>1. Len(q) + 1 = Len(s)
            BY <1>1, <1>2, <2>1, <5>2
          <6>2. s[Len(q) + 1].path # q
            BY <3>2, <6>1
          <6>3. QED
            BY <5>2, <6>2
        <5>3. QED
          BY <5>1, <5>2
      <4>2. QED
        BY <2>1, <3>2, <4>1 DEF LookedAt
    <3>3. QED
      BY <3>1, <3>2
  <2>5. QED
    BY <2>2, <2>3, <2>4
<1>11. TreeBut(v, t, p)
  BY <1>9, <1>10 DEF TreeBut
<1>12. QED
  BY <1>6, <1>8, <1>11

-----------------------------------------------------------------------------
\* The frames of a stack are those of directories above one another.
LEMMA FramesNest ==
    ASSUME NEW s, Stacked(s), NEW i \in 1..Len(s), NEW j \in 1..Len(s), i <= j
    PROVE  s[j].path \in Below(s[i].path)
<1> DEFINE S == {k \in Nat : k \in 1..Len(s) /\ i <= k => s[k].path \in Below(s[i].path)}
<1>1. 0 \in S
  OBVIOUS
<1>2. ASSUME NEW k \in Nat, k \in S PROVE k + 1 \in S
  <2>1. ASSUME k + 1 \in 1..Len(s), i <= k + 1 PROVE s[k + 1].path \in Below(s[i].path)
    <3>1. s[k + 1].path \in Path /\ s[i].path \in Path
      BY <2>1, FrameOfStack
    <3>2. CASE i = k + 1
      BY <3>1, <3>2, BelowItself
    <3>3. CASE i # k + 1
      <4>1. k \in 1..Len(s) /\ i <= k /\ Len(s) \in Nat /\ k # Len(s)
        BY <2>1, <3>3, StackLength
      <4>2. s[k].path \in Below(s[i].path)
        BY <1>2, <4>1
      <4>3. s[k + 1].path \in Children(s[k].path)
        BY <4>1, NextOfFrame
      <4>4. Front(s[k + 1].path) = s[k].path /\ s[k + 1].path # Top
        BY <4>3, <4>1, FrameOfStack, ChildOfPath
      <4>5. QED
        BY <3>1, <4>2, <4>4, BelowDownward DEF Downward
    <3>4. QED
      BY <3>2, <3>3
  <2>2. QED
    BY <2>1
<1> HIDE DEF S
<1>3. Nat \subseteq S
  BY <1>1, <1>2, Numbers!SetInduction
<1>4. j \in S
  BY <1>3, StackLength
<1>5. QED
  BY <1>4 DEF S

\* What is left to do in one frame is not below the paths of the next ones.
LEMMA LeftApart ==
    ASSUME NEW s, Stacked(s), NEW i \in 1..Len(s), NEW c \in s[i].left,
           NEW j \in 1..Len(s), i < j, NEW r \in Below(s[j].path)
    PROVE  r \notin Below(c)
<1>1. i # Len(s) /\ Len(s) \in Nat /\ i + 1 \in 1..Len(s) /\ i + 1 <= j
  BY StackLength
<1>2. /\ s[i + 1].path \in Children(s[i].path) /\ s[i + 1].path \notin s[i].left
      /\ c \in Children(s[i].path) /\ s[i].path \in Path
  BY <1>1, NextOfFrame, FrameOfStack
<1>3. s[j].path \in Below(s[i + 1].path) /\ s[j].path \in Path /\ s[i + 1].path \in Path
  BY <1>1, FramesNest, FrameOfStack
<1>4. r \in Path /\ r \in Below(s[i + 1].path)
  BY <1>3, PrefixTransitive DEF Below
<1>5. QED
  BY <1>2, <1>4, OneChildAbove

\* The path q is below an entry that is left to do.
LeftIn(s, q) == \E i \in 1..Len(s) : \E c \in s[i].left : q \in Below(c)

\* Checkout has not come to q yet.
Pending(s, q) == s = <<>> \/ LeftIn(s, q)

\* When an entry is taken, what is below it is pending, and what else was
\* pending is still left to do.
LEMMA TakenLeft ==
    ASSUME NEW h, NEW s, CheckoutCalls(s, h), NEW p \in Path, EntryOf(s, p), NEW q \in Path
    PROVE  /\ q \in Below(p) => Pending(s, q)
           /\ LeftIn(CheckoutTaken(s, p), q) <=> Pending(s, q) /\ q \notin Below(p)
<1> PICK t : t = CheckoutTaken(s, p)
  OBVIOUS
<1>1. /\ Len(t) = Len(s) /\ (t = <<>> <=> s = <<>>)
      /\ t # <<>> => t[Len(t)].left = s[Len(s)].left \ {p} /\ p \in s[Len(s)].left
      /\ \A i \in 1..Len(s) : i # Len(s) => t[i] = s[i]
  BY CheckoutTakenStack
<1>2. Stacked(s)
  BY DEF CheckoutCalls
<1>3. CASE s = <<>>
  <2>1. p = Top /\ q \in Below(p)
    BY <1>3, PrefixFacts DEF EntryOf, Below
  <2>2. ~LeftIn(t, q)
    BY <1>1, <1>3, EmptyStack DEF LeftIn
  <2>3. QED
    BY <1>3, <2>1, <2>2 DEF Pending
<1>4. CASE s # <<>>
  <2>1. /\ Len(s) \in 1..Len(s) /\ p \in s[Len(s)].left
        /\ t[Len(s)].left = s[Len(s)].left \ {p}
        /\ s[Len(s)].left \subseteq Children(s[Len(s)].path) /\ s[Len(s)].path \in Path
    BY <1>1, <1>2, <1>4, StackLength, FrameOfStack
  <2>2. q \in Below(p) => LeftIn(s, q)
    BY <2>1 DEF LeftIn
  <2>3. ASSUME LeftIn(s, q), q \notin Below(p) PROVE LeftIn(t, q)
    <3>1. PICK i \in 1..Len(s) : \E c \in s[i].left : q \in Below(c)
      BY <2>3 DEF LeftIn
    <3>2. PICK c \in s[i].left : q \in Below(c)
      BY <3>1
    <3>3. c # p
      BY <2>3, <3>2
    <3>4. c \in t[i].left
      BY <1>1, <2>1, <3>3
    <3>5. QED
      BY <1>1, <3>2, <3>4 DEF LeftIn
  <2>4. ASSUME LeftIn(t, q) PROVE LeftIn(s, q) /\ q \notin Below(p)
    <3>1. PICK i \in 1..Len(s) : \E c \in t[i].left : q \in Below(c)
      BY <1>1, <2>4 DEF LeftIn
    <3>2. PICK c \in t[i].left : q \in Below(c)
      BY <3>1
    <3>3. c \in s[i].left /\ (i = Len(s) => c # p)
      BY <1>1, <2>1
    <3>4. ASSUME q \in Below(p) PROVE FALSE
      <4>1. CASE i = Len(s)
        BY <2>1, <3>2, <3>3, <3>4, <4>1, OneChildAbove
      <4>2. CASE i # Len(s)
        <5>1. i < Len(s)
          BY <1>2, <4>2, StackLength
        <5>2. q \in Below(s[Len(s)].path)
          BY <2>1, <3>4, BelowChild
        <5>3. QED
          BY <1>2, <2>1, <3>2, <3>3, <5>1, <5>2, LeftApart
      <4>3. QED
        BY <4>1, <4>2
    <3>5. QED
      BY <3>2, <3>3, <3>4 DEF LeftIn
  <2>5. QED
    BY <1>4, <2>2, <2>3, <2>4 DEF Pending
<1>5. QED
  BY <1>3, <1>4

\* The directory of an entry is not pending.
LEMMA DirectoryDone ==
    ASSUME NEW s, Stacked(s), s # <<>>
    PROVE  ~Pending(s, s[Len(s)].path)
<1>1. Len(s) \in 1..Len(s) /\ Len(s) \in Nat
  BY StackLength
<1> PICK d : d = s[Len(s)].path
  OBVIOUS
<1>2. d \in Path /\ d \in Below(d)
  BY <1>1, FrameOfStack, BelowItself
<1>3. ASSUME NEW i \in 1..Len(s), NEW c \in s[i].left PROVE d \notin Below(c)
  <2>1. CASE i = Len(s)
    <3>1. c \in Children(d)
      BY <2>1, FrameOfStack
    <3>2. c \in Path /\ Len(c) = Len(d) + 1 /\ Len(d) \in Nat
      BY <1>2, <3>1, ChildOfPath, PathIsSeq
    <3>3. d \in Below(c) => Len(c) <= Len(d)
      BY <1>2, <3>2, PrefixFacts DEF Below
    <3>4. QED
      BY <3>2, <3>3
  <2>2. CASE i # Len(s)
    <3>1. i < Len(s)
      BY <1>1, <2>2
    <3>2. QED
      BY <1>1, <1>2, <3>1, LeftApart
  <2>3. QED
    BY <2>1, <2>2
<1>4. QED
  BY <1>3 DEF Pending, LeftIn

\* The frames of Checkout are at what the snapshot has at their paths.
LEMMA FramesAt ==
    ASSUME NEW h, NEW s, CheckoutCalls(s, h), NEW i \in 1..Len(s)
    PROVE  s[i].snapshot = At(h, s[i].path)
<1> DEFINE S == {k \in Nat : k \in 1..Len(s) => s[k].snapshot = At(h, s[k].path)}
<1>0. Stacked(s)
  BY DEF CheckoutCalls
<1>1. 0 \in S
  OBVIOUS
<1>2. ASSUME NEW k \in Nat, k \in S PROVE k + 1 \in S
  <2>1. ASSUME k + 1 \in 1..Len(s) PROVE s[k + 1].snapshot = At(h, s[k + 1].path)
    <3>1. CASE k = 0
      <4>1. k + 1 = 1 /\ 1 \in 1..Len(s)
        BY <2>1, <3>1
      <4>2. s[1].path = Top
        BY <1>0, <4>1, FrameOfStack
      <4>3. s[1].snapshot = h
        BY <4>1 DEF CheckoutCalls
      <4>4. QED
        BY <4>1, <4>2, <4>3, AtSolves
    <3>2. CASE k # 0
      <4>1. k \in 1..Len(s) /\ k # Len(s) /\ k + 1 # 1 /\ (k + 1) - 1 = k
        BY <1>0, <2>1, <3>2, StackLength
      <4>2. s[k + 1].path \in Children(s[k].path) /\ s[k].path \in Path
        BY <1>0, <4>1, NextOfFrame, FrameOfStack
      <4>3. s[k + 1].path \in Path \ {Top} /\ Front(s[k + 1].path) = s[k].path
        BY <4>2, ChildOfPath
      <4>4. s[k + 1].snapshot = Under(s[k].snapshot, s[k + 1].path)
        BY <2>1, <4>1 DEF CheckoutCalls
      <4>5. s[k].snapshot = At(h, s[k].path)
        BY <1>2, <4>1
      <4>6. QED
        BY <4>3, <4>4, <4>5, AtSolves
    <3>3. QED
      BY <3>1, <3>2
  <2>2. QED
    BY <2>1
<1> HIDE DEF S
<1>3. Nat \subseteq S
  BY <1>1, <1>2, Numbers!SetInduction
<1>4. i \in S
  BY <1>0, <1>3, StackLength
<1>5. QED
  BY <1>4 DEF S

\* Below what is not there, or is no directory, a snapshot has nothing.
LEMMA NothingAt ==
    ASSUME NEW h, NEW q \in Path, NEW r \in Below(q)
    PROVE  /\ At(h, q) = None => At(h, r) = None
           /\ r # q /\ At(h, q).kind # "dir" => At(h, r) = None
<1> PICK t : t = [x \in Path |-> At(h, x)]
  OBVIOUS
<1>1. \A x \in Path : t[x] = At(h, x)
  OBVIOUS
<1>2. Top \in Path /\ \A x \in Path : x \in Below(Top)
  BY PathAssumption, PrefixFacts DEF Below, Top
<1>3. ASSUME NEW x \in Path, x # Top PROVE t[x] = Under(t[Front(x)], x)
  <2>1. Front(x) \in Path
    BY <1>3, FrontOfPath
  <2>2. At(h, x) = Under(At(h, Front(x)), x)
    BY <1>3, AtSolves
  <2>3. QED
    BY <2>1, <2>2
<1>4. TreeOf(t, Top, h)
  BY <1>1, <1>2, <1>3, AtSolves DEF TreeOf, Below
<1>5. ASSUME NEW x \in Path, t[x] = None, NEW y \in Below(x) PROVE t[y] = None
  BY <1>2, <1>4, <1>5, NothingFrom
<1>6. r \in Path
  BY DEF Below
<1>7. At(h, q) = None => At(h, r) = None
  BY <1>1, <1>5, <1>6
<1>8. ASSUME r # q, At(h, q).kind # "dir" PROVE At(h, r) = None
  <2>1. PICK c \in Children(q) : r \in Below(c)
    BY <1>8, ChildAbove
  <2>2. c \in Path /\ c # Top /\ Front(c) = q
    BY ChildOfPath
  <2>3. t[c] = None
    BY <1>1, <1>3, <1>8, <2>2 DEF Under, Lists
  <2>4. QED
    BY <1>1, <1>5, <1>6, <2>1, <2>2, <2>3
<1>9. QED
  BY <1>7, <1>8

\* What has been checked out is what the snapshot h says, and nothing else is
\* there.
CheckedOut(fs, h, s) ==
    \A q \in Path : fs[q] = IF Pending(s, q) THEN None ELSE FileOf(At(h, q))

\* The umask leaves all permissions.
NothingMasked == \A m \in Mode : Masked[m] = m

\* From fs to gs, the file of g is made at p, and nothing else.
Made(fs, gs, p, g) == \A q \in Path : gs[q] = IF q = p THEN FileOf(g) ELSE fs[q]

\* From the calls t to the calls u, a directory is entered with the entries left.
Entered(t, u, left) ==
    /\ Len(u) = Len(t) + 1 /\ u # <<>> /\ u[Len(t) + 1].left = left
    /\ \A i \in 1..Len(t) : u[i] = t[i]

\* The work of Checkout on one entry does nothing but to make it: where it goes
\* nothing is, and the directory above is there.
LEMMA EntryMade ==
    ASSUME NothingMasked, ArchivePath = None, FileTree(files), Held(command),
           NEW p \in Path, NEW h, NEW s, NEW t, NEW g, CheckoutEntryOf(h, s, t, p, g),
           CheckedOut(files, h, s),
           CheckoutDirectoryEntryOf(h, t, p, g) \/ CheckoutFileOf(h, t, p, g)
    PROVE  At(h, p) = g /\ Made(files, files', p, g)
<1>1. /\ command = Checkout(h, s) /\ CheckoutCalls(s, h) /\ EntryOf(s, p)
      /\ g = IF s = <<>> THEN h ELSE Under(s[Len(s)].snapshot, p)
  BY DEF CheckoutEntryOf
<1>2. ~Unmakeable(p)
  BY DEF CheckoutDirectoryEntryOf, CheckoutFileOf
<1>3. Stacked(s)
  BY <1>1 DEF CheckoutCalls
<1>4. s # <<>> => /\ p # Top /\ s[Len(s)].path = Front(p) /\ Len(s) \in 1..Len(s)
                  /\ Front(p) \in Path
                  /\ s[Len(s)].snapshot = At(h, Front(p))
                  /\ At(h, Front(p)) # None /\ FileOf(At(h, Front(p))) # None
  <2> SUFFICES ASSUME s # <<>>
               PROVE  /\ p # Top /\ s[Len(s)].path = Front(p) /\ Len(s) \in 1..Len(s)
                      /\ Front(p) \in Path
                      /\ s[Len(s)].snapshot = At(h, Front(p))
                      /\ At(h, Front(p)) # None /\ FileOf(At(h, Front(p))) # None
    OBVIOUS
  <2>1. p # Top /\ Len(p) = Len(s) /\ s[Len(p)].path = Front(p)
    BY <1>1, <1>3, EntryDepth
  <2>2. Len(s) \in 1..Len(s) /\ Front(p) \in Path
    BY <1>3, <2>1, StackLength, FrontOfPath
  <2>3. s[Len(s)].snapshot = At(h, s[Len(s)].path)
    BY <1>1, <2>2, FramesAt
  <2>4. Whole(s[Len(s)].snapshot)
    BY <1>1, <2>2, HeldOf
  <2>5. s[Len(s)].snapshot # None /\ FileOf(s[Len(s)].snapshot) # None
    BY <2>4, WholeIs, FileOfIs
  <2>6. QED
    BY <2>1, <2>2, <2>3, <2>5
<1>5. At(h, p) = g
  <2>1. CASE s = <<>>
    <3>1. p = Top
      BY <1>1, <2>1 DEF EntryOf
    <3>2. QED
      BY <1>1, <2>1, <3>1, AtSolves
  <2>2. CASE s # <<>>
    <3>1. At(h, p) = Under(At(h, Front(p)), p)
      BY <1>4, <2>2, AtSolves
    <3>2. g = Under(At(h, Front(p)), p)
      BY <1>1, <1>4, <2>2
    <3>3. QED
      BY <3>1, <3>2
  <2>3. QED
    BY <2>1, <2>2
<1>6. \A q \in Below(p) : q \in Path /\ files[q] = None
  <2>1. \A q \in Below(p) : q \in Path
    BY DEF Below
  <2>2. \A q \in Below(p) : Pending(s, q)
    BY <1>1, <2>1, TakenLeft
  <2>3. QED
    BY <2>1, <2>2 DEF CheckedOut
<1>7. ASSUME NEW q \in Above(p), q # p PROVE files[q] # None
  <2>1. q \in Path /\ IsPrefix(q, p)
    BY DEF Above
  <2>2. s # <<>>
    <3>1. ASSUME p = Top PROVE FALSE
      <4>1. Len(q) <= Len(p) /\ Len(p) = 0 /\ Len(q) \in Nat
        BY <2>1, <3>1, PrefixFacts, PathIsSeq
      <4>2. QED
        BY <1>7, <2>1, <3>1, <4>1, PathIsSeq
    <3>2. QED
      BY <1>1, <3>1 DEF EntryOf
  <2>3. files[Front(p)] # None
    <3>1. ~Pending(s, Front(p))
      BY <1>3, <1>4, <2>2, DirectoryDone
    <3>2. files[Front(p)] = FileOf(At(h, Front(p)))
      BY <1>4, <2>2, <3>1 DEF CheckedOut
    <3>3. QED
      BY <1>4, <2>2, <3>2
  <2>4. IsPrefix(q, Front(p))
    BY <1>4, <1>7, <2>1, <2>2, PrefixOfFront
  <2>5. CASE q = Front(p)
    BY <2>3, <2>5
  <2>6. CASE q # Front(p)
    <3>1. q \in Above(Front(p))
      BY <2>1, <2>4 DEF Above
    <3>2. DirectoryAt(files, q)
      BY <1>4, <2>2, <2>3, <2>6, <3>1, DirectoriesAbove
    <3>3. QED
      BY <3>2 DEF DirectoryAt
  <2>7. QED
    BY <2>5, <2>6
<1> PICK ws : ws = WithDirectories(p)
  OBVIOUS
<1>8. \A q \in Path : ws[q] = files[q]
  <2>1. \A q \in Path : ws[q] = IF q \in Above(p) \ {p} /\ files[q] = None
                                THEN MadeOnTheWay ELSE files[q]
    BY <1>2, WithDirectoriesIs
  <2>2. QED
    BY <1>7, <2>1
<1>9. p \in Below(p) /\ ws[p] = None
  BY <1>6, <1>8, BelowItself
<1> PICK f : f = FileOf(g)
  OBVIOUS
<1>10. f \in File /\ f = [kind |-> g.kind, mode |-> g.mode,
                          data |-> IF g.kind = "dir" THEN None ELSE g.contents]
       /\ g.mode \in Mode
  BY CheckoutAtWhole, WholeIs, FileOfIs
<1>11. \A q \in Path : Put(ws, p, f)[q] = IF q = p THEN f ELSE files[q]
  <2>1. /\ Put(ws, p, f)[p] = f
        /\ \A q \in Path : q # p => Put(ws, p, f)[q] = IF q \in Below(p) THEN None ELSE ws[q]
    BY PutIs
  <2>2. QED
    BY <1>6, <1>8, <2>1
<1>12. CASE CheckoutDirectoryEntryOf(h, t, p, g)
  <2>1. files' = RecreateDir(ws, p, g)
    BY <1>12 DEF CheckoutDirectoryEntryOf
  <2>2. files' = Without(MadeDir(ws, p, g), ExtraOf(p, g))
    BY <2>1, RecreateDirIs
  <2>3. MadeDir(ws, p, g) = Put(ws, p, f)
    <3>1. Masked[g.mode] = g.mode
      BY <1>10 DEF NothingMasked
    <3>2. [f EXCEPT !.mode = g.mode] = f
      BY <1>10
    <3>3. ~DirectoryAt(ws, p)
      BY <1>9 DEF DirectoryAt
    <3>4. QED
      BY <3>1, <3>2, <3>3 DEF MadeDir
  <2>4. ASSUME NEW q \in ExtraOf(p, g) PROVE q # p /\ files[q] = None
    <3>1. PICK c \in Children(p) : c \in Above(q)
      BY DEF ExtraOf
    <3>2. q \in Below(c)
      BY <3>1 DEF ExtraOf, Above, Below
    <3>3. QED
      BY <1>6, <3>2, BelowChild
  <2>5. \A q \in Path : files'[q] = IF q \in ExtraOf(p, g) THEN None ELSE Put(ws, p, f)[q]
    BY <2>2, <2>3 DEF Without
  <2>6. QED
    BY <1>5, <1>11, <2>4, <2>5 DEF Made
<1>13. CASE CheckoutFileOf(h, t, p, g)
  <2>1. files' \in Recreations(ws, p, g)
    BY <1>13 DEF CheckoutFileOf
  <2>2. files' = Put(ws, p, f)
    BY <1>9, <2>1 DEF Recreations
  <2>3. QED
    BY <1>5, <1>11, <2>2 DEF Made
<1>14. QED
  BY <1>12, <1>13

\* When all has been done for an entry, it is checked out with all below it.
LEMMA FileCheckedOut ==
    ASSUME NEW fs, NEW gs, NEW h, NEW s, NEW t, NEW p \in Path, NEW g,
           CheckoutCalls(s, h), EntryOf(s, p), t = CheckoutTaken(s, p),
           CheckedOut(fs, h, s), At(h, p) = g, g.kind # "dir",
           Made(fs, gs, p, g), NEW q \in Path
    PROVE  gs[q] = IF LeftIn(t, q) THEN None ELSE FileOf(At(h, q))
<1>1. /\ q \in Below(p) => Pending(s, q)
      /\ LeftIn(t, q) <=> Pending(s, q) /\ q \notin Below(p)
  BY TakenLeft
<1>2. p \in Below(p)
  BY BelowItself
<1>3. fs[q] = IF Pending(s, q) THEN None ELSE FileOf(At(h, q))
  BY DEF CheckedOut
<1>0. gs[q] = IF q = p THEN FileOf(g) ELSE fs[q]
  BY DEF Made
<1>4. CASE q = p
  BY <1>0, <1>1, <1>2, <1>4
<1>5. CASE q # p /\ q \in Below(p)
  <2>1. At(h, q) = None
    BY <1>5, NothingAt
  <2>2. QED
    BY <1>0, <1>1, <1>3, <1>5, <2>1 DEF FileOf
<1>6. CASE q \notin Below(p)
  BY <1>0, <1>1, <1>2, <1>3, <1>6
<1>7. QED
  BY <1>4, <1>5, <1>6

\* A directory is entered with what it lists left to do.
LEMMA DirectoryCheckedOut ==
    ASSUME NEW fs, NEW gs, NEW h, NEW s, NEW t, NEW p \in Path, NEW g,
           CheckoutCalls(s, h), CheckoutCalls(t, h), EntryOf(s, p), t = CheckoutTaken(s, p),
           CheckedOut(fs, h, s), At(h, p) = g,
           Made(fs, gs, p, g),
           NEW left, \A c : c \in left <=> c \in Children(p) /\ Lists(g, c),
           NEW u, Entered(t, u, left)
    PROVE  CheckedOut(gs, h, u)
<1>1. Len(t) \in Nat
  BY StackLength DEF CheckoutCalls
<1>2. ASSUME NEW q \in Path
      PROVE  Pending(u, q) <=> LeftIn(t, q) \/ \E c \in left : q \in Below(c)
  <2>1. \A i : i \in 1..Len(u) <=> i \in 1..Len(t) \/ i = Len(t) + 1
    BY <1>1 DEF Entered
  <2>2. QED
    BY <2>1 DEF Pending, LeftIn, Entered
<1>3. ASSUME NEW q \in Path
      PROVE  gs[q] = IF Pending(u, q) THEN None ELSE FileOf(At(h, q))
  <2>1. /\ q \in Below(p) => Pending(s, q)
        /\ LeftIn(t, q) <=> Pending(s, q) /\ q \notin Below(p)
    BY TakenLeft
  <2>2. p \in Below(p)
    BY BelowItself
  <2>3. /\ fs[q] = IF Pending(s, q) THEN None ELSE FileOf(At(h, q))
        /\ gs[q] = IF q = p THEN FileOf(g) ELSE fs[q]
    BY DEF CheckedOut, Made
  <2>4. \A c \in left : q \in Below(c) => q \in Below(p) /\ q # p
    BY BelowChild
  <2>5. CASE q = p
    <3>1. ~Pending(u, q)
      BY <1>2, <2>1, <2>2, <2>4, <2>5
    <3>2. QED
      BY <2>3, <2>5, <3>1
  <2>6. CASE q # p /\ q \in Below(p)
    <3>1. gs[q] = None
      BY <2>1, <2>3, <2>6
    <3>2. PICK c \in Children(p) : q \in Below(c)
      BY <2>6, ChildAbove
    <3>3. CASE Lists(g, c)
      BY <1>2, <3>1, <3>2, <3>3
    <3>4. CASE ~Lists(g, c)
      <4>1. c \in Path /\ c # Top /\ Front(c) = p
        BY ChildOfPath
      <4>2. At(h, c) = None
        BY <3>4, <4>1, AtSolves DEF Under
      <4>3. At(h, q) = None
        BY <3>2, <4>1, <4>2, NothingAt
      <4>4. QED
        BY <3>1, <4>3 DEF FileOf
    <3>5. QED
      BY <3>3, <3>4
  <2>7. CASE q \notin Below(p)
    <3>1. Pending(u, q) <=> Pending(s, q)
      BY <1>2, <2>1, <2>4, <2>7
    <3>2. QED
      BY <2>2, <2>3, <2>7, <3>1
  <2>8. QED
    BY <2>5, <2>6, <2>7
<1>4. QED
  BY <1>3 DEF CheckedOut

-----------------------------------------------------------------------------
\* The files fs are those of the latest snapshot of the path map m.
Recorded(fs, m) ==
    fs[Top] # None =>
        \A p \in Path : ~Excluded(p) => fs[p] = FileOf(At(m.latest[Top], p))

\* What is known of the files in each phase of a command during which nobody
\* has touched them.
TreeHolds(c, fs, m, o) ==
    /\ c.pc = "idle" /\ o \in {"ok", "refused"} => Recorded(fs, m)
    /\ c.pc = "current" => CurrentTree(Seen(fs), c.stack)
    /\ c.pc = "merge" => Recorded(fs, m)
    /\ c.pc = "checkout" /\ ArchivePath = None => CheckedOut(fs, c.snapshot, c.stack)

\* Where the archive is in the tree, nothing is checked out before it is lost,
\* and then every command fails.
ArchiveInv ==
    /\ ArchivePath # None /\ ~lost => files[Top] # None /\ command.pc # "checkout"
    /\ lost => \/ command.pc = "checkout" /\ command.stack = <<>>
               \/ command.pc = "idle" /\ outcome = "failed"

TreeInv == ArchiveInv /\ (~edited => TreeHolds(command, files, paths, outcome))

LEMMA TreeHoldsOf ==
    ASSUME NEW fs, NEW m, NEW o
    PROVE  /\ TreeHolds(Idle, fs, m, o) <=> (o \in {"ok", "refused"} => Recorded(fs, m))
           /\ \A src, s : TreeHolds(Current(src, s), fs, m, o) <=> CurrentTree(Seen(fs), s)
           /\ \A src, prev : TreeHolds(Merging(src, prev), fs, m, o) <=> Recorded(fs, m)
           /\ \A src, prev, base, g, helper :
                  TreeHolds(Removing(src, prev, base, g, helper), fs, m, o)
           /\ \A h, s : TreeHolds(Checkout(h, s), fs, m, o)
                            <=> (ArchivePath = None => CheckedOut(fs, h, s))
BY DEF TreeHolds, Idle, Current, Merging, Removing, Checkout

\* The phases of a command.
LEMMA Phases ==
    /\ Idle.pc = "idle"
    /\ \A src, s : Current(src, s).pc = "current" /\ Current(src, s).stack = s
    /\ \A src, prev : Merging(src, prev).pc = "merge"
    /\ \A src, prev, base, g, helper : Removing(src, prev, base, g, helper).pc = "remove"
    /\ \A h, s : Checkout(h, s).pc = "checkout" /\ Checkout(h, s).stack = s
BY DEF Idle, Current, Merging, Removing, Checkout

\* No edit removes the directory that holds the archive.
LEMMA UserKeepsTop ==
    ASSUME ArchivePath # None, FileTree(files), files[Top] # None, User
    PROVE  files'[Top] # None
<1>1. Top \in Path
  BY PathAssumption DEF Top
<1>2. ASSUME NEW p \in Path, p # Top PROVE Top \notin Below(p)
  <2>1. Len(Top) = 0 /\ Len(p) \in Nat /\ Len(p) # 0
    BY <1>1, <1>2, PathIsSeq
  <2>2. Top \in Below(p) => Len(p) <= Len(Top)
    BY <1>1, PrefixFacts DEF Below
  <2>3. QED
    BY <2>1, <2>2
<1>3. PICK p \in Path : \/ \E f \in File : Write(p, f)
                        \/ Delete(p)
                        \/ \E m \in Mode : Chmod(p, m)
  BY DEF User
<1>4. CASE \E f \in File : Write(p, f)
  <2>1. PICK f \in File : Write(p, f)
    BY <1>4
  <2>2. files' = Put(files, p, f)
    BY <2>1 DEF Write, Edit
  <2>3. files'[p] = f /\ f # None
    BY <2>2, PutIs, NoneAssumption
  <2>4. p # Top => files'[Top] = files[Top]
    BY <1>1, <1>2, <2>2, PutIs
  <2>5. QED
    BY <2>3, <2>4
<1>5. CASE Delete(p)
  <2>1. files' = RemoveAll(files, p) /\ ~HoldsArchive(p)
    BY <1>5 DEF Delete, Edit
  <2>2. HoldsArchive(Top)
    BY ArchiveAssumption, PrefixFacts DEF HoldsArchive
  <2>3. files'[Top] = files[Top]
    BY <1>1, <1>2, <2>1, <2>2 DEF RemoveAll
  <2>4. QED
    BY <2>3
<1>6. CASE \E m \in Mode : Chmod(p, m)
  <2>1. PICK m \in Mode : Chmod(p, m)
    BY <1>6
  <2>2. files' = [files EXCEPT ![p].mode = m] /\ files[p] # None /\ files[p].kind # "link"
    BY <2>1 DEF Chmod, Edit
  <2> PICK f : f = files[p]
    OBVIOUS
  <2>3. f \in File /\ f.kind # "link"
    BY <2>2 DEF FileTree
  <2>4. [f EXCEPT !.mode = m] \in File
    BY <2>3, FileWithMode
  <2>5. files'[p] = [f EXCEPT !.mode = m] /\ (p # Top => files'[Top] = files[Top])
    BY <1>1, <2>2 DEF FileTree
  <2>6. QED
    BY <2>4, <2>5, NoneAssumption
<1>7. QED
  BY <1>3, <1>4, <1>5, <1>6

\* The archive is lost for good.
LEMMA ArchiveStep ==
    ASSUME NoneIsNoSnapshot, CommandInv, FileTree(files), ArchiveInv, [Next]_vars
    PROVE  ArchiveInv'
<1>1. CASE UNCHANGED vars
  BY <1>1 DEF ArchiveInv, vars
<1>2. CASE User
  <2>1. ~lost /\ UNCHANGED <<lost, command, outcome>>
    BY <1>2 DEF User, Write, Delete, Chmod, Edit
  <2>2. ArchivePath # None => files'[Top] # None
    BY <1>2, <2>1, UserKeepsTop DEF ArchiveInv
  <2>3. QED
    BY <2>1, <2>2 DEF ArchiveInv
<1>3. ASSUME NEW src \in Sources \cup {None}, Begin(src)
      PROVE  ArchiveInv'
  <2>1. command' = Current(src, <<>>) /\ ~lost /\ UNCHANGED <<lost, files>>
    BY <1>3 DEF Begin, Current
  <2>2. command.pc = "idle"
    BY <1>3 DEF Begin, Idle
  <2>3. QED
    BY <2>1, <2>2, Phases DEF ArchiveInv
<1>4. ASSUME NEW src, NEW s, command = Current(src, s), UNCHANGED <<files, lost>>,
             ArchivePath # None => command'.pc # "checkout"
      PROVE  ArchiveInv'
  <2>1. command.pc = "current"
    BY <1>4, Phases
  <2>2. ~lost
    BY <2>1 DEF ArchiveInv
  <2>3. QED
    BY <1>4, <2>1, <2>2 DEF ArchiveInv
<1>5. ASSUME NEW p \in Path, CurrentEntry(p)
      PROVE  ArchiveInv'
  <2>1. PICK src \in Sources \cup {None} : \E s, t : CurrentEntryOf(src, s, t, p)
    BY <1>5, CurrentEntryIs
  <2>2. PICK s, t : CurrentEntryOf(src, s, t, p)
    BY <2>1
  <2>3. /\ command = Current(src, s) /\ CurrentCalls(s) /\ EntryOf(s, p)
        /\ t = CurrentTaken(s, p) /\ UNCHANGED <<files, lost>>
    BY <2>2 DEF CurrentEntryOf
  <2>4. /\ CurrentCalls(t) /\ Len(t) = Len(s)
        /\ t = <<>> => p = Top
    BY <2>3, CurrentTakenStack
  <2>5. command.pc = "current"
    BY <2>3, Phases
  <2>6. CASE CurrentNothingOf(src, t, p)
    <3>1. Returns(src, t, p, None) /\ (Excluded(p) \/ files[p] = None)
      BY <2>6 DEF CurrentNothingOf
    <3>2. ASSUME ArchivePath # None PROVE command'.pc # "checkout"
      <4>1. files[Top] # None
        BY <2>5, <3>2 DEF ArchiveInv
      <4>2. p # Top
        BY <3>1, <4>1, SeenIs
      <4>3. command' = Current(src, WithFound(t, p, None))
        BY <2>4, <3>1, <4>2 DEF Returns
      <4>4. QED
        BY <4>3, Phases
    <3>3. QED
      BY <1>4, <2>3, <3>2
  <2>7. CASE CurrentDirectoryEntryOf(src, t, p)
    BY <1>4, <2>3, <2>7, Phases DEF CurrentDirectoryEntryOf
  <2>8. ASSUME NEW h, CurrentFileOf(src, t, p, h)
        PROVE  ArchiveInv'
    <3>1. Returns(src, t, p, h) /\ h # None
      BY <2>8, SnapshotOfIs DEF CurrentFileOf
    <3>2. command'.pc # "checkout"
      BY <3>1, Phases DEF Returns
    <3>3. QED
      BY <1>4, <2>3, <3>2
  <2>9. QED
    BY <2>2, <2>6, <2>7, <2>8 DEF CurrentEntryOf
<1>6. CASE CurrentDirectory
  <2>1. PICK src \in Sources \cup {None} : \E p \in Path : \E s, h : CurrentDirectoryOf(src, s, p, h)
    BY <1>6, CurrentDirectoryIs
  <2>2. PICK p, s, h : CurrentDirectoryOf(src, s, p, h)
    BY <2>1
  <2>3. /\ command = Current(src, s) /\ UNCHANGED <<files, lost>>
        /\ Returns(src, Front(s), p, h) /\ h # None
    BY <2>2, SnapshotOfIs DEF CurrentDirectoryOf
  <2>4. command'.pc # "checkout"
    BY <2>3, Phases DEF Returns
  <2>5. QED
    BY <1>4, <2>3, <2>4
<1>7. CASE MergeSnapshots
  <2>1. PICK src \in Sources \ {None} : \E prev, base, helper, m : MergeOf(src, prev, base, helper, m)
    BY <1>7, MergeIs
  <2>2. PICK prev, base, helper, m : MergeOf(src, prev, base, helper, m)
    BY <2>1
  <2>3. command = Merging(src, prev) /\ UNCHANGED <<files, lost>>
        /\ (command' = Idle \/ command' = Removing(src, prev, base, m[Top], helper))
    BY <2>2 DEF MergeOf
  <2>4. command.pc = "merge" /\ command'.pc # "checkout"
    BY <2>3, Phases
  <2>5. QED
    BY <2>3, <2>4 DEF ArchiveInv
<1>8. CASE RemoveTree
  <2>1. \E h : command' = Checkout(h, <<>>)
    BY <1>8 DEF RemoveTree, Checkout
  <2>2. lost' = (ArchivePath # None)
    BY <1>8 DEF RemoveTree
  <2>3. lost' <=> ArchivePath # None
    BY <2>2, Zenon
  <2>4. command'.pc = "checkout" /\ command'.stack = <<>>
    BY <2>1, Phases
  <2>5. QED
    BY <2>3, <2>4 DEF ArchiveInv
<1>9. ASSUME NEW p \in Path, CheckoutEntry(p)
      PROVE  ArchiveInv'
  <2>1. command.pc = "checkout" /\ lost' = lost
    BY <1>9 DEF CheckoutEntry
  <2>2. CASE lost
    <3>1. CheckoutFails
      BY <1>9, <2>2 DEF CheckoutEntry
    <3>2. command' = Idle /\ outcome' = "failed"
      BY <3>1 DEF CheckoutFails, Finish
    <3>3. QED
      BY <2>1, <2>2, <3>2, Phases DEF ArchiveInv
  <2>3. CASE ~lost
    BY <2>1, <2>3 DEF ArchiveInv
  <2>4. QED
    BY <2>2, <2>3
<1>10. CASE CheckoutDirectory
  <2>1. command.pc = "checkout" /\ lost' = lost /\ command.stack # <<>>
    BY <1>10 DEF CheckoutDirectory, Calls
  <2>2. QED
    BY <2>1 DEF ArchiveInv
<1>11. CASE Die \/ \E p \in Path : CurrentFails(p)
  <2>1. command' = Idle /\ outcome' = "failed" /\ UNCHANGED <<files, lost>>
    BY <1>11, CurrentFailsIs DEF Die, Finish, FailsOf
  <2>2. QED
    BY <2>1, Phases DEF ArchiveInv
<1>12. ASSUME NEW p \in Path, DieAt(p)
       PROVE  ArchiveInv'
  <2>1. command' = Idle /\ outcome' = "failed" /\ lost' = lost
    BY <1>12, DieAtIs DEF FailsOf
  <2>2. UNCHANGED files \/ (command.pc = "checkout" /\ ~lost)
    BY <1>12, DieAtIs DEF DiesTaking, DiesCheckingOut
  <2>3. QED
    BY <2>1, <2>2, Phases DEF ArchiveInv
<1>13. QED
  BY <1>1, <1>2, <1>3, <1>5, <1>6, <1>7, <1>8, <1>9, <1>10, <1>11, <1>12
     DEF Next, Command, DieAt

\* A snapshot is returned: what has been looked at so far is as it says.
LEMMA ReturnsTree ==
    ASSUME FileTree(files), files' = files, NEW v, v = Seen(files),
           NEW src, NEW t, CurrentCalls(t), NEW p \in Path, NEW h, Returns(src, t, p, h),
           t = <<>> => p = Top,
           t # <<>> => /\ p # Top /\ Len(p) = Len(t) /\ t[Len(t)].path = Front(p)
                       /\ p \notin t[Len(t)].left,
           TreeBut(v, t, p),
           IF h = None THEN v[p] = None ELSE v[p] # None /\ Agrees(v, p, h),
           h # None /\ p = Top => paths'.latest[Top] = h
    PROVE  TreeHolds(command', files', paths', outcome')
<1>1. FileTree(v) /\ v[Top] = files[Top] /\ \A q \in Path : ~Excluded(q) => v[q] = files[q]
  BY SeenIs
<1>2. CASE t # <<>>
  <2>1. CurrentTree(v, WithFound(t, p, h))
    BY <1>2, ReturnedTree
  <2>2. command' = Current(src, WithFound(t, p, h))
    BY <1>2 DEF Returns
  <2>3. QED
    BY <2>1, <2>2, TreeHoldsOf
<1>3. CASE t = <<>> /\ h = None
  <2>1. p = Top /\ files[Top] = None
    BY <1>1, <1>3
  <2>2. Recorded(files', paths')
    BY <2>1 DEF Recorded
  <2>3. ASSUME NEW q \in Path PROVE files[q] = None
    <3>1. Top \in Path /\ q \in Below(Top)
      BY PathAssumption, PrefixFacts DEF Below, Top
    <3>2. QED
      BY <2>1, <3>1, NoFileFrom
  <2>4. CheckedOut(files', src, <<>>)
    BY <2>3 DEF CheckedOut, Pending
  <2>5. command' = Idle \/ command' = Checkout(src, <<>>)
    BY <1>3 DEF Returns
  <2>6. QED
    BY <2>2, <2>4, <2>5, TreeHoldsOf
<1>4. CASE t = <<>> /\ h # None
  <2>1. paths'.latest[Top] = h /\ Agrees(v, Top, h)
    BY <1>4
  <2>2. \A q \in Path : v[q] = FileOf(At(h, q))
    BY <2>1, AgreesAtTop
  <2>3. Recorded(files', paths')
    BY <1>1, <2>1, <2>2 DEF Recorded
  <2>4. command' = Idle \/ command' = Merging(src, h)
    BY <1>4 DEF Returns
  <2>5. QED
    BY <2>3, <2>4, TreeHoldsOf
<1>5. QED
  BY <1>2, <1>3, <1>4

\* snapshot.Current looks at one entry after the other,
LEMMA CurrentEntryTree ==
    ASSUME NoneIsNoSnapshot, CommandInv, IsMap(paths), FileTree(files),
           TreeHolds(command, files, paths, outcome), NEW p \in Path, CurrentEntry(p)
    PROVE  TreeHolds(command', files', paths', outcome')
<1>1. PICK src \in Sources \cup {None} : \E s, t : CurrentEntryOf(src, s, t, p)
  BY CurrentEntryIs
<1>2. PICK s, t : CurrentEntryOf(src, s, t, p)
  BY <1>1
<1>3. /\ command = Current(src, s) /\ CurrentCalls(s) /\ EntryOf(s, p)
      /\ t = CurrentTaken(s, p) /\ files' = files
  BY <1>2 DEF CurrentEntryOf
<1>4. /\ CurrentCalls(t) /\ Len(t) = Len(s) /\ (t = <<>> <=> s = <<>>)
      /\ t = <<>> => p = Top
      /\ t # <<>> => p \in Children(t[Len(t)].path) /\ p \notin t[Len(t)].left
      /\ \A i \in 1..Len(s) : t[i].path = s[i].path
  BY <1>3, CurrentTakenStack
<1>5. /\ Len(p) = Len(t) /\ Len(p) \in Nat
      /\ t # <<>> => p # Top /\ t[Len(t)].path = Front(p)
  <2>1. /\ Len(p) = Len(s) /\ Len(p) \in Nat
        /\ s # <<>> => p # Top /\ Len(p) \in 1..Len(s) /\ s[Len(p)].path = Front(p)
    BY <1>3, EntryDepth DEF CurrentCalls
  <2>2. QED
    BY <1>4, <2>1
<1> PICK v : v = Seen(files)
  OBVIOUS
<1>6. CurrentTree(v, s)
  BY <1>3, TreeHoldsOf
<1>7. TreeBut(v, t, p)
  BY <1>3, <1>6, TakenTree
<1>8. FileTree(v) /\ \A q \in Path : v[q] = IF Excluded(q) THEN None ELSE files[q]
  BY SeenIs
<1>9. CASE CurrentNothingOf(src, t, p)
  <2>1. Returns(src, t, p, None) /\ v[p] = None
    BY <1>8, <1>9 DEF CurrentNothingOf
  <2>2. QED
    BY <1>3, <1>4, <1>5, <1>7, <2>1, ReturnsTree
<1>10. CASE CurrentDirectoryEntryOf(src, t, p)
  <2> PICK u : u = Append(t, [path |-> p, mode |-> files[p].mode, found |-> <<>>,
                              left |-> {c \in Children(p) : files[c] # None}])
    OBVIOUS
  <2>1. command' = Current(src, u)
        /\ ~Excluded(p) /\ files[p] # None /\ files[p].kind = "dir"
    BY <1>10 DEF CurrentDirectoryEntryOf
  <2>2. CurrentTree(v, u)
    BY <1>4, <1>5, <1>7, <2>1, PushTree
  <2>3. QED
    BY <1>3, <2>1, <2>2, TreeHoldsOf
<1>11. ASSUME NEW h, CurrentFileOf(src, t, p, h)
       PROVE  TreeHolds(command', files', paths', outcome')
  <2> PICK f : f = files[p]
    OBVIOUS
  <2>1. /\ ~Excluded(p) /\ f # None /\ f.kind # "dir" /\ Record(p, h) /\ Returns(src, t, p, h)
        /\ h = SnapshotOf(p, f.kind, f.mode, f.data)
    BY <1>11 DEF CurrentFileOf
  <2>2. h # None /\ h.kind = f.kind /\ h.mode = f.mode /\ h.contents = f.data
    BY <2>1, SnapshotOfIs
  <2>3. f \in File /\ v[p] = f
    BY <1>8, <2>1 DEF FileTree
  <2>4. v[p] = FileOf(h)
    <3>1. f = [kind |-> f.kind, mode |-> f.mode, data |-> f.data]
      BY <2>3 DEF File
    <3>2. QED
      BY <2>1, <2>2, <2>3, <3>1 DEF FileOf
  <2>5. ASSUME NEW c \in Children(p) PROVE v[c] = None /\ ~Lists(h, c)
    <3>1. c \in Below(p) /\ c # p
      BY BelowItself
    <3>2. ~DirectoryAt(v, p)
      BY <2>1, <2>3 DEF DirectoryAt
    <3>3. v[c] = None
      BY <1>8, <3>1, <3>2, NothingBelow
    <3>4. QED
      BY <2>1, <2>2, <3>3 DEF Lists
  <2>6. Agrees(v, p, h)
    BY <1>8, <2>4, <2>5, AgreesFrom
  <2>7. h # None /\ p = Top => paths'.latest[Top] = h
    BY <2>1, RecordAtTop
  <2>8. IF h = None THEN v[p] = None ELSE v[p] # None /\ Agrees(v, p, h)
    BY <2>1, <2>2, <2>3, <2>6
  <2>9. QED
    BY <1>3, <1>4, <1>5, <1>7, <2>1, <2>7, <2>8, ReturnsTree
<1>12. QED
  BY <1>2, <1>9, <1>10, <1>11 DEF CurrentEntryOf

\* and at a directory after all of them.
LEMMA CurrentDirectoryTree ==
    ASSUME NoneIsNoSnapshot, CommandInv, IsMap(paths), FileTree(files),
           TreeHolds(command, files, paths, outcome), CurrentDirectory
    PROVE  TreeHolds(command', files', paths', outcome')
<1>0. PICK src \in Sources \cup {None} : \E p \in Path : \E s, h : CurrentDirectoryOf(src, s, p, h)
  BY CurrentDirectoryIs
<1>1. PICK p \in Path : \E s, h : CurrentDirectoryOf(src, s, p, h)
  BY <1>0
<1>2. PICK s, h : CurrentDirectoryOf(src, s, p, h)
  BY <1>1
<1> PICK t : t = Front(s)
  OBVIOUS
<1>3. /\ command = Current(src, s) /\ CurrentCalls(s) /\ s # <<>> /\ p = s[Len(s)].path
      /\ s[Len(s)].left = {}
      /\ h = SnapshotOf(p, "dir", s[Len(s)].mode, s[Len(s)].found)
      /\ files' = files /\ Record(p, h) /\ Returns(src, t, p, h)
  BY <1>2 DEF CurrentDirectoryOf
<1>4. /\ CurrentCalls(t) /\ Len(t) = Len(s) - 1
      /\ \A i \in 1..Len(t) : i \in 1..Len(s) /\ t[i] = s[i]
      /\ t = <<>> => p = Top
      /\ t # <<>> => p \notin t[Len(t)].left
  BY <1>3, CurrentPopStack
<1>5. /\ Len(p) = Len(t) /\ Len(p) \in Nat
      /\ t # <<>> => p # Top /\ t[Len(t)].path = Front(p)
  <2>1. /\ Len(p) = Len(s) - 1 /\ Len(p) \in Nat /\ Len(s) \in 1..Len(s)
        /\ t # <<>> => Len(p) \in 1..Len(t) /\ p # Top /\ s[Len(p)].path = Front(p)
    BY <1>3, FrameDepth DEF CurrentCalls
  <2>2. QED
    BY <1>4, <2>1
<1> PICK v : v = Seen(files)
  OBVIOUS
<1>6. CurrentTree(v, s) /\ FileTree(v)
  BY <1>3, TreeHoldsOf, SeenIs
<1>7. v[p] # None /\ Agrees(v, p, h) /\ TreeBut(v, t, p)
  BY <1>3, <1>6, PopTree
<1>8. h # None /\ (p = Top => paths'.latest[Top] = h)
  BY <1>3, SnapshotOfIs, RecordAtTop
<1>9. QED
  BY <1>3, <1>4, <1>5, <1>7, <1>8, ReturnsTree

\* Checkout makes one entry after the other,
LEMMA CheckoutEntryTree ==
    ASSUME NothingMasked, ArchivePath = None, CommandInv, IsMap(paths), FileTree(files),
           Held(command), TreeHolds(command, files, paths, outcome),
           NEW p \in Path, CheckoutEntry(p)
    PROVE  TreeHolds(command', files', paths', outcome')
<1>1. PICK h, s, t, g : CheckoutEntryOf(h, s, t, p, g)
  BY CheckoutEntryIs
<1>2. /\ command = Checkout(h, s) /\ CheckoutCalls(s, h) /\ EntryOf(s, p)
      /\ t = CheckoutTaken(s, p)
  BY <1>1 DEF CheckoutEntryOf
<1>3. /\ CheckoutCalls(t, h) /\ Len(t) = Len(s) /\ (t = <<>> <=> s = <<>>)
      /\ t = <<>> => p = Top
  BY <1>2, CheckoutTakenStack
<1>4. CheckedOut(files, h, s)
  BY <1>2, TreeHoldsOf
<1>5. CASE CheckoutFailsOf
  BY <1>5, TreeHoldsOf DEF CheckoutFailsOf
<1>6. CASE CheckoutDirectoryEntryOf(h, t, p, g)
  <2>1. At(h, p) = g /\ Made(files, files', p, g)
    BY <1>1, <1>4, <1>6, EntryMade
  <2> PICK left : left = {c \in Children(p) : Lists(g, c)}
    OBVIOUS
  <2> PICK f : f = [path |-> p, snapshot |-> g, left |-> left]
    OBVIOUS
  <2> PICK u : u = Append(t, f)
    OBVIOUS
  <2>2. left = {c \in Children(p) : Lists(g, c) /\ ~Excluded(c)}
    BY DEF Excluded
  <2>3. command' = Checkout(h, u)
    BY <1>6, <2>2 DEF CheckoutDirectoryEntryOf
  <2>4. Entered(t, u, left)
    <3>1. \E F : t \in Seq(F)
      BY <1>3 DEF CheckoutCalls, Stacked
    <3>2. QED
      BY <3>1 DEF Entered
  <2>5. CheckedOut(files', h, u)
    <3>1. /\ CheckoutCalls(s, h) /\ CheckoutCalls(t, h) /\ EntryOf(s, p)
          /\ t = CheckoutTaken(s, p)
      BY <1>2, <1>3
    <3>2. \A c : c \in left <=> c \in Children(p) /\ Lists(g, c)
      OBVIOUS
    <3>3. QED
      BY <1>4, <2>1, <2>4, <3>1, <3>2, DirectoryCheckedOut
  <2>6. QED
    BY <2>3, <2>5, TreeHoldsOf
<1>7. CASE CheckoutFileOf(h, t, p, g)
  <2>1. At(h, p) = g /\ Made(files, files', p, g)
    BY <1>1, <1>4, <1>7, EntryMade
  <2>2. g.kind # "dir" /\ paths' = StoreSnapshot(paths, p, g)
    BY <1>7 DEF CheckoutFileOf
  <2>3. ASSUME NEW q \in Path
        PROVE  files'[q] = IF LeftIn(t, q) THEN None ELSE FileOf(At(h, q))
    BY <1>2, <1>4, <2>1, <2>2, FileCheckedOut
  <2>4. CASE t # <<>>
    <3>1. CheckedOut(files', h, t)
      BY <2>3, <2>4 DEF CheckedOut, Pending
    <3>2. command' = Checkout(h, t)
      BY <1>7, <2>4 DEF CheckoutFileOf
    <3>3. QED
      BY <3>1, <3>2, TreeHoldsOf
  <2>5. CASE t = <<>>
    <3>1. p = Top /\ g = h
      <4>1. p = Top
        BY <1>3, <2>5
      <4>2. QED
        BY <2>1, <4>1, AtSolves
    <3>2. paths'.latest[Top] = h
      BY <2>2, <3>1, StoreAtTop
    <3>3. \A q \in Path : ~LeftIn(t, q)
      BY <2>5, EmptyStack DEF LeftIn
    <3>4. Recorded(files', paths')
      BY <2>3, <3>2, <3>3 DEF Recorded
    <3>5. command' = Idle
      BY <1>7, <2>5 DEF CheckoutFileOf
    <3>6. QED
      BY <3>4, <3>5, TreeHoldsOf
  <2>6. QED
    BY <2>4, <2>5
<1>8. QED
  BY <1>1, <1>5, <1>6, <1>7 DEF CheckoutEntryOf

\* and then the mapping of the directory.
LEMMA CheckoutDirectoryTree ==
    ASSUME ArchivePath = None, CommandInv, IsMap(paths),
           TreeHolds(command, files, paths, outcome), CheckoutDirectory
    PROVE  TreeHolds(command', files', paths', outcome')
<1>1. PICK h, s : CheckoutDirectoryOf(h, s)
  BY CheckoutDirectoryIs
<1> PICK t : t = Front(s)
  OBVIOUS
<1>2. /\ command = Checkout(h, s) /\ CheckoutCalls(s, h) /\ s # <<>> /\ s[Len(s)].left = {}
      /\ paths' = StoreSnapshot(paths, s[Len(s)].path, s[Len(s)].snapshot)
      /\ IF Len(s) = 1 THEN command' = Idle ELSE command' = Checkout(h, t)
      /\ files' = files
  BY <1>1 DEF CheckoutDirectoryOf
<1>3. /\ Len(t) = Len(s) - 1 /\ (t = <<>> <=> Len(s) = 1)
      /\ \A i \in 1..Len(t) : i \in 1..Len(s) /\ i # Len(s) /\ t[i] = s[i]
      /\ t = <<>> => s[Len(s)].path = Top /\ s[Len(s)].snapshot = h
  BY <1>2, CheckoutPopStack
<1>4. CheckedOut(files, h, s) /\ Len(s) \in Nat
  BY <1>2, TreeHoldsOf, StackLength DEF CheckoutCalls
<1>5. ASSUME NEW q \in Path PROVE Pending(s, q) <=> LeftIn(t, q)
  <2>1. \A i \in 1..Len(s) : i \in 1..Len(t) \/ i = Len(s)
    BY <1>3, <1>4
  <2>2. QED
    BY <1>2, <1>3, <2>1 DEF Pending, LeftIn
<1>6. CASE t = <<>>
  <2>1. paths'.latest[Top] = h
    BY <1>2, <1>3, <1>6, StoreAtTop, PathAssumption DEF Top
  <2>2. \A q \in Path : ~Pending(s, q)
    BY <1>5, <1>6, EmptyStack DEF LeftIn
  <2>3. Recorded(files', paths')
    BY <1>2, <1>4, <2>1, <2>2 DEF CheckedOut, Recorded
  <2>4. QED
    BY <1>2, <1>3, <1>6, <2>3, TreeHoldsOf
<1>7. CASE t # <<>>
  <2>1. CheckedOut(files', h, t)
    BY <1>2, <1>4, <1>5, <1>7 DEF CheckedOut, Pending
  <2>2. QED
    BY <1>2, <1>3, <1>7, <2>1, TreeHoldsOf
<1>8. QED
  BY <1>6, <1>7

\* Every step keeps what is known of the files.
LEMMA TreeStep ==
    ASSUME NoneIsNoSnapshot, NothingMasked, CommandInv, TypeInv, TreeInv, [Next]_vars
    PROVE  TreeInv'
<1>1. FileTree(files) /\ IsMap(paths) /\ Held(command)
  BY TypeIs DEF TypeInv, PathsInv
<1>2. ArchiveInv /\ ArchiveInv'
  BY <1>1, ArchiveStep DEF TreeInv
<1>3. ASSUME NEW src \in Sources \cup {None}, Begin(src)
      PROVE  TreeHolds(command', files', paths', outcome')
  <2>1. command' = Current(src, <<>>)
    BY <1>3 DEF Begin, Current
  <2>2. CurrentTree(Seen(files'), <<>>)
    BY EmptyStack DEF CurrentTree, FramesTree, OpenEntry
  <2>3. QED
    BY <2>1, <2>2, TreeHoldsOf
<1>4. ASSUME TreeHolds(command, files, paths, outcome),
             \/ \E p \in Path : CurrentEntry(p) \/ CheckoutEntry(p)
             \/ CurrentDirectory \/ MergeSnapshots \/ RemoveTree \/ CheckoutDirectory
             \/ Die \/ (\E p \in Path : CurrentFails(p) \/ DieAt(p)) \/ UNCHANGED vars
      PROVE  TreeHolds(command', files', paths', outcome')
  <2>1. ASSUME NEW p \in Path, CurrentEntry(p)
        PROVE  TreeHolds(command', files', paths', outcome')
    BY <1>1, <1>4, <2>1, CurrentEntryTree
  <2>2. CASE CurrentDirectory
    BY <1>1, <1>4, <2>2, CurrentDirectoryTree
  <2>3. CASE MergeSnapshots
    <3>1. PICK src \in Sources \ {None} : \E prev, base, helper, m : MergeOf(src, prev, base, helper, m)
      BY <2>3, MergeIs
    <3>2. PICK prev, base, helper, m : MergeOf(src, prev, base, helper, m)
      BY <3>1
    <3>3. /\ command = Merging(src, prev) /\ UNCHANGED <<files, paths>>
          /\ (command' = Idle \/ command' = Removing(src, prev, base, m[Top], helper))
      BY <3>2 DEF MergeOf
    <3>4. Recorded(files, paths)
      BY <1>4, <3>3, TreeHoldsOf
    <3>5. QED
      BY <3>3, <3>4, TreeHoldsOf
  <2>4. CASE RemoveTree
    <3>1. PICK h : command' = Checkout(h, <<>>)
      BY <2>4 DEF RemoveTree, Checkout
    <3>2. files' = RemoveAll(files, Top)
      BY <2>4 DEF RemoveTree
    <3>3. \A q \in Path : files'[q] = None
      BY <3>2, PrefixFacts DEF RemoveAll, Below
    <3>4. CheckedOut(files', h, <<>>)
      BY <3>3 DEF CheckedOut, Pending
    <3>5. QED
      BY <3>1, <3>4, TreeHoldsOf
  <2>5. ASSUME NEW p \in Path, CheckoutEntry(p)
        PROVE  TreeHolds(command', files', paths', outcome')
    <3>1. command.pc = "checkout"
      BY <2>5 DEF CheckoutEntry
    <3>2. CASE ArchivePath = None
      BY <1>1, <1>4, <2>5, <3>2, CheckoutEntryTree
    <3>3. CASE ArchivePath # None
      <4>1. lost
        BY <1>2, <3>1, <3>3 DEF ArchiveInv
      <4>2. CheckoutFails
        BY <2>5, <4>1 DEF CheckoutEntry
      <4>3. command' = Idle /\ outcome' = "failed"
        BY <4>2 DEF CheckoutFails, Finish
      <4>4. QED
        BY <4>3, TreeHoldsOf
    <3>4. QED
      BY <3>2, <3>3
  <2>6. CASE CheckoutDirectory
    <3>1. command.pc = "checkout" /\ command.stack # <<>>
      BY <2>6 DEF CheckoutDirectory, Calls
    <3>2. ArchivePath = None
      BY <1>2, <3>1 DEF ArchiveInv
    <3>3. QED
      BY <1>1, <1>4, <2>6, <3>2, CheckoutDirectoryTree
  <2>7. CASE Die \/ \E p \in Path : CurrentFails(p) \/ DieAt(p)
    <3>1. command' = Idle /\ outcome' = "failed"
      BY <2>7, CurrentFailsIs, DieAtIs DEF Die, Finish, FailsOf
    <3>2. QED
      BY <3>1, TreeHoldsOf
  <2>8. CASE UNCHANGED vars
    BY <1>4, <2>8 DEF vars
  <2>9. QED
    BY <1>4, <2>1, <2>2, <2>3, <2>4, <2>5, <2>6, <2>7, <2>8
<1>5. User => edited' = TRUE
  BY DEF User, Write, Delete, Chmod, Edit
<1>6. ASSUME \/ \E p \in Path : CurrentEntry(p) \/ CheckoutEntry(p)
             \/ CurrentDirectory \/ MergeSnapshots \/ RemoveTree \/ CheckoutDirectory
             \/ Die \/ (\E p \in Path : CurrentFails(p) \/ DieAt(p)) \/ UNCHANGED vars
      PROVE  edited' = edited
  BY <1>6, CurrentFailsIs, DieAtIs
     DEF FailsOf, CurrentEntry, CheckoutEntry, CurrentDirectory, MergeSnapshots, RemoveTree,
              CheckoutDirectory, Die, vars
<1>7. ASSUME ~edited' PROVE TreeHolds(command', files', paths', outcome')
  <2>1. CASE \E src \in Sources \cup {None} : Begin(src)
    BY <1>3, <2>1
  <2>2. CASE \/ \E p \in Path : CurrentEntry(p) \/ CheckoutEntry(p)
             \/ CurrentDirectory \/ MergeSnapshots \/ RemoveTree \/ CheckoutDirectory
             \/ Die \/ (\E p \in Path : CurrentFails(p) \/ DieAt(p)) \/ UNCHANGED vars
    <3>1. ~edited
      BY <1>6, <1>7, <2>2
    <3>2. TreeHolds(command, files, paths, outcome)
      BY <3>1 DEF TreeInv
    <3>3. QED
      BY <1>4, <2>2, <3>2
  <2>3. QED
    BY <1>5, <1>7, <2>1, <2>2 DEF Next, Command, DieAt
<1>8. QED
  BY <1>2, <1>7 DEF TreeInv

\* In the beginning, something is where the archive is.
LEMMA InitHasTop ==
    ASSUME Init, ArchivePath # None
    PROVE  files[Top] # None
<1>1. PICK h \in Starts :
           files = [p \in Path |->
                       IF At(h, p) = None /\ HoldsArchive(p) THEN MadeOnTheWay
                       ELSE FileOf(At(h, p))]
  BY DEF Init
<1>2. Top \in Path /\ HoldsArchive(Top)
  BY PathAssumption, ArchiveAssumption, PrefixFacts DEF HoldsArchive, Top
<1>3. MadeOnTheWay # None
  BY ModesAssumption, NoneAssumption DEF MadeOnTheWay, File
<1>4. files[Top] = IF h = None THEN MadeOnTheWay ELSE FileOf(h)
  BY <1>1, <1>2, AtSolves
<1>5. h # None => FileOf(h) # None
  BY ElsewhereWhole, WholeIs, FileOfIs
<1>6. QED
  BY <1>3, <1>4, <1>5

LEMMA InitHasArchive ==
    ASSUME Init
    PROVE  ArchiveInv
<1>1. command = Idle /\ outcome = "none" /\ ~lost
  BY DEF Init
<1>2. ArchivePath # None => files[Top] # None
  BY InitHasTop
<1>3. QED
  BY <1>1, <1>2, Phases DEF ArchiveInv

\* After a snapshot or a merge amid which nobody touched the files, they are
\* those of the latest snapshot, down to their modes: snapshot.Current misses
\* nothing, and Checkout, which comes after os.RemoveAll, makes all that the
\* merge says and leaves nothing else.
THEOREM FilesAreRecorded ==
    ASSUME NoneIsNoSnapshot, NothingMasked
    PROVE  Spec => []TreeIsRecorded
<1>1. Init => TypeInv /\ TreeInv
  <2> SUFFICES ASSUME Init PROVE TypeInv /\ TreeInv
    OBVIOUS
  <2>1. TypeInv /\ ArchiveInv
    BY InitHasType, InitHasArchive
  <2>2. command = Idle /\ outcome = "none"
    BY DEF Init
  <2>3. TreeHolds(command, files, paths, outcome)
    BY <2>2, TreeHoldsOf
  <2>4. QED
    BY <2>1, <2>3 DEF TreeInv
<1>2. CommandInv /\ TypeInv /\ TreeInv /\ [Next]_vars => TypeInv' /\ TreeInv'
  BY TypeStep, TreeStep
<1>3. TreeInv => TreeIsRecorded
  <2> SUFFICES ASSUME TreeInv, command = Idle, outcome \in {"ok", "refused"}, ~edited,
                      files[Top] # None, NEW p \in Path, ~Excluded(p)
               PROVE  files[p] = FileOf(At(paths.latest[Top], p))
    BY DEF TreeIsRecorded
  <2>1. TreeHolds(command, files, paths, outcome)
    BY DEF TreeInv
  <2>2. Recorded(files, paths)
    BY <2>1, TreeHoldsOf
  <2>3. QED
    BY <2>2 DEF Recorded
<1>4. QED
  BY <1>1, <1>2, <1>3, CommandInvariance, PTL DEF Spec

-----------------------------------------------------------------------------
\* When nothing has a mapping, every mapping is what the directory above says.
LEMMA NoMappingsAreLocal == IsMap(NoMappings) /\ Known(NoMappings) /\ AllLocal(NoMappings)
<1>1. NoMappings.latest = [p \in Path |-> None]
  BY DEF NoMappings
<1>2. ASSUME NEW q \in Path, q # Top PROVE Local(NoMappings, q)
  <2>1. Front(q) \in Path
    BY <1>2, FrontOfPath
  <2>2. NoMappings.latest[q] = None /\ NoMappings.latest[Front(q)] = None
    BY <1>1, <2>1
  <2>3. QED
    BY <2>2 DEF Local, Under, Lists
<1>3. QED
  BY <1>1, <1>2 DEF IsMap, Known, AllLocal

\* Every step keeps the mappings.
LEMMA MappingsStep ==
    ASSUME NoneIsNoSnapshot, ArchiveInv, CommandInv, MappingsInv, [Next]_vars
    PROVE  MappingsInv'
<1>1. CASE UNCHANGED <<paths, command, interrupted>>
  BY <1>1 DEF MappingsInv
<1>2. ASSUME NEW src \in Sources \cup {None}, Begin(src)
      PROVE  MappingsInv'
  <2>1. command' = Current(src, <<>>) /\ command.pc = "idle" /\ paths' = paths
        /\ interrupted' = interrupted
    BY <1>2 DEF Begin, Current, Idle
  <2>2. IsMap(paths) /\ (~interrupted => Known(paths) /\ AllLocal(paths))
    BY <2>1 DEF MappingsInv
  <2>3. ~interrupted => CurrentMappings(paths, <<>>)
    BY <2>2, WithoutCalls
  <2>4. QED
    BY <2>1, <2>2, <2>3, MappingsOfCurrent
<1>3. ASSUME NEW p \in Path, CurrentEntry(p)
      PROVE  MappingsInv'
  BY <1>3, CurrentEntryMappings
<1>4. CASE CurrentDirectory
  BY <1>4, CurrentDirectoryMappings
<1>5. CASE MergeSnapshots
  <2>1. PICK src \in Sources \ {None} : \E prev, base, helper, m : MergeOf(src, prev, base, helper, m)
    BY <1>5, MergeIs
  <2>2. PICK prev, base, helper, m : MergeOf(src, prev, base, helper, m)
    BY <2>1
  <2>3. command = Merging(src, prev) /\ paths' = paths /\ interrupted' = interrupted
        /\ (command' = Idle \/ command' = Removing(src, prev, base, m[Top], helper))
    BY <2>2 DEF MergeOf
  <2>4. command.pc = "merge" /\ command'.pc \in {"idle", "remove"}
    BY <2>3 DEF Merging, Idle, Removing
  <2>5. IsMap(paths) /\ (~interrupted => Known(paths) /\ AllLocal(paths))
    BY <2>4 DEF MappingsInv
  <2>6. QED
    BY <2>3, <2>4, <2>5, MappingsOfOthers
<1>6. CASE RemoveTree
  <2>1. \E h : command' = Checkout(h, <<>>)
    BY <1>6 DEF RemoveTree, Checkout
  <2>2. PICK h : command' = Checkout(h, <<>>)
    BY <2>1
  <2>3. /\ command.pc = "remove" /\ interrupted' = interrupted
        /\ paths' = paths \/ paths' = NoMappings
    BY <1>6 DEF RemoveTree
  <2>4. IsMap(paths) /\ (~interrupted => Known(paths) /\ AllLocal(paths))
    BY <2>3 DEF MappingsInv
  <2>5. IsMap(paths') /\ (~interrupted => Known(paths') /\ AllLocal(paths'))
    BY <2>3, <2>4, NoMappingsAreLocal
  <2>6. ~interrupted => CheckoutMappings(paths', <<>>)
    BY <2>5, WithoutCalls
  <2>7. QED
    BY <2>2, <2>3, <2>5, <2>6, MappingsOfCheckout
<1>7. ASSUME NEW p \in Path, CheckoutEntry(p)
      PROVE  MappingsInv'
  <2>1. CASE ArchivePath = None
    BY <1>7, <2>1, CheckoutEntryMappings
  <2>2. CASE ArchivePath # None
    <3>1. command.pc = "checkout" /\ IsMap(paths)
      BY <1>7 DEF CheckoutEntry, MappingsInv
    <3>2. lost
      BY <2>2, <3>1 DEF ArchiveInv
    <3>3. CheckoutFails
      BY <1>7, <3>2 DEF CheckoutEntry
    <3>4. interrupted' = TRUE /\ paths' = paths
      BY <3>3 DEF CheckoutFails
    <3>5. QED
      BY <3>1, <3>4 DEF MappingsInv
  <2>3. QED
    BY <2>1, <2>2
<1>8. CASE CheckoutDirectory
  BY <1>8, CheckoutDirectoryMappings
<1>9. CASE Die \/ \E p \in Path : CurrentFails(p) \/ DieAt(p)
  <2>1. /\ interrupted' = TRUE
        /\ paths' = paths \/ \E p \in Path : \E h : paths' \in CutShort(paths, p, h)
    BY <1>9, CurrentFailsIs, DieAtIs DEF Die, FailsOf
  <2>2. IsMap(paths')
    BY <2>1, CutShortIs DEF MappingsInv
  <2>3. QED
    BY <2>1, <2>2 DEF MappingsInv
<1>10. User => UNCHANGED <<paths, command, interrupted>>
  BY DEF User, Write, Delete, Chmod, Edit
<1>11. UNCHANGED vars => UNCHANGED <<paths, command, interrupted>>
  BY DEF vars
<1>12. QED
  BY <1>1, <1>2, <1>3, <1>4, <1>5, <1>6, <1>7, <1>8, <1>9, <1>10, <1>11
     DEF Next, Command, DieAt

\* As long as no command has ended amid its writes, the path map is the tree
\* of the latest snapshot: StoreSnapshot for a directory comes after those of
\* its entries, and forgets whatever else is below it.
THEOREM MapIsTheTree ==
    ASSUME NoneIsNoSnapshot
    PROVE  Spec => []MappingsAreTheTree
<1>1. Init => MappingsInv
  <2> SUFFICES ASSUME Init PROVE MappingsInv
    OBVIOUS
  <2>1. PICK h : /\ paths = [latest |-> [p \in Path |-> At(h, p)],
                             known  |-> {p \in Path : At(h, p) # None}]
    BY DEF Init
  <2>2. /\ paths.latest = [p \in Path |-> At(h, p)]
        /\ paths.known = {p \in Path : At(h, p) # None}
    BY <2>1
  <2>3. IsMap(paths) /\ Known(paths)
    BY <2>2 DEF IsMap, Known
  <2>4. ASSUME NEW q \in Path, q # Top PROVE Local(paths, q)
    <3>1. Front(q) \in Path
      BY <2>4, FrontOfPath
    <3>2. At(h, q) = Under(At(h, Front(q)), q)
      BY <2>4, AtSolves
    <3>3. QED
      BY <2>2, <3>1, <3>2 DEF Local
  <2>5. AllLocal(paths)
    BY <2>4 DEF AllLocal
  <2>6. command = Idle
    BY DEF Init
  <2>7. \A x, y : command # Current(x, y) /\ command # Checkout(x, y)
    <3>1. /\ command.pc = "idle"
          /\ \A x, y : Current(x, y).pc = "current" /\ Checkout(x, y).pc = "checkout"
      BY <2>6 DEF Idle, Current, Checkout
    <3>2. QED
      BY <3>1
  <2>8. QED
    BY <2>3, <2>5, <2>7 DEF MappingsInv
<1>2. Init => TypeInv /\ ArchiveInv
  BY InitHasType, InitHasArchive
<1>3. MappingsInv => MappingsAreTheTree
  <2> SUFFICES ASSUME MappingsInv, command = Idle, ~interrupted, NEW p \in Path
               PROVE  paths.latest[p] = At(paths.latest[Top], p)
    BY DEF MappingsAreTheTree
  <2>1. command.pc = "idle"
    BY DEF Idle
  <2>2. AllLocal(paths)
    BY <2>1 DEF MappingsInv
  <2>3. QED
    BY <2>2, LocalIsTree
<1>4. CommandInv /\ TypeInv /\ ArchiveInv /\ MappingsInv /\ [Next]_vars
        => TypeInv' /\ ArchiveInv' /\ MappingsInv'
  <2>1. TypeInv => FileTree(files)
    BY TypeIs DEF TypeInv
  <2>2. QED
    BY <2>1, TypeStep, ArchiveStep, MappingsStep
<1>5. QED
  BY <1>1, <1>2, <1>3, <1>4, CommandInvariance, PTL DEF Spec

-----------------------------------------------------------------------------
(***************************************************************************)
(* The answers of merge.Base.  A merge assumes of it what BaseContract     *)
(* promises, and HistoryProofs proves that MergeBase implements that       *)
(* contract.  S is any set of snapshots with all of their history, such as *)
(* the ancestors of both sides.                                            *)
(***************************************************************************)
Promise(S, src, dest) == INSTANCE BaseContract WITH
    Snapshot <- S, Histories <- [S -> Seq(S)], Archives <- SUBSET S, Nil <- None,
    parents <- [h \in S |-> h.parents], present <- S \ absent,
    lhs <- src, rhs <- dest, status <- "running", base <- None

\* A set of snapshots that has their parents too.
IsHistory(S) == \A h \in S : Range(h.parents) \subseteq S

\* The ancestors of the two modules are the same.
LEMMA PromisedAncestors ==
    ASSUME Generations = Nat, NEW S, IsHistory(S), NEW src, NEW dest, NEW h \in S
    PROVE  Promise(S, src, dest)!Ancestors([g \in S |-> g.parents], h) = Ancestors(h)
<1> DEFINE f == [g \in S |-> g.parents]
           A == Promise(S, src, dest)!Ancestors(f, h)
<1>1. \A T \in SUBSET S :
          Promise(S, src, dest)!ClosedUnderParents(f, T) <=> IsHistory(T)
  <2>1. \A g \in S : Promise(S, src, dest)!Range(f[g]) = Range(g.parents)
    BY DEF Range, Promise!Range
  <2>2. QED
    BY <2>1 DEF Promise!ClosedUnderParents, IsHistory
<1>2. \A a : a \in A <=> a \in S /\ \A T \in SUBSET S : h \in T /\ IsHistory(T) => a \in T
  BY <1>1 DEF Promise!Ancestors
<1>3. h \in Ancestors(h) /\ IsHistory(Ancestors(h))
  BY AncestorsClosed DEF IsHistory
<1>4. Ancestors(h) \subseteq S
  BY AncestorsLeast DEF IsHistory
<1>5. A \subseteq Ancestors(h)
  BY <1>2, <1>3, <1>4
<1>6. \A T \in SUBSET S : h \in T /\ IsHistory(T) => Ancestors(h) \subseteq T
  BY AncestorsLeast DEF IsHistory
<1>7. Ancestors(h) \subseteq A
  BY <1>2, <1>4, <1>6
<1>8. QED
  BY <1>5, <1>7

\* What merge.Merge may get from merge.Base, as WorkTree has it, is what
\* BaseContract promises for the history of the two sides: the answers it
\* allows when the history is there, and a failure when it is not.
THEOREM BasesArePromised ==
    ASSUME Generations = Nat, NEW S, IsHistory(S),
           NEW src \in S \ {None}, NEW dest \in S \ {None}
    PROVE  Bases(src, dest) = IF Promise(S, src, dest)!Readable
                              THEN Promise(S, src, dest)!Bases ELSE {Failed}
<1>1. /\ Promise(S, src, dest)!Ancestors([g \in S |-> g.parents], src) = Ancestors(src)
      /\ Promise(S, src, dest)!Ancestors([g \in S |-> g.parents], dest) = Ancestors(dest)
  BY PromisedAncestors
<1>2. Ancestors(src) \subseteq S /\ Ancestors(dest) \subseteq S
  BY AncestorsLeast DEF IsHistory
<1>3. Promise(S, src, dest)!Common = Ancestors(src) \cap Ancestors(dest)
  BY <1>1 DEF Promise!Common
<1>4. Promise(S, src, dest)!Readable
          <=> src = dest \/ (Ancestors(src) \cup Ancestors(dest)) \cap absent = {}
  <2>1. Promise(S, src, dest)!Readable
          <=> src = dest \/ Ancestors(src) \cup Ancestors(dest) \subseteq S \ absent
    BY <1>1 DEF Promise!Readable
  <2>2. QED
    BY <1>2, <2>1
<1>5. Promise(S, src, dest)!Bases =
          IF src = dest THEN {src}
          ELSE IF Ancestors(src) \cap Ancestors(dest) = {} THEN {None}
          ELSE IF src \in Ancestors(src) \cap Ancestors(dest) THEN {src}
          ELSE IF dest \in Ancestors(src) \cap Ancestors(dest) THEN {dest}
          ELSE Ancestors(src) \cap Ancestors(dest)
  BY <1>3 DEF Promise!Bases
<1>6. QED
  BY <1>4, <1>5 DEF Bases

=============================================================================
