-------------------------- MODULE FileMirrorProofs --------------------------
(***************************************************************************)
(* What holds of every file mirror whose bundle numbers sort as they       *)
(* count: it always leads to the whole history, wherever commands die, and *)
(* pulls that nothing disturbs get all of it, in any number of archives.   *)
(***************************************************************************)
EXTENDS FileMirror, SequenceTheorems, TLAPS

\* The numbers that are ever compared; the next one need not sort any more.
NumbersSort == \A m, n \in 0..(MaxSignatures - 2) : SortsBefore(m, n) <=> m < n

-----------------------------------------------------------------------------
(***************************************************************************)
(* The bundles that a list of numbers leads to.                            *)
(***************************************************************************)
\* What belongs to the latest of them.
Below(numbers) == IF numbers = <<>> THEN {} ELSE 1..saved[numbers[1]].signature

\* A bundle has its signature and all that belongs to it, but for what it
\* excludes.
Holds(b, exclude) ==
    /\ b \in Bundle
    /\ b.exclude = exclude
    /\ b.objects = (1..b.signature) \ exclude
    /\ b.signature \notin exclude

\* Each of them excludes what belongs to the one after it.
Ordered(numbers) ==
    \A i \in 1..Len(numbers) :
       Holds(saved[numbers[i]],
             IF i = Len(numbers) THEN {} ELSE 1..saved[numbers[i + 1]].signature)

\* Together they have all that belongs to the latest, and its number is the highest.
Leads(numbers) ==
    /\ numbers \in Seq(Number)
    /\ Ordered(numbers)
    /\ Below(numbers) \subseteq UNION {saved[n].objects : n \in Range(numbers)}
    /\ \A i \in 1..Len(numbers) : numbers[i] <= numbers[1]

\* A number is lower than the signature that was pushed after it.
Follows(signature, exclude, numbers) ==
    /\ Leads(numbers)
    /\ exclude = Below(numbers)
    /\ signature \notin exclude
    /\ \A i \in 1..Len(numbers) : numbers[i] < signature

MainInv ==
    main \in Bundle =>
        /\ Holds(main, main.exclude)
        /\ Follows(main.signature, main.exclude, main.previous)
        /\ main.signature <= pushed

PushInv ==
    /\ push # NoPush => push.signature = pushed
    /\ push.pc = "move" =>
          main # NoBundle /\ (main \in Bundle => main.signature < push.signature)
    /\ push.pc \in {"export", "write"} =>
          main \notin Bundle /\ Follows(push.signature, push.exclude, push.previous)

\* An archive has all that belongs to what it has, except for what the bundles
\* not yet imported have.
Misses(a, objects) == \A n \in held[a] : n \in objects \/ 1..n \subseteq held[a]

PullInv(a) ==
    /\ 1..output[a] \subseteq held[a]
    /\ pull[a].pc \in {"idle", "import"} => Misses(a, {})
    /\ pull[a].pc \in {"signature", "previous"} =>
          /\ main \in Bundle
          /\ main.objects \subseteq held[a]
          /\ Misses(a, main.objects)
    /\ pull[a].pc = "previous" => pull[a].signature = main.signature
    /\ pull[a].pc = "chain" =>
          LET rest == Below(pull[a].left)
              objects == (1..pull[a].signature) \ rest
          IN  /\ Ordered(pull[a].left)
              /\ rest \subseteq 1..pull[a].signature
              /\ objects \subseteq held[a]
              /\ Misses(a, objects)

Undisturbed == \A a \in Archive \ disturbed : PullInv(a)

Inv == TypeOK /\ MainInv /\ PushInv /\ Undisturbed
-----------------------------------------------------------------------------
(***************************************************************************)
(* Lists of numbers.                                                       *)
(***************************************************************************)
LEMMA ListOfNumbers ==
    ASSUME NEW P \in Seq(Number)
    PROVE  /\ Len(P) \in Nat /\ DOMAIN P = 1..Len(P)
           /\ \A i \in 1..Len(P) : P[i] \in Number /\ P[i] \in Range(P)
           /\ \A n \in Range(P) : n \in Number /\ \E i \in 1..Len(P) : n = P[i]
           /\ P = <<>> <=> Len(P) = 0
<1>1. Len(P) \in Nat /\ DOMAIN P = 1..Len(P) /\ P \in [1..Len(P) -> Number]
  BY LenProperties
<1>2. P = <<>> <=> Len(P) = 0
  BY EmptySeq
<1>3. QED
  BY <1>1, <1>2 DEF Range

LEMMA LongerList ==
    ASSUME NEW P \in Seq(Number), NEW n \in Number
    PROVE  LET Q == <<n>> \o P
           IN  /\ Q \in Seq(Number) /\ Len(Q) = Len(P) + 1 /\ Q # <<>>
               /\ Q[1] = n
               /\ \A i \in 1..Len(P) : Q[i + 1] = P[i]
               /\ \A i \in 2..Len(Q) : i - 1 \in 1..Len(P) /\ Q[i] = P[i - 1]
               /\ Range(Q) = {n} \cup Range(P)
<1> DEFINE Q == <<n>> \o P
<1>1. /\ <<n>> \in Seq(Number) /\ Len(<<n>>) = 1 /\ <<n>>[1] = n
  OBVIOUS
<1>2. /\ Q \in Seq(Number) /\ Len(Q) = Len(P) + 1
      /\ \A i \in 1..Len(Q) : Q[i] = IF i <= 1 THEN <<n>>[i] ELSE P[i - 1]
  BY <1>1, ConcatProperties
<1>3. Len(P) \in Nat
  BY ListOfNumbers
<1> HIDE DEF Q
<1>4. Q[1] = n /\ \A i \in 1..Len(P) : Q[i + 1] = P[i]
  BY <1>1, <1>2, <1>3
<1>5. \A i \in 2..Len(Q) : i - 1 \in 1..Len(P) /\ Q[i] = P[i - 1]
  BY <1>2, <1>3
<1>6. Range(Q) = {n} \cup Range(P)
  <2>1. \A x \in Range(Q) : x \in {n} \cup Range(P)
    <3> SUFFICES ASSUME NEW x \in Range(Q), x # n PROVE x \in Range(P)
      OBVIOUS
    <3>1. PICK i \in 1..Len(Q) : x = Q[i]
      BY <1>2, ListOfNumbers
    <3>2. i # 1 /\ i \in 2..Len(Q)
      BY <1>2, <1>3, <1>4, <3>1
    <3>3. QED
      BY <1>5, <3>1, <3>2, ListOfNumbers
  <2>2. n \in Range(Q)
    <3>1. 1 \in 1..Len(Q)
      BY <1>2, <1>3
    <3>2. QED
      BY <1>2, <1>4, <3>1, ListOfNumbers
  <2>3. \A x \in Range(P) : x \in Range(Q)
    <3> SUFFICES ASSUME NEW x \in Range(P) PROVE x \in Range(Q)
      OBVIOUS
    <3>1. PICK i \in 1..Len(P) : x = P[i]
      BY ListOfNumbers
    <3>2. i + 1 \in 1..Len(Q) /\ x = Q[i + 1]
      BY <1>2, <1>3, <1>4, <3>1
    <3>3. QED
      BY <1>2, <3>2, ListOfNumbers
  <2>4. QED
    BY <2>1, <2>2, <2>3
<1>7. Q # <<>>
  BY <1>2, <1>3, ListOfNumbers
<1>8. QED
  BY <1>2, <1>4, <1>5, <1>6, <1>7 DEF Q

LEMMA ShorterList ==
    ASSUME NEW P \in Seq(Number), P # <<>>
    PROVE  /\ Head(P) = P[1] /\ P[1] \in Number /\ Len(P) \in Nat \ {0}
           /\ Tail(P) \in Seq(Number) /\ Len(Tail(P)) = Len(P) - 1
           /\ \A i \in 1..Len(Tail(P)) : Tail(P)[i] = P[i + 1]
           /\ Tail(P) = <<>> <=> Len(P) = 1
<1>1. Len(P) \in Nat \ {0}
  BY ListOfNumbers
<1>2. /\ Head(P) = P[1] /\ P[1] \in Number
      /\ Tail(P) \in Seq(Number) /\ Len(Tail(P)) = Len(P) - 1
      /\ \A i \in 1..Len(Tail(P)) : Tail(P)[i] = P[i + 1]
  BY <1>1, HeadTailProperties, ListOfNumbers
<1>3. Tail(P) = <<>> <=> Len(P) = 1
  BY <1>1, <1>2, EmptySeq
<1>4. QED
  BY <1>1, <1>2, <1>3

\* The highest number is the first.
LEMMA HighestIsFirst ==
    ASSUME NumbersSort, NEW P \in Seq(Number), NEW s \in Signature, s < MaxSignatures,
           \A i \in 1..Len(P) : P[i] <= P[1] /\ P[i] < s
    PROVE  /\ NextNumber(P) \in Number /\ NextNumber(P) <= s
           /\ \A i \in 1..Len(P) : P[i] < NextNumber(P)
<1> DEFINE numbers == {0} \cup Range(P)
           first == IF P = <<>> THEN 0 ELSE P[1]
<1>1. MaxSignatures \in Nat /\ s \in Nat \ {0}
  BY BoundsAssumption DEF Signature
<1>2. \A n \in numbers : n \in 0..(MaxSignatures - 2) /\ n <= first
  <2> SUFFICES ASSUME NEW n \in numbers PROVE n \in 0..(MaxSignatures - 2) /\ n <= first
    OBVIOUS
  <2>1. CASE n = 0
    <3>1. first \in Nat
      BY ListOfNumbers DEF Number
    <3>2. QED
      BY <1>1, <2>1, <3>1
  <2>2. CASE n \in Range(P)
    <3>1. PICK i \in 1..Len(P) : n = P[i]
      BY <2>2, ListOfNumbers
    <3>2. n \in 1..MaxSignatures /\ P # <<>>
      BY <2>2, <3>1, ListOfNumbers DEF Number
    <3>3. n < s /\ n <= P[1]
      BY <3>1
    <3>4. QED
      BY <1>1, <3>2, <3>3
  <2>3. QED
    BY <2>1, <2>2
<1>3. first \in numbers
  <2>1. CASE P = <<>>
    BY <2>1
  <2>2. CASE P # <<>>
    <3>1. 1 \in 1..Len(P)
      BY <2>2, ShorterList
    <3>2. QED
      BY <2>2, <3>1, ListOfNumbers
  <2>3. QED
    BY <2>1, <2>2
<1>4. Highest(P) = CHOOSE h \in numbers : \A n \in numbers : ~SortsBefore(h, n)
  BY DEF Highest
<1> HIDE DEF numbers, first
<1>5. \A h \in numbers : (\A n \in numbers : ~SortsBefore(h, n)) <=> h = first
  <2>1. \A h, n \in numbers : SortsBefore(h, n) <=> h < n
    BY <1>2 DEF NumbersSort
  <2>2. \A h \in numbers : h < first \/ h = first
    BY <1>1, <1>2, <1>3
  <2>3. \A n \in numbers : ~(first < n)
    BY <1>1, <1>2, <1>3
  <2>4. QED
    BY <1>3, <2>1, <2>2, <2>3, <1>1, <1>2
<1>6. Highest(P) = first
  BY <1>3, <1>4, <1>5
<1>7. first + 1 \in Number /\ first + 1 <= s
  <2>1. first < s /\ first \in Nat
    <3>1. CASE P = <<>>
      BY <1>1, <3>1 DEF first
    <3>2. CASE P # <<>>
      <4>1. 1 \in 1..Len(P) /\ P[1] \in Number
        BY <3>2, ShorterList
      <4>2. QED
        BY <3>2, <4>1 DEF first, Number
    <3>3. QED
      BY <3>1, <3>2
  <2>2. QED
    BY <1>1, <2>1 DEF Number, Signature
<1>8. \A i \in 1..Len(P) : P[i] < first + 1
  <2> SUFFICES ASSUME NEW i \in 1..Len(P) PROVE P[i] < first + 1
    OBVIOUS
  <2>1. P # <<>> /\ P[i] \in Number /\ P[1] \in Number
    BY ListOfNumbers, ShorterList
  <2>2. QED
    BY <2>1 DEF first, Number
<1>9. QED
  BY <1>6, <1>7, <1>8 DEF NextNumber

-----------------------------------------------------------------------------
(***************************************************************************)
(* The states of a push and of a pull.                                     *)
(***************************************************************************)
LEMMA PushStates ==
    ASSUME push \in PushState
    PROVE  /\ push.pc \in {"idle", "move", "export", "write"}
           /\ push.pc = "idle" <=> push = NoPush
           /\ push.pc = "move" =>
                 push.signature \in Signature
           /\ push.pc \in {"export", "write"} =>
                 /\ push \in [pc : {"export", "write"}, signature : Signature,
                              exclude : SUBSET Signature, previous : Seq(Number)]
                 /\ push.signature \in Signature /\ push.exclude \in SUBSET Signature
                 /\ push.previous \in Seq(Number)
<1>1. CASE push = NoPush
  BY <1>1 DEF NoPush
<1>2. CASE push \in [pc : {"move"}, signature : Signature]
  BY <1>2 DEF NoPush
<1>3. CASE push \in [pc : {"export", "write"}, signature : Signature,
                     exclude : SUBSET Signature, previous : Seq(Number)]
  BY <1>3 DEF NoPush
<1>4. QED
  BY <1>1, <1>2, <1>3 DEF PushState

LEMMA PullStates ==
    ASSUME TypeOK, NEW a \in Archive
    PROVE  /\ pull[a].pc \in {"idle", "import", "signature", "previous", "chain"}
           /\ pull[a].pc = "idle" <=> pull[a] = NoPull
           /\ pull[a].pc = "previous" => pull[a].signature \in 0..MaxSignatures
           /\ pull[a].pc = "chain" =>
                 /\ pull[a] \in [pc : {"chain"}, signature : 0..MaxSignatures, left : Seq(Number)]
                 /\ pull[a].signature \in 0..MaxSignatures /\ pull[a].left \in Seq(Number)
<1>1. pull[a] \in PullState
  BY DEF TypeOK
<1>2. CASE pull[a] = NoPull
  BY <1>2 DEF NoPull
<1>3. CASE pull[a] \in {[pc |-> "import"], [pc |-> "signature"]}
  BY <1>3 DEF NoPull
<1>4. CASE pull[a] \in [pc : {"previous"}, signature : 0..MaxSignatures]
  BY <1>4 DEF NoPull
<1>5. CASE pull[a] \in [pc : {"chain"}, signature : 0..MaxSignatures, left : Seq(Number)]
  BY <1>5 DEF NoPull
<1>6. QED
  BY <1>1, <1>2, <1>3, <1>4, <1>5 DEF PullState

LEMMA BundleFields ==
    ASSUME NEW b \in Bundle
    PROVE  /\ b.signature \in Signature /\ b.signature \in Nat \ {0}
           /\ b.signature <= MaxSignatures
           /\ b.objects \in SUBSET Signature /\ b.exclude \in SUBSET Signature
           /\ b.previous \in Seq(Number)
  BY BoundsAssumption DEF Bundle, Signature

LEMMA SpecialFiles == NoBundle \notin Bundle /\ Torn \notin Bundle /\ NoBundle # Torn
  BY SpecialAssumption

-----------------------------------------------------------------------------
(***************************************************************************)
(* The chain of bundles.                                                   *)
(***************************************************************************)
LEMMA LatestOfList ==
    ASSUME NEW P \in Seq(Number), Ordered(P), P # <<>>
    PROVE  /\ saved[P[1]] \in Bundle /\ Below(P) = 1..saved[P[1]].signature
           /\ saved[P[1]].exclude = Below(Tail(P))
           /\ saved[P[1]].objects = Below(P) \ Below(Tail(P))
           /\ saved[P[1]].signature \notin Below(Tail(P))
           /\ Ordered(Tail(P))
<1>1. 1 \in 1..Len(P) /\ Len(P) \in Nat
  BY ShorterList
<1>2. Holds(saved[P[1]], IF 1 = Len(P) THEN {} ELSE 1..saved[P[2]].signature)
  <2>1. Holds(saved[P[1]], IF 1 = Len(P) THEN {} ELSE 1..saved[P[1 + 1]].signature)
    BY <1>1 DEF Ordered
  <2>2. 1 + 1 = 2
    OBVIOUS
  <2>3. QED
    BY <2>1, <2>2
<1>3. Below(Tail(P)) = IF 1 = Len(P) THEN {} ELSE 1..saved[P[2]].signature
  <2>1. Len(P) # 1 => Tail(P)[1] = P[2]
    BY ShorterList
  <2>2. QED
    BY <2>1, ShorterList DEF Below
<1>4. Ordered(Tail(P))
  <2> SUFFICES ASSUME NEW i \in 1..Len(Tail(P))
               PROVE  Holds(saved[Tail(P)[i]],
                            IF i = Len(Tail(P)) THEN {} ELSE 1..saved[Tail(P)[i + 1]].signature)
    BY DEF Ordered
  <2>1. i + 1 \in 1..Len(P) /\ Tail(P)[i] = P[i + 1]
    BY <1>1, ShorterList
  <2>2. i = Len(Tail(P)) <=> i + 1 = Len(P)
    BY <1>1, ShorterList
  <2>3. i # Len(Tail(P)) => Tail(P)[i + 1] = P[(i + 1) + 1]
    <3> SUFFICES ASSUME i # Len(Tail(P)) PROVE Tail(P)[i + 1] = P[(i + 1) + 1]
      OBVIOUS
    <3>1. i + 1 \in 1..Len(Tail(P))
      BY <1>1, ShorterList
    <3>2. QED
      BY <3>1, ShorterList
  <2>4. Holds(saved[P[i + 1]],
              IF i + 1 = Len(P) THEN {} ELSE 1..saved[P[(i + 1) + 1]].signature)
    BY <2>1 DEF Ordered
  <2>5. QED
    BY <2>1, <2>2, <2>3, <2>4
<1>5. QED
  BY <1>2, <1>3, <1>4 DEF Holds, Below

\* What belongs to a list also belongs to the signature that follows it.
LEMMA BelowIsLower ==
    ASSUME NEW P \in Seq(Number), Ordered(P), NEW s \in Nat \ {0}, s \notin Below(P)
    PROVE  Below(P) \subseteq 1..s
<1>1. CASE P = <<>>
  BY <1>1 DEF Below
<1>2. CASE P # <<>>
  <2>1. saved[P[1]] \in Bundle /\ Below(P) = 1..saved[P[1]].signature
    BY <1>2, LatestOfList
  <2>2. saved[P[1]].signature \in Nat \ {0}
    BY <2>1, BundleFields
  <2>3. QED
    BY <2>1, <2>2
<1>3. QED
  BY <1>1, <1>2

LEMMA FollowsComplete ==
    ASSUME NEW b \in Bundle, Holds(b, b.exclude), Follows(b.signature, b.exclude, b.previous)
    PROVE  /\ 1..b.signature = b.objects \cup b.exclude
           /\ b.previous \in Seq(Number)
           /\ {saved[n] : n \in Range(b.previous)} \subseteq Bundle
           /\ b.exclude \subseteq UNION {saved[n].objects : n \in Range(b.previous)}
<1>1. b.previous \in Seq(Number) /\ Ordered(b.previous)
  BY DEF Follows, Leads
<1>2. b.exclude \subseteq 1..b.signature
  BY <1>1, BelowIsLower, BundleFields DEF Follows
<1>3. {saved[n] : n \in Range(b.previous)} \subseteq Bundle
  <2> SUFFICES ASSUME NEW n \in Range(b.previous) PROVE saved[n] \in Bundle
    OBVIOUS
  <2>1. PICK i \in 1..Len(b.previous) : n = b.previous[i]
    BY <1>1, ListOfNumbers
  <2>2. QED
    BY <1>1, <2>1 DEF Ordered, Holds
<1>4. QED
  BY <1>1, <1>2, <1>3 DEF Holds, Follows, Leads

\* The main bundle is moved to a number that is in no list, and the list with that
\* number leads to what it excluded and what it has.
LEMMA MainIsMoved ==
    ASSUME NumbersSort, TypeOK, MainInv, main \in Bundle,
           push'.signature \in Signature, main.signature < push'.signature,
           NEW number, number = NextNumber(main.previous),
           saved' = [saved EXCEPT ![number] = main],
           push'.exclude = main.objects \cup main.exclude,
           push'.previous = <<number>> \o main.previous
    PROVE  number \in Number /\ Follows(push.signature, push.exclude, push.previous)'
<1> DEFINE P == main.previous
           Q == push'.previous
           s == main.signature
<1>1. /\ Holds(main, main.exclude) /\ Follows(s, main.exclude, P) /\ Leads(P)
      /\ P \in Seq(Number) /\ Ordered(P)
  BY DEF MainInv, Follows, Leads
<1>2. /\ s \in Signature /\ s \in Nat \ {0} /\ s < MaxSignatures
      /\ push'.signature \in Nat
  BY BundleFields, BoundsAssumption DEF Signature
<1>3. \A i \in 1..Len(P) : P[i] <= P[1] /\ P[i] < s
  BY <1>1 DEF Follows, Leads
<1>4. /\ number \in Number /\ number <= s /\ \A i \in 1..Len(P) : P[i] < number
  BY <1>1, <1>2, <1>3, HighestIsFirst
<1>5. /\ Q \in Seq(Number) /\ Len(Q) = Len(P) + 1 /\ Q # <<>>
      /\ Q[1] = number
      /\ \A i \in 1..Len(P) : Q[i + 1] = P[i]
      /\ \A i \in 2..Len(Q) : i - 1 \in 1..Len(P) /\ Q[i] = P[i - 1]
      /\ Range(Q) = {number} \cup Range(P)
      /\ Len(P) \in Nat
  BY <1>1, <1>4, LongerList, ListOfNumbers
<1>6. saved'[number] = main
  BY <1>4 DEF TypeOK
<1>7. \A i \in 1..Len(P) : P[i] \in Number /\ saved'[P[i]] = saved[P[i]]
  <2> SUFFICES ASSUME NEW i \in 1..Len(P) PROVE P[i] \in Number /\ saved'[P[i]] = saved[P[i]]
    OBVIOUS
  <2>1. P[i] \in Number /\ P[i] # number
    BY <1>1, <1>4, ListOfNumbers DEF Number
  <2>2. QED
    BY <2>1 DEF TypeOK
<1>8. /\ main.exclude = Below(P) /\ s \notin Below(P) /\ 1..s = main.objects \cup main.exclude
      /\ main.objects = (1..s) \ Below(P)
  BY <1>1, FollowsComplete DEF Follows, Holds
<1>9. Ordered(push.previous)'
  <2> SUFFICES ASSUME NEW i \in 1..Len(Q)
               PROVE  Holds(saved'[Q[i]],
                            IF i = Len(Q) THEN {} ELSE 1..saved'[Q[i + 1]].signature)
    BY DEF Ordered, Holds
  <2>1. CASE i = 1
    <3>1. Below(P) = IF i = Len(Q) THEN {} ELSE 1..saved'[Q[i + 1]].signature
      <4>1. CASE P = <<>>
        BY <1>1, <1>5, <2>1, <4>1, ListOfNumbers DEF Below
      <4>2. CASE P # <<>>
        <5>1. 1 \in 1..Len(P)
          BY <1>1, <4>2, ShorterList
        <5>2. i # Len(Q) /\ Q[i + 1] = P[1]
          BY <1>5, <2>1, <5>1
        <5>3. QED
          BY <1>7, <4>2, <5>1, <5>2 DEF Below
      <4>3. QED
        BY <4>1, <4>2
    <3>2. QED
      BY <1>5, <1>6, <1>8, <2>1, <3>1 DEF Holds
  <2>2. CASE i # 1
    <3>1. i \in 2..Len(Q) /\ i - 1 \in 1..Len(P) /\ Q[i] = P[i - 1]
      BY <1>5, <2>2
    <3>2. Holds(saved[P[i - 1]],
                IF i - 1 = Len(P) THEN {} ELSE 1..saved[P[(i - 1) + 1]].signature)
      BY <1>1, <3>1 DEF Ordered
    <3>3. i = Len(Q) <=> i - 1 = Len(P)
      BY <1>5, <3>1
    <3>4. i # Len(Q) => Q[i + 1] = P[(i - 1) + 1] /\ (i - 1) + 1 \in 1..Len(P)
      BY <1>5, <3>1
    <3>5. QED
      BY <1>7, <3>1, <3>2, <3>3, <3>4
  <2>3. QED
    BY <2>1, <2>2
<1>10. Below(push.previous)' = 1..s
  BY <1>5, <1>6 DEF Below
<1>11. 1..s \subseteq UNION {saved'[n].objects : n \in Range(Q)}
  <2> SUFFICES ASSUME NEW x \in 1..s
               PROVE  \E n \in Range(Q) : x \in saved'[n].objects
    OBVIOUS
  <2>1. CASE x \in main.objects
    BY <1>5, <1>6, <2>1
  <2>2. CASE x \notin main.objects
    <3>1. PICK n \in Range(P) : x \in saved[n].objects
      BY <1>1, <1>8, <2>2, FollowsComplete
    <3>2. saved'[n] = saved[n]
      <4>1. PICK i \in 1..Len(P) : n = P[i]
        BY <1>1, ListOfNumbers
      <4>2. QED
        BY <1>7, <4>1
    <3>3. QED
      BY <1>5, <3>1, <3>2
  <2>3. QED
    BY <2>1, <2>2
<1>12. \A i \in 1..Len(Q) : Q[i] <= Q[1] /\ Q[i] < push'.signature
  <2> SUFFICES ASSUME NEW i \in 1..Len(Q) PROVE Q[i] <= Q[1] /\ Q[i] < push'.signature
    OBVIOUS
  <2>1. CASE i = 1
    BY <1>2, <1>4, <1>5, <2>1 DEF Number
  <2>2. CASE i # 1
    <3>1. i - 1 \in 1..Len(P) /\ Q[i] = P[i - 1]
      BY <1>5, <2>2
    <3>2. P[i - 1] < number /\ P[i - 1] \in Number
      BY <1>4, <1>7, <3>1
    <3>3. QED
      BY <1>2, <1>4, <1>5, <3>1, <3>2 DEF Number
  <2>3. QED
    BY <2>1, <2>2
<1>13. Leads(push.previous)'
  BY <1>5, <1>9, <1>10, <1>11, <1>12 DEF Leads
<1>14. push'.signature \notin 1..s
  BY <1>2
<1>15. QED
  BY <1>4, <1>8, <1>10, <1>12, <1>13, <1>14 DEF Follows

-----------------------------------------------------------------------------
(***************************************************************************)
(* The pushes.                                                             *)
(***************************************************************************)
\* Every pull under way is disturbed by a change of the mirror, so no other pull
\* depends on it.
LEMMA ChangeDisturbs ==
    ASSUME TypeOK, Undisturbed, UNCHANGED puller, Disturb PROVE Undisturbed'
<1> SUFFICES ASSUME NEW a \in Archive, a \notin disturbed' PROVE PullInv(a)'
  BY DEF Undisturbed
<1>1. a \notin disturbed /\ pull[a].pc = "idle"
  BY DEF Disturb
<1>2. PullInv(a)
  BY <1>1 DEF Undisturbed
<1>3. pull' = pull /\ held' = held /\ output' = output
  BY DEF puller
<1>4. QED
  BY <1>1, <1>2, <1>3 DEF PullInv, Misses

LEMMA NothingDisturbed ==
    ASSUME Undisturbed, UNCHANGED <<mirror, puller, disturbed>> PROVE Undisturbed'
  BY DEF Undisturbed, PullInv, Misses, Ordered, Below, Holds, mirror, puller

LEMMA MainStays ==
    ASSUME MainInv, UNCHANGED mirror, pushed \in Nat, pushed' \in Nat, pushed <= pushed',
           TypeOK
    PROVE  MainInv'
<1> SUFFICES ASSUME main \in Bundle PROVE MainInv'
  BY DEF MainInv, mirror
<1>1. main.signature \in Nat
  BY BundleFields
<1>2. main.signature <= pushed'
  BY <1>1 DEF MainInv
<1>3. QED
  BY <1>2 DEF MainInv, Follows, Leads, Ordered, Below, Holds, mirror

LEMMA BeginPushKeeps ==
    ASSUME Inv, NEW s \in Signature \cap {pushed, pushed + 1}, BeginPush(s) PROVE Inv'
<1> USE DEF Inv
<1>1. /\ push = NoPush /\ (main \in Bundle => main.signature # s)
      /\ pushed' = s /\ UNCHANGED <<mirror, puller, disturbed, deaths>>
  BY DEF BeginPush
<1>2. s \in Nat /\ s <= MaxSignatures /\ pushed \in Nat /\ pushed <= s
  BY BoundsAssumption DEF Signature, TypeOK
<1>3. main \in Bundle => main.signature < s
  BY <1>1, <1>2, BundleFields DEF MainInv
<1>4. push' \in PushState /\ PushInv'
  <2>1. CASE main = NoBundle
    <3>1. PICK r : r = [pc |-> "export", signature |-> s, exclude |-> {}, previous |-> <<>>]
      OBVIOUS
    <3>2. push' = r
      BY <2>1, <3>1 DEF BeginPush
    <3>3. r \in PushState
      BY <3>1 DEF PushState
    <3>4. /\ r.pc = "export" /\ r.signature = s /\ r.exclude = {} /\ r.previous = <<>>
      BY <3>1
    <3>5. main' \notin Bundle
      BY <1>1, <2>1, SpecialFiles DEF mirror
    <3>6. Leads(push.previous)'
      <4>1. Range(<<>>) = {} /\ Len(<<>>) = 0 /\ <<>> \in Seq(Number)
        BY DEF Range
      <4>2. QED
        BY <3>2, <3>4, <4>1 DEF Leads, Ordered, Below
    <3>7. Follows(push.signature, push.exclude, push.previous)'
      BY <3>2, <3>4, <3>6 DEF Follows, Below
    <3>8. QED
      BY <1>1, <3>2, <3>3, <3>4, <3>5, <3>7 DEF PushInv
  <2>2. CASE main # NoBundle
    <3>1. PICK r : r = [pc |-> "move", signature |-> s]
      OBVIOUS
    <3>2. push' = r
      BY <2>2, <3>1 DEF BeginPush
    <3>3. r \in PushState /\ r.pc = "move" /\ r.signature = s
      BY <3>1 DEF PushState
    <3>4. QED
      BY <1>1, <1>3, <2>2, <3>2, <3>3 DEF PushInv, mirror
  <2>3. QED
    BY <2>1, <2>2
<1>5. TypeOK'
  BY <1>1, <1>2, <1>4, BoundsAssumption DEF TypeOK, mirror, puller
<1>6. QED
  BY <1>1, <1>2, <1>4, <1>5, MainStays, NothingDisturbed

LEMMA MoveMainKeeps == ASSUME NumbersSort, Inv, MoveMain PROVE Inv'
<1> USE DEF Inv
<1> DEFINE number == NextNumber(main.previous)
<1>1. /\ push.pc = "move" /\ main \in Bundle
      /\ saved' = [saved EXCEPT ![number] = main]
      /\ main' = NoBundle /\ Disturb /\ UNCHANGED <<pushed, puller, deaths>>
  BY DEF MoveMain
<1>2. PICK r : r = [pc |-> "export", signature |-> push.signature,
                    exclude |-> main.objects \cup main.exclude,
                    previous |-> <<number>> \o main.previous]
  OBVIOUS
<1>3. push' = r
  BY <1>2 DEF MoveMain
<1>4. /\ r.pc = "export" /\ r.signature = push.signature
      /\ r.exclude = main.objects \cup main.exclude /\ r.previous = <<number>> \o main.previous
  BY <1>2
<1>5. push.signature \in Signature /\ main.signature < push.signature /\ push.signature = pushed
  BY <1>1, PushStates DEF PushInv, TypeOK, NoPush
<1> HIDE DEF number
<1>6. number \in Number /\ Follows(push.signature, push.exclude, push.previous)'
  BY <1>1, <1>3, <1>4, <1>5, MainIsMoved DEF number
<1>7. r \in PushState
  <2>1. r.exclude \in SUBSET Signature /\ r.previous \in Seq(Number)
    BY <1>1, <1>3, <1>4, <1>6, BundleFields DEF Follows, Leads
  <2>2. QED
    BY <1>2, <1>4, <1>5, <2>1 DEF PushState
<1>8. main' \notin Bundle
  BY <1>1, SpecialFiles
<1>9. TypeOK'
  BY <1>1, <1>3, <1>6, <1>7 DEF TypeOK, puller, Disturb
<1>10. PushInv'
  BY <1>1, <1>3, <1>4, <1>5, <1>6, <1>8 DEF PushInv
<1>11. MainInv'
  BY <1>8 DEF MainInv
<1>12. QED
  BY <1>1, <1>9, <1>10, <1>11, ChangeDisturbs

LEMMA MoveTornKeeps == ASSUME Inv, MoveTorn PROVE Inv'
<1> USE DEF Inv
<1>1. /\ push.pc = "move" /\ saved' = [saved EXCEPT ![1] = Torn]
      /\ main' = NoBundle /\ push' = NoPush /\ Disturb /\ UNCHANGED <<pushed, puller, deaths>>
  BY DEF MoveTorn
<1>2. main' \notin Bundle
  BY <1>1, SpecialFiles
<1>3. TypeOK'
  BY <1>1 DEF TypeOK, puller, Disturb, PushState
<1>4. PushInv'
  BY <1>1 DEF PushInv, NoPush
<1>5. QED
  BY <1>1, <1>2, <1>3, <1>4, ChangeDisturbs DEF MainInv

LEMMA BeginExportKeeps == ASSUME Inv, BeginExport PROVE Inv'
<1> USE DEF Inv
<1>1. /\ push.pc = "export" /\ main' = Torn /\ push' = [push EXCEPT !.pc = "write"]
      /\ Disturb /\ UNCHANGED <<saved, pushed, puller, deaths>>
  BY DEF BeginExport
<1>2. push \in [pc : {"export", "write"}, signature : Signature,
                exclude : SUBSET Signature, previous : Seq(Number)]
  BY <1>1, PushStates DEF TypeOK
<1>3. /\ push' \in [pc : {"export", "write"}, signature : Signature,
                    exclude : SUBSET Signature, previous : Seq(Number)]
      /\ push'.pc = "write" /\ push'.signature = push.signature
      /\ push'.exclude = push.exclude /\ push'.previous = push.previous
  BY <1>1, <1>2
<1>4. main' \notin Bundle
  BY <1>1, SpecialFiles
<1>5. TypeOK'
  BY <1>1, <1>3 DEF TypeOK, puller, Disturb, PushState
<1>6. PushInv'
  <2>1. push.signature = pushed /\ Follows(push.signature, push.exclude, push.previous)
    BY <1>1 DEF PushInv, NoPush
  <2>2. Follows(push.signature, push.exclude, push.previous)'
    <3>1. PICK r : r = push'
      OBVIOUS
    <3>2. /\ saved' = saved
          /\ r.signature = push.signature /\ r.exclude = push.exclude /\ r.previous = push.previous
      BY <1>1, <1>3, <3>1
    <3>3. QED
      BY <2>1, <3>1, <3>2 DEF Follows, Leads, Ordered, Below, Holds
  <2>3. QED
    BY <1>1, <1>3, <1>4, <2>1, <2>2 DEF PushInv
<1>7. QED
  BY <1>1, <1>4, <1>5, <1>6, ChangeDisturbs DEF MainInv

LEMMA FinishExportKeeps == ASSUME Inv, FinishExport PROVE Inv'
<1> USE DEF Inv
<1>1. /\ push.pc = "write" /\ push' = NoPush
      /\ Disturb /\ UNCHANGED <<saved, pushed, puller, deaths>>
  BY DEF FinishExport
<1>2. PICK b : b = [signature |-> push.signature,
                    objects |-> (1..push.signature) \ push.exclude,
                    exclude |-> push.exclude, previous |-> push.previous]
  OBVIOUS
<1>3. main' = b
  BY <1>2 DEF FinishExport
<1>4. /\ push.signature \in Signature /\ push.exclude \in SUBSET Signature
      /\ push.previous \in Seq(Number)
  BY <1>1, PushStates DEF TypeOK
<1>5. /\ b.signature = push.signature /\ b.objects = (1..push.signature) \ push.exclude
      /\ b.exclude = push.exclude /\ b.previous = push.previous
  BY <1>2
<1>6. b \in Bundle
  <2>1. (1..push.signature) \ push.exclude \in SUBSET Signature
    BY <1>4, BoundsAssumption DEF Signature
  <2>2. QED
    BY <1>2, <1>4, <2>1 DEF Bundle
<1>7. push.signature = pushed /\ Follows(push.signature, push.exclude, push.previous)
  BY <1>1 DEF PushInv, NoPush
<1>8. TypeOK'
  BY <1>1, <1>3, <1>6 DEF TypeOK, puller, Disturb, PushState
<1>9. PushInv'
  BY <1>1 DEF PushInv, NoPush
<1>10. MainInv'
  <2>1. Follows(main.signature, main.exclude, main.previous)'
    BY <1>1, <1>3, <1>5, <1>7 DEF Follows, Leads, Ordered, Below, Holds
  <2>2. Holds(main, main.exclude)'
    BY <1>3, <1>5, <1>6, <1>7 DEF Holds, Follows
  <2>3. main'.signature <= pushed'
    BY <1>1, <1>3, <1>4, <1>5, <1>7 DEF Signature
  <2>4. QED
    BY <2>1, <2>2, <2>3 DEF MainInv
<1>11. QED
  BY <1>1, <1>8, <1>9, <1>10, ChangeDisturbs

LEMMA PushDiesKeeps == ASSUME Inv, PushDies PROVE Inv'
<1> USE DEF Inv
<1>1. /\ deaths < MaxDeaths /\ deaths' = deaths + 1 /\ push' = NoPush
      /\ UNCHANGED <<mirror, pushed, puller, disturbed>>
  BY DEF PushDies
<1>2. TypeOK'
  BY <1>1, BoundsAssumption DEF TypeOK, mirror, puller, PushState
<1>3. PushInv'
  BY <1>1 DEF PushInv, NoPush
<1>4. pushed \in Nat /\ pushed' = pushed
  BY <1>1, BoundsAssumption DEF TypeOK
<1>5. QED
  BY <1>1, <1>2, <1>3, <1>4, MainStays, NothingDisturbed

-----------------------------------------------------------------------------
(***************************************************************************)
(* The pulls.                                                              *)
(***************************************************************************)
LEMMA PullStays ==
    ASSUME NEW a \in Archive, PullInv(a), main' = main, saved' = saved,
           pull'[a] = pull[a], held'[a] = held[a], output'[a] = output[a]
    PROVE  PullInv(a)'
<1>1. PICK p : p = pull[a]
  OBVIOUS
<1>2. \A numbers : (Below(numbers)' = Below(numbers)) /\ (Ordered(numbers)' <=> Ordered(numbers))
  BY DEF Below, Ordered, Holds
<1>3. \A objects : Misses(a, objects)' <=> Misses(a, objects)
  BY DEF Misses
<1>4. QED
  BY <1>1, <1>2, <1>3 DEF PullInv

\* A step of one pull concerns nobody else.
LEMMA PullStepKeeps ==
    ASSUME Inv, NEW a \in Archive, NEW c \in PullState,
           NEW objects \in SUBSET Signature, NEW out \in 0..MaxSignatures,
           UNCHANGED <<mirror, pusher>>,
           Becomes(a, c),
           held' = [held EXCEPT ![a] = @ \cup objects],
           output' = [output EXCEPT ![a] = out],
           disturbed' \subseteq Archive, disturbed \subseteq disturbed',
           deaths' \in 0..MaxDeaths,
           a \in disturbed' \/ PullInv(a)'
    PROVE  Inv'
<1> USE DEF Inv
<1>1. /\ pull' = [pull EXCEPT ![a] = c] /\ main' = main /\ saved' = saved
      /\ push' = push /\ pushed' = pushed
  BY DEF Becomes, mirror, pusher
<1>2. TypeOK'
  BY <1>1 DEF TypeOK
<1>3. MainInv'
  <2>1. pushed \in Nat
    BY BoundsAssumption DEF TypeOK
  <2>2. QED
    BY <1>1, <2>1, MainStays
<1>4. PushInv'
  BY <1>1 DEF PushInv, Follows, Leads, Ordered, Below, Holds
<1>5. Undisturbed'
  <2> SUFFICES ASSUME NEW x \in Archive, x \notin disturbed', x # a PROVE PullInv(x)'
    BY DEF Undisturbed
  <2>1. PullInv(x)
    BY DEF Undisturbed
  <2>2. pull'[x] = pull[x] /\ held'[x] = held[x] /\ output'[x] = output[x]
    BY <1>1 DEF TypeOK
  <2>3. main' = main /\ saved' = saved
    BY <1>1
  <2>4. QED
    BY <2>1, <2>2, <2>3, PullStays
<1>6. QED
  BY <1>2, <1>3, <1>4, <1>5

\* Nothing new for the archive, or for its output.
LEMMA SameHeld ==
    ASSUME TypeOK, NEW a \in Archive
    PROVE  /\ held = [held EXCEPT ![a] = @ \cup {}]
           /\ output = [output EXCEPT ![a] = output[a]]
           /\ output[a] \in 0..MaxSignatures /\ {} \in SUBSET Signature
           /\ held[a] \in SUBSET Signature
  BY DEF TypeOK

LEMMA BeginPullKeeps == ASSUME Inv, NEW a \in Archive, BeginPull(a) PROVE Inv'
<1> USE DEF Inv
<1>1. /\ pull[a] = NoPull /\ UNCHANGED <<mirror, pusher, held, disturbed, deaths>>
      /\ held' = [held EXCEPT ![a] = @ \cup {}] /\ disturbed' \subseteq Archive
      /\ deaths' \in 0..MaxDeaths
  BY SameHeld DEF BeginPull, TypeOK
<1>2. ASSUME a \notin disturbed
      PROVE  1..output[a] \subseteq held[a] /\ Misses(a, {})
  <2>1. pull[a].pc = "idle"
    BY <1>1 DEF NoPull
  <2>2. PullInv(a)
    BY <1>2 DEF Undisturbed
  <2>3. QED
    BY <2>1, <2>2 DEF PullInv
<1>3. 0 \in 0..MaxSignatures /\ 1..0 = {}
  BY BoundsAssumption
<1>4. CASE main = NoBundle
  <2>1. Becomes(a, NoPull) /\ output' = [output EXCEPT ![a] = 0]
    BY <1>4 DEF BeginPull, Returns
  <2>2. pull'[a].pc = "idle" /\ output'[a] = 0
    BY <2>1 DEF Becomes, TypeOK, NoPull
  <2>3. a \notin disturbed => PullInv(a)'
    BY <1>1, <1>2, <1>3, <2>2 DEF PullInv, Misses
  <2>4. NoPull \in PullState
    BY DEF PullState
  <2>5. QED
    BY <1>1, <1>3, <2>1, <2>3, <2>4, SameHeld, PullStepKeeps
<1>5. CASE main # NoBundle
  <2>1. Becomes(a, [pc |-> "import"]) /\ output' = output
    BY <1>5 DEF BeginPull
  <2>2. pull'[a].pc = "import" /\ output'[a] = output[a]
    BY <2>1 DEF Becomes, TypeOK
  <2>3. a \notin disturbed => PullInv(a)'
    BY <1>1, <1>2, <2>1, <2>2 DEF PullInv, Misses
  <2>4. [pc |-> "import"] \in PullState
    BY DEF PullState
  <2>5. output' = [output EXCEPT ![a] = output[a]]
    BY <2>1, SameHeld
  <2>6. QED
    BY <1>1, <2>1, <2>3, <2>4, <2>5, SameHeld, PullStepKeeps
<1>6. QED
  BY <1>4, <1>5

LEMMA ImportMainKeeps == ASSUME Inv, NEW a \in Archive, ImportMain(a) PROVE Inv'
<1> USE DEF Inv
<1>1. /\ pull[a].pc = "import" /\ UNCHANGED <<mirror, pusher, output, disturbed, deaths>>
      /\ output' = [output EXCEPT ![a] = output[a]] /\ disturbed' \subseteq Archive
      /\ deaths' \in 0..MaxDeaths
  BY SameHeld DEF ImportMain, TypeOK
<1>2. ASSUME a \notin disturbed
      PROVE  1..output[a] \subseteq held[a] /\ Misses(a, {})
  BY <1>1, <1>2 DEF Undisturbed, PullInv
<1>3. CASE main \in Bundle
  <2>1. /\ Becomes(a, [pc |-> "signature"])
        /\ held' = [held EXCEPT ![a] = @ \cup main.objects]
    BY <1>3 DEF ImportMain, Importing
  <2>2. /\ pull'[a].pc = "signature" /\ output'[a] = output[a]
        /\ held'[a] = held[a] \cup main.objects
    BY <1>1, <2>1 DEF Becomes, TypeOK
  <2>3. main' = main
    BY <1>1 DEF mirror
  <2>4. a \notin disturbed => PullInv(a)'
    BY <1>2, <1>3, <2>2, <2>3 DEF PullInv, Misses
  <2>5. [pc |-> "signature"] \in PullState
    BY DEF PullState
  <2>6. QED
    BY <1>1, <1>3, <2>1, <2>4, <2>5, SameHeld, BundleFields, PullStepKeeps
<1>4. CASE main \notin Bundle
  <2>1. Becomes(a, NoPull) /\ held' = held
    BY <1>4 DEF ImportMain
  <2>2. pull'[a].pc = "idle" /\ output'[a] = output[a]
    BY <1>1, <2>1 DEF Becomes, TypeOK, NoPull
  <2>3. a \notin disturbed => PullInv(a)'
    BY <1>2, <2>1, <2>2 DEF PullInv, Misses
  <2>4. NoPull \in PullState /\ held' = [held EXCEPT ![a] = @ \cup {}]
    BY <2>1, SameHeld DEF PullState
  <2>5. QED
    BY <1>1, <2>1, <2>3, <2>4, SameHeld, PullStepKeeps
<1>5. QED
  BY <1>3, <1>4

LEMMA ReadSignatureKeeps == ASSUME Inv, NEW a \in Archive, ReadSignature(a) PROVE Inv'
<1> USE DEF Inv
<1> DEFINE signature == IF main \in Bundle THEN main.signature ELSE 0
           c == [pc |-> "previous", signature |-> signature]
<1>1. /\ pull[a].pc = "signature" /\ UNCHANGED <<mirror, pusher, held, output, disturbed, deaths>>
      /\ Becomes(a, c)
      /\ held' = [held EXCEPT ![a] = @ \cup {}]
      /\ output' = [output EXCEPT ![a] = output[a]] /\ disturbed' \subseteq Archive
      /\ deaths' \in 0..MaxDeaths
  BY SameHeld DEF ReadSignature, TypeOK
<1>2. signature \in 0..MaxSignatures
  BY BundleFields, BoundsAssumption
<1>3. c \in PullState
  BY <1>2 DEF PullState
<1>4. a \notin disturbed => PullInv(a)'
  <2> SUFFICES ASSUME a \notin disturbed PROVE PullInv(a)'
    OBVIOUS
  <2>1. PullInv(a)
    BY DEF Undisturbed
  <2>2. /\ main \in Bundle /\ main.objects \subseteq held[a] /\ Misses(a, main.objects)
        /\ 1..output[a] \subseteq held[a]
    BY <1>1, <2>1 DEF PullInv
  <2>3. pull'[a].pc = "previous" /\ pull'[a].signature = main.signature
    BY <1>1, <2>2 DEF Becomes, TypeOK
  <2>4. main' = main /\ held' = held /\ output' = output
    BY <1>1 DEF mirror
  <2>5. QED
    BY <2>2, <2>3, <2>4 DEF PullInv, Misses
<1> HIDE DEF c
<1>5. QED
  BY <1>1, <1>3, <1>4, SameHeld, PullStepKeeps

LEMMA ReadPreviousKeeps == ASSUME Inv, NEW a \in Archive, ReadPrevious(a) PROVE Inv'
<1> USE DEF Inv
<1> DEFINE left == IF main \in Bundle THEN main.previous ELSE <<>>
           c == [pc |-> "chain", signature |-> pull[a].signature, left |-> left]
<1>1. /\ pull[a].pc = "previous" /\ UNCHANGED <<mirror, pusher, held, output, disturbed, deaths>>
      /\ Becomes(a, c)
      /\ held' = [held EXCEPT ![a] = @ \cup {}]
      /\ output' = [output EXCEPT ![a] = output[a]] /\ disturbed' \subseteq Archive
      /\ deaths' \in 0..MaxDeaths
  BY SameHeld DEF ReadPrevious, TypeOK
<1>2. left \in Seq(Number) /\ pull[a].signature \in 0..MaxSignatures
  BY <1>1, BundleFields, PullStates
<1>3. c \in PullState
  BY <1>2 DEF PullState
<1>4. a \notin disturbed => PullInv(a)'
  <2> SUFFICES ASSUME a \notin disturbed PROVE PullInv(a)'
    OBVIOUS
  <2>1. PullInv(a)
    BY DEF Undisturbed
  <2>2. /\ main \in Bundle /\ main.objects \subseteq held[a] /\ Misses(a, main.objects)
        /\ 1..output[a] \subseteq held[a] /\ pull[a].signature = main.signature
    BY <1>1, <2>1 DEF PullInv
  <2>3. /\ pull'[a].pc = "chain" /\ pull'[a].signature = main.signature
        /\ pull'[a].left = main.previous
    BY <1>1, <2>2 DEF Becomes, TypeOK
  <2>4. main' = main /\ saved' = saved /\ held' = held /\ output' = output
    BY <1>1 DEF mirror
  <2>5. /\ Ordered(main.previous) /\ Below(main.previous) = main.exclude
        /\ main.objects = (1..main.signature) \ Below(main.previous)
        /\ Below(main.previous) \subseteq 1..main.signature
    BY <2>2, BundleFields, BelowIsLower DEF MainInv, Follows, Leads, Holds
  <2>6. /\ Ordered(main.previous)' /\ Below(main.previous)' = Below(main.previous)
        /\ Misses(a, main.objects)'
    BY <2>2, <2>4, <2>5 DEF Ordered, Below, Holds, Misses
  <2>7. QED
    BY <2>2, <2>3, <2>4, <2>5, <2>6 DEF PullInv, Ordered, Below
<1> HIDE DEF c
<1>5. QED
  BY <1>1, <1>3, <1>4, SameHeld, PullStepKeeps

\* What a pull that goes on along the chain knows of the next bundle.
LEMMA NextOfChain ==
    ASSUME Inv, NEW a \in Archive, a \notin disturbed, pull[a].pc = "chain",
           pull[a].left # <<>>
    PROVE  LET b == saved[Head(pull[a].left)]
               rest == Below(Tail(pull[a].left))
               all == 1..pull[a].signature
           IN  /\ b \in Bundle /\ b.objects \subseteq all
               /\ rest \subseteq all
               /\ Ordered(Tail(pull[a].left))
               /\ all \ rest \subseteq held[a] \cup b.objects
               /\ \A n \in held[a] \cup b.objects :
                     n \in all \ rest \/ 1..n \subseteq held[a]
               /\ b.objects \subseteq held[a] =>
                     all \subseteq held[a] /\ Misses(a, {})
<1> DEFINE P == pull[a].left
           b == saved[Head(P)]
           rest == Below(Tail(P))
           all == 1..pull[a].signature
<1>1. P \in Seq(Number) /\ pull[a].signature \in Nat
  BY PullStates, BoundsAssumption DEF Inv
<1>2. /\ Ordered(P) /\ Below(P) \subseteq all /\ all \ Below(P) \subseteq held[a]
      /\ Misses(a, all \ Below(P))
  BY DEF Inv, Undisturbed, PullInv
<1>3. /\ b \in Bundle /\ Below(P) = 1..b.signature
      /\ b.objects = Below(P) \ rest /\ b.signature \notin rest
      /\ Ordered(Tail(P))
  BY <1>1, <1>2, LatestOfList, ShorterList
<1>4. b.signature \in Nat \ {0} /\ b.signature \in b.objects
  BY <1>3, BundleFields
<1>5. rest \subseteq Below(P)
  BY <1>1, <1>3, <1>4, BelowIsLower, ShorterList
<1>6. ASSUME NEW n \in held[a] \cup b.objects PROVE n \in all \ rest \/ 1..n \subseteq held[a]
  BY <1>2, <1>3, <1>5, <1>6 DEF Misses
<1>7. ASSUME b.objects \subseteq held[a] PROVE all \subseteq held[a] /\ Misses(a, {})
  <2>1. b.signature \in held[a] /\ b.signature \notin all \ Below(P)
    BY <1>3, <1>4, <1>7
  <2>2. Below(P) \subseteq held[a]
    BY <1>2, <1>3, <2>1 DEF Misses
  <2>3. all \subseteq held[a]
    BY <1>2, <2>2
  <2>4. Misses(a, {})
    <3> SUFFICES ASSUME NEW n \in held[a] PROVE 1..n \subseteq held[a]
      BY DEF Misses
    <3>1. CASE n \in all
      BY <1>1, <2>3, <3>1
    <3>2. CASE n \notin all
      BY <1>2, <3>2 DEF Misses
    <3>3. QED
      BY <3>1, <3>2
  <2>5. QED
    BY <2>3, <2>4
<1>8. QED
  BY <1>2, <1>3, <1>5, <1>6, <1>7

LEMMA ImportPreviousKeeps == ASSUME Inv, NEW a \in Archive, ImportPrevious(a) PROVE Inv'
<1> USE DEF Inv
<1> DEFINE b == saved[Head(pull[a].left)]
<1>1. /\ pull[a].pc = "chain" /\ pull[a].left # <<>>
      /\ UNCHANGED <<mirror, pusher, disturbed, deaths>>
      /\ disturbed' \subseteq Archive /\ deaths' \in 0..MaxDeaths
  BY DEF ImportPrevious, TypeOK
<1>2. /\ pull[a] \in [pc : {"chain"}, signature : 0..MaxSignatures, left : Seq(Number)]
      /\ pull[a].signature \in 0..MaxSignatures /\ pull[a].left \in Seq(Number)
  BY <1>1, PullStates
<1>3. b \in Bundle => b.objects \in SUBSET Signature
  BY BundleFields
<1>4. NoPull \in PullState
  BY DEF PullState
<1>5. CASE b \notin Bundle
  <2>1. Becomes(a, NoPull) /\ held' = held /\ output' = output
    BY <1>5 DEF ImportPrevious
  <2>2. a \in disturbed'
    BY <1>1, <1>5, NextOfChain
  <2>3. held' = [held EXCEPT ![a] = @ \cup {}] /\ output' = [output EXCEPT ![a] = output[a]]
    BY <2>1, SameHeld
  <2>4. QED
    BY <1>1, <1>4, <2>1, <2>2, <2>3, SameHeld, PullStepKeeps
<1>6. CASE b \in Bundle /\ b.objects \subseteq held[a]
  <2>1. /\ Becomes(a, NoPull) /\ held' = [held EXCEPT ![a] = @ \cup b.objects]
        /\ output' = [output EXCEPT ![a] = pull[a].signature]
    BY <1>6 DEF ImportPrevious, Importing, Returns
  <2>2. /\ pull'[a].pc = "idle" /\ output'[a] = pull[a].signature
        /\ held'[a] = held[a]
    BY <1>6, <2>1 DEF Becomes, TypeOK, NoPull
  <2>3. a \notin disturbed => PullInv(a)'
    <3> SUFFICES ASSUME a \notin disturbed PROVE PullInv(a)'
      OBVIOUS
    <3>1. 1..pull[a].signature \subseteq held[a] /\ Misses(a, {})
      BY <1>1, <1>6, NextOfChain
    <3>2. QED
      BY <2>2, <3>1 DEF PullInv, Misses
  <2>4. QED
    BY <1>1, <1>2, <1>3, <1>4, <1>6, <2>1, <2>3, PullStepKeeps
<1>7. CASE b \in Bundle /\ ~(b.objects \subseteq held[a])
  <2> DEFINE c == [pull[a] EXCEPT !.left = Tail(@)]
  <2>1. /\ Becomes(a, c) /\ held' = [held EXCEPT ![a] = @ \cup b.objects]
        /\ output' = output
    BY <1>7 DEF ImportPrevious, Importing
  <2>2. Tail(pull[a].left) \in Seq(Number)
    BY <1>1, <1>2, ShorterList
  <2>3. /\ c \in [pc : {"chain"}, signature : 0..MaxSignatures, left : Seq(Number)]
        /\ c.pc = "chain" /\ c.signature = pull[a].signature /\ c.left = Tail(pull[a].left)
    BY <1>2, <2>2
  <2> HIDE DEF c
  <2>4. c \in PullState
    BY <2>3 DEF PullState
  <2>5. pull'[a] = c /\ held'[a] = held[a] \cup b.objects /\ output'[a] = output[a]
    BY <2>1 DEF Becomes, TypeOK
  <2>6. a \notin disturbed => PullInv(a)'
    <3> SUFFICES ASSUME a \notin disturbed PROVE PullInv(a)'
      OBVIOUS
    <3>1. PICK L : L = Tail(pull[a].left)
      OBVIOUS
    <3>2. PICK all : all = 1..pull[a].signature
      OBVIOUS
    <3>3. /\ Below(L) \subseteq all /\ Ordered(L)
          /\ all \ Below(L) \subseteq held[a] \cup b.objects
          /\ \A n \in held[a] \cup b.objects :
                n \in all \ Below(L) \/ 1..n \subseteq held[a]
      BY <1>1, <3>1, <3>2, NextOfChain
    <3>4. saved' = saved
      BY <1>1 DEF mirror
    <3>5. Below(L)' = Below(L) /\ Ordered(L)'
      BY <3>3, <3>4 DEF Below, Ordered, Holds
    <3>6. 1..output[a] \subseteq held[a]
      BY DEF Undisturbed, PullInv
    <3>7. PICK objects : objects = all \ Below(L)
      OBVIOUS
    <3>8. Misses(a, objects)'
      BY <2>5, <3>3, <3>7 DEF Misses
    <3>9. pull'[a].pc = "chain" /\ pull'[a].left = L /\ 1..pull'[a].signature = all
      BY <2>3, <2>5, <3>1, <3>2
    <3>10. QED
      BY <2>5, <3>3, <3>5, <3>6, <3>7, <3>8, <3>9 DEF PullInv
  <2>7. output' = [output EXCEPT ![a] = output[a]]
    BY <2>1, SameHeld
  <2>8. QED
    BY <1>1, <1>3, <1>7, <2>1, <2>4, <2>6, <2>7, SameHeld, PullStepKeeps
<1>8. QED
  BY <1>5, <1>6, <1>7

LEMMA FinishPullKeeps == ASSUME Inv, NEW a \in Archive, FinishPull(a) PROVE Inv'
<1> USE DEF Inv
<1>1. /\ pull[a].pc = "chain" /\ pull[a].left = <<>>
      /\ UNCHANGED <<mirror, pusher, held, disturbed, deaths>>
      /\ Becomes(a, NoPull) /\ output' = [output EXCEPT ![a] = pull[a].signature]
      /\ held' = [held EXCEPT ![a] = @ \cup {}] /\ disturbed' \subseteq Archive
      /\ deaths' \in 0..MaxDeaths
  BY SameHeld DEF FinishPull, Returns, TypeOK
<1>2. pull[a].signature \in 0..MaxSignatures
  BY <1>1, PullStates
<1>3. pull'[a].pc = "idle" /\ output'[a] = pull[a].signature /\ held' = held
  BY <1>1 DEF Becomes, TypeOK, NoPull
<1>4. a \notin disturbed => PullInv(a)'
  <2> SUFFICES ASSUME a \notin disturbed PROVE PullInv(a)'
    OBVIOUS
  <2>1. 1..pull[a].signature \subseteq held[a] /\ Misses(a, 1..pull[a].signature)
    BY <1>1 DEF Undisturbed, PullInv, Below
  <2>2. Misses(a, {})
    <3> SUFFICES ASSUME NEW n \in held[a] PROVE 1..n \subseteq held[a]
      BY DEF Misses
    <3>1. CASE n \in 1..pull[a].signature
      BY <1>2, <2>1, <3>1, BoundsAssumption
    <3>2. CASE n \notin 1..pull[a].signature
      BY <2>1, <3>2 DEF Misses
    <3>3. QED
      BY <3>1, <3>2
  <2>3. QED
    BY <1>3, <2>1, <2>2 DEF PullInv, Misses
<1>5. NoPull \in PullState
  BY DEF PullState
<1>6. QED
  BY <1>1, <1>2, <1>4, <1>5, SameHeld, PullStepKeeps

LEMMA PullDiesKeeps == ASSUME Inv, NEW a \in Archive, PullDies(a) PROVE Inv'
<1> USE DEF Inv
<1> DEFINE b == IF pull[a].pc = "import" THEN main
                ELSE IF pull[a].pc = "chain" /\ pull[a].left # <<>>
                THEN saved[Head(pull[a].left)]
                ELSE Torn
           objects == IF b \in Bundle THEN b.objects ELSE {}
<1>1. /\ deaths < MaxDeaths /\ deaths' = deaths + 1 /\ Becomes(a, NoPull)
      /\ disturbed' = disturbed \cup {a} /\ UNCHANGED <<mirror, pusher, output>>
  BY DEF PullDies
<1>2. PICK part \in SUBSET objects : held' = [held EXCEPT ![a] = @ \cup part]
  BY DEF PullDies
<1>3. objects \subseteq Signature
  BY BundleFields
<1>4. part \in SUBSET Signature
  BY <1>2, <1>3
<1>5. output' = [output EXCEPT ![a] = output[a]] /\ NoPull \in PullState
  BY <1>1, SameHeld DEF PullState
<1>6. deaths' \in 0..MaxDeaths /\ disturbed' \subseteq Archive
  BY <1>1, BoundsAssumption DEF TypeOK
<1>7. QED
  BY <1>1, <1>2, <1>4, <1>5, <1>6, SameHeld, PullStepKeeps

-----------------------------------------------------------------------------
(***************************************************************************)
(* The theorems.                                                           *)
(***************************************************************************)
LEMMA InvInitially == Init => Inv
<1> SUFFICES ASSUME Init PROVE Inv
  OBVIOUS
<1>1. main \notin Bundle
  BY SpecialFiles DEF Init
<1>2. TypeOK
  BY BoundsAssumption DEF Init, TypeOK, PushState, PullState
<1>3. PushInv /\ MainInv
  BY <1>1 DEF Init, PushInv, MainInv, NoPush
<1>4. Undisturbed
  BY DEF Init, Undisturbed, PullInv, Misses, NoPull
<1>5. QED
  BY <1>2, <1>3, <1>4 DEF Inv

LEMMA InvKept == ASSUME NumbersSort PROVE Inv /\ [Next]_vars => Inv'
<1> SUFFICES ASSUME Inv, [Next]_vars PROVE Inv'
  OBVIOUS
<1>1. CASE Push
  BY <1>1, BeginPushKeeps, MoveMainKeeps, MoveTornKeeps, BeginExportKeeps, FinishExportKeeps
     DEF Push
<1>2. CASE PushDies
  BY <1>2, PushDiesKeeps
<1>3. ASSUME NEW a \in Archive, Pull(a) PROVE Inv'
  BY <1>3, BeginPullKeeps, ImportMainKeeps, ReadSignatureKeeps, ReadPreviousKeeps,
     ImportPreviousKeeps, FinishPullKeeps DEF Pull
<1>4. ASSUME NEW a \in Archive, PullDies(a) PROVE Inv'
  BY <1>4, PullDiesKeeps
<1>5. CASE UNCHANGED vars
  <2>1. UNCHANGED <<mirror, pusher, puller, disturbed, deaths>>
    BY <1>5 DEF vars
  <2>2. pushed \in Nat
    BY BoundsAssumption DEF Inv, TypeOK
  <2>3. MainInv' /\ Undisturbed'
    BY <2>1, <2>2, MainStays, NothingDisturbed DEF Inv, pusher
  <2>4. TypeOK'
    BY <2>1 DEF Inv, TypeOK, mirror, pusher, puller
  <2>5. PushInv'
    BY <2>1 DEF Inv, PushInv, Follows, Leads, Ordered, Below, Holds, mirror, pusher
  <2>6. QED
    BY <2>3, <2>4, <2>5 DEF Inv
<1>6. QED
  BY <1>1, <1>2, <1>3, <1>4, <1>5 DEF Next

\* The state of the mirror and of the commands is well-typed: no push uses a number
\* for which there is no bundle, as long as the numbers sort as they count.
THEOREM TypeCorrect == ASSUME NumbersSort PROVE Spec => []TypeOK
<1>1. Inv => TypeOK
  BY DEF Inv
<1>2. QED
  BY <1>1, InvInitially, InvKept, PTL DEF Spec

\* The main bundle always leads to all that belongs to its signature, wherever a push
\* dies: what a bundle excludes is in one of those it lists.
THEOREM MirrorComplete == ASSUME NumbersSort PROVE Spec => []MirrorIsComplete
<1>1. Inv => MirrorIsComplete
  <2> SUFFICES ASSUME Inv, main \in Bundle
               PROVE  Chain \subseteq Bundle
                      /\ 1..main.signature \subseteq UNION {b.objects : b \in Chain}
    BY DEF MirrorIsComplete
  <2>1. Holds(main, main.exclude) /\ Follows(main.signature, main.exclude, main.previous)
    BY DEF Inv, MainInv
  <2>2. /\ 1..main.signature = main.objects \cup main.exclude
        /\ {saved[n] : n \in Range(main.previous)} \subseteq Bundle
        /\ main.exclude \subseteq UNION {saved[n].objects : n \in Range(main.previous)}
    BY <2>1, FollowsComplete
  <2>3. QED
    BY <2>2 DEF Chain
<1>2. QED
  BY <1>1, InvInitially, InvKept, PTL DEF Spec

\* What a pull answers comes with all that belongs to it, in every archive of which no
\* pull has died or met a push, for any number of archives: stopping at the first
\* bundle with nothing new loses nothing there.
THEOREM PulledComplete == ASSUME NumbersSort PROVE Spec => []PulledIsComplete
<1>1. Inv => PulledIsComplete
  BY DEF Inv, Undisturbed, PullInv, PulledIsComplete
<1>2. QED
  BY <1>1, InvInitially, InvKept, PTL DEF Spec
=============================================================================
