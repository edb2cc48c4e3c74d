---------------------------- MODULE BundleProofs ----------------------------
(***************************************************************************)
(* What holds of every export, for any graph of objects, any archive and   *)
(* any flags: the bundle has nothing but what is asked for, once; all of   *)
(* it when the export reports success; and an export fails only because    *)
(* something is missing.                                                   *)
(***************************************************************************)
EXTENDS Bundle, SequenceTheorems, TLAPS

-----------------------------------------------------------------------------
(***************************************************************************)
(* The stack of calls.                                                     *)
(***************************************************************************)
\* What a call of AddFile is when it begins.
Called(h) == [snapshot |-> h, at |-> "snapshot", children |-> {}, parents |-> Parents[h]]

LEMMA RangeOfStack ==
    ASSUME NEW S, NEW s \in Seq(S)
    PROVE  /\ Len(s) \in Nat /\ DOMAIN s = 1..Len(s)
           /\ Range(s) \subseteq S
           /\ \A x : x \in Range(s) <=> \E i \in 1..Len(s) : x = s[i]
<1>1. Len(s) \in Nat /\ DOMAIN s = 1..Len(s) /\ s \in [1..Len(s) -> S]
  BY LenProperties
<1>2. QED
  BY <1>1 DEF Range

LEMMA TopOfStack ==
    ASSUME NEW s \in Seq(Frame), s # <<>>
    PROVE  /\ Len(s) \in Nat \ {0} /\ s[Len(s)] \in Frame /\ s[Len(s)] \in Range(s)
           /\ s[Len(s)].snapshot \in Snapshot
           /\ s[Len(s)].children \subseteq Snapshot
           /\ s[Len(s)].parents \in Seq(Snapshot)
<1>1. Len(s) \in Nat \ {0}
  BY EmptySeq
<1>2. s[Len(s)] \in Frame
  BY <1>1, ElementOfSeq
<1>3. s[Len(s)] \in Range(s)
  BY <1>1, RangeOfStack
<1>4. QED
  BY <1>1, <1>2, <1>3 DEF Frame

LEMMA Resuming ==
    ASSUME stack \in Seq(Frame), stack # <<>>, NEW f \in Frame
    PROVE  /\ Resume(f) \in Seq(Frame) /\ Len(Resume(f)) = Len(stack)
           /\ \A i \in 1..Len(stack) :
                 Resume(f)[i] = IF i = Len(stack) THEN f ELSE stack[i]
           /\ Range(Resume(f)) \subseteq Range(stack) \cup {f}
<1>1. Len(stack) \in 1..Len(stack)
  BY TopOfStack
<1>2. /\ Resume(f) \in Seq(Frame) /\ Len(Resume(f)) = Len(stack)
      /\ \A i \in 1..Len(stack) : Resume(f)[i] = IF i = Len(stack) THEN f ELSE stack[i]
  BY <1>1, ExceptSeq DEF Resume
<1>3. Range(Resume(f)) \subseteq Range(stack) \cup {f}
  <2> SUFFICES ASSUME NEW x \in Range(Resume(f)), x # f PROVE x \in Range(stack)
    OBVIOUS
  <2>1. PICK i \in 1..Len(stack) : x = Resume(f)[i]
    BY <1>2, RangeOfStack
  <2>2. QED
    BY <1>2, <2>1, RangeOfStack
<1>4. QED
  BY <1>2, <1>3

LEMMA Calling ==
    ASSUME NEW s \in Seq(Frame), NEW h \in Snapshot
    PROVE  /\ Call(h, s) \in Seq(Frame) /\ Len(Call(h, s)) = Len(s) + 1
           /\ Call(h, s) # <<>>
           /\ \A i \in 1..Len(s) : Call(h, s)[i] = s[i]
           /\ Call(h, s)[Len(s) + 1] = Called(h)
           /\ Range(Call(h, s)) \subseteq Range(s) \cup {Called(h)}
<1>1. Called(h) \in Frame
  BY GraphAssumption DEF Called, Frame
<1>2. Call(h, s) = Append(s, Called(h))
  BY DEF Call, Called
<1>3. /\ Call(h, s) \in Seq(Frame) /\ Len(Call(h, s)) = Len(s) + 1
      /\ Call(h, s) # <<>>
      /\ \A i \in 1..Len(s) : Call(h, s)[i] = s[i]
      /\ Call(h, s)[Len(s) + 1] = Called(h)
  BY <1>1, <1>2, AppendProperties
<1>4. Range(Call(h, s)) \subseteq Range(s) \cup {Called(h)}
  <2> SUFFICES ASSUME NEW x \in Range(Call(h, s)), x # Called(h) PROVE x \in Range(s)
    OBVIOUS
  <2>1. PICK i \in 1..(Len(s) + 1) : x = Call(h, s)[i]
    BY <1>3, RangeOfStack
  <2>2. Len(s) \in Nat
    BY RangeOfStack
  <2>3. i \in 1..Len(s)
    BY <1>3, <2>1, <2>2
  <2>4. QED
    BY <1>3, <2>1, <2>3, RangeOfStack
<1>5. QED
  BY <1>3, <1>4

LEMMA HeadAndTail ==
    ASSUME NEW S, NEW s \in Seq(S), s # <<>>
    PROVE  /\ Head(s) \in S /\ Tail(s) \in Seq(S)
           /\ Range(s) = {Head(s)} \cup Range(Tail(s))
<1>1. /\ Head(s) \in S /\ Tail(s) \in Seq(S)
      /\ Len(Tail(s)) = Len(s) - 1
      /\ \A i \in 1..Len(Tail(s)) : Tail(s)[i] = s[i + 1]
  BY HeadTailProperties
<1>2. Len(s) \in Nat \ {0} /\ Head(s) = s[1]
  BY EmptySeq
<1>3. Head(s) \in Range(s)
  BY <1>2, RangeOfStack
<1>4. ASSUME NEW x \in Range(Tail(s)) PROVE x \in Range(s)
  <2>1. PICK i \in DOMAIN Tail(s) : x = Tail(s)[i]
    BY <1>4 DEF Range
  <2>2. i \in 1..Len(Tail(s))
    BY <1>1, <2>1, RangeOfStack
  <2>3. i + 1 \in 1..Len(s) /\ x = s[i + 1]
    BY <1>1, <1>2, <2>1, <2>2
  <2>4. QED
    BY <2>3, RangeOfStack
<1>5. ASSUME NEW x \in Range(s), x # Head(s) PROVE x \in Range(Tail(s))
  <2>1. PICK i \in 1..Len(s) : x = s[i]
    BY <1>5, RangeOfStack
  <2>2. i - 1 \in 1..Len(Tail(s)) /\ x = Tail(s)[i - 1]
    BY <1>1, <1>2, <1>5, <2>1
  <2>3. i - 1 \in DOMAIN Tail(s)
    BY <1>1, <2>2, RangeOfStack
  <2>4. QED
    BY <2>2, <2>3 DEF Range
<1>6. QED
  BY <1>1, <1>3, <1>4, <1>5

LEMMA Cutting ==
    ASSUME NEW S, NEW s \in Seq(S), NEW n \in 0..Len(s)
    PROVE  /\ SubSeq(s, 1, n) \in Seq(S) /\ Len(SubSeq(s, 1, n)) = n
           /\ \A i \in 1..n : SubSeq(s, 1, n)[i] = s[i]
           /\ Range(SubSeq(s, 1, n)) \subseteq Range(s)
<1>1. Len(s) \in Nat /\ n \in Int
  BY RangeOfStack
<1>2. \A i \in 1..n : s[i] \in S
  BY <1>1, ElementOfSeq
<1>3. /\ SubSeq(s, 1, n) \in Seq(S)
      /\ Len(SubSeq(s, 1, n)) = IF 1 <= n THEN n - 1 + 1 ELSE 0
      /\ \A i \in 1..(n - 1 + 1) : SubSeq(s, 1, n)[i] = s[1 + i - 1]
  BY <1>1, <1>2, SubSeqProperties
<1>4. Len(SubSeq(s, 1, n)) = n /\ \A i \in 1..n : SubSeq(s, 1, n)[i] = s[i]
  BY <1>1, <1>3
<1>5. Range(SubSeq(s, 1, n)) \subseteq Range(s)
  <2> SUFFICES ASSUME NEW x \in Range(SubSeq(s, 1, n)) PROVE x \in Range(s)
    OBVIOUS
  <2>1. PICK i \in 1..Len(SubSeq(s, 1, n)) : x = SubSeq(s, 1, n)[i]
    BY <1>3, RangeOfStack
  <2>2. i \in 1..Len(s) /\ x = s[i]
    BY <1>1, <1>4, <2>1
  <2>3. QED
    BY <2>2, RangeOfStack
<1>6. QED
  BY <1>3, <1>4, <1>5

\* An error ends calls, and the export unless it is caught.
LEMMA Raising ==
    ASSUME stack \in Seq(Frame), Raise
    PROVE  /\ stack' \in Seq(Frame) /\ Len(stack') <= Len(stack)
           /\ \A i \in 1..Len(stack') : stack'[i] = stack[i]
           /\ Range(stack') \subseteq Range(stack)
           /\ export' = "failing" \/ UNCHANGED export
           /\ Catchers = {} => export' = "failing"
<1>1. CASE Catchers = {}
  <2>1. stack' = <<>> /\ export' = "failing"
    BY <1>1 DEF Raise
  <2>2. Len(<<>>) = 0 /\ <<>> \in Seq(Frame) /\ Len(stack) \in Nat
    BY EmptySeq, RangeOfStack
  <2>3. Range(<<>>) = {}
    BY DEF Range
  <2>4. QED
    BY <2>1, <2>2, <2>3
<1>2. CASE Catchers # {}
  <2>1. PICK i \in Catchers : stack' = SubSeq(stack, 1, i - 1)
    BY <1>2 DEF Raise
  <2>2. i - 1 \in 0..Len(stack) /\ Len(stack) \in Nat
    BY <2>1, RangeOfStack DEF Catchers
  <2>3. QED
    BY <1>2, <2>1, <2>2, Cutting DEF Raise
<1>3. QED
  BY <1>1, <1>2

-----------------------------------------------------------------------------
(***************************************************************************)
(* What is asked for.                                                      *)
(***************************************************************************)
LEMMA Relatives ==
    ASSUME NEW h \in Snapshot
    PROVE  /\ Children(h) \subseteq Snapshot
           /\ Before(h) \subseteq Snapshot
           /\ Contents[h] \in (Object \ Snapshot) \cup {None}
           /\ Parents[h] \in Seq(Snapshot)
<1>1. Contents[h] \in (Object \ Snapshot) \cup {None} /\ Parents[h] \in Seq(Snapshot)
  BY GraphAssumption
<1>2. Children(h) \subseteq Snapshot
  BY <1>1, GraphAssumption DEF Children
<1>3. Before(h) \subseteq Snapshot
  BY <1>1, RangeOfStack DEF Before
<1>4. QED
  BY <1>1, <1>2, <1>3

\* What an order reaches is the least set that is closed in the way of Reaches.
LEMMA ReachedIsClosed ==
    ASSUME NEW o \in Order
    PROVE  Reached(o) \subseteq Snapshot /\ Reaches(o, Reached(o))
<1>1. Reached(o) \subseteq Snapshot
  BY DEF Reached
<1>2. Range(o.snapshots) \subseteq Reached(o)
  <2>1. Range(o.snapshots) \subseteq Snapshot
    BY RangeOfStack DEF Order
  <2>2. QED
    BY <2>1 DEF Reached, Reaches
<1>3. ASSUME NEW h \in Reached(o), NEW g \in Children(h) \ o.exclude PROVE g \in Reached(o)
  <2>1. h \in Snapshot /\ g \in Snapshot
    BY <1>1, <1>3, Relatives
  <2>2. ASSUME NEW S \in SUBSET Snapshot, Reaches(o, S) PROVE g \in S
    BY <1>3, <2>2 DEF Reached, Reaches
  <2>3. QED
    BY <2>1, <2>2 DEF Reached
<1>4. ASSUME o.recurseParents, NEW h \in Reached(o), NEW g \in Before(h)
      PROVE  g \in Reached(o)
  <2>1. h \in Snapshot /\ g \in Snapshot
    BY <1>1, <1>4, Relatives
  <2>2. ASSUME NEW S \in SUBSET Snapshot, Reaches(o, S) PROVE g \in S
    BY <1>4, <2>2 DEF Reached, Reaches
  <2>3. QED
    BY <2>1, <2>2 DEF Reached
<1>5. QED
  BY <1>1, <1>2, <1>3, <1>4 DEF Reaches

LEMMA ReachedIsLeast ==
    ASSUME NEW o, NEW S \in SUBSET Snapshot, Reaches(o, S)
    PROVE  Reached(o) \subseteq S
BY DEF Reached

-----------------------------------------------------------------------------
(***************************************************************************)
(* The inductive invariant: calls are made only for what is asked for.     *)
(***************************************************************************)
FrameIsAsked(f) ==
    /\ f.snapshot \in Reached(order)
    /\ f.children \subseteq Children(f.snapshot)
    /\ Range(f.parents) \subseteq Before(f.snapshot)
    /\ f.at = "tree" => Contents[f.snapshot] # None /\ f.snapshot \in Dir

CallsAreAsked ==
    /\ Range(queue) \subseteq Reached(order)
    /\ \A f \in Range(stack) : FrameIsAsked(f)

EntriesAreAsked ==
    /\ \A i \in DOMAIN entries :
          \E o \in visited \cap Asked(order) : entries[i].objects = <<o>>
    /\ \A i, j \in DOMAIN entries : entries[i].objects = entries[j].objects => i = j

ImportFollows ==
    import = "running" => file # <<>> /\ export \in {"ok", "failed", "died"}

Inv ==
    /\ TypeOK
    /\ ImportFollows
    /\ CallsAreAsked
    /\ EntriesAreAsked
    /\ FailsOnlyWhenIncomplete

LEMMA StartIsAsked ==
    ASSUME NEW o \in Order, order = o, queue = o.snapshots, stack = <<>>, entries = <<>>
    PROVE  CallsAreAsked /\ EntriesAreAsked
<1>1. Range(queue) \subseteq Reached(order)
  BY ReachedIsClosed DEF Reaches
<1>2. Range(<<>>) = {} /\ DOMAIN <<>> = {}
  BY DEF Range
<1>3. QED
  BY <1>1, <1>2 DEF CallsAreAsked, EntriesAreAsked

LEMMA InvInitially == Init => Inv
<1> SUFFICES ASSUME Init PROVE Inv
  OBVIOUS
<1>1. order \in Order /\ queue = order.snapshots /\ stack = <<>> /\ entries = <<>>
  BY OrdersAssumption DEF Init
<1>2. CallsAreAsked /\ EntriesAreAsked
  BY <1>1, StartIsAsked
<1>3. TypeOK
  BY <1>1, EmptySeq DEF TypeOK, Init, Order
<1>4. QED
  BY <1>2, <1>3 DEF Inv, Init, ImportFollows, FailsOnlyWhenIncomplete

\* What the code may have to read: the snapshots reached and their contents.
LEMMA MayBeRead ==
    ASSUME NEW h \in Reached(order)
    PROVE  /\ h \in WithContents(Reached(order))
           /\ Contents[h] # None => Contents[h] \in WithContents(Reached(order))
BY DEF WithContents

\* A step of AddFile that calls nothing and adds nothing.
LEMMA StackKeeps ==
    ASSUME Inv, export = "running",
           stack' \in Seq(Frame),
           \A f \in Range(stack') : f \in Range(stack) \/ FrameIsAsked(f),
           UNCHANGED <<order, queue, visited, entries, exports, file, importer, crashes>>,
           export' \in {"running", "failing"},
           export' = "failing" => ~IsComplete(order)
    PROVE  Inv'
<1>1. CallsAreAsked'
  BY DEF Inv, CallsAreAsked, FrameIsAsked
<1>2. EntriesAreAsked'
  BY DEF Inv, EntriesAreAsked
<1>3. TypeOK' /\ ImportFollows'
  BY DEF Inv, TypeOK, ImportFollows, importer
<1>4. FailsOnlyWhenIncomplete'
  BY DEF Inv, FailsOnlyWhenIncomplete
<1>5. QED
  BY <1>1, <1>2, <1>3, <1>4 DEF Inv

\* The two outcomes for the stack: it goes on, or an error ends calls.
LEMMA StackAfter ==
    ASSUME Inv, stack # <<>>, NEW f \in Frame, FrameIsAsked(f), UNCHANGED order,
           stack' = Resume(f) \/ Raise
    PROVE  /\ stack' \in Seq(Frame)
           /\ \A g \in Range(stack') : g \in Range(stack) \/ FrameIsAsked(g)
<1>1. stack \in Seq(Frame)
  BY DEF Inv, TypeOK
<1>2. CASE stack' = Resume(f)
  <2>1. stack' \in Seq(Frame) /\ Range(stack') \subseteq Range(stack) \cup {f}
    BY <1>1, <1>2, Resuming
  <2>2. QED
    BY <2>1
<1>3. CASE Raise
  <2>1. stack' \in Seq(Frame) /\ Range(stack') \subseteq Range(stack)
    BY <1>1, <1>3, Raising
  <2>2. QED
    BY <2>1
<1>4. QED
  BY <1>2, <1>3

\* An entry for an object that is asked for and has not been visited.
LEMMA EntryKeeps ==
    ASSUME TypeOK, EntriesAreAsked, NEW o \in Object, NEW whole \in BOOLEAN,
           o \in WithContents(Reached(order)), o \notin order.exclude \cup visited,
           UNCHANGED order, visited' = visited \cup {o},
           entries' = Append(entries, Entry(o, whole)) \/ UNCHANGED entries
    PROVE  EntriesAreAsked' /\ entries' \in Seq(Block)
<1>1. o \in Asked(order)
  BY DEF Asked
<1>2. CASE UNCHANGED entries
  BY <1>2 DEF TypeOK, EntriesAreAsked
<1>3. CASE entries' = Append(entries, Entry(o, whole))
  <2>1. Entry(o, whole) \in Block /\ Entry(o, whole).objects = <<o>>
    <3>1. <<o>> \in Seq(Object)
      OBVIOUS
    <3>2. QED
      BY <3>1 DEF Entry, Block
  <2>2. entries \in Seq(Block)
    BY DEF TypeOK
  <2>3. /\ entries' \in Seq(Block) /\ Len(entries') = Len(entries) + 1
        /\ \A i \in 1..Len(entries) : entries'[i] = entries[i]
        /\ entries'[Len(entries) + 1] = Entry(o, whole)
    BY <1>3, <2>1, <2>2, AppendProperties
  <2>4. /\ Len(entries) \in Nat /\ DOMAIN entries = 1..Len(entries)
        /\ DOMAIN entries' = 1..(Len(entries) + 1)
    BY <2>2, <2>3, RangeOfStack
  <2>5. \A i \in 1..Len(entries) :
           \E x \in visited \cap Asked(order) : entries'[i].objects = <<x>>
    BY <2>3, <2>4 DEF EntriesAreAsked
  <2>6. \A i \in 1..(Len(entries) + 1) : i \in 1..Len(entries) \/ i = Len(entries) + 1
    BY <2>4
  <2>7. \A i \in DOMAIN entries' :
           \E x \in visited' \cap Asked(order) : entries'[i].objects = <<x>>
    BY <1>1, <2>1, <2>3, <2>4, <2>5, <2>6
  <2>8. \A i \in 1..Len(entries) : entries'[i].objects # <<o>>
    <3> SUFFICES ASSUME NEW i \in 1..Len(entries), entries'[i].objects = <<o>> PROVE FALSE
      OBVIOUS
    <3>1. PICK x \in visited : <<o>> = <<x>>
      BY <2>5
    <3>2. o = x
      BY <3>1
    <3>3. QED
      BY <3>1, <3>2
  <2>9. \A i, j \in DOMAIN entries' : entries'[i].objects = entries'[j].objects => i = j
    <3> SUFFICES ASSUME NEW i \in DOMAIN entries', NEW j \in DOMAIN entries',
                        entries'[i].objects = entries'[j].objects
                 PROVE  i = j
      OBVIOUS
    <3>1. CASE i \in 1..Len(entries) /\ j \in 1..Len(entries)
      BY <2>3, <2>4, <3>1 DEF EntriesAreAsked
    <3>2. CASE i \in 1..Len(entries) /\ j = Len(entries) + 1
      BY <2>1, <2>3, <2>8, <3>2
    <3>3. CASE i = Len(entries) + 1 /\ j \in 1..Len(entries)
      BY <2>1, <2>3, <2>8, <3>3
    <3>4. QED
      BY <2>4, <2>6, <3>1, <3>2, <3>3
  <2>10. QED
    BY <2>3, <2>7, <2>9 DEF EntriesAreAsked
<1>4. QED
  BY <1>2, <1>3

LEMMA AddObjectKeeps ==
    ASSUME Inv, export = "running", stack # <<>>,
           NEW o \in Object, o \in WithContents(Reached(order)),
           NEW f \in Frame, FrameIsAsked(f), AddObject(o, f),
           UNCHANGED <<order, queue, exports, file, importer, crashes>>
    PROVE  Inv'
<1>1. stack' = Resume(f) \/ Raise
  BY DEF AddObject
<1>2. /\ stack' \in Seq(Frame)
      /\ \A g \in Range(stack') : g \in Range(stack) \/ FrameIsAsked(g)
  BY <1>1, StackAfter
<1>3. export' \in {"running", "failing"} /\ (export' = "failing" => ~IsComplete(order))
  <2>1. CASE export' = "running"
    BY <2>1
  <2>2. CASE export' # "running"
    <3>1. Raise /\ o \notin Whole
      BY <2>2 DEF AddObject
    <3>2. export' = "failing"
      BY <2>2, <3>1 DEF Raise
    <3>3. QED
      BY <3>1, <3>2 DEF IsComplete, Whole
  <2>3. QED
    BY <2>1, <2>2
<1>4. CASE o \in order.exclude \cup visited
  <2>1. UNCHANGED <<visited, entries>>
    BY <1>4 DEF AddObject
  <2>2. QED
    BY <1>2, <1>3, <2>1, StackKeeps
<1>5. CASE o \notin order.exclude \cup visited
  <2>1. visited' = visited \cup {o}
    BY <1>5 DEF AddObject
  <2>2. PICK whole \in BOOLEAN :
             entries' = Append(entries, Entry(o, whole)) \/ UNCHANGED entries
    <3>1. (o \in Whole) \in BOOLEAN
      OBVIOUS
    <3>2. entries' = Append(entries, Entry(o, o \in Whole)) \/ UNCHANGED entries
      BY <1>5 DEF AddObject
    <3>3. QED
      BY <3>1, <3>2
  <2>3. EntriesAreAsked' /\ entries' \in Seq(Block)
    BY <1>5, <2>1, <2>2, EntryKeeps DEF Inv
  <2>4. CallsAreAsked'
    BY <1>2 DEF Inv, CallsAreAsked, FrameIsAsked
  <2>5. TypeOK' /\ ImportFollows'
    BY <1>2, <1>3, <2>1, <2>3 DEF Inv, TypeOK, ImportFollows, importer
  <2>6. FailsOnlyWhenIncomplete'
    BY <1>3 DEF FailsOnlyWhenIncomplete
  <2>7. QED
    BY <2>3, <2>4, <2>5, <2>6 DEF Inv
<1>6. QED
  BY <1>4, <1>5

-----------------------------------------------------------------------------
(***************************************************************************)
(* Every step of an export and of an import keeps the invariant.           *)
(***************************************************************************)
\* The call that is under way.
LEMMA Under ==
    ASSUME Inv, NEW at, Running(at)
    PROVE  /\ export = "running" /\ stack # <<>> /\ stack \in Seq(Frame) /\ Top.at = at
           /\ Top \in Frame /\ Top \in Range(stack) /\ FrameIsAsked(Top)
           /\ Top.snapshot \in Reached(order) /\ Top.snapshot \in Snapshot
           /\ Top.parents \in Seq(Snapshot)
<1>1. export = "running" /\ stack # <<>> /\ Top.at = at /\ stack \in Seq(Frame)
  BY DEF Running, Inv, TypeOK
<1>2. /\ Top \in Frame /\ Top \in Range(stack)
      /\ Top.snapshot \in Snapshot /\ Top.parents \in Seq(Snapshot)
  BY <1>1, TopOfStack DEF Top
<1>3. FrameIsAsked(Top)
  BY <1>2 DEF Inv, CallsAreAsked
<1>4. QED
  BY <1>1, <1>2, <1>3 DEF FrameIsAsked

\* A new call is for a snapshot that is asked for.
LEMMA CalledIsAsked ==
    ASSUME NEW h \in Reached(order), h \in Snapshot
    PROVE  FrameIsAsked(Called(h))
BY DEF FrameIsAsked, Called, Before

LEMMA AddNextKeeps == ASSUME Inv, AddNext PROVE Inv'
<1>1. /\ queue \in Seq(Snapshot) /\ queue # <<>> /\ stack = <<>> /\ stack \in Seq(Frame)
      /\ order \in Order /\ queue' = Tail(queue) /\ order' = order
  BY DEF Inv, TypeOK, AddNext
<1>2. Head(queue) \in Range(queue) /\ Range(Tail(queue)) \subseteq Range(queue)
      /\ Head(queue) \in Snapshot /\ Tail(queue) \in Seq(Snapshot)
  BY <1>1, HeadAndTail
<1>3. Head(queue) \in Reached(order)
  BY <1>2 DEF Inv, CallsAreAsked
<1>4. /\ stack' \in Seq(Frame)
      /\ \A f \in Range(stack') : f \in Range(stack) \/ FrameIsAsked(f)
  <2>1. CASE Head(queue) \in Whole
    <3>1. stack' = Call(Head(queue), <<>>) /\ <<>> \in Seq(Frame)
      BY <1>1, <2>1 DEF AddNext
    <3>2. stack' \in Seq(Frame) /\ Range(stack') \subseteq Range(stack) \cup {Called(Head(queue))}
      BY <1>1, <1>2, <3>1, Calling
    <3>3. QED
      BY <1>2, <1>3, <3>2, CalledIsAsked
  <2>2. CASE Head(queue) \notin Whole
    BY <1>1, <2>2 DEF AddNext
  <2>3. QED
    BY <2>1, <2>2
<1>5. export' \in {"running", "failing"} /\ (export' = "failing" => ~IsComplete(order))
  <2>1. CASE Head(queue) \in Whole
    BY <2>1 DEF AddNext
  <2>2. CASE Head(queue) \notin Whole
    BY <1>3, <2>2, MayBeRead DEF AddNext, IsComplete, Whole
  <2>3. QED
    BY <2>1, <2>2
<1>6. CallsAreAsked'
  BY <1>1, <1>2, <1>4 DEF Inv, CallsAreAsked, FrameIsAsked
<1>7. EntriesAreAsked' /\ FailsOnlyWhenIncomplete'
  BY <1>5 DEF Inv, EntriesAreAsked, FailsOnlyWhenIncomplete, AddNext
<1>8. TypeOK' /\ ImportFollows'
  BY <1>2, <1>4, <1>5 DEF Inv, TypeOK, ImportFollows, importer, AddNext
<1>9. QED
  BY <1>6, <1>7, <1>8 DEF Inv

LEMMA AddSnapshotKeeps == ASSUME Inv, AddSnapshot PROVE Inv'
<1> DEFINE f == [Top EXCEPT !.at = "contents"]
<1>1. /\ export = "running" /\ stack # <<>> /\ Top \in Frame
      /\ FrameIsAsked(Top) /\ Top.snapshot \in Reached(order) /\ Top.snapshot \in Snapshot
  BY Under DEF AddSnapshot
<1>2. f \in Frame /\ FrameIsAsked(f)
  BY <1>1 DEF Frame, FrameIsAsked
<1>3. Top.snapshot \in Object /\ Top.snapshot \in WithContents(Reached(order))
  BY <1>1, MayBeRead, GraphAssumption
<1>4. AddObject(Top.snapshot, f) /\ UNCHANGED <<order, queue, exports, file, importer, crashes>>
  BY DEF AddSnapshot
<1> HIDE DEF f
<1>5. QED
  BY <1>1, <1>2, <1>3, <1>4, AddObjectKeeps

LEMMA AddContentsKeeps == ASSUME Inv, AddContents PROVE Inv'
<1> DEFINE c == Contents[Top.snapshot]
           after == IF c # None /\ Top.snapshot \in Dir THEN "tree" ELSE "parents"
           f == [Top EXCEPT !.at = after]
<1>1. /\ export = "running" /\ stack # <<>> /\ Top \in Frame
      /\ FrameIsAsked(Top) /\ Top.snapshot \in Reached(order) /\ Top.snapshot \in Snapshot
  BY Under DEF AddContents
<1>2. f \in Frame /\ FrameIsAsked(f)
  BY <1>1 DEF Frame, FrameIsAsked
<1>3. UNCHANGED <<order, queue, exports, file, importer, crashes>>
  BY DEF AddContents
<1>4. CASE c = None
  <2>1. stack' = Resume(f) /\ UNCHANGED <<visited, entries, export>>
    BY <1>4 DEF AddContents
  <2> HIDE DEF f
  <2>2. /\ stack' \in Seq(Frame)
        /\ \A g \in Range(stack') : g \in Range(stack) \/ FrameIsAsked(g)
    BY <1>1, <1>2, <1>3, <2>1, StackAfter
  <2>3. QED
    BY <1>1, <1>3, <2>1, <2>2, StackKeeps
<1>5. CASE c # None
  <2>1. AddObject(c, f)
    BY <1>5 DEF AddContents
  <2>2. c \in Object /\ c \in WithContents(Reached(order))
    BY <1>1, <1>5, MayBeRead, GraphAssumption
  <2> HIDE DEF c, f
  <2>3. QED
    BY <1>1, <1>2, <1>3, <2>1, <2>2, AddObjectKeeps
<1>6. QED
  BY <1>4, <1>5

LEMMA ReadTreeKeeps == ASSUME Inv, ReadTree PROVE Inv'
<1> DEFINE c == Contents[Top.snapshot]
           f == [Top EXCEPT !.at = "children", !.children = Tree[c]]
<1>1. /\ export = "running" /\ stack # <<>> /\ Top \in Frame /\ Top.at = "tree"
      /\ FrameIsAsked(Top) /\ Top.snapshot \in Reached(order) /\ Top.snapshot \in Snapshot
  BY Under DEF ReadTree
<1>2. c # None /\ Top.snapshot \in Dir /\ c \in WithContents(Reached(order))
  BY <1>1, MayBeRead DEF FrameIsAsked
<1>3. Tree[c] \subseteq Snapshot /\ Tree[c] = Children(Top.snapshot)
  BY <1>1, <1>2, GraphAssumption DEF Children
<1>4. f \in Frame /\ FrameIsAsked(f)
  BY <1>1, <1>3 DEF Frame, FrameIsAsked
<1>5. UNCHANGED <<order, queue, visited, entries, exports, file, importer, crashes>>
  BY DEF ReadTree
<1>6. stack' = Resume(f) \/ Raise
  BY DEF ReadTree
<1>7. export' \in {"running", "failing"} /\ (export' = "failing" => ~IsComplete(order))
  <2>1. CASE c \in Whole
    BY <1>1, <2>1 DEF ReadTree
  <2>2. CASE c \notin Whole
    <3>1. Raise /\ ~IsComplete(order)
      BY <1>2, <2>2 DEF ReadTree, IsComplete, Whole
    <3>2. QED
      BY <1>1, <3>1 DEF Raise
  <2>3. QED
    BY <2>1, <2>2
<1> HIDE DEF f
<1>8. /\ stack' \in Seq(Frame)
      /\ \A g \in Range(stack') : g \in Range(stack) \/ FrameIsAsked(g)
  BY <1>1, <1>4, <1>5, <1>6, StackAfter
<1>9. QED
  BY <1>1, <1>5, <1>7, <1>8, StackKeeps

\* A call for one of those that the call under way has left.
LEMMA CallingKeeps ==
    ASSUME Inv, stack # <<>>, NEW f \in Frame, FrameIsAsked(f),
           NEW h \in Reached(order), stack' = Call(h, Resume(f))
    PROVE  /\ stack' \in Seq(Frame)
           /\ \A g \in Range(stack') : g \in Range(stack) \/ FrameIsAsked(g)
<1>1. stack \in Seq(Frame) /\ h \in Snapshot
  BY ReachedIsClosed DEF Inv, TypeOK
<1>2. Resume(f) \in Seq(Frame) /\ Range(Resume(f)) \subseteq Range(stack) \cup {f}
  BY <1>1, Resuming
<1>3. stack' \in Seq(Frame) /\ Range(stack') \subseteq Range(Resume(f)) \cup {Called(h)}
  BY <1>1, <1>2, Calling
<1>4. FrameIsAsked(Called(h))
  BY <1>1, CalledIsAsked
<1>5. QED
  BY <1>2, <1>3, <1>4

LEMMA AddChildKeeps == ASSUME Inv, NEW h \in Snapshot, AddChild(h) PROVE Inv'
<1> DEFINE f == [Top EXCEPT !.children = @ \ {h}]
<1>1. /\ export = "running" /\ stack # <<>> /\ Top \in Frame /\ order \in Order
      /\ FrameIsAsked(Top) /\ Top.snapshot \in Reached(order) /\ Top.snapshot \in Snapshot
  BY Under DEF AddChild, Inv, TypeOK
<1>2. f \in Frame /\ FrameIsAsked(f)
  BY <1>1 DEF Frame, FrameIsAsked
<1>3. UNCHANGED <<order, queue, visited, entries, exports, file, importer, crashes>>
  BY DEF AddChild
<1>4. h \in Children(Top.snapshot)
  BY <1>1 DEF AddChild, FrameIsAsked
<1>5. CASE h \in order.exclude \cup visited
  <2>1. stack' = Resume(f) /\ UNCHANGED export
    BY <1>5 DEF AddChild
  <2> HIDE DEF f
  <2>2. QED
    BY <1>1, <1>2, <1>3, <2>1, StackAfter, StackKeeps
<1>6. CASE h \notin order.exclude \cup visited
  <2>1. h \in Reached(order)
    BY <1>1, <1>4, <1>6, ReachedIsClosed DEF Reaches
  <2>2. CASE h \in Whole
    <3>1. stack' = Call(h, Resume(f)) /\ UNCHANGED export
      BY <1>6, <2>2 DEF AddChild
    <3> HIDE DEF f
    <3>2. QED
      BY <1>1, <1>2, <1>3, <2>1, <3>1, CallingKeeps, StackKeeps
  <2>3. CASE h \notin Whole
    <3>1. Raise
      BY <1>6, <2>3 DEF AddChild
    <3>2. ~IsComplete(order) /\ export' \in {"running", "failing"}
      BY <1>1, <2>1, <2>3, <3>1, MayBeRead DEF IsComplete, Whole, Raise
    <3> HIDE DEF f
    <3>3. QED
      BY <1>1, <1>2, <1>3, <3>1, <3>2, StackAfter, StackKeeps
  <2>4. QED
    BY <2>2, <2>3
<1>7. QED
  BY <1>5, <1>6

LEMMA ChildrenAddedKeeps == ASSUME Inv, ChildrenAdded PROVE Inv'
<1> DEFINE f == [Top EXCEPT !.at = "parents"]
<1>1. /\ export = "running" /\ stack # <<>> /\ Top \in Frame /\ FrameIsAsked(Top)
  BY Under DEF ChildrenAdded
<1>2. f \in Frame /\ FrameIsAsked(f)
  BY <1>1 DEF Frame, FrameIsAsked
<1>3. /\ stack' = Resume(f)
      /\ UNCHANGED <<order, queue, visited, entries, export, exports, file, importer, crashes>>
  BY DEF ChildrenAdded
<1> HIDE DEF f
<1>4. QED
  BY <1>1, <1>2, <1>3, StackAfter, StackKeeps

LEMMA AddParentKeeps == ASSUME Inv, AddParent PROVE Inv'
<1> DEFINE f == [Top EXCEPT !.parents = Tail(@)]
           h == Head(Top.parents)
<1>1. /\ export = "running" /\ stack # <<>> /\ Top \in Frame /\ order \in Order
      /\ FrameIsAsked(Top) /\ Top.snapshot \in Reached(order)
      /\ Top.parents \in Seq(Snapshot) /\ Top.parents # <<>> /\ order.recurseParents
  BY Under DEF AddParent, Inv, TypeOK
<1>2. /\ Tail(Top.parents) \in Seq(Snapshot)
      /\ Range(Top.parents) = {h} \cup Range(Tail(Top.parents))
  BY <1>1, HeadAndTail
<1>3. f \in Frame
  BY <1>1, <1>2 DEF Frame
<1>4. FrameIsAsked(f)
  <2>1. /\ f.snapshot = Top.snapshot /\ f.children = Top.children /\ f.at = Top.at
        /\ f.parents = Tail(Top.parents)
    BY <1>1 DEF Frame
  <2>2. QED
    BY <1>1, <1>2, <2>1 DEF FrameIsAsked
<1>5. h \in Reached(order)
  BY <1>1, <1>2, ReachedIsClosed DEF FrameIsAsked, Reaches
<1>6. /\ stack' = IF h \in Whole THEN Call(h, Resume(f)) ELSE Resume(f)
      /\ UNCHANGED <<order, queue, visited, entries, export, exports, file, importer, crashes>>
  BY DEF AddParent
<1> HIDE DEF f, h
<1>7. /\ stack' \in Seq(Frame)
      /\ \A g \in Range(stack') : g \in Range(stack) \/ FrameIsAsked(g)
  BY <1>1, <1>3, <1>4, <1>5, <1>6, CallingKeeps, StackAfter
<1>8. QED
  BY <1>1, <1>6, <1>7, StackKeeps

LEMMA ReturnKeeps == ASSUME Inv, ReturnFromAddFile PROVE Inv'
<1>1. export = "running" /\ stack # <<>> /\ stack \in Seq(Frame)
  BY Under DEF ReturnFromAddFile
<1>2. Len(stack) \in Nat \ {0}
  BY <1>1, TopOfStack
<1>3. /\ stack' = SubSeq(stack, 1, Len(stack) - 1)
      /\ UNCHANGED <<order, queue, visited, entries, export, exports, file, importer, crashes>>
  BY DEF ReturnFromAddFile, Front
<1>4. Len(stack) - 1 \in 0..Len(stack)
  BY <1>2
<1>5. stack' \in Seq(Frame) /\ Range(stack') \subseteq Range(stack)
  BY <1>1, <1>3, <1>4, Cutting
<1>6. QED
  BY <1>1, <1>3, <1>5, StackKeeps

LEMMA OverwriteType ==
    ASSUME file \in Seq(Block), NEW blocks \in Seq(Block)
    PROVE  Overwrite(blocks) \in Seq(Block)
<1>1. Len(blocks) \in Nat /\ Len(file) \in Nat
  BY RangeOfStack
<1>2. \A i \in (Len(blocks) + 1)..Len(file) : file[i] \in Block
  BY <1>1, ElementOfSeq
<1>3. SubSeq(file, Len(blocks) + 1, Len(file)) \in Seq(Block)
  BY <1>1, <1>2, SubSeqProperties
<1>4. QED
  BY <1>3, ConcatProperties DEF Overwrite

LEMMA CloseKeeps == ASSUME Inv, CloseBundle PROVE Inv'
<1> DEFINE listed == [i \in DOMAIN entries |-> entries[i].objects[1]]
<1>1. entries \in Seq(Block) /\ file \in Seq(Block)
  BY DEF Inv, TypeOK
<1>2. listed \in Seq(Object)
  <2>1. DOMAIN entries = 1..Len(entries) /\ Len(entries) \in Nat
    BY <1>1, RangeOfStack
  <2>2. ASSUME NEW i \in DOMAIN entries PROVE entries[i].objects[1] \in Object
    <3>1. PICK o \in visited : entries[i].objects = <<o>>
      BY DEF Inv, EntriesAreAsked
    <3>2. QED
      BY <3>1 DEF Inv, TypeOK
  <2>3. listed \in [1..Len(entries) -> Object]
    BY <2>1, <2>2
  <2>4. QED
    BY <2>1, <2>3, SeqDef
<1>3. file' = Overwrite(Append(entries, Directory(listed)))
  BY DEF CloseBundle
<1> HIDE DEF listed
<1>4. Directory(listed) \in Block
  BY <1>2 DEF Directory, Block
<1>5. Append(entries, Directory(listed)) \in Seq(Block)
  BY <1>1, <1>4, AppendProperties
<1>6. file' \in Seq(Block)
  BY <1>1, <1>3, <1>5, OverwriteType
<1>7. /\ export \in {"running", "failing"} /\ export' \in {"ok", "failed"}
      /\ export' = "failed" => export = "failing"
      /\ UNCHANGED <<order, queue, stack, visited, entries, exports, importer, crashes>>
  BY DEF CloseBundle
<1>8. TypeOK' /\ ImportFollows'
  BY <1>6, <1>7 DEF Inv, TypeOK, ImportFollows, importer
<1>9. CallsAreAsked' /\ EntriesAreAsked' /\ FailsOnlyWhenIncomplete'
  BY <1>7 DEF Inv, CallsAreAsked, FrameIsAsked, EntriesAreAsked, FailsOnlyWhenIncomplete
<1>10. QED
  BY <1>8, <1>9 DEF Inv

LEMMA ExportDiesKeeps == ASSUME Inv, ExportDies PROVE Inv'
<1>1. PICK n \in 0..Len(entries) : file' = Overwrite(SubSeq(entries, 1, n))
  BY DEF ExportDies
<1>2. entries \in Seq(Block) /\ file \in Seq(Block)
  BY DEF Inv, TypeOK
<1>3. file' \in Seq(Block)
  BY <1>1, <1>2, Cutting, OverwriteType
<1>4. /\ export \in {"running", "failing"} /\ export' = "died" /\ crashes' = crashes + 1
      /\ UNCHANGED <<order, queue, stack, visited, entries, exports, importer>>
  BY DEF ExportDies
<1>5. TypeOK' /\ ImportFollows'
  BY <1>3, <1>4 DEF Inv, TypeOK, ImportFollows, importer
<1>6. CallsAreAsked' /\ EntriesAreAsked' /\ FailsOnlyWhenIncomplete'
  BY <1>4 DEF Inv, CallsAreAsked, FrameIsAsked, EntriesAreAsked, FailsOnlyWhenIncomplete
<1>7. QED
  BY <1>5, <1>6 DEF Inv

LEMMA ExportAgainKeeps == ASSUME Inv, ExportAgain PROVE Inv'
<1>1. PICK o \in Repeats : order' = o /\ queue' = o.snapshots
  BY DEF ExportAgain
<1>2. o \in Order
  BY OrdersAssumption
<1>3. /\ stack' = <<>> /\ entries' = <<>> /\ visited' = {} /\ export' = "running"
      /\ import' = "none" /\ exports' = exports + 1
      /\ UNCHANGED <<file, position, held, heldCut, crashes>>
  BY DEF ExportAgain
<1>4. CallsAreAsked' /\ EntriesAreAsked'
  <2>1. Range(queue') \subseteq Reached(order')
    BY <1>1, <1>2, ReachedIsClosed DEF Reaches
  <2>2. Range(<<>>) = {} /\ DOMAIN <<>> = {}
    BY DEF Range
  <2>3. QED
    BY <1>3, <2>1, <2>2 DEF CallsAreAsked, EntriesAreAsked
<1>5. TypeOK'
  BY <1>1, <1>2, <1>3, EmptySeq DEF Inv, TypeOK, Order
<1>6. QED
  BY <1>3, <1>4, <1>5 DEF Inv, ImportFollows, FailsOnlyWhenIncomplete

\* An import does not touch what the export has done.
LEMMA ImportKeeps ==
    ASSUME Inv, BeginImport \/ ImportEntry \/ FinishImport \/ ImportDies
    PROVE  Inv'
<1>1. UNCHANGED <<order, exporter, file>>
  BY DEF BeginImport, ImportEntry, FinishImport, ImportDies
<1>2. CallsAreAsked' /\ EntriesAreAsked' /\ FailsOnlyWhenIncomplete'
  BY <1>1 DEF Inv, CallsAreAsked, FrameIsAsked, EntriesAreAsked, FailsOnlyWhenIncomplete, exporter
<1>3. ASSUME import = "running", position \in DOMAIN Listed PROVE Listed[position] \in Object
  <2>1. file \in Seq(Block) /\ file # <<>>
    BY <1>3 DEF Inv, TypeOK, ImportFollows
  <2>2. Len(file) \in 1..Len(file)
    BY <2>1, EmptySeq
  <2>3. Last(file) \in Block
    BY <2>1, <2>2, ElementOfSeq DEF Last
  <2>4. Listed \in Seq(Object)
    BY <2>3 DEF Listed, Block
  <2>5. QED
    BY <1>3, <2>4, RangeOfStack, ElementOfSeq
<1>4. CASE BeginImport
  <2>1. import' \in {"running", "failed"} /\ position' = 1 /\ UNCHANGED <<held, heldCut, crashes>>
    BY <1>4 DEF BeginImport
  <2>2. import' = "running" => file # <<>>
    BY <1>4 DEF BeginImport, IsValid, HasDirectory
  <2>3. TypeOK'
    BY <1>1, <2>1 DEF Inv, TypeOK, exporter
  <2>4. ImportFollows'
    BY <1>1, <1>4, <2>2 DEF ImportFollows, exporter, BeginImport
  <2>5. QED
    BY <1>2, <2>3, <2>4 DEF Inv
<1>5. CASE ImportEntry
  BY <1>1, <1>2, <1>3, <1>5 DEF Inv, TypeOK, ImportFollows, exporter, ImportEntry
<1>6. CASE FinishImport
  BY <1>1, <1>2, <1>6 DEF Inv, TypeOK, ImportFollows, exporter, FinishImport
<1>7. CASE ImportDies
  BY <1>1, <1>2, <1>3, <1>7 DEF Inv, TypeOK, ImportFollows, exporter, ImportDies
<1>8. QED
  BY <1>4, <1>5, <1>6, <1>7

LEMMA InvKept == ASSUME Inv, [Next]_vars PROVE Inv'
<1>1. CASE UNCHANGED vars
  BY <1>1 DEF vars, exporter, importer, Inv, TypeOK, ImportFollows, CallsAreAsked,
              FrameIsAsked, EntriesAreAsked, FailsOnlyWhenIncomplete
<1>2. CASE Export
  BY <1>2, AddNextKeeps, AddSnapshotKeeps, AddContentsKeeps, ReadTreeKeeps, AddChildKeeps,
     ChildrenAddedKeeps, AddParentKeeps, ReturnKeeps, CloseKeeps DEF Export
<1>3. CASE Import \/ ImportDies
  BY <1>3, ImportKeeps DEF Import
<1>4. QED
  BY <1>1, <1>2, <1>3, ExportDiesKeeps, ExportAgainKeeps DEF Next

\* The invariant holds of every export.
THEOREM InvAlways == Spec => []Inv
<1>1. Init => Inv
  BY InvInitially
<1>2. Inv /\ [Next]_vars => Inv'
  BY InvKept
<1>3. QED
  BY <1>1, <1>2, PTL DEF Spec

\* The state is well-typed.
THEOREM TypeCorrect == Spec => []TypeOK
<1>1. Inv => TypeOK
  BY DEF Inv
<1>2. QED
  BY <1>1, InvAlways, PTL

\* At every step of every export an object is in the bundle at most once, and
\* only because it was asked for, whatever the flags and the graph are.
THEOREM NothingElseIsBundled == Spec => []OnlyWhatIsAsked
<1>1. Inv => OnlyWhatIsAsked
  <2> SUFFICES ASSUME Inv PROVE OnlyWhatIsAsked
    OBVIOUS
  <2>1. ASSUME NEW i \in DOMAIN entries PROVE entries[i].objects[1] \in Asked(order)
    <3>1. PICK o \in Asked(order) : entries[i].objects = <<o>>
      BY DEF Inv, EntriesAreAsked
    <3>2. QED
      BY <3>1
  <2>2. QED
    BY <2>1 DEF Inv, EntriesAreAsked, OnlyWhatIsAsked, Begun
<1>2. QED
  BY <1>1, InvAlways, PTL

\* No export fails in an archive in which nothing of what it may read is missing.
THEOREM CompleteNeverFails == Spec => []FailsOnlyWhenIncomplete
<1>1. Inv => FailsOnlyWhenIncomplete
  BY DEF Inv
<1>2. QED
  BY <1>1, InvAlways, PTL

-----------------------------------------------------------------------------
(***************************************************************************)
(* A bundle is complete when the export reports success.  The state does   *)
(* not say for which snapshots AddFile has been called; the invariant says *)
(* that there is such a set: it holds the snapshots whose calls are under  *)
(* way, with what these have behind them, and those that are finished.     *)
(***************************************************************************)
Must == order.recurseParents => IsComplete(order)

Handled == visited \cup order.exclude

FrameProgress(f, S) ==
    /\ f.snapshot \in S
    /\ f.at # "snapshot" => f.snapshot \in Handled
    /\ f.at \in {"tree", "children", "parents"} =>
          Contents[f.snapshot] \in Handled \cup {None}
    /\ f.at = "children" => Children(f.snapshot) \ (order.exclude \cup f.children) \subseteq S
    /\ f.at = "parents" => Children(f.snapshot) \ order.exclude \subseteq S
    /\ Before(f.snapshot) \subseteq S \cup Range(f.parents)

Finished(h, S) ==
    /\ h \in Handled
    /\ Contents[h] \in Handled \cup {None}
    /\ Children(h) \ order.exclude \subseteq S
    /\ order.recurseParents => Before(h) \subseteq S

OnStack(h) == \E i \in 1..Len(stack) : stack[i].snapshot = h

Settled(S) ==
    /\ Range(order.snapshots) \subseteq S \cup Range(queue)
    /\ visited \cap Snapshot \subseteq S
    /\ \A i \in 1..Len(stack) : FrameProgress(stack[i], S)
    /\ \A h \in S : OnStack(h) \/ Finished(h, S)

WholeEntries ==
    \A o \in visited :
        \E i \in DOMAIN entries : entries[i].objects = <<o>> /\ entries[i].whole

Complete ==
    Must /\ export \in {"running", "ok"} =>
        WholeEntries /\ \E S \in SUBSET Snapshot : Settled(S)

\* Without the flag no call is made from the loop over the parents, so that
\* no error is caught there.
ParentsOnTop ==
    ~order.recurseParents => \A i \in 1..Len(stack) : stack[i].at = "parents" => i = Len(stack)

Progress ==
    /\ Complete
    /\ ParentsOnTop
    /\ export = "ok" => stack = <<>> /\ queue = <<>>

Begins == visited = {} /\ stack = <<>> /\ queue = order.snapshots /\ export = "running"

LEMMA ProgressInitially == Begins => Progress
<1> SUFFICES ASSUME Begins PROVE Progress
  OBVIOUS
<1>1. Len(<<>>) = 0
  BY EmptySeq
<1>2. Settled({})
  BY <1>1 DEF Settled, Begins
<1>3. WholeEntries
  BY DEF WholeEntries, Begins
<1>4. QED
  BY <1>1, <1>2, <1>3 DEF Progress, Complete, ParentsOnTop, Begins

LEMMA ProgressAgain == Begins' => Progress'
BY ProgressInitially, PTL

\* An error never leads to success in an archive in which nothing is missing
\* or, without the flag, in any.
LEMMA RaiseKeepsProgress ==
    ASSUME Inv, Progress, stack # <<>>, Top.at # "parents", Raise, export = "running",
           ~IsComplete(order), UNCHANGED order
    PROVE  Progress'
<1>1. stack \in Seq(Frame)
  BY DEF Inv, TypeOK
<1>2. export' \in {"running", "failing"}
  BY <1>1, Raising
<1>3. CASE order.recurseParents
  BY <1>2, <1>3 DEF Progress, Complete, Must, ParentsOnTop
<1>4. CASE ~order.recurseParents
  <2>1. Catchers = {}
    BY <1>1, <1>4, RangeOfStack DEF Catchers, Progress, ParentsOnTop, Top
  <2>2. export' = "failing" /\ stack' = <<>>
    BY <2>1 DEF Raise
  <2>3. Len(<<>>) = 0
    BY EmptySeq
  <2>4. QED
    BY <2>2, <2>3 DEF Progress, Complete, ParentsOnTop
<1>5. QED
  BY <1>3, <1>4

\* What is settled stays so when more is visited and more is called.
LEMMA Monotone ==
    ASSUME NEW S, NEW T, S \subseteq T, visited \subseteq visited', UNCHANGED order
    PROVE  /\ \A f : FrameProgress(f, S) => FrameProgress(f, T)'
           /\ \A h : Finished(h, S) => Finished(h, T)'
<1>1. Handled \subseteq Handled'
  BY DEF Handled
<1>2. ASSUME NEW f, FrameProgress(f, S) PROVE FrameProgress(f, T)'
  BY <1>1, <1>2 DEF FrameProgress
<1>3. ASSUME NEW h, Finished(h, S) PROVE Finished(h, T)'
  BY <1>1, <1>3 DEF Finished
<1>4. QED
  BY <1>2, <1>3

\* A step of the call under way, that calls nothing.
LEMMA ResumeKeepsProgress ==
    ASSUME Inv, Progress, stack # <<>>, export = "running",
           NEW f \in Frame, f.snapshot = Top.snapshot, stack' = Resume(f),
           UNCHANGED <<order, queue, export>>, visited \subseteq visited',
           visited' \cap Snapshot \subseteq visited \cup {Top.snapshot},
           Must /\ WholeEntries => WholeEntries',
           \A S \in SUBSET Snapshot : Must /\ Settled(S) => FrameProgress(f, S)'
    PROVE  Progress'
<1>1. stack \in Seq(Frame)
  BY DEF Inv, TypeOK
<1>2. /\ Len(stack') = Len(stack) /\ Len(stack) \in Nat \ {0}
      /\ \A i \in 1..Len(stack) : stack'[i] = IF i = Len(stack) THEN f ELSE stack[i]
  BY <1>1, Resuming, TopOfStack
<1>3. ParentsOnTop'
  BY <1>2 DEF Progress, ParentsOnTop
<1>4. ASSUME NEW S \in SUBSET Snapshot, Must, Settled(S) PROVE Settled(S)'
  <2>1. FrameProgress(f, S)'
    BY <1>4
  <2>2. ASSUME NEW i \in 1..Len(stack) PROVE FrameProgress(stack[i], S)'
    <3>1. PICK g : g = stack[i]
      OBVIOUS
    <3>2. FrameProgress(g, S)'
      BY <1>4, <3>1, Monotone DEF Settled
    <3>3. stack'[i] = f \/ stack'[i] = g
      BY <1>2, <3>1
    <3>4. QED
      BY <2>1, <3>2, <3>3
  <2>3. (\A i \in 1..Len(stack) : FrameProgress(stack[i], S))'
    BY <1>2, <2>2
  <2>4. \A h \in S : OnStack(h)' \/ Finished(h, S)'
    <3> SUFFICES ASSUME NEW h \in S, ~Finished(h, S)' PROVE OnStack(h)'
      OBVIOUS
    <3>1. OnStack(h)
      BY <1>4, Monotone DEF Settled
    <3>2. QED
      BY <1>2, <3>1 DEF OnStack, Top
  <2>5. visited' \cap Snapshot \subseteq S
    <3>1. Top.snapshot \in S
      BY <1>2, <1>4 DEF Settled, FrameProgress, Top
    <3>2. QED
      BY <1>4, <3>1 DEF Settled
  <2>6. QED
    BY <1>4, <2>3, <2>4, <2>5 DEF Settled
<1>5. Complete'
  BY <1>4 DEF Progress, Complete, Must
<1>6. QED
  BY <1>3, <1>5 DEF Progress

\* A call of AddFile: its snapshot joins those it has been called for.
LEMMA CallKeepsProgress ==
    ASSUME Inv, Progress, export = "running",
           NEW s \in Seq(Frame), NEW h \in Snapshot, stack' = Call(h, s),
           UNCHANGED <<order, visited, entries, export>>,
           Len(s) = Len(stack), \A i \in 1..Len(s) : s[i].snapshot = stack[i].snapshot,
           Range(queue) \subseteq Range(queue') \cup {h},
           ~order.recurseParents => \A i \in 1..Len(s) : s[i].at # "parents",
           \A S \in SUBSET Snapshot : Must /\ Settled(S) =>
               \A i \in 1..Len(s) : FrameProgress(s[i], S \cup {h})
    PROVE  Progress'
<1>1. Len(s) \in Nat
  BY RangeOfStack
<1>2. /\ Len(stack') = Len(s) + 1 /\ stack'[Len(s) + 1] = Called(h)
      /\ \A i \in 1..Len(s) : stack'[i] = s[i]
  BY Calling
<1>3. ParentsOnTop'
  BY <1>1, <1>2 DEF ParentsOnTop
<1>4. ASSUME NEW S \in SUBSET Snapshot, Must, Settled(S) PROVE Settled(S \cup {h})'
  <2> DEFINE T == S \cup {h}
  <2>1. \A i \in 1..Len(s) : FrameProgress(s[i], T)
    BY <1>4
  <2>2. FrameProgress(Called(h), T)
    BY DEF FrameProgress, Called, Before
  <2>3. ASSUME NEW i \in 1..(Len(s) + 1) PROVE FrameProgress(stack[i], T)'
    <3>1. PICK g : g = IF i = Len(s) + 1 THEN Called(h) ELSE s[i]
      OBVIOUS
    <3>2. FrameProgress(g, T)
      <4>1. CASE i = Len(s) + 1
        <5>1. g = Called(h)
          BY <3>1, <4>1
        <5>2. QED
          BY <2>2, <5>1
      <4>2. CASE i # Len(s) + 1
        <5>1. g = s[i] /\ i \in 1..Len(s)
          BY <1>1, <3>1, <4>2
        <5>2. QED
          BY <2>1, <5>1
      <4>3. QED
        BY <4>1, <4>2
    <3>3. FrameProgress(g, T)'
      BY <3>2, Monotone
    <3>4. stack'[i] = g
      BY <1>1, <1>2, <3>1
    <3>5. QED
      BY <3>3, <3>4
  <2>4. (\A i \in 1..Len(stack) : FrameProgress(stack[i], T))'
    BY <1>2, <2>3
  <2>5. ASSUME NEW g \in T PROVE OnStack(g)' \/ Finished(g, T)'
    <3>1. CASE g = h
      <4>1. Len(s) + 1 \in 1..(Len(s) + 1) /\ Called(h).snapshot = h
        BY <1>1 DEF Called
      <4>2. QED
        BY <1>2, <3>1, <4>1 DEF OnStack
    <3>2. CASE Finished(g, S)
      BY <3>2, Monotone
    <3>3. CASE OnStack(g)
      <4>1. PICK i \in 1..Len(s) : s[i].snapshot = g
        BY <3>3 DEF OnStack
      <4>2. i \in 1..(Len(s) + 1) /\ stack'[i] = s[i]
        BY <1>1, <1>2
      <4>3. QED
        BY <1>2, <4>1, <4>2 DEF OnStack
    <3>4. QED
      BY <1>4, <3>1, <3>2, <3>3 DEF Settled
  <2>6. (visited \cap Snapshot \subseteq T)' /\ (Range(order.snapshots) \subseteq T \cup Range(queue))'
    BY <1>4 DEF Settled
  <2> HIDE DEF T
  <2>7. Settled(T)'
    BY <2>4, <2>5, <2>6 DEF Settled
  <2>8. QED
    BY <2>7 DEF T
<1>5. Complete'
  <2> SUFFICES ASSUME Must PROVE WholeEntries' /\ (\E S \in SUBSET Snapshot : Settled(S))'
    BY DEF Complete, Must
  <2>1. WholeEntries'
    BY DEF Progress, Complete, WholeEntries
  <2>2. PICK S \in SUBSET Snapshot : Settled(S)
    BY DEF Progress, Complete
  <2>3. Settled(S \cup {h})' /\ S \cup {h} \in SUBSET Snapshot
    BY <1>4, <2>2
  <2>4. QED
    BY <2>1, <2>3
<1>6. QED
  BY <1>3, <1>5 DEF Progress

\* A call that returns has all behind it: its snapshot is finished.
LEMMA ReturnKeepsProgress == ASSUME Inv, Progress, ReturnFromAddFile PROVE Progress'
<1>1. /\ export = "running" /\ stack # <<>> /\ stack \in Seq(Frame) /\ Top.at = "parents"
      /\ order.recurseParents => Top.parents = <<>>
  BY Under DEF ReturnFromAddFile
<1>2. Len(stack) \in Nat \ {0}
  BY <1>1, TopOfStack
<1>3. /\ stack' = SubSeq(stack, 1, Len(stack) - 1)
      /\ UNCHANGED <<order, queue, visited, entries, export, exports, file, importer, crashes>>
  BY DEF ReturnFromAddFile, Front
<1>4. Len(stack) - 1 \in 0..Len(stack)
  BY <1>2
<1>5. /\ Len(stack') = Len(stack) - 1
      /\ \A i \in 1..(Len(stack) - 1) : stack'[i] = stack[i]
  BY <1>1, <1>3, <1>4, Cutting
<1>6. ParentsOnTop'
  BY <1>2, <1>3, <1>5 DEF Progress, ParentsOnTop
<1>7. ASSUME NEW S \in SUBSET Snapshot, Settled(S) PROVE Settled(S)'
  <2>1. FrameProgress(Top, S)
    BY <1>2, <1>7 DEF Settled, Top
  <2>2. Finished(Top.snapshot, S)
    <3>1. order.recurseParents => Range(Top.parents) = {}
      <4>1. Range(<<>>) = {}
        BY DEF Range
      <4>2. QED
        BY <1>1, <4>1
    <3>2. QED
      BY <1>1, <2>1, <3>1 DEF FrameProgress, Finished
  <2>3. ASSUME NEW i \in 1..(Len(stack) - 1) PROVE FrameProgress(stack[i], S)'
    <3>1. PICK g : g = stack[i]
      OBVIOUS
    <3>2. FrameProgress(g, S)
      BY <1>2, <1>7, <3>1 DEF Settled
    <3>3. FrameProgress(g, S)'
      BY <1>3, <3>2, Monotone
    <3>4. QED
      BY <1>5, <3>1, <3>3
  <2>4. (\A i \in 1..Len(stack) : FrameProgress(stack[i], S))'
    BY <1>5, <2>3
  <2>5. ASSUME NEW h \in S PROVE OnStack(h)' \/ Finished(h, S)'
    <3>1. CASE Finished(h, S)
      BY <1>3, <3>1, Monotone
    <3>2. CASE OnStack(h) /\ ~Finished(h, S)
      <4>1. PICK i \in 1..Len(stack) : stack[i].snapshot = h
        BY <3>2 DEF OnStack
      <4>2. i # Len(stack)
        BY <2>2, <3>2, <4>1 DEF Top
      <4>3. i \in 1..(Len(stack) - 1)
        BY <1>2, <4>2
      <4>4. QED
        BY <1>5, <4>1, <4>3 DEF OnStack
    <3>3. QED
      BY <1>7, <3>1, <3>2 DEF Settled
  <2>6. (visited \cap Snapshot \subseteq S)' /\ (Range(order.snapshots) \subseteq S \cup Range(queue))'
    BY <1>3, <1>7 DEF Settled
  <2>7. QED
    BY <2>4, <2>5, <2>6 DEF Settled
<1>8. Complete'
  <2>1. UNCHANGED <<order, export, visited, entries>>
    BY <1>3
  <2>2. WholeEntries => WholeEntries'
    BY <2>1 DEF WholeEntries
  <2>3. QED
    BY <1>7, <2>1, <2>2 DEF Progress, Complete, Must
<1>9. QED
  BY <1>1, <1>3, <1>6, <1>8 DEF Progress

\* The call under way is one of those that are settled.
LEMMA TopProgress ==
    ASSUME Inv, stack # <<>>, NEW S, Settled(S)
    PROVE  FrameProgress(Top, S)
<1>1. Len(stack) \in 1..Len(stack)
  BY TopOfStack DEF Inv, TypeOK
<1>2. QED
  BY <1>1 DEF Settled, Top

LEMMA AddObjectKeepsProgress ==
    ASSUME Inv, Progress, stack # <<>>, export = "running", Top.at # "parents",
           NEW o \in Object, o \in WithContents(Reached(order)),
           o \in Snapshot => o = Top.snapshot,
           NEW f \in Frame, f.snapshot = Top.snapshot, AddObject(o, f),
           UNCHANGED <<order, queue>>,
           \A S : Settled(S) /\ o \in Handled' /\ Handled \subseteq Handled' =>
                     FrameProgress(f, S)'
    PROVE  Progress'
<1>1. CASE o \in order.exclude \cup visited
  <2>1. stack' = Resume(f) /\ UNCHANGED <<visited, entries, export>>
    BY <1>1 DEF AddObject
  <2>2. o \in Handled' /\ Handled \subseteq Handled'
    BY <1>1, <2>1 DEF Handled
  <2>3. WholeEntries => WholeEntries'
    BY <2>1 DEF WholeEntries
  <2>4. QED
    BY <2>1, <2>2, <2>3, ResumeKeepsProgress
<1>2. CASE o \notin order.exclude \cup visited /\ o \in Whole
  <2>1. /\ stack' = Resume(f) /\ UNCHANGED export /\ visited' = visited \cup {o}
        /\ entries' = Append(entries, Entry(o, o \in Whole))
    BY <1>2 DEF AddObject, Whole
  <2>2. o \in Handled' /\ Handled \subseteq Handled'
    BY <2>1 DEF Handled
  <2>3. WholeEntries => WholeEntries'
    <3> SUFFICES ASSUME WholeEntries, NEW x \in visited'
                 PROVE  \E i \in DOMAIN entries' : entries'[i].objects = <<x>> /\ entries'[i].whole
      BY DEF WholeEntries
    <3>1. PICK e \in Block : /\ e.objects = <<o>> /\ e.whole
                             /\ entries' = Append(entries, e)
      <4>1. <<o>> \in Seq(Object)
        OBVIOUS
      <4>2. QED
        BY <1>2, <2>1, <4>1 DEF Entry, Block
    <3>2. entries \in Seq(Block)
      BY DEF Inv, TypeOK
    <3>3. /\ entries' \in Seq(Block) /\ Len(entries') = Len(entries) + 1
          /\ \A i \in 1..Len(entries) : entries'[i] = entries[i]
          /\ entries'[Len(entries) + 1] = e
      BY <3>1, <3>2, AppendProperties
    <3>4. /\ Len(entries) \in Nat /\ DOMAIN entries = 1..Len(entries)
          /\ DOMAIN entries' = 1..(Len(entries) + 1)
      BY <3>2, <3>3, RangeOfStack
    <3>5. CASE x = o
      <4>1. Len(entries) + 1 \in DOMAIN entries'
        BY <3>4
      <4>2. QED
        BY <3>1, <3>3, <3>5, <4>1
    <3>6. CASE x # o
      <4>1. PICK i \in 1..Len(entries) : entries[i].objects = <<x>> /\ entries[i].whole
        BY <2>1, <3>4, <3>6 DEF WholeEntries
      <4>2. i \in DOMAIN entries' /\ entries'[i] = entries[i]
        BY <3>3, <3>4, <4>1
      <4>3. QED
        BY <4>1, <4>2
    <3>7. QED
      BY <3>5, <3>6
  <2>4. visited \subseteq visited' /\ visited' \cap Snapshot \subseteq visited \cup {Top.snapshot}
    BY <2>1
  <2>5. QED
    BY <2>1, <2>2, <2>3, <2>4, ResumeKeepsProgress
<1>3. CASE o \notin order.exclude \cup visited /\ o \notin Whole
  <2>1. Raise
    BY <1>3 DEF AddObject
  <2>2. ~IsComplete(order)
    BY <1>3 DEF IsComplete, Whole
  <2>3. QED
    BY <2>1, <2>2, RaiseKeepsProgress
<1>4. QED
  BY <1>1, <1>2, <1>3

LEMMA AddSnapshotKeepsProgress == ASSUME Inv, Progress, AddSnapshot PROVE Progress'
<1>1. /\ export = "running" /\ stack # <<>> /\ Top \in Frame /\ Top.at = "snapshot"
      /\ Top.snapshot \in Reached(order) /\ Top.snapshot \in Snapshot
  BY Under DEF AddSnapshot
<1>2. PICK f : f = [Top EXCEPT !.at = "contents"]
  OBVIOUS
<1>3. /\ f \in Frame /\ f.snapshot = Top.snapshot /\ f.at = "contents"
      /\ f.parents = Top.parents
  BY <1>1, <1>2 DEF Frame
<1>4. AddObject(Top.snapshot, f) /\ UNCHANGED <<order, queue, exports, file, importer, crashes>>
  BY <1>2 DEF AddSnapshot
<1>5. Top.snapshot \in Object /\ Top.snapshot \in WithContents(Reached(order))
  BY <1>1, MayBeRead, GraphAssumption
<1>6. ASSUME NEW S, Settled(S), Top.snapshot \in Handled' PROVE FrameProgress(f, S)'
  <2>1. FrameProgress(Top, S)
    BY <1>1, <1>6, TopProgress
  <2>2. QED
    BY <1>3, <1>6, <2>1 DEF FrameProgress
<1>7. QED
  BY <1>1, <1>3, <1>4, <1>5, <1>6, AddObjectKeepsProgress

LEMMA AddContentsKeepsProgress == ASSUME Inv, Progress, AddContents PROVE Progress'
<1>1. /\ export = "running" /\ stack # <<>> /\ Top \in Frame /\ Top.at = "contents"
      /\ Top.snapshot \in Reached(order) /\ Top.snapshot \in Snapshot
  BY Under DEF AddContents
<1>2. PICK c : c = Contents[Top.snapshot]
  OBVIOUS
<1>3. PICK f : f = [Top EXCEPT !.at = IF c # None /\ Top.snapshot \in Dir
                                      THEN "tree" ELSE "parents"]
  OBVIOUS
<1>4. /\ f \in Frame /\ f.snapshot = Top.snapshot /\ f.parents = Top.parents
      /\ f.at \in {"tree", "parents"}
      /\ f.at = "parents" => c = None \/ Top.snapshot \notin Dir
  BY <1>1, <1>3 DEF Frame
<1>5. UNCHANGED <<order, queue, exports, file, importer, crashes>>
  BY DEF AddContents
<1>6. ASSUME NEW S, Settled(S), c \in Handled' \cup {None}, Handled \subseteq Handled'
      PROVE  FrameProgress(f, S)'
  <2>1. FrameProgress(Top, S)
    BY <1>1, <1>6, TopProgress
  <2>2. f.at = "parents" => Children(f.snapshot) = {}
    BY <1>2, <1>4 DEF Children
  <2>3. QED
    BY <1>1, <1>2, <1>4, <1>6, <2>1, <2>2 DEF FrameProgress
<1>7. CASE c = None
  <2>1. stack' = Resume(f) /\ UNCHANGED <<visited, entries, export>>
    BY <1>2, <1>3, <1>7 DEF AddContents
  <2>2. Handled \subseteq Handled' /\ (WholeEntries => WholeEntries')
    BY <1>5, <2>1 DEF Handled, WholeEntries
  <2>3. QED
    BY <1>1, <1>4, <1>5, <1>6, <1>7, <2>1, <2>2, ResumeKeepsProgress
<1>8. CASE c # None
  <2>1. AddObject(c, f)
    BY <1>2, <1>3, <1>8 DEF AddContents
  <2>2. c \in Object \ Snapshot /\ c \in WithContents(Reached(order))
    BY <1>1, <1>2, <1>8, MayBeRead, GraphAssumption
  <2>3. QED
    BY <1>1, <1>4, <1>5, <1>6, <2>1, <2>2, AddObjectKeepsProgress
<1>9. QED
  BY <1>7, <1>8

LEMMA ReadTreeKeepsProgress == ASSUME Inv, Progress, ReadTree PROVE Progress'
<1>1. /\ export = "running" /\ stack # <<>> /\ Top \in Frame /\ Top.at = "tree"
      /\ FrameIsAsked(Top) /\ Top.snapshot \in Reached(order) /\ Top.snapshot \in Snapshot
  BY Under DEF ReadTree
<1>2. PICK c : c = Contents[Top.snapshot]
  OBVIOUS
<1>3. c # None /\ Top.snapshot \in Dir /\ c \in WithContents(Reached(order))
  BY <1>1, <1>2, MayBeRead DEF FrameIsAsked
<1>4. Tree[c] \subseteq Snapshot /\ Tree[c] = Children(Top.snapshot)
  BY <1>1, <1>2, <1>3, GraphAssumption DEF Children
<1>5. PICK f : f = [Top EXCEPT !.at = "children", !.children = Tree[c]]
  OBVIOUS
<1>6. /\ f \in Frame /\ f.snapshot = Top.snapshot /\ f.parents = Top.parents
      /\ f.at = "children" /\ f.children = Tree[c]
  BY <1>1, <1>4, <1>5 DEF Frame
<1>7. UNCHANGED <<order, queue, visited, entries>>
  BY DEF ReadTree
<1>8. CASE c \in Whole
  <2>1. stack' = Resume(f) /\ UNCHANGED export
    BY <1>2, <1>5, <1>8 DEF ReadTree
  <2>2. ASSUME NEW S, Settled(S) PROVE FrameProgress(f, S)'
    <3>1. FrameProgress(Top, S)
      BY <1>1, <2>2, TopProgress
    <3>2. Handled' = Handled
      BY <1>7 DEF Handled
    <3>3. QED
      BY <1>1, <1>4, <1>6, <1>7, <3>1, <3>2 DEF FrameProgress
  <2>3. WholeEntries => WholeEntries'
    BY <1>7 DEF WholeEntries
  <2>4. QED
    BY <1>1, <1>6, <1>7, <2>1, <2>2, <2>3, ResumeKeepsProgress
<1>9. CASE c \notin Whole
  <2>1. Raise /\ ~IsComplete(order)
    BY <1>2, <1>3, <1>9 DEF ReadTree, IsComplete, Whole
  <2>2. QED
    BY <1>1, <1>7, <2>1, RaiseKeepsProgress
<1>10. QED
  BY <1>8, <1>9

\* A call from one of the loops of the call under way.
LEMMA NestedCallKeepsProgress ==
    ASSUME Inv, Progress, stack # <<>>, export = "running",
           NEW f \in Frame, f.snapshot = Top.snapshot,
           ~order.recurseParents => f.at # "parents" /\ Top.at # "parents",
           NEW h \in Snapshot, stack' = Call(h, Resume(f)),
           UNCHANGED <<order, queue, visited, entries, export>>,
           \A S : Settled(S) => FrameProgress(f, S \cup {h})
    PROVE  Progress'
<1>1. stack \in Seq(Frame)
  BY DEF Inv, TypeOK
<1>2. PICK s \in Seq(Frame) :
         /\ s = Resume(f) /\ Len(s) = Len(stack)
         /\ \A i \in 1..Len(stack) : s[i] = IF i = Len(stack) THEN f ELSE stack[i]
  BY <1>1, Resuming
<1>3. \A i \in 1..Len(s) : s[i].snapshot = stack[i].snapshot
  BY <1>2 DEF Top
<1>4. ~order.recurseParents => \A i \in 1..Len(s) : s[i].at # "parents"
  BY <1>2 DEF Progress, ParentsOnTop
<1>5. ASSUME NEW S \in SUBSET Snapshot, Settled(S), NEW i \in 1..Len(s)
      PROVE  FrameProgress(s[i], S \cup {h})
  <2>1. FrameProgress(f, S \cup {h})
    BY <1>5
  <2>2. PICK g : g = stack[i]
    OBVIOUS
  <2>3. FrameProgress(g, S \cup {h})
    BY <1>2, <1>5, <2>2 DEF Settled, FrameProgress
  <2>4. s[i] = f \/ s[i] = g
    BY <1>2, <2>2
  <2>5. QED
    BY <2>1, <2>3, <2>4
<1>6. QED
  BY <1>2, <1>3, <1>4, <1>5, CallKeepsProgress

LEMMA AddChildKeepsProgress ==
    ASSUME Inv, Progress, NEW h \in Snapshot, AddChild(h) PROVE Progress'
<1>1. /\ export = "running" /\ stack # <<>> /\ Top \in Frame /\ order \in Order
      /\ Top.at = "children" /\ FrameIsAsked(Top)
      /\ Top.snapshot \in Reached(order) /\ Top.snapshot \in Snapshot
  BY Under DEF AddChild, Inv, TypeOK
<1>2. PICK f : f = [Top EXCEPT !.children = @ \ {h}]
  OBVIOUS
<1>3. /\ f \in Frame /\ f.snapshot = Top.snapshot /\ f.parents = Top.parents
      /\ f.at = "children" /\ f.children = Top.children \ {h}
  BY <1>1, <1>2 DEF Frame
<1>4. UNCHANGED <<order, queue, visited, entries>>
  BY DEF AddChild
<1>5. Handled' = Handled /\ (WholeEntries => WholeEntries')
  BY <1>4 DEF Handled, WholeEntries
<1>6. CASE h \in order.exclude \cup visited
  <2>1. stack' = Resume(f) /\ UNCHANGED export
    BY <1>2, <1>6 DEF AddChild
  <2>2. ASSUME NEW S, Settled(S) PROVE FrameProgress(f, S)'
    <3>1. FrameProgress(Top, S) /\ visited \cap Snapshot \subseteq S
      BY <1>1, <2>2, TopProgress DEF Settled
    <3>2. QED
      BY <1>1, <1>3, <1>4, <1>5, <1>6, <3>1 DEF FrameProgress
  <2>3. QED
    BY <1>1, <1>3, <1>4, <1>5, <2>1, <2>2, ResumeKeepsProgress
<1>7. CASE h \notin order.exclude \cup visited /\ h \in Whole
  <2>1. stack' = Call(h, Resume(f)) /\ UNCHANGED export
    BY <1>2, <1>7 DEF AddChild
  <2>2. ASSUME NEW S, Settled(S) PROVE FrameProgress(f, S \cup {h})
    <3>1. FrameProgress(Top, S)
      BY <1>1, <2>2, TopProgress
    <3>2. QED
      BY <1>1, <1>3, <3>1 DEF FrameProgress
  <2>3. QED
    BY <1>1, <1>3, <1>4, <2>1, <2>2, NestedCallKeepsProgress
<1>8. CASE h \notin order.exclude \cup visited /\ h \notin Whole
  <2>1. Raise
    BY <1>8 DEF AddChild
  <2>2. h \in Reached(order)
    BY <1>1, <1>8, ReachedIsClosed DEF AddChild, FrameIsAsked, Reaches
  <2>3. ~IsComplete(order)
    BY <1>8, <2>2, MayBeRead DEF IsComplete, Whole
  <2>4. QED
    BY <1>1, <1>4, <2>1, <2>3, RaiseKeepsProgress
<1>9. QED
  BY <1>6, <1>7, <1>8

LEMMA ChildrenAddedKeepsProgress == ASSUME Inv, Progress, ChildrenAdded PROVE Progress'
<1>1. /\ export = "running" /\ stack # <<>> /\ Top \in Frame /\ Top.at = "children"
      /\ Top.children = {}
  BY Under DEF ChildrenAdded
<1>2. PICK f : f = [Top EXCEPT !.at = "parents"]
  OBVIOUS
<1>3. /\ f \in Frame /\ f.snapshot = Top.snapshot /\ f.parents = Top.parents
      /\ f.at = "parents"
  BY <1>1, <1>2 DEF Frame
<1>4. /\ stack' = Resume(f)
      /\ UNCHANGED <<order, queue, visited, entries, export>>
  BY <1>2 DEF ChildrenAdded
<1>5. Handled' = Handled /\ (WholeEntries => WholeEntries')
  BY <1>4 DEF Handled, WholeEntries
<1>6. ASSUME NEW S, Settled(S) PROVE FrameProgress(f, S)'
  <2>1. FrameProgress(Top, S)
    BY <1>1, <1>6, TopProgress
  <2>2. QED
    BY <1>1, <1>3, <1>4, <1>5, <2>1 DEF FrameProgress
<1>7. QED
  BY <1>1, <1>3, <1>4, <1>5, <1>6, ResumeKeepsProgress

LEMMA AddParentKeepsProgress == ASSUME Inv, Progress, AddParent PROVE Progress'
<1>1. /\ export = "running" /\ stack # <<>> /\ Top \in Frame /\ order \in Order
      /\ Top.at = "parents" /\ FrameIsAsked(Top) /\ Top.snapshot \in Reached(order)
      /\ Top.parents \in Seq(Snapshot) /\ Top.parents # <<>> /\ order.recurseParents
  BY Under DEF AddParent, Inv, TypeOK
<1>2. PICK h : h = Head(Top.parents)
  OBVIOUS
<1>3. /\ h \in Snapshot /\ Tail(Top.parents) \in Seq(Snapshot)
      /\ Range(Top.parents) = {h} \cup Range(Tail(Top.parents))
  BY <1>1, <1>2, HeadAndTail
<1>4. PICK f : f = [Top EXCEPT !.parents = Tail(@)]
  OBVIOUS
<1>5. /\ f \in Frame /\ f.snapshot = Top.snapshot /\ f.at = "parents"
      /\ f.parents = Tail(Top.parents)
  BY <1>1, <1>3, <1>4 DEF Frame
<1>6. h \in Reached(order)
  BY <1>1, <1>3, ReachedIsClosed DEF FrameIsAsked, Reaches
<1>7. /\ stack' = IF h \in Whole THEN Call(h, Resume(f)) ELSE Resume(f)
      /\ UNCHANGED <<order, queue, visited, entries, export>>
  BY <1>2, <1>4 DEF AddParent
<1>8. CASE h \in Whole
  <2>1. ASSUME NEW S, Settled(S) PROVE FrameProgress(f, S \cup {h})
    <3>1. FrameProgress(Top, S)
      BY <1>1, <2>1, TopProgress
    <3>2. QED
      BY <1>1, <1>3, <1>5, <3>1 DEF FrameProgress
  <2>2. QED
    BY <1>1, <1>3, <1>5, <1>7, <1>8, <2>1, NestedCallKeepsProgress
<1>9. CASE h \notin Whole
  <2>1. ~IsComplete(order)
    BY <1>6, <1>9, MayBeRead DEF IsComplete, Whole
  <2>2. ~Must /\ ~Must' /\ order'.recurseParents
    BY <1>1, <1>7, <2>1 DEF Must
  <2>3. QED
    BY <1>1, <1>7, <2>2 DEF Progress, Complete, ParentsOnTop
<1>10. QED
  BY <1>8, <1>9

LEMMA AddNextKeepsProgress == ASSUME Inv, Progress, AddNext PROVE Progress'
<1>1. /\ queue \in Seq(Snapshot) /\ queue # <<>> /\ stack = <<>> /\ export = "running"
      /\ queue' = Tail(queue) /\ UNCHANGED <<order, visited, entries>>
  BY DEF Inv, TypeOK, AddNext
<1>2. PICK h : h = Head(queue)
  OBVIOUS
<1>3. h \in Snapshot /\ Range(queue) = {h} \cup Range(queue')
  BY <1>1, <1>2, HeadAndTail
<1>4. Len(<<>>) = 0 /\ <<>> \in Seq(Frame)
  BY EmptySeq
<1>5. CASE h \in Whole
  <2>1. stack' = Call(h, <<>>) /\ UNCHANGED export
    BY <1>1, <1>2, <1>5 DEF AddNext
  <2>2. PICK s : s = <<>>
    OBVIOUS
  <2>3. s \in Seq(Frame) /\ Len(s) = Len(stack) /\ 1..Len(s) = {} /\ stack' = Call(h, s)
    BY <1>1, <1>4, <2>1, <2>2
  <2>4. QED
    BY <1>1, <1>3, <2>1, <2>3, CallKeepsProgress
<1>6. CASE h \notin Whole
  <2>1. export' = "failing" /\ stack' = <<>>
    BY <1>1, <1>2, <1>6 DEF AddNext
  <2>2. QED
    BY <1>4, <2>1 DEF Progress, Complete, ParentsOnTop
<1>7. QED
  BY <1>5, <1>6

\* What the steps that are not of the export leave settled.
LEMMA OthersKeepProgress ==
    ASSUME Progress, UNCHANGED <<order, queue, stack, visited, entries>>,
           \/ UNCHANGED export
           \/ export' \in {"died", "failed"}
           \/ export' = "ok" /\ export = "running" /\ stack = <<>> /\ queue = <<>>
    PROVE  Progress'
<1>1. ParentsOnTop'
  BY DEF Progress, ParentsOnTop
<1>2. ASSUME NEW S PROVE Settled(S)' <=> Settled(S)
  BY DEF Settled, FrameProgress, Handled, OnStack, Finished
<1>3. WholeEntries' <=> WholeEntries
  BY DEF WholeEntries
<1>4. Complete'
  BY <1>2, <1>3 DEF Progress, Complete, Must
<1>5. QED
  BY <1>1, <1>4 DEF Progress

LEMMA ProgressKept == ASSUME Inv, Progress, [Next]_vars PROVE Progress'
<1>1. CASE Export
  <2>1. CASE CloseBundle
    BY <2>1, OthersKeepProgress DEF CloseBundle
  <2>2. CASE ~CloseBundle
    BY <1>1, <2>2, AddNextKeepsProgress, AddSnapshotKeepsProgress, AddContentsKeepsProgress,
       ReadTreeKeepsProgress, AddChildKeepsProgress, ChildrenAddedKeepsProgress,
       AddParentKeepsProgress, ReturnKeepsProgress DEF Export
  <2>3. QED
    BY <2>1, <2>2
<1>2. CASE ExportDies
  BY <1>2, OthersKeepProgress DEF ExportDies
<1>3. CASE ExportAgain
  <2>1. Begins'
    BY <1>3 DEF ExportAgain, Begins
  <2>2. QED
    BY <2>1, ProgressAgain
<1>4. CASE Import \/ ImportDies \/ UNCHANGED vars
  BY <1>4, OthersKeepProgress DEF Import, BeginImport, ImportEntry, FinishImport, ImportDies,
                                  vars, exporter
<1>5. QED
  BY <1>1, <1>2, <1>3, <1>4 DEF Next

\* Without calls under way, the settled snapshots are all that is asked for.
LEMMA CompleteAtEnd == ASSUME Inv, Progress PROVE OkMeansComplete
<1> SUFFICES ASSUME export = "ok", Must PROVE Bundled = Asked(order)
  BY DEF OkMeansComplete, Must
<1>1. Bundled \subseteq Asked(order)
  <2> SUFFICES ASSUME NEW i \in DOMAIN entries PROVE entries[i].objects[1] \in Asked(order)
    BY DEF Bundled
  <2>1. PICK o \in Asked(order) : entries[i].objects = <<o>>
    BY DEF Inv, EntriesAreAsked
  <2>2. QED
    BY <2>1
<1>2. PICK S \in SUBSET Snapshot : Settled(S)
  BY DEF Progress, Complete
<1>3. \A h \in S : Finished(h, S)
  <2>1. Len(stack) = 0
    BY EmptySeq DEF Progress
  <2>2. QED
    BY <1>2, <2>1 DEF Settled, OnStack
<1>4. Reached(order) \subseteq S
  <2>1. Range(queue) = {}
    BY DEF Progress, Range
  <2>2. Reaches(order, S)
    BY <1>2, <1>3, <2>1 DEF Reaches, Settled, Finished
  <2>3. QED
    BY <2>2, ReachedIsLeast
<1>5. visited \subseteq Bundled
  <2> SUFFICES ASSUME NEW o \in visited PROVE o \in Bundled
    OBVIOUS
  <2>1. PICK i \in DOMAIN entries : entries[i].objects = <<o>> /\ entries[i].whole
    BY DEF Progress, Complete, WholeEntries
  <2>2. entries[i].objects[1] = o
    BY <2>1
  <2>3. QED
    BY <2>1, <2>2 DEF Bundled
<1>6. WithContents(Reached(order)) \subseteq Handled
  BY <1>3, <1>4 DEF WithContents, Finished
<1>7. QED
  BY <1>1, <1>5, <1>6 DEF Asked, Handled

\* An export that reports success has put everything asked for in the bundle,
\* and nothing else: in any archive without the flag for the parents, and with
\* it in one in which nothing is missing.
THEOREM SuccessIsComplete == Spec => []OkMeansComplete
<1>1. Init => Progress
  BY ProgressInitially DEF Init, Begins
<1>2. Inv /\ Progress /\ [Next]_vars => Progress'
  BY ProgressKept
<1>3. Inv /\ Progress => OkMeansComplete
  BY CompleteAtEnd
<1>4. QED
  BY <1>1, <1>2, <1>3, InvAlways, PTL DEF Spec

-----------------------------------------------------------------------------
(***************************************************************************)
(* Incremental exports.  A directory is always written right behind the    *)
(* entries it lists, so the one that is read at the end of a file is that  *)
(* of the last export, or it lists a block that is a directory itself and  *)
(* the import is refused.                                                  *)
(***************************************************************************)
\* What the theorem assumes: a further export does not rely on what the other
\* archive held at first.
RepeatsRelyOnNothing == \A o \in Repeats : o.held = {}

FileShape ==
    /\ \A k \in 1..Len(file) : file[k].directory => Len(file[k].objects) = k - 1
    /\ \A i \in 1..Len(entries) : ~entries[i].directory

FileIsWritten ==
    export = "ok" =>
        /\ Len(entries) + 1 <= Len(file)
        /\ file[Len(entries) + 1].directory
        /\ \A i \in 1..Len(entries) :
              file[Len(entries) + 1].objects[i] = entries[i].objects[1]

Imported(n) == \A i \in DOMAIN Listed : i < n => Listed[i] \in held

ImportInv ==
    /\ order.held \subseteq held
    /\ FileShape
    /\ FileIsWritten
    /\ import \in {"running", "ok"} => IsValid /\ export \in {"ok", "failed", "died"}
    /\ import = "running" => Imported(position)
    /\ import = "ok" => \A i \in DOMAIN Listed : Listed[i] \in held

LEMMA ImportInvInitially == Init => ImportInv
<1> SUFFICES ASSUME Init PROVE ImportInv
  OBVIOUS
<1>1. Len(<<>>) = 0
  BY EmptySeq
<1>2. QED
  BY <1>1 DEF Init, ImportInv, FileShape, FileIsWritten

\* What is written over a file, and what stays of it, keeps the shape.
LEMMA OverwriteKeepsShape ==
    ASSUME file \in Seq(Block), FileShape, NEW blocks \in Seq(Block),
           \A k \in 1..Len(blocks) : blocks[k].directory => Len(blocks[k].objects) = k - 1
    PROVE  /\ \A k \in 1..Len(Overwrite(blocks)) :
                 Overwrite(blocks)[k].directory => Len(Overwrite(blocks)[k].objects) = k - 1
           /\ Len(blocks) <= Len(Overwrite(blocks))
           /\ \A k \in 1..Len(blocks) : Overwrite(blocks)[k] = blocks[k]
<1> DEFINE rest == SubSeq(file, Len(blocks) + 1, Len(file))
<1>1. Len(blocks) \in Nat /\ Len(file) \in Nat
  BY RangeOfStack
<1>2. \A i \in (Len(blocks) + 1)..Len(file) : file[i] \in Block
  BY <1>1, ElementOfSeq
<1>3. /\ rest \in Seq(Block)
      /\ Len(rest) = IF Len(blocks) + 1 <= Len(file)
                     THEN Len(file) - (Len(blocks) + 1) + 1 ELSE 0
      /\ \A i \in 1..(Len(file) - (Len(blocks) + 1) + 1) :
            rest[i] = file[Len(blocks) + 1 + i - 1]
  BY <1>1, <1>2, SubSeqProperties
<1>4. Overwrite(blocks) = blocks \o rest
  BY DEF Overwrite
<1> HIDE DEF rest
<1>5. /\ Len(Overwrite(blocks)) = Len(blocks) + Len(rest) /\ Len(rest) \in Nat
      /\ \A k \in 1..(Len(blocks) + Len(rest)) :
            Overwrite(blocks)[k] = IF k <= Len(blocks) THEN blocks[k] ELSE rest[k - Len(blocks)]
  BY <1>3, <1>4, ConcatProperties, RangeOfStack
<1>6. \A k \in 1..Len(blocks) : Overwrite(blocks)[k] = blocks[k]
  BY <1>1, <1>5
<1>7. ASSUME NEW k \in 1..Len(Overwrite(blocks)), Overwrite(blocks)[k].directory
      PROVE  Len(Overwrite(blocks)[k].objects) = k - 1
  <2>1. CASE k <= Len(blocks)
    BY <1>1, <1>6, <1>7, <2>1
  <2>2. CASE k > Len(blocks)
    <3>1. k - Len(blocks) \in 1..Len(rest) /\ k \in 1..Len(file)
      BY <1>1, <1>3, <1>5, <2>2
    <3>2. Overwrite(blocks)[k] = file[k]
      <4>1. Overwrite(blocks)[k] = rest[k - Len(blocks)]
        BY <1>1, <1>5, <2>2
      <4>2. rest[k - Len(blocks)] = file[Len(blocks) + 1 + (k - Len(blocks)) - 1]
        BY <1>1, <1>3, <3>1
      <4>3. Len(blocks) + 1 + (k - Len(blocks)) - 1 = k
        BY <1>1
      <4>4. QED
        BY <4>1, <4>2, <4>3
    <3>3. QED
      BY <1>7, <3>1, <3>2 DEF FileShape
  <2>3. QED
    BY <1>1, <2>1, <2>2
<1>8. QED
  BY <1>1, <1>5, <1>6, <1>7

LEMMA CloseKeepsImportInv == ASSUME Inv, ImportInv, CloseBundle PROVE ImportInv'
<1> DEFINE listed == [i \in DOMAIN entries |-> entries[i].objects[1]]
<1>1. /\ entries \in Seq(Block) /\ file \in Seq(Block)
      /\ DOMAIN entries = 1..Len(entries) /\ Len(entries) \in Nat
  BY RangeOfStack DEF Inv, TypeOK
<1>2. listed \in Seq(Object) /\ Len(listed) = Len(entries)
  <2>1. ASSUME NEW i \in DOMAIN entries PROVE entries[i].objects[1] \in Object
    <3>1. PICK o \in visited : entries[i].objects = <<o>>
      BY DEF Inv, EntriesAreAsked
    <3>2. QED
      BY <3>1 DEF Inv, TypeOK
  <2>2. listed \in [1..Len(entries) -> Object]
    BY <1>1, <2>1
  <2>3. listed \in Seq(Object)
    BY <1>1, <2>2, SeqDef
  <2>4. DOMAIN listed = 1..Len(listed) /\ Len(listed) \in Nat
    BY <2>3, RangeOfStack
  <2>5. QED
    BY <1>1, <2>2, <2>3, <2>4
<1>3. \A i \in 1..Len(entries) : listed[i] = entries[i].objects[1]
  BY <1>1
<1>4. file' = Overwrite(Append(entries, Directory(listed)))
  BY DEF CloseBundle
<1> HIDE DEF listed
<1>5. PICK b \in Seq(Block) :
         /\ file' = Overwrite(b) /\ Len(b) = Len(entries) + 1
         /\ \A i \in 1..Len(entries) : b[i] = entries[i]
         /\ b[Len(entries) + 1].directory /\ b[Len(entries) + 1].objects = listed
  <2>1. PICK d \in Block : d = Directory(listed) /\ d.objects = listed /\ d.directory
    <3>1. /\ Directory(listed) \in Block /\ Directory(listed).objects = listed
          /\ Directory(listed).directory
      BY <1>2 DEF Directory, Block
    <3>2. QED
      BY <3>1
  <2>2. PICK b : b = Append(entries, d)
    OBVIOUS
  <2>3. /\ b \in Seq(Block) /\ Len(b) = Len(entries) + 1
        /\ \A i \in 1..Len(entries) : b[i] = entries[i]
        /\ b[Len(entries) + 1] = d
    BY <1>1, <2>2, AppendProperties
  <2>4. file' = Overwrite(b)
    BY <1>4, <2>1, <2>2
  <2>5. QED
    BY <2>1, <2>3, <2>4
<1>6. \A k \in 1..Len(b) : b[k].directory => Len(b[k].objects) = k - 1
  <2> SUFFICES ASSUME NEW k \in 1..Len(b), b[k].directory PROVE Len(b[k].objects) = k - 1
    OBVIOUS
  <2>1. k = Len(entries) + 1
    BY <1>1, <1>5 DEF ImportInv, FileShape
  <2>2. QED
    BY <1>1, <1>2, <1>5, <2>1
<1>7. /\ \A k \in 1..Len(file') : file'[k].directory => Len(file'[k].objects) = k - 1
      /\ Len(entries) + 1 <= Len(file')
      /\ file'[Len(entries) + 1] = b[Len(entries) + 1]
  <2>1. Len(entries) + 1 \in 1..Len(b)
    BY <1>1, <1>5
  <2>2. QED
    BY <1>1, <1>5, <1>6, <2>1, OverwriteKeepsShape DEF ImportInv
<1>8. /\ export \in {"running", "failing"}
      /\ UNCHANGED <<order, entries, import, position, held>>
  BY DEF CloseBundle, importer
<1>9. import \notin {"running", "ok"}
  BY <1>8 DEF ImportInv
<1>10. FileShape' /\ FileIsWritten'
  BY <1>3, <1>5, <1>7, <1>8 DEF ImportInv, FileShape, FileIsWritten
<1>11. QED
  BY <1>8, <1>9, <1>10 DEF ImportInv

LEMMA ExportDiesKeepsImportInv == ASSUME Inv, ImportInv, ExportDies PROVE ImportInv'
<1>1. PICK n \in 0..Len(entries) : file' = Overwrite(SubSeq(entries, 1, n))
  BY DEF ExportDies
<1>2. entries \in Seq(Block) /\ file \in Seq(Block)
  BY DEF Inv, TypeOK
<1>3. PICK b \in Seq(Block) :
         /\ file' = Overwrite(b) /\ Len(b) = n /\ \A i \in 1..n : b[i] = entries[i]
  BY <1>1, <1>2, Cutting
<1>4. \A k \in 1..Len(b) : ~b[k].directory
  <2>1. \A k \in 1..n : k \in 1..Len(entries)
    BY <1>2, RangeOfStack
  <2>2. QED
    BY <1>3, <2>1 DEF ImportInv, FileShape
<1>5. \A k \in 1..Len(file') : file'[k].directory => Len(file'[k].objects) = k - 1
  BY <1>2, <1>3, <1>4, OverwriteKeepsShape DEF ImportInv
<1>6. /\ export \in {"running", "failing"} /\ export' = "died"
      /\ UNCHANGED <<order, entries, import, position, held>>
  BY DEF ExportDies, importer
<1>7. import \notin {"running", "ok"}
  BY <1>6 DEF ImportInv
<1>8. FileShape' /\ FileIsWritten'
  BY <1>5, <1>6 DEF ImportInv, FileShape, FileIsWritten
<1>9. QED
  BY <1>6, <1>7, <1>8 DEF ImportInv

\* The other steps of an export add entries, and let an import be.
LEMMA ExportKeepsImportInv ==
    ASSUME Inv, ImportInv, export = "running", export' \in {"running", "failing"},
           UNCHANGED <<order, file, importer>>,
           \/ UNCHANGED entries
           \/ \E o \in Object, whole \in BOOLEAN : entries' = Append(entries, Entry(o, whole))
    PROVE  ImportInv'
<1>1. import \notin {"running", "ok"}
  BY DEF ImportInv
<1>2. \A i \in 1..Len(entries') : ~entries'[i].directory
  <2>1. CASE UNCHANGED entries
    BY <2>1 DEF ImportInv, FileShape
  <2>2. CASE ~UNCHANGED entries
    <3>1. PICK e \in Block : entries' = Append(entries, e) /\ ~e.directory
      <4>1. PICK o \in Object, whole \in BOOLEAN : entries' = Append(entries, Entry(o, whole))
        BY <2>2
      <4>2. <<o>> \in Seq(Object)
        OBVIOUS
      <4>3. Entry(o, whole) \in Block /\ ~Entry(o, whole).directory
        BY <4>2 DEF Entry, Block
      <4>4. QED
        BY <4>1, <4>3
    <3>2. entries \in Seq(Block) /\ Len(entries) \in Nat
      BY RangeOfStack DEF Inv, TypeOK
    <3>3. /\ Len(entries') = Len(entries) + 1
          /\ \A i \in 1..Len(entries) : entries'[i] = entries[i]
          /\ entries'[Len(entries) + 1] = e
      BY <3>1, <3>2, AppendProperties
    <3>4. QED
      BY <3>1, <3>2, <3>3 DEF ImportInv, FileShape
  <2>3. QED
    BY <2>1, <2>2
<1>3. FileShape' /\ FileIsWritten'
  BY <1>2 DEF ImportInv, FileShape, FileIsWritten
<1>4. QED
  BY <1>1, <1>3 DEF ImportInv, importer

LEMMA AddObjectKeepsImportInv ==
    ASSUME Inv, ImportInv, export = "running", NEW o \in Object, NEW f, AddObject(o, f),
           UNCHANGED <<order, file, importer>>
    PROVE  ImportInv'
<1>1. export' \in {"running", "failing"}
  BY DEF AddObject, Raise
<1>2. \/ UNCHANGED entries
      \/ \E whole \in BOOLEAN : entries' = Append(entries, Entry(o, whole))
  <2>1. (o \in Whole) \in BOOLEAN
    OBVIOUS
  <2>2. UNCHANGED entries \/ entries' = Append(entries, Entry(o, o \in Whole))
    BY DEF AddObject
  <2>3. QED
    BY <2>1, <2>2
<1>3. QED
  BY <1>1, <1>2, ExportKeepsImportInv

LEMMA ExportStepKeepsImportInv ==
    ASSUME Inv, ImportInv, Export PROVE ImportInv'
<1>1. CASE CloseBundle
  BY <1>1, CloseKeepsImportInv
<1>2. CASE AddSnapshot
  <2>1. export = "running" /\ Top.snapshot \in Object
    BY <1>2, Under, GraphAssumption DEF AddSnapshot
  <2>2. QED
    BY <1>2, <2>1, AddObjectKeepsImportInv DEF AddSnapshot
<1>3. CASE AddContents
  <2>1. export = "running" /\ Top.snapshot \in Snapshot
    BY <1>3, Under DEF AddContents
  <2>2. CASE Contents[Top.snapshot] = None
    BY <1>3, <2>1, <2>2, ExportKeepsImportInv DEF AddContents
  <2>3. CASE Contents[Top.snapshot] # None
    <3>1. Contents[Top.snapshot] \in Object
      BY <2>1, <2>3, Relatives
    <3>2. QED
      BY <1>3, <2>1, <2>3, <3>1, AddObjectKeepsImportInv DEF AddContents
  <2>4. QED
    BY <2>2, <2>3
<1>4. CASE \/ AddNext \/ ReadTree \/ \E h \in Snapshot : AddChild(h)
           \/ ChildrenAdded \/ AddParent \/ ReturnFromAddFile
  <2>1. /\ export = "running" /\ export' \in {"running", "failing"}
        /\ UNCHANGED <<order, file, importer, entries>>
    BY <1>4 DEF AddNext, ReadTree, AddChild, ChildrenAdded, AddParent, ReturnFromAddFile,
                Running, Raise
  <2>2. QED
    BY <2>1, ExportKeepsImportInv
<1>5. QED
  BY <1>1, <1>2, <1>3, <1>4 DEF Export

LEMMA ExportAgainKeepsImportInv ==
    ASSUME RepeatsRelyOnNothing, Inv, ImportInv, ExportAgain PROVE ImportInv'
<1>1. order'.held = {}
  BY DEF RepeatsRelyOnNothing, ExportAgain
<1>2. /\ entries' = <<>> /\ export' = "running" /\ import' = "none"
      /\ UNCHANGED file
  BY DEF ExportAgain
<1>3. Len(<<>>) = 0
  BY EmptySeq
<1>4. QED
  BY <1>1, <1>2, <1>3 DEF ImportInv, FileShape, FileIsWritten

LEMMA ImportStepKeepsImportInv ==
    ASSUME Inv, ImportInv, BeginImport \/ ImportEntry \/ FinishImport \/ ImportDies
    PROVE  ImportInv'
<1>1. UNCHANGED <<order, exporter, file>>
  BY DEF BeginImport, ImportEntry, FinishImport, ImportDies
<1>2. Listed' = Listed /\ (IsValid' <=> IsValid) /\ FileShape' /\ FileIsWritten'
  BY <1>1 DEF Listed, IsValid, HasDirectory, ImportInv, FileShape, FileIsWritten, exporter
<1>3. IsValid => /\ DOMAIN Listed = 1..Len(Listed) /\ Len(Listed) \in Nat
  <2> SUFFICES ASSUME IsValid PROVE Listed \in Seq(Object)
    BY RangeOfStack
  <2>1. file \in Seq(Block) /\ file # <<>>
    BY DEF Inv, TypeOK, IsValid, HasDirectory
  <2>2. Last(file) \in Block
    BY <2>1, EmptySeq, ElementOfSeq DEF Last
  <2>3. QED
    BY <2>2 DEF Listed, Block
<1>4. position \in Nat
  BY DEF Inv, TypeOK
<1>5. CASE BeginImport
  <2>1. /\ export \in {"ok", "failed", "died"} /\ UNCHANGED held /\ position' = 1
        /\ import' \in {"running", "failed"} /\ (import' = "running" => IsValid)
    BY <1>5 DEF BeginImport
  <2>2. import' = "running" => Imported(position)'
    BY <1>2, <1>3, <2>1 DEF Imported
  <2>3. QED
    BY <1>1, <1>2, <2>1, <2>2 DEF ImportInv, exporter
<1>6. CASE ImportEntry
  <2>1. /\ import = "running" /\ import' = "running" /\ position' = position + 1
        /\ held' = held \cup {Listed[position]}
    BY <1>6 DEF ImportEntry
  <2>2. Imported(position)'
    BY <1>2, <1>3, <1>4, <2>1 DEF ImportInv, Imported
  <2>3. QED
    BY <1>1, <1>2, <2>1, <2>2 DEF ImportInv, exporter
<1>7. CASE FinishImport
  <2>1. /\ import = "running" /\ import' = "ok" /\ position > Len(Listed)
        /\ UNCHANGED held
    BY <1>7 DEF FinishImport
  <2>2. \A i \in DOMAIN Listed : Listed[i] \in held
    BY <1>3, <1>4, <2>1 DEF ImportInv, Imported
  <2>3. QED
    BY <1>1, <1>2, <2>1, <2>2 DEF ImportInv, exporter
<1>8. CASE ImportDies
  <2>1. import' = "failed" /\ held \subseteq held'
    BY <1>8 DEF ImportDies
  <2>2. QED
    BY <1>1, <1>2, <2>1 DEF ImportInv, exporter
<1>9. QED
  BY <1>5, <1>6, <1>7, <1>8

LEMMA ImportInvKept ==
    ASSUME RepeatsRelyOnNothing, Inv, ImportInv, [Next]_vars PROVE ImportInv'
<1>1. CASE UNCHANGED vars
  BY <1>1 DEF vars, exporter, importer, ImportInv, FileShape, FileIsWritten, Imported,
              Listed, IsValid, HasDirectory
<1>2. CASE Export
  BY <1>2, ExportStepKeepsImportInv
<1>3. CASE Import \/ ImportDies
  BY <1>3, ImportStepKeepsImportInv DEF Import
<1>4. QED
  BY <1>1, <1>2, <1>3, ExportDiesKeepsImportInv, ExportAgainKeepsImportInv DEF Next

\* After an import that reports success the archive holds what is in the bundle.
LEMMA BundledIsHeld ==
    ASSUME Inv, ImportInv, import = "ok", export = "ok" PROVE Bundled \subseteq held
<1>1. /\ file \in Seq(Block) /\ file # <<>> /\ entries \in Seq(Block)
      /\ IsValid /\ HasDirectory
  BY DEF ImportInv, IsValid, HasDirectory, Inv, TypeOK
<1>2. /\ Len(file) \in Nat \ {0} /\ Len(entries) \in Nat
      /\ DOMAIN entries = 1..Len(entries)
  BY <1>1, EmptySeq, RangeOfStack
<1>3. Last(file) \in Block /\ Last(file) = file[Len(file)]
  BY <1>1, <1>2, ElementOfSeq DEF Last
<1>4. DOMAIN Listed = 1..Len(Listed) /\ Len(Listed) = Len(file) - 1
  <2>1. Listed \in Seq(Object)
    BY <1>3 DEF Listed, Block
  <2>2. QED
    BY <1>1, <1>2, <1>3, <2>1, RangeOfStack DEF HasDirectory, Listed, ImportInv, FileShape
<1>5. Len(file) = Len(entries) + 1
  <2> SUFFICES ASSUME Len(entries) + 1 < Len(file) PROVE FALSE
    BY <1>2 DEF ImportInv, FileIsWritten
  <2>1. Len(entries) + 1 \in DOMAIN Listed
    BY <1>2, <1>4
  <2>2. file[Len(entries) + 1] = Entry(Listed[Len(entries) + 1], TRUE)
    BY <1>1, <2>1 DEF IsValid
  <2>3. ~file[Len(entries) + 1].directory
    BY <2>2 DEF Entry
  <2>4. QED
    BY <2>3 DEF ImportInv, FileIsWritten
<1>6. ASSUME NEW i \in DOMAIN entries PROVE entries[i].objects[1] \in held
  <2>1. i \in DOMAIN Listed
    BY <1>2, <1>4, <1>5
  <2>2. Listed[i] = entries[i].objects[1]
    BY <1>2, <1>3, <1>5 DEF Listed, ImportInv, FileIsWritten
  <2>3. QED
    BY <2>1, <2>2 DEF ImportInv
<1>7. QED
  BY <1>6 DEF Bundled

\* Leaving out a closed set leaves out only what is in that set.
LEMMA ExclusionLosesNothing ==
    ASSUME NEW o \in Order, IsClosed(o.exclude, o.recurseParents)
    PROVE  Asked([o EXCEPT !.exclude = {}]) \subseteq Asked(o) \cup o.exclude
<1> DEFINE all == [o EXCEPT !.exclude = {}]
           S == Reached(o) \cup (o.exclude \cap Snapshot)
<1>1. /\ all.snapshots = o.snapshots /\ all.exclude = {}
      /\ all.recurseParents = o.recurseParents
  BY DEF Order
<1>2. Reached(o) \subseteq Snapshot /\ Reaches(o, Reached(o))
  BY ReachedIsClosed
<1>3. Reaches(all, S)
  <2>1. ASSUME NEW h \in S PROVE Children(h) \subseteq S
    <3>1. h \in Snapshot /\ Children(h) \subseteq Snapshot
      BY <1>2, Relatives
    <3>2. CASE h \in Reached(o)
      BY <1>2, <3>1, <3>2 DEF Reaches
    <3>3. CASE h \in o.exclude
      BY <3>1, <3>3 DEF IsClosed
    <3>4. QED
      BY <3>2, <3>3
  <2>2. ASSUME NEW h \in S, o.recurseParents PROVE Before(h) \subseteq S
    <3>1. h \in Snapshot /\ Before(h) \subseteq Snapshot
      BY <1>2, Relatives
    <3>2. CASE h \in Reached(o)
      BY <1>2, <2>2, <3>1, <3>2 DEF Reaches
    <3>3. CASE h \in o.exclude
      BY <2>2, <3>1, <3>3 DEF IsClosed
    <3>4. QED
      BY <3>2, <3>3
  <2> HIDE DEF all
  <2>3. QED
    BY <1>1, <1>2, <2>1, <2>2 DEF Reaches
<1>4. Reached(all) \subseteq S
  <2>1. S \in SUBSET Snapshot
    BY <1>2
  <2> HIDE DEF all, S
  <2>2. QED
    BY <1>3, <2>1, ReachedIsLeast
<1>5. WithContents(S) \subseteq WithContents(Reached(o)) \cup o.exclude
  BY DEF WithContents, IsClosed
<1>6. Asked(all) \subseteq WithContents(S)
  <2> HIDE DEF all, S
  <2>1. QED
    BY <1>4 DEF Asked, WithContents
<1>7. QED
  BY <1>5, <1>6 DEF Asked

\* Leaving out everything that the importing archive holds, with all that belongs
\* to it, is sound: after an import that reports success that archive holds all of
\* the snapshots asked for, whatever was interrupted before and however often.
THEOREM IncrementalExports ==
    ASSUME RepeatsRelyOnNothing PROVE Spec => []IncrementalExportSuffices
<1>1. Init => Inv /\ Progress /\ ImportInv
  BY InvInitially, ProgressInitially, ImportInvInitially DEF Init, Begins
<1>2. Inv /\ Progress /\ ImportInv /\ [Next]_vars => (Inv /\ Progress /\ ImportInv)'
  BY InvKept, ProgressKept, ImportInvKept
<1>3. Inv /\ Progress /\ ImportInv => IncrementalExportSuffices
  <2> SUFFICES ASSUME Inv, Progress, ImportInv, import = "ok", export = "ok",
                      IsComplete(order), IsClosed(order.exclude, order.recurseParents),
                      order.exclude \subseteq order.held
               PROVE  Asked([order EXCEPT !.exclude = {}]) \subseteq held
    BY DEF IncrementalExportSuffices
  <2>1. Asked(order) \subseteq held
    BY CompleteAtEnd, BundledIsHeld DEF OkMeansComplete
  <2>2. order.exclude \subseteq held
    BY DEF ImportInv
  <2>3. order \in Order
    BY DEF Inv, TypeOK
  <2>4. QED
    BY <2>1, <2>2, <2>3, ExclusionLosesNothing
<1>4. QED
  BY <1>1, <1>2, <1>3, PTL DEF Spec
=============================================================================
