----------------------------- MODULE FileMirror -----------------------------
(***************************************************************************)
(* A directory as a mirror: the helpers rvcs-push-file and rvcs-pull-file  *)
(* (extensions/), for one identity.  The mirror holds a main bundle with   *)
(* the latest signature, and numbered bundles with what was pushed before; *)
(* each bundle has the objects that those before it lack, and lists the    *)
(* numbers of those, the latest first.  One user pushes, any archives      *)
(* pull meanwhile, and all of the commands may die.                        *)
(*                                                                         *)
(* The signatures are one line (Publish), and are numbered along it.  The  *)
(* objects that come with a signature stand for one object with its        *)
(* number, so all that belongs to the signature n is 1..n.  What `rvcs     *)
(* export` and `rvcs import` do with a bundle is taken from Bundle: with   *)
(* -include-parents an export writes all of 1..n that is not excluded.     *)
(***************************************************************************)
EXTENDS Integers, Sequences, SequencesExt

CONSTANTS
    Archive,            \* the archives that pull
    NoBundle,           \* no file
    Torn,               \* a bundle that was not written to its end
    Radix,              \* ten: numbers are compared as they are written
    MaxSignatures,      \* bound on the signatures pushed
    MaxDeaths           \* bound on the commands that die

ASSUME RadixAssumption == Radix \in Nat \ {0, 1}
ASSUME BoundsAssumption == MaxSignatures \in Nat /\ MaxDeaths \in Nat

Signature == 1..MaxSignatures
Number == 1..MaxSignatures

Bundle == [signature : Signature, objects : SUBSET Signature,
           exclude : SUBSET Signature, previous : Seq(Number)]

ASSUME SpecialAssumption == NoBundle # Torn /\ {NoBundle, Torn} \cap Bundle = {}

VARIABLES
    main,               \* the main bundle
    saved,              \* the numbered bundles
    push,               \* the push under way
    pushed,             \* the latest signature whose push has begun
    pull,               \* the pull each archive is in
    held,               \* the objects each archive holds
    output,             \* what the last successful pull of each archive wrote
    disturbed,          \* the archives with a pull that died or met a push
    deaths              \* how many commands have died

mirror == <<main, saved>>
pusher == <<push, pushed>>
puller == <<pull, held, output>>
vars == <<mirror, pusher, puller, disturbed, deaths>>

NoPush == [pc |-> "idle"]
NoPull == [pc |-> "idle"]

PushState ==
    {NoPush}
    \cup [pc : {"move"}, signature : Signature]
    \cup [pc : {"export", "write"}, signature : Signature, exclude : SUBSET Signature,
          previous : Seq(Number)]

\* A pull has read the signature, and has the numbered bundles left to import.
PullState ==
    {NoPull, [pc |-> "import"], [pc |-> "signature"]}
    \cup [pc : {"previous"}, signature : 0..MaxSignatures]
    \cup [pc : {"chain"}, signature : 0..MaxSignatures, left : Seq(Number)]

TypeOK ==
    /\ main \in Bundle \cup {NoBundle, Torn}
    /\ saved \in [Number -> Bundle \cup {NoBundle, Torn}]
    /\ push \in PushState
    /\ pushed \in 0..MaxSignatures
    /\ pull \in [Archive -> PullState]
    /\ held \in [Archive -> SUBSET Signature]
    /\ output \in [Archive -> 0..MaxSignatures]
    /\ disturbed \subseteq Archive
    /\ deaths \in 0..MaxDeaths

Init ==
    /\ main = NoBundle
    /\ saved = [n \in Number |-> NoBundle]
    /\ push = NoPush /\ pushed = 0
    /\ pull = [a \in Archive |-> NoPull]
    /\ held = [a \in Archive |-> {}]
    /\ output = [a \in Archive |-> 0]
    /\ disturbed = {} /\ deaths = 0

-----------------------------------------------------------------------------
(***************************************************************************)
(* rvcs-push-file.                                                         *)
(***************************************************************************)
\* A change of the mirror disturbs the pulls under way.
Disturb == disturbed' = disturbed \cup {a \in Archive : pull[a].pc # "idle"}

\* The digits of a number, and the order in which bash puts two strings.
Digits[n \in Nat] ==
    IF n < Radix THEN <<n>> ELSE Append(Digits[n \div Radix], n % Radix)

SortsBefore(m, n) ==
    LET s == Digits[m]
        t == Digits[n]
    IN  \/ Len(s) < Len(t) /\ s = SubSeq(t, 1, Len(s))
        \/ \E i \in DOMAIN s \cap DOMAIN t :
              SubSeq(s, 1, i - 1) = SubSeq(t, 1, i - 1) /\ s[i] < t[i]

\* Fault: the first of the list is not looked at.
HighestOfTail(previous) ==
    LET numbers == {0} \cup {previous[i] : i \in DOMAIN previous \ {1}}
    IN  CHOOSE h \in numbers : \A n \in numbers : ~SortsBefore(h, n)

\* The loop over the numbers keeps the last one, as they sort.
Highest(previous) ==
    LET numbers == {0} \cup Range(previous)
    IN  CHOOSE h \in numbers : \A n \in numbers : ~SortsBefore(h, n)

\* Fault: the number is not counted up.
SameNumber(previous) == Highest(previous)

NextNumber(previous) == Highest(previous) + 1

\* The latest signature is pushed again, or the next.  Nothing happens when
\* the mirror has it already.
BeginPush(s) ==
    /\ push = NoPush
    /\ main \in Bundle => main.signature # s
    /\ pushed' = s
    /\ push' = IF main = NoBundle
               THEN [pc |-> "export", signature |-> s, exclude |-> {}, previous |-> <<>>]
               ELSE [pc |-> "move", signature |-> s]
    /\ UNCHANGED <<mirror, puller, disturbed, deaths>>

\* The main bundle gets the next number, over the bundle with that number if
\* there is one.  The new one excludes what is in it and what it excludes.
MoveMain ==
    /\ push.pc = "move" /\ main \in Bundle
    /\ LET number == NextNumber(main.previous)
       IN  /\ saved' = [saved EXCEPT ![number] = main]
           /\ push' = [pc |-> "export", signature |-> push.signature,
                       exclude |-> main.objects \cup main.exclude,
                       previous |-> <<number>> \o main.previous]
    /\ main' = NoBundle
    /\ Disturb
    /\ UNCHANGED <<pushed, puller, deaths>>

\* A torn bundle lists no numbers, so it becomes the first; then its entries
\* cannot be listed, and the script ends.
MoveTorn ==
    /\ push.pc = "move" /\ main = Torn
    /\ saved' = [saved EXCEPT ![1] = Torn]
    /\ main' = NoBundle
    /\ push' = NoPush
    /\ Disturb
    /\ UNCHANGED <<pushed, puller, deaths>>

\* `rvcs export` opens the file, and is done with it.
BeginExport ==
    /\ push.pc = "export"
    /\ main' = Torn
    /\ push' = [push EXCEPT !.pc = "write"]
    /\ Disturb
    /\ UNCHANGED <<saved, pushed, puller, deaths>>

FinishExport ==
    /\ push.pc = "write"
    /\ main' = [signature |-> push.signature,
                objects   |-> (1..push.signature) \ push.exclude,
                exclude   |-> push.exclude, previous |-> push.previous]
    /\ push' = NoPush
    /\ Disturb
    /\ UNCHANGED <<saved, pushed, puller, deaths>>

PushDies ==
    /\ push # NoPush /\ deaths < MaxDeaths
    /\ deaths' = deaths + 1
    /\ push' = NoPush
    /\ UNCHANGED <<mirror, pushed, puller, disturbed>>

Push ==
    \/ \E s \in Signature \cap {pushed, pushed + 1} : BeginPush(s)
    \/ MoveMain \/ MoveTorn \/ BeginExport \/ FinishExport

-----------------------------------------------------------------------------
(***************************************************************************)
(* rvcs-pull-file.                                                         *)
(***************************************************************************)
Becomes(a, c) == pull' = [pull EXCEPT ![a] = c]
Importing(a, b) == held' = [held EXCEPT ![a] = @ \cup b.objects]

\* The script ends well, with what it has written to its output file.
Returns(a, s) == Becomes(a, NoPull) /\ output' = [output EXCEPT ![a] = s]

\* It writes nothing when the mirror has no bundle.
BeginPull(a) ==
    /\ pull[a] = NoPull
    /\ IF main = NoBundle THEN Returns(a, 0) ELSE Becomes(a, [pc |-> "import"]) /\ UNCHANGED output
    /\ UNCHANGED <<mirror, pusher, held, disturbed, deaths>>

\* An import that fails ends the script.
ImportMain(a) ==
    /\ pull[a].pc = "import"
    /\ IF main \in Bundle
       THEN Importing(a, main) /\ Becomes(a, [pc |-> "signature"])
       ELSE UNCHANGED held /\ Becomes(a, NoPull)
    /\ UNCHANGED <<mirror, pusher, output, disturbed, deaths>>

\* The main bundle is opened again for its signature and once more for the
\* numbers.  What cannot be read is empty.
ReadSignature(a) ==
    /\ pull[a].pc = "signature"
    /\ Becomes(a, [pc |-> "previous", signature |-> IF main \in Bundle THEN main.signature ELSE 0])
    /\ UNCHANGED <<mirror, pusher, held, output, disturbed, deaths>>

ReadPrevious(a) ==
    /\ pull[a].pc = "previous"
    /\ Becomes(a, [pc |-> "chain", signature |-> pull[a].signature,
                   left |-> IF main \in Bundle THEN main.previous ELSE <<>>])
    /\ UNCHANGED <<mirror, pusher, held, output, disturbed, deaths>>

\* Fault: the bundles are imported from the oldest to the latest.
ImportOldest(a) ==
    /\ pull[a].pc = "chain" /\ pull[a].left # <<>>
    /\ LET b == saved[Last(pull[a].left)]
       IN  IF b \notin Bundle
           THEN Becomes(a, NoPull) /\ UNCHANGED <<held, output>>
           ELSE /\ Importing(a, b)
                /\ IF b.objects \subseteq held[a]
                   THEN Returns(a, pull[a].signature)
                   ELSE Becomes(a, [pull[a] EXCEPT !.left = Front(@)]) /\ UNCHANGED output
    /\ UNCHANGED <<mirror, pusher, disturbed, deaths>>

\* The script ends early when an import brings nothing new.
ImportPrevious(a) ==
    /\ pull[a].pc = "chain" /\ pull[a].left # <<>>
    /\ LET b == saved[Head(pull[a].left)]
       IN  IF b \notin Bundle
           THEN Becomes(a, NoPull) /\ UNCHANGED <<held, output>>
           ELSE /\ Importing(a, b)
                /\ IF b.objects \subseteq held[a]
                   THEN Returns(a, pull[a].signature)
                   ELSE Becomes(a, [pull[a] EXCEPT !.left = Tail(@)]) /\ UNCHANGED output
    /\ UNCHANGED <<mirror, pusher, disturbed, deaths>>

FinishPull(a) ==
    /\ pull[a].pc = "chain" /\ pull[a].left = <<>>
    /\ Returns(a, pull[a].signature)
    /\ UNCHANGED <<mirror, pusher, held, disturbed, deaths>>

\* A pull dies, perhaps with a part of a bundle imported.
PullDies(a) ==
    /\ pull[a] # NoPull /\ deaths < MaxDeaths
    /\ deaths' = deaths + 1
    /\ Becomes(a, NoPull)
    /\ LET b == IF pull[a].pc = "import" THEN main
                ELSE IF pull[a].pc = "chain" /\ pull[a].left # <<>>
                THEN saved[Head(pull[a].left)]
                ELSE Torn
       IN  \E part \in SUBSET (IF b \in Bundle THEN b.objects ELSE {}) :
              held' = [held EXCEPT ![a] = @ \cup part]
    /\ disturbed' = disturbed \cup {a}
    /\ UNCHANGED <<mirror, pusher, output>>

Pull(a) ==
    \/ BeginPull(a) \/ ImportMain(a) \/ ReadSignature(a) \/ ReadPrevious(a)
    \/ ImportPrevious(a) \/ FinishPull(a)

Next == Push \/ PushDies \/ \E a \in Archive : Pull(a) \/ PullDies(a)

Spec == Init /\ [][Next]_vars

-----------------------------------------------------------------------------
\* The bundles that the main bundle leads to, and what is in them.
Chain == {main} \cup {saved[n] : n \in Range(main.previous)}

\* All that belongs to the latest signature is in the bundles the main one
\* leads to, wherever pushes die: what is excluded is always somewhere else.
MirrorIsComplete ==
    main \in Bundle =>
        /\ Chain \subseteq Bundle
        /\ 1..main.signature \subseteq UNION {b.objects : b \in Chain}

\* What a pull writes comes with all of its history, although the pull stops
\* at the first bundle with nothing new: in an archive of which no pull has
\* died or met a push.
PulledIsComplete ==
    \A a \in Archive \ disturbed : 1..output[a] \subseteq held[a]

\* rvcs-push-file:60-62: the bundle that was pushed before is saved to a new
\* location, not over another one that is still needed.
SavedToNewLocation ==
    push.pc \in {"export", "write"} =>
        \A i, j \in DOMAIN push.previous : push.previous[i] = push.previous[j] => i = j

\* README:218-219: the signature that a pull writes is one that it has pulled.
OutputIsPulled ==
    \A a \in Archive : output[a] # 0 => output[a] \in held[a]
=============================================================================
