---------------------------- MODULE PublishProofs ----------------------------
(***************************************************************************)
(* What holds when one archive publishes to an identity, for any number of *)
(* archives, mirrors and snapshots: whatever fails in between, the mirror  *)
(* that is asked last only moves forward, and what has been published is   *)
(* one line of signatures.                                                 *)
(***************************************************************************)
EXTENDS Publish, SequenceTheorems, TLAPS

\* What the theorems assume: one publisher, and settings that stay.
OnePublisher == (\E p \in Archive : Publisher = {p}) /\ Editor = {}

-----------------------------------------------------------------------------
(***************************************************************************)
(* Prefixes.                                                               *)
(***************************************************************************)
\* One sequence is a prefix of another if it has no entry that differs.
LEMMA PrefixByEntries ==
    ASSUME NEW S, NEW s \in Seq(S), NEW t \in Seq(S)
    PROVE  IsPrefix(s, t) <=> (Len(s) <= Len(t) /\ \A i \in 1..Len(s) : s[i] = t[i])
<1>1. Len(s) \in Nat /\ Len(t) \in Nat
  OBVIOUS
<1>2. SubSeq(s, 1, Len(s)) = s
  BY SubSeqFull
<1>3. CASE Len(s) <= Len(t)
  <2>1. \A i \in 1..Len(s) : t[i] \in S
    BY <1>1, <1>3, ElementOfSeq
  <2>2. /\ SubSeq(t, 1, Len(s)) \in Seq(S)
        /\ Len(SubSeq(t, 1, Len(s))) = IF 1 <= Len(s) THEN Len(s) - 1 + 1 ELSE 0
        /\ \A i \in 1..(Len(s) - 1 + 1) : SubSeq(t, 1, Len(s))[i] = t[1 + i - 1]
    BY <1>1, <2>1, SubSeqProperties
  <2>3. /\ Len(SubSeq(t, 1, Len(s))) = Len(s)
        /\ \A i \in 1..Len(s) : SubSeq(t, 1, Len(s))[i] = t[i]
    BY <1>1, <2>2
  <2>4. (s = SubSeq(t, 1, Len(s))) <=> \A i \in 1..Len(s) : s[i] = t[i]
    BY <2>2, <2>3, SeqEqual
  <2>5. QED
    BY <1>2, <1>3, <2>4 DEF IsPrefix
<1>4. CASE ~(Len(s) <= Len(t))
  BY <1>4 DEF IsPrefix
<1>5. QED
  BY <1>3, <1>4

LEMMA PrefixReflexive ==
    ASSUME NEW S, NEW s \in Seq(S)
    PROVE  IsPrefix(s, s)
<1>1. Len(s) \in Nat
  OBVIOUS
<1>2. IsPrefix(s, s) <=> (Len(s) <= Len(s) /\ \A i \in 1..Len(s) : s[i] = s[i])
  BY PrefixByEntries
<1>3. QED
  BY <1>1, <1>2

LEMMA PrefixTransitive ==
    ASSUME NEW S, NEW s \in Seq(S), NEW t \in Seq(S), NEW u \in Seq(S),
           IsPrefix(s, t), IsPrefix(t, u)
    PROVE  IsPrefix(s, u)
<1>1. Len(s) \in Nat /\ Len(t) \in Nat /\ Len(u) \in Nat
  OBVIOUS
<1>2. Len(s) <= Len(t) /\ \A i \in 1..Len(s) : s[i] = t[i]
  BY PrefixByEntries
<1>3. Len(t) <= Len(u) /\ \A i \in 1..Len(t) : t[i] = u[i]
  BY PrefixByEntries
<1>4. Len(s) <= Len(u) /\ \A i \in 1..Len(s) : s[i] = u[i]
  BY <1>1, <1>2, <1>3
<1>5. QED
  BY <1>4, PrefixByEntries

LEMMA PrefixOfAppend ==
    ASSUME NEW S, NEW s \in Seq(S), NEW t \in Seq(S), NEW e \in S, IsPrefix(s, t)
    PROVE  Append(t, e) \in Seq(S) /\ IsPrefix(s, Append(t, e))
<1>1. Len(s) \in Nat /\ Len(t) \in Nat
  OBVIOUS
<1>2. /\ Append(t, e) \in Seq(S) /\ Len(Append(t, e)) = Len(t) + 1
      /\ \A i \in 1..Len(t) : Append(t, e)[i] = t[i]
  BY AppendProperties
<1>3. DEFINE u == Append(t, e)
<1>4. /\ u \in Seq(S) /\ Len(t) <= Len(u)
      /\ \A i \in 1..Len(t) : t[i] = u[i]
  BY <1>1, <1>2
<1>5. IsPrefix(s, u)
  <2>1. HIDE DEF u
  <2>2. IsPrefix(t, u)
    BY <1>4, PrefixByEntries
  <2>3. QED
    BY <1>4, <2>2, PrefixTransitive
<1>6. QED
  BY <1>4, <1>5

\* Two prefixes of one sequence are comparable.
LEMMA PrefixesAreComparable ==
    ASSUME NEW S, NEW s \in Seq(S), NEW t \in Seq(S), NEW u \in Seq(S),
           IsPrefix(s, u), IsPrefix(t, u)
    PROVE  IsPrefix(s, t) \/ IsPrefix(t, s)
<1>1. Len(s) \in Nat /\ Len(t) \in Nat
  OBVIOUS
<1>2. /\ \A i \in 1..Len(s) : s[i] = u[i]
      /\ \A i \in 1..Len(t) : t[i] = u[i]
  BY PrefixByEntries
<1>3. CASE Len(s) <= Len(t)
  <2>1. \A i \in 1..Len(s) : s[i] = t[i]
    BY <1>1, <1>2, <1>3
  <2>2. QED
    BY <1>3, <2>1, PrefixByEntries
<1>4. CASE Len(t) <= Len(s)
  <2>1. \A i \in 1..Len(t) : t[i] = s[i]
    BY <1>1, <1>2, <1>4
  <2>2. QED
    BY <1>4, <2>1, PrefixByEntries
<1>5. QED
  BY <1>1, <1>3, <1>4

\* The last of the mirrors that are left.
LEMMA LastOfTail ==
    ASSUME NEW S, NEW s \in Seq(S), s # <<>>
    PROVE  /\ Head(s) \in S /\ Tail(s) \in Seq(S)
           /\ Tail(s) = <<>> => Head(s) = Last(s)
           /\ Tail(s) # <<>> => Last(Tail(s)) = Last(s)
<1>1. Len(s) \in Nat \ {0} /\ Head(s) = s[1]
  BY EmptySeq
<1>2. /\ Head(s) \in S /\ Tail(s) \in Seq(S) /\ Len(Tail(s)) = Len(s) - 1
      /\ \A i \in 1..Len(Tail(s)) : Tail(s)[i] = s[i + 1]
  BY HeadTailProperties
<1>3. ASSUME Tail(s) = <<>> PROVE Head(s) = Last(s)
  <2>1. Len(<<>>) = 0
    OBVIOUS
  <2>2. Len(Tail(s)) = 0
    BY <1>3, <2>1, Zenon
  <2>3. Len(s) - 1 = 0
    BY <1>2, <2>2
  <2>4. Len(s) = 1
    BY <1>1, <2>3
  <2>5. QED
    BY <1>1, <2>4 DEF Last
<1>4. ASSUME Tail(s) # <<>> PROVE Last(Tail(s)) = Last(s)
  <2>1. Len(Tail(s)) \in Nat \ {0}
    BY <1>2, <1>4, EmptySeq
  <2>2. Tail(s)[Len(Tail(s))] = s[Len(Tail(s)) + 1]
    BY <1>2, <2>1
  <2>3. Len(Tail(s)) + 1 = Len(s)
    BY <1>1, <1>2
  <2>4. QED
    BY <2>2, <2>3 DEF Last
<1>5. QED
  BY <1>2, <1>3, <1>4

\* A mirror that is left is the next one or still left afterwards.
LEMMA LeftOfTail ==
    ASSUME NEW S, NEW s \in Seq(S), s # <<>>, NEW e \in ToSet(s)
    PROVE  e = Head(s) \/ e \in ToSet(Tail(s))
<1>1. Len(s) \in Nat \ {0} /\ Head(s) = s[1]
  BY EmptySeq
<1>2. /\ Tail(s) \in Seq(S) /\ Len(Tail(s)) = Len(s) - 1
      /\ \A i \in 1..Len(Tail(s)) : Tail(s)[i] = s[i + 1]
  BY HeadTailProperties
<1>3. DOMAIN s = 1..Len(s) /\ DOMAIN Tail(s) = 1..Len(Tail(s))
  BY <1>2
<1>4. PICK i \in 1..Len(s) : e = s[i]
  BY <1>3 DEF ToSet
<1>5. CASE i = 1
  BY <1>1, <1>4, <1>5
<1>6. CASE i # 1
  <2>1. i - 1 \in 1..Len(Tail(s)) /\ Tail(s)[i - 1] = s[i]
    BY <1>1, <1>2, <1>6
  <2>2. QED
    BY <1>3, <1>4, <2>1 DEF ToSet
<1>7. QED
  BY <1>5, <1>6

LEMMA EntriesOfSeq ==
    ASSUME NEW S, NEW s \in Seq(S)
    PROVE  ToSet(s) \subseteq S /\ (s # <<>> => Last(s) \in S)
<1>1. DOMAIN s = 1..Len(s) /\ Len(s) \in Nat
  OBVIOUS
<1>2. \A i \in 1..Len(s) : s[i] \in S
  BY ElementOfSeq
<1>3. ToSet(s) \subseteq S
  BY <1>1, <1>2 DEF ToSet
<1>4. ASSUME s # <<>> PROVE Last(s) \in S
  <2>1. Len(s) # 0
    BY <1>4, EmptySeq
  <2>2. QED
    BY <1>1, <1>2, <2>1 DEF Last
<1>5. QED
  BY <1>3, <1>4

LEMMA PullOrderType ==
    ASSUME NEW s \in Settings
    PROVE  PullOrder(s) \in Seq(Mirror)
<1>1. s.own \in Seq(MirrorSetting) /\ s.additional \in Seq(MirrorSetting)
  BY DEF Settings
<1>2. PICK ms \in Seq(MirrorSetting) : ms = s.own \o s.additional
  BY <1>1, ConcatProperties
<1>3. DOMAIN ms = 1..Len(ms) /\ Len(ms) \in Nat /\ \A i \in 1..Len(ms) : ms[i] \in MirrorSetting
  BY ElementOfSeq
<1>4. MirrorsOf(ms) \in [1..Len(ms) -> Mirror]
  BY <1>3 DEF MirrorsOf, MirrorSetting
<1>5. \A f, n : n \in Nat /\ f \in [1..n -> Mirror] => f \in Seq(Mirror)
  BY SeqDef, Zenon
<1>6. MirrorsOf(ms) \in Seq(Mirror)
  BY <1>3, <1>4, <1>5, Zenon
<1>7. PullOrder(s) = MirrorsOf(ms)
  BY <1>2, Zenon DEF PullOrder
<1>8. QED
  BY <1>6, <1>7, Zenon

-----------------------------------------------------------------------------
(***************************************************************************)
(* The inductive invariant.  It relates what each call knows to what the   *)
(* mirror asked last holds (held is the signatures of the mirrors):        *)
(* nobody but the publisher changes it, and the publisher asks it last.    *)
(***************************************************************************)
\* Once the mirrors have been asked.
Later == {"record", "write", "sign", "push", "return"}

\* A call that asks the authority last.
Fresh(c, held) ==
    c.last = Authority =>
        /\ c.pc = "pull" /\ c.pull # <<>> => Last(c.pull) = Authority
        /\ c.pc \notin {"idle", "resolve"} => IsPrefix(c.known, held[Authority])
        /\ c.pc = "pull" /\ c.pull = <<>> => IsPrefix(c.known, c.sig)
        /\ c.pc \in Later => IsPrefix(c.known, c.sig)

\* A call of the publisher, be it for a lookup: it knows what the authority
\* holds, or what that is to become.
Leads(c, held) ==
    /\ c.pc \in Later \cup {"pull"} => c.last = Authority
    /\ c.pc = "pull" /\ c.pull = <<>> => c.sig = held[Authority]
    /\ c.pc \in Later => IsPrefix(held[Authority], c.sig)

\* A call for publishing: which mirrors hold its signature.
Reaches(c, held) ==
    /\ c.pc \in {"sign", "push"} => c.op = "publish"
    /\ c.pc = "push" => c.sig # <<>>
    /\ c.op = "publish" =>
           /\ Authority \in c.targets
           /\ c.pc \notin {"push", "return"} => c.targets \subseteq ToSet(c.push)
           /\ c.pc = "push" => \A m \in c.targets : m \in ToSet(c.push) \/ held[m] = c.sig
           /\ c.pc = "return" => \A m \in c.targets : held[m] = c.sig

CallInv(a, c, held) ==
    /\ Fresh(c, held)
    /\ Reaches(c, held)
    /\ a \in Publisher => Leads(c, held)
    /\ c.op = "publish" => a \in Publisher

\* The rest of the type invariant.
RestTyped ==
    /\ local \in [Archive -> Signature]
    /\ made \subseteq Signature \ {<<>>} /\ published \subseteq Signature \ {<<>>}
    /\ edits \in 0..MaxEdits /\ aborts \in 0..MaxAborts

PublishedIsHeld == \A s \in published : IsPrefix(s, latest[Authority])

Inv ==
    /\ TypeOK
    /\ settings = FirstSettings
    /\ \A a \in Archive : CallInv(a, call[a], latest)
    /\ PublishedIsHeld

LEMMA IdleIsFine ==
    /\ Idle \in Call
    /\ \A a, held : CallInv(a, Idle, held)
<1>1. Idle \in Call
  BY SnapshotAssumption DEF Idle, Call, Signature
<1>2. Idle.pc = "idle" /\ Idle.op = "lookup" /\ Idle.last = NoMirror
  BY DEF Idle
<1>3. NoMirror # Authority
  BY MirrorAssumption
<1>4. QED
  BY <1>1, <1>2, <1>3 DEF CallInv, Fresh, Leads, Reaches, Later

LEMMA InvInitially == Init => Inv
<1> SUFFICES ASSUME Init PROVE Inv
  OBVIOUS
<1>1. settings \in [Archive -> Settings] /\ settings = FirstSettings
  BY SettingsAssumption DEF Init
<1>2. <<>> \in Signature
  BY DEF Signature
<1>3. local \in [Archive -> Signature] /\ latest \in [Mirror -> Signature]
  BY <1>2 DEF Init
<1>4. call \in [Archive -> Call] /\ \A a \in Archive : call[a] = Idle
  BY IdleIsFine DEF Init
<1>5. made = {} /\ published = {} /\ edits \in 0..MaxEdits /\ aborts \in 0..MaxAborts
  BY BoundsAssumption DEF Init
<1>6. TypeOK
  BY <1>1, <1>3, <1>4, <1>5 DEF TypeOK
<1>7. \A a \in Archive : CallInv(a, call[a], latest)
  BY <1>4, IdleIsFine
<1>8. QED
  BY <1>1, <1>5, <1>6, <1>7 DEF Inv, PublishedIsHeld

\* A step of one call that leaves the mirrors alone.
LEMMA MoveKeeps ==
    ASSUME Inv, NEW a \in Archive, NEW c \in Call,
           Becomes(a, c), CallInv(a, c, latest),
           settings' = settings, latest' = latest, RestTyped', PublishedIsHeld'
    PROVE  Inv'
<1>1. call \in [Archive -> Call] /\ settings \in [Archive -> Settings]
      /\ latest \in [Mirror -> Signature]
  BY DEF Inv, TypeOK
<1>2. call' \in [Archive -> Call] /\ \A b \in Archive : call'[b] = IF b = a THEN c ELSE call[b]
  BY <1>1 DEF Becomes
<1>3. TypeOK'
  BY <1>1, <1>2 DEF TypeOK, RestTyped
<1>4. settings' = FirstSettings
  BY DEF Inv
<1>5. \A b \in Archive : CallInv(b, call[b], latest)
  BY DEF Inv
<1>6. \A b \in Archive : CallInv(b, call'[b], latest')
  BY <1>2, <1>5
<1>7. QED
  BY <1>3, <1>4, <1>6 DEF Inv

\* What the invariant says of one call.
LEMMA InvOfCall ==
    ASSUME Inv, NEW a \in Archive
    PROVE  /\ call[a] \in Call
           /\ CallInv(a, call[a], latest)
           /\ latest \in [Mirror -> Signature] /\ settings[a] \in Settings
           /\ settings[a] = FirstSettings[a]
           /\ RestTyped /\ PublishedIsHeld
  BY DEF Inv, TypeOK, RestTyped

\* Steps that change nothing but the call.
LEMMA CallKeeps ==
    ASSUME Inv, NEW a \in Archive, NEW c \in Call,
           Becomes(a, c), CallInv(a, c, latest),
           UNCHANGED <<settings, local, latest, made, published, edits, aborts>>
    PROVE  Inv'
<1>1. RestTyped /\ PublishedIsHeld
  BY InvOfCall
<1>2. settings' = settings /\ latest' = latest /\ RestTyped' /\ PublishedIsHeld'
  BY <1>1 DEF RestTyped, PublishedIsHeld
<1>3. QED
  BY <1>2, MoveKeeps

-----------------------------------------------------------------------------
(***************************************************************************)
(* One lemma per action.                                                   *)
(***************************************************************************)
LEMMA LookupKeeps ==
    ASSUME Inv, NEW a \in Archive, Lookup(a)
    PROVE  Inv'
<1> DEFINE d == [Idle EXCEPT !.pc = "resolve"]
<1>1. d.pc = "resolve" /\ d.op = "lookup" /\ d.last = NoMirror
  BY DEF Idle
<1>2. d \in Call
  BY IdleIsFine DEF Call
<1>3. CallInv(a, d, latest)
  BY <1>1, MirrorAssumption DEF CallInv, Fresh, Leads, Reaches, Later
<1>4. Becomes(a, d) /\ UNCHANGED <<settings, local, latest, made, published, edits, aborts>>
  BY DEF Lookup
<1> HIDE DEF d
<1>5. QED
  BY <1>2, <1>3, <1>4, CallKeeps

LEMMA PublishKeeps ==
    ASSUME Inv, NEW a \in Publisher, NEW h \in Snapshot, Publish(a, h)
    PROVE  Inv'
<1>1. a \in Archive
  BY PublisherAssumption
<1>2. PICK order : order = Writable(settings[a])
  OBVIOUS
<1>3. order \in Seq(Mirror) /\ Authority \in ToSet(order)
  BY <1>1, <1>2, InvOfCall, SettingsAssumption
<1>4. ToSet(order) \subseteq Mirror
  BY <1>3, EntriesOfSeq
<1> DEFINE d == [Idle EXCEPT !.pc = "resolve", !.op = "publish", !.snapshot = h,
                             !.push = order, !.targets = ToSet(order)]
<1>5. /\ d.pc = "resolve" /\ d.op = "publish" /\ d.last = NoMirror
      /\ d.push = order /\ d.targets = ToSet(order)
  BY DEF Idle
<1>6. d \in Call
  BY <1>3, <1>4, IdleIsFine DEF Call
<1>7. CallInv(a, d, latest)
  BY <1>3, <1>5, MirrorAssumption DEF CallInv, Fresh, Leads, Reaches, Later
<1>8. Becomes(a, d) /\ UNCHANGED <<settings, local, latest, made, published, edits, aborts>>
  BY <1>2 DEF Publish
<1> HIDE DEF d
<1>9. QED
  BY <1>1, <1>6, <1>7, <1>8, CallKeeps

LEMMA BeginPullKeeps ==
    ASSUME Inv, NEW a \in Archive, BeginPull(a)
    PROVE  Inv'
<1>1. PICK order : order = PullOrder(settings[a])
  OBVIOUS
<1>2. order \in Seq(Mirror)
  BY <1>1, InvOfCall, PullOrderType
<1>3. PICK last : last = IF order = <<>> THEN NoMirror ELSE Last(order)
  OBVIOUS
<1>4. last \in Mirror \cup {NoMirror}
  BY <1>2, <1>3, EntriesOfSeq
<1>5. last = Authority => order # <<>> /\ Last(order) = Authority
  BY <1>3, MirrorAssumption
<1>6. a \in Publisher => last = Authority /\ order # <<>>
  BY <1>1, <1>3, InvOfCall, SettingsAssumption
<1>7. PICK known : known = IF last = NoMirror THEN <<>> ELSE latest[last]
  OBVIOUS
<1>8. known \in Signature /\ (last = Authority => known = latest[Authority])
  <2>1. <<>> \in Signature
    BY DEF Signature
  <2>2. QED
    BY <1>4, <1>7, <2>1, InvOfCall, MirrorAssumption
<1>9. IsPrefix(latest[Authority], latest[Authority])
  BY InvOfCall, MirrorAssumption, PrefixReflexive DEF Signature
<1>10. local[a] \in Signature
  BY InvOfCall DEF RestTyped
<1> DEFINE c == call[a]
           d == [c EXCEPT !.pc = "pull", !.sig = local[a], !.pull = order,
                          !.last = last, !.known = known]
<1>11. c \in Call /\ c.pc = "resolve" /\ CallInv(a, c, latest)
  BY InvOfCall DEF BeginPull
<1>12. /\ d.pc = "pull" /\ d.op = c.op /\ d.pull = order /\ d.last = last
       /\ d.known = known /\ d.push = c.push /\ d.targets = c.targets
  BY <1>11 DEF Call
<1>13. d \in Call
  BY <1>2, <1>4, <1>8, <1>10, <1>11 DEF Call
<1>14. Becomes(a, d) /\ UNCHANGED <<settings, local, latest, made, published, edits, aborts>>
  BY <1>1, <1>3, <1>7 DEF BeginPull
<1> HIDE DEF c, d
<1>15. Fresh(d, latest) /\ (a \in Publisher => Leads(d, latest))
  BY <1>5, <1>6, <1>8, <1>9, <1>12 DEF Fresh, Leads, Later
<1>16. Reaches(d, latest) /\ (d.op = "publish" => a \in Publisher)
  BY <1>11, <1>12 DEF CallInv, Reaches
<1>17. QED
  BY <1>13, <1>14, <1>15, <1>16, CallKeeps DEF CallInv

LEMMA PullFromMirrorKeeps ==
    ASSUME Inv, NEW a \in Archive, PullFromMirror(a)
    PROVE  Inv'
<1> DEFINE c == call[a]
<1>1. c \in Call /\ c.pc = "pull" /\ c.pull # <<>> /\ CallInv(a, c, latest)
  BY InvOfCall DEF PullFromMirror
<1>2. c.pull \in Seq(Mirror)
  BY <1>1 DEF Call
<1>3. PICK sig : sig = latest[Head(c.pull)]
  OBVIOUS
<1>4. PICK rest : rest = Tail(c.pull)
  OBVIOUS
<1> DEFINE d == [c EXCEPT !.sig = sig, !.pull = rest]
<1>5. Becomes(a, d) /\ UNCHANGED <<settings, local, latest, made, published, edits, aborts>>
  BY <1>3, <1>4 DEF PullFromMirror
<1>6. /\ d.pc = "pull" /\ d.op = c.op /\ d.pull = rest /\ d.sig = sig /\ d.last = c.last
      /\ d.known = c.known /\ d.push = c.push /\ d.targets = c.targets
  BY <1>1 DEF Call
<1> HIDE DEF c
<1>7. /\ Head(c.pull) \in Mirror /\ rest \in Seq(Mirror)
      /\ rest = <<>> => Head(c.pull) = Last(c.pull)
      /\ rest # <<>> => Last(rest) = Last(c.pull)
  BY <1>1, <1>2, <1>4, LastOfTail
<1>8. sig \in Signature
  BY <1>3, <1>7, InvOfCall
<1>9. d \in Call
  BY <1>1, <1>7, <1>8 DEF Call
<1> HIDE DEF d
<1>10. c.last = Authority => Last(c.pull) = Authority /\ IsPrefix(c.known, latest[Authority])
  BY <1>1 DEF CallInv, Fresh
<1>11. c.last = Authority /\ rest = <<>> => sig = latest[Authority]
  BY <1>3, <1>7, <1>10
<1>12. Fresh(d, latest)
  BY <1>6, <1>7, <1>10, <1>11 DEF Fresh, Later
<1>13. Reaches(d, latest) /\ (d.op = "publish" => a \in Publisher)
  BY <1>1, <1>6 DEF CallInv, Reaches
<1>14. a \in Publisher => Leads(d, latest)
  BY <1>1, <1>6, <1>11 DEF CallInv, Leads, Later
<1>15. QED
  BY <1>5, <1>9, <1>12, <1>13, <1>14, CallKeeps DEF CallInv

\* What the end of a pull, or of a record, leads to.
LEMMA SettledIsFine ==
    ASSUME NEW a, NEW c \in Call, NEW held \in [Mirror -> Signature], CallInv(a, c, held),
           (c.pc = "pull" /\ c.pull = <<>>) \/ c.pc = "write"
    PROVE  Settled(c) \in Call /\ CallInv(a, Settled(c), held)
<1>1. IsPrefix(held[Authority], held[Authority])
  BY MirrorAssumption, PrefixReflexive DEF Signature
<1>2. PICK pc : pc = IF c.op = "lookup" THEN "return"
                     ELSE IF c.sig # <<>> /\ Signed(c.sig) = c.snapshot THEN "push"
                     ELSE "sign"
  OBVIOUS
<1> DEFINE d == [c EXCEPT !.pc = pc]
<1>3. Settled(c) = d
  BY <1>2 DEF Settled
<1>4. c.op \in {"lookup", "publish"}
  BY DEF Call
<1>5. /\ pc \in {"return", "push", "sign"}
      /\ pc = "return" <=> c.op = "lookup"
      /\ pc = "push" => c.sig # <<>>
  BY <1>2, <1>4
<1>6. d \in Call
  BY <1>5 DEF Call
<1>7. /\ d.pc = pc /\ d.op = c.op /\ d.sig = c.sig /\ d.pull = c.pull /\ d.last = c.last
      /\ d.known = c.known /\ d.push = c.push /\ d.targets = c.targets
  BY DEF Call
<1> HIDE DEF d
<1>8. Fresh(d, held)
  BY <1>5, <1>7 DEF CallInv, Fresh, Later
<1>9. Reaches(d, held) /\ (d.op = "publish" => a \in Publisher)
  BY <1>4, <1>5, <1>7 DEF CallInv, Reaches
<1>10. a \in Publisher => Leads(d, held)
  BY <1>1, <1>5, <1>7 DEF CallInv, Leads, Later
<1>11. QED
  BY <1>3, <1>6, <1>8, <1>9, <1>10 DEF CallInv

LEMMA FinishPullKeeps ==
    ASSUME Inv, NEW a \in Archive, FinishPull(a)
    PROVE  Inv'
<1> DEFINE c == call[a]
           d == [c EXCEPT !.pc = "record"]
<1>1. /\ c \in Call /\ c.pc = "pull" /\ c.pull = <<>> /\ CallInv(a, c, latest)
      /\ latest \in [Mirror -> Signature]
  BY InvOfCall DEF FinishPull
<1>2. UNCHANGED <<settings, local, latest, made, published, edits, aborts>>
  BY DEF FinishPull
<1>3. CASE c.sig = <<>>
  <2>1. Becomes(a, Settled(c))
    BY <1>3 DEF FinishPull
  <2>2. Settled(c) \in Call /\ CallInv(a, Settled(c), latest)
    BY <1>1, SettledIsFine
  <2>3. QED
    BY <1>2, <2>1, <2>2, CallKeeps
<1>4. CASE c.sig # <<>>
  <2>1. Becomes(a, d)
    BY <1>4 DEF FinishPull
  <2>2. d \in Call
    BY <1>1 DEF Call
  <2>3. /\ d.pc = "record" /\ d.op = c.op /\ d.sig = c.sig /\ d.pull = c.pull /\ d.last = c.last
        /\ d.known = c.known /\ d.push = c.push /\ d.targets = c.targets
    BY <1>1 DEF Call
  <2>4. IsPrefix(latest[Authority], latest[Authority])
    BY <1>1, MirrorAssumption, PrefixReflexive DEF Signature
  <2> HIDE DEF c, d
  <2>5. Fresh(d, latest)
    BY <1>1, <2>3 DEF CallInv, Fresh, Later
  <2>6. Reaches(d, latest) /\ (d.op = "publish" => a \in Publisher)
    BY <1>1, <2>3 DEF CallInv, Reaches
  <2>7. a \in Publisher => Leads(d, latest)
    BY <1>1, <2>3, <2>4 DEF CallInv, Leads, Later
  <2>8. QED
    BY <1>2, <2>1, <2>2, <2>5, <2>6, <2>7, CallKeeps DEF CallInv
<1>5. QED
  BY <1>3, <1>4

LEMMA TruncateSignatureKeeps ==
    ASSUME Inv, NEW a \in Archive, TruncateSignature(a)
    PROVE  Inv'
<1> DEFINE c == call[a]
           d == [c EXCEPT !.pc = "write"]
<1>1. c \in Call /\ c.pc = "record" /\ CallInv(a, c, latest)
  BY InvOfCall DEF TruncateSignature
<1>2. Becomes(a, d) /\ UNCHANGED <<settings, latest, made, published, edits, aborts>>
  BY DEF TruncateSignature
<1>3. d \in Call
  BY <1>1 DEF Call
<1>4. /\ d.pc = "write" /\ d.op = c.op /\ d.sig = c.sig /\ d.pull = c.pull /\ d.last = c.last
      /\ d.known = c.known /\ d.push = c.push /\ d.targets = c.targets
  BY <1>1 DEF Call
<1>5. RestTyped /\ PublishedIsHeld
  BY InvOfCall
<1>6. local' \in [Archive -> Signature]
  BY <1>5 DEF TruncateSignature, RestTyped, Signature
<1>7. RestTyped' /\ PublishedIsHeld'
  BY <1>2, <1>5, <1>6 DEF RestTyped, PublishedIsHeld
<1> HIDE DEF c, d
<1>8. CallInv(a, d, latest)
  BY <1>1, <1>4 DEF CallInv, Fresh, Reaches, Leads, Later
<1>9. QED
  BY <1>2, <1>3, <1>7, <1>8, MoveKeeps

LEMMA WriteSignatureKeeps ==
    ASSUME Inv, NEW a \in Archive, WriteSignature(a)
    PROVE  Inv'
<1> DEFINE c == call[a]
<1>1. /\ c \in Call /\ c.pc = "write" /\ CallInv(a, c, latest)
      /\ latest \in [Mirror -> Signature]
  BY InvOfCall DEF WriteSignature
<1>2. Settled(c) \in Call /\ CallInv(a, Settled(c), latest)
  BY <1>1, SettledIsFine
<1>3. Becomes(a, Settled(c)) /\ UNCHANGED <<settings, latest, made, published, edits, aborts>>
  BY DEF WriteSignature
<1>4. RestTyped /\ PublishedIsHeld
  BY InvOfCall
<1>5. local' \in [Archive -> Signature]
  BY <1>1, <1>4 DEF WriteSignature, RestTyped, Call
<1>6. RestTyped' /\ PublishedIsHeld'
  BY <1>3, <1>4, <1>5 DEF RestTyped, PublishedIsHeld
<1>7. QED
  BY <1>2, <1>3, <1>6, MoveKeeps

LEMMA SignKeeps ==
    ASSUME Inv, NEW a \in Archive, Sign(a)
    PROVE  Inv'
<1> DEFINE c == call[a]
<1>1. /\ c \in Call /\ c.pc = "sign" /\ CallInv(a, c, latest)
      /\ latest \in [Mirror -> Signature] /\ RestTyped /\ PublishedIsHeld
  BY InvOfCall DEF Sign
<1>2. c.sig \in Seq(Snapshot) /\ c.snapshot \in Snapshot /\ c.known \in Seq(Snapshot)
  BY <1>1 DEF Call, Signature
<1>3. PICK sig : sig = Append(c.sig, c.snapshot)
  OBVIOUS
<1>4. sig \in Seq(Snapshot) /\ sig # <<>>
  BY <1>2, <1>3, AppendProperties
<1>5. latest[Authority] \in Seq(Snapshot)
  BY <1>1, MirrorAssumption DEF Signature
<1> DEFINE d == [c EXCEPT !.pc = "record", !.sig = sig]
<1>6. /\ Becomes(a, d) /\ made' = made \cup {sig}
      /\ UNCHANGED <<settings, local, latest, published, edits, aborts>>
  BY <1>3 DEF Sign
<1>7. d \in Call
  BY <1>1, <1>4 DEF Call, Signature
<1>8. /\ d.pc = "record" /\ d.op = c.op /\ d.sig = sig /\ d.pull = c.pull /\ d.last = c.last
      /\ d.known = c.known /\ d.push = c.push /\ d.targets = c.targets
  BY <1>1 DEF Call
<1> HIDE DEF c, d
<1>9. RestTyped' /\ PublishedIsHeld'
  BY <1>1, <1>4, <1>6 DEF RestTyped, PublishedIsHeld, Signature
<1>10. \A s \in Seq(Snapshot) : IsPrefix(s, c.sig) => IsPrefix(s, sig)
  BY <1>2, <1>3, PrefixOfAppend
<1>11. Fresh(d, latest)
  BY <1>1, <1>2, <1>8, <1>10 DEF CallInv, Fresh, Later
<1>12. Reaches(d, latest) /\ (d.op = "publish" => a \in Publisher)
  BY <1>1, <1>8 DEF CallInv, Reaches
<1>13. a \in Publisher => Leads(d, latest)
  BY <1>1, <1>5, <1>8, <1>10 DEF CallInv, Leads, Later
<1>14. QED
  BY <1>6, <1>7, <1>9, <1>11, <1>12, <1>13, MoveKeeps DEF CallInv

\* What a push finds at the authority, before and after.
LEMMA PushAdvances ==
    ASSUME Inv, NEW a \in Archive, PushToMirror(a)
    PROVE  /\ a \in Publisher
           /\ latest' \in [Mirror -> Signature]
           /\ \A m \in Mirror :
                  latest'[m] = IF m = Head(call[a].push) THEN call[a].sig ELSE latest[m]
           /\ IsPrefix(latest[Authority], latest'[Authority])
<1> DEFINE c == call[a]
<1>1. /\ c \in Call /\ c.pc = "push" /\ c.push # <<>> /\ CallInv(a, c, latest)
      /\ latest \in [Mirror -> Signature]
  BY InvOfCall DEF PushToMirror
<1>2. c.op = "publish" /\ a \in Publisher
  BY <1>1 DEF CallInv, Reaches
<1>3. IsPrefix(latest[Authority], c.sig)
  BY <1>1, <1>2 DEF CallInv, Leads, Later
<1>4. c.sig \in Signature
  BY <1>1 DEF Call
<1>5. latest' = [latest EXCEPT ![Head(c.push)] = c.sig]
  BY DEF PushToMirror
<1> HIDE DEF c
<1>6. /\ latest' \in [Mirror -> Signature]
      /\ \A m \in Mirror : latest'[m] = IF m = Head(c.push) THEN c.sig ELSE latest[m]
  BY <1>1, <1>4, <1>5
<1>7. IsPrefix(latest[Authority], latest[Authority])
  BY <1>1, MirrorAssumption, PrefixReflexive DEF Signature
<1>8. IsPrefix(latest[Authority], latest'[Authority])
  BY <1>3, <1>6, <1>7, MirrorAssumption
<1>9. QED
  BY <1>2, <1>6, <1>8 DEF c

\* The calls of the others do not rely on what the mirrors hold, except that
\* the authority has not gone back.
LEMMA OthersStayFine ==
    ASSUME NEW b \in Archive \ Publisher, NEW c \in Call,
           NEW held \in [Mirror -> Signature], NEW new \in [Mirror -> Signature],
           CallInv(b, c, held), IsPrefix(held[Authority], new[Authority])
    PROVE  CallInv(b, c, new)
<1>1. /\ held[Authority] \in Seq(Snapshot) /\ new[Authority] \in Seq(Snapshot)
      /\ c.known \in Seq(Snapshot)
  BY MirrorAssumption DEF Signature, Call
<1>2. IsPrefix(c.known, held[Authority]) => IsPrefix(c.known, new[Authority])
  BY <1>1, PrefixTransitive
<1>3. QED
  BY <1>2 DEF CallInv, Fresh, Reaches

LEMMA PushToMirrorKeeps ==
    ASSUME OnePublisher, Inv, NEW a \in Archive, PushToMirror(a)
    PROVE  Inv'
<1> DEFINE c == call[a]
           d == [c EXCEPT !.push = Tail(@)]
<1>1. /\ c \in Call /\ c.pc = "push" /\ c.push # <<>> /\ CallInv(a, c, latest)
      /\ latest \in [Mirror -> Signature] /\ RestTyped /\ PublishedIsHeld
  BY InvOfCall DEF PushToMirror
<1>2. c.op = "publish"
  BY <1>1 DEF CallInv, Reaches
<1>3. /\ a \in Publisher
      /\ latest' \in [Mirror -> Signature]
      /\ \A m \in Mirror : latest'[m] = IF m = Head(c.push) THEN c.sig ELSE latest[m]
      /\ IsPrefix(latest[Authority], latest'[Authority])
  BY PushAdvances
<1>4. /\ c.push \in Seq(Mirror) /\ c.sig \in Seq(Snapshot) /\ c.known \in Seq(Snapshot)
      /\ c.targets \subseteq Mirror
  BY <1>1 DEF Call, Signature
<1>5. /\ Head(c.push) \in Mirror /\ Tail(c.push) \in Seq(Mirror)
      /\ \A m \in ToSet(c.push) : m = Head(c.push) \/ m \in ToSet(Tail(c.push))
  BY <1>1, <1>4, LastOfTail, LeftOfTail
<1>6. d \in Call
  BY <1>1, <1>5 DEF Call
<1>7. /\ d.pc = "push" /\ d.op = c.op /\ d.sig = c.sig /\ d.pull = c.pull /\ d.last = c.last
      /\ d.known = c.known /\ d.push = Tail(c.push) /\ d.targets = c.targets
  BY <1>1 DEF Call
<1>8. Becomes(a, d) /\ UNCHANGED <<settings, local, made, published, edits, aborts>>
  BY DEF PushToMirror
<1> HIDE DEF c, d
<1>9. /\ latest[Authority] \in Seq(Snapshot) /\ latest'[Authority] \in Seq(Snapshot)
      /\ Authority \in Mirror
  BY <1>1, <1>3, MirrorAssumption DEF Signature
<1>10. IsPrefix(latest'[Authority], c.sig)
  <2>1. IsPrefix(c.sig, c.sig) /\ IsPrefix(latest[Authority], c.sig)
    BY <1>1, <1>3, <1>4, PrefixReflexive DEF CallInv, Leads, Later
  <2>2. QED
    BY <1>3, <1>9, <2>1
<1>11. CallInv(a, d, latest')
  <2>1. IsPrefix(c.known, latest[Authority]) => IsPrefix(c.known, latest'[Authority])
    BY <1>3, <1>4, <1>9, PrefixTransitive
  <2>2. Fresh(d, latest')
    BY <1>1, <1>7, <2>1 DEF CallInv, Fresh, Later
  <2>3. \A m \in c.targets : m \in ToSet(Tail(c.push)) \/ latest'[m] = c.sig
    BY <1>1, <1>2, <1>3, <1>4, <1>5 DEF CallInv, Reaches
  <2>4. Reaches(d, latest')
    BY <1>1, <1>2, <1>7, <2>3 DEF CallInv, Reaches
  <2>5. Leads(d, latest')
    BY <1>1, <1>3, <1>7, <1>10 DEF CallInv, Leads, Later
  <2>6. QED
    BY <1>3, <2>2, <2>4, <2>5 DEF CallInv
<1>12. call \in [Archive -> Call]
  BY DEF Inv, TypeOK
<1>13. /\ call' \in [Archive -> Call]
       /\ \A b \in Archive : call'[b] = IF b = a THEN d ELSE call[b]
  BY <1>6, <1>8, <1>12 DEF Becomes
<1>14. \A b \in Archive : CallInv(b, call'[b], latest')
  <2> SUFFICES ASSUME NEW b \in Archive PROVE CallInv(b, call'[b], latest')
    OBVIOUS
  <2>1. CASE b = a
    BY <1>11, <1>13, <2>1
  <2>2. CASE b # a
    <3>1. b \notin Publisher
      BY <1>3, <2>2 DEF OnePublisher
    <3>2. call[b] \in Call /\ CallInv(b, call[b], latest)
      BY InvOfCall
    <3>3. CallInv(b, call[b], latest')
      BY <1>1, <1>3, <3>1, <3>2, OthersStayFine
    <3>4. QED
      BY <1>13, <2>2, <3>3
  <2>3. QED
    BY <2>1, <2>2
<1>15. PublishedIsHeld'
  <2>1. \A s \in published : s \in Seq(Snapshot)
    BY <1>1 DEF RestTyped, Signature
  <2>2. \A s \in published : IsPrefix(s, latest'[Authority])
    BY <1>1, <1>3, <1>9, <2>1, PrefixTransitive DEF PublishedIsHeld
  <2>3. QED
    BY <1>8, <2>2 DEF PublishedIsHeld
<1>16. settings' = FirstSettings
  BY <1>8 DEF Inv
<1>17. settings' \in [Archive -> Settings]
  BY <1>16, SettingsAssumption
<1>18. TypeOK'
  BY <1>1, <1>3, <1>8, <1>13, <1>17 DEF TypeOK, RestTyped
<1>19. QED
  BY <1>14, <1>15, <1>16, <1>18 DEF Inv

LEMMA FinishPushKeeps ==
    ASSUME Inv, NEW a \in Archive, FinishPush(a)
    PROVE  Inv'
<1> DEFINE c == call[a]
           d == [c EXCEPT !.pc = "return"]
<1>1. /\ c \in Call /\ c.pc = "push" /\ c.push = <<>> /\ CallInv(a, c, latest)
      /\ RestTyped /\ PublishedIsHeld
  BY InvOfCall DEF FinishPush
<1>2. /\ Becomes(a, d) /\ published' = published \cup {c.sig}
      /\ UNCHANGED <<settings, local, latest, made, edits, aborts>>
  BY DEF FinishPush
<1>3. d \in Call
  BY <1>1 DEF Call
<1>4. /\ d.pc = "return" /\ d.op = c.op /\ d.sig = c.sig /\ d.pull = c.pull /\ d.last = c.last
      /\ d.known = c.known /\ d.push = c.push /\ d.targets = c.targets
  BY <1>1 DEF Call
<1>5. c.sig \in Signature \ {<<>>} /\ c.op = "publish"
  BY <1>1 DEF CallInv, Reaches, Call
<1> HIDE DEF c, d
<1>6. ToSet(c.push) = {}
  BY <1>1 DEF ToSet
<1>7. \A m \in c.targets : latest[m] = c.sig
  BY <1>1, <1>5, <1>6 DEF CallInv, Reaches
<1>8. latest[Authority] = c.sig
  BY <1>1, <1>5, <1>7 DEF CallInv, Reaches
<1>9. IsPrefix(c.sig, latest[Authority])
  BY <1>5, <1>8, PrefixReflexive DEF Signature
<1>10. RestTyped' /\ PublishedIsHeld'
  BY <1>1, <1>2, <1>5, <1>9 DEF RestTyped, PublishedIsHeld
<1>11. CallInv(a, d, latest)
  BY <1>1, <1>4, <1>7 DEF CallInv, Fresh, Reaches, Leads, Later
<1>12. QED
  BY <1>2, <1>3, <1>10, <1>11, MoveKeeps

LEMMA ReturnKeeps ==
    ASSUME Inv, NEW a \in Archive, Return(a)
    PROVE  Inv'
  BY IdleIsFine, CallKeeps DEF Return

LEMMA AbortKeeps ==
    ASSUME Inv, NEW a \in Archive, Abort(a)
    PROVE  Inv'
<1>1. /\ Becomes(a, Idle) /\ aborts < MaxAborts /\ aborts' = aborts + 1
      /\ UNCHANGED <<settings, local, latest, made, published, edits>>
  BY DEF Abort
<1>2. RestTyped /\ PublishedIsHeld
  BY InvOfCall
<1>3. aborts' \in 0..MaxAborts
  BY <1>1, <1>2, BoundsAssumption DEF RestTyped
<1>4. RestTyped' /\ PublishedIsHeld'
  BY <1>1, <1>2, <1>3 DEF RestTyped, PublishedIsHeld
<1>5. QED
  BY <1>1, <1>4, IdleIsFine, MoveKeeps

LEMMA InvKept ==
    ASSUME OnePublisher, Inv, [Next]_vars
    PROVE  Inv'
<1>1. ASSUME NEW a \in Archive, Step(a) PROVE Inv'
  <2>1. CASE Lookup(a)
    BY <2>1, LookupKeeps
  <2>2. CASE a \in Publisher /\ \E h \in Snapshot : Publish(a, h)
    BY <2>2, PublishKeeps
  <2>3. CASE BeginPull(a)
    BY <2>3, BeginPullKeeps
  <2>4. CASE PullFromMirror(a)
    BY <2>4, PullFromMirrorKeeps
  <2>5. CASE FinishPull(a)
    BY <2>5, FinishPullKeeps
  <2>6. CASE TruncateSignature(a)
    BY <2>6, TruncateSignatureKeeps
  <2>7. CASE WriteSignature(a)
    BY <2>7, WriteSignatureKeeps
  <2>8. CASE Sign(a)
    BY <2>8, SignKeeps
  <2>9. CASE PushToMirror(a)
    BY <2>9, PushToMirrorKeeps
  <2>10. CASE FinishPush(a)
    BY <2>10, FinishPushKeeps
  <2>11. CASE Return(a)
    BY <2>11, ReturnKeeps
  <2>12. CASE Abort(a)
    BY <2>12, AbortKeeps
  <2>13. QED
    BY <1>1, <2>1, <2>2, <2>3, <2>4, <2>5, <2>6, <2>7, <2>8, <2>9, <2>10, <2>11, <2>12 DEF Step
<1>2. ASSUME NEW a \in Editor PROVE FALSE
  BY DEF OnePublisher
<1>3. CASE UNCHANGED vars
  BY <1>3 DEF vars, Inv, TypeOK, PublishedIsHeld
<1>4. QED
  BY <1>1, <1>2, <1>3 DEF Next

\* Only a push changes a mirror.
LEMMA AuthorityStep ==
    ASSUME OnePublisher, Inv, [Next]_vars
    PROVE  IsPrefix(latest[Authority], latest'[Authority])
<1>1. IsPrefix(latest[Authority], latest[Authority])
  BY MirrorAssumption, PrefixReflexive DEF Inv, TypeOK, Signature
<1>2. ASSUME NEW a \in Archive, Step(a), ~PushToMirror(a) PROVE latest' = latest
  BY <1>2 DEF Step, Lookup, Publish, BeginPull, PullFromMirror, FinishPull, TruncateSignature,
              WriteSignature, Sign, FinishPush, Return, Abort
<1>3. ASSUME NEW a \in Archive, PushToMirror(a)
      PROVE  IsPrefix(latest[Authority], latest'[Authority])
  BY <1>3, PushAdvances
<1>4. ASSUME NEW a \in Editor PROVE FALSE
  BY DEF OnePublisher
<1>5. CASE UNCHANGED vars
  BY <1>1, <1>5 DEF vars
<1>6. QED
  BY <1>1, <1>2, <1>3, <1>4, <1>5 DEF Next

-----------------------------------------------------------------------------
(***************************************************************************)
(* The theorems.                                                           *)
(***************************************************************************)
THEOREM InvAlways ==
    ASSUME OnePublisher PROVE Spec => []Inv
<1>1. Init => Inv
  BY InvInitially
<1>2. Inv /\ [Next]_vars => Inv'
  BY InvKept
<1>3. QED
  BY <1>1, <1>2, PTL DEF Spec

\* The state is well-typed; so nothing empty is ever signed or published.
THEOREM TypeCorrect ==
    ASSUME OnePublisher PROVE Spec => []TypeOK
<1>1. Inv => TypeOK
  BY DEF Inv
<1>2. QED
  BY <1>1, InvAlways, PTL

\* What has been published is one line of signatures, whatever other mirrors
\* there are, wherever calls fail, and whatever the others look up meanwhile.
THEOREM HistoryIsLinear ==
    ASSUME OnePublisher PROVE Spec => []PublishedHistoryIsLinear
<1>1. Inv => PublishedHistoryIsLinear
  <2> SUFFICES ASSUME Inv, NEW s \in published, NEW t \in published
               PROVE  IsPrefix(s, t) \/ IsPrefix(t, s)
    BY DEF PublishedHistoryIsLinear
  <2>1. s \in Seq(Snapshot) /\ t \in Seq(Snapshot) /\ latest[Authority] \in Seq(Snapshot)
    BY MirrorAssumption DEF Inv, TypeOK, Signature
  <2>2. IsPrefix(s, latest[Authority]) /\ IsPrefix(t, latest[Authority])
    BY DEF Inv, PublishedIsHeld
  <2>3. QED
    BY <2>1, <2>2, PrefixesAreComparable
<1>2. QED
  BY <1>1, InvAlways, PTL

\* No call, be it of a publisher or for a lookup, that asks the authority last
\* gets less than it held when the call began to ask.
THEOREM GetsFreshAnswers ==
    ASSUME OnePublisher PROVE Spec => []AnswersAreFresh
<1>1. Inv => AnswersAreFresh
  BY DEF Inv, CallInv, Fresh, Later, AnswersAreFresh
<1>2. QED
  BY <1>1, InvAlways, PTL

\* A publish that returns has reached all its mirrors.
THEOREM ReachesAllMirrors ==
    ASSUME OnePublisher PROVE Spec => []PublishedEverywhere
<1>1. Inv => PublishedEverywhere
  <2> SUFFICES ASSUME Inv, NEW a \in Archive, call[a].pc = "return", call[a].op = "publish",
                      NEW m \in call[a].targets
               PROVE  IsPrefix(call[a].sig, latest[m])
    BY DEF PublishedEverywhere
  <2>1. latest[m] = call[a].sig
    BY DEF Inv, CallInv, Reaches
  <2>2. call[a].sig \in Seq(Snapshot)
    BY DEF Inv, TypeOK, Call, Signature
  <2>3. QED
    BY <2>1, <2>2, PrefixReflexive
<1>2. QED
  BY <1>1, InvAlways, PTL

\* The authority only moves forward.
THEOREM AuthorityMovesForward ==
    ASSUME OnePublisher PROVE Spec => AuthorityAdvances
<1>1. Inv /\ [Next]_vars => [IsPrefix(latest[Authority], latest'[Authority])]_vars
  BY AuthorityStep
<1>2. QED
  BY <1>1, InvAlways, PTL DEF Spec, AuthorityAdvances
=============================================================================
