------------------------------- MODULE Publish -------------------------------
(***************************************************************************)
(* Publishing to one identity: `rvcs publish` (command/publish.go), the    *)
(* commands that resolve an identity (command/commands.go), and what they  *)
(* are built from: Pull, Push, Sign and Verify (publish/), the signature   *)
(* each archive records for the identity (storage/storage.go) and the      *)
(* mirrors in each user's settings (config/config.go).                     *)
(*                                                                         *)
(* A signature names a snapshot and the previous signature, so the model   *)
(* writes it as the sequence of the snapshots signed so far: Verify        *)
(* answers the last of them, Sign appends one, and the empty sequence is   *)
(* the nil hash.  The helpers that talk to a mirror are external; here a   *)
(* mirror holds one signature, which a pull reads and a push replaces at   *)
(* once.                                                                   *)
(***************************************************************************)
EXTENDS Naturals, FiniteSets, SequencesExt

CONSTANTS
    Archive,            \* the archives, each with a user and settings
    Publisher,          \* the archives whose users run `rvcs publish`
    Editor,             \* the archives whose users change their settings
    Snapshot,           \* the snapshots that get published
    Mirror,             \* the mirrors
    NoMirror,           \* a call that asks no mirror
    Authority,          \* the mirror that publishers ask last
    FirstSettings,      \* the settings of each archive at the start
    MaxSignatures,      \* bound on the signatures made
    MaxEdits,           \* bound on the changes of settings
    MaxAborts           \* bound on the calls that fail or are killed

ASSUME MirrorAssumption == Authority \in Mirror /\ NoMirror \notin Mirror
ASSUME PublisherAssumption == Publisher \subseteq Archive /\ Editor \subseteq Archive
ASSUME SnapshotAssumption == Snapshot # {}
ASSUME BoundsAssumption ==
    MaxSignatures \in Nat /\ MaxEdits \in Nat /\ MaxAborts \in Nat

MirrorSetting == [mirror : Mirror, readOnly : BOOLEAN]

\* The mirrors for the identity, and those for all identities.
Settings == [own : Seq(MirrorSetting), additional : Seq(MirrorSetting)]

MirrorsOf(ms) == [i \in DOMAIN ms |-> ms[i].mirror]

\* Pull asks the mirrors of the identity first and the additional ones last.
PullOrder(s) == MirrorsOf(s.own \o s.additional)

\* Push pushes to the same mirrors, in the same order.  Being read-only keeps
\* only a mirror of the identity out.
Writable(s) ==
    MirrorsOf(SelectSeq(s.own, LAMBDA m : ~m.readOnly) \o s.additional)

\* At first, publishers push to the mirror they ask last.  (That a sequence
\* stays one when it is filtered is stated for the provers, which cannot unfold
\* SelectSeq.)
ASSUME SettingsAssumption ==
    /\ FirstSettings \in [Archive -> Settings]
    /\ \A a \in Archive : Writable(FirstSettings[a]) \in Seq(Mirror)
    /\ \A a \in Publisher :
           LET order == PullOrder(FirstSettings[a])
           IN  /\ order # <<>> /\ Last(order) = Authority
               /\ Authority \in ToSet(Writable(FirstSettings[a]))

VARIABLES
    settings,           \* the settings file of each user
    local,              \* the signature each archive records
    latest,             \* the signature each mirror holds
    call,               \* the command each archive is in
    made,               \* all signatures ever made
    published,          \* the signatures for which a publish has returned
    edits, aborts       \* how often settings changed, how many calls were cut short

vars == <<settings, local, latest, call, made, published, edits, aborts>>

Signature == Seq(Snapshot)

\* Verify answers the signed snapshot.
Signed(s) == Last(s)

\* A call: where it is and what it is for, the signature it knows, the mirrors
\* it has yet to ask and to push to.  Only for the properties: the mirrors to
\* push to at first, the mirror it asks last, and what that one held when the
\* call began to ask.
Call == [pc       : {"idle", "resolve", "pull", "record", "write", "sign", "push", "return"},
         op       : {"lookup", "publish"},
         snapshot : Snapshot,
         sig      : Signature,
         pull     : Seq(Mirror),
         push     : Seq(Mirror),
         targets  : SUBSET Mirror,
         last     : Mirror \cup {NoMirror},
         known    : Signature]

Idle == [pc |-> "idle", op |-> "lookup", snapshot |-> CHOOSE h \in Snapshot : TRUE,
         sig |-> <<>>, pull |-> <<>>, push |-> <<>>, targets |-> {},
         last |-> NoMirror, known |-> <<>>]

TypeOK ==
    /\ settings \in [Archive -> Settings]
    /\ local \in [Archive -> Signature]
    /\ latest \in [Mirror -> Signature]
    /\ call \in [Archive -> Call]
    /\ made \subseteq Signature \ {<<>>} /\ published \subseteq Signature \ {<<>>}
    /\ edits \in 0..MaxEdits /\ aborts \in 0..MaxAborts

Init ==
    /\ settings = FirstSettings
    /\ local = [a \in Archive |-> <<>>]
    /\ latest = [m \in Mirror |-> <<>>]
    /\ call = [a \in Archive |-> Idle]
    /\ made = {} /\ published = {}
    /\ edits = 0 /\ aborts = 0

-----------------------------------------------------------------------------
(***************************************************************************)
(* The settings.                                                           *)
(***************************************************************************)
removeMirror(ms, m) == SelectSeq(ms, LAMBDA s : s.mirror # m)

addOrOverwriteMirror(ms, s) == Append(removeMirror(ms, s.mirror), s)

Edit(a, list, ms) ==
    /\ edits < MaxEdits
    /\ settings' = [settings EXCEPT ![a][list] = ms]
    /\ edits' = edits + 1
    /\ UNCHANGED <<local, latest, call, made, published, aborts>>

AddMirror(a, list, m, readOnly) ==
    Edit(a, list, addOrOverwriteMirror(settings[a][list],
                                       [mirror |-> m, readOnly |-> readOnly]))

RemoveMirror(a, list, m) == Edit(a, list, removeMirror(settings[a][list], m))

-----------------------------------------------------------------------------
(***************************************************************************)
(* The commands.                                                           *)
(***************************************************************************)
Becomes(a, c) == call' = [call EXCEPT ![a] = c]

\* A command such as log, merge or export, given the identity.
Lookup(a) ==
    /\ call[a].pc = "idle"
    /\ Becomes(a, [Idle EXCEPT !.pc = "resolve"])
    /\ UNCHANGED <<settings, local, latest, made, published, edits, aborts>>

\* publishCommand reads the settings that Push will use.
Publish(a, h) ==
    /\ call[a].pc = "idle"
    /\ LET order == Writable(settings[a])
       IN  Becomes(a, [Idle EXCEPT !.pc = "resolve", !.op = "publish", !.snapshot = h,
                                   !.push = order, !.targets = ToSet(order)])
    /\ UNCHANGED <<settings, local, latest, made, published, edits, aborts>>

\* Fault: only the record of the archive is used.
BeginPullAlone(a) ==
    /\ call[a].pc = "resolve"
    /\ Becomes(a, [call[a] EXCEPT !.pc = "pull", !.sig = local[a]])
    /\ UNCHANGED <<settings, local, latest, made, published, edits, aborts>>

\* resolveIdentitySnapshot reads the settings (again) and Pull what is recorded.
BeginPull(a) ==
    /\ call[a].pc = "resolve"
    /\ LET order == PullOrder(settings[a])
           last  == IF order = <<>> THEN NoMirror ELSE Last(order)
       IN  Becomes(a, [call[a] EXCEPT
                           !.pc = "pull", !.sig = local[a], !.pull = order,
                           !.last = last,
                           !.known = IF last = NoMirror THEN <<>> ELSE latest[last]])
    /\ UNCHANGED <<settings, local, latest, made, published, edits, aborts>>

\* Fault: the first answer is kept.
PullFromMirrorOnce(a) ==
    /\ call[a].pc = "pull" /\ call[a].pull # <<>>
    /\ Becomes(a, [call[a] EXCEPT !.sig = IF @ = <<>> THEN latest[Head(call[a].pull)] ELSE @,
                                  !.pull = Tail(@)])
    /\ UNCHANGED <<settings, local, latest, made, published, edits, aborts>>

\* pullFromAndVerify of the next mirror.  What it answers replaces what was
\* known before, also when the mirror does not know the identity.
PullFromMirror(a) ==
    /\ call[a].pc = "pull" /\ call[a].pull # <<>>
    /\ Becomes(a, [call[a] EXCEPT !.sig = latest[Head(call[a].pull)], !.pull = Tail(@)])
    /\ UNCHANGED <<settings, local, latest, made, published, edits, aborts>>

\* Where the call goes when the signature it knows is settled: a lookup
\* returns, a publish signs unless the snapshot is the one already signed.
Settled(c) ==
    [c EXCEPT !.pc = IF c.op = "lookup" THEN "return"
                     ELSE IF c.sig # <<>> /\ Signed(c.sig) = c.snapshot THEN "push"
                     ELSE "sign"]

\* All mirrors have been asked.  Nothing is recorded if nothing is known.
FinishPull(a) ==
    /\ call[a].pc = "pull" /\ call[a].pull = <<>>
    /\ Becomes(a, IF call[a].sig = <<>> THEN Settled(call[a])
                  ELSE [call[a] EXCEPT !.pc = "record"])
    /\ UNCHANGED <<settings, local, latest, made, published, edits, aborts>>

\* UpdateSignatureForIdentity, by os.WriteFile: the file is truncated...
TruncateSignature(a) ==
    /\ call[a].pc = "record"
    /\ local' = [local EXCEPT ![a] = <<>>]
    /\ Becomes(a, [call[a] EXCEPT !.pc = "write"])
    /\ UNCHANGED <<settings, latest, made, published, edits, aborts>>

\* ...and written.
WriteSignature(a) ==
    /\ call[a].pc = "write"
    /\ local' = [local EXCEPT ![a] = call[a].sig]
    /\ Becomes(a, Settled(call[a]))
    /\ UNCHANGED <<settings, latest, made, published, edits, aborts>>

\* Fault: the signature does not name the previous one.
SignAlone(a) ==
    /\ call[a].pc = "sign"
    /\ Cardinality(made) < MaxSignatures
    /\ made' = made \cup {<<call[a].snapshot>>}
    /\ Becomes(a, [call[a] EXCEPT !.pc = "record", !.sig = <<call[a].snapshot>>])
    /\ UNCHANGED <<settings, local, latest, published, edits, aborts>>

\* Sign gives the helper the snapshot and the signature Pull has answered.
Sign(a) ==
    /\ call[a].pc = "sign"
    /\ Cardinality(made) < MaxSignatures
    /\ LET sig == Append(call[a].sig, call[a].snapshot)
       IN  /\ made' = made \cup {sig}
           /\ Becomes(a, [call[a] EXCEPT !.pc = "record", !.sig = sig])
    /\ UNCHANGED <<settings, local, latest, published, edits, aborts>>

\* Fault: Push returns after the first mirror.
PushToMirrorOnce(a) ==
    /\ call[a].pc = "push" /\ call[a].push # <<>>
    /\ latest' = [latest EXCEPT ![Head(call[a].push)] = call[a].sig]
    /\ Becomes(a, [call[a] EXCEPT !.push = <<>>])
    /\ UNCHANGED <<settings, local, made, published, edits, aborts>>

\* Push gives every mirror the signature of this call, whatever the helper of
\* an earlier mirror has answered: the answer is assigned to a variable of the
\* loop's own.
PushToMirror(a) ==
    /\ call[a].pc = "push" /\ call[a].push # <<>>
    /\ latest' = [latest EXCEPT ![Head(call[a].push)] = call[a].sig]
    /\ Becomes(a, [call[a] EXCEPT !.push = Tail(@)])
    /\ UNCHANGED <<settings, local, made, published, edits, aborts>>

\* Fault: Push returns what the helper of a mirror that was up to date has
\* answered, which is nothing.
FinishPushUpToDate(a) ==
    /\ call[a].pc = "push" /\ call[a].push = <<>>
    /\ published' = published \cup {<<>>}
    /\ Becomes(a, [call[a] EXCEPT !.pc = "return"])
    /\ UNCHANGED <<settings, local, latest, made, edits, aborts>>

\* Push returns the signature of the call.
FinishPush(a) ==
    /\ call[a].pc = "push" /\ call[a].push = <<>>
    /\ published' = published \cup {call[a].sig}
    /\ Becomes(a, [call[a] EXCEPT !.pc = "return"])
    /\ UNCHANGED <<settings, local, latest, made, edits, aborts>>

Return(a) ==
    /\ call[a].pc = "return"
    /\ Becomes(a, Idle)
    /\ UNCHANGED <<settings, local, latest, made, published, edits, aborts>>

\* A helper or a file operation fails and the command gives up, or it is killed.
Abort(a) ==
    /\ call[a].pc \notin {"idle", "return"}
    /\ aborts < MaxAborts
    /\ aborts' = aborts + 1
    /\ Becomes(a, Idle)
    /\ UNCHANGED <<settings, local, latest, made, published, edits>>

Step(a) ==
    \/ Lookup(a)
    \/ a \in Publisher /\ \E h \in Snapshot : Publish(a, h)
    \/ BeginPull(a) \/ PullFromMirror(a) \/ FinishPull(a)
    \/ TruncateSignature(a) \/ WriteSignature(a)
    \/ Sign(a) \/ PushToMirror(a) \/ FinishPush(a)
    \/ Return(a) \/ Abort(a)

\* add-mirror and remove-mirror, with and without an identity.
Configure(a) ==
    \E list \in {"own", "additional"}, m \in Mirror :
        \/ \E readOnly \in BOOLEAN : AddMirror(a, list, m, readOnly)
        \/ RemoveMirror(a, list, m)

Next ==
    \/ \E a \in Archive : Step(a)
    \/ \E a \in Editor : Configure(a)

Spec == Init /\ [][Next]_vars

-----------------------------------------------------------------------------
\* Whatever has been published is in the history of everything published
\* later: one line of signatures, although calls fail between any two mirrors
\* and leave them with different signatures.
PublishedHistoryIsLinear ==
    \A s, t \in published : IsPrefix(s, t) \/ IsPrefix(t, s)

\* No push replaces the signature of the mirror that publishers ask last by
\* one that does not descend from it.
AuthorityAdvances == [][IsPrefix(latest[Authority], latest'[Authority])]_vars

\* A command that asks that mirror last gets what it held when the command
\* began, or something later: an old answer of another mirror, or an old
\* record of the archive, never wins.
AnswersAreFresh ==
    \A a \in Archive :
        call[a].pc = "return" /\ call[a].last = Authority =>
            IsPrefix(call[a].known, call[a].sig)

\* A publish only returns when all mirrors it was to push to hold the
\* signature, also when it finds the snapshot already signed, by an earlier
\* publish that failed on some of them.
PublishedEverywhere ==
    \A a \in Archive :
        call[a].pc = "return" /\ call[a].op = "publish" =>
            \A m \in call[a].targets : IsPrefix(call[a].sig, latest[m])

\* "the hash of the previous signature created for that identity (or the empty
\* string if there is none)" (README.md:170-171): all signatures after the first
\* one have it in their history.
EverySignatureHasPrevious ==
    \A s, t \in made : Head(s) = Head(t)

=============================================================================
