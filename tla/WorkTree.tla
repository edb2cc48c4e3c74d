------------------------------ MODULE WorkTree ------------------------------
(***************************************************************************)
(* A directory tree under version control: `rvcs snapshot` of the whole    *)
(* tree (snapshot.Current and snapshotDirectory), and `rvcs merge` of a    *)
(* snapshot into it (merge.Merge, mergeWithBase, mergeWithHelper and       *)
(* Checkout), run one at a time while a user works on the files.  The      *)
(* atomic steps are the work on one file or on one directory entry; what   *)
(* happens within the snapshot of one file is the subject of PathSnapshot. *)
(*                                                                         *)
(* The whole tree is at the path <<>>.  The archive may lie inside of it.  *)
(***************************************************************************)
EXTENDS PathMap

CONSTANTS
    Data,           \* the contents of files, and the targets of links
    Mode,           \* the permissions of files and directories
    DefaultMode,    \* those of the directories made on the way to a path
    Masked,         \* what the umask leaves of the permissions in os.Mkdir
    ArchivePath,    \* the path of the archive, or None: it is elsewhere
    Elsewhere,      \* the snapshots made elsewhere, with all that is in them
    Sources,        \* those of them that may be merged
    Starts,         \* a snapshot checked out in the beginning, or None
    Absences,       \* sets of snapshots that the archive may lack
    Generations,    \* the generations of ancestors that are looked at: Nat,
                    \* or as many as there may be
    Failed,         \* a merge helper that fails; a merge with conflicts
    MaxEdits,       \* bound on the actions of the user
    MaxCommands,    \* bound on the number of commands
    MaxAborts       \* bound on the number of commands that die

ASSUME ModesAssumption == DefaultMode \in Mode /\ Masked \in [Mode -> Mode]
ASSUME GenerationsAssumption == Generations \subseteq Nat
ASSUME BoundsAssumption == MaxEdits \in Nat /\ MaxCommands \in Nat /\ MaxAborts \in Nat
ASSUME ArchiveAssumption == ArchivePath \in (Path \ {<<>>}) \cup {None}

VARIABLES
    files,          \* for each path, the file there or None
    paths,          \* the mapping from paths to snapshots
    absent,         \* the snapshots the archive lacks
    lost,           \* whether the archive has been removed
    command,        \* the command under way
    outcome,        \* how the last command has ended
    edited,         \* whether the user has acted since it began
    interrupted,    \* whether a command has ended amid its writes
    taken,          \* the snapshots of the whole tree taken since it was last
                    \* checked out where nothing was
    edits, commands, aborts     \* counters

counters == <<edits, commands, aborts>>
vars == <<files, paths, absent, lost, command, outcome, edited, interrupted, taken, counters>>

\* The mode of a link is always the same.
File == [kind : {"file"}, mode : Mode, data : Data]
            \cup [kind : {"link"}, mode : {DefaultMode}, data : Data]
            \cup [kind : {"dir"}, mode : Mode, data : {None}]

ASSUME NoneAssumption == None \notin File

Top == <<>>
Idle == [pc |-> "idle"]

IsDirectory(p) == files[p] # None /\ files[p].kind = "dir"

\* The files form a tree, and so do the directories of mappedPaths.
TypeOK ==
    /\ files \in [Path -> File \cup {None}]
    /\ \A p \in Path : files[p] # None /\ p # Top => IsDirectory(Front(p))
    /\ paths.known \subseteq Path
    /\ \A p \in paths.known : Above(p) \subseteq paths.known
    /\ command.pc \in {"idle", "current", "merge", "remove", "checkout"}
    /\ outcome \in {"none", "ok", "refused", "failed"}

\* The file that a snapshot says is at its path.
FileOf(h) ==
    IF h = None THEN None
    ELSE [kind |-> h.kind, mode |-> h.mode,
          data |-> IF h.kind = "dir" THEN None ELSE h.contents]

\* These are snapshots of files, and hold what the directories among them list.
IsWhole(snapshots) ==
    \A h \in snapshots :
        /\ h # None /\ FileOf(h) \in File
        /\ h.kind = "dir" => \A n \in DOMAIN h.contents : h.contents[n] \in snapshots

ASSUME ElsewhereAssumption ==
    IsWhole(Elsewhere) /\ Sources \cup (Starts \ {None}) \subseteq Elsewhere

Excluded(p) == ArchivePath # None /\ IsPrefix(ArchivePath, p)
HoldsArchive(p) == ArchivePath # None /\ IsPrefix(p, ArchivePath)

\* What is above the archive is a directory.
ASSUME StartsAssumption ==
    \A h \in Starts : \A p \in Path :
        HoldsArchive(p) /\ At(h, p) # None => At(h, p).kind = "dir"

MadeOnTheWay == [kind |-> "dir", mode |-> DefaultMode, data |-> None]

\* In the beginning there is nothing, or a snapshot that has been checked out.
Init ==
    /\ \E h \in Starts :
           /\ files = [p \in Path |->
                          IF At(h, p) = None /\ HoldsArchive(p) THEN MadeOnTheWay
                          ELSE FileOf(At(h, p))]
           /\ paths = [latest |-> [p \in Path |-> At(h, p)],
                       known  |-> {p \in Path : At(h, p) # None}]
           /\ taken = {h} \ {None}
    /\ absent \in Absences
    /\ lost = FALSE
    /\ command = Idle /\ outcome = "none"
    /\ edited = FALSE /\ interrupted = FALSE
    /\ edits = 0 /\ commands = 0 /\ aborts = 0

-----------------------------------------------------------------------------
(***************************************************************************)
(* The user.                                                               *)
(***************************************************************************)
\* Nothing at p or below.
RemoveAll(fs, p) == [q \in Path |-> IF q \in Below(p) THEN None ELSE fs[q]]
Put(fs, p, f) == [RemoveAll(fs, p) EXCEPT ![p] = f]

Edit(fs) ==
    /\ edits < MaxEdits /\ ~lost
    /\ edits' = edits + 1 /\ edited' = TRUE
    /\ files' = fs
    /\ UNCHANGED <<paths, absent, lost, command, outcome, interrupted, taken, commands, aborts>>

InTree(p) == ~Excluded(p) /\ (p # Top => IsDirectory(Front(p)))

Write(p, f) ==
    /\ InTree(p) /\ files[p] # f
    /\ HoldsArchive(p) => files[p] = None
    /\ Edit(Put(files, p, f))
Delete(p) ==
    /\ InTree(p) /\ files[p] # None /\ ~HoldsArchive(p)
    /\ Edit(RemoveAll(files, p))
Chmod(p, m) ==
    /\ InTree(p) /\ files[p] # None
    /\ files[p].kind # "link" /\ files[p].mode # m
    /\ Edit([files EXCEPT ![p].mode = m])

User == \E p \in Path :
    \/ \E f \in File : (p = Top => f.kind = "dir" /\ files[p] = None) /\ Write(p, f)
    \/ Delete(p)
    \/ \E m \in Mode : Chmod(p, m)

-----------------------------------------------------------------------------
(***************************************************************************)
(* snapshot.Current of the whole tree, a recursive function whose calls    *)
(* for directories are kept as a stack of frames.                          *)
(***************************************************************************)
Calls == command.stack
Frame == Last(Calls)
Finish(how) == command' = Idle /\ outcome' = how

\* A snapshot, or with a source the first step of a merge.
Begin(src) ==
    /\ command = Idle /\ commands < MaxCommands /\ ~lost
    /\ commands' = commands + 1
    /\ command' = [pc |-> "current", src |-> src, stack |-> <<>>]
    /\ edited' = FALSE
    /\ UNCHANGED <<files, paths, absent, lost, outcome, interrupted, taken, edits, aborts>>

\* Fault: a change of the permissions is no change.
SnapshotOfAnyMode(p, kind, mode, contents) ==
    LET prev == paths.latest[p]
    IN  IF prev # None /\ prev.kind = kind /\ prev.contents = contents
        THEN prev
        ELSE [kind |-> kind, mode |-> mode, contents |-> contents,
              parents |-> IF prev = None THEN <<>> ELSE <<prev>>]

\* snapshotFileMetadata: what has not changed keeps its snapshot, the rest
\* gets a new one with the previous one as its parent.
SnapshotOf(p, kind, mode, contents) ==
    LET prev == paths.latest[p]
    IN  IF prev # None /\ prev.kind = kind /\ prev.mode = mode /\ prev.contents = contents
        THEN prev
        ELSE [kind |-> kind, mode |-> mode, contents |-> contents,
              parents |-> IF prev = None THEN <<>> ELSE <<prev>>]

Record(p, h) ==
    /\ paths' = IF paths.latest[p] = h THEN paths ELSE StoreSnapshot(paths, p, h)
    /\ absent' = absent \ {h}

\* The snapshot of a directory, with one more entry.
WithEntry(found, name, h) ==
    [n \in DOMAIN found \cup {name} |-> IF n = name THEN h ELSE found[n]]

\* The snapshot of p is h: it goes into the tree of the directory above.  The
\* snapshot of the whole tree ends the command, or is merged with the source;
\* where nothing is, Merge checks out the source.
Return(p, h, callers) ==
    IF callers # <<>>
    THEN /\ command' = [command EXCEPT !.stack =
                IF h = None THEN callers
                ELSE [callers EXCEPT ![Len(callers)].found = WithEntry(@, Last(p), h)]]
         /\ UNCHANGED <<outcome, taken>>
    ELSE IF command.src = None
    THEN Finish("ok") /\ taken' = taken \cup ({h} \ {None})
    ELSE IF h = None
    THEN /\ command' = [pc |-> "checkout", snapshot |-> command.src, stack |-> <<>>]
         /\ taken' = {} /\ UNCHANGED outcome
    ELSE /\ command' = [pc |-> "merge", src |-> command.src, prev |-> h]
         /\ taken' = taken \cup {h} /\ UNCHANGED outcome

\* The next step is that of p: of the whole tree, or of an entry of the
\* directory at hand; or that directory is done.
AtEntry(p) == IF Calls = <<>> THEN p = Top ELSE p \in Frame.left
AtEnd(p) == Calls # <<>> /\ Frame.left = {} /\ p = Frame.path

\* What snapshotFileMetadata looks up the previous snapshot of: an entry that
\* is no directory, or the directory that is done.
LooksUp(p) ==
    /\ command.pc = "current"
    /\ \/ AtEntry(p) /\ ~Excluded(p) /\ files[p] # None /\ files[p].kind # "dir"
       \/ AtEnd(p)

NewSnapshot(p) ==
    IF AtEnd(p) THEN SnapshotOf(p, "dir", Frame.mode, Frame.found)
    ELSE SnapshotOf(p, files[p].kind, files[p].mode, files[p].data)

\* A mapping that has not been written fails the command.
CurrentFails(p) ==
    /\ LooksUp(p) /\ paths.latest[p] = Blank
    /\ Finish("failed") /\ interrupted' = TRUE
    /\ UNCHANGED <<files, paths, absent, lost, edited, taken, counters>>

\* Current of one path: the whole tree, or an entry of the directory at hand.
CurrentEntry(p) ==
    /\ command.pc = "current"
    /\ AtEntry(p)
    /\ ~(LooksUp(p) /\ paths.latest[p] = Blank)
    /\ LET callers == IF Calls = <<>> THEN Calls
                      ELSE [Calls EXCEPT ![Len(Calls)].left = @ \ {p}]
           f == files[p]
       IN  IF Excluded(p) \/ f = None
           THEN Return(p, None, callers) /\ UNCHANGED <<paths, absent>>
           ELSE IF f.kind = "dir"
           THEN /\ command' = [command EXCEPT !.stack = Append(callers,
                       [path |-> p, mode |-> f.mode, found |-> <<>>,
                        left |-> {c \in Children(p) : files[c] # None}])]
                /\ UNCHANGED <<paths, absent, outcome, taken>>
           ELSE LET h == SnapshotOf(p, f.kind, f.mode, f.data)
                IN  Record(p, h) /\ Return(p, h, callers)
    /\ UNCHANGED <<files, lost, edited, interrupted, counters>>

\* The end of snapshotDirectory.
CurrentDirectory ==
    /\ command.pc = "current" /\ Calls # <<>> /\ Frame.left = {}
    /\ paths.latest[Frame.path] # Blank
    /\ LET h == SnapshotOf(Frame.path, "dir", Frame.mode, Frame.found)
       IN  Record(Frame.path, h) /\ Return(Frame.path, h, Front(Calls))
    /\ UNCHANGED <<files, lost, edited, interrupted, counters>>

-----------------------------------------------------------------------------
(***************************************************************************)
(* Merge.                                                                  *)
(***************************************************************************)
Ancestors(h) ==
    LET generation[n \in Nat] ==
            IF n = 0 THEN {h} ELSE UNION {Range(a.parents) : a \in generation[n - 1]}
    IN  UNION {generation[n] : n \in Generations}

\* What merge.Base may return, by BaseContract: a snapshot that is an ancestor
\* of the other, otherwise some common ancestor, and nil only when there is
\* none.  It fails when the history of either cannot be read.
Bases(src, dest) ==
    LET common == Ancestors(src) \cap Ancestors(dest)
    IN  IF src = dest THEN {src}
        ELSE IF (Ancestors(src) \cup Ancestors(dest)) \cap absent # {} THEN {Failed}
        ELSE IF src \in common THEN {src}
        ELSE IF dest \in common THEN {dest}
        ELSE IF common = {} THEN {None} ELSE common

\* Both sides descend from the base, and all that is needed can be read.
Mergeable(base, src, dest) ==
    /\ base # None => /\ base \in Ancestors(src) \cap Ancestors(dest)
                      /\ (Ancestors(src) \cup Ancestors(dest)) \cap absent = {}
    /\ {base, src, dest} \cap absent = {}
    /\ src.kind # "link" /\ dest.kind # "link"

\* Fault: only the source is recorded as a parent.
ParentsOfCopy(src, dest) == <<src>>

ParentsOfMerge(src, dest) == <<src, dest>>

\* mergeWithHelper: what the helper writes becomes a file with the mode of the
\* destination.  A directory is nothing a helper can merge.
MergedFile(src, dest, helper) ==
    IF helper = Failed \/ "dir" \in {src.kind, dest.kind}
    THEN Failed
    ELSE [kind |-> "file", mode |-> dest.mode, contents |-> helper,
          parents |-> ParentsOfMerge(src, dest)]

Child(h, name) == IF Lists(h, <<name>>) THEN h.contents[name] ELSE None

\* Fault: what only the destination has is not looked at.
EntriesOfSource(p, src, dest) == {c \in Children(p) : Lists(src, c)}

EntriesOfEither(p, src, dest) == {c \in Children(p) : Lists(src, c) \/ Lists(dest, c)}

\* mergeWithBase of what the three snapshots have at p, with what it returns
\* for the paths below.
MergedEntry(p, base, src, dest, helper, merged) ==
    IF src = dest \/ dest = base THEN src
    ELSE IF src = base THEN dest
    ELSE IF None \in {src, dest} THEN Failed
    ELSE IF ~Mergeable(base, src, dest) THEN Failed
    ELSE IF ~(src.kind = "dir" /\ dest.kind = "dir") THEN MergedFile(src, dest, helper)
    ELSE LET entries == EntriesOfEither(p, src, dest)
         IN  IF src.mode # dest.mode \/ \E c \in entries : merged[c] = Failed
             THEN Failed
             ELSE [kind |-> "dir", mode |-> src.mode,
                   contents |-> [n \in {Last(c) : c \in {e \in entries : merged[e] # None}} |->
                                    merged[Append(p, n)]],
                   parents |-> ParentsOfMerge(src, dest)]

Merged(base, src, dest, helper) ==
    LET merged[p \in Path] ==
            MergedEntry(p, At(base, p), At(src, p), At(dest, p), helper, merged)
    IN  merged[Top]

MergeSnapshots ==
    /\ command.pc = "merge"
    /\ \E base \in Bases(command.src, command.prev), helper \in Data \cup {Failed} :
           LET merged == Merged(base, command.src, command.prev, helper)
           IN  IF base = Failed THEN Finish("refused")
               ELSE IF base = command.src THEN Finish("ok")
               ELSE IF merged = Failed THEN Finish("refused")
               ELSE /\ command' = [pc |-> "remove", src |-> command.src, prev |-> command.prev,
                                   base |-> base, merged |-> merged, helper |-> helper]
                    /\ UNCHANGED outcome
    /\ UNCHANGED <<files, paths, absent, lost, edited, interrupted, taken, counters>>

\* os.RemoveAll spares nothing: not what is excluded, not the archive.
RemoveTree ==
    /\ command.pc = "remove"
    /\ files' = RemoveAll(files, Top)
    /\ lost' = (ArchivePath # None)
    /\ paths' = IF lost' THEN NoMappings ELSE paths
    /\ command' = [pc |-> "checkout", snapshot |-> command.merged, stack |-> <<>>]
    /\ UNCHANGED <<absent, outcome, edited, interrupted, taken, counters>>

-----------------------------------------------------------------------------
(***************************************************************************)
(* Checkout, again with a frame for each directory.                        *)
(***************************************************************************)
CheckoutFails ==
    /\ Finish("failed") /\ interrupted' = TRUE
    /\ UNCHANGED <<files, paths>>

\* os.MkdirAll of the directory above p.
Unmakeable(p) ==
    \E q \in Above(p) \ {p} : files[q] # None /\ files[q].kind # "dir"
WithDirectories(p) ==
    [q \in Path |-> IF q \in Above(p) \ {p} /\ files[q] = None
                    THEN MadeOnTheWay ELSE files[q]]

\* recreateFile and recreateLink.  A link that has the right target is left,
\* and a link where a file is to be is followed: either its target can be
\* written, outside of the tree, or the link is replaced.
Recreations(fs, p, h) ==
    {Put(fs, p, FileOf(h))} \cup
        IF fs[p] # None /\ fs[p].kind = "link" /\ h.kind = "file" THEN {fs} ELSE {}

\* recreateDir, up to its second loop: a directory that exists gets the right
\* permissions, a new one those that the umask leaves; entries that are not in
\* the snapshot go.
RecreateDir(fs, p, h) ==
    LET made == IF fs[p] # None /\ fs[p].kind = "dir"
                THEN [fs EXCEPT ![p].mode = h.mode]
                ELSE Put(fs, p, [FileOf(h) EXCEPT !.mode = Masked[h.mode]])
        extra == {c \in Children(p) : ~Lists(h, c) /\ ~Excluded(c)}
    IN  [q \in Path |-> IF Above(q) \cap extra # {} THEN None ELSE made[q]]

\* What is checked out at p, the whole tree or an entry.
SnapshotAt(p) == IF Calls = <<>> THEN command.snapshot ELSE Child(Frame.snapshot, Last(p))

\* Checkout of one path: the whole tree, or an entry of the directory at hand.
CheckoutEntry(p) ==
    /\ command.pc = "checkout"
    /\ AtEntry(p)
    /\ LET h == SnapshotAt(p)
           callers == IF Calls = <<>> THEN Calls
                      ELSE [Calls EXCEPT ![Len(Calls)].left = @ \ {p}]
       IN  IF h \in absent \/ lost \/ Unmakeable(p)
           THEN CheckoutFails
           ELSE /\ UNCHANGED interrupted
                /\ IF h.kind = "dir"
                   THEN /\ files' = RecreateDir(WithDirectories(p), p, h)
                        /\ command' = [command EXCEPT !.stack = Append(callers,
                               [path |-> p, snapshot |-> h,
                                left |-> {c \in Children(p) : Lists(h, c) /\ ~Excluded(c)}])]
                        /\ UNCHANGED <<paths, outcome>>
                   ELSE /\ files' \in Recreations(WithDirectories(p), p, h)
                        /\ paths' = StoreSnapshot(paths, p, h)
                        /\ IF callers = <<>> THEN Finish("ok")
                           ELSE /\ command' = [command EXCEPT !.stack = callers]
                                /\ UNCHANGED outcome
    /\ UNCHANGED <<absent, lost, edited, taken, counters>>

CheckoutDirectory ==
    /\ command.pc = "checkout" /\ Calls # <<>> /\ Frame.left = {}
    /\ paths' = StoreSnapshot(paths, Frame.path, Frame.snapshot)
    /\ IF Len(Calls) = 1 THEN Finish("ok")
       ELSE command' = [command EXCEPT !.stack = Front(Calls)] /\ UNCHANGED outcome
    /\ UNCHANGED <<files, absent, lost, edited, interrupted, taken, counters>>

-----------------------------------------------------------------------------
\* A command dies between two steps.
Die ==
    /\ command # Idle /\ aborts < MaxAborts
    /\ aborts' = aborts + 1
    /\ Finish("failed") /\ interrupted' = TRUE
    /\ UNCHANGED <<files, paths, absent, lost, edited, taken, edits, commands>>

\* A command dies while it stores h as the latest snapshot of p: the files
\* are fs by then, and the object is stored before the mapping is touched.
DieStoring(p, h, fs) ==
    /\ aborts < MaxAborts
    /\ aborts' = aborts + 1
    /\ Finish("failed") /\ interrupted' = TRUE
    /\ files' = fs
    /\ paths' \in CutShort(paths, p, h)
    /\ \/ absent' = absent \ {h}
       \/ absent' = absent /\ paths'.latest = paths.latest
    /\ UNCHANGED <<lost, edited, taken, edits, commands>>

DieInCurrent(p) ==
    /\ LooksUp(p) /\ paths.latest[p] \notin {Blank, NewSnapshot(p)}
    /\ DieStoring(p, NewSnapshot(p), files)

DieInCheckoutEntry(p) ==
    /\ command.pc = "checkout" /\ AtEntry(p)
    /\ SnapshotAt(p) \notin absent /\ ~lost /\ ~Unmakeable(p) /\ SnapshotAt(p).kind # "dir"
    /\ \E fs \in Recreations(WithDirectories(p), p, SnapshotAt(p)) :
           DieStoring(p, SnapshotAt(p), fs)

DieInCheckoutDirectory(p) ==
    /\ command.pc = "checkout" /\ AtEnd(p)
    /\ DieStoring(p, Frame.snapshot, files)

Command ==
    \/ \E src \in Sources \cup {None} : Begin(src)
    \/ \E p \in Path : CurrentEntry(p) \/ CurrentFails(p) \/ CheckoutEntry(p)
    \/ CurrentDirectory \/ MergeSnapshots \/ RemoveTree \/ CheckoutDirectory
    \/ Die
    \/ \E p \in Path : DieInCurrent(p) \/ DieInCheckoutEntry(p) \/ DieInCheckoutDirectory(p)

Next == User \/ Command

Spec == Init /\ [][Next]_vars

-----------------------------------------------------------------------------
\* merge.go:189-193: whatever is missing, fails or dies, every snapshot of the
\* tree that was taken before, that of a merge included, is in the history of
\* the latest one, from which `rvcs log` starts.  The exception is a command
\* that dies between truncating and writing the mapping of the whole tree
\* (storage.go:253): there is no latest one then, and rvcs log fails.  No later
\* snapshot takes that mapping for none and begins another history with it.
PreviousVersionsAreRetrievable ==
    paths.latest[Top] # Blank =>
        \A h \in taken :
            paths.latest[Top] # None /\ h \in Ancestors(paths.latest[Top])

\* After a snapshot or a merge during which nobody touched the files, and
\* after a merge that was refused, the files are exactly those of the latest
\* snapshot, down to their modes: the next `rvcs snapshot` finds no change.
TreeIsRecorded ==
    command = Idle /\ outcome \in {"ok", "refused"} /\ ~edited /\ files[Top] # None =>
        \A p \in Path : ~Excluded(p) => files[p] = FileOf(At(paths.latest[Top], p))

\* As long as no command has ended amid its writes, the path map is the tree
\* of the latest snapshot, whatever was edited meanwhile: no path has a
\* mapping that is older or newer, or has outlived its file.
MappingsAreTheTree ==
    command = Idle /\ ~interrupted =>
        \A p \in Path : paths.latest[p] = At(paths.latest[Top], p)

\* What a merge is about to check out is, path by path, the three-way merge of
\* its sides: what only one of them has changed is taken from it, and only
\* what both have changed is left to the helper.
Leaf(h, p) == IF At(h, p) = None \/ At(h, p).kind = "dir" THEN None ELSE At(h, p)

ThreeWay(base, src, dest, helper) ==
    IF src = dest \/ dest = base THEN {src}
    ELSE IF src = base THEN {dest}
    ELSE IF None \in {src, dest} THEN {}
    ELSE {[kind |-> "file", mode |-> m, contents |-> helper, parents |-> <<src, dest>>] :
             m \in {src.mode, dest.mode}}

MergeIsThreeWay ==
    command.pc = "remove" =>
        \A p \in Path :
            Leaf(command.merged, p) \in
                ThreeWay(Leaf(command.base, p), Leaf(command.src, p),
                         Leaf(command.prev, p), command.helper)

=============================================================================
