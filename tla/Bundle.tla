------------------------------- MODULE Bundle -------------------------------
(***************************************************************************)
(* Bundles: zip files that carry objects from one archive to another       *)
(* (bundle/bundle.go), written by `rvcs export` and read by `rvcs import`. *)
(* Export walks the objects of an archive with AddFile, a recursive        *)
(* function whose calls are kept here as a stack of frames.                *)
(*                                                                         *)
(* An object is named by its hash.  The hashes make the graph of objects   *)
(* acyclic and the same in every archive; an archive is the set of objects *)
(* it holds, some of them cut short by a process that died (ObjectStore).  *)
(* A bundle file is a sequence of blocks, all of one length: the entries   *)
(* of the zip file and, last, its central directory.                       *)
(***************************************************************************)
EXTENDS Integers, Sequences, SequencesExt

CONSTANTS
    Object,         \* the objects
    Snapshot,       \* those that are File objects
    None,           \* the nil hash
    Contents,       \* the contents of a snapshot, an object or None
    Dir,            \* the snapshots of directories
    Tree,           \* for each object, the snapshots it lists as a tree
    Parents,        \* for each snapshot, the list of its parents
    Orders,         \* the commands considered, and the archives they meet
    Repeats,        \* and those considered for further exports
    MaxExports,     \* bound on the number of exports to the same path
    MaxCrashes      \* bound on the number of commands that die

ASSUME GraphAssumption ==
    /\ Snapshot \subseteq Object /\ None \notin Object
    /\ Contents \in [Snapshot -> (Object \ Snapshot) \cup {None}]
    /\ Dir \subseteq Snapshot
    /\ Tree \in [Object -> SUBSET Snapshot]
    /\ Parents \in [Snapshot -> Seq(Snapshot)]

(***************************************************************************)
(* An order: the flags of `rvcs export`, what the exporting archive holds  *)
(* and which of that is cut short, and what the importing archive holds.   *)
(***************************************************************************)
Order == [snapshots : Seq(Snapshot), exclude : SUBSET Object,
          recurseParents : BOOLEAN,
          source : SUBSET Object, cut : SUBSET Object, held : SUBSET Object]

ASSUME OrdersAssumption == Orders \subseteq Order /\ Repeats \subseteq Order
ASSUME BoundsAssumption == MaxExports \in Nat /\ MaxCrashes \in Nat

VARIABLES
    order,          \* the flags and the archives
    queue,          \* the snapshots that Export has not yet begun to add
    stack,          \* the calls of AddFile under way, the outermost first
    visited,        \* ZipWriter.visited
    entries,        \* the entries of the zip file so far
    export,         \* how the export goes
    exports,        \* how many exports have begun
    file,           \* the blocks of the bundle file
    import,         \* how the import goes
    position,       \* the entry Import is at
    held,           \* the objects of the importing archive
    heldCut,        \* those of them that are cut short
    crashes         \* how many commands have died

exporter == <<queue, stack, visited, entries, export, exports>>
importer == <<import, position, held, heldCut>>
vars == <<order, exporter, file, importer, crashes>>

\* A call of AddFile: the steps it has behind it, and what its loops have left.
Frame == [snapshot : Snapshot,
          at       : {"snapshot", "contents", "tree", "children", "parents"},
          children : SUBSET Snapshot,
          parents  : Seq(Snapshot)]

\* A block of a bundle file: an entry, whole or without its end, or the directory.
Entry(o, whole) == [directory |-> FALSE, objects |-> <<o>>, whole |-> whole]
Directory(os) == [directory |-> TRUE, objects |-> os, whole |-> TRUE]
Block == [directory : BOOLEAN, objects : Seq(Object), whole : BOOLEAN]

TypeOK ==
    /\ order \in Order
    /\ queue \in Seq(Snapshot)
    /\ stack \in Seq(Frame)
    /\ visited \subseteq Object
    /\ entries \in Seq(Block)
    /\ export \in {"running", "failing", "ok", "failed", "died"}
    /\ exports \in Nat
    /\ file \in Seq(Block)
    /\ import \in {"none", "running", "ok", "failed"}
    /\ position \in Nat
    /\ held \subseteq Object /\ heldCut \subseteq held
    /\ crashes \in Nat

Init ==
    /\ order \in Orders
    /\ queue = order.snapshots
    /\ stack = <<>> /\ visited = {} /\ entries = <<>>
    /\ export = "running" /\ exports = 1
    /\ file = <<>>
    /\ import = "none" /\ position = 1
    /\ held = order.held /\ heldCut = {}
    /\ crashes = 0

-----------------------------------------------------------------------------
(***************************************************************************)
(* Export.                                                                 *)
(***************************************************************************)
\* Objects that can be read to their end.
Whole == order.source \ order.cut

Top == stack[Len(stack)]
Resume(frame) == [stack EXCEPT ![Len(stack)] = frame]
Call(h, callers) ==
    Append(callers, [snapshot |-> h, at |-> "snapshot",
                     children |-> {}, parents |-> Parents[h]])
Running(at) == export = "running" /\ stack # <<>> /\ Top.at = at

\* An error ends the calls of AddFile one after the other, up to one that is
\* in the loop over its parents: there `err` is a variable of the loop, so the
\* function ends the loop and returns nil to its caller.
Catchers == {i \in DOMAIN stack : stack[i].at = "parents"}

Raise ==
    IF Catchers = {}
    THEN export' = "failing" /\ stack' = <<>>
    ELSE /\ \E i \in Catchers :
                /\ \A j \in Catchers : j <= i
                /\ stack' = SubSeq(stack, 1, i - 1)
         /\ UNCHANGED export

\* Fault: an object that is added a second time is an error.
AddObjectOnce(o, frame) ==
    IF o \in order.exclude
    THEN stack' = Resume(frame) /\ UNCHANGED <<visited, entries, export>>
    ELSE IF o \in visited
    THEN Raise /\ UNCHANGED <<visited, entries>>
    ELSE /\ visited' = visited \cup {o}
         /\ entries' = IF o \in order.source
                       THEN Append(entries, Entry(o, o \in Whole)) ELSE entries
         /\ IF o \in Whole THEN stack' = Resume(frame) /\ UNCHANGED export ELSE Raise

\* AddObject marks the object as visited before it reads it.  The entry of an
\* object that is cut short has been created when the error comes.
AddObject(o, frame) ==
    IF o \in order.exclude \cup visited
    THEN stack' = Resume(frame) /\ UNCHANGED <<visited, entries, export>>
    ELSE /\ visited' = visited \cup {o}
         /\ entries' = IF o \in order.source
                       THEN Append(entries, Entry(o, o \in Whole)) ELSE entries
         /\ IF o \in Whole THEN stack' = Resume(frame) /\ UNCHANGED export ELSE Raise

\* Export reads the next of the snapshots asked for and adds it.
AddNext ==
    /\ export = "running" /\ stack = <<>> /\ queue # <<>>
    /\ queue' = Tail(queue)
    /\ IF Head(queue) \in Whole
       THEN stack' = Call(Head(queue), <<>>) /\ UNCHANGED export
       ELSE export' = "failing" /\ UNCHANGED stack
    /\ UNCHANGED <<order, visited, entries, exports, file, importer, crashes>>

AddSnapshot ==
    /\ Running("snapshot")
    /\ AddObject(Top.snapshot, [Top EXCEPT !.at = "contents"])
    /\ UNCHANGED <<order, queue, exports, file, importer, crashes>>

\* Nil contents are left out, and so is the tree of anything but a directory.
AddContents ==
    /\ Running("contents")
    /\ LET c == Contents[Top.snapshot]
       IN  IF c = None
           THEN /\ stack' = Resume([Top EXCEPT !.at = "parents"])
                /\ UNCHANGED <<visited, entries, export>>
           ELSE AddObject(c, [Top EXCEPT !.at = IF Top.snapshot \in Dir
                                                THEN "tree" ELSE "parents"])
    /\ UNCHANGED <<order, queue, exports, file, importer, crashes>>

\* ListDirectorySnapshotContents reads the contents again, also when they are
\* excluded from the bundle or were visited before.
ReadTree ==
    /\ Running("tree")
    /\ LET c == Contents[Top.snapshot]
       IN  IF c \in Whole
           THEN /\ stack' = Resume([Top EXCEPT !.at = "children", !.children = Tree[c]])
                /\ UNCHANGED export
           ELSE Raise
    /\ UNCHANGED <<order, queue, visited, entries, exports, file, importer, crashes>>

\* Faults: a child that cannot be read is skipped, as a parent is; an excluded
\* child is left out, but not what is below it.
AddChildLenient(h) ==
    /\ Running("children") /\ h \in Top.children
    /\ LET rest == Resume([Top EXCEPT !.children = @ \ {h}])
       IN  stack' = IF h \in Whole \ (order.exclude \cup visited) THEN Call(h, rest) ELSE rest
    /\ UNCHANGED <<order, queue, visited, entries, export, exports, file, importer, crashes>>

AddChildOfExcluded(h) ==
    /\ Running("children") /\ h \in Top.children
    /\ LET rest == Resume([Top EXCEPT !.children = @ \ {h}])
       IN  IF h \in visited
           THEN stack' = rest /\ UNCHANGED export
           ELSE IF h \in Whole
           THEN stack' = Call(h, rest) /\ UNCHANGED export
           ELSE Raise
    /\ UNCHANGED <<order, queue, visited, entries, exports, file, importer, crashes>>

\* The tree is a map: its children come in any order.
AddChild(h) ==
    /\ Running("children") /\ h \in Top.children
    /\ LET rest == Resume([Top EXCEPT !.children = @ \ {h}])
       IN  IF h \in order.exclude \cup visited
           THEN stack' = rest /\ UNCHANGED export
           ELSE IF h \in Whole
           THEN stack' = Call(h, rest) /\ UNCHANGED export
           ELSE Raise
    /\ UNCHANGED <<order, queue, visited, entries, exports, file, importer, crashes>>

ChildrenAdded ==
    /\ Running("children") /\ Top.children = {}
    /\ stack' = Resume([Top EXCEPT !.at = "parents"])
    /\ UNCHANGED <<order, queue, visited, entries, export, exports, file, importer, crashes>>

\* The deferred function of AddFile: a parent that cannot be read is skipped.
AddParent ==
    /\ Running("parents") /\ order.recurseParents /\ Top.parents # <<>>
    /\ LET rest == Resume([Top EXCEPT !.parents = Tail(@)])
       IN  stack' = IF Head(Top.parents) \in Whole
                    THEN Call(Head(Top.parents), rest) ELSE rest
    /\ UNCHANGED <<order, queue, visited, entries, export, exports, file, importer, crashes>>

ReturnFromAddFile ==
    /\ Running("parents")
    /\ order.recurseParents => Top.parents = <<>>
    /\ stack' = Front(stack)
    /\ UNCHANGED <<order, queue, visited, entries, export, exports, file, importer, crashes>>

\* The file is opened without O_TRUNC: what is written replaces what was there,
\* block by block, and what was there beyond it stays.
Overwrite(blocks) == blocks \o SubSeq(file, Len(blocks) + 1, Len(file))

\* The deferred Close writes the directory, also when the export has failed.
CloseBundle ==
    /\ \/ export = "running" /\ stack = <<>> /\ queue = <<>> /\ export' = "ok"
       \/ export = "failing" /\ export' = "failed"
    /\ file' = Overwrite(Append(entries,
                   Directory([i \in DOMAIN entries |-> entries[i].objects[1]])))
    /\ UNCHANGED <<order, queue, stack, visited, entries, exports, importer, crashes>>

\* Some of the last writes may still have been in memory.
ExportDies ==
    /\ export \in {"running", "failing"} /\ crashes < MaxCrashes
    /\ crashes' = crashes + 1
    /\ export' = "died"
    /\ \E n \in 0..Len(entries) : file' = Overwrite(SubSeq(entries, 1, n))
    /\ UNCHANGED <<order, queue, stack, visited, entries, exports, importer>>

\* Another export to the same path.
ExportAgain ==
    /\ export \in {"ok", "failed", "died"} /\ import # "running"
    /\ exports < MaxExports
    /\ exports' = exports + 1
    /\ \E o \in Repeats : order' = o /\ queue' = o.snapshots
    /\ stack' = <<>> /\ visited' = {} /\ entries' = <<>>
    /\ export' = "running" /\ import' = "none"
    /\ UNCHANGED <<file, position, held, heldCut, crashes>>

Export ==
    \/ AddNext \/ AddSnapshot \/ AddContents \/ ReadTree
    \/ \E h \in Snapshot : AddChild(h)
    \/ ChildrenAdded \/ AddParent \/ ReturnFromAddFile \/ CloseBundle

-----------------------------------------------------------------------------
(***************************************************************************)
(* Import.                                                                 *)
(***************************************************************************)
\* A zip file is read from its end, where its directory is.
HasDirectory == file # <<>> /\ Last(file).directory
Listed == Last(file).objects

\* Every entry is found where the directory says, and has the hash that its
\* name says.
IsValid ==
    /\ HasDirectory
    /\ \A i \in DOMAIN Listed : i < Len(file) /\ file[i] = Entry(Listed[i], TRUE)

\* All of the entries are validated before the first is imported.
BeginImport ==
    /\ export \in {"ok", "failed", "died"} /\ import \in {"none", "failed"}
    /\ import' = IF IsValid THEN "running" ELSE "failed"
    /\ position' = 1
    /\ UNCHANGED <<order, exporter, file, held, heldCut, crashes>>

\* What ReadObject can open is skipped, whether or not it is whole.
ImportEntry ==
    /\ import = "running" /\ position \in DOMAIN Listed
    /\ held' = held \cup {Listed[position]}
    /\ position' = position + 1
    /\ UNCHANGED <<order, exporter, file, import, heldCut, crashes>>

\* Fault: the last entry is left out.
FinishImportEarly ==
    /\ import = "running" /\ position >= Len(Listed)
    /\ import' = "ok"
    /\ UNCHANGED <<order, exporter, file, position, held, heldCut, crashes>>

FinishImport ==
    /\ import = "running" /\ position > Len(Listed)
    /\ import' = "ok"
    /\ UNCHANGED <<order, exporter, file, position, held, heldCut, crashes>>

\* The command fails or dies between two entries, or dies in StoreObject while a large
\* object has its name but not its end.
ImportDies ==
    /\ import = "running" /\ crashes < MaxCrashes
    /\ crashes' = crashes + 1
    /\ import' = "failed"
    /\ \/ UNCHANGED <<held, heldCut>>
       \/ /\ position \in DOMAIN Listed /\ Listed[position] \notin held \cup Snapshot
          /\ held' = held \cup {Listed[position]}
          /\ heldCut' = heldCut \cup {Listed[position]}
    /\ UNCHANGED <<order, exporter, file, position>>

Import == BeginImport \/ ImportEntry \/ FinishImport

Next ==
    \/ Export \/ Import
    \/ ExportDies \/ ImportDies
    \/ ExportAgain

Spec == Init /\ [][Next]_vars

-----------------------------------------------------------------------------
(***************************************************************************)
(* What a bundle should hold.                                              *)
(***************************************************************************)
Children(h) == IF h \in Dir /\ Contents[h] # None THEN Tree[Contents[h]] ELSE {}
Before(h) == Range(Parents[h])

\* The snapshots asked for by the order o, those of the files in a directory
\* asked for, unless excluded, and with recurseParents the parents of both.
Reaches(o, S) ==
    /\ Range(o.snapshots) \subseteq S
    /\ \A h \in S : Children(h) \ o.exclude \subseteq S
    /\ o.recurseParents => \A h \in S : Before(h) \subseteq S
Reached(o) ==
    LET closed == {S \in SUBSET Snapshot : Reaches(o, S)}
    IN  {h \in Snapshot : \A S \in closed : h \in S}

WithContents(S) == S \cup ({Contents[h] : h \in S} \ {None})
Asked(o) == WithContents(Reached(o)) \ o.exclude

\* The exporting archive can be read as far as the export may have to.
IsComplete(o) == WithContents(Reached(o)) \subseteq o.source \ o.cut

Begun == {entries[i].objects[1] : i \in DOMAIN entries}
Bundled == {entries[i].objects[1] : i \in {j \in DOMAIN entries : entries[j].whole}}

\* An export that reports success has written everything asked for, whatever
\* is missing in the archive, as long as it does not go on to the parents; and
\* with the parents, when nothing is missing.
OkMeansComplete ==
    export = "ok" /\ (order.recurseParents => IsComplete(order)) =>
        Bundled = Asked(order)

\* At every step an object is in the bundle at most once, and only because it
\* was asked for: nothing excluded, and nothing below an excluded child.
OnlyWhatIsAsked ==
    /\ \A i, j \in DOMAIN entries : entries[i].objects = entries[j].objects => i = j
    /\ Begun \subseteq Asked(order)

\* An export of an archive in which nothing is missing does not fail.
FailsOnlyWhenIncomplete ==
    export \in {"failing", "failed"} => ~IsComplete(order)

\* The exclusion of everything that the importing archive holds, with all that
\* belongs to it, is sound: after the import, interrupted and repeated or not,
\* that archive holds all of the snapshots asked for.  rvcs-push-file and
\* rvcs-pull-file rest on this.
IsClosed(S, recurseParents) ==
    \A h \in S \cap Snapshot :
        /\ Contents[h] \in S \cup {None}
        /\ Children(h) \subseteq S
        /\ recurseParents => Before(h) \subseteq S

IncrementalExportSuffices ==
    /\ import = "ok" /\ export = "ok" /\ IsComplete(order)
    /\ IsClosed(order.exclude, order.recurseParents) /\ order.exclude \subseteq order.held
    => Asked([order EXCEPT !.exclude = {}]) \subseteq held

\* bundle.go:181-184: without an error the bundle, as its file can be read,
\* includes the specified snapshots, their contents and, recursively, the
\* snapshots of the children, all but what is excluded.
ExportIncludesSnapshots ==
    export = "ok" =>
        /\ IsValid
        /\ Asked([order EXCEPT !.recurseParents = FALSE]) \subseteq Range(Listed)
=============================================================================
