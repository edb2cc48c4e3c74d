# A TLA+ verification of rvcs

This directory holds TLA+ models of the recursive version control system
(`rvcs`), the TLC configurations that check them on small instances, and
theorems about them that the TLAPS proof system has checked. File and line
numbers refer to the sources under `src/`.

## The system

`rvcs` records the history of files. There is no server and no daemon: every
command is a short-lived process that works on one *archive* directory
(`~/.rvcs` by default) and on the user's files, and several of them may run at
the same time. Nothing in the code takes a lock.

| Component | Sources | State it keeps | Operations |
|---|---|---|---|
| Snapshot history and log | `snapshot/file.go`, `log/log.go` | immutable `File` objects that name their parents by hash | `ReadLog`, `SummarizeLog` |
| Merge base | `merge/base.go` | none | `Base` |
| Object store | `storage/storage.go` | `objects/` (small objects), the large, encrypted objects, the archive's identity, staging files | `StoreObject`, `ReadObject`, `identity` |
| Path mappings and cache | `storage/storage.go` | for each path its latest snapshot, the trie of mapped paths, the cached stat information | `StoreSnapshot`, `FindSnapshot`, `RemoveMappingForPath`, `CachePathInfo`, `PathInfoMatchesCache` |
| Snapshot of a file | `snapshot/snapshot.go`, `command/snapshot.go` | none of its own | `Current`, `rvcs snapshot` |
| Merge and checkout | `merge/merge.go`, `merge/checkout.go`, `merge/helper.go` | the user's file tree | `Merge`, `Checkout`, `IsAncestor` |
| Publishing and mirrors | `publish/`, `command/publish.go`, `command/commands.go` | the latest signature per identity | `Sign`, `Verify`, `Push`, `Pull` |
| Bundles | `bundle/bundle.go` | zip files | `Export`, `Import` |
| File mirror helpers | `extensions/rvcs-push-file`, `rvcs-pull-file` | a chain of numbered bundles | push, pull |
| Configuration | `config/config.go`, `command/*-mirror.go` | identities and their mirrors | read, write, add and remove a mirror |
| Text formats | `snapshot/hash.go`, `file.go`, `tree.go`, `identity.go` | none | parse, format |
| Command line | `cmd/rvcs`, `command/` | none | `Run` |

How they interact. `rvcs snapshot` calls `snapshot.Current`, which stores the
contents and then a `File` object in the object store, and points the mapping of
the path at it; the next snapshot of the path finds its parent there. `rvcs log`
and `rvcs merge` walk the graph of `File` objects with `ReadLog`; `Merge`
compares three trees and calls `Checkout`, which writes the user's files and
points their mappings at the snapshot written. `rvcs publish` snapshots, signs
and pushes to the mirrors of an identity; whenever a snapshot is named by an
identity, `Pull` asks the mirrors for its latest signature first. The mirrors are
external helpers, which move bundles. The only shared state is the file system.

### What is hard

* **Interleavings.** Two processes in one archive: the creation of the identity,
  one object stored twice, one path snapshotted twice, one configuration edited
  twice. A user who edits while a snapshot, a merge or a checkout is under way.
* **Crashes.** Files are written in place (`os.WriteFile` truncates and then
  writes) or renamed before their last bytes are flushed.
* **Stale state.** The cache decides from stat information whether a file has
  changed; modification times are compared with a clock of one second.
* **Graph algorithms** over histories that other people made: merges, several
  parents, histories that a bundle has cut off.
* **Distribution.** Mirrors that lag behind, or know nothing; lost updates.

`PROJECT.json` lists these hazards one by one, at the lines where they bite, with
the properties that cover them.

### What makes each component correct

* *Log*: an unlimited log lists exactly the ancestors; a limited one exactly those
  within the limit; it only fails in an incomplete archive; it ends.
* *Merge base*: a common ancestor whenever there is one; the side itself when one
  side is an ancestor of the other; the most recent one (which the code does not
  achieve in general).
* *Object store*: what `StoreObject` has returned a hash for can be read from then on.
* *Snapshots*: a snapshot is never stale; the history of a path never loses a
  snapshot that a command has reported; it is always complete.
* *Path mappings*: the mappings are exactly the tree of the latest snapshot.
* *Merge and checkout*: the merge is the three-way merge of every path; what is checked
  out is what the snapshot holds; whatever fails, the history has what was there before.
* *Publishing*: the signature of an identity never goes back to an ancestor.
* *Bundles*: a bundle holds what was asked for and nothing else; leaving out what the
  other archive has is sound.
* *File mirror helpers*: the bundles of a mirror together hold all the history of its latest
  signature; who pulls that signature has all of it.

## The modules

| Module | What it models |
|---|---|
| `Ancestry` | the graph of snapshots, the ancestry relation, and the walk of `log.ReadLog` as operators on a record |
| `ArchivedHistory` | what `ReadLog` and `merge.Base` have before them: a graph of snapshots and what the archive has of it |
| `ReadLog` | one `ReadLog`, with and without a depth limit, in complete and incomplete archives |
| `BaseContract` | abstract: what `merge.Base` promises to a merge |
| `MergeBase` | `merge.Base`: two walks and the lockstep scan; it implements `BaseContract` |
| `ObjectStore` | `StoreObject`, `ReadObject` and `identity()`, run by several processes that may die |
| `FileHistory` | abstract: the versions of one file form a line that grows at its end |
| `PathSnapshot` | `rvcs snapshot` on one path with a regular file, with the mapping and the cache, a clock and a user |
| `Publish` | `rvcs publish` and the lookups of an identity: `Pull`, `Sign`, `Verify`, `Push`, the recorded signature, the mirrors in the settings |
| `PathMap` | the mapping of paths to snapshots, as operators: `StoreSnapshot`, `RemoveMappingForPath` |
| `WorkTree` | snapshots of a directory tree and merges into it: `Current`, `Merge`, `Checkout`, with a user, deaths and missing snapshots; it composes `PathMap` and the answers that `BaseContract` allows |
| `Bundle` | `Export` and `Import`, the bundle file, and the two archives |
| `FileMirror` | `rvcs-push-file` and `rvcs-pull-file`: the chain of bundles in a directory, a push and pulls at the same time, with deaths |
| `MCReadLog`, `MCMergeBase`, `MCObjectStore`, `MCPathSnapshot`, `MCPublish`, `MCWorkTree`, `MCBundle`, `MCFileMirror` | the finite instances for TLC |
| `AncestryProofs`, `HistoryProofs` (of `ReadLog` and `MergeBase`), `ObjectStoreProofs`, `PublishProofs`, `BundleProofs`, `PathSnapshotProofs`, `FileMirrorProofs`, `WorkTreeProofs` (of `WorkTree` and `PathMap`) | theorems and proofs |

A definition preceded by a comment that begins with *Fault* is not part of a
model. It is a deliberately wrong version of the definition after it, such as a
careless edit of the code might produce; putting it in the place of the right one
must make TLC report the property that `PROJECT.json` names with it. This shows
that the properties are about the code and not about the shape of the models.

### Ancestry, ReadLog and MergeBase

The variables of `ReadLog` are its local variables: `level` is the part of
`queue` that the middle loop has not reached, `pending` the parents that the inner
loop has not reached, `next`, `log` (`result`), `visited` and `depth` are
themselves. One step is one iteration of one of the three loops: `ReadNext`
(lines 196-205), `EnqueueParent` (206-210), `NextLevel` (212-213). The definitions of its
specification begin with `Log` (`LogInit`, `LogSpec`, ...), so that one module can reason
about it and about `MergeBase`. `visited` is
consulted when a parent is enqueued, not when it is read, so a snapshot may be
read several times, in the code and in the model.

`merge.Base` reads both logs with that walk and then compares their heads, the
left one first, dropping one entry of each log per round until one is empty.
`Base` compares and returns hashes, so the model does not need the `File`s. The
nil hash is the constant `Nil`.

Ancestry is defined as `merge/base.go:30-36` states it: the least set that holds
the snapshot and is closed under parents. The algorithms are checked against that
definition, which knows nothing of walks. The nil snapshot, which that comment
calls an ancestor of everything, is what remains when there is no other.

`BaseContract` is `merge.Base` as its callers see it (`merge.go:207-216`): one step that
answers or fails. `MergeBase` implements it (`KeepsContract`): its variables are those of
the contract, `status` is `pc` as far as a caller can tell, and all steps but the one that
returns are stutters. It fails when, and only when, some of the history it was to read is
missing. A side that is an ancestor of the other comes before all other answers, because
`Merge` recognizes an up-to-date destination by it, and `mergeWithBase` a fast forward; which
common ancestor is found otherwise the contract leaves open, since it is not always the most
recent one that `base.go:27-28` speaks of (see the disagreements).

### ObjectStore

One object stands for contents and hash. The steps are the file system calls
between which another process may run: reading the identity file, creating it
(truncated), writing it, reading it back, the rename that gives an object its
name, and the `Close` that flushes the last chunk of the encryption *after* that
rename (`storage.go:129-134` is a deferred function, `147` the rename). The two
storage directories are `small`, a set, and `large`, which for each object holds
the key its file is encrypted to and who still writes to it. A reader has opened a
file before it asks for the identity, as in the code, so it reads what it has
opened even if the name is given to another file meanwhile. `Crash` ends a process
between any two steps; the file system itself keeps what it was given (the code
never calls `fsync`; a power failure is not modelled). Whether an object is large
is the caller's choice, because `StoreObject` goes by the announced size.

### PathSnapshot and FileHistory

One path, a user who edits it, and processes that run `rvcs snapshot` on it. The
user's actions are those that change what `lstat` reports: writing in place,
`chmod`, replacing the file by a new one, deleting it, moving it aside and back.
Time is counted in ticks, `TicksPerSecond` of which make a second, because
`snapshotRegularFile` truncates the time at which it starts to a second and compares
file times exactly. A call goes through: `Open` (`Current`, with the stat of the
open file), `Lookup` and `ReadCached` (`readCached`), `ReadContents`
(`StoreObject` of the contents), `FindPrevious` (`snapshotFileMetadata`),
`StoreFile`, `TruncateMapping` and `WriteMapping` (`StoreSnapshot`), `Recheck`
(the deferred function), `RemoveCacheEntry` and `WriteCacheEntry`
(`CachePathInfo`), and, when there are additional parents, `AddParents` and
`StoreSnapshot` again. `Abort` ends a call at any step, as an error or a kill does.

Stored objects are taken to be there, whole; `ObjectStore` says when that is so. A
`File` object is named by the order in which the distinct `File`s were stored,
which is as good as a hash: the same object has one name, and a name is only known
once its object is. An empty mapping parses as the nil hash, and reading that is an
error (`storage.go:197-200`), so `FindPrevious` fails on `Blank`. All contents have
the same size: size would only help the cache.

Additional parents are whatever hashes the user writes (`command/snapshot.go:54-63`,
`commands.go:73-77`); nobody looks for them in the archive. So `Open` is given any stored
snapshot or one of `Missing`, the hashes of which the archive has nothing, and a snapshot of
another path that was there before (`FirstFiles`) may have parents that are missing, as after
an import without parents. `AskedFor` is what the calls have thereby asked for.

`FileHistory` is what a user of one file expects: a line of versions, each different
from the one before, that only grows. `PathSnapshot` implements it for one process
without additional parents or aborts, with the refinement mapping that follows first
parents back from the mapping.

### Publish

One identity, several archives, each with a user and that user's settings, and the
mirrors. A signature is an object that names a snapshot and the previous signature;
the model writes it as the sequence of the snapshots signed so far, so that "descends
from" is "is a prefix of". (Two signatures of the same snapshot after the same history
are then the same, as with a deterministic signing tool; nothing in the properties
tells them apart.) A call goes through `Publish` or `Lookup` (the command;
`publishCommand` reads the settings that `Push` will use), `BeginPull`
(`resolveIdentitySnapshot` reads the settings again, `Pull` the recorded signature),
`PullFromMirror` once per mirror, in the order of `Pull`, `FinishPull`,
`TruncateSignature` and `WriteSignature` (`UpdateSignatureForIdentity`, by
`os.WriteFile`), and then returns, or signs (`Sign`, which records the new signature in
the same two steps), and pushes (`PushToMirror` once per mirror, `FinishPush`).
`Settled` is the decision of `command/publish.go:59`: a snapshot that is already signed
is not signed again, but is pushed again.

`Pull` keeps the answer of the mirror it asks *last*, whatever the earlier ones and the
archive's own record said. So the last mirror decides, and the constant `Authority`
names the one that publishers ask last at the start. The helpers are external, and
`README.md:214-226` says what they do: a pull reads the signature that a mirror holds and a push
replaces it, each in one step. `Abort` ends a call before or after any of these steps, as
a failed helper, a failed file operation or a kill does. `AddMirror` and `RemoveMirror`
are the mirror commands, with and without an identity.

### PathMap and WorkTree

A whole tree, whose top is the path `<<>>`. Only here is a snapshot a structured value
(kind, mode, contents or children, parents), equal to another exactly when the hashes
would be. `PathMap` has the two things the archive keeps about paths: the latest snapshot
of each (`latest`, the files under `paths/`), and which paths have a directory under
`mappedPaths/` (`known`). `StoreSnapshot` first records, then goes through the directories
of the children and forgets those that the new tree does not list; `RemoveMappingForPath`
goes on in the tree of *the snapshot it forgets*, not in `known`: it removes the mappings
that a chain of mappings leads to, each listing the next (`Forgotten`). `CutShort` is what
`StoreSnapshot` leaves when the process dies in it: before or after the directories are made,
with the mapping truncated and not written (`Blank`), or with it written and the stale ones
removed in part, one by one, a directory before what it lists and one child before the next
(`OneByOne`; the removal of one child's directory below `mappedPaths`, an `os.RemoveAll`, is
one step). A blank mapping is not taken for none: the next snapshot of the path fails
(`CurrentFails`), and only a checkout, or the removal of the path, replaces it.

`rvcs snapshot` and `rvcs merge` are run one at a time, in steps that are the work on one
file or directory entry, so that the user can act between any two. `Current` and
`Checkout` are recursive, and are kept as a stack with a frame for each directory they are
in: `CurrentEntry` is a call of `Current` (files and links are recorded at once, for a
directory a frame is pushed with the entries it has *then*), `CurrentDirectory` the end of
`snapshotDirectory`, `CheckoutEntry` and `CheckoutDirectory` the same for `Checkout` and
`recreateDir`, whose removal of the entries that are not in the snapshot is part of the
step that enters the directory. Both take their entries in any order, as a directory or a
map gives them. A merge is a snapshot, then `MergeSnapshots` (the base, and
`mergeWithBase`, a pure function of three trees and what the helper answers: `MergedEntry`
is one call of it, `Merged` the recursion), then `RemoveTree` and the checkout; where nothing is, `Merge` goes to `Checkout` at once. The
base is any that `BaseContract` allows (`Bases`; that the two say the same is a theorem):
a side that is an ancestor of the other, otherwise any common ancestor. `Elsewhere` are the
snapshots that other people have made, each a directory with all that is in it, a file or a
link: what may be merged (`Sources`) or checked out in the beginning (`Starts`) is
among them. `Ancestors`
follows parents for as many generations as `Generations` has, which is all numbers in the
theorem and more than there can be in the runs. `Die` ends a
command between two steps, and `DieInCurrent`, `DieInCheckoutEntry` and
`DieInCheckoutDirectory` amid the `StoreSnapshot` of one. `absent` are snapshots the archive does not have; a
`Checkout` that needs one fails where it is, and leaves what it has done.

Abstracted: the contents of a file are read or written at once, and `os.RemoveAll` removes a
tree at once; contents are missing when
their snapshot is; the target of a link is no directory, and what a checkout writes through
a link lies outside of the tree. `mergeWithHelper` checks its three sides out to a
temporary directory; the mappings that this leaves for temporary paths are left out.
The helper itself is external, and answers any contents or fails; with a directory on one
side it fails, as `diff3` does.

### Bundle

The objects of an archive and their references: a snapshot has contents, the contents of a
directory list snapshots, snapshots have parents. `AddFile` is recursive and is kept as a
stack of frames; the position in a frame (`at`) is the line reached: `AddSnapshot`
(125-127), `AddContents` (148-156), `ReadTree` (157-160), `AddChild` for each child in any
order (161-175), and then the deferred function, `AddParent` for each parent in turn
(135-146). An object is marked as visited before it is read (107), and its entry exists
before its contents are known to be whole (113-119). An error unwinds the stack (`Raise`)
up to a frame that is in the deferred loop over its parents: the `err` that line 141 assigns
is the one of line 136, so the loop ends there and `AddFile` returns nil.

The file is a sequence of blocks: the entries and, from the deferred `Close` and thus also
after an error, the directory. It is opened without `O_TRUNC`, so `Overwrite` keeps what
lies beyond the new end; a zip file is read from its last block. `Import` checks all
entries first and then takes those it cannot open in its archive. Both commands may die,
the export with some of its last writes lost, the import with a large object that has its
name but not its end (`ObjectStore` shows how). Metadata entries, which neither command
does more with than to copy or skip, are left out. File contents are not `File` objects
themselves (`GraphAssumption`): if a user's file has the text of a stored `File`, the two
have one hash, and `AddFile` takes the one for the other.

### FileMirror

The two scripts that serve the mirrors whose URL is `file://`, for one identity. The
mirror has a main bundle (`main`, the file without a number) and numbered ones (`saved`).
Signatures are numbered along the line that `Publish` shows they are, and each stands for
the objects that come with it; as a signature has the one before it as a parent, all that
belongs to number `n` is `1..n`, and that is what an export with `-include-parents` goes
through. What a bundle has is that set without what is excluded, and an import takes all
of it; both are what `Bundle` says of complete archives.

A push goes through `BeginPush` (lines 52-69: nothing to do if the mirror has this
signature), `MoveMain` (71-99: the next number, the `mv`, and the lists of exclusions and
of numbers for the new bundle), `BeginExport` and `FinishExport` (102: from the time the
file is opened to its end it cannot be read). A main bundle that cannot be read is moved
to number 1, and ends the script, which runs with `-e` (`MoveTorn`); the push after that
finds no main bundle and starts anew. A pull goes through `BeginPull`, `ImportMain`,
`ReadSignature`, `ReadPrevious`, which open the main bundle one after the other, and
`ImportPrevious` for each number, which ends the script when nothing new comes. Either may
die between any two steps, the pull also within an import. `disturbed` are the archives of
which a pull has died or has met a change of the mirror.

`SortsBefore` compares numbers as `[[ a < b ]]` does, by their digits; `Radix` is ten.

## What is checked

All runs are exhaustive for their bounds. The type invariants of `ReadLog`, `MergeBase` and
`Bundle` are proved, and left out of their runs.

| Run | Expected | What it shows |
|---|---|---|
| `read_log` | pass | every history of 4 snapshots with up to 2 parents each, in the complete archive and in each that lacks one snapshot, limits none, 0, 1, 2: the log is the ancestry, limits are exact, it fails only when something is missing, every entry is a parent of an earlier one, it ends |
| `merge_base` | pass | the same histories and archives, every pair of sides and nil: `Base` returns a common ancestor if there is one, recognizes fast forwards, is exact without merges, implements `BaseContract`, and so fails exactly when something is missing, returns |
| `object_store` | pass | 2 processes, 2 objects, 2 deaths; an archive that has its identity, used by both at once, or a new one, used by one at a time: stored objects are found and keep their names and keys, the identity is never replaced, everything is encrypted to it |
| `object_store_race` | violation | 2 processes in a new archive |
| `path_snapshot` | pass | 1 process, a user with 3 actions, 2 contents, 2 modes, 2 inodes, 2.5 seconds: the cache is sound, nothing is lost from the history, the history refines `FileHistory` |
| `path_snapshot_shared` | pass | 2 processes, a user with 3 actions who also moves files aside and back, one call with an additional parent, one abort, in an archive with a snapshot of another path whose parent is missing; the additional parent is any stored snapshot or one of two that are missing: nothing is missing from the history but what was asked for; only an abort leaves a path without a mapping |
| `publish` | pass | a publisher with 2 mirrors and a reader who may change its own mirrors once, 2 snapshots, 3 signatures, 2 calls cut short: published signatures are one line, the mirror asked last never goes back, no stale answer, a publish that returns has reached all its mirrors |
| `bundle` | pass | 9 objects in two versions of a directory, 4 requests, with and without parents, 7 exclusions, any one object missing or one cut short, 2 imports, 1 death: a successful export holds exactly what was asked for, it fails only when something is missing, and excluding what the importer has is sound |
| `bundle_reexport` | violation | two exports to one path, the second of less |
| `file_mirror` | pass | 5 signatures, one who pushes and one who pulls, 2 deaths: the main bundle always leads to bundles with the whole history of its signature, and what is pulled is complete unless a pull has died or has met a push |
| `work_tree` | pass | a tree of 4 paths, 2 contents, 2 modes, files, links and directories; 2 commands, 5 sources to merge, 1 action of the user, 1 death, between two steps or amid a `StoreSnapshot`, 1 snapshot that may be missing: the history keeps every version (as long as the mapping of the tree itself is not blank), the tree is what the latest snapshot says, the mappings are its tree, a merge is the three-way merge of each path |
| `work_tree_archive` | violation | the same, with the archive inside of the tree |

Six more configurations, each with a violation, show what the list of disagreements says
below and are kept beside the runs:

| Configuration | Module | Property that is violated |
|---|---|---|
| `MCMergeBaseRecent.cfg` | `MCMergeBase` | `BaseIsMostRecent` |
| `MCPathSnapshotManualMerge.cfg` | `MCPathSnapshot` | `HistoryIsKept`, with additional parents on an unchanged file |
| `MCPathSnapshotUncached.cfg` | `MCPathSnapshot` | `CachedOnReturn` |
| `MCPublishForgets.cfg` | `MCPublish` | `EverySignatureHasPrevious` |
| `MCFileMirrorTwelfth.cfg` | `MCFileMirror` | `SavedToNewLocation`, with 12 signatures |
| `MCFileMirrorRace.cfg` | `MCFileMirror` | `OutputIsPulled`, a pull that meets a push |

### The disagreements

* **The merge base is not the most recent one.** `merge/base.go:27-28` promises the
  most recent common ancestor. The two logs are in breadth-first order, and the scan
  compares by position. When one side merges branches of different lengths and the
  other has gone on for a while, it meets an old common ancestor before a newer one.
* **The identity race.** `identity()` creates the identity of a new archive without
  excluding others (`storage.go:64-72`). Two first uses at the same time may leave
  large objects encrypted to a key that has been overwritten.
* **Manual merges.** `rvcs snapshot -additional-parents` adds to the parents of the
  `File` that `Current` returns. If the file has not changed, that `File` *is* the
  latest snapshot, which then is no parent of the new one (`README.md:310-311` says
  both sides are).
* **Every second caching is lost.** `storage.go:415` takes the successful removal of
  the old entry for an error.
* **A new mirror makes `Pull` forget.** A mirror that does not know the identity answers
  nil, and that replaces what the archive had recorded (`publish/pull.go:45-48`). The sign
  helper then gets no previous signature, although `README.md:170-171` says that it gets
  it unless there is none.

* **A merge deletes the archive inside of its destination.** `Exclude` keeps the archive out
  of snapshots and of checkouts, but `Merge` first removes the whole destination
  (`merge/merge.go:222`). `merge/merge_test.go:118-150` has the archive in the destination and
  wants it to survive; it does because the test merges a snapshot that is merged already,
  which returns before line 222. A merge into the home directory, where `~/.rvcs` is by
  default, is such a merge.
* **A bundle over a longer one cannot be read.** `bundle/bundle.go:193` does not truncate,
  and the directory of the old bundle stays at the end of the file. The export reports
  success.
* **The twelfth push loses objects.** `rvcs-push-file` line 77 compares numbers as strings,
  so after `bundle-10` the highest is 9, and the next bundle is moved over `bundle-10`. The
  objects that only that one had are still excluded from the new bundle. Who has pulled
  nothing before cannot get them any more.
* **A pull that meets a push.** `rvcs-pull-file` opens the main bundle by its path three
  times. If a push replaces it after the import, the pull answers the new signature without
  having it: the first of the previous bundles is then the one it has just imported, which
  brings nothing new and ends the script.

Noticed while modelling, and left without a run:

* With `-include-parents`, an error below a parent is lost (`bundle.go:136-144`): for a
  directory whose parent version has a file that is missing, the export succeeds without
  the rest of the history, and without parents of the remaining ones. This is why
  `OkMeansComplete` excepts that case.
* `AddFile` does not ask whether a parent was visited, so a history of stacked merges is
  walked once for each path through it.
* `rvcs import -exclude` does nothing: `Import` never uses its argument. What an interrupted
  import has cut short is skipped by the next one, because `ReadObject` can open it.
* A new directory gets its permissions from `os.Mkdir`, without those the umask takes away
  (`checkout.go:52, 65`), although lines 168-169 say they match the snapshot. The next
  snapshot then differs. `work_tree` has a umask that takes nothing away (`Masked`).
* Two files that both sides changed, with different modes, silently get the mode of the
  destination (`merge.go:109`, `helper.go:98`); two directories with different modes are a
  conflict (`merge.go:157`).
* A checkout of a regular file to a path where a link is writes to the target of the link
  (`checkout.go:120`).
* A process that dies between truncating and writing the mapping of a path
  (`storage.go:253`) leaves it blank. For the top of a tree `rvcs log` of the path then fails,
  and so does each snapshot, until a checkout replaces it; of an entry, each snapshot of the tree.
* A merge to a path whose file was deleted replaces the mapping, so `rvcs log` no longer
  shows what was there before; `PreviousVersionsAreRetrievable` starts anew then.
* What a user writes between the snapshot of the destination and its removal is lost.
* A pull of a file mirror that dies between two bundles has imported the later one, and
  every pull after it stops there (`rvcs-pull-file:54-56`): the history stays incomplete.
  This is why `PulledIsComplete` leaves such archives out.
* From the `mv` to the end of the export a file mirror has no main bundle, or one that
  cannot be read. A pull in that time answers that the mirror knows nothing, which makes
  `Pull` forget what it knew, or fails. A push of the signature that the mirror has prints
  it, but does not write it to its output file (`rvcs-push-file:66-68`).

* A large object gets its name before the encrypting writer is closed
  (`storage.go:147`, before the deferred `Close` of line 130), so a process that dies in
  between may replace a whole object by a torn one. `TornOnlyWhileWritten` and
  `ReturnedObjectsKept` say how far the damage goes.
* The cache entry of a file survives the snapshot of another file put in its place until
  that one is old enough to be cached; when the first file is moved back, the entry
  matches and the mapping is that of the other. `path_snapshot`, which checks the cache,
  therefore has a user who moves nothing.
* `Push` leaves read-only mirrors of the identity out, but not those that were added for
  all identities (`publish/push.go:45-52`; `command/add-mirror.go:39` says they are not
  pushed to). `config.go:105-107` says additional mirrors are for identities without an
  entry of their own; `Pull` and `Push` use them for all.
* `publish/push.go:54` declares a new `pushed` in the loop, so what a mirror answers is
  never used after it: line 64 never records anything.

### Bounds

Bounds are constants or bounds on histories; each is named in its module.

* *Histories*: 4 snapshots with two parents each contain the diamond, the stacked
  merge, the fork, the disconnected pair and the duplicate parent.
  The theorems below are about all histories. The violation needs 8 snapshots.
* *ObjectStore*: two processes and two objects make every pair of conflicting calls;
  the proofs cover any number.
* *PathSnapshot*: 2 ticks a second and 5 ticks are the least at which a file can be
  cached, edited and looked up again. Three user actions make a creation and two
  changes, in any order and at any step of a call. `MaxFiles` bounds the stored
  objects, a call that would store more does not take place. In
  `path_snapshot_shared` the clock is short, so nothing is cached there, and one inode
  is enough: the inode matters only to the cache.

* *Publish*: two mirrors are the least at which a push can be cut short between them,
  and an earlier one can be ahead of or behind the last. Three signatures make a line
  with a middle, two snapshots make a change and a change back, two failures allow a
  second one during the repair of the first. The theorems have no such bounds.

* *Bundle*: two versions of a directory with a shared and a changed file and a snapshot
  without contents make every kind of reference, a child that is reached by two ways and a
  parent that is reached as a child. One missing object is enough for every error path;
  one death and two imports make every retry.
* *FileMirror*: a chain of five bundles has a first, a last and a middle one; two deaths
  make one of a push and one of a pull, or one in the repair of the other. Archives do not
  meet, so one is enough. The numbers sort as they count up to nine; the twelfth push is the
  first that goes wrong.
* *WorkTree*: a file beside a directory with a file is the least tree with a change beside
  and below another. Two commands let a merge meet what the one before it left, complete or
  not; the five sources change a file and its mode, change a nested file, remove a
  directory, replace it by a link, and have no common history. With one action of the user
  anything can be changed, created, removed or replaced at any step. The archive lies
  outside of the tree, because `work_tree_archive` shows what happens otherwise.

### Deadlock and fairness

`ReadLog` and `MergeBase` end in a step that repeats for ever, and are checked for
deadlock. A process of `ObjectStore` can always begin a call. In `PathSnapshot` the
clock, the user and the store are bounded, and in `Publish` the signatures are, so
everything may stop, as are the exports of `Bundle`, the commands of `WorkTree` and the
signatures of `FileMirror`, and
their runs do not check for deadlock. Liveness is checked for the two loops, under weak fairness of
their step, which a goroutine that waits for nothing deserves. No liveness is claimed
for the others: a command may be killed, and the user may do nothing.

## What is proved

`AncestryProofs` proves the walk correct by an invariant about one record
(`WalkInv`): everything read is an ancestor, and every parent of what has been read
is read or still to be read. When nothing is left to be read, the set read is closed
under parents and holds the start, so it includes the least such set. Each of the
three steps has a lemma.

| Theorem | Statement |
|---|---|
| `HistoryProofs!LogTypeCorrect`, `ReadsExactlyTheAncestors`, `FailsExactlyWhenIncomplete` | the log is the ancestry, for any set of snapshots and any history, cyclic or not |
| `HistoryProofs!NeverOutOfTheBlue`, `RespectsDepth` | every entry but the first follows a snapshot it is a parent of; a log with any limit has exactly the snapshots fewer than that many parent links away; for any history |
| `HistoryProofs!ReturnsCommonAncestor`, `FindsACommonAncestor` | the base is a common ancestor, and nil only if there is none |
| `HistoryProofs!RecognizesFastForward` | the base of a snapshot and its ancestor is the ancestor, if no two snapshots are ancestors of each other |
| `HistoryProofs!FindsTheMostRecent` | in histories without merges the base is the most recent common ancestor, under the same condition |
| `HistoryProofs!ImplementsContract` | `merge.Base` implements `BaseContract`, under the same condition: it answers once and rightly, or fails because history is missing |
| `HistoryProofs!TypeCorrect` | for any history and archive |
| `ObjectStoreProofs!FindsStoredObjects`, `KeepsReturnedObjects`, `StoresPersistently` | in an archive that has its identity: stored objects are found and decrypted, keep their names and keys through every crash, and are whole until the first |
| `ObjectStoreProofs!EncryptsToTheIdentity`, `KeepsIdentity` | the same identity for ever, in any archive that one process at a time uses |
| `ObjectStoreProofs!TypeCorrect` | in any archive |
| `PublishProofs!HistoryIsLinear`, `AuthorityMovesForward`, `GetsFreshAnswers`, `ReachesAllMirrors`, `TypeCorrect` | with one publisher, and settings that stay: for any number of archives, mirrors and snapshots, with every call cut short anywhere |
| `BundleProofs!NothingElseIsBundled`, `CompleteNeverFails`, `SuccessIsComplete`, `TypeCorrect` | a bundle has what is asked for, all of it on success, and an export fails only because something is missing: for any graph of objects, cyclic or not, any flags and archives, and any number of exports and deaths |
| `BundleProofs!IncrementalExports` | an import of a bundle without what the archive held completes that archive, if further exports to the same file do not rely on what it held at first |
| `PathSnapshotProofs!HistoryComplete`, `BlankAfterAborts`, `TypeCorrect` | for any number of processes, calls cut short and any hashes as additional parents: the history of the latest snapshot is stored, except behind additional parents asked for that the archive lacks, and only an abort leaves a mapping that cannot be read |
| `PathSnapshotProofs!NoEditIsOverlooked` | one process, without aborts and without files that are moved back: the cache answers only for what the mapping has recorded, for any clock and any number of edits at any step |
| `PathSnapshotProofs!NoSnapshotIsLost` | one process, without additional parents: what the command has returned stays in the history of the latest snapshot, also after aborts |
| `PathSnapshotProofs!KeepsALine` | one process, without additional parents and aborts, implements `FileHistory`: the versions of the file are a line that only grows, by a version that differs from the last, for any user and clock, and whatever snapshots of other files are stored, if their first parents were stored before them |
| `FileMirrorProofs!MirrorComplete`, `PulledComplete`, `TypeCorrect` | while bundle numbers sort as they count, which they do for up to eleven signatures: the main bundle leads to the whole history of its signature, and what a pull answers is complete if nothing has disturbed the archive's pulls; for any number of archives and deaths |
| `WorkTreeProofs!MergesPathByPath` | what a merge is about to check out is the three-way merge of its sides at every path: that `mergeWithBase` compares whole subtrees first changes nothing; for any tree, histories and helper |
| `WorkTreeProofs!NothingIsForgotten` | with the archive outside of the tree: every snapshot taken of the tree is in the history of its latest one, at every step, whatever is merged or edited, is missing, fails or dies, except when a command has died between truncating and writing the mapping of the tree itself |
| `WorkTreeProofs!MapIsTheTree` | between commands the mappings are the tree of the latest snapshot, unless a command has ended amid its writes, wherever the archive is |
| `WorkTreeProofs!FilesAreRecorded` | after a snapshot or a merge amid which nobody touched the files, they are those of the latest snapshot, at every path and with their modes, wherever the archive is, if the umask takes nothing |
| `WorkTreeProofs!TypeCorrect` | the files are a tree, and so are the directories of `mappedPaths`, at every step |
| `WorkTreeProofs!BasesArePromised` | what a merge may get from `merge.Base` in `WorkTree` is what `BaseContract` allows, for any set of snapshots that holds the history of both sides: with `ImplementsContract`, `WorkTree` assumes nothing of `merge.Base` that it does not do |

The invariants are strengthened where the property alone is not inductive:

* `MergeBase`: while the scan goes on every common ancestor is in what is left of
  *both* logs. An entry is dropped only if it is not in the other log, and that log
  holds all ancestors of its side; so whichever log ends first, none is left out.
  For fast forwards: a log starts with its own snapshot, so after the first round
  neither side is an ancestor of the other. Without merges a walk never has more than one
  snapshot to look at, so a log descends (`LineInv`), and so does what the scan has left of
  it; every common ancestor is in there, and therefore an ancestor of the entry found first.
  For the contract: the logs are only read for two different snapshots (`SidesDiffer`), and
  a scan that begins has read all the history of both.
* `ReadLog`, its order: whatever is queued is a parent of an entry (`OrderInv`).
* `ReadLog`, its limit: at the end of a level the snapshots visited are those fewer links
  away than the depth, and within a level those read and those left of the level are the
  snapshots one link farther (`DepthInv`). `visited` is what makes this hold in graphs with
  ways of different lengths to a snapshot.
* `ObjectStore` with an identity: the identity never changes; every key in use is the
  identity; what has been returned has a name in one of the two storages, and a reader
  that missed it in the first will find it in the second, since names are never removed.
* `ObjectStore` without: a process that creates the identity file saw none, and while
  there is none nothing is encrypted. This is where one process at a time is needed:
  the run `object_store_race` shows what happens otherwise.
* `Publish`: nothing that has been published is ever absent from the history of what the
  authority holds. For that, a call of the publisher that has asked all mirrors knows
  exactly what the authority holds, since it asks it last and nobody else pushes; what it
  signs extends it; and of the mirrors it is to push to each is still on its list or holds
  its signature. A reader's call knows at least what the authority held when it began.
  The theorems need one publisher, and that its mirrors stay what they were, because
  `MCPublishForgets.cfg` shows what a new mirror does. (The run lets the reader change its
  settings; the theorems assume that nobody does, because the provers know no type for the
  sequence that `removeMirror` filters. For the same reason `SettingsAssumption` states
  the type of one filtered sequence.)
* `Bundle`, soundness: `AddFile` is only ever called for what is asked for, every entry is
  of something visited, and so an error means that something asked for is missing.
* `Bundle`, completeness: the state does not say for which snapshots `AddFile` has been
  called, and an excluded snapshot leaves no trace although what it lists and its parents
  are added. So the invariant (`Settled`) says that there *is* a set of snapshots, each of
  which is either on the stack, with what its call has behind it, or finished: all that it
  lists, unless excluded, is in the set again. When the stack is empty the set is closed
  and includes the least closed set, which is what is asked for. Without
  `-include-parents` no call is made from the deferred loop, so no error is caught
  (`ParentsOnTop`); with it the theorem needs an archive in which nothing is missing.
* `Bundle`, imports: a directory is always written right behind the entries it lists. If a
  longer, older file makes the reader find an older directory, that one lists a block which
  is the newer directory, and the import is refused.

* `PathSnapshot`, any number of processes: what each call knows at each of its steps refers
  to stored objects only (`StoreInv`). A blank mapping is being written, or was aborted. The
  stored snapshots need not be closed under parents: imports and additional parents see to
  that. So the history is followed from the mapping (`ExplainedInv`): each snapshot in it, and
  each that a call under way is about to record, is stored or was asked for, and what was
  asked for stays so when more is stored.
* `PathSnapshot`, the cache: a cache entry is older, by more than a second, than the second
  of every moment after it was written (`CacheIsOld`), so a write to the file always changes
  what the cache compares (`UserTouches`), and an entry once out of date stays so. While the
  entry still fits, the call under way saw the same file (`InfoIsCached`); what it read is
  still there (`ReadIsRecorded`); so what it stores and maps is right too. The mode is not
  protected by a time: a call that finds another mode maps it before it removes the old
  entry. In between the two may differ, which is why the theorem needs calls that end, and
  why the invariant (`CachedIsMapped`) excepts the steps of the deferred function. The
  proof also covers additional parents, which the run leaves out.
* `PathSnapshot`, the history: what a call is about to map has all that was returned before
  in its history, since its parent is the snapshot that is mapped when it is stored; and
  storing more takes nothing from a history (`BeforeGrows`).
* `PathSnapshot`, the line: the first parent of a snapshot was stored before it, so the line
  of first parents exists and ends (`LineOf`). Storing a `File` changes no line. A call that
  is about to map a `File` has one that continues the line of the mapping or differs from
  its end only in what is new, and `WriteMapping` is the only step that extends the line.

* `FileMirror`, the mirror: along the list of a bundle, each one excludes exactly what
  belongs to the next (`Ordered`), so that each step of the list adds what was left out
  (`Leads`); and every number in the list is lower than the signature, and at most the first
  one. The highest number is therefore the first, the next one is in no list, and nothing
  that is needed is moved over. This is where the numbers must sort as they count
  (`NumbersSort`; `MCFileMirror` has TLC evaluate it for the numbers up to nine).
* `FileMirror`, the pulls: an archive has all that belongs to what it has, except for what
  the bundles to come have (`Misses`). When a bundle brings nothing new, its signature was
  there before, so all that belongs to it was too, and the rest of the list has no more.

* `WorkTree`, the commands: the stack of a recursive function is one path down the tree,
  each frame that of an entry of the frame below it, and a merge that is about to be checked
  out is, at every path, one of the ways in which `mergeWithBase` ends (`CommandInv`). The
  three-way merge follows by induction down the paths: where the sides are decided by
  comparing hashes, they are decided so for everything below.
* `WorkTree`, the history: everything taken is in the history of the latest snapshot of the
  tree, *and* of what the command under way is about to map to the top: the previous
  snapshot of a snapshot that changes, a merge whose parents are both sides, or a source that
  descends from the destination (`RetainedInv`). A death amid `StoreSnapshot` leaves the
  mapping of the tree as it was, blank or as it was to be, whatever else it removes: the
  mappings it forgets are below the path. While it is blank nothing is claimed of it:
  a command that finds it blank fails before it gets to a merge, and one that finds no files
  starts a new history.
* `WorkTree`, the mappings: for each path, its mapping is what that of the directory above
  says of it (`Local`), except for the entries of the directories under way that have been
  found, or checked out, already: those agree with the frame (`MappingsInv`). When the
  directory itself is recorded its entries agree again, and the ones it does not list are
  forgotten with all below them. For this every path with a mapping must be known in
  `mappedPaths` (`Known`), or nobody would find it to remove it.
* `WorkTree`, the types: besides the files and the known paths the command under way must
  hold whole snapshots only (`Held`), each entry of a directory a snapshot again, or else
  what a checkout writes would be no file. What a snapshot of the user's files says is whole
  because the frames collect what was whole; a merge is whole because its sides are.
* `WorkTree`, the files: as long as nobody has touched the files since the command began,
  they are, in each phase, the part of a tree that is known by then (`TreeInv`). Amid a
  snapshot, each frame has found the entries it is done with as they are, and no others
  (`CurrentTree`), so the snapshot of a directory is that of its files (`Agrees`). A
  checkout begins where nothing is; amid it, each path is what the snapshot says unless it
  is still to be made (`Pending`), in which case nothing is there (`CheckedOut`), so that
  nothing it meets can make it fail or be left behind. Where the archive lies in the tree, no
  checkout gets that far: `os.RemoveAll` removes the archive, and the checkout finds no
  snapshot to read (`ArchiveInv`).

The assumptions are those stated with the constants (special values differ from
ordinary ones, bounds are numbers) and those in the statements of the theorems. The
theorems of `WorkTree` say that the nil hash is no snapshot record (`NoneIsNoSnapshot`, which
TLA+ does not know by itself); `NothingIsForgotten` that the archive lies outside of the
tree, which the run `work_tree_archive` shows to be needed; `NothingIsForgotten` and
`BasesArePromised` that all generations of ancestors are looked at (`Generations = Nat`; TLC
needs a bound, and its seven generations are more than two commands can make); and
`FilesAreRecorded` that the umask leaves all permissions (`NothingMasked`), since no
`chmod` follows the `os.Mkdir` of a new directory (`checkout.go:52`): one with permissions
that the umask takes would differ from its snapshot. `NoneAssumption` says that the nil hash is no
file, `ElsewhereAssumption` that the snapshots of other people are whole, and
`StartsAssumption` that a tree checked out in the beginning has directories, if anything,
above the archive.

What a recursive function is, is proved from an explicit solution of its equations: by
`NatRecursion` of `AncestryProofs`, in which the solution up to each number is built from
the one before, for the numbers (`LineOf`, `Within`, `Ancestors`), and in the same way by
the length of a path (`At`, `Merged`). `SetInduction` is induction for a set of numbers,
because the provers cannot instantiate an operator.

Only model-checked: liveness (out of the prover's reach). Every other property of a passing
run is the statement of a theorem, of some under the conditions that the table names.

## Not modelled

* The text formats of hashes, files, trees and identities, flag parsing and the printing of
  logs (`SummarizeLog`): deterministic functions without state. The models use the parsed
  values, and the one parse that matters to them, that of an empty file.
* The signing helpers: wrappers around `ssh-keygen`. `Publish` has what the Go code
  requires of them.
* `Publish` over `FileMirror`: `Publish` has a mirror as one cell that is replaced in one
  step, as `README.md:214-226` has it, which the scripts are not.
* Writes to the settings file by two users at once, and errors of the file system such as a
  full disk, except where a call may end in an error at any step.
* The nil snapshot as one to publish (`commands.go:74-81`, `sign.go:31-34`).
* What an export that *returns* an error leaves at a file mirror. The script ends
  (`rvcs-push-file:102`), but the deferred `Close` (`bundle.go:202-207`) has made the bundle
  readable. `FileMirror` has complete archives, in which no export fails
  (`CompleteNeverFails`), and exports that die.
* Merge helpers that succeed with a directory on one side (`merge.go:108-110` does not look):
  an assumption about the helper.
* Two processes that work in one tree: `PathSnapshot` has them for one path, `WorkTree` has
  one command at a time.

What could be added next: `WorkTree` with two commands at a time in one tree, and `Publish`
over the file mirrors of `FileMirror`.
