---------------------------- MODULE PathSnapshot ----------------------------
(***************************************************************************)
(* Snapshots of one path that holds a regular file: snapshot.Current and   *)
(* the functions below it (snapshot/snapshot.go), the mapping from the     *)
(* path to its latest snapshot and the cache of file information in        *)
(* storage.LocalFiles (storage/storage.go), and the `rvcs snapshot`        *)
(* command around them (command/snapshot.go).  Several processes may run   *)
(* that command while a user works on the file.  File system calls are the *)
(* atomic steps.                                                           *)
(*                                                                         *)
(* Objects are abstracted as in ObjectStore once they are stored: they are *)
(* there, whole.  A File object is named by its place in the order in      *)
(* which the distinct File objects were first stored, which stands for its *)
(* hash.  A snapshot may also name parents that the archive does not have: *)
(* any hash can be asked for as an additional parent, and an import leaves *)
(* parents out unless it is told otherwise.  All contents have the same    *)
(* size, so the size in the cache never tells two contents apart.          *)
(***************************************************************************)
EXTENDS Integers, Sequences

CONSTANTS
    Process,            \* the rvcs processes
    Data,               \* the contents the file may have
    Mode,               \* the modes the file may have
    Inode,              \* inode numbers
    None,               \* nothing: no file, no mapping, no cache entry
    Blank,              \* a mapping truncated but not yet written
    FirstFiles,         \* File objects already stored, of other paths
    Missing,            \* hashes of snapshots that the archive does not have
    TicksPerSecond,     \* the clock and the modification times count ticks
    Renames,            \* whether the user moves files aside and back
    MaxTime,            \* bound on the clock
    MaxEdits,           \* bound on the actions of the user
    MaxFiles,           \* bound on the number of File objects
    MaxExtra,           \* bound on the calls with -additional-parents
    MaxAborts           \* bound on the calls that end in an error or a death

ASSUME TicksAssumption == TicksPerSecond \in Nat \ {0}
ASSUME BoundsAssumption ==
    /\ MaxTime \in Nat /\ MaxEdits \in Nat /\ MaxFiles \in Nat
    /\ MaxExtra \in Nat /\ MaxAborts \in Nat
ASSUME RenamesAssumption == Renames \in BOOLEAN

VARIABLES
    now,                \* the clock
    disk,               \* for each inode number, its file or None
    path,               \* the inode at the path, or None
    aside,              \* the inode the user has moved aside, or None
    edits,              \* how often the user has acted
    files,              \* the File objects stored
    mapping,            \* the latest snapshot of the path
    cache,              \* the cached information about the path
    proc,               \* the call each process is in
    extras,             \* the additional parents that calls were to add
    aborts,             \* how many calls were aborted
    taken               \* the snapshots that `rvcs snapshot` has returned

user == <<disk, path, aside, edits>>
vars == <<now, disk, path, aside, edits, files, mapping, cache, proc, extras,
          aborts, taken>>

\* The metadata that is compared with the cache, and the File object.
Info == [ino : Inode, mode : Mode, mtime : 0..MaxTime]
Hash == 1..MaxFiles
File == [contents : Data, mode : Mode, parents : Seq(Hash \cup Missing)]

\* What was stored before may have parents that were not.
ASSUME FirstFilesAssumption ==
    /\ FirstFiles \in Seq(File) /\ Len(FirstFiles) <= MaxFiles
    /\ \A h \in 1..Len(FirstFiles) :
          FirstFiles[h].parents \in Seq(1..Len(FirstFiles) \cup Missing)
ASSUME SpecialAssumption ==
    /\ None \notin Nat \cup Inode \cup Info /\ Blank \notin Nat /\ None # Blank
    /\ Missing \cap (Nat \cup {None, Blank}) = {}

NoCall == [pc |-> "idle"]

CallPcs == {"lookup", "cached", "read", "find", "store", "truncate", "map",
            "recheck", "uncache", "cache", "extra"}

TypeOK ==
    /\ now \in 0..MaxTime
    /\ disk \in [Inode -> [data : Data, mode : Mode, mtime : 0..MaxTime] \cup {None}]
    /\ path \in Inode \cup {None} /\ aside \in Inode \cup {None}
    /\ edits \in 0..MaxEdits /\ aborts \in 0..MaxAborts
    /\ extras \in Seq(DOMAIN files \cup Missing) /\ Len(extras) <= MaxExtra
    /\ files \in Seq(File) /\ Len(files) <= MaxFiles
    /\ mapping \in DOMAIN files \cup {None, Blank}
    /\ cache \in Info \cup {None}
    /\ \A p \in Process :
           proc[p] = NoCall \/ (proc[p].pc \in CallPcs /\ proc[p].info \in Info)
    /\ taken \subseteq DOMAIN files

Init ==
    /\ now = 0
    /\ disk = [i \in Inode |-> None]
    /\ path = None /\ aside = None /\ edits = 0
    /\ files = FirstFiles
    /\ mapping = None /\ cache = None
    /\ proc = [p \in Process |-> NoCall]
    /\ extras = <<>> /\ aborts = 0
    /\ taken = {}

-----------------------------------------------------------------------------
(***************************************************************************)
(* The user, and the clock.                                                *)
(***************************************************************************)
Tick ==
    /\ now < MaxTime
    /\ now' = now + 1
    /\ UNCHANGED <<user, files, mapping, cache, proc, extras, aborts, taken>>

UserStep ==
    /\ edits < MaxEdits
    /\ edits' = edits + 1
    /\ UNCHANGED <<now, files, mapping, cache, proc, extras, aborts, taken>>

\* An inode stays in use while a process has it open.
Opened == {proc[p].info.ino : p \in {q \in Process : proc[q] # NoCall}}
Free == Inode \ ({path, aside} \cup Opened)

\* Write the file in place.
Edit(d) ==
    /\ UserStep /\ path # None
    /\ disk' = [disk EXCEPT ![path] = [data |-> d, mode |-> @.mode, mtime |-> now]]
    /\ UNCHANGED <<path, aside>>

Chmod(m) ==
    /\ UserStep /\ path # None
    /\ disk' = [disk EXCEPT ![path].mode = m]
    /\ UNCHANGED <<path, aside>>

\* Write a new file, in place of the old one if there is one.
Create(d, m, i) ==
    /\ UserStep /\ i \in Free
    /\ disk' = [disk EXCEPT ![i] = [data |-> d, mode |-> m, mtime |-> now]]
    /\ path' = i
    /\ UNCHANGED aside

Delete ==
    /\ UserStep /\ path # None
    /\ path' = None
    /\ UNCHANGED <<disk, aside>>

\* A rename keeps the inode, and with it the modification time.
MoveAside ==
    /\ UserStep /\ Renames /\ path # None
    /\ aside' = path /\ path' = None
    /\ UNCHANGED disk

MoveBack ==
    /\ UserStep /\ Renames /\ aside # None
    /\ path' = aside /\ aside' = None
    /\ UNCHANGED disk

User ==
    \/ \E d \in Data : Edit(d) \/ \E m \in Mode, i \in Inode : Create(d, m, i)
    \/ \E m \in Mode : Chmod(m)
    \/ Delete \/ MoveAside \/ MoveBack

-----------------------------------------------------------------------------
(***************************************************************************)
(* One call of `rvcs snapshot`.                                            *)
(***************************************************************************)
Becomes(p, c) == proc' = [proc EXCEPT ![p] = c]

StatOf(i) == [ino |-> i, mode |-> disk[i].mode, mtime |-> disk[i].mtime]

\* Current opens the file and asks for its metadata.  Nothing happens when
\* there is no file.  extra lists the additional parents asked for: hashes,
\* which nobody looks up in the archive.
Open(p, extra) ==
    /\ proc[p] = NoCall /\ path # None
    /\ Len(extras) + Len(extra) <= MaxExtra
    /\ extras' = extras \o extra
    /\ Becomes(p, [pc |-> "lookup", info |-> StatOf(path), extra |-> extra])
    /\ UNCHANGED <<now, user, files, mapping, cache, aborts, taken>>

\* snapshotRegularFile notes the time, to the second, and asks the cache.
Lookup(p) ==
    /\ proc[p].pc = "lookup"
    /\ Becomes(p, [pc    |-> IF cache = proc[p].info THEN "cached" ELSE "read",
                   info  |-> proc[p].info,
                   extra |-> proc[p].extra,
                   start |-> now - (now % TicksPerSecond)])
    /\ UNCHANGED <<now, user, files, mapping, cache, extras, aborts, taken>>

\* The snapshot h of the file is known: the command is over, or has
\* additional parents to add.
Resolved(p, h) ==
    IF proc[p].extra = <<>>
    THEN Becomes(p, NoCall) /\ taken' = taken \cup {h}
    ELSE /\ Becomes(p, [pc |-> "extra", info |-> proc[p].info,
                        extra |-> proc[p].extra, hash |-> h])
         /\ UNCHANGED taken

\* readCached: the mapping answers, if there is one that can be read.
ReadCached(p) ==
    /\ proc[p].pc = "cached"
    /\ IF mapping \in {None, Blank}
       THEN Becomes(p, [proc[p] EXCEPT !.pc = "read"]) /\ UNCHANGED taken
       ELSE Resolved(p, mapping)
    /\ UNCHANGED <<now, user, files, mapping, cache, extras, aborts>>

\* The contents are read from the open file, and stored.
ReadContents(p) ==
    /\ proc[p].pc = "read"
    /\ Becomes(p, [pc    |-> "find",
                   info  |-> proc[p].info,
                   extra |-> proc[p].extra,
                   start |-> proc[p].start,
                   data  |-> disk[proc[p].info.ino].data])
    /\ UNCHANGED <<now, user, files, mapping, cache, extras, aborts, taken>>

\* Faults: a previous snapshot that cannot be read is used as a parent; the
\* snapshot takes the place of the previous one; what has not changed is
\* stored again.
FileFound(p, parents) ==
    Becomes(p, [pc |-> "store", info |-> proc[p].info, extra |-> proc[p].extra,
                start |-> proc[p].start,
                file  |-> [contents |-> proc[p].data, mode |-> proc[p].info.mode,
                           parents  |-> parents]])

FindPreviousUnread(p) ==
    /\ proc[p].pc = "find"
    /\ FileFound(p, IF mapping = None THEN <<>> ELSE <<mapping>>)
    /\ UNCHANGED <<now, user, files, mapping, cache, extras, aborts, taken>>

FindPreviousAmending(p) ==
    /\ proc[p].pc = "find" /\ mapping # Blank
    /\ FileFound(p, IF mapping = None THEN <<>> ELSE files[mapping].parents)
    /\ UNCHANGED <<now, user, files, mapping, cache, extras, aborts, taken>>

\* snapshotFileMetadata looks up the previous snapshot: it fails when that
\* cannot be read, and reuses it when nothing has changed.
FindPrevious(p) ==
    /\ proc[p].pc = "find"
    /\ LET c == proc[p]
           f == [contents |-> c.data, mode |-> c.info.mode,
                 parents |-> IF mapping = None THEN <<>> ELSE <<mapping>>]
       IN  IF mapping = Blank
           THEN Becomes(p, NoCall)
           ELSE IF mapping # None /\ files[mapping].mode = f.mode
                                  /\ files[mapping].contents = f.contents
           THEN Becomes(p, [pc |-> "recheck", info |-> c.info, extra |-> c.extra,
                            start |-> c.start, hash |-> mapping])
           ELSE Becomes(p, [pc |-> "store", info |-> c.info, extra |-> c.extra,
                            start |-> c.start, file |-> f])
    /\ UNCHANGED <<now, user, files, mapping, cache, extras, aborts, taken>>

\* StoreSnapshot stores the File object, under the hash it has already when
\* the same object was stored before.
Stored(f) == {h \in DOMAIN files : files[h] = f}

\* Fault: the File object is not stored, and nobody notices.
StoreFileFailing(p) ==
    /\ proc[p].pc = "store"
    /\ Len(files) < MaxFiles
    /\ Becomes(p, [pc |-> "truncate", info |-> proc[p].info,
                   extra |-> proc[p].extra, start |-> proc[p].start,
                   hash |-> Len(files) + 1])
    /\ UNCHANGED <<now, user, files, mapping, cache, extras, aborts, taken>>

StoreFile(p) ==
    /\ proc[p].pc = "store"
    /\ LET f == proc[p].file
           h == IF Stored(f) # {} THEN CHOOSE h \in Stored(f) : TRUE ELSE Len(files) + 1
       IN  /\ h <= MaxFiles
           /\ files' = IF Stored(f) # {} THEN files ELSE Append(files, f)
           /\ Becomes(p, [pc |-> "truncate", info |-> proc[p].info,
                          extra |-> proc[p].extra, start |-> proc[p].start, hash |-> h])
    /\ UNCHANGED <<now, user, mapping, cache, extras, aborts, taken>>

\* Fault: the call ends once the file is there.
TruncateMappingOnly(p) ==
    /\ proc[p].pc = "truncate"
    /\ mapping' = Blank
    /\ Becomes(p, NoCall)
    /\ UNCHANGED <<now, user, files, cache, extras, aborts, taken>>

\* os.WriteFile truncates the file with the mapping, then writes it.
TruncateMapping(p) ==
    /\ proc[p].pc = "truncate"
    /\ mapping' = Blank
    /\ Becomes(p, [proc[p] EXCEPT !.pc = "map"])
    /\ UNCHANGED <<now, user, files, cache, extras, aborts, taken>>

\* After Current, the deferred function may cache the file; after the
\* snapshot with the additional parents, the command is over.
WriteMapping(p) ==
    /\ proc[p].pc = "map"
    /\ mapping' = proc[p].hash
    /\ IF proc[p].start = None
       THEN Becomes(p, NoCall) /\ taken' = taken \cup {proc[p].hash}
       ELSE Becomes(p, [proc[p] EXCEPT !.pc = "recheck"]) /\ UNCHANGED taken
    /\ UNCHANGED <<now, user, files, cache, extras, aborts>>

\* Fault: a file that has just been modified is cached too.
RecheckIgnoringAge(p) ==
    /\ proc[p].pc = "recheck"
    /\ IF path # None /\ disk[path].mtime = proc[p].info.mtime
       THEN Becomes(p, [proc[p] EXCEPT !.pc = "uncache"]) /\ UNCHANGED taken
       ELSE Resolved(p, proc[p].hash)
    /\ UNCHANGED <<now, user, files, mapping, cache, extras, aborts>>

\* The deferred function of snapshotRegularFile: the file may be cached when
\* its modification time is still the same, and more than a second older
\* than the second in which the call began.
Recheck(p) ==
    /\ proc[p].pc = "recheck"
    /\ IF /\ path # None
          /\ disk[path].mtime = proc[p].info.mtime
          /\ disk[path].mtime < proc[p].start - TicksPerSecond
       THEN Becomes(p, [proc[p] EXCEPT !.pc = "uncache"]) /\ UNCHANGED taken
       ELSE Resolved(p, proc[p].hash)
    /\ UNCHANGED <<now, user, files, mapping, cache, extras, aborts>>

\* CachePathInfo removes the old entry, and returns early if there was one.
RemoveCacheEntry(p) ==
    /\ proc[p].pc = "uncache"
    /\ cache' = None
    /\ IF cache = None
       THEN Becomes(p, [proc[p] EXCEPT !.pc = "cache"]) /\ UNCHANGED taken
       ELSE Resolved(p, proc[p].hash)
    /\ UNCHANGED <<now, user, files, mapping, extras, aborts>>

WriteCacheEntry(p) ==
    /\ proc[p].pc = "cache"
    /\ cache' = proc[p].info
    /\ Resolved(p, proc[p].hash)
    /\ UNCHANGED <<now, user, files, mapping, extras, aborts>>

\* snapshotCommand appends the additional parents to those of the snapshot
\* that Current returned, and stores the result as the latest snapshot.
AddParents(p) ==
    /\ proc[p].pc = "extra"
    /\ Becomes(p, [pc    |-> "store",
                   info  |-> proc[p].info,
                   extra |-> <<>>,
                   start |-> None,
                   file  |-> [files[proc[p].hash] EXCEPT !.parents = @ \o proc[p].extra]])
    /\ UNCHANGED <<now, user, files, mapping, cache, extras, aborts, taken>>

\* An error ends the call, or the process dies.
Abort(p) ==
    /\ proc[p] # NoCall
    /\ aborts < MaxAborts
    /\ aborts' = aborts + 1
    /\ Becomes(p, NoCall)
    /\ UNCHANGED <<now, user, files, mapping, cache, extras, taken>>

SnapshotCommand(p) ==
    \/ \E extra \in {<<>>} \cup {<<h>> : h \in DOMAIN files \cup Missing} : Open(p, extra)
    \/ Lookup(p) \/ ReadCached(p) \/ ReadContents(p) \/ FindPrevious(p)
    \/ StoreFile(p) \/ TruncateMapping(p) \/ WriteMapping(p)
    \/ Recheck(p) \/ RemoveCacheEntry(p) \/ WriteCacheEntry(p)
    \/ AddParents(p) \/ Abort(p)

Next == Tick \/ User \/ \E p \in Process : SnapshotCommand(p)

Spec == Init /\ [][Next]_vars

-----------------------------------------------------------------------------
Parents ==
    [h \in Hash \cup Missing |-> IF h \in DOMAIN files THEN files[h].parents ELSE <<>>]

History == INSTANCE Ancestry WITH Snapshot <- Hash \cup Missing, Histories <- {}

HasMapping == mapping \in Hash

\* No call is under way.
Quiet == \A p \in Process : proc[p] = NoCall

\* Whenever the cache would answer the next call for the file at the path, the
\* mapping is the snapshot of exactly that file: no edit is ever overlooked.
CacheIsSound ==
    Quiet /\ path # None /\ HasMapping /\ cache = StatOf(path) =>
        /\ files[mapping].contents = disk[path].data
        /\ files[mapping].mode = disk[path].mode

\* Every snapshot that `rvcs snapshot` has returned for the path is in the
\* history of the latest one, from which `rvcs log` starts.
HistoryIsKept ==
    HasMapping => taken \subseteq History!Ancestors(Parents, mapping)

\* At every step, and whatever is aborted, the mapping names a File object that
\* is stored, and a log that starts there finds all but what the history of an
\* additional parent, asked for by some call, lacks too.  So in an archive with
\* incomplete histories of other paths that of this path is complete until
\* somebody asks for one of them.
AskedFor == UNION {History!Ancestors(Parents, h) : h \in History!Range(extras)}

HistoryIsComplete ==
    HasMapping => History!Ancestors(Parents, mapping) \subseteq DOMAIN files \cup AskedFor

\* Outside of a call a mapping can be read, unless a call was aborted: then
\* every later snapshot of the path fails.
BlankOnlyAfterAbort ==
    Quiet /\ mapping = Blank => aborts > 0

\* When CachePathInfo returns the information about the path is in the cache.
Caching(c) == c.pc \in {"uncache", "cache"}

CachedOnReturn ==
    [][\A p \in Process :
           Caching(proc[p]) /\ ~Caching(proc'[p]) => cache' = proc[p].info]_vars

(***************************************************************************)
(* With one process, no additional parents and no aborts, the first        *)
(* parents from the mapping back are the line of versions of FileHistory.  *)
(* While the mapping is blank it is the line from the snapshot before.     *)
(***************************************************************************)
VersionOf(f) == [contents |-> f.contents, mode |-> f.mode]

FirstParent(h) == IF files[h].parents = <<>> THEN 0 ELSE files[h].parents[1]

LineOf[h \in 0..Len(files)] ==
    IF h = 0 THEN <<>> ELSE Append(LineOf[FirstParent(h)], VersionOf(files[h]))

Latest ==
    IF HasMapping THEN mapping
    ELSE IF mapping = None THEN 0
    ELSE FirstParent(proc[CHOOSE p \in Process : proc[p] # NoCall].hash)

Line == INSTANCE FileHistory WITH
            Version <- [contents : Data, mode : Mode],
            line    <- LineOf[Latest]

LineOfVersions == Line!Spec

=============================================================================
