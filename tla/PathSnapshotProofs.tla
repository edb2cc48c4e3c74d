------------------------- MODULE PathSnapshotProofs -------------------------
(***************************************************************************)
(* What holds of the snapshots of a path, for any contents, modes and      *)
(* inodes, and any clock: with any number of processes a log that starts   *)
(* at the path finds all but what was asked for without being there; and   *)
(* what one process takes while nothing is aborted overlooks no edit and   *)
(* loses no version: it implements FileHistory.                            *)
(***************************************************************************)
EXTENDS PathSnapshot, SequenceTheorems, TLAPS

-----------------------------------------------------------------------------
(***************************************************************************)
(* The inductive invariant: what each call knows at each of its steps.     *)
(***************************************************************************)
OnDisk == [data : Data, mode : Mode, mtime : 0..MaxTime]
Held == 1..Len(files)

\* File objects and calls that refer to the snapshots in H, and as parents
\* perhaps to missing ones.
Parent(H) == H \cup Missing
FileOf(H) == [contents : Data, mode : Mode, parents : Seq(Parent(H))]

LookingUp(H) == [pc : {"lookup"}, info : Info, extra : Seq(Parent(H))]
Reading(H) == [pc : {"cached", "read"}, info : Info, extra : Seq(Parent(H)), start : Nat]
Finding(H) == [pc : {"find"}, info : Info, extra : Seq(Parent(H)), start : Nat, data : Data]
Storing(H) == [pc : {"store"}, info : Info, extra : Seq(Parent(H)),
               start : Nat \cup {None}, file : FileOf(H)]
Mapping(H) == [pc : {"truncate", "map"}, info : Info, extra : Seq(Parent(H)),
               start : Nat \cup {None}, hash : H]
Closing(H) == [pc : {"recheck", "uncache", "cache"}, info : Info, extra : Seq(Parent(H)),
               start : Nat, hash : H]
Extending(H) == [pc : {"extra"}, info : Info, extra : Seq(Parent(H)), hash : H]

CallOf(H) ==
    {NoCall} \cup LookingUp(H) \cup Reading(H) \cup Finding(H) \cup Storing(H)
        \cup Mapping(H) \cup Closing(H) \cup Extending(H)

Bounded ==
    /\ now \in 0..MaxTime /\ edits \in 0..MaxEdits /\ aborts \in 0..MaxAborts
    /\ extras \in Seq(Parent(Held)) /\ Len(extras) <= MaxExtra

\* The files that somebody can reach are there.
DiskInv ==
    /\ disk \in [Inode -> OnDisk \cup {None}]
    /\ path \in Inode \cup {None} /\ aside \in Inode \cup {None}
    /\ path # None => disk[path] \in OnDisk
    /\ aside # None => disk[aside] \in OnDisk
    /\ \A p \in Process : proc[p] # NoCall => disk[proc[p].info.ino] \in OnDisk

StoreInv ==
    /\ files \in Seq(FileOf(Held)) /\ Len(files) <= MaxFiles
    /\ mapping \in Held \cup {None, Blank}
    /\ cache \in Info \cup {None}
    /\ taken \subseteq Held
    /\ proc \in [Process -> CallOf(Held)]

BlankInv == mapping = Blank => aborts > 0 \/ \E p \in Process : proc[p].pc = "map"

Inv == Bounded /\ DiskInv /\ StoreInv /\ BlankInv

\* What is stored stays stored.
LEMMA MoreFiles ==
    ASSUME NEW H, NEW K, H \subseteq K
    PROVE  /\ FileOf(H) \subseteq FileOf(K) /\ Seq(FileOf(H)) \subseteq Seq(FileOf(K))
           /\ CallOf(H) \subseteq CallOf(K)
<1>1. Seq(Parent(H)) \subseteq Seq(Parent(K))
  BY SeqMonotonic DEF Parent
<1>2. FileOf(H) \subseteq FileOf(K)
  BY <1>1 DEF FileOf
<1>3. Seq(FileOf(H)) \subseteq Seq(FileOf(K))
  BY <1>2, SeqMonotonic
<1>4. LookingUp(H) \subseteq LookingUp(K) /\ Reading(H) \subseteq Reading(K)
  BY <1>1 DEF LookingUp, Reading
<1>5. Finding(H) \subseteq Finding(K)
  BY <1>1 DEF Finding
<1>6. Storing(H) \subseteq Storing(K)
  BY <1>1, <1>2 DEF Storing
<1>7. Mapping(H) \subseteq Mapping(K) /\ Closing(H) \subseteq Closing(K)
  BY <1>1 DEF Mapping, Closing
<1>8. Extending(H) \subseteq Extending(K)
  BY <1>1 DEF Extending
<1>9. QED
  BY <1>2, <1>3, <1>4, <1>5, <1>6, <1>7, <1>8 DEF CallOf

\* The step a call is at tells what it knows.
LEMMA KnownAt ==
    ASSUME NEW H, NEW c \in CallOf(H)
    PROVE  /\ c.pc = "idle" <=> c = NoCall
           /\ c.pc = "lookup" => c \in LookingUp(H)
           /\ c.pc \in {"cached", "read"} => c \in Reading(H)
           /\ c.pc = "find" => c \in Finding(H)
           /\ c.pc = "store" => c \in Storing(H)
           /\ c.pc \in {"truncate", "map"} => c \in Mapping(H)
           /\ c.pc \in {"recheck", "uncache", "cache"} => c \in Closing(H)
           /\ c.pc = "extra" => c \in Extending(H)
           /\ c # NoCall => c.info \in Info /\ c.extra \in Seq(Parent(H)) /\ c.pc \in CallPcs
BY DEF CallOf, NoCall, LookingUp, Reading, Finding, Storing, Mapping, Closing, Extending, CallPcs

LEMMA HeldIsHash == ASSUME StoreInv PROVE Len(files) \in Nat /\ Held \subseteq Hash /\ DOMAIN files = Held
<1>1. Len(files) \in Nat /\ DOMAIN files = 1..Len(files)
  BY LenProperties DEF StoreInv
<1>2. QED
  BY <1>1, BoundsAssumption DEF StoreInv, Held, Hash

LEMMA TypeOfInv == Inv => TypeOK
<1> SUFFICES ASSUME Inv PROVE TypeOK
  OBVIOUS
<1>1. Held \subseteq Hash /\ DOMAIN files = Held
  BY HeldIsHash DEF Inv
<1>2. files \in Seq(File)
  <2>1. FileOf(Hash) = File
    BY DEF FileOf, File, Parent
  <2>2. QED
    BY <1>1, <2>1, MoreFiles DEF Inv, StoreInv
<1>3. \A p \in Process : proc[p] = NoCall \/ (proc[p].pc \in CallPcs /\ proc[p].info \in Info)
  BY KnownAt DEF Inv, StoreInv
<1>4. QED
  BY <1>1, <1>2, <1>3 DEF Inv, Bounded, DiskInv, StoreInv, TypeOK, OnDisk, Parent

LEMMA InvInitially == Init => Inv
<1> SUFFICES ASSUME Init PROVE Inv
  OBVIOUS
<1>1. files = FirstFiles /\ Len(files) \in Nat
  BY LenProperties, FirstFilesAssumption DEF Init
<1>2. files \in Seq(FileOf(Held))
  <2>1. \A h \in 1..Len(files) : files[h] \in FileOf(Held)
    <3> SUFFICES ASSUME NEW h \in 1..Len(files) PROVE files[h] \in FileOf(Held)
      OBVIOUS
    <3>1. files[h] \in File
      BY <1>1, ElementOfSeq, FirstFilesAssumption
    <3>2. QED
      BY <1>1, <3>1, FirstFilesAssumption DEF File, FileOf, Held, Parent
  <2>2. files \in [1..Len(files) -> File]
    BY <1>1, LenProperties, FirstFilesAssumption
  <2>3. files \in [1..Len(files) -> FileOf(Held)]
    BY <2>1, <2>2
  <2>4. QED
    BY <1>1, <2>3, SeqDef
<1>3. proc \in [Process -> CallOf(Held)]
  BY DEF Init, CallOf
<1>4. StoreInv
  BY <1>1, <1>2, <1>3, FirstFilesAssumption DEF Init, StoreInv
<1>5. Bounded
  <2>1. extras = <<>> /\ now = 0 /\ edits = 0 /\ aborts = 0
    BY DEF Init
  <2>2. extras \in Seq(Parent(Held)) /\ Len(extras) = 0
    BY <2>1
  <2>3. QED
    BY <2>1, <2>2, BoundsAssumption DEF Bounded
<1>6. DiskInv /\ BlankInv
  BY SpecialAssumption DEF Init, DiskInv, BlankInv
<1>7. QED
  BY <1>4, <1>5, <1>6 DEF Inv

\* A step of one call.
LEMMA CallKeeps ==
    ASSUME Inv, NEW p \in Process, NEW c \in CallOf(Held'), Becomes(p, c),
           UNCHANGED <<now, user>>,
           files' \in Seq(FileOf(Held')), Len(files) <= Len(files'), Len(files') <= MaxFiles,
           mapping' \in Held' \cup {None, Blank}, cache' \in Info \cup {None},
           taken' \subseteq Held',
           extras' \in Seq(Parent(Held')), Len(extras') <= MaxExtra, aborts' \in 0..MaxAborts,
           c # NoCall => disk[c.info.ino] \in OnDisk,
           mapping' = Blank =>
               \/ c.pc = "map"
               \/ mapping = Blank /\ proc[p].pc # "map" /\ aborts <= aborts'
               \/ aborts' > 0
    PROVE  Inv'
<1>1. Held \subseteq Held'
  <2>1. Len(files) \in Nat /\ Len(files') \in Nat
    BY LenProperties DEF Inv, StoreInv
  <2>2. QED
    BY <2>1 DEF Held
<1>2. CallOf(Held) \subseteq CallOf(Held')
  BY <1>1, MoreFiles
<1>3. proc \in [Process -> CallOf(Held)]
  BY DEF Inv, StoreInv
<1>4. proc' \in [Process -> CallOf(Held')] /\ proc'[p] = c
      /\ \A q \in Process \ {p} : proc'[q] = proc[q]
  BY <1>2, <1>3 DEF Becomes
<1>5. Bounded'
  BY DEF Inv, Bounded, user
<1>6. DiskInv'
  BY <1>4 DEF Inv, DiskInv, user
<1>7. StoreInv'
  BY <1>4 DEF StoreInv
<1>8. BlankInv'
  <2>1. aborts \in Nat /\ aborts' \in Nat
    BY BoundsAssumption DEF Inv, Bounded
  <2>2. QED
    BY <1>4, <2>1 DEF Inv, BlankInv
<1>9. QED
  BY <1>5, <1>6, <1>7, <1>8 DEF Inv

\* One that changes nothing but what the command returns, and the cache.
LEMMA QuietStepKeeps ==
    ASSUME Inv, NEW p \in Process, NEW c \in CallOf(Held), Becomes(p, c),
           UNCHANGED <<now, user, files, mapping, extras, aborts>>,
           proc[p].pc # "map", proc[p] # NoCall, taken' \subseteq Held,
           cache' \in Info \cup {None},
           c # NoCall => c.info = proc[p].info
    PROVE  Inv'
<1>1. Held' = Held
  BY DEF Held
<1>2. disk[proc[p].info.ino] \in OnDisk
  BY DEF Inv, DiskInv
<1>3. QED
  BY <1>1, <1>2, CallKeeps, BoundsAssumption DEF Inv, StoreInv, Bounded

LEMMA FileHeld == ASSUME StoreInv, NEW h \in Held PROVE files[h] \in FileOf(Held)
BY ElementOfSeq DEF StoreInv, Held

LEMMA TickKeeps == ASSUME Inv, Tick PROVE Inv'
<1>1. Bounded'
  BY BoundsAssumption DEF Inv, Bounded, Held, Tick, user
<1>2. DiskInv' /\ BlankInv'
  BY DEF Inv, DiskInv, BlankInv, Tick, user
<1>3. StoreInv'
  BY DEF Inv, StoreInv, Held, Tick
<1>4. QED
  BY <1>1, <1>2, <1>3 DEF Inv

LEMMA UserKeeps == ASSUME Inv, User PROVE Inv'
<1>1. UserStep
  BY DEF User, Edit, Chmod, Create, Delete, MoveAside, MoveBack
<1>2. Bounded'
  BY <1>1, BoundsAssumption DEF Inv, Bounded, Held, UserStep
<1>3. StoreInv' /\ BlankInv'
  BY <1>1 DEF Inv, StoreInv, Held, BlankInv, UserStep
<1>4. DiskInv'
  <2> DEFINE InUse(i) == i = path \/ i = aside \/ i \in Opened
  <2>1. \A p \in Process : proc[p] # NoCall => InUse(proc[p].info.ino) /\ proc[p].info.ino \in Inode
    <3> SUFFICES ASSUME NEW p \in Process, proc[p] # NoCall
                 PROVE  InUse(proc[p].info.ino) /\ proc[p].info.ino \in Inode
      OBVIOUS
    <3>1. proc[p].info.ino \in Opened
      BY DEF Opened
    <3>2. proc[p].info \in Info
      BY KnownAt DEF Inv, StoreInv
    <3>3. QED
      BY <3>1, <3>2 DEF Info
  <2>2. CASE \E d \in Data : Edit(d)
    <3> PICK d \in Data : Edit(d)
      BY <2>2
    <3> PICK e : e = [data |-> d, mode |-> disk[path].mode, mtime |-> now]
      OBVIOUS
    <3>1. path \in Inode /\ disk[path] \in OnDisk /\ disk \in [Inode -> OnDisk \cup {None}]
      BY DEF Inv, DiskInv, Edit
    <3>2. e \in OnDisk
      BY <3>1 DEF Inv, Bounded, OnDisk
    <3>3. disk' = [disk EXCEPT ![path] = e]
      BY <3>1 DEF Edit
    <3> HIDE DEF InUse
    <3>4. disk' \in [Inode -> OnDisk \cup {None}] /\ disk'[path] \in OnDisk
          /\ \A i \in Inode : disk[i] \in OnDisk => disk'[i] \in OnDisk
      BY <3>1, <3>2, <3>3
    <3>5. QED
      BY <1>1, <2>1, <3>4 DEF Inv, DiskInv, UserStep, Edit
  <2>3. CASE \E d \in Data, m \in Mode, i \in Inode : Create(d, m, i)
    <3> PICK d \in Data, m \in Mode, i \in Inode : Create(d, m, i)
      BY <2>3
    <3>1. [data |-> d, mode |-> m, mtime |-> now] \in OnDisk
      BY DEF Inv, Bounded, OnDisk
    <3>2. ~InUse(i)
      BY DEF Create, Free
    <3>3. QED
      BY <1>1, <2>1, <3>1, <3>2, SpecialAssumption DEF Inv, DiskInv, UserStep, Create
  <2>4. CASE \E m \in Mode : Chmod(m)
    BY <1>1, <2>1, <2>4 DEF Inv, DiskInv, UserStep, Chmod, OnDisk
  <2>5. CASE Delete \/ MoveAside \/ MoveBack
    BY <1>1, <2>5 DEF Inv, DiskInv, UserStep, Delete, MoveAside, MoveBack
  <2>6. QED
    BY <2>2, <2>3, <2>4, <2>5 DEF User
<1>5. QED
  BY <1>2, <1>3, <1>4 DEF Inv

LEMMA OpenKeeps ==
    ASSUME Inv, NEW p \in Process, NEW extra \in Seq(Parent(Held)), Open(p, extra)
    PROVE  Inv'
<1> PICK c : c = [pc |-> "lookup", info |-> StatOf(path), extra |-> extra]
  OBVIOUS
<1>1. path \in Inode /\ disk[path] \in OnDisk
  BY DEF Inv, DiskInv, Open
<1>2. c \in LookingUp(Held)
  BY <1>1 DEF LookingUp, StatOf, Info, OnDisk
<1>3. Held' = Held /\ UNCHANGED <<now, user, files, mapping, cache, aborts, taken>>
  BY DEF Open, Held
<1>4. c \in CallOf(Held') /\ Becomes(p, c)
  BY <1>2, <1>3 DEF CallOf, Open
<1>5. disk[c.info.ino] \in OnDisk
  BY <1>1 DEF StatOf
<1>6. extras' \in Seq(Parent(Held')) /\ Len(extras') <= MaxExtra
  BY <1>3, ConcatProperties DEF Open, Inv, Bounded
<1>7. proc[p].pc # "map"
  BY DEF Open, NoCall
<1>8. files' \in Seq(FileOf(Held')) /\ Len(files) <= Len(files') /\ Len(files') <= MaxFiles
      /\ mapping' \in Held' \cup {None, Blank} /\ cache' \in Info \cup {None}
      /\ taken' \subseteq Held' /\ aborts' \in 0..MaxAborts /\ aborts <= aborts'
  BY <1>3, HeldIsHash DEF Inv, StoreInv, Bounded
<1>9. QED
  BY <1>3, <1>4, <1>5, <1>6, <1>7, <1>8, CallKeeps

LEMMA LookupKeeps == ASSUME Inv, NEW p \in Process, Lookup(p) PROVE Inv'
<1> PICK c : c = [pc    |-> IF cache = proc[p].info THEN "cached" ELSE "read",
                  info  |-> proc[p].info, extra |-> proc[p].extra,
                  start |-> now - (now % TicksPerSecond)]
  OBVIOUS
<1>1. proc[p] \in LookingUp(Held) /\ proc[p] # NoCall
  BY KnownAt DEF Inv, StoreInv, Lookup, NoCall
<1>2. now - (now % TicksPerSecond) \in Nat
  BY TicksAssumption, BoundsAssumption DEF Inv, Bounded
<1>3. c \in Reading(Held)
  BY <1>1, <1>2 DEF LookingUp, Reading
<1>4. c \in CallOf(Held)
  BY <1>3 DEF CallOf
<1>5. QED
  BY <1>1, <1>4, QuietStepKeeps DEF Lookup, Inv, StoreInv

\* The end of Current.
LEMMA ResolvedKeeps ==
    ASSUME Inv, NEW p \in Process, NEW h \in Held, Resolved(p, h),
           UNCHANGED <<now, user, files, mapping, extras, aborts>>,
           proc[p].pc \notin {"idle", "map"}, cache' \in Info \cup {None}
    PROVE  Inv'
<1>1. proc[p] # NoCall /\ proc[p].info \in Info /\ proc[p].extra \in Seq(Parent(Held))
  BY KnownAt DEF Inv, StoreInv, NoCall
<1>2. taken' \subseteq Held
  BY DEF Resolved, Inv, StoreInv
<1>3. CASE proc[p].extra = <<>>
  BY <1>1, <1>2, <1>3, QuietStepKeeps DEF Resolved, CallOf
<1>4. CASE proc[p].extra # <<>>
  <2> PICK c : c = [pc |-> "extra", info |-> proc[p].info, extra |-> proc[p].extra, hash |-> h]
    OBVIOUS
  <2>1. c \in Extending(Held)
    BY <1>1 DEF Extending
  <2>2. c \in CallOf(Held)
    BY <2>1 DEF CallOf
  <2>3. QED
    BY <1>1, <1>2, <1>4, <2>2, QuietStepKeeps DEF Resolved
<1>5. QED
  BY <1>3, <1>4

LEMMA ReadCachedKeeps == ASSUME Inv, NEW p \in Process, ReadCached(p) PROVE Inv'
<1>1. proc[p] \in Reading(Held) /\ proc[p] # NoCall
  BY KnownAt DEF Inv, StoreInv, ReadCached, NoCall
<1>2. CASE mapping \in {None, Blank}
  <2>1. [proc[p] EXCEPT !.pc = "read"] \in Reading(Held)
    BY <1>1 DEF Reading
  <2>2. [proc[p] EXCEPT !.pc = "read"] \in CallOf(Held)
    BY <2>1 DEF CallOf
  <2>3. QED
    BY <1>1, <1>2, <2>2, QuietStepKeeps DEF ReadCached, Inv, StoreInv, Reading
<1>3. CASE mapping \notin {None, Blank}
  BY <1>3, ResolvedKeeps DEF ReadCached, Inv, StoreInv
<1>4. QED
  BY <1>2, <1>3

LEMMA ReadContentsKeeps == ASSUME Inv, NEW p \in Process, ReadContents(p) PROVE Inv'
<1> PICK c : c = [pc    |-> "find", info  |-> proc[p].info, extra |-> proc[p].extra,
                  start |-> proc[p].start, data  |-> disk[proc[p].info.ino].data]
  OBVIOUS
<1>1. proc[p] \in Reading(Held) /\ proc[p] # NoCall
  BY KnownAt DEF Inv, StoreInv, ReadContents, NoCall
<1>2. disk[proc[p].info.ino] \in OnDisk
  BY <1>1 DEF Inv, DiskInv
<1>3. c \in Finding(Held)
  BY <1>1, <1>2 DEF Reading, Finding, OnDisk
<1>4. c \in CallOf(Held)
  BY <1>3 DEF CallOf
<1>5. QED
  BY <1>1, <1>4, QuietStepKeeps DEF ReadContents, Inv, StoreInv

LEMMA FindPreviousKeeps == ASSUME Inv, NEW p \in Process, FindPrevious(p) PROVE Inv'
<1> PICK f : f = [contents |-> proc[p].data, mode |-> proc[p].info.mode,
                  parents |-> IF mapping = None THEN <<>> ELSE <<mapping>>]
  OBVIOUS
<1> PICK same : same = [pc |-> "recheck", info |-> proc[p].info, extra |-> proc[p].extra,
                        start |-> proc[p].start, hash |-> mapping]
  OBVIOUS
<1> PICK new : new = [pc |-> "store", info |-> proc[p].info, extra |-> proc[p].extra,
                      start |-> proc[p].start, file |-> f]
  OBVIOUS
<1>1. proc[p] \in Finding(Held) /\ proc[p] # NoCall
  BY KnownAt DEF Inv, StoreInv, FindPrevious, NoCall
<1>2. UNCHANGED <<now, user, files, mapping, cache, extras, aborts, taken>>
      /\ proc[p].pc # "map" /\ taken' \subseteq Held /\ cache' \in Info \cup {None}
  BY DEF FindPrevious, Inv, StoreInv
<1>3. CASE mapping = Blank
  BY <1>1, <1>2, <1>3, QuietStepKeeps DEF FindPrevious, CallOf
<1>4. CASE mapping # Blank /\ Becomes(p, same)
  <2>1. CASE mapping \in Held
    <3>1. same \in Closing(Held)
      BY <1>1, <2>1 DEF Finding, Closing
    <3>2. same \in CallOf(Held)
      BY <3>1 DEF CallOf
    <3>3. QED
      BY <1>1, <1>2, <1>4, <3>2, QuietStepKeeps
  <2>2. CASE mapping = None
    <3>1. Becomes(p, new)
      BY <1>4, <2>2, SpecialAssumption DEF FindPrevious
    <3>2. proc'[p] = same /\ proc'[p] = new
      BY <1>4, <3>1 DEF Becomes, Inv, StoreInv
    <3>3. QED
      BY <3>2
  <2>3. QED
    BY <1>4, <2>1, <2>2 DEF Inv, StoreInv
<1>5. CASE mapping # Blank /\ Becomes(p, new)
  <2>1. f \in FileOf(Held)
    <3>1. (IF mapping = None THEN <<>> ELSE <<mapping>>) \in Seq(Parent(Held))
      <4>1. mapping = None \/ mapping \in Parent(Held)
        BY <1>5 DEF Inv, StoreInv, Parent
      <4>2. <<>> \in Seq(Parent(Held)) /\ \A h \in Parent(Held) : <<h>> \in Seq(Parent(Held))
        OBVIOUS
      <4>3. QED
        BY <4>1, <4>2
    <3>2. QED
      BY <1>1, <3>1 DEF Finding, FileOf, Info
  <2>2. new \in Storing(Held)
    BY <1>1, <2>1 DEF Finding, Storing
  <2>3. new \in CallOf(Held)
    BY <2>2 DEF CallOf
  <2>4. QED
    BY <1>1, <1>2, <1>5, <2>3, QuietStepKeeps
<1>6. mapping # Blank => Becomes(p, same) \/ Becomes(p, new)
  BY DEF FindPrevious
<1>7. QED
  BY <1>3, <1>4, <1>5, <1>6

\* What StoreFile does: the object is at its hash, in a longer store perhaps.
LEMMA FileStored ==
    ASSUME Inv, NEW p \in Process, StoreFile(p)
    PROVE  \E h \in Held' :
              /\ files'[h] = proc[p].file
              /\ Len(files) \in Nat /\ Len(files') \in Nat
              /\ Len(files) <= Len(files') /\ Len(files') <= MaxFiles
              /\ Held \subseteq Held' /\ files' \in Seq(FileOf(Held'))
              /\ \A k \in Held : files'[k] = files[k]
              /\ Becomes(p, [pc |-> "truncate", info |-> proc[p].info,
                             extra |-> proc[p].extra, start |-> proc[p].start,
                             hash |-> h])
<1> PICK f : f = proc[p].file
  OBVIOUS
<1>1. f \in FileOf(Held)
  BY KnownAt DEF Inv, StoreInv, StoreFile, Storing
<1>2. Len(files) \in Nat /\ DOMAIN files = 1..Len(files) /\ Len(files) <= MaxFiles
      /\ files \in Seq(FileOf(Held))
  BY LenProperties DEF Inv, StoreInv
<1>3. CASE Stored(f) # {}
  <2>1. PICK h \in Stored(f) :
          Becomes(p, [pc |-> "truncate", info |-> proc[p].info, extra |-> proc[p].extra,
                      start |-> proc[p].start, hash |-> h])
    BY <1>3 DEF StoreFile
  <2>2. h \in Held /\ files[h] = f
    BY <1>2 DEF Stored, Held
  <2>3. files' = files /\ Held' = Held
    BY <1>3 DEF StoreFile, Held
  <2>4. h \in Held' /\ files'[h] = proc[p].file /\ Len(files') = Len(files)
        /\ files' \in Seq(FileOf(Held'))
    BY <1>2, <2>2, <2>3
  <2>5. Held \subseteq Held' /\ \A k \in Held : files'[k] = files[k]
    BY <2>3
  <2>6. QED
    BY <1>2, <2>1, <2>4, <2>5
<1>4. CASE Stored(f) = {}
  <2> PICK h : h = Len(files) + 1
    OBVIOUS
  <2>1. files' = Append(files, f) /\ h <= MaxFiles
    BY <1>4 DEF StoreFile
  <2>2. Len(files') = h /\ files'[h] = f /\ \A k \in Held : files'[k] = files[k]
    BY <1>1, <1>2, <2>1, AppendProperties DEF Held
  <2>3. Held' = 1..h /\ Held \subseteq Held' /\ h \in Held'
    BY <1>2, <2>2 DEF Held
  <2>4. FileOf(Held) \subseteq FileOf(Held')
    BY <2>3, MoreFiles
  <2>5. files \in Seq(FileOf(Held')) /\ f \in FileOf(Held')
    BY <1>1, <1>2, <2>3, <2>4, MoreFiles
  <2>6. files' \in Seq(FileOf(Held'))
    BY <2>1, <2>5, AppendProperties
  <2>7. Becomes(p, [pc |-> "truncate", info |-> proc[p].info, extra |-> proc[p].extra,
                    start |-> proc[p].start, hash |-> h])
    BY <1>4 DEF StoreFile
  <2>8. QED
    BY <1>2, <2>1, <2>2, <2>3, <2>6, <2>7
<1>5. QED
  BY <1>3, <1>4

LEMMA StoreFileKeeps == ASSUME Inv, NEW p \in Process, StoreFile(p) PROVE Inv'
<1>1. PICK h \in Held' :
         /\ Len(files) <= Len(files') /\ Len(files') <= MaxFiles
         /\ Held \subseteq Held' /\ files' \in Seq(FileOf(Held'))
         /\ Becomes(p, [pc |-> "truncate", info |-> proc[p].info, extra |-> proc[p].extra,
                        start |-> proc[p].start, hash |-> h])
  BY FileStored
<1> PICK c : c = [pc |-> "truncate", info |-> proc[p].info, extra |-> proc[p].extra,
                  start |-> proc[p].start, hash |-> h]
  OBVIOUS
<1>2. proc[p] \in Storing(Held) /\ proc[p] # NoCall
  BY KnownAt DEF Inv, StoreInv, StoreFile, NoCall
<1>3. c \in Mapping(Held')
  <2>1. Seq(Parent(Held)) \subseteq Seq(Parent(Held'))
    BY <1>1, SeqMonotonic DEF Parent
  <2>2. QED
    BY <1>1, <1>2, <2>1 DEF Storing, Mapping
<1>4. c \in CallOf(Held')
  BY <1>3 DEF CallOf
<1>5. disk[c.info.ino] \in OnDisk
  BY <1>2 DEF Inv, DiskInv
<1>6. UNCHANGED <<now, user, mapping, cache, extras, aborts, taken>> /\ proc[p].pc # "map"
  BY DEF StoreFile
<1>7. mapping' \in Held' \cup {None, Blank} /\ cache' \in Info \cup {None}
      /\ taken' \subseteq Held' /\ aborts' \in 0..MaxAborts /\ aborts <= aborts'
  BY <1>1, <1>6, BoundsAssumption DEF Inv, StoreInv, Bounded
<1>8. extras' \in Seq(Parent(Held')) /\ Len(extras') <= MaxExtra
  <2>1. Seq(Parent(Held)) \subseteq Seq(Parent(Held'))
    BY <1>1, SeqMonotonic DEF Parent
  <2>2. QED
    BY <1>6, <2>1 DEF Inv, Bounded
<1>9. QED
  BY <1>1, <1>4, <1>5, <1>6, <1>7, <1>8, CallKeeps

LEMMA TruncateMappingKeeps == ASSUME Inv, NEW p \in Process, TruncateMapping(p) PROVE Inv'
<1> PICK c : c = [proc[p] EXCEPT !.pc = "map"]
  OBVIOUS
<1>1. proc[p] \in Mapping(Held) /\ proc[p] # NoCall
  BY KnownAt DEF Inv, StoreInv, TruncateMapping, NoCall
<1>2. c \in Mapping(Held) /\ c.pc = "map" /\ c.info = proc[p].info
  BY <1>1 DEF Mapping
<1>3. Held' = Held /\ UNCHANGED <<now, user, files, cache, extras, aborts, taken>>
      /\ mapping' = Blank
  BY DEF TruncateMapping, Held
<1>4. c \in CallOf(Held') /\ Becomes(p, c)
  BY <1>2, <1>3 DEF CallOf, TruncateMapping
<1>5. disk[c.info.ino] \in OnDisk
  BY <1>1, <1>2 DEF Inv, DiskInv
<1>6. files' \in Seq(FileOf(Held')) /\ Len(files) <= Len(files') /\ Len(files') <= MaxFiles
      /\ cache' \in Info \cup {None} /\ taken' \subseteq Held'
      /\ extras' \in Seq(Parent(Held')) /\ Len(extras') <= MaxExtra
      /\ aborts' \in 0..MaxAborts
  BY <1>3, HeldIsHash DEF Inv, StoreInv, Bounded
<1>7. QED
  BY <1>2, <1>3, <1>4, <1>5, <1>6, CallKeeps

LEMMA WriteMappingKeeps == ASSUME Inv, NEW p \in Process, WriteMapping(p) PROVE Inv'
<1> PICK c : c = IF proc[p].start = None THEN NoCall ELSE [proc[p] EXCEPT !.pc = "recheck"]
  OBVIOUS
<1>1. proc[p] \in Mapping(Held) /\ proc[p] # NoCall
  BY KnownAt DEF Inv, StoreInv, WriteMapping, NoCall
<1>2. c # NoCall => c \in Closing(Held) /\ c.info = proc[p].info
  BY <1>1 DEF Mapping, Closing
<1>3. Held' = Held /\ UNCHANGED <<now, user, files, cache, extras, aborts>>
      /\ mapping' = proc[p].hash /\ Becomes(p, c)
      /\ (taken' = taken \/ taken' = taken \cup {proc[p].hash})
  BY DEF WriteMapping, Held
<1>4. c \in CallOf(Held')
  BY <1>2, <1>3 DEF CallOf
<1>5. c # NoCall => disk[c.info.ino] \in OnDisk
  BY <1>1, <1>2 DEF Inv, DiskInv
<1>6. proc[p].hash \in Held /\ proc[p].hash \in Nat
  BY <1>1 DEF Mapping, Held
<1>7. mapping' # Blank /\ mapping' \in Held' \cup {None, Blank} /\ taken' \subseteq Held'
  BY <1>3, <1>6, SpecialAssumption DEF Inv, StoreInv
<1>8. files' \in Seq(FileOf(Held')) /\ Len(files) <= Len(files') /\ Len(files') <= MaxFiles
      /\ cache' \in Info \cup {None}
      /\ extras' \in Seq(Parent(Held')) /\ Len(extras') <= MaxExtra
      /\ aborts' \in 0..MaxAborts
  BY <1>3, HeldIsHash DEF Inv, StoreInv, Bounded
<1>9. QED
  BY <1>3, <1>4, <1>5, <1>7, <1>8, CallKeeps

LEMMA RecheckKeeps == ASSUME Inv, NEW p \in Process, Recheck(p) PROVE Inv'
<1> PICK c : c = [proc[p] EXCEPT !.pc = "uncache"]
  OBVIOUS
<1>1. proc[p] \in Closing(Held) /\ proc[p] # NoCall
  BY KnownAt DEF Inv, StoreInv, Recheck, NoCall
<1>2. c \in Closing(Held) /\ c.info = proc[p].info
  BY <1>1 DEF Closing
<1>3. c \in CallOf(Held)
  BY <1>2 DEF CallOf
<1>4. proc[p].hash \in Held /\ cache \in Info \cup {None} /\ taken \subseteq Held
  BY <1>1 DEF Closing, Inv, StoreInv
<1>5. UNCHANGED <<now, user, files, mapping, cache, extras, aborts>>
      /\ proc[p].pc = "recheck"
      /\ ((Becomes(p, c) /\ taken' = taken) \/ Resolved(p, proc[p].hash))
  BY DEF Recheck
<1>6. CASE Becomes(p, c) /\ taken' = taken
  BY <1>1, <1>2, <1>3, <1>4, <1>5, <1>6, QuietStepKeeps
<1>7. CASE Resolved(p, proc[p].hash)
  BY <1>4, <1>5, <1>7, ResolvedKeeps
<1>8. QED
  BY <1>5, <1>6, <1>7

LEMMA RemoveCacheEntryKeeps == ASSUME Inv, NEW p \in Process, RemoveCacheEntry(p) PROVE Inv'
<1> PICK c : c = [proc[p] EXCEPT !.pc = "cache"]
  OBVIOUS
<1>1. proc[p] \in Closing(Held) /\ proc[p] # NoCall
  BY KnownAt DEF Inv, StoreInv, RemoveCacheEntry, NoCall
<1>2. c \in Closing(Held) /\ c.info = proc[p].info
  BY <1>1 DEF Closing
<1>3. c \in CallOf(Held)
  BY <1>2 DEF CallOf
<1>4. proc[p].hash \in Held /\ cache' \in Info \cup {None} /\ taken \subseteq Held
  BY <1>1 DEF Closing, Inv, StoreInv, RemoveCacheEntry
<1>5. UNCHANGED <<now, user, files, mapping, extras, aborts>>
      /\ proc[p].pc = "uncache"
      /\ ((Becomes(p, c) /\ taken' = taken) \/ Resolved(p, proc[p].hash))
  BY DEF RemoveCacheEntry
<1>6. CASE Becomes(p, c) /\ taken' = taken
  BY <1>1, <1>2, <1>3, <1>4, <1>5, <1>6, QuietStepKeeps
<1>7. CASE Resolved(p, proc[p].hash)
  BY <1>4, <1>5, <1>7, ResolvedKeeps
<1>8. QED
  BY <1>5, <1>6, <1>7

LEMMA WriteCacheEntryKeeps == ASSUME Inv, NEW p \in Process, WriteCacheEntry(p) PROVE Inv'
<1>1. proc[p] \in Closing(Held)
  BY KnownAt DEF Inv, StoreInv, WriteCacheEntry
<1>2. proc[p].hash \in Held /\ cache' \in Info \cup {None}
  BY <1>1 DEF Closing, WriteCacheEntry
<1>3. QED
  BY <1>2, ResolvedKeeps DEF WriteCacheEntry

LEMMA AddParentsKeeps == ASSUME Inv, NEW p \in Process, AddParents(p) PROVE Inv'
<1> PICK f : f = [files[proc[p].hash] EXCEPT !.parents = @ \o proc[p].extra]
  OBVIOUS
<1> PICK c : c = [pc |-> "store", info |-> proc[p].info, extra |-> <<>>, start |-> None,
                  file |-> f]
  OBVIOUS
<1>1. proc[p] \in Extending(Held) /\ proc[p] # NoCall
  BY KnownAt DEF Inv, StoreInv, AddParents, NoCall
<1>2. files[proc[p].hash] \in FileOf(Held)
  BY <1>1, FileHeld DEF Extending, Inv
<1>3. files[proc[p].hash].parents \o proc[p].extra \in Seq(Parent(Held))
  BY <1>1, <1>2, ConcatProperties DEF Extending, FileOf
<1>4. f \in FileOf(Held)
  BY <1>2, <1>3 DEF FileOf
<1>5. c \in Storing(Held)
  BY <1>1, <1>4 DEF Extending, Storing
<1>6. c \in CallOf(Held) /\ c.info = proc[p].info
  BY <1>5 DEF CallOf
<1>7. QED
  BY <1>1, <1>6, QuietStepKeeps DEF AddParents, Inv, StoreInv

LEMMA AbortKeeps == ASSUME Inv, NEW p \in Process, Abort(p) PROVE Inv'
<1>1. Held' = Held /\ UNCHANGED <<now, user, files, mapping, cache, extras, taken>>
      /\ Becomes(p, NoCall)
  BY DEF Abort, Held
<1>2. aborts' \in 0..MaxAborts /\ aborts' > 0
  BY BoundsAssumption DEF Abort, Inv, Bounded
<1>3. NoCall \in CallOf(Held')
  BY DEF CallOf
<1>4. QED
  BY <1>1, <1>2, <1>3, CallKeeps, HeldIsHash DEF Inv, StoreInv, Bounded

LEMMA InvKept == Inv /\ [Next]_vars => Inv'
<1> SUFFICES ASSUME Inv, [Next]_vars PROVE Inv'
  OBVIOUS
<1>1. CASE Tick
  BY <1>1, TickKeeps
<1>2. CASE User
  BY <1>2, UserKeeps
<1>3. CASE \E p \in Process : SnapshotCommand(p)
  <2> PICK p \in Process : SnapshotCommand(p)
    BY <1>3
  <2>1. CASE \E extra \in {<<>>} \cup {<<h>> : h \in DOMAIN files \cup Missing} : Open(p, extra)
    <3>1. PICK extra \in {<<>>} \cup {<<h>> : h \in DOMAIN files \cup Missing} : Open(p, extra)
      BY <2>1
    <3>2. CASE extra = <<>>
      <4>1. extra \in Seq(Parent(Held))
        BY <3>2
      <4>2. QED
        BY <3>1, <4>1, OpenKeeps
    <3>3. CASE extra # <<>>
      <4>1. PICK h \in Parent(Held) : extra = <<h>>
        BY <3>1, <3>3, HeldIsHash DEF Inv, Parent
      <4>2. extra \in Seq(Parent(Held))
        BY <4>1
      <4>3. QED
        BY <3>1, <4>2, OpenKeeps
    <3>4. QED
      BY <3>2, <3>3
  <2>2. CASE Lookup(p) \/ ReadCached(p) \/ ReadContents(p) \/ FindPrevious(p)
    BY <2>2, LookupKeeps, ReadCachedKeeps, ReadContentsKeeps, FindPreviousKeeps
  <2>3. CASE StoreFile(p) \/ TruncateMapping(p) \/ WriteMapping(p)
    BY <2>3, StoreFileKeeps, TruncateMappingKeeps, WriteMappingKeeps
  <2>4. CASE Recheck(p) \/ RemoveCacheEntry(p) \/ WriteCacheEntry(p)
    BY <2>4, RecheckKeeps, RemoveCacheEntryKeeps, WriteCacheEntryKeeps
  <2>5. CASE AddParents(p) \/ Abort(p)
    BY <2>5, AddParentsKeeps, AbortKeeps
  <2>6. QED
    BY <2>1, <2>2, <2>3, <2>4, <2>5 DEF SnapshotCommand
<1>4. CASE UNCHANGED vars
  BY <1>4 DEF vars, user, Inv, Bounded, DiskInv, StoreInv, BlankInv, Held
<1>5. QED
  BY <1>1, <1>2, <1>3, <1>4 DEF Next

THEOREM InvAlways == Spec => []Inv
BY InvInitially, InvKept, PTL DEF Spec

\* Every step of every call finds what the steps before it have left: TypeOK.
THEOREM TypeCorrect == Spec => []TypeOK
BY InvAlways, TypeOfInv, PTL

\* Outside of a call a mapping is blank only after an abort.
THEOREM BlankAfterAborts == Spec => []BlankOnlyAfterAbort
<1>1. Inv => BlankOnlyAfterAbort
  BY DEF Inv, BlankInv, BlankOnlyAfterAbort, Quiet, NoCall
<1>2. QED
  BY <1>1, InvAlways, PTL

-----------------------------------------------------------------------------
(***************************************************************************)
(* The cache, with one process, no aborts, and a user who moves no file    *)
(* aside and back.  What makes it sound is that the second in which a file *)
(* was modified is over, for more than a second, when a call that caches   *)
(* it begins.                                                              *)
(***************************************************************************)
Second(t) == t - (t % TicksPerSecond)

\* The file at the path has not been written since it was cached.
Untouched == cache # None /\ path = cache.ino /\ disk[path].mtime = cache.mtime

\* A call writes the mapping twice when it has additional parents.
Started(c) ==
    \/ c.pc \in {"cached", "read", "find", "recheck", "uncache", "cache"}
    \/ c.pc \in {"store", "truncate", "map"} /\ c.start # None
HasRead(c) == Started(c) /\ c.pc \notin {"cached", "read"}
Amending(c) ==
    \/ c.pc = "extra"
    \/ c.pc \in {"store", "truncate", "map"} /\ c.start = None

\* What the call is about to record, or has recorded.
Recorded(c) ==
    CASE c.pc = "find"  -> [contents |-> c.data, mode |-> c.info.mode]
      [] c.pc = "store" -> c.file
      [] OTHER          -> files[c.hash]

CacheIsOld == cache # None => cache.mtime < Second(now) - TicksPerSecond

StartIsLater(p) ==
    Started(proc[p]) =>
        /\ proc[p].start <= Second(now)
        /\ cache # None => cache.mtime < proc[p].start - TicksPerSecond

InfoIsCached(p) ==
    proc[p] # NoCall /\ Untouched =>
        proc[p].info.ino = cache.ino /\ proc[p].info.mtime = cache.mtime

ReadIsRecorded(p) ==
    HasRead(proc[p]) =>
        /\ Recorded(proc[p]).mode = proc[p].info.mode
        /\ LET file == disk[proc[p].info.ino]
           IN  file.mtime = proc[p].info.mtime /\ file.mtime < proc[p].start
                   => Recorded(proc[p]).contents = file.data

AmendedIsCached(p) ==
    Amending(proc[p]) /\ Untouched =>
        /\ Recorded(proc[p]).contents = disk[path].data
        /\ Recorded(proc[p]).mode = cache.mode

ClosingIsMapped(p) ==
    /\ proc[p].pc \in {"recheck", "uncache", "cache"} => mapping = proc[p].hash
    /\ proc[p].pc \in {"uncache", "cache"} =>
          proc[p].info.mtime < proc[p].start - TicksPerSecond

\* The mode may differ until the call has dealt with the cache.
CachedIsMapped(p) ==
    Untouched /\ mapping \in Held =>
        /\ files[mapping].contents = disk[path].data
        /\ \/ files[mapping].mode = cache.mode
           \/ proc[p].pc \in {"recheck", "uncache", "cache"}

CacheInv(p) ==
    /\ CacheIsOld /\ StartIsLater(p) /\ InfoIsCached(p) /\ ReadIsRecorded(p)
    /\ AmendedIsCached(p) /\ ClosingIsMapped(p) /\ CachedIsMapped(p)

LEMMA SecondBounds ==
    ASSUME NEW n \in Nat
    PROVE  Second(n) \in Nat /\ Second(n) <= n
BY TicksAssumption DEF Second

\* The seconds pass as the ticks do.
LEMMA SecondGrows ==
    ASSUME NEW n \in Nat
    PROVE  Second(n) <= Second(n + 1)
<1> PICK t \in Nat \ {0} : t = TicksPerSecond
  BY TicksAssumption
<1> DEFINE q == n \div t
           r == n % t
           u == (n + 1) \div t
           s == (n + 1) % t
<1>1. q \in Int /\ r \in 0..(t - 1) /\ n = t * q + r
  OBVIOUS
<1>2. u \in Int /\ s \in 0..(t - 1) /\ n + 1 = t * u + s
  OBVIOUS
<1>3. Second(n) = n - r /\ Second(n + 1) = (n + 1) - s
  BY DEF Second
<1> HIDE DEF q, r, u, s
<1>4. t * (q - u) = s - (r + 1)
  BY <1>1, <1>2
<1>5. q - u >= 1 => t * (q - u) >= t
  BY <1>1, <1>2
<1>6. q - u <= 0 => t * (q - u) <= 0
  BY <1>1, <1>2
<1>7. s <= r + 1
  BY <1>1, <1>2, <1>4, <1>5, <1>6
<1>8. QED
  BY <1>1, <1>2, <1>3, <1>7

LEMMA CacheInvInitially == ASSUME NEW p \in Process, Init PROVE CacheInv(p)
BY DEF Init, CacheInv, CacheIsOld, StartIsLater, InfoIsCached, ReadIsRecorded, AmendedIsCached,
       ClosingIsMapped, CachedIsMapped, Started, HasRead, Amending, Untouched, NoCall

\* The numbers that are compared are numbers.
LEMMA Times ==
    ASSUME Inv, NEW p \in Process
    PROVE  /\ now \in Nat /\ Second(now) \in Nat /\ Second(now) <= now
           /\ TicksPerSecond \in Nat
           /\ cache # None => cache.mtime \in Nat /\ cache.ino \in Inode /\ cache.ino # None
           /\ path # None => path \in Inode /\ disk[path] \in OnDisk /\ disk[path].mtime \in Nat
           /\ proc[p] # NoCall =>
                 /\ proc[p].info \in Info /\ proc[p].info.mtime \in Nat
                 /\ proc[p].info.ino \in Opened /\ proc[p].info.ino \in Inode
                 /\ disk[proc[p].info.ino] \in OnDisk /\ disk[proc[p].info.ino].mtime \in Nat
           /\ Started(proc[p]) => proc[p] # NoCall /\ proc[p].start \in Nat
<1>1. now \in Nat /\ Second(now) \in Nat /\ Second(now) <= now /\ TicksPerSecond \in Nat
  BY SecondBounds, TicksAssumption, BoundsAssumption DEF Inv, Bounded
<1>2. cache # None => cache.mtime \in Nat /\ cache.ino \in Inode /\ cache.ino # None
  BY SpecialAssumption, BoundsAssumption DEF Inv, StoreInv, Info
<1>3. path # None => path \in Inode /\ disk[path] \in OnDisk /\ disk[path].mtime \in Nat
  BY BoundsAssumption DEF Inv, DiskInv, OnDisk
<1>4. proc[p] # NoCall => proc[p].info \in Info /\ proc[p].info.ino \in Opened
  BY KnownAt DEF Inv, StoreInv, Opened
<1>5. proc[p] # NoCall => proc[p].info.mtime \in Nat /\ proc[p].info.ino \in Inode
  BY <1>4, BoundsAssumption DEF Info
<1>6. proc[p] # NoCall =>
         disk[proc[p].info.ino] \in OnDisk /\ disk[proc[p].info.ino].mtime \in Nat
  BY BoundsAssumption DEF Inv, DiskInv, OnDisk
<1>7. Started(proc[p]) => proc[p] # NoCall /\ proc[p].start \in Nat
  <2>1. proc[p] \in CallOf(Held)
    BY DEF Inv, StoreInv
  <2>2. QED
    BY <2>1, KnownAt DEF Started, NoCall, Reading, Finding, Storing, Mapping, Closing
<1>8. QED
  BY <1>1, <1>2, <1>3, <1>4, <1>5, <1>6, <1>7

LEMMA TickKeepsCache ==
    ASSUME Inv, NEW p \in Process, CacheInv(p), Tick
    PROVE  CacheInv(p)'
<1>1. now' \in Nat /\ Second(now)' \in Nat /\ Second(now) \in Nat /\ Second(now) <= Second(now)'
  BY Times, SecondBounds, SecondGrows DEF Tick
<1>2. CacheIsOld'
  BY <1>1, Times DEF CacheInv, CacheIsOld, Tick
<1>3. StartIsLater(p)'
  BY <1>1, Times DEF CacheInv, StartIsLater, Started, Tick
<1>4. UNCHANGED <<disk, path, files, mapping, cache, proc>>
  BY DEF Tick, user
<1>5. QED
  BY <1>2, <1>3, <1>4
     DEF CacheInv, InfoIsCached, ReadIsRecorded, AmendedIsCached, ClosingIsMapped, CachedIsMapped,
         Untouched, HasRead, Started, Amending, Recorded, Held

\* Who writes a file gives it a modification time that is not before now.
LEMMA UserTouches ==
    ASSUME Inv, NEW p \in Process, CacheIsOld, User, Renames = FALSE
    PROVE  /\ UNCHANGED <<now, files, mapping, cache, proc, Held>>
           /\ Untouched' => Untouched /\ path' = path /\ disk'[path].data = disk[path].data
           /\ \A i \in Inode :
                 i \in Opened /\ disk[i] \in OnDisk /\ disk'[i].mtime < Second(now) =>
                     disk'[i].mtime = disk[i].mtime /\ disk'[i].data = disk[i].data
<1>1. UNCHANGED <<now, files, mapping, cache, proc, Held>>
  BY DEF User, UserStep, Edit, Chmod, Create, Delete, MoveAside, MoveBack, Held
<1>2. disk \in [Inode -> OnDisk \cup {None}] /\ path \in Inode \cup {None}
  BY DEF Inv, DiskInv
<1>3. cache # None => cache.mtime \in Nat /\ cache.mtime < now
  BY Times DEF CacheIsOld
<1>4. CASE \E d \in Data : Edit(d)
  <2> PICK d \in Data : Edit(d)
    BY <1>4
  <2>1. path' = path /\ path \in Inode /\ disk'[path].mtime = now
        /\ \A i \in Inode \ {path} : disk'[i] = disk[i]
    BY <1>2 DEF Edit
  <2>2. ~Untouched'
    BY <1>1, <1>3, <2>1, Times DEF Untouched
  <2>3. QED
    BY <1>1, <2>1, <2>2, Times
<1>5. CASE \E d \in Data, m \in Mode, i \in Inode : Create(d, m, i)
  <2> PICK d \in Data, m \in Mode, i \in Inode : Create(d, m, i)
    BY <1>5
  <2>1. path' = i /\ disk'[i].mtime = now /\ i \notin Opened
        /\ \A j \in Inode \ {i} : disk'[j] = disk[j]
    BY <1>2 DEF Create, Free
  <2>2. ~Untouched'
    BY <1>1, <1>3, <2>1, Times DEF Untouched
  <2>3. QED
    BY <1>1, <2>1, <2>2, Times
<1>6. CASE \E m \in Mode : Chmod(m)
  <2>1. path' = path /\ path \in Inode /\ disk[path] \in OnDisk
        /\ disk'[path].mtime = disk[path].mtime /\ disk'[path].data = disk[path].data
        /\ \A i \in Inode \ {path} : disk'[i] = disk[i]
    BY <1>2, <1>6, Times DEF Chmod, OnDisk
  <2>2. QED
    BY <1>1, <2>1 DEF Untouched
<1>7. CASE Delete
  BY <1>1, <1>7, Times DEF Delete, Untouched
<1>8. QED
  BY <1>4, <1>5, <1>6, <1>7 DEF User, MoveAside, MoveBack

LEMMA UserKeepsCache ==
    ASSUME Inv, NEW p \in Process, CacheInv(p), User, Renames = FALSE
    PROVE  CacheInv(p)'
<1>1. UNCHANGED <<now, files, mapping, cache, proc, Held>>
      /\ (Untouched' => Untouched /\ path' = path /\ disk'[path].data = disk[path].data)
  BY UserTouches DEF CacheInv
<1>2. Second(now)' = Second(now) /\ Recorded(proc[p])' = Recorded(proc[p])
      /\ proc'[p] = proc[p]
  BY <1>1 DEF Second, Recorded
<1>3. CacheIsOld' /\ StartIsLater(p)' /\ InfoIsCached(p)' /\ ClosingIsMapped(p)'
  BY <1>1, <1>2 DEF CacheInv, CacheIsOld, StartIsLater, InfoIsCached, ClosingIsMapped
<1>4. AmendedIsCached(p)' /\ CachedIsMapped(p)'
  BY <1>1, <1>2 DEF CacheInv, AmendedIsCached, CachedIsMapped
<1>5. ReadIsRecorded(p)'
  <2> SUFFICES ASSUME HasRead(proc[p]) PROVE ReadIsRecorded(p)'
    BY <1>1 DEF ReadIsRecorded
  <2> PICK i : i = proc[p].info.ino
    OBVIOUS
  <2>1. Started(proc[p]) /\ proc[p].start <= Second(now) /\ proc[p].start \in Nat
        /\ i \in Inode /\ i \in Opened /\ disk[i] \in OnDisk /\ Second(now) \in Nat
        /\ proc[p].info.mtime \in Nat
    BY Times DEF CacheInv, StartIsLater, HasRead
  <2>2. disk'[i].mtime < Second(now) =>
           disk'[i].mtime = disk[i].mtime /\ disk'[i].data = disk[i].data
    BY <2>1, UserTouches DEF CacheInv
  <2>3. Recorded(proc[p]).mode = proc[p].info.mode
        /\ (disk[i].mtime = proc[p].info.mtime /\ disk[i].mtime < proc[p].start
               => Recorded(proc[p]).contents = disk[i].data)
    BY DEF CacheInv, ReadIsRecorded
  <2>4. disk'[i].mtime = proc[p].info.mtime /\ disk'[i].mtime < proc[p].start
           => Recorded(proc[p]).contents = disk'[i].data
    BY <2>1, <2>2, <2>3
  <2>5. QED
    BY <1>1, <1>2, <2>3, <2>4 DEF ReadIsRecorded
<1>6. QED
  BY <1>3, <1>4, <1>5 DEF CacheInv

LEMMA ProcBecomes ==
    ASSUME Inv, NEW p \in Process, NEW c, Becomes(p, c)
    PROVE  proc'[p] = c
BY DEF Becomes, Inv, StoreInv

\* A step between two steps of a call that leaves the cache alone.
LEMMA CallKeepsCache ==
    ASSUME Inv, NEW p \in Process, CacheInv(p), NEW c, Becomes(p, c),
           proc[p] # NoCall, c.info = proc[p].info,
           UNCHANGED <<now, disk, path, cache>>,
           Started(c) => Started(proc[p]) /\ c.start = proc[p].start,
           HasRead(c) => /\ HasRead(proc[p])
                         /\ Recorded(c)'.contents = Recorded(proc[p]).contents
                         /\ Recorded(c)'.mode = Recorded(proc[p]).mode,
           AmendedIsCached(p)', ClosingIsMapped(p)', CachedIsMapped(p)'
    PROVE  CacheInv(p)'
<1>1. proc'[p] = c
  BY ProcBecomes
<1>2. CacheIsOld' /\ StartIsLater(p)'
  BY <1>1 DEF CacheInv, CacheIsOld, StartIsLater, Second
<1>3. InfoIsCached(p)'
  BY <1>1 DEF CacheInv, InfoIsCached, Untouched
<1>4. ReadIsRecorded(p)'
  <2> SUFFICES ASSUME HasRead(c) PROVE ReadIsRecorded(p)'
    BY <1>1 DEF ReadIsRecorded
  <2>1. Recorded(proc[p])' = Recorded(c)'
    BY <1>1 DEF Recorded
  <2>2. c.start = proc[p].start
    BY DEF HasRead
  <2>3. QED
    BY <1>1, <2>1, <2>2 DEF CacheInv, ReadIsRecorded
<1>5. QED
  BY <1>2, <1>3, <1>4 DEF CacheInv

LEMMA OpenKeepsCache ==
    ASSUME Inv, NEW p \in Process, CacheInv(p), NEW extra, Open(p, extra)
    PROVE  CacheInv(p)'
<1> PICK c : c = [pc |-> "lookup", info |-> StatOf(path), extra |-> extra]
  OBVIOUS
<1>1. proc'[p] = c /\ UNCHANGED <<now, disk, path, files, mapping, cache, Held>>
      /\ proc[p].pc = "idle"
  BY ProcBecomes DEF Open, user, Held, NoCall
<1>2. c.pc = "lookup" /\ c.info.ino = path /\ c.info.mtime = disk[path].mtime
  BY DEF StatOf
<1>3. CacheIsOld' /\ InfoIsCached(p)' /\ CachedIsMapped(p)'
  BY <1>1, <1>2 DEF CacheInv, CacheIsOld, InfoIsCached, CachedIsMapped, Untouched, Second
<1>4. QED
  BY <1>1, <1>2, <1>3 DEF CacheInv, StartIsLater, ReadIsRecorded, AmendedIsCached, ClosingIsMapped,
                          Started, HasRead, Amending

LEMMA LookupKeepsCache ==
    ASSUME Inv, NEW p \in Process, CacheInv(p), Lookup(p)
    PROVE  CacheInv(p)'
<1> PICK c : c = [pc    |-> IF cache = proc[p].info THEN "cached" ELSE "read",
                  info  |-> proc[p].info, extra |-> proc[p].extra,
                  start |-> now - (now % TicksPerSecond)]
  OBVIOUS
<1>1. proc'[p] = c /\ UNCHANGED <<now, disk, path, files, mapping, cache, Held>>
      /\ proc[p].pc = "lookup"
  BY ProcBecomes DEF Lookup, user, Held
<1>2. c.pc \in {"cached", "read"} /\ c.info = proc[p].info /\ c.start = Second(now)
      /\ Second(now)' = Second(now)
  BY <1>1 DEF Second
<1>3. CacheIsOld' /\ StartIsLater(p)'
  BY <1>1, <1>2, Times DEF CacheInv, CacheIsOld, StartIsLater
<1>4. InfoIsCached(p)' /\ CachedIsMapped(p)'
  BY <1>1, <1>2 DEF CacheInv, InfoIsCached, CachedIsMapped, Untouched, NoCall
<1>5. QED
  BY <1>1, <1>2, <1>3, <1>4 DEF CacheInv, ReadIsRecorded, AmendedIsCached, ClosingIsMapped,
                                HasRead, Amending

\* When Current is over the mapping is the snapshot, and the cache agrees.
LEMMA ResolvedKeepsCache ==
    ASSUME Inv, NEW p \in Process, NEW h \in Held, Resolved(p, h), h = mapping,
           UNCHANGED <<now, disk, path, files, mapping>>,
           cache' # None => cache'.mtime < Second(now) - TicksPerSecond,
           Untouched' =>
               /\ proc[p].info.ino = cache'.ino /\ proc[p].info.mtime = cache'.mtime
               /\ files[h].contents = disk[path].data /\ files[h].mode = cache'.mode
    PROVE  CacheInv(p)'
<1>1. CacheIsOld'
  BY DEF CacheIsOld, Second
<1>2. CachedIsMapped(p)'
  BY DEF CachedIsMapped
<1>3. CASE Becomes(p, NoCall)
  <2>1. proc'[p] = NoCall
    BY <1>3, ProcBecomes
  <2>2. QED
    BY <1>1, <1>2, <2>1 DEF CacheInv, StartIsLater, InfoIsCached, ReadIsRecorded, AmendedIsCached,
                            ClosingIsMapped, Started, HasRead, Amending, NoCall
<1>4. CASE ~Becomes(p, NoCall)
  <2> PICK c : c = [pc |-> "extra", info |-> proc[p].info, extra |-> proc[p].extra, hash |-> h]
    OBVIOUS
  <2>1. proc'[p] = c
    BY <1>4, ProcBecomes DEF Resolved
  <2>2. c.pc = "extra" /\ c.info = proc[p].info /\ c.hash = h
    OBVIOUS
  <2>3. InfoIsCached(p)'
    BY <2>1, <2>2 DEF InfoIsCached
  <2>4. AmendedIsCached(p)'
    BY <2>1, <2>2 DEF AmendedIsCached, Recorded
  <2>5. QED
    BY <1>1, <1>2, <2>1, <2>2, <2>3, <2>4
       DEF CacheInv, StartIsLater, ReadIsRecorded, ClosingIsMapped, Started, HasRead
<1>5. QED
  BY <1>3, <1>4

LEMMA ReadCachedKeepsCache ==
    ASSUME Inv, NEW p \in Process, CacheInv(p), ReadCached(p)
    PROVE  CacheInv(p)'
<1>1. UNCHANGED <<now, disk, path, files, mapping, cache, Held>> /\ proc[p].pc = "cached"
      /\ proc[p] # NoCall /\ proc[p] \in Reading(Held)
  BY KnownAt DEF ReadCached, user, Held, NoCall, Inv, StoreInv
<1>2. CASE mapping \in {None, Blank}
  <2> PICK c : c = [proc[p] EXCEPT !.pc = "read"]
    OBVIOUS
  <2>1. Becomes(p, c)
    BY <1>2 DEF ReadCached
  <2>2. c.pc = "read" /\ c.info = proc[p].info /\ c.start = proc[p].start
    BY <1>1 DEF Reading
  <2>3. AmendedIsCached(p)' /\ ClosingIsMapped(p)' /\ CachedIsMapped(p)'
    BY <1>1, <2>1, <2>2, ProcBecomes
       DEF CacheInv, AmendedIsCached, ClosingIsMapped, CachedIsMapped, Amending, Untouched
  <2>4. QED
    BY <1>1, <2>1, <2>2, <2>3, CallKeepsCache DEF Started, HasRead
<1>3. CASE mapping \notin {None, Blank}
  <2>1. mapping \in Held /\ Resolved(p, mapping)
    BY <1>3 DEF ReadCached, Inv, StoreInv
  <2>2. Untouched' => Untouched
    BY <1>1 DEF Untouched
  <2>3. QED
    BY <1>1, <2>1, <2>2, ResolvedKeepsCache DEF CacheInv, CacheIsOld, InfoIsCached, CachedIsMapped
<1>4. QED
  BY <1>2, <1>3

LEMMA ReadContentsKeepsCache ==
    ASSUME Inv, NEW p \in Process, CacheInv(p), ReadContents(p)
    PROVE  CacheInv(p)'
<1> PICK c : c = [pc    |-> "find", info  |-> proc[p].info, extra |-> proc[p].extra,
                  start |-> proc[p].start, data  |-> disk[proc[p].info.ino].data]
  OBVIOUS
<1>1. proc'[p] = c /\ UNCHANGED <<now, disk, path, files, mapping, cache, Held>>
      /\ proc[p].pc = "read" /\ proc[p] # NoCall
  BY ProcBecomes DEF ReadContents, user, Held, NoCall
<1>2. c.pc = "find" /\ c.info = proc[p].info /\ c.start = proc[p].start
      /\ c.data = disk[proc[p].info.ino].data
  OBVIOUS
<1>3. CacheIsOld' /\ StartIsLater(p)' /\ InfoIsCached(p)' /\ CachedIsMapped(p)'
  BY <1>1, <1>2 DEF CacheInv, CacheIsOld, StartIsLater, InfoIsCached, CachedIsMapped, Started,
                    Untouched, Second
<1>4. ReadIsRecorded(p)'
  BY <1>1, <1>2 DEF ReadIsRecorded, Recorded
<1>5. QED
  BY <1>1, <1>2, <1>3, <1>4 DEF CacheInv, AmendedIsCached, ClosingIsMapped, Amending

\* A call that ends without a snapshot.
LEMMA EndKeepsCache ==
    ASSUME Inv, NEW p \in Process, CacheInv(p), Becomes(p, NoCall),
           proc[p].pc \notin {"recheck", "uncache", "cache"},
           UNCHANGED <<now, disk, path, files, mapping, cache>>
    PROVE  CacheInv(p)'
<1>1. proc'[p] = NoCall /\ Held' = Held
  BY ProcBecomes DEF Held
<1>2. CacheIsOld' /\ CachedIsMapped(p)'
  BY <1>1 DEF CacheInv, CacheIsOld, CachedIsMapped, Untouched, Second
<1>3. QED
  BY <1>1, <1>2 DEF CacheInv, StartIsLater, InfoIsCached, ReadIsRecorded, AmendedIsCached,
                    ClosingIsMapped, Started, HasRead, Amending, NoCall

LEMMA FindPreviousKeepsCache ==
    ASSUME Inv, NEW p \in Process, CacheInv(p), FindPrevious(p)
    PROVE  CacheInv(p)'
<1> PICK f : f = [contents |-> proc[p].data, mode |-> proc[p].info.mode,
                  parents |-> IF mapping = None THEN <<>> ELSE <<mapping>>]
  OBVIOUS
<1> PICK same : same = [pc |-> "recheck", info |-> proc[p].info, extra |-> proc[p].extra,
                        start |-> proc[p].start, hash |-> mapping]
  OBVIOUS
<1> PICK new : new = [pc |-> "store", info |-> proc[p].info, extra |-> proc[p].extra,
                      start |-> proc[p].start, file |-> f]
  OBVIOUS
<1>1. UNCHANGED <<now, disk, path, files, mapping, cache, Held>> /\ proc[p].pc = "find"
      /\ proc[p] # NoCall /\ proc[p].start \in Nat /\ Started(proc[p]) /\ HasRead(proc[p])
      /\ ~Amending(proc[p])
  BY Times DEF FindPrevious, user, Held, NoCall, Started, HasRead, Amending
<1>2. Recorded(proc[p]).contents = proc[p].data /\ Recorded(proc[p]).mode = proc[p].info.mode
  BY <1>1 DEF Recorded
<1>3. CASE mapping = Blank
  BY <1>1, <1>3, EndKeepsCache DEF FindPrevious
<1>4. CASE mapping \notin {None, Blank} /\ files[mapping].mode = proc[p].info.mode
           /\ files[mapping].contents = proc[p].data
  <2>1. proc'[p] = same /\ Becomes(p, same)
    BY <1>4, ProcBecomes DEF FindPrevious
  <2>2. same.pc = "recheck" /\ same.info = proc[p].info /\ same.start = proc[p].start
        /\ same.hash = mapping
    OBVIOUS
  <2>3. Recorded(same)' = files[mapping]
    BY <1>1, <2>2 DEF Recorded
  <2>4. AmendedIsCached(p)' /\ ClosingIsMapped(p)' /\ CachedIsMapped(p)'
    BY <1>1, <2>1, <2>2
       DEF CacheInv, AmendedIsCached, ClosingIsMapped, CachedIsMapped, Amending, Untouched
  <2>5. QED
    BY <1>1, <1>2, <1>4, <2>1, <2>2, <2>3, <2>4, CallKeepsCache
<1>5. CASE mapping # Blank
           /\ ~(mapping # None /\ files[mapping].mode = proc[p].info.mode
                               /\ files[mapping].contents = proc[p].data)
  <2>1. proc'[p] = new /\ Becomes(p, new)
    BY <1>5, ProcBecomes DEF FindPrevious
  <2>2. new.pc = "store" /\ new.info = proc[p].info /\ new.start = proc[p].start
        /\ new.file = f /\ f.contents = proc[p].data /\ f.mode = proc[p].info.mode
    OBVIOUS
  <2>3. Recorded(new)' = f
    BY <2>2 DEF Recorded
  <2>4. new.start # None
    BY <1>1, <2>2, SpecialAssumption
  <2>5. AmendedIsCached(p)' /\ ClosingIsMapped(p)' /\ CachedIsMapped(p)'
    BY <1>1, <2>1, <2>2, <2>4
       DEF CacheInv, AmendedIsCached, ClosingIsMapped, CachedIsMapped, Amending, Untouched
  <2>6. QED
    BY <1>1, <1>2, <2>1, <2>2, <2>3, <2>5, CallKeepsCache
<1>6. QED
  BY <1>3, <1>4, <1>5

LEMMA StoreFileKeepsCache ==
    ASSUME Inv, NEW p \in Process, CacheInv(p), StoreFile(p)
    PROVE  CacheInv(p)'
<1>1. PICK h \in Held' :
         /\ files'[h] = proc[p].file /\ Held \subseteq Held'
         /\ \A k \in Held : files'[k] = files[k]
         /\ Becomes(p, [pc |-> "truncate", info |-> proc[p].info, extra |-> proc[p].extra,
                        start |-> proc[p].start, hash |-> h])
  BY FileStored
<1> PICK c : c = [pc |-> "truncate", info |-> proc[p].info, extra |-> proc[p].extra,
                  start |-> proc[p].start, hash |-> h]
  OBVIOUS
<1>2. UNCHANGED <<now, disk, path, mapping, cache>> /\ proc[p].pc = "store" /\ proc[p] # NoCall
      /\ proc'[p] = c
  BY <1>1, ProcBecomes DEF StoreFile, user, NoCall
<1>3. c.pc = "truncate" /\ c.info = proc[p].info /\ c.start = proc[p].start /\ c.hash = h
  OBVIOUS
<1>4. Recorded(c)' = Recorded(proc[p])
  BY <1>1, <1>2, <1>3 DEF Recorded
<1>5. Recorded(proc[p])' = Recorded(c)' /\ Untouched' = Untouched
  BY <1>2 DEF Recorded, Untouched
<1>6. AmendedIsCached(p)'
  BY <1>2, <1>3, <1>4, <1>5 DEF CacheInv, AmendedIsCached, Amending
<1>7. mapping \in Held' => mapping \in Held /\ files'[mapping] = files[mapping]
  <2>1. \A k \in Held' : k \in Nat
    BY LenProperties, <1>1 DEF Held
  <2>2. QED
    BY <1>1, <2>1, SpecialAssumption DEF Inv, StoreInv
<1>8. ClosingIsMapped(p)' /\ CachedIsMapped(p)'
  BY <1>2, <1>3, <1>5, <1>7 DEF CacheInv, ClosingIsMapped, CachedIsMapped
<1>9. QED
  BY <1>1, <1>2, <1>3, <1>4, <1>6, <1>8, CallKeepsCache DEF Started, HasRead

LEMMA TruncateMappingKeepsCache ==
    ASSUME Inv, NEW p \in Process, CacheInv(p), TruncateMapping(p)
    PROVE  CacheInv(p)'
<1> PICK c : c = [proc[p] EXCEPT !.pc = "map"]
  OBVIOUS
<1>1. UNCHANGED <<now, disk, path, files, cache, Held>> /\ proc[p].pc = "truncate"
      /\ proc[p] # NoCall /\ proc'[p] = c /\ Becomes(p, c) /\ mapping' = Blank
  BY ProcBecomes DEF TruncateMapping, user, Held, NoCall
<1>2. proc[p] \in Mapping(Held)
  BY <1>1, KnownAt DEF Inv, StoreInv
<1>3. c.pc = "map" /\ c.info = proc[p].info /\ c.start = proc[p].start /\ c.hash = proc[p].hash
  BY <1>2 DEF Mapping
<1>4. Recorded(c)' = Recorded(proc[p])
  BY <1>1, <1>3 DEF Recorded
<1>5. Recorded(proc[p])' = Recorded(c)' /\ Untouched' = Untouched
  BY <1>1 DEF Recorded, Untouched
<1>6. AmendedIsCached(p)'
  BY <1>1, <1>3, <1>4, <1>5 DEF CacheInv, AmendedIsCached, Amending
<1>7. ClosingIsMapped(p)' /\ CachedIsMapped(p)'
  BY <1>1, <1>3, SpecialAssumption, HeldIsHash
     DEF CacheInv, ClosingIsMapped, CachedIsMapped, Inv, Hash
<1>8. QED
  BY <1>1, <1>3, <1>4, <1>6, <1>7, CallKeepsCache DEF Started, HasRead

\* The file is unchanged since it was read when the cache still knows it.
LEMMA ReadIsCached ==
    ASSUME Inv, NEW p \in Process, CacheInv(p), HasRead(proc[p]), Untouched
    PROVE  Recorded(proc[p]).contents = disk[path].data
<1>1. Started(proc[p]) /\ proc[p] # NoCall /\ proc[p].info.ino = path
      /\ disk[path].mtime = proc[p].info.mtime /\ disk[path].mtime = cache.mtime
  BY Times DEF CacheInv, InfoIsCached, HasRead, Untouched
<1>2. disk[path].mtime < proc[p].start
  BY <1>1, Times DEF CacheInv, StartIsLater, Untouched
<1>3. QED
  BY <1>1, <1>2 DEF CacheInv, ReadIsRecorded

LEMMA WriteMappingKeepsCache ==
    ASSUME Inv, NEW p \in Process, CacheInv(p), WriteMapping(p)
    PROVE  CacheInv(p)'
<1>1. UNCHANGED <<now, disk, path, files, cache, Held>> /\ proc[p].pc = "map"
      /\ proc[p] # NoCall /\ mapping' = proc[p].hash
  BY DEF WriteMapping, user, Held, NoCall
<1>2. proc[p] \in Mapping(Held) /\ Recorded(proc[p]) = files[proc[p].hash]
      /\ Untouched' = Untouched
  BY <1>1, KnownAt DEF Inv, StoreInv, Recorded, Untouched
<1>3. CASE proc[p].start = None
  <2>1. proc'[p] = NoCall
    BY <1>3, ProcBecomes DEF WriteMapping
  <2>2. CacheIsOld' /\ CachedIsMapped(p)'
    BY <1>1, <1>2, <1>3
       DEF CacheInv, CacheIsOld, AmendedIsCached, CachedIsMapped, Amending, Second
  <2>3. QED
    BY <2>1, <2>2 DEF CacheInv, StartIsLater, InfoIsCached, ReadIsRecorded, AmendedIsCached,
                      ClosingIsMapped, Started, HasRead, Amending, NoCall
<1>4. CASE proc[p].start # None
  <2> PICK c : c = [proc[p] EXCEPT !.pc = "recheck"]
    OBVIOUS
  <2>1. Becomes(p, c) /\ proc'[p] = c
    BY <1>4, ProcBecomes DEF WriteMapping
  <2>2. c.pc = "recheck" /\ c.info = proc[p].info /\ c.start = proc[p].start
        /\ c.hash = proc[p].hash
    BY <1>2 DEF Mapping
  <2>3. Recorded(c)' = Recorded(proc[p]) /\ HasRead(proc[p]) /\ Started(proc[p])
    BY <1>1, <1>2, <1>4, <2>2 DEF Recorded, HasRead, Started
  <2>4. CachedIsMapped(p)'
    BY <1>1, <1>2, <2>1, <2>2, <2>3, ReadIsCached DEF CachedIsMapped
  <2>5. AmendedIsCached(p)' /\ ClosingIsMapped(p)'
    BY <1>1, <2>1, <2>2 DEF AmendedIsCached, ClosingIsMapped, Amending
  <2>6. QED
    BY <1>1, <2>1, <2>2, <2>3, <2>4, <2>5, CallKeepsCache
<1>5. QED
  BY <1>3, <1>4

\* The deferred function, up to the cache.
LEMMA ClosingKnows ==
    ASSUME Inv, NEW p \in Process, CacheInv(p), proc[p].pc \in {"recheck", "uncache", "cache"}
    PROVE  /\ proc[p] \in Closing(Held) /\ proc[p] # NoCall
           /\ Started(proc[p]) /\ HasRead(proc[p]) /\ ~Amending(proc[p])
           /\ proc[p].hash \in Held /\ mapping = proc[p].hash
           /\ Recorded(proc[p]) = files[mapping]
           /\ files[mapping].mode = proc[p].info.mode
<1>1. proc[p] \in Closing(Held) /\ proc[p] # NoCall
  BY KnownAt DEF Inv, StoreInv, NoCall
<1>2. Started(proc[p]) /\ HasRead(proc[p]) /\ ~Amending(proc[p])
  BY DEF Started, HasRead, Amending
<1>3. proc[p].hash \in Held /\ mapping = proc[p].hash
  BY <1>1 DEF Closing, CacheInv, ClosingIsMapped
<1>4. Recorded(proc[p]) = files[mapping]
  BY <1>3 DEF Recorded
<1>5. QED
  BY <1>1, <1>2, <1>3, <1>4 DEF CacheInv, ReadIsRecorded

\* One step further.
LEMMA ClosingKeepsCache ==
    ASSUME Inv, NEW p \in Process, CacheInv(p), proc[p].pc \in {"recheck", "uncache", "cache"},
           NEW c, Becomes(p, c), c.pc \in {"uncache", "cache"},
           c.info = proc[p].info, c.start = proc[p].start, c.hash = proc[p].hash,
           proc[p].info.mtime < proc[p].start - TicksPerSecond,
           UNCHANGED <<now, disk, path, files, mapping>>,
           cache' = cache \/ cache' = None
    PROVE  CacheInv(p)'
<1>1. proc'[p] = c /\ Held' = Held /\ (Untouched' => Untouched /\ cache' = cache)
  BY ProcBecomes DEF Untouched, Held
<1>2. Recorded(proc[p])' = files[mapping] /\ ~Amending(c)
  BY <1>1, ClosingKnows DEF Recorded, Amending
<1>3. CacheIsOld' /\ StartIsLater(p)'
  BY <1>1, ClosingKnows DEF CacheInv, CacheIsOld, StartIsLater, Second
<1>4. InfoIsCached(p)' /\ AmendedIsCached(p)' /\ ClosingIsMapped(p)'
  BY <1>1, <1>2, ClosingKnows DEF CacheInv, InfoIsCached, AmendedIsCached, ClosingIsMapped
<1>5. ReadIsRecorded(p)'
  BY <1>1, <1>2, ClosingKnows DEF CacheInv, ReadIsRecorded
<1>6. CachedIsMapped(p)'
  BY <1>1 DEF CacheInv, CachedIsMapped
<1>7. QED
  BY <1>3, <1>4, <1>5, <1>6 DEF CacheInv

LEMMA RecheckKeepsCache ==
    ASSUME Inv, NEW p \in Process, CacheInv(p), Recheck(p)
    PROVE  CacheInv(p)'
<1>1. UNCHANGED <<now, disk, path, files, mapping, cache>> /\ proc[p].pc = "recheck"
  BY DEF Recheck, user
<1>2. CASE /\ path # None
           /\ disk[path].mtime = proc[p].info.mtime
           /\ disk[path].mtime < proc[p].start - TicksPerSecond
  <2> PICK c : c = [proc[p] EXCEPT !.pc = "uncache"]
    OBVIOUS
  <2>1. Becomes(p, c)
    BY <1>2 DEF Recheck
  <2>2. c.pc = "uncache" /\ c.info = proc[p].info /\ c.start = proc[p].start
        /\ c.hash = proc[p].hash
    BY <1>1, ClosingKnows DEF Closing
  <2>3. QED
    BY <1>1, <1>2, <2>1, <2>2, ClosingKeepsCache
<1>3. CASE ~(/\ path # None
             /\ disk[path].mtime = proc[p].info.mtime
             /\ disk[path].mtime < proc[p].start - TicksPerSecond)
  <2>1. Resolved(p, proc[p].hash)
    BY <1>3 DEF Recheck
  <2>2. ~Untouched
    BY <1>1, <1>3, ClosingKnows, Times DEF CacheInv, InfoIsCached, StartIsLater, Untouched
  <2>3. ~Untouched'
    BY <1>1, <2>2 DEF Untouched
  <2>4. QED
    BY <1>1, <2>1, <2>3, ClosingKnows, ResolvedKeepsCache DEF CacheInv, CacheIsOld
<1>4. QED
  BY <1>2, <1>3

LEMMA RemoveCacheEntryKeepsCache ==
    ASSUME Inv, NEW p \in Process, CacheInv(p), RemoveCacheEntry(p)
    PROVE  CacheInv(p)'
<1>1. UNCHANGED <<now, disk, path, files, mapping>> /\ proc[p].pc = "uncache" /\ cache' = None
  BY DEF RemoveCacheEntry, user
<1>2. CASE cache = None
  <2> PICK c : c = [proc[p] EXCEPT !.pc = "cache"]
    OBVIOUS
  <2>1. Becomes(p, c)
    BY <1>2 DEF RemoveCacheEntry
  <2>2. c.pc = "cache" /\ c.info = proc[p].info /\ c.start = proc[p].start
        /\ c.hash = proc[p].hash
    BY <1>1, ClosingKnows DEF Closing
  <2>3. QED
    BY <1>1, <2>1, <2>2, ClosingKeepsCache DEF CacheInv, ClosingIsMapped
<1>3. CASE cache # None
  <2>1. Resolved(p, proc[p].hash)
    BY <1>3 DEF RemoveCacheEntry
  <2>2. ~Untouched'
    BY <1>1 DEF Untouched
  <2>3. QED
    BY <1>1, <2>1, <2>2, ClosingKnows, ResolvedKeepsCache
<1>4. QED
  BY <1>2, <1>3

LEMMA WriteCacheEntryKeepsCache ==
    ASSUME Inv, NEW p \in Process, CacheInv(p), WriteCacheEntry(p)
    PROVE  CacheInv(p)'
<1>1. UNCHANGED <<now, disk, path, files, mapping>> /\ proc[p].pc = "cache"
      /\ cache' = proc[p].info /\ Resolved(p, proc[p].hash)
  BY DEF WriteCacheEntry, user
<1>2. proc[p].info.mtime < proc[p].start - TicksPerSecond /\ proc[p].start <= Second(now)
  BY <1>1, ClosingKnows DEF CacheInv, ClosingIsMapped, StartIsLater
<1>3. proc[p].info.mtime < Second(now) - TicksPerSecond /\ proc[p].info.mtime < proc[p].start
  BY <1>1, <1>2, ClosingKnows, Times
<1>4. ASSUME Untouched' PROVE files[mapping].contents = disk[path].data
  <2>1. path = proc[p].info.ino /\ disk[path].mtime = proc[p].info.mtime
    BY <1>1, <1>4 DEF Untouched
  <2>2. QED
    BY <1>1, <1>3, <2>1, ClosingKnows DEF CacheInv, ReadIsRecorded
<1>5. QED
  BY <1>1, <1>3, <1>4, ClosingKnows, ResolvedKeepsCache

LEMMA AddParentsKeepsCache ==
    ASSUME Inv, NEW p \in Process, CacheInv(p), AddParents(p)
    PROVE  CacheInv(p)'
<1> PICK f : f = [files[proc[p].hash] EXCEPT !.parents = @ \o proc[p].extra]
  OBVIOUS
<1> PICK c : c = [pc |-> "store", info |-> proc[p].info, extra |-> <<>>, start |-> None,
                  file |-> f]
  OBVIOUS
<1>1. UNCHANGED <<now, disk, path, files, mapping, cache, Held>> /\ proc[p].pc = "extra"
      /\ proc[p] # NoCall /\ proc'[p] = c /\ Becomes(p, c)
  <2>1. Becomes(p, c)
    BY DEF AddParents
  <2>2. UNCHANGED <<now, disk, path, files, mapping, cache>> /\ proc[p].pc = "extra"
    BY DEF AddParents, user
  <2>3. proc'[p] = c
    BY <2>1, ProcBecomes
  <2>4. Held' = Held
    BY <2>2 DEF Held
  <2>5. proc[p] # NoCall
    BY <2>2 DEF NoCall
  <2>6. QED
    BY <2>1, <2>2, <2>3, <2>4, <2>5
<1>2. c.pc = "store" /\ c.info = proc[p].info /\ c.start = None /\ c.file = f
  OBVIOUS
<1>3. f.contents = files[proc[p].hash].contents /\ f.mode = files[proc[p].hash].mode
  <2>1. proc[p].hash \in Held
    BY <1>1, KnownAt DEF Inv, StoreInv, Extending
  <2>2. files[proc[p].hash] \in FileOf(Held)
    BY <2>1, FileHeld DEF Inv
  <2>3. QED
    BY <2>2 DEF FileOf
<1>4. Recorded(proc[p])' = f /\ Recorded(proc[p]) = files[proc[p].hash]
      /\ Amending(proc[p]) /\ Untouched' = Untouched /\ ~Started(c) /\ ~HasRead(c)
  BY <1>1, <1>2 DEF Recorded, Amending, Untouched, Started, HasRead
<1>5. AmendedIsCached(p)'
  BY <1>1, <1>3, <1>4 DEF CacheInv, AmendedIsCached
<1>6. ClosingIsMapped(p)' /\ CachedIsMapped(p)'
  BY <1>1, <1>2, <1>4 DEF CacheInv, ClosingIsMapped, CachedIsMapped
<1>7. QED
  BY <1>1, <1>2, <1>4, <1>5, <1>6, CallKeepsCache

LEMMA CacheInvKept ==
    ASSUME NEW p, Process = {p}, MaxAborts = 0, Renames = FALSE,
           Inv, CacheInv(p), [Next]_vars
    PROVE  CacheInv(p)'
<1>1. CASE Tick
  BY <1>1, TickKeepsCache
<1>2. CASE User
  BY <1>2, UserKeepsCache
<1>3. CASE SnapshotCommand(p)
  <2>1. CASE \E extra \in {<<>>} \cup {<<h>> : h \in DOMAIN files \cup Missing} : Open(p, extra)
    BY <2>1, OpenKeepsCache
  <2>2. CASE Lookup(p) \/ ReadCached(p) \/ ReadContents(p) \/ FindPrevious(p)
    BY <2>2, LookupKeepsCache, ReadCachedKeepsCache, ReadContentsKeepsCache,
       FindPreviousKeepsCache
  <2>3. CASE StoreFile(p) \/ TruncateMapping(p) \/ WriteMapping(p)
    BY <2>3, StoreFileKeepsCache, TruncateMappingKeepsCache, WriteMappingKeepsCache
  <2>4. CASE Recheck(p) \/ RemoveCacheEntry(p) \/ WriteCacheEntry(p) \/ AddParents(p)
    BY <2>4, RecheckKeepsCache, RemoveCacheEntryKeepsCache, WriteCacheEntryKeepsCache,
       AddParentsKeepsCache
  <2>5. ~Abort(p)
    BY DEF Abort, Inv, Bounded
  <2>6. QED
    BY <1>3, <2>1, <2>2, <2>3, <2>4, <2>5 DEF SnapshotCommand
<1>4. CASE UNCHANGED vars
  BY <1>4 DEF vars, user, CacheInv, CacheIsOld, StartIsLater, InfoIsCached, ReadIsRecorded,
              AmendedIsCached, ClosingIsMapped, CachedIsMapped, Started, HasRead, Amending,
              Recorded, Untouched, Second, Held
<1>5. QED
  BY <1>1, <1>2, <1>3, <1>4 DEF Next

\* With one process, no aborts and no file moved back, the cache never hides
\* an edit: what it answers for is what the mapping has recorded.
THEOREM NoEditIsOverlooked ==
    ASSUME NEW p, Process = {p}, MaxAborts = 0, Renames = FALSE
    PROVE  Spec => []CacheIsSound
<1>1. Init => CacheInv(p)
  BY CacheInvInitially
<1>2. Inv /\ CacheInv(p) /\ [Next]_vars => CacheInv(p)'
  BY CacheInvKept
<1>3. Inv /\ CacheInv(p) => CacheIsSound
  <2> SUFFICES ASSUME Inv, CacheInv(p), Quiet, path # None, HasMapping, cache = StatOf(path)
               PROVE  /\ files[mapping].contents = disk[path].data
                      /\ files[mapping].mode = disk[path].mode
    BY DEF CacheIsSound
  <2>1. cache # None
    BY Times, SpecialAssumption DEF Inv, DiskInv, Info, OnDisk, StatOf
  <2>2. Untouched /\ cache.mode = disk[path].mode
    BY <2>1 DEF Untouched, StatOf
  <2>3. mapping \in Held
    BY SpecialAssumption, BoundsAssumption DEF HasMapping, Hash, Inv, StoreInv
  <2>4. QED
    BY <2>2, <2>3 DEF CacheInv, CachedIsMapped, Quiet, NoCall
<1>4. QED
  BY <1>1, <1>2, <1>3, InvAlways, PTL DEF Spec

-----------------------------------------------------------------------------
(***************************************************************************)
(* The history, with one process and no additional parents: a snapshot     *)
(* that the command has returned is never lost, also when later calls are  *)
(* aborted.                                                                *)
(***************************************************************************)
Before(h) == History!Ancestors(Parents, h)

\* A call leads to a snapshot with all that was taken before in its history.
CallKeepsHistory(c) ==
    /\ c # NoCall => c.extra = <<>> /\ c.pc # "extra"
    /\ c.pc \in {"store", "truncate", "map"} => c.start # None
    /\ c.pc = "store" /\ mapping # None => mapping \in Held /\ c.file.parents = <<mapping>>
    /\ c.pc \in {"truncate", "map"} => taken \subseteq Before(c.hash)
    /\ c.pc \in {"recheck", "uncache", "cache"} => mapping = c.hash

HistoryInv(p) ==
    /\ mapping = None => taken = {}
    /\ mapping \in Held => taken \subseteq Before(mapping)
    /\ CallKeepsHistory(proc[p])

LEMMA ParentsHeld ==
    ASSUME Inv, NEW h \in Held
    PROVE  h \in Hash /\ Parents[h] = files[h].parents /\ Parents[h] \in Seq(Parent(Held))
<1>1. Held \subseteq Hash /\ DOMAIN files = Held
  BY HeldIsHash DEF Inv
<1>2. QED
  BY <1>1, FileHeld DEF Inv, Parents, FileOf

\* What is missing leads nowhere.
LEMMA NothingBeforeMissing ==
    ASSUME Inv, NEW k \in Missing
    PROVE  Parents[k] = <<>> /\ History!Range(Parents[k]) = {}
<1>1. k \notin DOMAIN files
  BY HeldIsHash, SpecialAssumption DEF Inv, Held
<1>2. Parents[k] = <<>>
  BY <1>1 DEF Parents
<1>3. QED
  BY <1>2 DEF History!Range

LEMMA NothingMissingBefore == Inv => \A k \in Missing : Parents[k] = <<>>
BY NothingBeforeMissing

LEMMA NothingBeforeMissingNext == Inv' => (\A k \in Missing : Parents[k] = <<>>)'
BY NothingMissingBefore, PTL

LEMMA ParentsOfHeld == Inv => \A k \in Held : Parents[k] = files[k].parents
BY ParentsHeld

LEMMA ParentsHeldNext == Inv' => (\A k \in Held : Parents[k] = files[k].parents)'
BY ParentsOfHeld, PTL

LEMMA BeforeItself == ASSUME NEW h \in Parent(Hash) PROVE h \in Before(h)
BY DEF Before, Parent, History!Ancestors

\* What comes before a parent comes before its child.
LEMMA BeforeParent ==
    ASSUME Inv, NEW h \in Held, NEW m \in Held, files[h].parents = <<m>>
    PROVE  Before(m) \subseteq Before(h)
<1>1. m \in History!Range(Parents[h])
  BY ParentsHeld DEF History!Range
<1>2. \A S \in SUBSET (Hash \cup Missing) :
         h \in S /\ History!ClosedUnderParents(Parents, S) => m \in S
  BY <1>1 DEF History!ClosedUnderParents
<1>3. QED
  BY <1>2 DEF Before, History!Ancestors

LEMMA BeforeParents ==
    Inv => \A h, m \in Held : files[h].parents = <<m>> => Before(m) \subseteq Before(h)
BY BeforeParent

LEMMA BeforeParentsNext ==
    Inv' => (\A h, m \in Held : files[h].parents = <<m>> => Before(m) \subseteq Before(h))'
BY BeforeParents, PTL

LEMMA BeforeParentNext ==
    ASSUME Inv', NEW h \in Held', NEW m \in Held', files'[h].parents = <<m>>
    PROVE  Before(m)' \subseteq Before(h)'
BY BeforeParentsNext

\* The history of a snapshot stays what it is when more is stored.
LEMMA BeforeStays ==
    ASSUME Inv, Inv', Held \subseteq Held', \A k \in Held : files'[k] = files[k],
           NEW m \in Parent(Held)
    PROVE  Before(m)' = Before(m)
<1>1. \A k \in Held : Parents[k] = files[k].parents /\ Parents[k] \in Seq(Parent(Held))
  BY ParentsHeld
<1>2. \A k \in Parent(Held) : Parents'[k] = Parents[k]
  <2>1. \A k \in Held' : Parents'[k] = files'[k].parents
    BY ParentsHeldNext
  <2>2. \A k \in Missing : Parents[k] = <<>> /\ Parents'[k] = <<>>
    BY NothingBeforeMissing, NothingBeforeMissingNext
  <2>3. QED
    BY <1>1, <2>1, <2>2 DEF Parent
<1>3. \A k \in Parent(Held) : History!Range(Parents[k]) \subseteq Parent(Held)
  <2>1. \A k \in Held : History!Range(Parents[k]) \subseteq Parent(Held)
    BY <1>1, ElementOfSeq, LenProperties DEF History!Range
  <2>2. QED
    BY <2>1, NothingBeforeMissing DEF Parent
<1>4. Parent(Held) \subseteq Hash \cup Missing
  BY HeldIsHash DEF Inv, Parent
<1> DEFINE Closed(S) == S \subseteq Parent(Held)
                        /\ \A k \in S : History!Range(Parents[k]) \subseteq S
<1>5. \A a : a \in Before(m) <=> \A S : Closed(S) /\ m \in S => a \in S
  <2>1. ASSUME NEW a, a \in Before(m), NEW S, Closed(S), m \in S PROVE a \in S
    BY <1>4, <2>1 DEF Before, History!Ancestors, History!ClosedUnderParents
  <2>2. ASSUME NEW a, \A S : Closed(S) /\ m \in S => a \in S PROVE a \in Before(m)
    <3>1. a \in Parent(Held)
      BY <1>3, <2>2
    <3>2. ASSUME NEW S \in SUBSET (Hash \cup Missing), m \in S,
                 History!ClosedUnderParents(Parents, S)
          PROVE  a \in S
      <4>1. Closed(S \cap Parent(Held)) /\ m \in S \cap Parent(Held)
        BY <1>3, <3>2 DEF History!ClosedUnderParents
      <4>2. QED
        BY <2>2, <4>1
    <3>3. QED
      BY <1>4, <3>1, <3>2 DEF Before, History!Ancestors
  <2>3. QED
    BY <2>1, <2>2
<1>6. \A a : a \in Before(m)' <=> \A S : Closed(S) /\ m \in S => a \in S
  <2>1. ASSUME NEW a, a \in Before(m)', NEW S, Closed(S), m \in S PROVE a \in S
    BY <1>2, <1>4, <2>1 DEF Before, History!Ancestors, History!ClosedUnderParents
  <2>2. ASSUME NEW a, \A S : Closed(S) /\ m \in S => a \in S PROVE a \in Before(m)'
    <3>1. a \in Parent(Held)
      BY <1>3, <2>2
    <3>2. ASSUME NEW S \in SUBSET (Hash \cup Missing), m \in S,
                 History!ClosedUnderParents(Parents', S)
          PROVE  a \in S
      <4>1. Closed(S \cap Parent(Held)) /\ m \in S \cap Parent(Held)
        BY <1>2, <1>3, <3>2 DEF History!ClosedUnderParents
      <4>2. QED
        BY <2>2, <4>1
    <3>3. QED
      BY <1>4, <3>1, <3>2 DEF Before, History!Ancestors
  <2>3. QED
    BY <2>1, <2>2
<1> HIDE DEF Closed
<1>7. QED
  BY <1>5, <1>6

LEMMA BeforeGrows ==
    ASSUME Inv, Inv', Held \subseteq Held', \A k \in Held : files'[k] = files[k],
           NEW m \in Held
    PROVE  Before(m) \subseteq Before(m)'
BY BeforeStays DEF Parent

LEMMA SameHistory ==
    ASSUME UNCHANGED files, NEW h
    PROVE  Held' = Held /\ Before(h)' = Before(h)
BY DEF Held, Before, Parents, History!Ancestors, History!ClosedUnderParents, History!Range

\* Nothing of the history changes.
LEMMA StillKeepsHistory ==
    ASSUME NEW p \in Process, HistoryInv(p), UNCHANGED <<files, mapping, taken, proc>>
    PROVE  HistoryInv(p)'
<1>1. Held' = Held
  BY DEF Held
<1>2. mapping \in Held => taken' \subseteq Before(mapping)'
  BY SameHistory DEF HistoryInv
<1>3. proc[p].pc \in {"truncate", "map"} => taken' \subseteq Before(proc[p].hash)'
  BY SameHistory DEF HistoryInv, CallKeepsHistory
<1>4. QED
  BY <1>1, <1>2, <1>3 DEF HistoryInv, CallKeepsHistory

\* A step of a call that stores nothing.
LEMMA MoveKeepsHistory ==
    ASSUME Inv, NEW p \in Process, HistoryInv(p), NEW c, Becomes(p, c),
           UNCHANGED <<files, mapping, taken>>,
           c # NoCall => c.extra = <<>> /\ c.pc # "extra",
           c.pc = "store" => c.start # None,
           c.pc = "store" /\ mapping # None =>
               mapping \in Held /\ c.file.parents = <<mapping>>,
           c.pc \notin {"truncate", "map"},
           c.pc \in {"recheck", "uncache", "cache"} => mapping = c.hash
    PROVE  HistoryInv(p)'
<1>1. Held' = Held /\ proc'[p] = c
  BY ProcBecomes DEF Held
<1>2. mapping \in Held => taken' \subseteq Before(mapping)'
  BY SameHistory DEF HistoryInv
<1>3. QED
  BY <1>1, <1>2 DEF HistoryInv, CallKeepsHistory

LEMMA ResolvedKeepsHistory ==
    ASSUME Inv, NEW p \in Process, HistoryInv(p), NEW h \in Held, Resolved(p, h),
           h = mapping, proc[p] # NoCall, UNCHANGED <<files, mapping>>
    PROVE  HistoryInv(p)'
<1>1. Becomes(p, NoCall) /\ taken' = taken \cup {h}
  BY DEF Resolved, HistoryInv, CallKeepsHistory
<1>2. proc'[p] = NoCall /\ Held' = Held /\ mapping' = h
  BY <1>1, ProcBecomes DEF Held
<1>3. h \in Parent(Hash) /\ h # None
  BY ParentsHeld, HeldIsHash, SpecialAssumption DEF Hash, Inv, Parent
<1>4. taken' \subseteq Before(h)
  BY <1>1, <1>3, BeforeItself DEF HistoryInv
<1>5. taken' \subseteq Before(mapping)'
  BY <1>2, <1>4, SameHistory
<1>6. QED
  BY <1>2, <1>3, <1>5 DEF HistoryInv, CallKeepsHistory, NoCall

LEMMA ReadingKeepsHistory ==
    ASSUME Inv, NEW p \in Process, HistoryInv(p), MaxExtra = 0,
           \/ \E extra \in Seq(Parent(Held)) : Open(p, extra)
           \/ Lookup(p) \/ ReadCached(p) \/ ReadContents(p)
    PROVE  HistoryInv(p)'
<1>1. CASE \E extra \in Seq(Parent(Held)) : Open(p, extra)
  <2> PICK extra \in Seq(Parent(Held)) : Open(p, extra)
    BY <1>1
  <2> PICK c : c = [pc |-> "lookup", info |-> StatOf(path), extra |-> extra]
    OBVIOUS
  <2>1. extra = <<>>
    <3>1. Len(extras) \in Nat /\ Len(extra) \in Nat
      BY LenProperties DEF Inv, Bounded
    <3>2. Len(extra) = 0
      BY <3>1 DEF Open
    <3>3. QED
      BY <3>2, EmptySeq
  <2>2. Becomes(p, c) /\ UNCHANGED <<files, mapping, taken>>
    BY DEF Open
  <2>3. QED
    BY <2>1, <2>2, MoveKeepsHistory
<1>2. CASE Lookup(p)
  <2> PICK c : c = [pc    |-> IF cache = proc[p].info THEN "cached" ELSE "read",
                    info  |-> proc[p].info, extra |-> proc[p].extra,
                    start |-> now - (now % TicksPerSecond)]
    OBVIOUS
  <2>1. Becomes(p, c) /\ UNCHANGED <<files, mapping, taken>> /\ proc[p] # NoCall
    BY <1>2 DEF Lookup, NoCall
  <2>2. QED
    BY <2>1, MoveKeepsHistory DEF HistoryInv, CallKeepsHistory
<1>3. CASE ReadCached(p)
  <2>1. proc[p] # NoCall /\ proc[p] \in Reading(Held) /\ UNCHANGED <<files, mapping>>
    BY <1>3, KnownAt DEF ReadCached, Inv, StoreInv, NoCall
  <2>2. CASE mapping \in {None, Blank}
    <3> PICK c : c = [proc[p] EXCEPT !.pc = "read"]
      OBVIOUS
    <3>1. Becomes(p, c) /\ taken' = taken
      BY <1>3, <2>2 DEF ReadCached
    <3>2. c.pc = "read" /\ c.extra = proc[p].extra
      BY <2>1 DEF Reading
    <3>3. QED
      BY <2>1, <3>1, <3>2, MoveKeepsHistory DEF HistoryInv, CallKeepsHistory
  <2>3. CASE mapping \notin {None, Blank}
    BY <1>3, <2>1, <2>3, ResolvedKeepsHistory DEF ReadCached, Inv, StoreInv
  <2>4. QED
    BY <2>2, <2>3
<1>4. CASE ReadContents(p)
  <2> PICK c : c = [pc    |-> "find", info  |-> proc[p].info, extra |-> proc[p].extra,
                    start |-> proc[p].start, data  |-> disk[proc[p].info.ino].data]
    OBVIOUS
  <2>1. Becomes(p, c) /\ UNCHANGED <<files, mapping, taken>> /\ proc[p] # NoCall
    BY <1>4 DEF ReadContents, NoCall
  <2>2. QED
    BY <2>1, MoveKeepsHistory DEF HistoryInv, CallKeepsHistory
<1>5. QED
  BY <1>1, <1>2, <1>3, <1>4

LEMMA FindPreviousKeepsHistory ==
    ASSUME Inv, NEW p \in Process, HistoryInv(p), FindPrevious(p)
    PROVE  HistoryInv(p)'
<1> PICK f : f = [contents |-> proc[p].data, mode |-> proc[p].info.mode,
                  parents |-> IF mapping = None THEN <<>> ELSE <<mapping>>]
  OBVIOUS
<1> PICK same : same = [pc |-> "recheck", info |-> proc[p].info, extra |-> proc[p].extra,
                        start |-> proc[p].start, hash |-> mapping]
  OBVIOUS
<1> PICK new : new = [pc |-> "store", info |-> proc[p].info, extra |-> proc[p].extra,
                      start |-> proc[p].start, file |-> f]
  OBVIOUS
<1>1. UNCHANGED <<files, mapping, taken>> /\ proc[p] # NoCall /\ proc[p].extra = <<>>
      /\ proc[p].start # None
  BY KnownAt, SpecialAssumption
     DEF FindPrevious, NoCall, Inv, StoreInv, Finding, HistoryInv, CallKeepsHistory
<1>2. CASE Becomes(p, NoCall)
  BY <1>1, <1>2, MoveKeepsHistory DEF NoCall
<1>3. CASE Becomes(p, same)
  BY <1>1, <1>3, MoveKeepsHistory
<1>4. CASE mapping # Blank /\ Becomes(p, new)
  <2>1. mapping # None => mapping \in Held /\ f.parents = <<mapping>>
    BY <1>4 DEF Inv, StoreInv
  <2>2. QED
    BY <1>1, <1>4, <2>1, MoveKeepsHistory
<1>5. QED
  BY <1>2, <1>3, <1>4 DEF FindPrevious

LEMMA StoreFileKeepsHistory ==
    ASSUME Inv, Inv', NEW p \in Process, HistoryInv(p), StoreFile(p)
    PROVE  HistoryInv(p)'
<1>1. PICK h \in Held' :
         /\ files'[h] = proc[p].file /\ Held \subseteq Held'
         /\ \A k \in Held : files'[k] = files[k]
         /\ Becomes(p, [pc |-> "truncate", info |-> proc[p].info, extra |-> proc[p].extra,
                        start |-> proc[p].start, hash |-> h])
  BY FileStored
<1> PICK c : c = [pc |-> "truncate", info |-> proc[p].info, extra |-> proc[p].extra,
                  start |-> proc[p].start, hash |-> h]
  OBVIOUS
<1>2. UNCHANGED <<mapping, taken>> /\ proc[p].pc = "store" /\ proc[p] # NoCall /\ proc'[p] = c
  BY <1>1, ProcBecomes DEF StoreFile, NoCall
<1>3. mapping # None =>
         mapping \in Held /\ proc[p].file.parents = <<mapping>> /\ taken \subseteq Before(mapping)
  BY <1>2 DEF HistoryInv, CallKeepsHistory
<1>4. mapping # None => taken' \subseteq Before(mapping)'
  BY <1>1, <1>2, <1>3, BeforeGrows
<1>5. mapping # None => Before(mapping)' \subseteq Before(h)'
  BY <1>1, <1>2, <1>3, BeforeParentNext
<1>6. taken' \subseteq Before(h)'
  BY <1>2, <1>4, <1>5 DEF HistoryInv
<1>7. c.pc = "truncate" /\ c.extra = <<>> /\ c.start # None /\ c.hash = h
  BY <1>2 DEF HistoryInv, CallKeepsHistory
<1>8. CallKeepsHistory(c)'
  BY <1>6, <1>7 DEF CallKeepsHistory
<1>9. mapping \in Held' => mapping # None
  <2>1. Inv' => \A k \in Held' : k \in Nat
    BY DEF Held
  <2>2. QED
    BY <2>1, SpecialAssumption
<1>10. QED
  BY <1>2, <1>4, <1>8, <1>9 DEF HistoryInv

LEMMA MappingKeepsHistory ==
    ASSUME Inv, NEW p \in Process, HistoryInv(p), TruncateMapping(p) \/ WriteMapping(p)
    PROVE  HistoryInv(p)'
<1>1. proc[p] \in Mapping(Held) /\ proc[p] # NoCall /\ UNCHANGED files /\ Held' = Held
  BY KnownAt DEF TruncateMapping, WriteMapping, Inv, StoreInv, NoCall, Held
<1>2. proc[p].hash \in Held /\ proc[p].hash \in Nat
  BY <1>1, HeldIsHash DEF Mapping, Inv, Hash
<1>3. proc[p].extra = <<>> /\ proc[p].start # None /\ taken \subseteq Before(proc[p].hash)
  BY <1>1 DEF HistoryInv, CallKeepsHistory, Mapping
<1> PICK h : h = proc[p].hash
  OBVIOUS
<1>4. taken \subseteq Before(h)'
  BY <1>1, <1>3, SameHistory
<1>5. CASE TruncateMapping(p)
  <2> PICK c : c = [proc[p] EXCEPT !.pc = "map"]
    OBVIOUS
  <2>1. proc'[p] = c /\ mapping' = Blank /\ taken' = taken
    BY <1>5, ProcBecomes DEF TruncateMapping
  <2>2. c.pc = "map" /\ c.extra = <<>> /\ c.start # None /\ c.hash = h
    BY <1>1, <1>3 DEF Mapping
  <2>3. Blank \notin Held /\ Blank # None
    BY HeldIsHash, SpecialAssumption DEF Inv, Hash
  <2>4. CallKeepsHistory(c)'
    BY <1>4, <2>1, <2>2 DEF CallKeepsHistory
  <2>5. QED
    BY <1>1, <2>1, <2>3, <2>4 DEF HistoryInv
<1>6. CASE WriteMapping(p)
  <2> PICK c : c = [proc[p] EXCEPT !.pc = "recheck"]
    OBVIOUS
  <2>1. proc'[p] = c /\ mapping' = h /\ taken' = taken
    BY <1>3, <1>6, ProcBecomes DEF WriteMapping
  <2>2. c.pc = "recheck" /\ c.extra = <<>> /\ c.hash = h
    BY <1>1, <1>3 DEF Mapping
  <2>3. CallKeepsHistory(c)'
    BY <2>1, <2>2 DEF CallKeepsHistory
  <2>4. taken' \subseteq Before(mapping)'
    BY <1>4, <2>1
  <2>5. QED
    BY <1>2, <2>1, <2>3, <2>4, SpecialAssumption DEF HistoryInv
<1>7. QED
  BY <1>5, <1>6

LEMMA ClosingKeepsHistory ==
    ASSUME Inv, NEW p \in Process, HistoryInv(p),
           Recheck(p) \/ RemoveCacheEntry(p) \/ WriteCacheEntry(p)
    PROVE  HistoryInv(p)'
<1>1. proc[p] \in Closing(Held) /\ proc[p] # NoCall /\ UNCHANGED <<files, mapping>>
  BY KnownAt DEF Recheck, RemoveCacheEntry, WriteCacheEntry, Inv, StoreInv, NoCall
<1>2. proc[p].hash \in Held /\ mapping = proc[p].hash /\ proc[p].extra = <<>>
  BY <1>1 DEF HistoryInv, CallKeepsHistory, Closing
<1>3. CASE Resolved(p, proc[p].hash)
  BY <1>1, <1>2, <1>3, ResolvedKeepsHistory
<1>4. ASSUME NEW s \in {"uncache", "cache"}, Becomes(p, [proc[p] EXCEPT !.pc = s]), taken' = taken
      PROVE  HistoryInv(p)'
  <2> PICK c : c = [proc[p] EXCEPT !.pc = s]
    OBVIOUS
  <2>1. c.pc = s /\ c.extra = <<>> /\ c.hash = mapping
    BY <1>1, <1>2 DEF Closing
  <2>2. QED
    BY <1>1, <1>4, <2>1, MoveKeepsHistory
<1>5. QED
  BY <1>3, <1>4 DEF Recheck, RemoveCacheEntry, WriteCacheEntry

LEMMA HistoryInvKept ==
    ASSUME NEW p, Process = {p}, MaxExtra = 0, Inv, HistoryInv(p), [Next]_vars
    PROVE  HistoryInv(p)'
<1>1. CASE Tick \/ User
  <2>1. UNCHANGED <<files, mapping, taken, proc>>
    BY <1>1 DEF Tick, User, UserStep, Edit, Chmod, Create, Delete, MoveAside, MoveBack
  <2>2. QED
    BY <2>1, StillKeepsHistory
<1>2. CASE SnapshotCommand(p)
  <2>1. CASE \E extra \in {<<>>} \cup {<<h>> : h \in DOMAIN files \cup Missing} : Open(p, extra)
    <3> PICK extra \in {<<>>} \cup {<<h>> : h \in DOMAIN files \cup Missing} : Open(p, extra)
      BY <2>1
    <3>1. extra = <<>>
      <4>1. Len(extras) \in Nat /\ (extra # <<>> => Len(extra) = 1)
        BY LenProperties DEF Inv, Bounded
      <4>2. QED
        BY <4>1 DEF Open
    <3>2. extra \in Seq(Parent(Held))
      BY <3>1
    <3>3. QED
      BY <3>2, ReadingKeepsHistory
  <2>2. CASE Lookup(p) \/ ReadCached(p) \/ ReadContents(p)
    BY <2>2, ReadingKeepsHistory
  <2>3. CASE FindPrevious(p)
    BY <2>3, FindPreviousKeepsHistory
  <2>4. CASE StoreFile(p)
    BY <2>4, InvKept, StoreFileKeepsHistory
  <2>5. CASE TruncateMapping(p) \/ WriteMapping(p)
    BY <2>5, MappingKeepsHistory
  <2>6. CASE Recheck(p) \/ RemoveCacheEntry(p) \/ WriteCacheEntry(p)
    BY <2>6, ClosingKeepsHistory
  <2>7. CASE Abort(p)
    BY <2>7, MoveKeepsHistory DEF Abort, NoCall
  <2>8. ~AddParents(p)
    BY DEF AddParents, HistoryInv, CallKeepsHistory, NoCall
  <2>9. QED
    BY <1>2, <2>1, <2>2, <2>3, <2>4, <2>5, <2>6, <2>7, <2>8 DEF SnapshotCommand
<1>3. CASE UNCHANGED vars
  BY <1>3, StillKeepsHistory DEF vars
<1>4. QED
  BY <1>1, <1>2, <1>3 DEF Next

\* With one process and no additional parents, every snapshot that the command
\* has returned stays in the history of the latest one.
THEOREM NoSnapshotIsLost ==
    ASSUME NEW p, Process = {p}, MaxExtra = 0
    PROVE  Spec => []HistoryIsKept
<1>1. Init => HistoryInv(p)
  <2> SUFFICES ASSUME Init PROVE HistoryInv(p)
    OBVIOUS
  <2>1. proc[p] = NoCall /\ mapping = None /\ taken = {} /\ Held \subseteq Nat
    BY InvInitially, HeldIsHash DEF Init, Inv, Hash
  <2>2. QED
    BY <2>1 DEF HistoryInv, CallKeepsHistory, NoCall
<1>2. Inv /\ HistoryInv(p) /\ [Next]_vars => HistoryInv(p)'
  BY HistoryInvKept
<1>3. Inv /\ HistoryInv(p) => HistoryIsKept
  BY SpecialAssumption DEF HistoryIsKept, HistoryInv, HasMapping, Before, Hash, Inv, StoreInv
<1>4. QED
  BY <1>1, <1>2, <1>3, InvAlways, PTL DEF Spec

-----------------------------------------------------------------------------
(***************************************************************************)
(* The history, with any number of processes, additional parents and       *)
(* aborts: what is not stored of it is missing from the history of an      *)
(* additional parent.  Every snapshot that is at hand in some call is      *)
(* explained in that way.                                                  *)
(***************************************************************************)
Explained == {h \in Parent(Held) : Before(h) \subseteq Held \cup AskedFor}

CallExplained(c) ==
    /\ c # NoCall => c.extra \in Seq(Explained)
    /\ c.pc = "store" => c.file.parents \in Seq(Explained)
    /\ c.pc \in {"truncate", "map", "recheck", "uncache", "cache", "extra"} =>
           c.hash \in Explained

ExplainedInv ==
    /\ mapping \in Explained \cup {None, Blank}
    /\ \A p \in Process : CallExplained(proc[p])

LEMMA BeforeAnyParent ==
    ASSUME Inv, NEW h \in Held, NEW m \in History!Range(files[h].parents)
    PROVE  m \in Parent(Held) /\ Before(m) \subseteq Before(h)
<1>1. Parents[h] = files[h].parents /\ Parents[h] \in Seq(Parent(Held))
  BY ParentsHeld
<1>2. \A S : History!ClosedUnderParents(Parents, S) /\ h \in S => m \in S
  BY <1>1 DEF History!ClosedUnderParents
<1>3. m \in Parent(Held)
  BY <1>1, ElementOfSeq, LenProperties DEF History!Range
<1>4. QED
  BY <1>2, <1>3 DEF Before, History!Ancestors

LEMMA ParentsOfExplained ==
    ASSUME Inv, NEW h \in Held, h \in Explained
    PROVE  files[h].parents \in Seq(Explained)
<1>1. History!Range(files[h].parents) \subseteq Explained
  BY BeforeAnyParent DEF Explained
<1>2. files[h].parents \in Seq(Parent(Held))
  BY ParentsHeld
<1>3. QED
  BY <1>1, <1>2, LenProperties, SeqDef DEF History!Range

\* What is only missing leads nowhere, and what has explained parents is
\* explained by them.
LEMMA ExplainedByParents ==
    ASSUME Inv, NEW h \in Held, files[h].parents \in Seq(Explained)
    PROVE  h \in Explained
<1> PICK E : E = Explained \cup {h}
  OBVIOUS
<1>1. E \subseteq Hash \cup Missing
  BY HeldIsHash DEF Inv, Explained, Parent
<1>2. History!ClosedUnderParents(Parents, E)
  <2> SUFFICES ASSUME NEW k \in E PROVE History!Range(Parents[k]) \subseteq E
    BY DEF History!ClosedUnderParents
  <2>1. CASE k \in Missing
    BY <2>1, NothingBeforeMissing
  <2>2. CASE k \in Held
    <3>1. files[k].parents \in Seq(Explained) /\ Parents[k] = files[k].parents
      BY <2>2, ParentsOfExplained, ParentsHeld
    <3>2. QED
      BY <3>1, ElementOfSeq, LenProperties DEF History!Range
  <2>3. QED
    BY <2>1, <2>2 DEF Explained, Parent
<1>3. Before(h) \subseteq E
  BY <1>1, <1>2 DEF Before, History!Ancestors
<1>4. \A k \in Explained : k \in Before(k)
  BY <1>1, BeforeItself DEF Parent
<1>5. QED
  BY <1>3, <1>4 DEF Explained, Parent

LEMMA ExplainedByTheirParents ==
    Inv => \A k \in Held : files[k].parents \in Seq(Explained) => k \in Explained
BY ExplainedByParents

LEMMA ExplainedByParentsNext ==
    Inv' => (\A k \in Held : files[k].parents \in Seq(Explained) => k \in Explained)'
BY ExplainedByTheirParents, PTL

\* Who asks for a parent explains what is missing behind it.
LEMMA AskedIsExplained == Inv => extras \in Seq(Explained)
<1> SUFFICES ASSUME Inv PROVE extras \in Seq(Explained)
  OBVIOUS
<1>1. extras \in Seq(Parent(Held))
  BY DEF Inv, Bounded
<1>2. \A i \in 1..Len(extras) : extras[i] \in Explained
  <2> SUFFICES ASSUME NEW i \in 1..Len(extras) PROVE extras[i] \in Explained
    OBVIOUS
  <2>1. extras[i] \in Parent(Held) /\ extras[i] \in History!Range(extras)
    BY <1>1, ElementOfSeq, LenProperties DEF History!Range
  <2>2. QED
    BY <2>1 DEF Explained, AskedFor, Before
<1>3. QED
  BY <1>1, <1>2, LenProperties, SeqDef

LEMMA AskedIsExplainedNext == Inv' => (extras \in Seq(Explained))'
BY AskedIsExplained, PTL

\* What is explained stays so.
LEMMA StillExplained ==
    ASSUME Inv, Inv', Held \subseteq Held', \A k \in Held : files'[k] = files[k],
           History!Range(extras) \subseteq History!Range(extras')
    PROVE  Explained \subseteq Explained' /\ Seq(Explained) \subseteq Seq(Explained')
<1>1. \A m \in Parent(Held) : Before(m)' = Before(m)
  BY BeforeStays
<1>2. \A m \in History!Range(extras) : m \in Parent(Held)
  BY ElementOfSeq, LenProperties DEF Inv, Bounded, History!Range
<1>3. AskedFor \subseteq AskedFor'
  BY <1>1, <1>2 DEF AskedFor, Before
<1>4. Explained \subseteq Explained'
  BY <1>1, <1>3 DEF Explained, Parent
<1>5. QED
  BY <1>4, SeqMonotonic

\* A step of one call.
LEMMA CallKeepsExplained ==
    ASSUME Inv, ExplainedInv, NEW p \in Process, NEW c, Becomes(p, c),
           Explained \subseteq Explained', CallExplained(c)',
           mapping' \in Explained' \cup {None, Blank}
    PROVE  ExplainedInv'
<1>1. \A q \in Process : proc'[q] = IF q = p THEN c ELSE proc[q]
  BY DEF Becomes, Inv, StoreInv
<1>2. \A q \in Process : CallExplained(proc[q])'
  <2>1. Seq(Explained) \subseteq Seq(Explained')
    BY SeqMonotonic
  <2>2. ASSUME NEW q \in Process, q # p PROVE CallExplained(proc[q])'
    BY <1>1, <2>1, <2>2 DEF ExplainedInv, CallExplained
  <2>3. CallExplained(proc[p])'
    BY <1>1 DEF CallExplained
  <2>4. QED
    BY <2>2, <2>3
<1>3. QED
  BY <1>2 DEF ExplainedInv

\* One that stores nothing and asks for nothing.
LEMMA QuietStepExplained ==
    ASSUME Inv, ExplainedInv, NEW p \in Process, NEW c, Becomes(p, c),
           UNCHANGED <<files, extras>>, CallExplained(c),
           mapping' \in Explained \cup {None, Blank}
    PROVE  ExplainedInv'
<1>1. Explained' = Explained
  BY DEF Explained, Held, AskedFor, Before, Parents, History!Ancestors,
         History!ClosedUnderParents, History!Range
<1>2. CallExplained(c)'
  BY <1>1 DEF CallExplained
<1>3. QED
  BY <1>1, <1>2, CallKeepsExplained

LEMMA ResolvedExplained ==
    ASSUME Inv, ExplainedInv, NEW p \in Process, NEW h \in Explained, Resolved(p, h),
           UNCHANGED <<files, extras, mapping>>, proc[p] # NoCall
    PROVE  ExplainedInv'
<1>1. CallExplained(NoCall)
  BY DEF CallExplained, NoCall
<1>2. CASE proc[p].extra = <<>>
  BY <1>1, <1>2, QuietStepExplained DEF Resolved, ExplainedInv
<1>3. CASE proc[p].extra # <<>>
  <2> PICK c : c = [pc |-> "extra", info |-> proc[p].info, extra |-> proc[p].extra, hash |-> h]
    OBVIOUS
  <2>1. Becomes(p, c)
    BY <1>3 DEF Resolved
  <2>2. CallExplained(c)
    BY DEF CallExplained, ExplainedInv
  <2>3. QED
    BY <2>1, <2>2, QuietStepExplained DEF ExplainedInv
<1>4. QED
  BY <1>2, <1>3

LEMMA OpenExplained ==
    ASSUME Inv, Inv', ExplainedInv, NEW p \in Process,
           NEW extra \in Seq(Parent(Held)), Open(p, extra)
    PROVE  ExplainedInv'
<1> PICK c : c = [pc |-> "lookup", info |-> StatOf(path), extra |-> extra]
  OBVIOUS
<1>1. Becomes(p, c) /\ UNCHANGED <<files, mapping>> /\ extras' = extras \o extra
  BY DEF Open
<1>2. extras \in Seq(Parent(Held)) /\ Held' = Held
  BY <1>1 DEF Inv, Bounded, Held
<1>3. Len(extras') = Len(extras) + Len(extra) /\ Len(extras) \in Nat /\ Len(extra) \in Nat
      /\ (\A i \in 1..Len(extras) : extras'[i] = extras[i])
      /\ (\A i \in 1..Len(extra) : extras'[Len(extras) + i] = extra[i])
  BY <1>1, <1>2, ConcatProperties, LenProperties
<1>4. History!Range(extras) \subseteq History!Range(extras')
  <2>1. DOMAIN extras = 1..Len(extras) /\ DOMAIN extras' = 1..Len(extras')
    BY <1>2, LenProperties DEF Inv, Bounded
  <2>2. QED
    BY <1>3, <2>1 DEF History!Range
<1>5. Explained \subseteq Explained'
  BY <1>1, <1>2, <1>4, StillExplained
<1>6. extra \in Seq(Explained')
  <2>1. extras' \in Seq(Explained')
    BY AskedIsExplainedNext
  <2>2. \A i \in 1..Len(extra) : extra[i] \in Explained'
    <3> SUFFICES ASSUME NEW i \in 1..Len(extra) PROVE extra[i] \in Explained'
      OBVIOUS
    <3>1. Len(extras) + i \in 1..Len(extras')
      BY <1>3
    <3>2. QED
      BY <1>3, <2>1, <3>1, ElementOfSeq
  <2>3. QED
    BY <2>2, LenProperties, SeqDef
<1>7. CallExplained(c)'
  BY <1>6 DEF CallExplained
<1>8. QED
  BY <1>1, <1>5, <1>7, CallKeepsExplained DEF ExplainedInv

LEMMA FindPreviousExplained ==
    ASSUME Inv, ExplainedInv, NEW p \in Process, FindPrevious(p)
    PROVE  ExplainedInv'
<1> PICK f : f = [contents |-> proc[p].data, mode |-> proc[p].info.mode,
                  parents |-> IF mapping = None THEN <<>> ELSE <<mapping>>]
  OBVIOUS
<1> PICK same : same = [pc |-> "recheck", info |-> proc[p].info, extra |-> proc[p].extra,
                        start |-> proc[p].start, hash |-> mapping]
  OBVIOUS
<1> PICK new : new = [pc |-> "store", info |-> proc[p].info, extra |-> proc[p].extra,
                      start |-> proc[p].start, file |-> f]
  OBVIOUS
<1>1. proc[p] # NoCall /\ UNCHANGED <<files, extras, mapping>>
  BY DEF FindPrevious, NoCall
<1>2. proc[p].extra \in Seq(Explained) /\ mapping \in Explained \cup {None, Blank}
  BY <1>1 DEF ExplainedInv, CallExplained
<1>3. CASE mapping = Blank
  <2>1. Becomes(p, NoCall) /\ CallExplained(NoCall)
    BY <1>3 DEF FindPrevious, CallExplained, NoCall
  <2>2. QED
    BY <1>1, <1>2, <2>1, QuietStepExplained
<1>4. CASE mapping # Blank /\ mapping # None /\ Becomes(p, same)
  <2>1. CallExplained(same)
    BY <1>2, <1>4 DEF CallExplained
  <2>2. QED
    BY <1>1, <1>2, <1>4, <2>1, QuietStepExplained
<1>5. CASE mapping # Blank /\ Becomes(p, new)
  <2>1. <<>> \in Seq(Explained) /\ \A h \in Explained : <<h>> \in Seq(Explained)
    OBVIOUS
  <2>2. f.parents \in Seq(Explained)
    BY <1>2, <1>5, <2>1
  <2>3. CallExplained(new)
    BY <1>2, <2>2 DEF CallExplained
  <2>4. QED
    BY <1>1, <1>2, <1>5, <2>3, QuietStepExplained
<1>6. mapping # Blank => (mapping # None /\ Becomes(p, same)) \/ Becomes(p, new)
  BY DEF FindPrevious
<1>7. QED
  BY <1>3, <1>4, <1>5, <1>6

LEMMA StoreFileExplained ==
    ASSUME Inv, Inv', ExplainedInv, NEW p \in Process, StoreFile(p)
    PROVE  ExplainedInv'
<1>1. PICK h \in Held' :
         /\ files'[h] = proc[p].file
         /\ Held \subseteq Held' /\ \A k \in Held : files'[k] = files[k]
         /\ Becomes(p, [pc |-> "truncate", info |-> proc[p].info, extra |-> proc[p].extra,
                        start |-> proc[p].start, hash |-> h])
  BY FileStored
<1> PICK c : c = [pc |-> "truncate", info |-> proc[p].info, extra |-> proc[p].extra,
                  start |-> proc[p].start, hash |-> h]
  OBVIOUS
<1>2. UNCHANGED <<mapping, extras>> /\ proc[p].pc = "store" /\ proc[p] # NoCall
  BY DEF StoreFile, NoCall
<1>3. Explained \subseteq Explained' /\ Seq(Explained) \subseteq Seq(Explained')
  BY <1>1, <1>2, StillExplained
<1>4. proc[p].file.parents \in Seq(Explained') /\ proc[p].extra \in Seq(Explained')
  BY <1>2, <1>3 DEF ExplainedInv, CallExplained
<1>5. h \in Explained'
  BY <1>1, <1>4, ExplainedByParentsNext
<1>6. CallExplained(c)'
  BY <1>4, <1>5 DEF CallExplained
<1>7. Becomes(p, c)
  BY <1>1
<1>8. mapping' \in Explained' \cup {None, Blank}
  BY <1>2, <1>3 DEF ExplainedInv
<1>9. QED
  BY <1>3, <1>6, <1>7, <1>8, CallKeepsExplained

LEMMA AddParentsExplained ==
    ASSUME Inv, ExplainedInv, NEW p \in Process, AddParents(p)
    PROVE  ExplainedInv'
<1> PICK f : f = [files[proc[p].hash] EXCEPT !.parents = @ \o proc[p].extra]
  OBVIOUS
<1> PICK c : c = [pc |-> "store", info |-> proc[p].info, extra |-> <<>>, start |-> None,
                  file |-> f]
  OBVIOUS
<1>1. proc[p] # NoCall /\ proc[p].pc = "extra" /\ Becomes(p, c)
      /\ UNCHANGED <<files, extras, mapping>>
  BY DEF AddParents, NoCall
<1>2. proc[p].hash \in Held
  BY <1>1, KnownAt DEF Inv, StoreInv, Extending
<1>3. proc[p].hash \in Explained /\ proc[p].extra \in Seq(Explained)
  BY <1>1 DEF ExplainedInv, CallExplained
<1>4. files[proc[p].hash].parents \in Seq(Explained) /\ files[proc[p].hash] \in FileOf(Held)
  BY <1>2, <1>3, ParentsOfExplained, FileHeld DEF Inv
<1>5. f.parents = files[proc[p].hash].parents \o proc[p].extra
  BY <1>4 DEF FileOf
<1>6. f.parents \in Seq(Explained) /\ <<>> \in Seq(Explained)
  BY <1>3, <1>4, <1>5, ConcatProperties
<1>7. CallExplained(c)
  BY <1>6 DEF CallExplained
<1>8. QED
  BY <1>1, <1>7, QuietStepExplained DEF ExplainedInv

\* The steps that hand on what they have.
LEMMA OtherStepsExplained ==
    ASSUME Inv, ExplainedInv, NEW p \in Process,
           \/ Lookup(p) \/ ReadContents(p) \/ ReadCached(p)
           \/ TruncateMapping(p) \/ WriteMapping(p)
           \/ Recheck(p) \/ RemoveCacheEntry(p) \/ WriteCacheEntry(p) \/ Abort(p)
    PROVE  ExplainedInv'
<1>1. CallExplained(proc[p]) /\ mapping \in Explained \cup {None, Blank}
  BY DEF ExplainedInv
<1>2. CallExplained(NoCall)
  BY DEF CallExplained, NoCall
<1>3. CASE Lookup(p)
  <2> PICK c : c = [pc    |-> IF cache = proc[p].info THEN "cached" ELSE "read",
                    info  |-> proc[p].info, extra |-> proc[p].extra,
                    start |-> now - (now % TicksPerSecond)]
    OBVIOUS
  <2>1. Becomes(p, c) /\ proc[p] # NoCall /\ UNCHANGED <<files, extras, mapping>>
    BY <1>3 DEF Lookup, NoCall
  <2>2. CallExplained(c)
    BY <1>1, <2>1 DEF CallExplained
  <2>3. QED
    BY <1>1, <2>1, <2>2, QuietStepExplained
<1>4. CASE ReadContents(p)
  <2> PICK c : c = [pc    |-> "find", info  |-> proc[p].info, extra |-> proc[p].extra,
                    start |-> proc[p].start, data  |-> disk[proc[p].info.ino].data]
    OBVIOUS
  <2>1. Becomes(p, c) /\ proc[p] # NoCall /\ UNCHANGED <<files, extras, mapping>>
    BY <1>4 DEF ReadContents, NoCall
  <2>2. CallExplained(c)
    BY <1>1, <2>1 DEF CallExplained
  <2>3. QED
    BY <1>1, <2>1, <2>2, QuietStepExplained
<1>5. CASE ReadCached(p)
  <2>1. proc[p] \in Reading(Held) /\ proc[p] # NoCall /\ UNCHANGED <<files, extras, mapping>>
    BY <1>5, KnownAt DEF ReadCached, Inv, StoreInv, NoCall
  <2>2. CASE mapping \in {None, Blank}
    <3> PICK c : c = [proc[p] EXCEPT !.pc = "read"]
      OBVIOUS
    <3>1. Becomes(p, c)
      BY <1>5, <2>2 DEF ReadCached
    <3>2. c.pc = "read" /\ c.extra = proc[p].extra
      BY <2>1 DEF Reading
    <3>3. CallExplained(c)
      BY <1>1, <2>1, <3>2 DEF CallExplained
    <3>4. QED
      BY <1>1, <2>1, <3>1, <3>3, QuietStepExplained
  <2>3. CASE mapping \notin {None, Blank}
    BY <1>1, <1>5, <2>1, <2>3, ResolvedExplained DEF ReadCached
  <2>4. QED
    BY <2>2, <2>3
<1>6. CASE TruncateMapping(p)
  <2> PICK c : c = [proc[p] EXCEPT !.pc = "map"]
    OBVIOUS
  <2>1. proc[p] \in Mapping(Held) /\ proc[p] # NoCall /\ Becomes(p, c)
        /\ UNCHANGED <<files, extras>> /\ mapping' = Blank
    BY <1>6, KnownAt DEF TruncateMapping, Inv, StoreInv, NoCall
  <2>2. c.pc = "map" /\ c.extra = proc[p].extra /\ c.hash = proc[p].hash
    BY <2>1 DEF Mapping
  <2>3. CallExplained(c)
    BY <1>1, <1>6, <2>1, <2>2 DEF CallExplained, TruncateMapping
  <2>4. QED
    BY <2>1, <2>3, QuietStepExplained
<1>7. CASE WriteMapping(p)
  <2> PICK c : c = IF proc[p].start = None THEN NoCall ELSE [proc[p] EXCEPT !.pc = "recheck"]
    OBVIOUS
  <2>1. proc[p] \in Mapping(Held) /\ proc[p] # NoCall /\ Becomes(p, c)
        /\ UNCHANGED <<files, extras>> /\ mapping' = proc[p].hash
    BY <1>7, KnownAt DEF WriteMapping, Inv, StoreInv, NoCall
  <2>2. proc[p].hash \in Explained
    BY <1>1, <1>7 DEF CallExplained, WriteMapping
  <2>3. c # NoCall =>
            c.pc = "recheck" /\ c.extra = proc[p].extra /\ c.hash = proc[p].hash
    BY <2>1 DEF Mapping
  <2>4. CallExplained(c)
    BY <1>1, <1>2, <2>1, <2>2, <2>3 DEF CallExplained
  <2>5. QED
    BY <2>1, <2>2, <2>4, QuietStepExplained
<1>8. CASE Recheck(p) \/ RemoveCacheEntry(p) \/ WriteCacheEntry(p)
  <2>1. proc[p] \in Closing(Held) /\ proc[p] # NoCall
        /\ UNCHANGED <<files, extras, mapping>>
    BY <1>8, KnownAt DEF Recheck, RemoveCacheEntry, WriteCacheEntry, Inv, StoreInv, NoCall
  <2>2. proc[p].hash \in Explained
    BY <1>1, <1>8 DEF CallExplained, Recheck, RemoveCacheEntry, WriteCacheEntry
  <2>3. ASSUME NEW pc \in {"uncache", "cache"}, Becomes(p, [proc[p] EXCEPT !.pc = pc])
        PROVE  ExplainedInv'
    <3> PICK c : c = [proc[p] EXCEPT !.pc = pc]
      OBVIOUS
    <3>1. c.pc = pc /\ c.extra = proc[p].extra /\ c.hash = proc[p].hash
      BY <2>1 DEF Closing
    <3>2. CallExplained(c)
      BY <1>1, <2>1, <2>2, <3>1 DEF CallExplained
    <3>3. QED
      BY <1>1, <2>1, <2>3, <3>2, QuietStepExplained
  <2>4. \/ \E pc \in {"uncache", "cache"} : Becomes(p, [proc[p] EXCEPT !.pc = pc])
        \/ Resolved(p, proc[p].hash)
    BY <1>8 DEF Recheck, RemoveCacheEntry, WriteCacheEntry
  <2>5. QED
    BY <2>1, <2>2, <2>3, <2>4, ResolvedExplained
<1>9. CASE Abort(p)
  BY <1>1, <1>2, <1>9, QuietStepExplained DEF Abort
<1>10. QED
  BY <1>3, <1>4, <1>5, <1>6, <1>7, <1>8, <1>9

\* Nothing of the history changes.
LEMMA NothingToExplain ==
    ASSUME ExplainedInv, UNCHANGED <<files, extras, mapping, proc>>
    PROVE  ExplainedInv'
<1>1. Explained' = Explained
  BY DEF Explained, Held, AskedFor, Before, Parents, History!Ancestors,
         History!ClosedUnderParents, History!Range
<1>2. QED
  BY <1>1 DEF ExplainedInv, CallExplained

LEMMA ExplainedKept == Inv /\ ExplainedInv /\ [Next]_vars => ExplainedInv'
<1> SUFFICES ASSUME Inv, ExplainedInv, [Next]_vars PROVE ExplainedInv'
  OBVIOUS
<1>1. Inv'
  BY InvKept
<1>2. CASE Tick \/ User \/ UNCHANGED vars
  <2>1. UNCHANGED <<files, extras, mapping, proc>>
    BY <1>2 DEF vars, Tick, User, UserStep, Edit, Chmod, Create, Delete, MoveAside, MoveBack
  <2>2. QED
    BY <2>1, NothingToExplain
<1>3. CASE \E p \in Process : SnapshotCommand(p)
  <2> PICK p \in Process : SnapshotCommand(p)
    BY <1>3
  <2>1. CASE \E extra \in {<<>>} \cup {<<h>> : h \in DOMAIN files \cup Missing} : Open(p, extra)
    <3>1. PICK extra \in {<<>>} \cup {<<h>> : h \in DOMAIN files \cup Missing} : Open(p, extra)
      BY <2>1
    <3>2. extra \in Seq(Parent(Held))
      <4>1. <<>> \in Seq(Parent(Held)) /\ \A h \in Parent(Held) : <<h>> \in Seq(Parent(Held))
        OBVIOUS
      <4>2. extra = <<>> \/ \E h \in Parent(Held) : extra = <<h>>
        BY <3>1, HeldIsHash DEF Inv, Parent
      <4>3. QED
        BY <4>1, <4>2
    <3>3. QED
      BY <1>1, <3>1, <3>2, OpenExplained
  <2>2. CASE FindPrevious(p) \/ StoreFile(p) \/ AddParents(p)
    BY <1>1, <2>2, FindPreviousExplained, StoreFileExplained, AddParentsExplained
  <2>3. CASE \/ Lookup(p) \/ ReadContents(p) \/ ReadCached(p)
             \/ TruncateMapping(p) \/ WriteMapping(p)
             \/ Recheck(p) \/ RemoveCacheEntry(p) \/ WriteCacheEntry(p) \/ Abort(p)
    BY <2>3, OtherStepsExplained
  <2>4. QED
    BY <2>1, <2>2, <2>3 DEF SnapshotCommand
<1>4. QED
  BY <1>2, <1>3 DEF Next

\* Whatever is aborted, whoever runs the command at the same time, and whatever
\* histories the archive lacks: a log that starts at the path finds all but what
\* the history of an additional parent lacks that some call has asked for.
THEOREM HistoryComplete == Spec => []HistoryIsComplete
<1>1. Init => ExplainedInv
  BY DEF Init, ExplainedInv, CallExplained, NoCall
<1>2. Inv /\ ExplainedInv => HistoryIsComplete
  <2> SUFFICES ASSUME Inv, ExplainedInv, HasMapping
               PROVE  History!Ancestors(Parents, mapping) \subseteq DOMAIN files \cup AskedFor
    BY DEF HistoryIsComplete
  <2>1. mapping \in Explained
    BY SpecialAssumption, BoundsAssumption DEF ExplainedInv, HasMapping, Hash
  <2>2. QED
    BY <2>1, HeldIsHash DEF Explained, Before, Inv
<1>3. QED
  BY <1>1, <1>2, InvAlways, ExplainedKept, PTL DEF Spec

-----------------------------------------------------------------------------
(***************************************************************************)
(* That one process implements FileHistory.  The recursive function LineOf *)
(* is the line that exists because the first parent of a snapshot was      *)
(* stored before it; a call whose File differs from the latest one extends *)
(* it when the mapping is written, and no other step changes it.           *)
(***************************************************************************)
\* Induction for sets of numbers, which does not depend on the snapshots there.
Numbers == INSTANCE AncestryProofs WITH Snapshot <- {}, Histories <- {}

Version == [contents : Data, mode : Mode]

\* The first parent of a snapshot was stored before it.
Ordered == \A h \in Held : FirstParent(h) \in 0..(h - 1)

\* Up to any snapshot there is a line that goes from each to its first parent.
Lined(n, g) ==
    /\ g \in [0..n -> Seq(Version)] /\ g[0] = <<>>
    /\ \A h \in 1..n : g[h] = Append(g[FirstParent(h)], VersionOf(files[h]))

LEMMA LineExists ==
    ASSUME Inv, Ordered
    PROVE  \E g : Lined(Len(files), g)
<1> DEFINE S == {n \in Nat : n <= Len(files) => \E g : Lined(n, g)}
<1>1. Len(files) \in Nat /\ Held = 1..Len(files)
  BY HeldIsHash DEF Inv, Held
<1>2. 0 \in S
  <2> PICK g : g = [h \in 0..0 |-> <<>>]
    OBVIOUS
  <2>1. g \in [0..0 -> Seq(Version)] /\ g[0] = <<>>
    OBVIOUS
  <2>2. Lined(0, g)
    BY <2>1 DEF Lined
  <2>3. QED
    BY <2>2
<1>3. ASSUME NEW n \in Nat, n \in S, n + 1 <= Len(files)
      PROVE  \E g : Lined(n + 1, g)
  <2>1. PICK g : Lined(n, g)
    BY <1>1, <1>3
  <2> HIDE DEF S
  <2> PICK last : last = Append(g[FirstParent(n + 1)], VersionOf(files[n + 1]))
    OBVIOUS
  <2> PICK f : f = [h \in 0..(n + 1) |-> IF h = n + 1 THEN last ELSE g[h]]
    OBVIOUS
  <2>2. n + 1 \in Held /\ FirstParent(n + 1) \in 0..n
    BY <1>1, <1>3 DEF Ordered
  <2>3. VersionOf(files[n + 1]) \in Version
    BY <2>2, FileHeld DEF VersionOf, Version, FileOf, Inv
  <2>4. last \in Seq(Version)
    BY <2>1, <2>2, <2>3 DEF Lined
  <2>5. \A h \in 0..n : f[h] = g[h]
    OBVIOUS
  <2>6. f \in [0..(n + 1) -> Seq(Version)] /\ f[0] = <<>> /\ f[n + 1] = last
    <3>1. \A h \in 0..n : g[h] \in Seq(Version)
      BY <2>1 DEF Lined
    <3>2. \A h \in 0..(n + 1) : h = n + 1 \/ h \in 0..n
      OBVIOUS
    <3>3. \A h \in 0..(n + 1) : f[h] \in Seq(Version)
      BY <2>4, <2>5, <3>1, <3>2
    <3>4. 0 \in 0..n /\ g[0] = <<>>
      BY <2>1 DEF Lined
    <3>5. f \in [0..(n + 1) -> Seq(Version)]
      BY <3>3
    <3>6. f[n + 1] = last
      OBVIOUS
    <3>7. f[0] = <<>>
      BY <2>5, <3>4
    <3>8. QED
      BY <3>5, <3>6, <3>7
  <2>7. \A h \in 1..(n + 1) : f[h] = Append(f[FirstParent(h)], VersionOf(files[h]))
    <3> SUFFICES ASSUME NEW h \in 1..(n + 1)
                 PROVE  f[h] = Append(f[FirstParent(h)], VersionOf(files[h]))
      OBVIOUS
    <3>1. h \in Held /\ FirstParent(h) \in 0..(h - 1)
      BY <1>1, <1>3 DEF Ordered
    <3>2. f[FirstParent(h)] = g[FirstParent(h)]
      BY <3>1, <2>5
    <3>3. CASE h = n + 1
      BY <3>2, <3>3, <2>6
    <3>4. CASE h \in 1..n
      <4>1. g[h] = Append(g[FirstParent(h)], VersionOf(files[h]))
        BY <3>4, <2>1 DEF Lined
      <4>2. f[h] = g[h]
        BY <3>4, <2>5
      <4>3. QED
        BY <3>2, <4>1, <4>2
    <3>5. h = n + 1 \/ h \in 1..n
      OBVIOUS
    <3>6. QED
      BY <3>3, <3>4, <3>5
  <2>8. Lined(n + 1, f)
    BY <2>6, <2>7 DEF Lined
  <2>9. QED
    BY <2>8
<1>4. \A n \in Nat : n \in S => n + 1 \in S
  BY <1>3
<1> HIDE DEF S
<1>5. Nat \subseteq S
  BY <1>2, <1>4, Numbers!SetInduction
<1>6. QED
  BY <1>1, <1>5 DEF S

\* LineOf is that line.
LEMMA LineSolves ==
    ASSUME Inv, Ordered
    PROVE  Lined(Len(files), LineOf)
<1> DEFINE Step(g) == [h \in 0..Len(files) |->
                         IF h = 0 THEN <<>>
                         ELSE Append(g[FirstParent(h)], VersionOf(files[h]))]
<1>1. PICK g : Lined(Len(files), g)
  BY LineExists
<1>2. Len(files) \in Nat /\ Held = 1..Len(files)
  BY HeldIsHash DEF Inv, Held
<1>3. g = Step(g)
  <2>1. g = [h \in 0..Len(files) |-> g[h]]
    BY <1>1 DEF Lined
  <2>2. \A h \in 0..Len(files) : g[h] = Step(g)[h]
    BY <1>1, <1>2 DEF Lined
  <2>3. QED
    BY <2>1, <2>2
<1>4. LineOf = Step(LineOf)
  BY <1>3 DEF LineOf
<1>5. \A n \in Nat : n <= Len(files) => \A h \in 0..n : LineOf[h] = g[h]
  <2> DEFINE S == {n \in Nat : n <= Len(files) => \A h \in 0..n : LineOf[h] = g[h]}
  <2>1. 0 \in S
    BY <1>1, <1>2, <1>4 DEF Lined
  <2>2. ASSUME NEW n \in Nat, n \in S, n + 1 <= Len(files)
        PROVE  LineOf[n + 1] = g[n + 1]
    <3>1. n + 1 \in Held /\ FirstParent(n + 1) \in 0..n
      BY <1>2, <2>2 DEF Ordered
    <3>2. LineOf[FirstParent(n + 1)] = g[FirstParent(n + 1)]
      BY <1>2, <2>2, <3>1
    <3>3. LineOf[n + 1] = Step(LineOf)[n + 1] /\ g[n + 1] = Step(g)[n + 1]
      BY <1>3, <1>4
    <3>4. QED
      BY <1>2, <2>2, <3>2, <3>3
  <2>3. ASSUME NEW n \in Nat, n \in S PROVE n + 1 \in S
    <3>1. SUFFICES ASSUME n + 1 <= Len(files), NEW h \in 0..(n + 1) PROVE LineOf[h] = g[h]
      OBVIOUS
    <3>2. h \in 0..n \/ h = n + 1
      OBVIOUS
    <3>3. \A k \in 0..n : LineOf[k] = g[k]
      BY <1>2, <2>3, <3>1
    <3>4. LineOf[n + 1] = g[n + 1]
      BY <2>2, <2>3, <3>1
    <3>5. QED
      BY <3>2, <3>3, <3>4
  <2> HIDE DEF S
  <2>4. Nat \subseteq S
    BY <2>1, <2>3, Numbers!SetInduction
  <2>5. QED
    BY <2>4 DEF S
<1>6. \A h \in 0..Len(files) : LineOf[h] = g[h]
  BY <1>2, <1>5
<1>7. LineOf = g
  <2>1. g = [h \in 0..Len(files) |-> g[h]] /\ LineOf = [h \in 0..Len(files) |-> LineOf[h]]
    BY <1>1, <1>4 DEF Lined
  <2>2. QED
    BY <1>6, <2>1
<1>8. QED
  BY <1>1, <1>7

LEMMA LineSolvesNext == Inv' /\ Ordered' => Lined(Len(files), LineOf)'
BY LineSolves, PTL

\* The line up to a snapshot stays when more is stored.
LEMMA LineStays ==
    ASSUME Inv, Ordered, Inv', Ordered', Len(files) <= Len(files'),
           \A k \in Held : files'[k] = files[k]
    PROVE  \A h \in 0..Len(files) : LineOf'[h] = LineOf[h]
<1> DEFINE S == {n \in Nat : n <= Len(files) => \A h \in 0..n : LineOf'[h] = LineOf[h]}
<1>1. Len(files) \in Nat /\ Held = 1..Len(files)
  BY HeldIsHash DEF Inv, Held
<1>2. Len(files') \in Nat
  <2>1. Inv' => Len(files') \in Nat
    BY LenProperties DEF Inv, StoreInv
  <2>2. QED
    BY <2>1
<1>3. Lined(Len(files), LineOf) /\ Lined(Len(files), LineOf)'
  BY LineSolves, LineSolvesNext
<1>4. LineOf[0] = <<>> /\ LineOf'[0] = <<>>
  BY <1>3 DEF Lined
<1>5. \A h \in Held : /\ LineOf[h] = Append(LineOf[FirstParent(h)], VersionOf(files[h]))
                      /\ LineOf'[h] = Append(LineOf'[FirstParent(h)], VersionOf(files[h]))
  <2> SUFFICES ASSUME NEW h \in Held
               PROVE  /\ LineOf[h] = Append(LineOf[FirstParent(h)], VersionOf(files[h]))
                      /\ LineOf'[h] = Append(LineOf'[FirstParent(h)], VersionOf(files[h]))
    OBVIOUS
  <2>1. h \in 1..Len(files) /\ h \in 1..Len(files')
    BY <1>1, <1>2
  <2>2. files'[h] = files[h] /\ FirstParent(h)' = FirstParent(h)
    BY DEF FirstParent
  <2>3. LineOf'[h] = Append(LineOf'[FirstParent(h)'], VersionOf(files'[h]))
    BY <1>3, <2>1 DEF Lined, VersionOf
  <2>4. LineOf[h] = Append(LineOf[FirstParent(h)], VersionOf(files[h]))
    BY <1>3, <2>1 DEF Lined
  <2>5. QED
    BY <2>2, <2>3, <2>4
<1>6. 0 \in S
  BY <1>4
<1>7. ASSUME NEW n \in Nat, n \in S PROVE n + 1 \in S
  <2>1. SUFFICES ASSUME n + 1 <= Len(files), NEW h \in 0..(n + 1) PROVE LineOf'[h] = LineOf[h]
    OBVIOUS
  <2>2. \A k \in 0..n : LineOf'[k] = LineOf[k]
    BY <1>1, <1>7, <2>1
  <2>3. CASE h = n + 1
    <3>1. h \in Held /\ FirstParent(h) \in 0..n
      BY <1>1, <2>1, <2>3 DEF Ordered
    <3>2. QED
      BY <1>5, <2>2, <3>1
  <2>4. QED
    BY <2>2, <2>3
<1> HIDE DEF S
<1>8. Nat \subseteq S
  BY <1>6, <1>7, Numbers!SetInduction
<1>9. QED
  BY <1>1, <1>8 DEF S

\* A File that continues the line of the mapping.
Continues(f) ==
    /\ mapping # Blank
    /\ mapping = None => f.parents = <<>>
    /\ mapping # None => f.parents = <<mapping>> /\ VersionOf(files[mapping]) # VersionOf(f)

\* The parents of the snapshot h are none, or one of another version.
Differs(h) ==
    FirstParent(h) # 0 => VersionOf(files[FirstParent(h)]) # VersionOf(files[h])

\* What the call knows of the File that it is about to record.
LineInv(p) ==
    /\ Ordered
    /\ mapping = Blank => proc[p].pc = "map"
    /\ proc[p].pc = "store" => Continues(proc[p].file)
    /\ proc[p].pc = "truncate" => Continues(files[proc[p].hash])
    /\ proc[p].pc = "map" => mapping = Blank /\ Differs(proc[p].hash)

\* What Latest is, without the choice of the process.
LEMMA LatestIs ==
    ASSUME Inv, NEW p, Process = {p}
    PROVE  /\ mapping \in Held => Latest = mapping
           /\ mapping = None => Latest = 0
           /\ mapping = Blank /\ proc[p].pc = "map" => Latest = FirstParent(proc[p].hash)
<1>1. Held \subseteq Hash /\ Hash \subseteq Nat
  BY HeldIsHash DEF Inv, Hash
<1>2. None \notin Hash /\ Blank \notin Hash /\ None # Blank
  BY <1>1, SpecialAssumption
<1>3. mapping \in Held => Latest = mapping
  BY <1>1 DEF Latest, HasMapping
<1>4. mapping = None => Latest = 0
  BY <1>2 DEF Latest, HasMapping
<1>5. ASSUME mapping = Blank, proc[p].pc = "map"
      PROVE  Latest = FirstParent(proc[p].hash)
  <2>1. proc[p] # NoCall
    BY <1>5 DEF NoCall
  <2>2. (CHOOSE q \in Process : proc[q] # NoCall) = p
    BY <2>1
  <2>3. QED
    BY <1>2, <1>5, <2>2 DEF Latest, HasMapping
<1>6. QED
  BY <1>3, <1>4, <1>5

LEMMA LatestIsNext ==
    ASSUME NEW p, Process = {p}
    PROVE  Inv' => (/\ mapping \in Held => Latest = mapping
                    /\ mapping = None => Latest = 0
                    /\ mapping = Blank /\ proc[p].pc = "map" =>
                           Latest = FirstParent(proc[p].hash))'
BY LatestIs, PTL

\* The latest snapshot is stored.
LEMMA LatestHeld ==
    ASSUME Inv, NEW p, Process = {p}, LineInv(p)
    PROVE  Latest \in 0..Len(files)
<1>1. Len(files) \in Nat /\ Held = 1..Len(files)
  BY HeldIsHash DEF Inv, Held
<1>2. CASE mapping = Blank
  <2>1. proc[p].pc = "map" /\ Latest = FirstParent(proc[p].hash)
    BY <1>2, LatestIs DEF LineInv
  <2>2. proc[p].hash \in Held
    BY <2>1, KnownAt DEF Inv, StoreInv, Mapping
  <2>3. FirstParent(proc[p].hash) \in 0..(proc[p].hash - 1)
    BY <2>2 DEF LineInv, Ordered
  <2>4. QED
    BY <1>1, <2>1, <2>2, <2>3
<1>3. CASE mapping # Blank
  BY <1>1, <1>3, LatestIs DEF Inv, StoreInv
<1>4. QED
  BY <1>2, <1>3

\* A step that stores nothing and leaves the mapping.
LEMMA LineWaits ==
    ASSUME Inv, Inv', NEW p, Process = {p}, LineInv(p), LineInv(p)',
           UNCHANGED mapping, mapping # Blank, Len(files) <= Len(files'),
           \A k \in Held : files'[k] = files[k]
    PROVE  LineOf'[Latest'] = LineOf[Latest]
<1>1. mapping \in Held \cup {None} /\ mapping' = mapping
  BY DEF Inv, StoreInv
<1>2. Len(files) \in Nat /\ Held = 1..Len(files) /\ Held \subseteq Held'
  <2>1. Len(files) \in Nat
    BY HeldIsHash DEF Inv
  <2>2. Inv' => Len(files') \in Nat
    BY LenProperties DEF Inv, StoreInv
  <2>3. QED
    BY <2>1, <2>2 DEF Held
<1>3. Latest' = Latest
  BY <1>1, <1>2, LatestIs, LatestIsNext
<1>4. Latest \in 0..Len(files)
  BY LatestHeld
<1>5. QED
  BY <1>3, <1>4, LineStays DEF LineInv

LEMMA LineStaysBlank ==
    ASSUME Inv, Inv', NEW p, Process = {p}, LineInv(p), LineInv(p)',
           UNCHANGED <<files, mapping>>, mapping = Blank, proc'[p] = proc[p]
    PROVE  LineOf'[Latest'] = LineOf[Latest]
<1>1. Latest = FirstParent(proc[p].hash) /\ Latest' = FirstParent(proc[p].hash)'
  BY LatestIs, LatestIsNext DEF LineInv
<1>2. Latest' = Latest
  BY <1>1 DEF FirstParent
<1>3. Len(files) \in Nat
  BY HeldIsHash DEF Inv
<1>4. QED
  BY <1>2, <1>3, LatestHeld, LineStays DEF LineInv, Held

\* A step after which the call has no new File in its hands.
LEMMA LineMoves ==
    ASSUME Inv, NEW p, Process = {p}, LineInv(p), proc[p].pc # "map", NEW c, Becomes(p, c),
           UNCHANGED <<files, mapping>>, c.pc \notin {"store", "truncate", "map"}
    PROVE  LineInv(p)'
<1>1. proc'[p] = c /\ Held' = Held
  BY ProcBecomes DEF Held
<1>2. Ordered'
  BY <1>1 DEF LineInv, Ordered, FirstParent
<1>3. QED
  BY <1>1, <1>2 DEF LineInv

LEMMA LineSame ==
    ASSUME NEW p \in Process, LineInv(p), UNCHANGED <<files, mapping, proc>>
    PROVE  LineInv(p)'
BY DEF LineInv, Ordered, FirstParent, Held, Continues, Differs, VersionOf

LEMMA ResolvedIsOver ==
    ASSUME Inv, NEW p, Process = {p}, HistoryInv(p), LineInv(p), NEW h, Resolved(p, h),
           proc[p] # NoCall, proc[p].pc # "map", UNCHANGED <<files, mapping>>
    PROVE  LineInv(p)'
<1>1. Becomes(p, NoCall)
  BY DEF Resolved, HistoryInv, CallKeepsHistory
<1>2. QED
  BY <1>1, LineMoves DEF NoCall

LEMMA ReadingKeepsLine ==
    ASSUME Inv, NEW p, Process = {p}, HistoryInv(p), LineInv(p),
           \/ \E extra : Open(p, extra)
           \/ Lookup(p) \/ ReadCached(p) \/ ReadContents(p)
    PROVE  LineInv(p)' /\ mapping # Blank /\ UNCHANGED <<files, mapping>>
<1>1. proc[p].pc # "map" /\ mapping # Blank /\ UNCHANGED <<files, mapping>>
  <2>1. mapping = Blank => proc[p].pc = "map"
    BY DEF LineInv
  <2>2. proc[p].pc # "map" /\ UNCHANGED <<files, mapping>>
    <3>1. ASSUME NEW extra, Open(p, extra)
          PROVE  proc[p].pc # "map" /\ UNCHANGED <<files, mapping>>
      BY <3>1 DEF Open, NoCall
    <3>2. CASE Lookup(p) \/ ReadCached(p) \/ ReadContents(p)
      BY <3>2 DEF Lookup, ReadCached, ReadContents
    <3>3. QED
      BY <3>1, <3>2
  <2>3. QED
    BY <2>1, <2>2
<1>2. CASE \E extra : Open(p, extra)
  <2> PICK extra : Open(p, extra)
    BY <1>2
  <2> PICK c : c = [pc |-> "lookup", info |-> StatOf(path), extra |-> extra]
    OBVIOUS
  <2>1. Becomes(p, c)
    BY DEF Open
  <2>2. QED
    BY <1>1, <2>1, LineMoves
<1>3. CASE Lookup(p)
  <2> PICK c : c = [pc    |-> IF cache = proc[p].info THEN "cached" ELSE "read",
                    info  |-> proc[p].info, extra |-> proc[p].extra,
                    start |-> now - (now % TicksPerSecond)]
    OBVIOUS
  <2>1. Becomes(p, c) /\ c.pc \in {"cached", "read"}
    BY <1>3 DEF Lookup
  <2>2. QED
    BY <1>1, <2>1, LineMoves
<1>4. CASE ReadCached(p)
  <2>1. CASE mapping \in {None, Blank}
    <3> PICK c : c = [proc[p] EXCEPT !.pc = "read"]
      OBVIOUS
    <3>1. Becomes(p, c) /\ proc[p] \in Reading(Held)
      BY <1>4, <2>1, KnownAt DEF ReadCached, Inv, StoreInv
    <3>2. c.pc = "read"
      BY <3>1 DEF Reading
    <3>3. QED
      BY <1>1, <3>1, <3>2, LineMoves
  <2>2. CASE mapping \notin {None, Blank}
    BY <1>1, <1>4, <2>2, ResolvedIsOver DEF ReadCached, NoCall
  <2>3. QED
    BY <2>1, <2>2
<1>5. CASE ReadContents(p)
  <2> PICK c : c = [pc    |-> "find", info  |-> proc[p].info, extra |-> proc[p].extra,
                    start |-> proc[p].start, data  |-> disk[proc[p].info.ino].data]
    OBVIOUS
  <2>1. Becomes(p, c)
    BY <1>5 DEF ReadContents
  <2>2. QED
    BY <1>1, <2>1, LineMoves
<1>6. QED
  BY <1>1, <1>2, <1>3, <1>4, <1>5

LEMMA FindPreviousKeepsLine ==
    ASSUME Inv, NEW p, Process = {p}, LineInv(p), FindPrevious(p)
    PROVE  LineInv(p)' /\ mapping # Blank /\ UNCHANGED <<files, mapping>>
<1> PICK f : f = [contents |-> proc[p].data, mode |-> proc[p].info.mode,
                  parents |-> IF mapping = None THEN <<>> ELSE <<mapping>>]
  OBVIOUS
<1> PICK same : same = [pc |-> "recheck", info |-> proc[p].info, extra |-> proc[p].extra,
                        start |-> proc[p].start, hash |-> mapping]
  OBVIOUS
<1> PICK new : new = [pc |-> "store", info |-> proc[p].info, extra |-> proc[p].extra,
                      start |-> proc[p].start, file |-> f]
  OBVIOUS
<1>1. UNCHANGED <<files, mapping>> /\ proc[p].pc # "map" /\ mapping # Blank
  BY DEF FindPrevious, LineInv
<1>2. CASE Becomes(p, same)
  BY <1>1, <1>2, LineMoves
<1>3. CASE /\ Becomes(p, new)
           /\ ~(mapping # None /\ files[mapping].mode = f.mode
                               /\ files[mapping].contents = f.contents)
  <2>1. proc'[p] = new /\ Held' = Held
    BY <1>1, <1>3, ProcBecomes DEF Held
  <2>2. Ordered'
    BY <1>1, <2>1 DEF LineInv, Ordered, FirstParent
  <2>3. mapping # None => VersionOf(files[mapping]) # VersionOf(f)
    BY <1>3 DEF VersionOf
  <2>4. Continues(f)'
    <3>1. VersionOf(f)' = VersionOf(f) /\ (mapping # None => f.parents = <<mapping>>)
      BY DEF VersionOf
    <3>2. QED
      BY <1>1, <2>3, <3>1 DEF Continues, VersionOf
  <2>5. QED
    BY <1>1, <2>1, <2>2, <2>4 DEF LineInv
<1>4. QED
  BY <1>1, <1>2, <1>3 DEF FindPrevious

LEMMA StoreFileKeepsLine ==
    ASSUME Inv, Inv', NEW p, Process = {p}, LineInv(p), StoreFile(p)
    PROVE  LineInv(p)' /\ mapping # Blank /\ UNCHANGED mapping
           /\ Len(files) <= Len(files') /\ \A k \in Held : files'[k] = files[k]
<1>1. PICK h \in Held' :
         /\ files'[h] = proc[p].file
         /\ Len(files) \in Nat /\ Len(files') \in Nat /\ Len(files) <= Len(files')
         /\ Held \subseteq Held' /\ \A k \in Held : files'[k] = files[k]
         /\ Becomes(p, [pc |-> "truncate", info |-> proc[p].info, extra |-> proc[p].extra,
                        start |-> proc[p].start, hash |-> h])
  BY FileStored
<1> PICK c : c = [pc |-> "truncate", info |-> proc[p].info, extra |-> proc[p].extra,
                  start |-> proc[p].start, hash |-> h]
  OBVIOUS
<1>2. proc'[p] = c /\ c.pc = "truncate" /\ c.hash = h
  BY <1>1, ProcBecomes
<1>3. UNCHANGED mapping /\ mapping # Blank /\ Continues(proc[p].file)
  BY DEF StoreFile, LineInv
<1>4. mapping # None => mapping \in Held /\ mapping \in Held'
  BY <1>1, <1>3 DEF Inv, StoreInv
<1>5. Continues(files[h])'
  BY <1>1, <1>3, <1>4 DEF Continues, VersionOf
<1>6. Ordered'
  <2> SUFFICES ASSUME NEW k \in Held' PROVE FirstParent(k)' \in 0..(k - 1)
    BY DEF Ordered
  <2>1. CASE k \in Held
    BY <1>1, <2>1 DEF LineInv, Ordered, FirstParent
  <2>2. CASE k \notin Held
    <3>1. files' = Append(files, proc[p].file) \/ files' = files
      BY DEF StoreFile
    <3>2. files' # files
      BY <2>2 DEF Held
    <3>3. k = Len(files) + 1 /\ files'[k] = proc[p].file
      <4>1. Len(files') = Len(files) + 1 /\ files'[Len(files) + 1] = proc[p].file
        <5>1. proc[p].file \in FileOf(Held) /\ files \in Seq(FileOf(Held))
          BY KnownAt DEF Inv, StoreInv, StoreFile, Storing
        <5>2. QED
          BY <3>1, <3>2, <5>1, AppendProperties
      <4>2. QED
        BY <1>1, <2>2, <4>1 DEF Held
    <3>4. FirstParent(k)' = IF mapping = None THEN 0 ELSE mapping
      BY <1>3, <3>3 DEF Continues, FirstParent
    <3>5. QED
      BY <1>1, <1>4, <3>3, <3>4 DEF Held
  <2>3. QED
    BY <2>1, <2>2
<1>7. LineInv(p)'
  BY <1>2, <1>3, <1>5, <1>6 DEF LineInv
<1>8. QED
  BY <1>1, <1>3, <1>7

LEMMA ClosingKeepsLine ==
    ASSUME Inv, NEW p, Process = {p}, HistoryInv(p), LineInv(p),
           Recheck(p) \/ RemoveCacheEntry(p) \/ WriteCacheEntry(p)
    PROVE  LineInv(p)' /\ mapping # Blank /\ UNCHANGED <<files, mapping>>
<1>1. proc[p] \in Closing(Held) /\ proc[p] # NoCall /\ UNCHANGED <<files, mapping>>
      /\ proc[p].pc # "map" /\ mapping # Blank
  BY KnownAt DEF Recheck, RemoveCacheEntry, WriteCacheEntry, Inv, StoreInv, NoCall, LineInv
<1>2. CASE Resolved(p, proc[p].hash)
  BY <1>1, <1>2, ResolvedIsOver
<1>3. ASSUME NEW s \in {"uncache", "cache"}, Becomes(p, [proc[p] EXCEPT !.pc = s])
      PROVE  LineInv(p)'
  <2> PICK c : c = [proc[p] EXCEPT !.pc = s]
    OBVIOUS
  <2>1. c.pc = s
    BY <1>1 DEF Closing
  <2>2. QED
    BY <1>1, <1>3, <2>1, LineMoves
<1>4. QED
  BY <1>1, <1>2, <1>3 DEF Recheck, RemoveCacheEntry, WriteCacheEntry

\* The mapping is blank while it is written, and the line stays.
LEMMA TruncateKeepsLine ==
    ASSUME Inv, Inv', NEW p, Process = {p}, LineInv(p), TruncateMapping(p)
    PROVE  LineInv(p)' /\ LineOf'[Latest'] = LineOf[Latest]
<1>1. proc[p] \in Mapping(Held) /\ UNCHANGED files /\ mapping' = Blank
  BY KnownAt DEF TruncateMapping, Inv, StoreInv
<1> PICK c : c = [proc[p] EXCEPT !.pc = "map"]
  OBVIOUS
<1> PICK h : h = proc[p].hash
  OBVIOUS
<1>2. proc'[p] = c /\ c.pc = "map" /\ c.hash = h /\ h \in Held
  BY <1>1, ProcBecomes DEF TruncateMapping, Mapping
<1>3. Continues(files[h])
  BY DEF TruncateMapping, LineInv
<1>4. mapping \in Held \cup {None} /\ Held \subseteq Nat \ {0} /\ Len(files) \in Nat
  BY <1>3, HeldIsHash DEF Continues, Inv, StoreInv, Hash
<1>5. FirstParent(h) = IF mapping = None THEN 0 ELSE mapping
  <2>1. files[h].parents = IF mapping = None THEN <<>> ELSE <<mapping>>
    BY <1>3 DEF Continues
  <2>2. <<mapping>> # <<>> /\ <<mapping>>[1] = mapping
    OBVIOUS
  <2>3. QED
    BY <2>1, <2>2 DEF FirstParent
<1>6. Differs(h)
  BY <1>3, <1>5 DEF Continues, Differs
<1>7. Held' = Held /\ Ordered' /\ Differs(h)'
  BY <1>1, <1>6 DEF Held, LineInv, Ordered, Differs, FirstParent, VersionOf
<1>8. LineInv(p)'
  BY <1>1, <1>2, <1>7 DEF LineInv
<1>9. Latest = FirstParent(h)
  BY <1>4, <1>5, LatestIs
<1>10. Latest' = FirstParent(h)
  <2>1. Latest' = FirstParent(proc[p].hash)'
    BY <1>1, <1>2, LatestIsNext
  <2>2. QED
    BY <1>1, <1>2, <2>1 DEF FirstParent
<1>11. Latest \in 0..Len(files)
  BY LatestHeld
<1>12. QED
  BY <1>1, <1>4, <1>8, <1>9, <1>10, <1>11, LineStays DEF LineInv

\* The new mapping adds its version to the line.
LEMMA WriteMappingExtendsLine ==
    ASSUME Inv, Inv', NEW p, Process = {p}, HistoryInv(p), LineInv(p), WriteMapping(p)
    PROVE  LineInv(p)' /\ \E v \in Version : Line!Record(v)
<1>1. proc[p] \in Mapping(Held) /\ UNCHANGED files /\ mapping = Blank
  BY KnownAt DEF WriteMapping, Inv, StoreInv, LineInv
<1> PICK c : c = [proc[p] EXCEPT !.pc = "recheck"]
  OBVIOUS
<1> PICK h : h = proc[p].hash
  OBVIOUS
<1>2. proc'[p] = c /\ mapping' = h /\ h \in Held /\ c.pc = "recheck"
  BY <1>1, ProcBecomes DEF WriteMapping, Mapping, HistoryInv, CallKeepsHistory
<1>3. Held' = Held /\ Blank \notin Held /\ Len(files) \in Nat /\ Held = 1..Len(files)
  BY <1>1, HeldIsHash, SpecialAssumption DEF Held, Inv, Hash
<1>4. LineInv(p)'
  BY <1>1, <1>2, <1>3 DEF LineInv, Ordered, FirstParent
<1> PICK k : k = FirstParent(h)
  OBVIOUS
<1> PICK v : v = VersionOf(files[h])
  OBVIOUS
<1>5. Latest = k /\ Latest' = h /\ k \in 0..(h - 1)
  <2>1. Latest = k
    BY <1>1, LatestIs DEF WriteMapping
  <2>2. Latest' = h
    BY <1>2, <1>3, LatestIsNext
  <2>3. k \in 0..(h - 1)
    BY <1>2 DEF LineInv, Ordered
  <2>4. QED
    BY <2>1, <2>2, <2>3
<1>6. LineOf'[h] = LineOf[h]
  BY <1>1, <1>2, <1>3, <1>4, LineStays DEF LineInv
<1>7. LineOf[h] = Append(LineOf[k], v)
  BY <1>2, <1>3, LineSolves DEF Lined, LineInv
<1>8. v \in Version
  BY <1>2, FileHeld DEF VersionOf, Version, FileOf, Inv
<1>9. LineOf[k] = <<>> \/ LineOf[k][Len(LineOf[k])] # v
  <2>1. CASE k = 0
    BY <2>1, LineSolves DEF Lined, LineInv
  <2>2. CASE k # 0
    <3>1. k \in Held /\ VersionOf(files[k]) # v
      BY <1>2, <1>3, <1>5, <2>2 DEF LineInv, Differs, WriteMapping
    <3> PICK w : w = VersionOf(files[k])
      OBVIOUS
    <3> PICK s : s = LineOf[FirstParent(k)]
      OBVIOUS
    <3>2. w \in Version
      BY <3>1, FileHeld DEF VersionOf, Version, FileOf, Inv
    <3>3. LineOf[k] = Append(s, w)
      BY <1>3, <3>1, LineSolves DEF Lined, LineInv
    <3>4. FirstParent(k) \in 0..Len(files)
      BY <1>3, <3>1 DEF LineInv, Ordered
    <3>5. s \in Seq(Version)
      BY <3>4, LineSolves DEF Lined, LineInv
    <3>6. LineOf[k][Len(LineOf[k])] = w
      BY <3>2, <3>3, <3>5, AppendProperties
    <3>7. QED
      BY <3>1, <3>6
  <2>3. QED
    BY <2>1, <2>2
<1>10. Line!Record(v)
  BY <1>5, <1>6, <1>7, <1>9 DEF Line!Record
<1>11. QED
  BY <1>4, <1>8, <1>10

\* Every step of the code is one of FileHistory or none.
LEMMA LineStep ==
    ASSUME NEW p, Process = {p}, MaxExtra = 0, MaxAborts = 0,
           Inv, Inv', HistoryInv(p), LineInv(p), [Next]_vars
    PROVE  LineInv(p)' /\ [Line!Next]_(LineOf[Latest])
<1>1. CASE Tick \/ User \/ UNCHANGED vars
  <2>1. UNCHANGED <<files, mapping, proc>>
    BY <1>1 DEF Tick, User, UserStep, Edit, Chmod, Create, Delete, MoveAside, MoveBack, vars
  <2>2. LineInv(p)' /\ Held' = Held /\ Len(files) \in Nat
    BY <2>1, LineSame, HeldIsHash DEF Held, Inv
  <2>3. CASE mapping = Blank
    BY <2>1, <2>2, <2>3, LineStaysBlank
  <2>4. CASE mapping # Blank
    BY <2>1, <2>2, <2>4, LineWaits
  <2>5. QED
    BY <2>2, <2>3, <2>4
<1>2. CASE SnapshotCommand(p)
  <2>1. ASSUME LineInv(p)', mapping # Blank, UNCHANGED <<files, mapping>>
        PROVE  LineOf'[Latest'] = LineOf[Latest]
    <3>1. Len(files) <= Len(files') /\ \A k \in Held : files'[k] = files[k]
      BY <2>1, HeldIsHash DEF Inv
    <3>2. QED
      BY <2>1, <3>1, LineWaits
  <2>2. CASE \/ \E extra : Open(p, extra)
             \/ Lookup(p) \/ ReadCached(p) \/ ReadContents(p)
    BY <2>1, <2>2, ReadingKeepsLine
  <2>3. CASE FindPrevious(p)
    BY <2>1, <2>3, FindPreviousKeepsLine
  <2>4. CASE StoreFile(p)
    BY <2>4, StoreFileKeepsLine, LineWaits
  <2>5. CASE TruncateMapping(p)
    BY <2>5, TruncateKeepsLine
  <2>6. CASE WriteMapping(p)
    <3>1. LineInv(p)' /\ \E v \in Version : Line!Record(v)
      BY <2>6, WriteMappingExtendsLine
    <3>2. QED
      BY <3>1 DEF Line!Next, Version
  <2>7. CASE Recheck(p) \/ RemoveCacheEntry(p) \/ WriteCacheEntry(p)
    BY <2>1, <2>7, ClosingKeepsLine
  <2>8. ~AddParents(p) /\ ~Abort(p)
    BY DEF AddParents, Abort, Inv, Bounded, HistoryInv, CallKeepsHistory, NoCall
  <2>9. QED
    BY <1>2, <2>2, <2>3, <2>4, <2>5, <2>6, <2>7, <2>8 DEF SnapshotCommand
<1>3. QED
  BY <1>1, <1>2 DEF Next

\* What one process without additional parents and aborts does to the mapping
\* of a path is what FileHistory promises, provided that the other snapshots
\* in the archive name as their first parents only what was stored before.
THEOREM KeepsALine ==
    ASSUME NEW p, Process = {p}, MaxExtra = 0, MaxAborts = 0,
           \A h \in 1..Len(FirstFiles) :
               FirstFiles[h].parents # <<>> => FirstFiles[h].parents[1] \in 1..(h - 1)
    PROVE  Spec => LineOfVersions
<1>1. ASSUME Init PROVE HistoryInv(p) /\ LineInv(p) /\ LineOf[Latest] = <<>>
  <2>1. proc[p] = NoCall /\ mapping = None /\ taken = {} /\ files = FirstFiles
    BY <1>1 DEF Init
  <2>2. Inv /\ Held \subseteq Nat
    BY <1>1, InvInitially, HeldIsHash DEF Inv, Hash
  <2>3. HistoryInv(p)
    BY <2>1, <2>2, SpecialAssumption DEF HistoryInv, CallKeepsHistory, NoCall
  <2>4. Ordered
    <3> SUFFICES ASSUME NEW h \in Held PROVE FirstParent(h) \in 0..(h - 1)
      BY DEF Ordered
    <3>1. h \in 1..Len(FirstFiles) /\ h \in Nat \ {0}
      BY <2>1, <2>2, HeldIsHash DEF Held, Inv, Hash
    <3>2. CASE files[h].parents = <<>>
      BY <3>1, <3>2 DEF FirstParent
    <3>3. CASE files[h].parents # <<>>
      <4>1. files[h].parents[1] \in 1..(h - 1)
        BY <2>1, <3>1, <3>3
      <4>2. QED
        BY <3>1, <3>3, <4>1 DEF FirstParent
    <3>4. QED
      BY <3>2, <3>3
  <2>5. LineInv(p)
    BY <2>1, <2>4, SpecialAssumption DEF LineInv, NoCall
  <2>6. Latest = 0 /\ LineOf[0] = <<>>
    BY <2>1, <2>2, <2>4, LatestIs, LineSolves DEF Lined
  <2>7. QED
    BY <2>3, <2>5, <2>6
<1>2. Inv /\ HistoryInv(p) /\ [Next]_vars => HistoryInv(p)'
  BY HistoryInvKept
<1>3. Inv /\ Inv' /\ HistoryInv(p) /\ LineInv(p) /\ [Next]_vars =>
          LineInv(p)' /\ [Line!Next]_(LineOf[Latest])
  BY LineStep
<1>4. Init => Line!Init
  BY <1>1 DEF Line!Init
<1>5. QED
  BY <1>1, <1>2, <1>3, <1>4, InvAlways, PTL DEF Spec, LineOfVersions, Line!Spec
=============================================================================
