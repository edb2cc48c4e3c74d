----------------------------- MODULE ObjectStore -----------------------------
(***************************************************************************)
(* The object store of storage.LocalFiles (storage/storage.go):            *)
(* StoreObject and ReadObject, run by several `rvcs` processes on one      *)
(* archive directory without any locking.                                  *)
(*                                                                         *)
(* An object is named by the hash of its contents, so the model names both *)
(* by the same value.  An object whose announced size is over 1 MiB goes   *)
(* to the large object storage, encrypted to the identity of the archive,  *)
(* which the first process that needs it generates; the others are stored  *)
(* as they are.  The file system calls are the atomic steps.  A process    *)
(* may die between any two of them; the file system itself does not crash. *)
(***************************************************************************)
EXTENDS Naturals, FiniteSets

CONSTANTS
    Process,            \* the rvcs processes
    Object,             \* the objects, each standing for contents and hash
    Key,                \* the age identities that may be generated
    NoFile,             \* a file that does not exist
    Blank,              \* the identity file, created or truncated but not yet written
    NoKey,              \* a process that holds no key
    NoWriter,           \* an encrypted file that has all of its contents
    Dead,               \* an encrypted file whose writer died before its end
    FirstIdentity,      \* the identity file at the start: a key or NoFile
    MaxCrashes          \* bound on the number of processes that die

ASSUME SpecialValues ==
    /\ Key \cap {NoFile, Blank, NoKey} = {}
    /\ Process \cap {NoWriter, Dead} = {}
    /\ NoWriter # Dead
    /\ NoFile # Blank
    /\ NoFile \notin [key : Key, writer : Process \cup {NoWriter, Dead}]
ASSUME ObjectAssumption == Object # {}
ASSUME FirstIdentityAssumption == FirstIdentity \in Key \cup {NoFile}
ASSUME MaxCrashesAssumption == MaxCrashes \in Nat

VARIABLES
    identity,           \* the file rvcs-identity of the archive
    small,              \* the objects in the small object storage
    large,              \* for each object, its file in the large object storage
    proc,               \* the call each process is in
    returned,           \* the objects for which a StoreObject has returned
    crashes             \* how many processes have died

vars == <<identity, small, large, proc, returned, crashes>>

(***************************************************************************)
(* An encrypted file: the key it is encrypted to, and the process that has *)
(* yet to write its last chunk.  That process writes through its open file *)
(* descriptor, wherever the file has been renamed to.                      *)
(***************************************************************************)
EncryptedFile == [key : Key, writer : Process \cup {NoWriter, Dead}]

\* A call: where it is, the object, the key it read from the identity file,
\* the file a ReadObject has open, whether a StoreObject of that object had
\* returned when the ReadObject began, and how the last call went.
Call == [pc     : {"idle", "identity", "create", "write", "readback", "stream",
                   "rename", "close", "openLarge", "decrypt"},
         op     : {"store", "read"},
         object : Object,
         big    : BOOLEAN,
         key    : Key \cup {NoKey},
         opened : EncryptedFile \cup {NoFile},
         stored : BOOLEAN,
         result : {"none", "whole", "missing", "failed", "truncated"}]

TypeOK ==
    /\ identity \in Key \cup {NoFile, Blank}
    /\ small \subseteq Object
    /\ large \in [Object -> EncryptedFile \cup {NoFile}]
    /\ proc \in [Process -> Call]
    /\ returned \subseteq Object
    /\ crashes \in Nat

\* A call about the object o that has just begun.
Begin(o) == [pc |-> "idle", op |-> "store", object |-> o, big |-> FALSE,
             key |-> NoKey, opened |-> NoFile, stored |-> FALSE, result |-> "none"]

Idle == Begin(CHOOSE o \in Object : TRUE)

Init ==
    /\ identity = FirstIdentity
    /\ small = {}
    /\ large = [o \in Object |-> NoFile]
    /\ proc = [p \in Process |-> Idle]
    /\ returned = {}
    /\ crashes = 0

-----------------------------------------------------------------------------
Goto(p, pc) == proc' = [proc EXCEPT ![p].pc = pc]

\* The call of p ends, and leaves its result behind.
Finish(p, result) ==
    proc' = [proc EXCEPT ![p] = [Idle EXCEPT !.result = result, !.stored = proc[p].stored]]

\* StoreObject begins: it creates a temporary file in the staging directory.
\* The announced size decides where the object goes, and need not be the size
\* of what is read later.
StoreObject(p, o, big) ==
    /\ proc[p].pc = "idle"
    /\ proc' = [proc EXCEPT ![p] = [Begin(o) EXCEPT !.big = big,
                                        !.pc = IF big THEN "identity" ELSE "stream"]]
    /\ UNCHANGED <<identity, small, large, returned, crashes>>

\* ReadObject begins: it tries the small object storage, whose files are
\* never encrypted.
ReadObject(p, o) ==
    /\ proc[p].pc = "idle"
    /\ proc' = [proc EXCEPT ![p] =
                   IF o \in small
                   THEN [Idle EXCEPT !.result = "whole", !.stored = o \in returned]
                   ELSE [Begin(o) EXCEPT !.op = "read", !.pc = "openLarge",
                                         !.stored = o \in returned]]
    /\ UNCHANGED <<identity, small, large, returned, crashes>>

\* Fault: a file that is being written does not count as an object.
OpenLargeComplete(p) ==
    /\ proc[p].pc = "openLarge"
    /\ IF large[proc[p].object] = NoFile \/ large[proc[p].object].writer # NoWriter
       THEN Finish(p, "missing")
       ELSE proc' = [proc EXCEPT ![p].opened = large[proc[p].object],
                                 ![p].pc = "identity"]
    /\ UNCHANGED <<identity, small, large, returned, crashes>>

OpenLarge(p) ==
    /\ proc[p].pc = "openLarge"
    /\ IF large[proc[p].object] = NoFile
       THEN Finish(p, "missing")
       ELSE proc' = [proc EXCEPT ![p].opened = large[proc[p].object],
                                 ![p].pc = "identity"]
    /\ UNCHANGED <<identity, small, large, returned, crashes>>

-----------------------------------------------------------------------------
(***************************************************************************)
(* identity(): read the identity file; if there is none generate a key,    *)
(* write it with os.WriteFile, which truncates and then writes, and read   *)
(* the file back.  An identity file that does not parse is an error.       *)
(***************************************************************************)
UsedKeys ==
    {identity} \cup {large[o].key : o \in {x \in Object : large[x] # NoFile}}
               \cup {proc[p].key : p \in Process}

HaveIdentity(p, key) ==
    proc' = [proc EXCEPT ![p].key = key,
                         ![p].pc = IF proc[p].op = "store" THEN "stream" ELSE "decrypt"]

\* Fault: the contents of the identity file are not parsed.
ReadIdentityUnparsed(p) ==
    /\ proc[p].pc = "identity" /\ identity # NoFile
    /\ HaveIdentity(p, identity)
    /\ UNCHANGED <<identity, small, large, returned, crashes>>

ReadIdentity(p) ==
    /\ proc[p].pc = "identity" /\ identity # NoFile
    /\ IF identity = Blank THEN Finish(p, "failed") ELSE HaveIdentity(p, identity)
    /\ UNCHANGED <<identity, small, large, returned, crashes>>

\* Fault: a new identity, whether or not there is one.
GenerateIdentityAnyway(p) ==
    /\ proc[p].pc = "identity"
    /\ \E k \in Key \ UsedKeys :
           proc' = [proc EXCEPT ![p].key = k, ![p].pc = "create"]
    /\ UNCHANGED <<identity, small, large, returned, crashes>>

GenerateIdentity(p) ==
    /\ proc[p].pc = "identity" /\ identity = NoFile
    /\ \E k \in Key \ UsedKeys :
           proc' = [proc EXCEPT ![p].key = k, ![p].pc = "create"]
    /\ UNCHANGED <<identity, small, large, returned, crashes>>

CreateIdentityFile(p) ==
    /\ proc[p].pc = "create"
    /\ identity' = Blank
    /\ Goto(p, "write")
    /\ UNCHANGED <<small, large, returned, crashes>>

WriteIdentityFile(p) ==
    /\ proc[p].pc = "write"
    /\ identity' = proc[p].key
    /\ Goto(p, "readback")
    /\ UNCHANGED <<small, large, returned, crashes>>

ReadBackIdentity(p) ==
    /\ proc[p].pc = "readback"
    /\ IF identity = Blank THEN Finish(p, "failed") ELSE HaveIdentity(p, identity)
    /\ UNCHANGED <<identity, small, large, returned, crashes>>

-----------------------------------------------------------------------------
\* Fault: a failure removes the object rather than the temporary file.
StreamRemovingObject(p) ==
    /\ proc[p].pc = "stream"
    /\ \/ Goto(p, "rename") /\ UNCHANGED large
       \/ Finish(p, "failed") /\ large' = [large EXCEPT ![proc[p].object] = NoFile]
    /\ UNCHANGED <<identity, small, returned, crashes>>

\* The contents are hashed while they are written to the temporary file.
\* Reading the source may fail: the temporary file is then removed.
Stream(p) ==
    /\ proc[p].pc = "stream"
    /\ Goto(p, "rename") \/ Finish(p, "failed")
    /\ UNCHANGED <<identity, small, large, returned, crashes>>

\* A small object has all of its contents when it gets its name.
RenameSmall(p) ==
    /\ proc[p].pc = "rename" /\ ~proc[p].big
    /\ small' = small \cup {proc[p].object}
    /\ returned' = returned \cup {proc[p].object}
    /\ Finish(p, "none")
    /\ UNCHANGED <<identity, large, crashes>>

\* A large object gets its name, in place of any file of that name, before
\* the deferred Close of the encrypting writer flushes its last chunk.
RenameLarge(p) ==
    /\ proc[p].pc = "rename" /\ proc[p].big
    /\ large' = [large EXCEPT ![proc[p].object] = [key |-> proc[p].key, writer |-> p]]
    /\ Goto(p, "close")
    /\ UNCHANGED <<identity, small, returned, crashes>>

\* The file p has been writing now has the writer w.
Settle(f, p, w) == IF f # NoFile /\ f.writer = p THEN [f EXCEPT !.writer = w] ELSE f

\* Fault: the encrypting writer is never closed.
CloseLargeWithoutFlush(p) ==
    /\ proc[p].pc = "close"
    /\ Finish(p, "none")
    /\ returned' = returned \cup {proc[p].object}
    /\ UNCHANGED <<identity, small, large, crashes>>

CloseLarge(p) ==
    /\ proc[p].pc = "close"
    /\ large' = [o \in Object |-> Settle(large[o], p, NoWriter)]
    /\ proc' = [q \in Process |->
                   IF q = p THEN Idle
                   ELSE [proc[q] EXCEPT !.opened = Settle(@, p, NoWriter)]]
    /\ returned' = returned \cup {proc[p].object}
    /\ UNCHANGED <<identity, small, crashes>>

\* ReadObject has opened the file and holds a key: the header of the file
\* tells whether it is the right one; then the contents are read.
Decrypt(p) ==
    /\ proc[p].pc = "decrypt"
    /\ Finish(p, IF proc[p].opened.key # proc[p].key THEN "failed"
                 ELSE IF proc[p].opened.writer # NoWriter THEN "truncated"
                 ELSE "whole")
    /\ UNCHANGED <<identity, small, large, returned, crashes>>

\* A process dies in the middle of a call, and may be started again.
Crash(p) ==
    /\ proc[p].pc # "idle"
    /\ crashes < MaxCrashes
    /\ crashes' = crashes + 1
    /\ large' = [o \in Object |-> Settle(large[o], p, Dead)]
    /\ proc' = [q \in Process |->
                   IF q = p THEN Idle
                   ELSE [proc[q] EXCEPT !.opened = Settle(@, p, Dead)]]
    /\ UNCHANGED <<identity, small, returned>>

-----------------------------------------------------------------------------
Next == \E p \in Process :
    \/ \E o \in Object : ReadObject(p, o) \/ \E big \in BOOLEAN : StoreObject(p, o, big)
    \/ OpenLarge(p)
    \/ ReadIdentity(p) \/ GenerateIdentity(p)
    \/ CreateIdentityFile(p) \/ WriteIdentityFile(p) \/ ReadBackIdentity(p)
    \/ Stream(p) \/ RenameSmall(p) \/ RenameLarge(p) \/ CloseLarge(p)
    \/ Decrypt(p)
    \/ Crash(p)

Spec == Init /\ [][Next]_vars

-----------------------------------------------------------------------------
Encrypted == {o \in Object : large[o] # NoFile}

\* The processes that have renamed a file to the name of the object o and
\* have not written the end of it.
Writers(o) == {p \in Process : proc[p].pc = "close" /\ proc[p].object = o}

\* ReadObject returns the contents of o, now.
Readable(o) ==
    \/ o \in small
    \/ o \in Encrypted /\ large[o].key = identity /\ large[o].writer = NoWriter

\* An object for which StoreObject has returned is persistent: whenever no
\* call is under way, ReadObject returns its contents.
ReturnedObjectsReadable ==
    (\A p \in Process : proc[p].pc = "idle") => \A o \in returned : Readable(o)

\* So it is as long as no process dies in the middle of a call, however the
\* calls of several processes interleave.
ReadableUntilCrash == crashes = 0 => ReturnedObjectsReadable

\* A ReadObject of an object for which StoreObject had returned finds the
\* object and can decrypt it, whatever is stored meanwhile and whoever dies.
\* It may get the contents without their end, from a process that stores the
\* same object again.
StoredObjectsAreFound ==
    \A p \in Process : proc[p].stored => proc[p].result \notin {"missing", "failed"}

\* Every file of the large object storage can be decrypted by whoever reads
\* the identity file now.
EncryptedToTheIdentity == \A o \in Encrypted : large[o].key = identity

\* A file without its end under the name of an object is a file that a
\* process still writes, for that very object, or whose writer has died.
TornOnlyWhileWritten ==
    \A o \in Encrypted : large[o].writer \in {NoWriter, Dead} \cup Writers(o)

\* Whatever crashes, an object for which StoreObject has returned keeps its
\* name, and its file has the right key; only its end can be missing.
ReturnedObjectsKept ==
    \A o \in returned :
        \/ o \in small
        \/ /\ o \in Encrypted
           /\ large[o].key = identity
           /\ large[o].writer = Dead => crashes > 0

\* A readable identity is never replaced: all the encrypted objects of the
\* archive depend on it.
IdentityIsKept == [][(identity \in Key) => identity' = identity]_vars

=============================================================================
