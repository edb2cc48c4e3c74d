-------------------------- MODULE ObjectStoreProofs --------------------------
(***************************************************************************)
(* What the object store promises, for any number of processes, objects    *)
(* and crashes: first in an archive that has its identity, then in any     *)
(* archive.                                                                *)
(***************************************************************************)
EXTENDS ObjectStore, TLAPS

\* What holds of a call, wherever it is.
CallInv(c) ==
    /\ c.pc \notin {"create", "write", "readback"}
    /\ c.pc \in {"stream", "rename", "close"} /\ c.big => c.key = identity
    /\ c.pc = "stream" => c.op = "store"
    /\ c.pc = "openLarge" => c.op = "read"
    /\ c.pc = "close" => c.object \in Encrypted
    /\ c.pc = "decrypt" => c.key = identity
    /\ c.pc = "decrypt" \/ (c.pc = "identity" /\ c.op = "read") => c.opened # NoFile
    /\ c.pc = "identity" /\ c.op = "store" => c.big
    /\ c.opened # NoFile => c.opened.key = identity
    /\ c.pc = "openLarge" /\ c.stored => c.object \in Encrypted
    /\ c.pc # "idle" /\ c.op = "store" => ~c.stored
    /\ c.stored => c.result \notin {"missing", "failed"}

(***************************************************************************)
(* The inductive invariant.  The identity never changes, so every key in   *)
(* use is the identity; and an object that has been stored keeps a name in *)
(* one of the two storages, so a reader that misses it in the first finds  *)
(* it in the second.                                                       *)
(***************************************************************************)
IInv ==
    /\ TypeOK
    /\ identity = FirstIdentity
    /\ crashes <= MaxCrashes
    /\ EncryptedToTheIdentity
    /\ TornOnlyWhileWritten
    /\ \A o \in Encrypted : large[o].writer = Dead => crashes > 0
    /\ returned \subseteq small \cup Encrypted
    /\ \A p \in Process : CallInv(proc[p])

-----------------------------------------------------------------------------
\* Idle is a call, and one that is not under way.
LEMMA IdleCall ==
    /\ Idle \in Call
    /\ Idle.pc = "idle" /\ Idle.opened = NoFile /\ Idle.result = "none" /\ ~Idle.stored
<1>1. (CHOOSE o \in Object : TRUE) \in Object
  BY ObjectAssumption
<1>2. QED
  BY <1>1 DEF Idle, Begin, Call

\* So is the call that has just begun about an object.
LEMMA BeginCall ==
    ASSUME NEW o \in Object
    PROVE  Begin(o) \in Call
BY DEF Begin, Call

\* Finishing a call keeps the calls well-typed and in their invariant, unless
\* a stored object was missed.
LEMMA FinishInv ==
    ASSUME IInv, NEW p \in Process, NEW result, Finish(p, result),
           UNCHANGED <<identity, large>>,
           result \in {"none", "whole", "missing", "failed", "truncated"},
           proc[p].stored => result \notin {"missing", "failed"}
    PROVE  /\ proc' \in [Process -> Call]
           /\ \A q \in Process : CallInv(proc[q])'
           /\ \A q \in Process \ {p} : proc'[q] = proc[q]
           /\ proc'[p].pc = "idle"
<1> DEFINE c == [Idle EXCEPT !.result = result, !.stored = proc[p].stored]
<1>1. proc \in [Process -> Call] /\ proc[p] \in Call
  BY DEF IInv, TypeOK
<1>2. c \in Call
  BY <1>1, IdleCall DEF Call
<1>3. /\ c.pc = "idle" /\ c.opened = NoFile /\ c.result = result
      /\ c.stored = proc[p].stored
  BY <1>1, IdleCall DEF Call
<1>4. proc' = [proc EXCEPT ![p] = c]
  BY DEF Finish
<1>5. Encrypted' = Encrypted
  BY DEF Encrypted
<1>6. CallInv(c)
  BY <1>3 DEF CallInv
<1>7. \A q \in Process : CallInv(proc'[q])
  BY <1>1, <1>4, <1>6 DEF IInv
<1>8. \A q \in Process : CallInv(proc[q])'
  BY <1>5, <1>7 DEF CallInv
<1>9. QED
  BY <1>1, <1>2, <1>3, <1>4, <1>8


\* A step that leaves the object storages alone keeps the invariant when it
\* keeps that of the calls and does not disturb a writer.
LEMMA CallStepInv ==
    ASSUME IInv, NEW p \in Process,
           UNCHANGED <<identity, small, large, returned, crashes>>,
           proc' \in [Process -> Call],
           \A q \in Process : CallInv(proc'[q]),
           \A q \in Process \ {p} : proc'[q] = proc[q],
           proc[p].pc # "close"
    PROVE  IInv'
<1>1. TypeOK'
  BY DEF IInv, TypeOK
<1>2. Encrypted' = Encrypted
  BY DEF Encrypted
<1>3. \A o \in Object : Writers(o) \subseteq Writers(o)'
  BY DEF Writers
<1>4. TornOnlyWhileWritten'
  BY <1>2, <1>3 DEF IInv, TornOnlyWhileWritten, Encrypted
<1>5. \A q \in Process : CallInv(proc[q])'
  BY <1>2 DEF CallInv
<1>6. EncryptedToTheIdentity'
  BY <1>2 DEF IInv, EncryptedToTheIdentity
<1>7. QED
  BY <1>1, <1>2, <1>4, <1>5, <1>6 DEF IInv

\* What settling the files of a writer does to one file.
LEMMA SettleFile ==
    ASSUME NEW f \in EncryptedFile \cup {NoFile}, NEW p \in Process,
           NEW w \in {NoWriter, Dead}
    PROVE  /\ Settle(f, p, w) \in EncryptedFile \cup {NoFile}
           /\ Settle(f, p, w) = NoFile <=> f = NoFile
           /\ f # NoFile => Settle(f, p, w).key = f.key
           /\ f # NoFile /\ f.writer # p => Settle(f, p, w) = f
           /\ f # NoFile /\ f.writer = p => Settle(f, p, w).writer = w
<1>1. CASE f = NoFile
  BY <1>1 DEF Settle
<1>2. CASE f # NoFile /\ f.writer # p
  BY <1>2 DEF Settle
<1>3. CASE f # NoFile /\ f.writer = p
  <2>1. f \in EncryptedFile
    BY <1>3
  <2>2. Settle(f, p, w) = [f EXCEPT !.writer = w]
    BY <1>3 DEF Settle
  <2>3. /\ Settle(f, p, w) \in EncryptedFile
        /\ Settle(f, p, w).key = f.key /\ Settle(f, p, w).writer = w
    BY <2>1, <2>2 DEF EncryptedFile
  <2>4. QED
    BY <1>3, <2>3, SpecialValues DEF EncryptedFile
<1>4. QED
  BY <1>1, <1>2, <1>3

\* The step by which p ends its call and the file it has been writing gets the
\* writer w, in terms of the new values...
Settles(p, w) ==
    /\ UNCHANGED <<identity, small>>
    /\ large' = [o \in Object |-> Settle(large[o], p, w)]
    /\ proc' = [q \in Process |->
                   IF q = p THEN Idle
                   ELSE [proc[q] EXCEPT !.opened = Settle(@, p, w)]]

\* ...and in terms of what it does to each file and to each call.
FileSettles(o, p, w) ==
    /\ large'[o] = Settle(large[o], p, w)
    /\ large'[o] \in EncryptedFile \cup {NoFile}
    /\ (large'[o] = NoFile) <=> (large[o] = NoFile)
    /\ large[o] # NoFile => large'[o].key = large[o].key

CallSettles(q, p, w) ==
    /\ proc'[q] \in Call
    /\ proc'[q].opened = Settle(proc[q].opened, p, w)
    /\ proc'[q].pc = proc[q].pc /\ proc'[q].op = proc[q].op
    /\ proc'[q].big = proc[q].big /\ proc'[q].key = proc[q].key
    /\ proc'[q].object = proc[q].object /\ proc'[q].stored = proc[q].stored
    /\ proc'[q].result = proc[q].result

\* What the end of a call, by Close or by death, does to the files the process
\* has been writing and to the calls of the others.
LEMMA SettleTypes ==
    ASSUME TypeOK, NEW p \in Process, NEW w \in {NoWriter, Dead},
           Settles(p, w), returned' \subseteq Object, crashes' \in Nat
    PROVE  /\ TypeOK'
           /\ Encrypted' = Encrypted
           /\ \A o \in Object : FileSettles(o, p, w)
           /\ proc'[p] = Idle
           /\ \A q \in Process \ {p} : CallSettles(q, p, w)
<1>1. /\ large \in [Object -> EncryptedFile \cup {NoFile}]
      /\ proc \in [Process -> Call]
      /\ identity \in Key \cup {NoFile, Blank} /\ small \subseteq Object
  BY DEF TypeOK
<1>2. \A o \in Object : large'[o] = Settle(large[o], p, w)
  BY DEF Settles
<1>3. ASSUME NEW o \in Object PROVE FileSettles(o, p, w)
  <2>1. large[o] \in EncryptedFile \cup {NoFile} /\ large'[o] = Settle(large[o], p, w)
    BY <1>1, <1>2
  <2>2. QED
    BY <2>1, SettleFile DEF FileSettles
<1>4. Encrypted' = Encrypted
  BY <1>3 DEF Encrypted, FileSettles
<1>5. \A q \in Process \ {p} :
        /\ proc[q] \in Call
        /\ proc'[q] = [proc[q] EXCEPT !.opened = Settle(proc[q].opened, p, w)]
        /\ Settle(proc[q].opened, p, w) \in EncryptedFile \cup {NoFile}
  <2>1. \A q \in Process : proc[q] \in Call /\ proc[q].opened \in EncryptedFile \cup {NoFile}
    BY <1>1 DEF Call
  <2>2. QED
    BY <2>1, SettleFile DEF Settles
<1>6. ASSUME NEW q \in Process \ {p} PROVE CallSettles(q, p, w)
  <2> DEFINE f == Settle(proc[q].opened, p, w)
  <2>1. /\ proc[q] \in Call /\ proc'[q] = [proc[q] EXCEPT !.opened = f]
        /\ f \in EncryptedFile \cup {NoFile}
    BY <1>5
  <2> HIDE DEF f
  <2>2. /\ proc'[q] \in Call /\ proc'[q].opened = f
        /\ proc'[q].pc = proc[q].pc /\ proc'[q].op = proc[q].op
        /\ proc'[q].big = proc[q].big /\ proc'[q].key = proc[q].key
        /\ proc'[q].object = proc[q].object /\ proc'[q].stored = proc[q].stored
        /\ proc'[q].result = proc[q].result
    BY <2>1 DEF Call
  <2>3. QED
    BY <2>2 DEF f, CallSettles
<1>7. proc'[p] = Idle
  BY DEF Settles
<1>8. proc' \in [Process -> Call]
  BY <1>6, <1>7, IdleCall DEF Settles, CallSettles
<1>9. TypeOK'
  BY <1>1, <1>3, <1>8 DEF TypeOK, Settles, FileSettles
<1>10. QED
  BY <1>3, <1>4, <1>6, <1>7, <1>9

\* The end of a call in "close", by Close or by death, keeps the invariant.
LEMMA SettleInv ==
    ASSUME IInv, NEW p \in Process, NEW w \in {NoWriter, Dead},
           Settles(p, w),
           returned' \subseteq small \cup Encrypted, returned' \subseteq Object,
           crashes' \in Nat, crashes' <= MaxCrashes, crashes' >= crashes,
           w = Dead => crashes' > 0
    PROVE  IInv'
<1>1. /\ large \in [Object -> EncryptedFile \cup {NoFile}]
      /\ proc \in [Process -> Call]
      /\ identity \in Key \cup {NoFile, Blank} /\ small \subseteq Object
      /\ crashes \in Nat
  BY DEF IInv, TypeOK
<1>0. TypeOK
  BY DEF IInv
<1>2. /\ TypeOK'
      /\ Encrypted' = Encrypted
      /\ \A o \in Object : FileSettles(o, p, w)
      /\ proc'[p] = Idle
      /\ \A q \in Process \ {p} : CallSettles(q, p, w)
  BY <1>0, SettleTypes
<1>3. \A o \in Object : /\ large'[o] = Settle(large[o], p, w)
                        /\ large[o] # NoFile => large'[o].key = large[o].key
  BY <1>2 DEF FileSettles
<1>4. Encrypted' = Encrypted
  BY <1>2
<1>6. \A q \in Process \ {p} :
        /\ proc'[q].opened = Settle(proc[q].opened, p, w)
        /\ proc'[q].pc = proc[q].pc /\ proc'[q].op = proc[q].op
        /\ proc'[q].big = proc[q].big /\ proc'[q].key = proc[q].key
        /\ proc'[q].object = proc[q].object /\ proc'[q].stored = proc[q].stored
        /\ proc'[q].result = proc[q].result
  BY <1>2 DEF CallSettles
<1>7. proc'[p] = Idle
  BY <1>2
<1>9. TypeOK'
  BY <1>2
<1>10. EncryptedToTheIdentity'
  BY <1>3, <1>4 DEF Settles, IInv, EncryptedToTheIdentity, Encrypted
<1>11. TornOnlyWhileWritten'
  <2> SUFFICES ASSUME NEW o \in Encrypted
               PROVE  large'[o].writer \in {NoWriter, Dead} \cup Writers(o)'
    BY <1>4 DEF TornOnlyWhileWritten
  <2>1. o \in Object /\ large[o] # NoFile /\ large[o] \in EncryptedFile \cup {NoFile}
    BY <1>1 DEF Encrypted
  <2>2. CASE large[o].writer = p
    BY <2>1, <2>2, <1>3, SettleFile
  <2>3. CASE large[o].writer # p
    <3>1. large'[o] = large[o]
      BY <2>1, <2>3, <1>3, SettleFile
    <3>2. large[o].writer \in {NoWriter, Dead} \cup Writers(o)
      BY DEF IInv, TornOnlyWhileWritten
    <3>3. \A q \in Writers(o) \ {p} : q \in Writers(o)'
      BY <1>6 DEF Writers
    <3>4. QED
      BY <2>3, <3>1, <3>2, <3>3
  <2>4. QED
    BY <2>2, <2>3
<1>12. \A o \in Encrypted' : large'[o].writer = Dead => crashes' > 0
  <2> SUFFICES ASSUME NEW o \in Encrypted, large'[o].writer = Dead
               PROVE  crashes' > 0
    BY <1>4
  <2>1. o \in Object /\ large[o] # NoFile /\ large[o] \in EncryptedFile \cup {NoFile}
    BY <1>1 DEF Encrypted
  <2>2. large[o].writer = p => w = Dead
    BY <2>1, <1>3, SettleFile
  <2>3. large[o].writer # p => large[o].writer = Dead
    BY <2>1, <1>3, SettleFile
  <2>4. QED
    BY <1>1, <2>2, <2>3 DEF IInv
<1>13. \A q \in Process : CallInv(proc'[q])
  <2>1. CallInv(proc'[p])
    BY <1>7, IdleCall DEF CallInv
  <2>2. ASSUME NEW q \in Process \ {p} PROVE CallInv(proc'[q])
    <3>1. CallInv(proc[q]) /\ proc[q].opened \in EncryptedFile \cup {NoFile}
      BY <1>1 DEF IInv, Call
    <3>2. /\ proc'[q].opened = NoFile <=> proc[q].opened = NoFile
          /\ proc[q].opened # NoFile => proc'[q].opened.key = proc[q].opened.key
      <4>1. proc'[q].opened = Settle(proc[q].opened, p, w)
        BY <1>6
      <4>2. /\ Settle(proc[q].opened, p, w) = NoFile <=> proc[q].opened = NoFile
            /\ proc[q].opened # NoFile =>
                   Settle(proc[q].opened, p, w).key = proc[q].opened.key
        BY <3>1, SettleFile
      <4>3. QED
        BY <4>1, <4>2
    <3>3. QED
      BY <1>6, <3>1, <3>2 DEF CallInv
  <2>3. QED
    BY <2>1, <2>2
<1>14. \A q \in Process : CallInv(proc[q])'
  BY <1>4, <1>13 DEF CallInv, Settles
<1>15. QED
  BY <1>4, <1>9, <1>10, <1>11, <1>12, <1>14 DEF IInv, Settles

-----------------------------------------------------------------------------
\* A step that finishes a call without touching the storages.
LEMMA FinishStepInv ==
    ASSUME IInv, NEW p \in Process, NEW result, Finish(p, result),
           UNCHANGED <<identity, small, large, returned, crashes>>,
           result \in {"none", "whole", "missing", "failed", "truncated"},
           proc[p].stored => result \notin {"missing", "failed"},
           proc[p].pc # "close"
    PROVE  IInv'
<1>1. /\ proc' \in [Process -> Call]
      /\ \A q \in Process : CallInv(proc[q])'
      /\ \A q \in Process \ {p} : proc'[q] = proc[q]
  BY FinishInv
<1>2. Encrypted' = Encrypted
  BY DEF Encrypted
<1>3. \A q \in Process : CallInv(proc'[q])
  BY <1>1, <1>2 DEF CallInv
<1>4. QED
  BY <1>1, <1>3, CallStepInv

\* A step that only moves the call of p on to the call c.
LEMMA MoveStepInv ==
    ASSUME IInv, NEW p \in Process, NEW c \in Call, CallInv(c),
           proc' = [proc EXCEPT ![p] = c],
           UNCHANGED <<identity, small, large, returned, crashes>>,
           proc[p].pc # "close"
    PROVE  IInv'
<1>1. proc \in [Process -> Call]
  BY DEF IInv, TypeOK
<1>2. proc' \in [Process -> Call] /\ \A q \in Process \ {p} : proc'[q] = proc[q]
  BY <1>1
<1>3. \A q \in Process : CallInv(proc'[q])
  BY <1>1 DEF IInv
<1>4. QED
  BY <1>2, <1>3, CallStepInv

\* The invariant holds in every reachable state of an archive that has its
\* identity.
THEOREM Invariance ==
    ASSUME FirstIdentity \in Key
    PROVE  Spec => []IInv
<1>1. Init => IInv
  <2> SUFFICES ASSUME Init PROVE IInv
    OBVIOUS
  <2>1. TypeOK
    BY IdleCall DEF Init, TypeOK
  <2>2. Encrypted = {}
    BY DEF Init, Encrypted
  <2>3. \A p \in Process : CallInv(proc[p])
    BY IdleCall DEF Init, CallInv
  <2>4. QED
    BY <2>1, <2>2, <2>3, MaxCrashesAssumption
       DEF Init, IInv, EncryptedToTheIdentity, TornOnlyWhileWritten
<1>2. IInv /\ [Next]_vars => IInv'
  <2> SUFFICES ASSUME IInv, [Next]_vars PROVE IInv'
    OBVIOUS
  <2>0. /\ identity \in Key /\ identity \notin {NoFile, Blank, NoKey}
        /\ proc \in [Process -> Call]
        /\ small \subseteq Object /\ returned \subseteq Object /\ crashes \in Nat
        /\ large \in [Object -> EncryptedFile \cup {NoFile}]
    BY SpecialValues DEF IInv, TypeOK
  <2>1. ASSUME NEW p \in Process, NEW o \in Object, ReadObject(p, o) PROVE IInv'
    <3>1. CASE o \in small
      <4> DEFINE c == [Idle EXCEPT !.result = "whole", !.stored = o \in returned]
      <4>1. /\ proc[p].pc = "idle" /\ proc' = [proc EXCEPT ![p] = c]
            /\ UNCHANGED <<identity, small, large, returned, crashes>>
        BY <2>1, <3>1 DEF ReadObject
      <4>2. (o \in returned) \in BOOLEAN
        OBVIOUS
      <4>3. c \in Call /\ c.pc = "idle" /\ c.opened = NoFile /\ c.result = "whole"
        BY <4>2, IdleCall DEF Call
      <4>4. CallInv(c)
        BY <4>3 DEF CallInv
      <4>5. QED
        BY <4>1, <4>3, <4>4, MoveStepInv
    <3>2. CASE o \notin small
      <4> DEFINE c == [Begin(o) EXCEPT !.op = "read", !.pc = "openLarge",
                                       !.stored = o \in returned]
      <4>1. /\ proc[p].pc = "idle" /\ proc' = [proc EXCEPT ![p] = c]
            /\ UNCHANGED <<identity, small, large, returned, crashes>>
        BY <2>1, <3>2 DEF ReadObject
      <4>2. (o \in returned) \in BOOLEAN
        OBVIOUS
      <4>3. /\ c \in Call /\ c.pc = "openLarge" /\ c.op = "read" /\ c.object = o
            /\ c.opened = NoFile /\ c.result = "none"
            /\ c.stored <=> o \in returned
        BY <4>2 DEF Begin, Call
      <4>4. CallInv(c)
        BY <3>2, <4>3 DEF CallInv, IInv
      <4>5. QED
        BY <4>1, <4>3, <4>4, MoveStepInv
    <3>3. QED
      BY <3>1, <3>2
  <2>2. ASSUME NEW p \in Process, NEW o \in Object, NEW big \in BOOLEAN,
               StoreObject(p, o, big)
        PROVE  IInv'
    <3> DEFINE c == [Begin(o) EXCEPT !.big = big,
                                     !.pc = IF big THEN "identity" ELSE "stream"]
    <3>1. /\ proc[p].pc = "idle" /\ proc' = [proc EXCEPT ![p] = c]
          /\ UNCHANGED <<identity, small, large, returned, crashes>>
      BY <2>2 DEF StoreObject
    <3>2. /\ c \in Call /\ c.pc = (IF big THEN "identity" ELSE "stream") /\ c.op = "store"
          /\ c.big = big /\ c.opened = NoFile /\ c.result = "none" /\ ~c.stored
      BY DEF Begin, Call
    <3>3. CallInv(c)
      BY <3>2 DEF CallInv
    <3>4. QED
      BY <3>1, <3>2, <3>3, MoveStepInv
  <2>3. ASSUME NEW p \in Process, OpenLarge(p) PROVE IInv'
    <3>0. /\ proc[p].pc = "openLarge" /\ proc[p] \in Call /\ proc[p].object \in Object
          /\ UNCHANGED <<identity, small, large, returned, crashes>>
      BY <2>0, <2>3 DEF OpenLarge, Call
    <3>1. CASE large[proc[p].object] = NoFile
      <4>1. proc[p].object \notin Encrypted
        BY <3>1 DEF Encrypted
      <4>2. ~proc[p].stored
        BY <3>0, <4>1 DEF IInv, CallInv
      <4>3. Finish(p, "missing")
        BY <2>3, <3>1 DEF OpenLarge
      <4>4. QED
        BY <3>0, <4>2, <4>3, FinishStepInv
    <3>2. CASE large[proc[p].object] # NoFile
      <4> DEFINE f == large[proc[p].object]
                 c == [proc[p] EXCEPT !.opened = f, !.pc = "identity"]
      <4>1. proc' = [proc EXCEPT ![p] = c]
        BY <2>0, <2>3, <3>2 DEF OpenLarge
      <4>2. /\ c \in Call /\ c.pc = "identity" /\ c.opened = f
            /\ c.op = proc[p].op /\ c.stored = proc[p].stored
            /\ c.result = proc[p].result /\ c.big = proc[p].big
        BY <2>0, <3>0 DEF Call
      <4>3. f.key = identity
        BY <3>0, <3>2 DEF IInv, EncryptedToTheIdentity, Encrypted
      <4>4. proc[p].op = "read"
        BY <3>0 DEF IInv, CallInv, Call
      <4>5. CallInv(c)
        BY <3>0, <3>2, <4>2, <4>3, <4>4 DEF CallInv, IInv
      <4>6. QED
        BY <3>0, <4>1, <4>2, <4>5, MoveStepInv
    <3>3. QED
      BY <3>1, <3>2
  <2>4. ASSUME NEW p \in Process, ReadIdentity(p) PROVE IInv'
    <3> DEFINE pc == IF proc[p].op = "store" THEN "stream" ELSE "decrypt"
               c == [proc[p] EXCEPT !.key = identity, !.pc = pc]
    <3>1. /\ proc[p].pc = "identity" /\ proc[p] \in Call
          /\ proc' = [proc EXCEPT ![p] = c]
          /\ UNCHANGED <<identity, small, large, returned, crashes>>
      BY <2>0, <2>4 DEF ReadIdentity, HaveIdentity
    <3>2. /\ c \in Call /\ c.pc = pc /\ c.key = identity /\ c.opened = proc[p].opened
          /\ c.op = proc[p].op /\ c.stored = proc[p].stored
          /\ c.result = proc[p].result /\ c.big = proc[p].big
      BY <2>0, <3>1 DEF Call
    <3>3. CallInv(proc[p]) /\ proc[p].op \in {"store", "read"}
      BY <3>1 DEF IInv, Call
    <3>4. CallInv(c)
      BY <3>1, <3>2, <3>3 DEF CallInv
    <3>5. QED
      BY <3>1, <3>2, <3>4, MoveStepInv
  <2>5. ASSUME NEW p \in Process,
               \/ GenerateIdentity(p) \/ CreateIdentityFile(p)
               \/ WriteIdentityFile(p) \/ ReadBackIdentity(p)
        PROVE  IInv'
    <3>1. proc[p].pc \notin {"create", "write", "readback"}
      BY DEF IInv, CallInv
    <3>2. QED
      BY <2>0, <2>5, <3>1 DEF GenerateIdentity, CreateIdentityFile, WriteIdentityFile,
                            ReadBackIdentity
  <2>6. ASSUME NEW p \in Process, Stream(p) PROVE IInv'
    <3>1. /\ proc[p].pc = "stream" /\ proc[p] \in Call /\ ~proc[p].stored
          /\ UNCHANGED <<identity, small, large, returned, crashes>>
      BY <2>0, <2>6 DEF Stream, IInv, CallInv
    <3>2. CASE Finish(p, "failed")
      BY <3>1, <3>2, FinishStepInv
    <3>3. CASE Goto(p, "rename")
      <4> DEFINE c == [proc[p] EXCEPT !.pc = "rename"]
      <4>1. proc' = [proc EXCEPT ![p] = c]
        BY <3>3 DEF Goto
      <4>2. /\ c \in Call /\ c.pc = "rename" /\ c.key = proc[p].key
            /\ c.opened = proc[p].opened /\ c.op = proc[p].op /\ c.big = proc[p].big
            /\ c.stored = proc[p].stored /\ c.result = proc[p].result
        BY <3>1 DEF Call
      <4>3. CallInv(c)
        BY <3>1, <4>2 DEF CallInv, IInv
      <4>4. QED
        BY <3>1, <4>1, <4>2, <4>3, MoveStepInv
    <3>4. QED
      BY <2>6, <3>2, <3>3 DEF Stream
  <2>7. ASSUME NEW p \in Process, RenameSmall(p) PROVE IInv'
    <3>1. /\ proc[p].pc = "rename" /\ proc[p] \in Call /\ proc[p].object \in Object
          /\ Finish(p, "none")
          /\ small' = small \cup {proc[p].object}
          /\ returned' = returned \cup {proc[p].object}
          /\ UNCHANGED <<identity, large, crashes>>
      BY <2>0, <2>7 DEF RenameSmall, Call
    <3>2. /\ proc' \in [Process -> Call]
          /\ \A q \in Process : CallInv(proc[q])'
          /\ \A q \in Process \ {p} : proc'[q] = proc[q]
      BY <3>1, FinishInv
    <3>3. TypeOK'
      BY <2>0, <3>1, <3>2 DEF IInv, TypeOK
    <3>4. Encrypted' = Encrypted
      BY <3>1 DEF Encrypted
    <3>5. \A o \in Object : Writers(o) \subseteq Writers(o)'
      BY <3>1, <3>2 DEF Writers
    <3>6. TornOnlyWhileWritten'
      BY <3>1, <3>4, <3>5 DEF IInv, TornOnlyWhileWritten, Encrypted
    <3>7. QED
      BY <3>1, <3>2, <3>3, <3>4, <3>6 DEF IInv, EncryptedToTheIdentity
  <2>8. ASSUME NEW p \in Process, RenameLarge(p) PROVE IInv'
    <3> DEFINE o == proc[p].object
               f == [key |-> proc[p].key, writer |-> p]
               c == [proc[p] EXCEPT !.pc = "close"]
    <3>1. /\ proc[p].pc = "rename" /\ proc[p].big /\ proc[p] \in Call /\ o \in Object
          /\ large' = [large EXCEPT ![o] = f]
          /\ proc' = [proc EXCEPT ![p] = c]
          /\ UNCHANGED <<identity, small, returned, crashes>>
      BY <2>0, <2>8 DEF RenameLarge, Goto, Call
    <3>2. proc[p].key = identity
      BY <3>1 DEF IInv, CallInv
    <3>3. f \in EncryptedFile /\ f # NoFile /\ f.key = identity /\ f.writer = p
      BY <2>0, <3>2, SpecialValues DEF EncryptedFile
    <3>4. /\ c \in Call /\ c.pc = "close" /\ c.key = proc[p].key /\ c.object = o
          /\ c.opened = proc[p].opened /\ c.op = proc[p].op /\ c.big = proc[p].big
          /\ c.stored = proc[p].stored /\ c.result = proc[p].result
      BY <3>1 DEF Call
    <3>5. CallInv(proc[p])
      BY DEF IInv
    <3>6. Encrypted' = Encrypted \cup {o}
      BY <2>0, <3>1, <3>3 DEF Encrypted
    <3>7. large' \in [Object -> EncryptedFile \cup {NoFile}]
      BY <2>0, <3>1, <3>3
    <3>8. TypeOK'
      BY <2>0, <3>1, <3>4, <3>7 DEF IInv, TypeOK
    <3>9. p \in Writers(o)' /\ \A x \in Object : Writers(x) \subseteq Writers(x)'
      BY <2>0, <3>1, <3>4 DEF Writers
    <3>10. TornOnlyWhileWritten'
      <4> SUFFICES ASSUME NEW x \in Encrypted'
                   PROVE  large'[x].writer \in {NoWriter, Dead} \cup Writers(x)'
        BY DEF TornOnlyWhileWritten
      <4>1. CASE x = o
        BY <2>0, <3>1, <3>3, <3>9, <4>1
      <4>2. CASE x # o
        <5>1. x \in Encrypted /\ x \in Object /\ large'[x] = large[x]
          BY <2>0, <3>1, <3>6, <4>2 DEF Encrypted
        <5>2. QED
          BY <3>9, <5>1 DEF IInv, TornOnlyWhileWritten
      <4>3. QED
        BY <4>1, <4>2
    <3>11. EncryptedToTheIdentity'
      BY <2>0, <3>1, <3>3, <3>6 DEF IInv, EncryptedToTheIdentity, Encrypted
    <3>12. \A x \in Encrypted' : large'[x].writer = Dead => crashes' > 0
      <4>1. p # Dead
        BY SpecialValues
      <4>2. QED
        BY <2>0, <3>1, <3>3, <3>6, <4>1 DEF IInv, Encrypted
    <3>13. \A q \in Process : CallInv(proc[q])'
      <4>1. CallInv(proc[p])'
        BY <2>0, <3>1, <3>4, <3>5, <3>6 DEF CallInv
      <4>2. ASSUME NEW q \in Process \ {p} PROVE CallInv(proc[q])'
        <5>1. proc'[q] = proc[q] /\ CallInv(proc[q])
          BY <2>0, <3>1 DEF IInv
        <5>2. QED
          BY <3>1, <3>6, <5>1 DEF CallInv
      <4>3. QED
        BY <4>1, <4>2
    <3>14. QED
      BY <3>1, <3>6, <3>8, <3>10, <3>11, <3>12, <3>13 DEF IInv
  <2>9. ASSUME NEW p \in Process, CloseLarge(p) PROVE IInv'
    <3>1. /\ proc[p].pc = "close" /\ proc[p] \in Call /\ proc[p].object \in Object
          /\ returned' = returned \cup {proc[p].object}
      BY <2>0, <2>9 DEF CloseLarge, Call
    <3>2. proc[p].object \in Encrypted
      BY <3>1 DEF IInv, CallInv
    <3>3. returned' \subseteq small \cup Encrypted /\ returned' \subseteq Object
      BY <2>0, <3>1, <3>2 DEF IInv
    <3>4. crashes' = crashes /\ crashes \in Nat /\ crashes <= MaxCrashes
      BY <2>0, <2>9 DEF CloseLarge, IInv
    <3>5. /\ UNCHANGED <<identity, small>>
          /\ large' = [o \in Object |-> Settle(large[o], p, NoWriter)]
          /\ proc' = [q \in Process |->
                         IF q = p THEN Idle
                         ELSE [proc[q] EXCEPT !.opened = Settle(@, p, NoWriter)]]
      BY <2>9 DEF CloseLarge
    <3>6. crashes' \in Nat /\ crashes' <= MaxCrashes /\ crashes' >= crashes
      BY <3>4
    <3>7. NoWriter \in {NoWriter, Dead} /\ NoWriter # Dead
      BY SpecialValues
    <3>8. QED
      BY <3>3, <3>5, <3>6, <3>7, SettleInv DEF Settles
  <2>10. ASSUME NEW p \in Process, Decrypt(p) PROVE IInv'
    <3>1. /\ proc[p].pc = "decrypt" /\ proc[p] \in Call
          /\ UNCHANGED <<identity, small, large, returned, crashes>>
      BY <2>0, <2>10 DEF Decrypt
    <3>2. proc[p].opened.key = proc[p].key
      BY <3>1 DEF IInv, CallInv
    <3>3. Finish(p, "truncated") \/ Finish(p, "whole")
      BY <2>10, <3>2 DEF Decrypt
    <3>4. QED
      BY <3>1, <3>3, FinishStepInv
  <2>11. ASSUME NEW p \in Process, Crash(p) PROVE IInv'
    <3>1. crashes' = crashes + 1 /\ crashes < MaxCrashes /\ crashes \in Nat
      BY <2>0, <2>11 DEF Crash
    <3>2. crashes' \in Nat /\ crashes' <= MaxCrashes /\ crashes' >= crashes /\ crashes' > 0
      BY <3>1, MaxCrashesAssumption
    <3>3. QED
      BY <2>0, <2>11, <3>2, SettleInv DEF Crash, IInv, Settles
  <2>12. CASE UNCHANGED vars
    <3>1. UNCHANGED <<identity, small, large, proc, returned, crashes>>
      BY <2>12 DEF vars
    <3>2. QED
      BY <3>1 DEF IInv, TypeOK, Encrypted, EncryptedToTheIdentity,
                  TornOnlyWhileWritten, Writers, CallInv
  <2>13. QED
    BY <2>1, <2>2, <2>3, <2>4, <2>5, <2>6, <2>7, <2>8, <2>9, <2>10, <2>11, <2>12
       DEF Next
<1>3. QED
  BY <1>1, <1>2, PTL DEF Spec

-----------------------------------------------------------------------------
\* In an archive that has its identity, ReadObject finds and can decrypt
\* whatever had been stored when it began, with any number of processes that store, read and die meanwhile.
THEOREM FindsStoredObjects ==
    ASSUME FirstIdentity \in Key
    PROVE  Spec => []StoredObjectsAreFound
<1>1. IInv => StoredObjectsAreFound
  BY DEF IInv, CallInv, StoredObjectsAreFound
<1>2. QED
  BY <1>1, Invariance, PTL

\* There, a stored object keeps its name and can be decrypted for ever, and
\* only the death of a process can take the end of it away.
THEOREM KeepsReturnedObjects ==
    ASSUME FirstIdentity \in Key
    PROVE  Spec => []ReturnedObjectsKept
<1>1. IInv => ReturnedObjectsKept
  BY DEF IInv, EncryptedToTheIdentity, ReturnedObjectsKept
<1>2. QED
  BY <1>1, Invariance, PTL

\* There, and until a process dies, whatever StoreObject has stored can be read
\* whenever no call is under way.
THEOREM StoresPersistently ==
    ASSUME FirstIdentity \in Key
    PROVE  Spec => []ReadableUntilCrash
<1>1. IInv => ReadableUntilCrash
  <2> SUFFICES ASSUME IInv, crashes = 0, \A p \in Process : proc[p].pc = "idle",
                      NEW o \in returned
               PROVE  Readable(o)
    BY DEF ReadableUntilCrash, ReturnedObjectsReadable
  <2>1. CASE o \in small
    BY <2>1 DEF Readable
  <2>2. CASE o \in Encrypted
    <3>1. Writers(o) = {}
      BY DEF Writers
    <3>2. large[o].writer \in {NoWriter, Dead}
      BY <2>2, <3>1 DEF IInv, TornOnlyWhileWritten
    <3>3. large[o].writer # Dead
      BY <2>2 DEF IInv, TypeOK
    <3>4. QED
      BY <2>2, <3>2, <3>3 DEF IInv, EncryptedToTheIdentity, Readable
  <2>3. QED
    BY <2>1, <2>2 DEF IInv
<1>2. QED
  BY <1>1, Invariance, PTL

-----------------------------------------------------------------------------
(***************************************************************************)
(* Any archive, with an identity or without.  Whatever the processes do    *)
(* the state is well-typed, which needs that no call uses a key before it  *)
(* has one; and as long as only one process uses the archive no object is  *)
(* encrypted before the identity file holds its key.                       *)
(***************************************************************************)
KeyKnown(c, id) ==
    /\ c.pc \in {"create", "write"} => c.key \in Key
    /\ c.pc \in {"stream", "rename"} /\ c.big => c.key \in Key
    /\ c.pc \in {"write", "readback"} => id # NoFile

AloneCall(c, id) ==
    /\ c.pc = "create" => id = NoFile
    /\ c.pc = "write" => id = Blank
    /\ c.pc \in {"stream", "rename"} /\ c.big => c.key = id

OneProcess == \A p, q \in Process : p = q

Alone ==
    /\ EncryptedToTheIdentity
    /\ identity \notin Key => Encrypted = {}
    /\ \A p \in Process : AloneCall(proc[p], identity)

FreshInv ==
    /\ TypeOK
    /\ \A p \in Process : KeyKnown(proc[p], identity)
    /\ OneProcess => Alone

\* Only a process that creates or writes the identity file changes it, and an
\* identity that a single process changes has encrypted nothing yet.
LEMMA FreshMove ==
    ASSUME FreshInv, NEW p \in Process, NEW c \in Call,
           proc' = [proc EXCEPT ![p] = c],
           UNCHANGED large,
           small' \subseteq Object, returned' \subseteq Object, crashes' \in Nat,
           identity' \in Key \cup {NoFile, Blank},
           identity # NoFile => identity' # NoFile,
           KeyKnown(c, identity'),
           OneProcess => AloneCall(c, identity') /\ (identity' # identity => Encrypted = {})
    PROVE  FreshInv'
<1>1. proc \in [Process -> Call]
  BY DEF FreshInv, TypeOK
<1>2. proc'[p] = c /\ \A q \in Process \ {p} : proc'[q] = proc[q]
  BY <1>1
<1>3. TypeOK'
  BY <1>1 DEF FreshInv, TypeOK
<1>4. \A q \in Process : KeyKnown(proc[q], identity)'
  BY <1>2 DEF FreshInv, KeyKnown
<1>5. Encrypted' = Encrypted
  BY DEF Encrypted
<1>6. ASSUME OneProcess PROVE Alone'
  <2>1. Alone
    BY <1>6 DEF FreshInv
  <2>2. EncryptedToTheIdentity'
    BY <1>5, <1>6, <2>1 DEF Alone, EncryptedToTheIdentity
  <2>3. (identity \notin Key => Encrypted = {})'
    BY <1>5, <1>6, <2>1 DEF Alone
  <2>4. \A q \in Process : AloneCall(proc[q], identity)'
    BY <1>2, <1>6 DEF OneProcess
  <2>5. QED
    BY <2>2, <2>3, <2>4 DEF Alone
<1>7. QED
  BY <1>3, <1>4, <1>6 DEF FreshInv, OneProcess

\* A call that finishes is idle, and knows nothing.
LEMMA FreshFinish ==
    ASSUME FreshInv, NEW p \in Process, NEW result, Finish(p, result),
           result \in {"none", "whole", "missing", "failed", "truncated"},
           UNCHANGED <<identity, large>>,
           small' \subseteq Object, returned' \subseteq Object, crashes' \in Nat
    PROVE  FreshInv'
<1> DEFINE c == [Idle EXCEPT !.result = result, !.stored = proc[p].stored]
<1>1. proc[p] \in Call
  BY DEF FreshInv, TypeOK
<1>2. c \in Call /\ c.pc = "idle"
  BY <1>1, IdleCall DEF Call
<1>3. proc' = [proc EXCEPT ![p] = c]
  BY DEF Finish
<1>4. KeyKnown(c, identity') /\ AloneCall(c, identity')
  BY <1>2 DEF KeyKnown, AloneCall
<1>5. identity' \in Key \cup {NoFile, Blank} /\ (identity # NoFile => identity' # NoFile)
  BY DEF FreshInv, TypeOK
<1>6. QED
  BY <1>2, <1>3, <1>4, <1>5, FreshMove

\* So is a call whose process has closed its file or has died.
LEMMA FreshSettle ==
    ASSUME FreshInv, NEW p \in Process, NEW w \in {NoWriter, Dead},
           Settles(p, w),
           returned' \subseteq Object, crashes' \in Nat
    PROVE  FreshInv'
<1>1. TypeOK
  BY DEF FreshInv
<1>2. /\ TypeOK'
      /\ Encrypted' = Encrypted
      /\ \A o \in Object : FileSettles(o, p, w)
      /\ proc'[p] = Idle
      /\ \A q \in Process \ {p} : CallSettles(q, p, w)
  BY <1>1, SettleTypes
<1>3. \A q \in Process \ {p} :
        /\ proc'[q].pc = proc[q].pc /\ proc'[q].op = proc[q].op
        /\ proc'[q].big = proc[q].big /\ proc'[q].key = proc[q].key
        /\ proc'[q].object = proc[q].object /\ proc'[q].stored = proc[q].stored
        /\ proc'[q].result = proc[q].result
  BY <1>2 DEF CallSettles
<1>4. \A o \in Object : large[o] # NoFile => large'[o].key = large[o].key
  BY <1>2 DEF FileSettles
<1>8. UNCHANGED <<identity, small>>
  BY DEF Settles
<1>5. \A q \in Process : KeyKnown(proc[q], identity)'
  BY <1>2, <1>3, <1>8, IdleCall DEF FreshInv, KeyKnown
<1>6. ASSUME OneProcess PROVE Alone'
  <2>1. Alone
    BY <1>6 DEF FreshInv
  <2>2. EncryptedToTheIdentity'
    BY <1>2, <1>4, <1>8, <2>1 DEF Alone, EncryptedToTheIdentity, Encrypted
  <2>3. \A q \in Process : AloneCall(proc[q], identity)'
    BY <1>2, <1>3, <1>8, <2>1, IdleCall DEF Alone, AloneCall
  <2>4. QED
    BY <1>2, <1>8, <2>1, <2>2, <2>3 DEF Alone
<1>7. QED
  BY <1>2, <1>5, <1>6 DEF FreshInv, OneProcess

\* A call that goes where it needs no key keeps the invariant.
LEMMA FreshQuiet ==
    ASSUME FreshInv, NEW p \in Process, NEW c \in Call,
           c.pc \in {"idle", "openLarge", "identity", "stream"},
           c.pc = "stream" => ~c.big,
           proc' = [proc EXCEPT ![p] = c],
           UNCHANGED <<identity, small, large, returned, crashes>>
    PROVE  FreshInv'
<1>1. KeyKnown(c, identity') /\ AloneCall(c, identity')
  BY DEF KeyKnown, AloneCall
<1>2. /\ identity \in Key \cup {NoFile, Blank}
      /\ small \subseteq Object /\ returned \subseteq Object /\ crashes \in Nat
  BY DEF FreshInv, TypeOK
<1>3. QED
  BY <1>1, <1>2, FreshMove

\* The four steps of the identity file, and the step that reads it.
LEMMA FreshIdentity ==
    ASSUME FreshInv, NEW p \in Process,
           \/ ReadIdentity(p) \/ GenerateIdentity(p) \/ CreateIdentityFile(p)
           \/ WriteIdentityFile(p) \/ ReadBackIdentity(p)
    PROVE  FreshInv'
<1>0. /\ proc \in [Process -> Call] /\ proc[p] \in Call
      /\ identity \in Key \cup {NoFile, Blank}
      /\ small \subseteq Object /\ returned \subseteq Object /\ crashes \in Nat
      /\ KeyKnown(proc[p], identity)
      /\ OneProcess => AloneCall(proc[p], identity)
      /\ OneProcess /\ identity \notin Key => Encrypted = {}
  BY DEF FreshInv, TypeOK, Alone
<1>1. ASSUME HaveIdentity(p, identity), identity \in Key,
             UNCHANGED <<identity, small, large, returned, crashes>>
      PROVE  FreshInv'
  <2> DEFINE c == [proc[p] EXCEPT !.key = identity,
                       !.pc = IF proc[p].op = "store" THEN "stream" ELSE "decrypt"]
  <2>1. proc' = [proc EXCEPT ![p] = c]
    BY <1>0, <1>1 DEF HaveIdentity
  <2>2. c \in Call /\ c.key = identity /\ c.pc \in {"stream", "decrypt"}
    BY <1>0, <1>1 DEF Call
  <2>3. KeyKnown(c, identity') /\ AloneCall(c, identity')
    BY <1>1, <2>2 DEF KeyKnown, AloneCall
  <2>4. QED
    BY <1>0, <1>1, <2>1, <2>2, <2>3, FreshMove
<1>2. CASE ReadIdentity(p)
  BY <1>0, <1>1, <1>2, FreshFinish DEF ReadIdentity
<1>3. CASE ReadBackIdentity(p)
  BY <1>0, <1>1, <1>3, FreshFinish DEF ReadBackIdentity, KeyKnown
<1>4. CASE GenerateIdentity(p)
  <2>1. PICK k \in Key \ UsedKeys : proc' = [proc EXCEPT ![p].key = k, ![p].pc = "create"]
    BY <1>4 DEF GenerateIdentity
  <2> DEFINE c == [proc[p] EXCEPT !.key = k, !.pc = "create"]
  <2>2. proc' = [proc EXCEPT ![p] = c]
    BY <1>0, <2>1
  <2>3. c \in Call /\ c.key = k /\ c.pc = "create"
    BY <1>0, <2>1 DEF Call
  <2>4. /\ UNCHANGED <<identity, small, large, returned, crashes>>
        /\ identity = NoFile
    BY <1>4 DEF GenerateIdentity
  <2>5. KeyKnown(c, identity') /\ AloneCall(c, identity')
    BY <2>1, <2>3, <2>4 DEF KeyKnown, AloneCall
  <2>6. QED
    BY <1>0, <2>2, <2>3, <2>4, <2>5, FreshMove
<1>5. CASE CreateIdentityFile(p)
  <2> DEFINE c == [proc[p] EXCEPT !.pc = "write"]
  <2>1. /\ proc' = [proc EXCEPT ![p] = c] /\ proc[p].pc = "create"
        /\ identity' = Blank /\ UNCHANGED <<small, large, returned, crashes>>
    BY <1>0, <1>5 DEF CreateIdentityFile, Goto
  <2>2. c \in Call /\ c.key = proc[p].key /\ c.pc = "write"
    BY <1>0 DEF Call
  <2>3. KeyKnown(c, identity') /\ AloneCall(c, identity')
    BY <1>0, <2>1, <2>2, SpecialValues DEF KeyKnown, AloneCall
  <2>4. OneProcess => Encrypted = {}
    BY <1>0, <2>1, SpecialValues DEF AloneCall
  <2>5. Blank # NoFile
    BY SpecialValues
  <2>6. QED
    BY <1>0, <2>1, <2>2, <2>3, <2>4, <2>5, FreshMove
<1>6. CASE WriteIdentityFile(p)
  <2> DEFINE c == [proc[p] EXCEPT !.pc = "readback"]
  <2>1. /\ proc' = [proc EXCEPT ![p] = c] /\ proc[p].pc = "write"
        /\ identity' = proc[p].key /\ UNCHANGED <<small, large, returned, crashes>>
    BY <1>0, <1>6 DEF WriteIdentityFile, Goto
  <2>2. c \in Call /\ c.pc = "readback"
    BY <1>0 DEF Call
  <2>3. identity' \in Key /\ identity' # NoFile
    BY <1>0, <2>1, SpecialValues DEF KeyKnown
  <2>4. KeyKnown(c, identity') /\ AloneCall(c, identity')
    BY <2>2, <2>3 DEF KeyKnown, AloneCall
  <2>5. OneProcess => Encrypted = {}
    BY <1>0, <2>1, SpecialValues DEF AloneCall
  <2>6. QED
    BY <1>0, <2>1, <2>2, <2>3, <2>4, <2>5, FreshMove
<1>7. QED
  BY <1>2, <1>3, <1>4, <1>5, <1>6

\* The steps of StoreObject that touch the storages.
LEMMA FreshStore ==
    ASSUME FreshInv, NEW p \in Process,
           Stream(p) \/ RenameSmall(p) \/ RenameLarge(p) \/ CloseLarge(p)
    PROVE  FreshInv'
<1>0. /\ proc \in [Process -> Call] /\ proc[p] \in Call /\ proc[p].object \in Object
      /\ large \in [Object -> EncryptedFile \cup {NoFile}]
      /\ identity \in Key \cup {NoFile, Blank}
      /\ small \subseteq Object /\ returned \subseteq Object /\ crashes \in Nat
      /\ KeyKnown(proc[p], identity)
      /\ OneProcess => AloneCall(proc[p], identity)
  BY DEF FreshInv, TypeOK, Alone, Call
<1>1. CASE Stream(p)
  <2>1. proc[p].pc = "stream" /\ UNCHANGED <<identity, small, large, returned, crashes>>
    BY <1>1 DEF Stream
  <2>2. CASE Finish(p, "failed")
    BY <1>0, <2>1, <2>2, FreshFinish
  <2>3. CASE Goto(p, "rename")
    <3> DEFINE c == [proc[p] EXCEPT !.pc = "rename"]
    <3>1. proc' = [proc EXCEPT ![p] = c]
      BY <1>0, <2>3 DEF Goto
    <3>2. c \in Call /\ c.pc = "rename" /\ c.big = proc[p].big /\ c.key = proc[p].key
      BY <1>0 DEF Call
    <3>3. KeyKnown(c, identity') /\ (OneProcess => AloneCall(c, identity'))
      BY <1>0, <2>1, <3>2 DEF KeyKnown, AloneCall
    <3>4. QED
      BY <1>0, <2>1, <3>1, <3>2, <3>3, FreshMove
  <2>4. QED
    BY <1>1, <2>2, <2>3 DEF Stream
<1>2. CASE RenameSmall(p)
  BY <1>0, <1>2, FreshFinish DEF RenameSmall
<1>3. CASE CloseLarge(p)
  <2>1. /\ UNCHANGED <<identity, small>>
        /\ large' = [o \in Object |-> Settle(large[o], p, NoWriter)]
        /\ proc' = [q \in Process |->
                       IF q = p THEN Idle
                       ELSE [proc[q] EXCEPT !.opened = Settle(@, p, NoWriter)]]
        /\ returned' \subseteq Object /\ crashes' \in Nat
    BY <1>0, <1>3 DEF CloseLarge
  <2>2. QED
    BY <2>1, FreshSettle DEF Settles
<1>4. CASE RenameLarge(p)
  <2> DEFINE c == [proc[p] EXCEPT !.pc = "close"]
             f == [key |-> proc[p].key, writer |-> p]
  <2>1. /\ proc' = [proc EXCEPT ![p] = c]
        /\ large' = [large EXCEPT ![proc[p].object] = f]
        /\ proc[p].pc = "rename" /\ proc[p].big
        /\ UNCHANGED <<identity, small, returned, crashes>>
    BY <1>0, <1>4 DEF RenameLarge, Goto
  <2>2. c \in Call /\ c.pc = "close"
    BY <1>0 DEF Call
  <2>3. proc[p].key \in Key /\ (OneProcess => proc[p].key = identity)
    BY <1>0, <2>1 DEF KeyKnown, AloneCall
  <2>4. f \in EncryptedFile /\ f.key = proc[p].key
    BY <2>3 DEF EncryptedFile
  <2>5. TypeOK'
    BY <1>0, <2>1, <2>2, <2>4 DEF TypeOK
  <2>6. \A q \in Process : KeyKnown(proc[q], identity)'
    BY <1>0, <2>1, <2>2 DEF FreshInv, KeyKnown
  <2>7. ASSUME OneProcess PROVE Alone'
    <3>1. Alone
      BY <2>7 DEF FreshInv
    <3>2. EncryptedToTheIdentity'
      BY <1>0, <2>1, <2>3, <2>4, <2>7, <3>1 DEF Alone, EncryptedToTheIdentity, Encrypted
    <3>3. identity' \in Key
      BY <2>1, <2>3, <2>7
    <3>4. \A q \in Process : AloneCall(proc[q], identity)'
      BY <1>0, <2>1, <2>2, <3>1 DEF Alone, AloneCall
    <3>5. QED
      BY <3>2, <3>3, <3>4 DEF Alone
  <2>8. QED
    BY <2>5, <2>6, <2>7 DEF FreshInv, OneProcess
<1>5. QED
  BY <1>1, <1>2, <1>3, <1>4

\* The invariant holds in every reachable state.
THEOREM FreshInvariance == Spec => []FreshInv
<1>1. Init => FreshInv
  <2> SUFFICES ASSUME Init PROVE FreshInv
    OBVIOUS
  <2>1. TypeOK
    BY IdleCall, FirstIdentityAssumption DEF Init, TypeOK
  <2>2. Encrypted = {}
    BY DEF Init, Encrypted
  <2>3. \A p \in Process : KeyKnown(proc[p], identity) /\ AloneCall(proc[p], identity)
    BY IdleCall DEF Init, KeyKnown, AloneCall
  <2>4. QED
    BY <2>1, <2>2, <2>3 DEF FreshInv, Alone, EncryptedToTheIdentity
<1>2. FreshInv /\ [Next]_vars => FreshInv'
  <2> SUFFICES ASSUME FreshInv, [Next]_vars PROVE FreshInv'
    OBVIOUS
  <2>0. /\ proc \in [Process -> Call] /\ identity \in Key \cup {NoFile, Blank}
        /\ large \in [Object -> EncryptedFile \cup {NoFile}]
        /\ small \subseteq Object /\ returned \subseteq Object /\ crashes \in Nat
    BY DEF FreshInv, TypeOK
  <2>2. ASSUME NEW p \in Process, NEW o \in Object, ReadObject(p, o) PROVE FreshInv'
    <3> DEFINE found == [Idle EXCEPT !.result = "whole", !.stored = o \in returned]
               sought == [Begin(o) EXCEPT !.op = "read", !.pc = "openLarge",
                                          !.stored = o \in returned]
    <3>1. (o \in returned) \in BOOLEAN
      OBVIOUS
    <3>2. found \in Call /\ found.pc = "idle"
      BY <3>1, IdleCall DEF Call
    <3>3. sought \in Call /\ sought.pc = "openLarge"
      BY <3>1 DEF Begin, Call
    <3>4. UNCHANGED <<identity, small, large, returned, crashes>>
      BY <2>2 DEF ReadObject
    <3>5. CASE o \in small
      <4>1. proc' = [proc EXCEPT ![p] = found]
        BY <2>2, <3>5 DEF ReadObject
      <4>2. QED
        BY <3>2, <3>4, <4>1, FreshQuiet
    <3>6. CASE o \notin small
      <4>1. proc' = [proc EXCEPT ![p] = sought]
        BY <2>2, <3>6 DEF ReadObject
      <4>2. QED
        BY <3>3, <3>4, <4>1, FreshQuiet
    <3>7. QED
      BY <3>5, <3>6
  <2>3. ASSUME NEW p \in Process, NEW o \in Object, NEW big \in BOOLEAN,
               StoreObject(p, o, big)
        PROVE  FreshInv'
    <3> DEFINE c == [Begin(o) EXCEPT !.big = big,
                                     !.pc = IF big THEN "identity" ELSE "stream"]
    <3>1. c \in Call /\ c.big = big /\ c.pc = (IF big THEN "identity" ELSE "stream")
      BY DEF Begin, Call
    <3>2. /\ proc' = [proc EXCEPT ![p] = c]
          /\ UNCHANGED <<identity, small, large, returned, crashes>>
      BY <2>3 DEF StoreObject
    <3>3. c.pc \in {"idle", "openLarge", "identity", "stream"} /\ (c.pc = "stream" => ~c.big)
      BY <3>1
    <3>4. QED
      BY <3>1, <3>2, <3>3, FreshQuiet
  <2>4. ASSUME NEW p \in Process, OpenLarge(p) PROVE FreshInv'
    <3> DEFINE c == [proc[p] EXCEPT !.opened = large[proc[p].object], !.pc = "identity"]
    <3>1. proc[p] \in Call /\ proc[p].object \in Object
      BY <2>0 DEF Call
    <3>2. c \in Call /\ c.pc = "identity"
      BY <2>0, <3>1 DEF Call
    <3>3. CASE Finish(p, "missing")
      BY <2>0, <2>4, <3>3, FreshFinish DEF OpenLarge
    <3>4. CASE proc' = [proc EXCEPT ![p] = c]
      <4>1. UNCHANGED <<identity, small, large, returned, crashes>>
        BY <2>4 DEF OpenLarge
      <4>2. QED
        BY <3>2, <3>4, <4>1, FreshQuiet
    <3>5. QED
      BY <2>0, <2>4, <3>3, <3>4 DEF OpenLarge
  <2>5. ASSUME NEW p \in Process, Decrypt(p) PROVE FreshInv'
    BY <2>0, <2>5, FreshFinish DEF Decrypt
  <2>6. ASSUME NEW p \in Process, Crash(p) PROVE FreshInv'
    <3>1. /\ UNCHANGED <<identity, small>>
          /\ large' = [o \in Object |-> Settle(large[o], p, Dead)]
          /\ proc' = [q \in Process |->
                         IF q = p THEN Idle
                         ELSE [proc[q] EXCEPT !.opened = Settle(@, p, Dead)]]
          /\ returned' \subseteq Object /\ crashes' \in Nat
      BY <2>0, <2>6 DEF Crash
    <3>2. QED
      BY <3>1, FreshSettle DEF Settles
  <2>7. CASE UNCHANGED vars
    <3>1. /\ UNCHANGED <<identity, small, large, proc, returned, crashes>>
          /\ Encrypted' = Encrypted
      BY <2>7 DEF vars, Encrypted
    <3>2. TypeOK'
      BY <3>1 DEF FreshInv, TypeOK
    <3>3. Alone => Alone'
      BY <3>1 DEF Alone, EncryptedToTheIdentity
    <3>4. \A p \in Process : KeyKnown(proc[p], identity)'
      BY <3>1 DEF FreshInv
    <3>5. QED
      BY <3>2, <3>3, <3>4 DEF FreshInv, OneProcess
  <2>8. QED
    BY <2>2, <2>3, <2>4, <2>5, <2>6, <2>7, FreshIdentity, FreshStore DEF Next
<1>3. QED
  BY <1>1, <1>2, PTL DEF Spec

\* The state is well-typed, in every archive.
THEOREM TypeCorrect == Spec => []TypeOK
<1>1. FreshInv => TypeOK
  BY DEF FreshInv
<1>2. QED
  BY <1>1, FreshInvariance, PTL

\* While one process at a time uses an archive, new or not, every object is
\* encrypted to the identity that the archive has, wherever the process dies.
THEOREM EncryptsToTheIdentity ==
    ASSUME OneProcess
    PROVE  Spec => []EncryptedToTheIdentity
<1>1. FreshInv => EncryptedToTheIdentity
  BY DEF FreshInv, Alone
<1>2. QED
  BY <1>1, FreshInvariance, PTL

\* Then the identity, once written, is never replaced.
THEOREM KeepsIdentity ==
    ASSUME OneProcess
    PROVE  Spec => IdentityIsKept
<1>1. FreshInv /\ [Next]_vars => [(identity \in Key) => identity' = identity]_vars
  <2> SUFFICES ASSUME FreshInv, Next, identity \in Key PROVE identity' = identity
    BY DEF vars
  <2>1. \A p \in Process : proc[p].pc \notin {"create", "write"}
    BY SpecialValues DEF FreshInv, Alone, AloneCall
  <2>2. QED
    BY <2>1 DEF Next, StoreObject, ReadObject, OpenLarge, ReadIdentity,
                GenerateIdentity, CreateIdentityFile, WriteIdentityFile,
                ReadBackIdentity, Stream, RenameSmall, RenameLarge, CloseLarge,
                Decrypt, Crash
<1>2. QED
  BY <1>1, FreshInvariance, PTL DEF Spec, IdentityIsKept

=============================================================================
