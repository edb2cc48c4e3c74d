---------------------------- MODULE MCObjectStore ----------------------------
(***************************************************************************)
(* Small instances of ObjectStore: either an archive that has its identity *)
(* and is used by all the processes at the same time, or a new one that is *)
(* used by one process at a time.                                          *)
(***************************************************************************)
EXTENDS ObjectStore

VARIABLE new            \* whether it is the latter

mcVars == <<vars, new>>

NewArchive == INSTANCE ObjectStore WITH FirstIdentity <- NoFile

Busy == {p \in Process : proc[p].pc # "idle"}

MCInit ==
    \/ new = FALSE /\ Init
    \/ new = TRUE /\ NewArchive!Init

MCNext ==
    /\ Next
    /\ new => Cardinality(Busy') <= 1
    /\ UNCHANGED new

MCSpec == MCInit /\ [][MCNext]_mcVars
=============================================================================
