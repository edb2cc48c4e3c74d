--------------------------- MODULE ArchivedHistory ---------------------------
(***************************************************************************)
(* What a command that reads the history of a snapshot has before it: the  *)
(* graph of the snapshots, and those of them that the archive holds.       *)
(* Snapshots are immutable, so neither changes while it reads.             *)
(***************************************************************************)
EXTENDS Ancestry

CONSTANT Archives   \* the sets of snapshots an archive may hold

ASSUME ArchivesAssumption == Archives \subseteq SUBSET Snapshot

VARIABLES
    parents,        \* the history graph
    present         \* the snapshots the archive holds

=============================================================================
