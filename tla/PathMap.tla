------------------------------- MODULE PathMap -------------------------------
(***************************************************************************)
(* The mapping from paths to their latest snapshots (storage/storage.go):  *)
(* StoreSnapshot, which records the latest snapshot of a path and forgets  *)
(* the paths below it that are gone, and RemoveMappingForPath.             *)
(*                                                                         *)
(* A path is the sequence of names that leads to it from the top of the    *)
(* tree that is looked at.  The archive keeps two things: a file per path  *)
(* with the hash of its latest snapshot, and the directory mappedPaths,    *)
(* with a directory for every path that was ever recorded, and for all of  *)
(* its ancestors, so that the paths below a path can be listed.            *)
(*                                                                         *)
(* Only here and where it is used is a snapshot a structured value, equal  *)
(* to another exactly when their hashes are: its kind and its mode, its    *)
(* contents, which for a directory map names to snapshots, and the list of *)
(* its parents.                                                            *)
(***************************************************************************)
EXTENDS Naturals, Sequences, SequencesExt

CONSTANTS
    Name,           \* the names of files
    Path,           \* the paths looked at
    None            \* no file, no snapshot

ASSUME PathAssumption ==
    /\ Path \subseteq Seq(Name) /\ IsFiniteSet(Path) /\ <<>> \in Path
    /\ \A p \in Path : p # <<>> => Front(p) \in Path

Children(p) == {q \in Path : q # <<>> /\ Front(q) = p}
Below(p) == {q \in Path : IsPrefix(p, q)}
Above(p) == {q \in Path : IsPrefix(q, p)}

\* The snapshot h is that of a directory that lists the path q, its child.
Lists(h, q) == h # None /\ h.kind = "dir" /\ Last(q) \in DOMAIN h.contents

\* The snapshot of the path q in the tree of the snapshot h.
At(h, q) ==
    LET in[p \in Path] ==
            IF p = <<>> THEN h
            ELSE IF Lists(in[Front(p)], p) THEN in[Front(p)].contents[Last(p)] ELSE None
    IN  in[q]

-----------------------------------------------------------------------------
\* A mapping that has been truncated and not been written.  It is not taken for
\* none: FindSnapshot fails.
Blank == [kind |-> "blank"]

\* A path map: the latest snapshots, and the paths with a directory in mappedPaths.
NoMappings == [latest |-> [p \in Path |-> None], known |-> {}]

\* The paths whose mapping RemoveMappingForPath(q) removes: it goes on to the
\* children in the tree of the snapshot it removes, and stops where a path has
\* no snapshot.
Forgotten(latest, q) ==
    {r \in Below(q) : \A p \in Below(q) \cap Above(r) :
                          latest[p] # None /\ (p # q => Lists(latest[Front(p)], p))}

\* Faults: of the directories in mappedPaths only that of p is made; the
\* children that are gone keep their mappings.
StoreSnapshotShallow(m, p, f) ==
    [latest |-> [m.latest EXCEPT ![p] = f], known |-> m.known \cup {p}]

StoreSnapshotOnly(m, p, f) ==
    [latest |-> [m.latest EXCEPT ![p] = f], known |-> m.known \cup Above(p)]

\* The children of p that have a directory in mappedPaths and are not in the
\* tree of f: their mappings are to be removed.
Removed(m, p, f) == {q \in Children(p) \cap m.known : ~Lists(f, q)}

\* The latest snapshot of p is f, the directories of the children in begun have
\* been removed from mappedPaths, and so have the mappings of the paths in gone.
Forgetting(m, p, f, begun, gone) ==
    LET latest == [m.latest EXCEPT ![p] = f]
    IN  [latest |-> [q \in Path |-> IF q \in gone THEN None ELSE latest[q]],
         known  |-> (m.known \cup Above(p)) \ UNION {Below(q) : q \in begun}]

ForgottenBy(m, p, f, begun) ==
    UNION {Forgotten([m.latest EXCEPT ![p] = f], q) : q \in begun}

\* StoreSnapshot records f as the latest snapshot of p, and then removes the
\* mappings of the children that are gone.
StoreSnapshot(m, p, f) ==
    LET removed == Removed(m, p, f)
    IN  Forgetting(m, p, f, removed, ForgottenBy(m, p, f, removed))

\* Mappings are removed one by one: that of a path before those below it, and
\* all of those at one child and below it before the next child.
OneByOne(latest, begun, gone) ==
    /\ \A q \in gone \ begun : Front(q) \in gone
    /\ \A q, r \in begun \cup gone :
           q # r /\ Front(q) = Front(r) =>
               Forgotten(latest, q) \subseteq gone \/ Forgotten(latest, r) \subseteq gone

\* What StoreSnapshot leaves when it is cut short: before and after it has made
\* the directories, with the mapping truncated and not written, and with it
\* written and some of the others removed.
CutShort(m, p, f) ==
    LET known == m.known \cup Above(p)
        removed == Removed(m, p, f)
    IN  {m, [latest |-> m.latest, known |-> known],
         [latest |-> [m.latest EXCEPT ![p] = Blank], known |-> known]}
        \cup {Forgetting(m, p, f, cut[1], cut[2]) :
                  cut \in {c \in (SUBSET removed) \X (SUBSET ForgottenBy(m, p, f, removed)) :
                              /\ c[2] \subseteq ForgottenBy(m, p, f, c[1])
                              /\ OneByOne([m.latest EXCEPT ![p] = f], c[1], c[2])}}
=============================================================================
