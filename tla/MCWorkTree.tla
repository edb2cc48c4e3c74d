----------------------------- MODULE MCWorkTree -----------------------------
(***************************************************************************)
(* Small instances of WorkTree: a directory with a file a and a directory  *)
(* d that has a file x.                                                    *)
(***************************************************************************)
EXTENDS WorkTree

CONSTANTS x1, x2, m1, m2

Names == {"a", "d", "x", "z"}
Paths == {<<>>, <<"a">>, <<"d">>, <<"d", "x">>}

Plain(m, data, parents) == [kind |-> "file", mode |-> m, contents |-> data, parents |-> parents]
Link(data, parents) == [Plain(m1, data, parents) EXCEPT !.kind = "link"]
Tree(m, contents, parents) == [kind |-> "dir", mode |-> m, contents |-> contents, parents |-> parents]

\* The snapshot that is checked out in the beginning.
a0 == Plain(m1, x1, <<>>)
x0 == Plain(m1, x1, <<>>)
d0 == Tree(m1, "x" :> x0, <<>>)
top0 == Tree(m1, ("a" :> a0) @@ ("d" :> d0), <<>>)

\* Its successors elsewhere: a changed, x changed, d removed, d replaced.
a1 == Plain(m2, x2, <<a0>>)
x1of0 == Plain(m1, x2, <<x0>>)
d1 == Tree(m1, "x" :> x1of0, <<d0>>)
d2 == Link(x2, <<d0>>)
changedA == Tree(m1, ("a" :> a1) @@ ("d" :> d0), <<top0>>)
changedX == Tree(m1, ("a" :> a0) @@ ("d" :> d1), <<top0>>)
removedD == Tree(m1, "a" :> a0, <<top0>>)
replacedD == Tree(m1, ("a" :> a0) @@ ("d" :> d2), <<top0>>)

\* A snapshot that has no history in common with them.
a2 == Plain(m1, x2, <<>>)
unrelated == Tree(m1, "a" :> a2, <<>>)

AllElsewhere ==
    {a0, x0, d0, top0, a1, x1of0, d1, d2, a2, changedA, changedX, removedD, replacedD, unrelated}

SomeSources == {changedA, changedX, removedD, replacedD, unrelated}
OneSource == {changedX}
OneStart == {top0}

\* The archive is in the tree.
ArchiveInside == <<"z">>
PathsWithArchive == Paths \cup {ArchiveInside}

\* More than two commands can add to the snapshots below.
FewGenerations == 0..7

SomeAbsences == {{}, {d1}}

SomeStarts == {None, top0}

NoUmask == [m \in Mode |-> m]
=============================================================================
