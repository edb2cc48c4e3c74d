------------------------------ MODULE MCPublish ------------------------------
(***************************************************************************)
(* Small instances of Publish: two mirrors, of which m2 is for all         *)
(* identities and so is asked last.                                        *)
(***************************************************************************)
EXTENDS Publish

CONSTANTS m1, m2

Listed(m) == <<[mirror |-> m, readOnly |-> FALSE]>>

OneMirror == [own |-> <<>>, additional |-> Listed(m2)]

TwoMirrors == [own |-> Listed(m1), additional |-> Listed(m2)]

\* A publisher with both mirrors; the others start with m2 alone.
PublisherAndReader == [a \in Archive |-> IF a \in Publisher THEN TwoMirrors ELSE OneMirror]

AllOneMirror == [a \in Archive |-> OneMirror]
=============================================================================
