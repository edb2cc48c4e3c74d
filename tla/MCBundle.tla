------------------------------ MODULE MCBundle ------------------------------
(***************************************************************************)
(* Small instances of Bundle: a directory in two versions.  The first has  *)
(* the file f1 and a snapshot without contents; the second has f1 and a    *)
(* newer version f2 of it.                                                 *)
(***************************************************************************)
EXTENDS Bundle

CONSTANTS d1, d2, f1, f2, e, t1, t2, c1, c2

Snapshots == {d1, d2, f1, f2, e}
Objects == Snapshots \cup {t1, t2, c1, c2}
Directories == {d1, d2}
ContentsOf == (d1 :> t1) @@ (d2 :> t2) @@ (f1 :> c1) @@ (f2 :> c2) @@ (e :> None)
TreeOf == [o \in Objects |-> IF o = t1 THEN {f1, e} ELSE IF o = t2 THEN {f1, f2} ELSE {}]
ParentsOf == [h \in Snapshots |-> IF h = d2 THEN <<d1>> ELSE IF h = f2 THEN <<f1>> ELSE <<>>]

AtMostOne(S) == {{}} \cup {{x} : x \in S}

\* Single objects, and sets that hold all that belongs to what is in them.
Excludable == AtMostOne({d1, f1, t1, c1}) \cup {{f1, c1}, {d1, t1, f1, e, c1}}

Requests == {<<d2>>, <<d1, d2>>, <<d2, d1>>, <<f1, d2>>}

\* Up to one object is missing, and up to one large object is cut short.  The
\* importing archive is empty or, when the other is complete, holds what is
\* excluded.
ManyOrders ==
    {o \in [snapshots : Requests, exclude : Excludable, recurseParents : BOOLEAN,
            source : {Objects \ S : S \in AtMostOne(Objects)},
            cut : AtMostOne({c1}), held : Excludable] :
        /\ o.cut \subseteq o.source
        /\ o.held # {} => o.held = o.exclude /\ o.source = Objects /\ o.cut = {}}

\* Exports of all of the second version, or of one file, from a complete archive.
FewOrders ==
    {[snapshots |-> r, exclude |-> {}, recurseParents |-> FALSE,
      source |-> Objects, cut |-> {}, held |-> {}] : r \in {<<d2>>, <<f1>>}}
OneOrder == {o \in FewOrders : o.snapshots = <<f1>>}
=============================================================================
