----------------------------- MODULE MCClipSync -----------------------------
(***************************************************************************)
(* Instances of ClipSync for TLC.                                          *)
(***************************************************************************)
EXTENDS ClipSync, TLC

CONSTANTS n1, n2, n3, t1, t2, f1, f2, f3

\* Every node is connected to every other one.
FullMesh == [n \in Nodes |-> Nodes \ {n}]

TextsAndFiles == {<<t1>>, <<t2>>, <<f1, f2>>}
TwoTexts      == {<<t1>>, <<t2>>}
SingleFiles   == {<<f1>>, <<f2>>}
Selection     == {<<f1, f2>>}
Selections    == {<<t1>>, <<f1, f2>>, <<f2, f3>>}

\* Nodes that start alike and copy alike are interchangeable.
AllNodes == Permutations(Nodes)
=============================================================================
