---------------------------- MODULE MCMainWindow ----------------------------
(***************************************************************************)
(* MainWindow for TLC.  Nodes may be permuted: an event that makes one takes *)
(* it from the free nodes, which are all alike, and no property names one.  *)
(* The list is copied while it grows, so a part of it is a beginning.       *)
(***************************************************************************)
EXTENDS MainWindow

CONSTANTS s1, s2

MCSymbol == {s1, s2}
MCLists == {{s1}, {s1, s2}}

NodeSymmetry == Permutations(Node)
=============================================================================
