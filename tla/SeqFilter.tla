----------------------------- MODULE SeqFilter -----------------------------
(***************************************************************************)
(* The elements of a sequence that are in a set, in their order.  This is    *)
(* SelectSeq with the test \in; it is defined by a fold because the provers *)
(* do not see the definition of SelectSeq.                                  *)
(***************************************************************************)
EXTENDS Sequences, SequencesExt

Only(s, S) ==
  LET Keep(kept, e) == IF e \in S THEN Append(kept, e) ELSE kept
  IN FoldLeft(Keep, <<>>, s)
=============================================================================
