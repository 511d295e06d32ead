-------------------------- MODULE MCSortedDataFeed --------------------------
(***************************************************************************)
(* Instances of SortedDataFeed for TLC: three timestamps, two ids, every   *)
(* batch of up to MaxBatch records, in any order and with repetitions.     *)
(***************************************************************************)
EXTENDS SortedDataFeed

CONSTANTS MaxBatch, Unmatched

MCMatching == {r \in Record : r.key # Unmatched}
MCBatch == UNION {[1..n -> Record] : n \in 1..MaxBatch}

=============================================================================
