--------------------------- MODULE MCSnapshotFeed ---------------------------
(***************************************************************************)
(* Instances of SnapshotFeed for TLC.                                      *)
(***************************************************************************)
EXTENDS SnapshotFeed

CONSTANTS MaxBatch, Unmatched

MCMatching == {r \in Record : r.key # Unmatched}

MCBatch == UNION {[1..n -> Record] : n \in 1..MaxBatch}

=============================================================================
