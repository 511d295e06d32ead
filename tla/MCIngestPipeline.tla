-------------------------- MODULE MCIngestPipeline --------------------------
(***************************************************************************)
(* Instances of IngestPipeline for TLC: two connections; a message of two   *)
(* records that the second adapter parses, and one that none does.          *)
(***************************************************************************)
EXTENDS IngestPipeline

CONSTANTS trades, garbage, r1, r2

MCMessage == {trades, garbage}
MCParser == [m \in MCMessage |-> IF m = trades THEN 2 ELSE 0]
MCRecords == [m \in MCMessage |-> IF m = trades THEN <<r1, r2>> ELSE <<>>]

=============================================================================
