--------------------------- MODULE SnapshotMerge ---------------------------
(***************************************************************************)
(* The merges of the two snapshot-only feeds                               *)
(* (src/src/datahub/data_feed.hpp).  sorted_snapshot_data_feed walks its    *)
(* cache and the batch once, side by side; keyed_snapshot_data_feed         *)
(* replaces or appends.  Both take the cache and the filtered batch and     *)
(* return the cache and whether the subscribers are to be told.            *)
(***************************************************************************)
EXTENDS Integers, Sequences, SequencesExt

CONSTANTS SortField(_), KeyField(_)   (* the template parameters           *)

(* The records a feed does not tell apart.                                 *)
Same(r, t) == SortField(r) = SortField(t) /\ KeyField(r) = KeyField(t)

(* cache_it after the inner while loop: the first position from pos on      *)
(* whose record does not sort before r, or the end.                        *)
Advanced(cache, pos, r) ==
  CHOOSE p \in pos..Len(cache) + 1 :
    /\ \A i \in pos..p - 1 : SortField(cache[i]) < SortField(r)
    /\ p <= Len(cache) => ~(SortField(cache[p]) < SortField(r))

(* Mutation: after an insertion the walk skips the record it stopped at.   *)
MergeOneOverrunning(m, r) ==
  LET p == Advanced(m.cache, m.pos, r) IN
  CASE m.appending \/ p > Len(m.cache) ->
         [m EXCEPT !.cache = Append(@, r), !.appending = TRUE, !.changed = TRUE]
    [] ~m.appending /\ p <= Len(m.cache) /\ Same(r, m.cache[p]) ->
         [m EXCEPT !.pos = p + 1]
    [] ~m.appending /\ p <= Len(m.cache) /\ ~Same(r, m.cache[p]) ->
         [m EXCEPT !.cache = InsertAt(@, p, r), !.pos = p + 2, !.changed = TRUE]

(* One record of the batch.  Once the walk is at the end of the cache the   *)
(* whole rest of the batch is appended.  Else the record goes before the    *)
(* one met, unless it equals it, and that position is left behind.          *)
MergeOne(m, r) ==
  LET p == Advanced(m.cache, m.pos, r) IN
  CASE m.appending \/ p > Len(m.cache) ->
         [m EXCEPT !.cache = Append(@, r), !.appending = TRUE, !.changed = TRUE]
    [] ~m.appending /\ p <= Len(m.cache) /\ Same(r, m.cache[p]) ->
         [m EXCEPT !.pos = p + 1]
    [] ~m.appending /\ p <= Len(m.cache) /\ ~Same(r, m.cache[p]) ->
         [m EXCEPT !.cache = InsertAt(@, p, r), !.pos = p + 1, !.changed = TRUE]

(* The acceptor of sorted_snapshot_data_feed; an empty cache takes the      *)
(* batch as it comes.                                                      *)
SortedMerge(cache, in) ==
  IF cache = <<>>
  THEN [cache |-> in, changed |-> in # <<>>]
  ELSE LET m == FoldLeft(MergeOne, [cache |-> cache, pos |-> 1,
                                    appending |-> FALSE, changed |-> FALSE], in)
       IN [cache |-> m.cache, changed |-> m.changed]

(* Mutation: the found record is erased and the new one appended.          *)
UpsertAtTheEnd(cache, r) ==
  Append(SelectSeq(cache, LAMBDA c : KeyField(c) # KeyField(r)), r)

(* Mutation: only new keys are stored.                                     *)
UpsertNewOnly(cache, r) ==
  IF \E c \in ToSet(cache) : KeyField(c) = KeyField(r) THEN cache ELSE Append(cache, r)

(* The acceptor of keyed_snapshot_data_feed: find_if by key, then assign or *)
(* emplace_back.                                                           *)
Upsert(cache, r) ==
  LET p == SelectInSeq(cache, LAMBDA c : KeyField(c) = KeyField(r)) IN
  IF p = 0 THEN Append(cache, r) ELSE [cache EXCEPT ![p] = r]

KeyedMerge(cache, in) ==
  [cache |-> FoldLeft(Upsert, cache, in), changed |-> in # <<>>]

=============================================================================
