---------------------------- MODULE FeedContract ----------------------------
(***************************************************************************)
(* What an incremental feed promises the parties of the pipeline,          *)
(* whatever mixture of snapshots and increments it sends (the "data_feed   *)
(* concept" of src/src/datahub/README.md): there is one ordered log of     *)
(* records; publishing replaces the log by one that keeps every record;    *)
(* after each publication every attached subscriber, and nobody else, is   *)
(* brought to exactly that log before the next publication starts.         *)
(***************************************************************************)
EXTENDS Sequences, SequencesExt

CONSTANTS Record, Subscriber

VARIABLES
  log,        (* the published cache                                       *)
  attached,   (* the subscribers the feed delivers to                      *)
  view,       (* what each subscriber can reconstruct from its callbacks   *)
  stale       (* attached subscribers not yet told of the last publication *)

vars == <<log, attached, view, stale>>

TypeOK ==
  /\ log \in Seq(Record)
  /\ attached \subseteq Subscriber
  /\ view \in [Subscriber -> Seq(Record)]
  /\ stale \subseteq attached

Init ==
  /\ log = <<>>
  /\ attached = {}
  /\ view = [s \in Subscriber |-> <<>>]
  /\ stale = {}

Publish ==
  /\ stale = {}
  /\ log' \in Seq(Record)
  /\ log' # log
  /\ ToSet(log) \subseteq ToSet(log')
  /\ stale' = attached
  /\ UNCHANGED <<attached, view>>

Notify(s) ==
  /\ s \in stale
  /\ view' = [view EXCEPT ![s] = log]
  /\ stale' = stale \ {s}
  /\ UNCHANGED <<log, attached>>

(* A new subscriber starts from the current log.                           *)
Attach(s) ==
  /\ stale = {}
  /\ s \notin attached
  /\ attached' = attached \cup {s}
  /\ view' = [view EXCEPT ![s] = log]
  /\ UNCHANGED <<log, stale>>

(* Dropping the subscription object is the only way to unsubscribe; it can  *)
(* happen at any moment, in the middle of a publication too.                *)
Detach(s) ==
  /\ s \in attached
  /\ attached' = attached \ {s}
  /\ stale' = stale \ {s}
  /\ view' = [view EXCEPT ![s] = <<>>]
  /\ UNCHANGED log

Next ==
  \/ Publish
  \/ \E s \in Subscriber : Notify(s) \/ Attach(s) \/ Detach(s)

Spec == Init /\ [][Next]_vars

=============================================================================
