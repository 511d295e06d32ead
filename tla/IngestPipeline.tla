--------------------------- MODULE IngestPipeline ---------------------------
(***************************************************************************)
(* The way of a message from a connection to a feed and to the database    *)
(* (src/src/datahub/data_sink.hpp, data_model.hpp): data_dispatcher pushes  *)
(* the raw text onto a bounded queue and posts process_queue to its strand; *)
(* process_queue pops until the queue is empty and offers each text to the  *)
(* data_adapters in turn; the adapter that parses it runs data_sink::accept,*)
(* which hands the records to the feed and then writes them one by one.     *)
(*                                                                         *)
(* Each connection has a dispatcher and a strand of its own; all share the  *)
(* threads of the io_context and the database.  A step of a producer or of  *)
(* a strand needs a thread and keeps it until its handler returns.         *)
(* The feed is the sequence of messages handed to it (see SortedDataFeed).  *)
(***************************************************************************)
EXTENDS Naturals, Sequences, FiniteSets, SequencesExt, SeqFilter

CONSTANTS
  Source,        (* connections, each with its data_dispatcher             *)
  Message,       (* raw texts                                              *)
  Adapters,      (* number of adapters of a dispatcher                     *)
  Parser,        (* Message -> the adapter that parses it, 0 for none      *)
  Records,       (* Message -> the sequence of its records                 *)
  Capacity,      (* of the queue: 1024 in the code                         *)
  IoThreads,     (* of the scheduler                                       *)
  MaxReceived    (* bound on the messages a source receives                *)

ASSUME AdaptersAssumption == Adapters \in Nat
ASSUME ParserAssumption == Parser \in [Message -> 0..Adapters]
ASSUME MessageAssumption == Message # {}
ASSUME RecordsAssumption ==
  /\ DOMAIN Records = Message
  /\ \A m \in Message : Records[m] \in Seq(ToSet(Records[m]))
ASSUME CapacityAssumption == Capacity \in Nat \ {0}
ASSUME IoThreadsAssumption == IoThreads \in Nat \ {0}

Record == UNION {ToSet(Records[m]) : m \in Message}

VARIABLES
  alive,      (* the connection still owns its dispatcher                  *)
  queue,      (* m_data_queue                                              *)
  pushing,    (* operator() is between its push and its post               *)
  posts,      (* process_queue handlers waiting in the strand              *)
  worker,     (* the running process_queue: idle, pop, try, feed, store,   *)
              (* leave                                                     *)
  current,    (* the message it popped                                     *)
  adapter,    (* the adapter it tries next                                 *)
  position,   (* records of the message written so far                     *)
  fed,        (* the messages handed to the feed                           *)
  stored,     (* the records in the database                               *)
  admitted,   (* history: the messages the queue took                      *)
  unsaved     (* history: records whose write threw, or was not tried then *)

dispatch == <<queue, pushing, posts>>
work == <<worker, current, adapter, position>>
vars == <<alive, dispatch, work, fed, stored, admitted, unsaved>>

Threads ==
  {s \in Source : worker[s] # "idle"} \X {"strand"}
    \cup {s \in Source : pushing[s]} \X {"producer"}

ThreadFree == Cardinality(Threads) < IoThreads

-----------------------------------------------------------------------------
(* data_dispatcher::operator(), on the connection's coroutine.             *)

(* Mutation: the result of push is not looked at, nor the capacity.         *)
PushUnchecked(s, m) ==
  /\ ThreadFree
  /\ alive[s] /\ ~pushing[s]
  /\ Len(admitted[s]) < MaxReceived
  /\ queue' = [queue EXCEPT ![s] = Append(@, m)]
  /\ admitted' = [admitted EXCEPT ![s] = Append(@, m)]
  /\ pushing' = [pushing EXCEPT ![s] = TRUE]
  /\ UNCHANGED <<alive, posts, work, fed, stored, unsaved>>

(* The text is queued, ...                                                 *)
Push(s, m) ==
  /\ ThreadFree
  /\ alive[s] /\ ~pushing[s]
  /\ Len(admitted[s]) < MaxReceived
  /\ Len(queue[s]) < Capacity
  /\ queue' = [queue EXCEPT ![s] = Append(@, m)]
  /\ admitted' = [admitted EXCEPT ![s] = Append(@, m)]
  /\ pushing' = [pushing EXCEPT ![s] = TRUE]
  /\ UNCHANGED <<alive, posts, work, fed, stored, unsaved>>

(* Mutation: nothing is posted while the strand runs process_queue.         *)
PostUnlessRunning(s) ==
  /\ pushing[s]
  /\ posts' = [posts EXCEPT ![s] = IF worker[s] = "idle" THEN @ + 1 ELSE @]
  /\ pushing' = [pushing EXCEPT ![s] = FALSE]
  /\ UNCHANGED <<alive, queue, work, fed, stored, unsaved, admitted>>

(* ... and the strand told of it.  A text that finds the queue full is       *)
(* dropped without a trace: a step that changes nothing.                    *)
Post(s) ==
  /\ pushing[s]
  /\ posts' = [posts EXCEPT ![s] = @ + 1]
  /\ pushing' = [pushing EXCEPT ![s] = FALSE]
  /\ UNCHANGED <<alive, queue, work, fed, stored, unsaved, admitted>>

(* The owner drops the connection and with it the queue and the adapters.   *)
Destroy(s) ==
  /\ alive[s] /\ ~pushing[s]
  /\ alive' = [alive EXCEPT ![s] = FALSE]
  /\ UNCHANGED <<dispatch, work, fed, stored, unsaved, admitted>>

-----------------------------------------------------------------------------
(* process_queue, on the strand.                                           *)

(* It locks its weak references and runs only if the dispatcher is alive;   *)
(* then it keeps the queue and the adapters alive itself.                  *)
Start(s) ==
  /\ ThreadFree
  /\ worker[s] = "idle"
  /\ posts[s] > 0
  /\ posts' = [posts EXCEPT ![s] = @ - 1]
  /\ worker' = [worker EXCEPT ![s] = IF alive[s] THEN "pop" ELSE "leave"]
  /\ UNCHANGED <<alive, queue, pushing, current, adapter, position, fed, stored, unsaved,
                 admitted>>

Pop(s) ==
  /\ worker[s] = "pop"
  /\ queue[s] # <<>>
  /\ current' = [current EXCEPT ![s] = Head(queue[s])]
  /\ queue' = [queue EXCEPT ![s] = Tail(@)]
  /\ adapter' = [adapter EXCEPT ![s] = 1]
  /\ worker' = [worker EXCEPT ![s] = "try"]
  /\ UNCHANGED <<alive, pushing, posts, position, fed, stored, unsaved, admitted>>

(* The queue is found empty, then the handler returns.                     *)
Drained(s) ==
  /\ worker[s] = "pop"
  /\ queue[s] = <<>>
  /\ worker' = [worker EXCEPT ![s] = "leave"]
  /\ UNCHANGED <<alive, dispatch, current, adapter, position, fed, stored, unsaved,
                 admitted>>

Leave(s) ==
  /\ worker[s] = "leave"
  /\ worker' = [worker EXCEPT ![s] = "idle"]
  /\ UNCHANGED <<alive, dispatch, current, adapter, position, fed, stored, unsaved,
                 admitted>>

(* data_adapter::operator() fails to parse: the next one is tried, and after *)
(* the last the text is forgotten.                                         *)
NextAdapter(s) ==
  IF adapter[s] < Adapters
  THEN /\ adapter' = [adapter EXCEPT ![s] = @ + 1]
       /\ worker' = [worker EXCEPT ![s] = "try"]
  ELSE /\ worker' = [worker EXCEPT ![s] = "pop"]
       /\ UNCHANGED adapter

ParseFails(s) ==
  /\ worker[s] = "try"
  /\ Parser[current[s]] # adapter[s]
  /\ NextAdapter(s)
  /\ UNCHANGED <<alive, dispatch, current, position, fed, stored, unsaved, admitted>>

Parses(s) ==
  /\ worker[s] = "try"
  /\ Parser[current[s]] = adapter[s]
  /\ worker' = [worker EXCEPT ![s] = "feed"]
  /\ UNCHANGED <<alive, dispatch, current, adapter, position, fed, stored, unsaved,
                 admitted>>

(* data_sink::accept: the feed first.  What its subscribers throw is caught *)
(* by the sink's own handler.                                              *)
Feed(s) ==
  /\ worker[s] = "feed"
  /\ fed' = [fed EXCEPT ![s] = Append(@, current[s])]
  /\ worker' = [worker EXCEPT ![s] = "store"]
  /\ UNCHANGED <<alive, dispatch, current, adapter, position, stored, unsaved, admitted>>

(* data_model::accept: one insert_or_replace after the other, no transaction.*)
Store(s) ==
  /\ worker[s] = "store"
  /\ position[s] < Len(Records[current[s]])
  /\ position' = [position EXCEPT ![s] = @ + 1]
  /\ stored' = stored \cup {Records[current[s]][position[s] + 1]}
  /\ UNCHANGED <<alive, dispatch, worker, current, adapter, fed, admitted, unsaved>>

(* Mutation: the last record of a message is not written.                   *)
StoredOneShort(s) ==
  /\ worker[s] = "store"
  /\ position[s] + 1 >= Len(Records[current[s]])
  /\ position' = [position EXCEPT ![s] = 0]
  /\ worker' = [worker EXCEPT ![s] = "pop"]
  /\ UNCHANGED <<alive, dispatch, current, adapter, fed, stored, admitted, unsaved>>

Stored(s) ==
  /\ worker[s] = "store"
  /\ position[s] = Len(Records[current[s]])
  /\ position' = [position EXCEPT ![s] = 0]
  /\ worker' = [worker EXCEPT ![s] = "pop"]
  /\ UNCHANGED <<alive, dispatch, current, adapter, fed, stored, unsaved, admitted>>

(* Mutation: after a failed write the same adapter is tried again.          *)
StoreFailsRetrying(s) ==
  /\ worker[s] = "store"
  /\ position[s] < Len(Records[current[s]])
  /\ position' = [position EXCEPT ![s] = 0]
  /\ worker' = [worker EXCEPT ![s] = "try"]
  /\ UNCHANGED <<alive, dispatch, current, adapter, fed, stored, unsaved, admitted>>

(* What the message in hand has not written yet.                           *)
Unwritten(s) ==
  {Records[current[s]][i] : i \in (position[s] + 1) .. Len(Records[current[s]])}

(* A write throws: the adapter reports failure and the next one is tried;   *)
(* the records behind it are not tried again.                              *)
StoreFails(s) ==
  /\ worker[s] = "store"
  /\ position[s] < Len(Records[current[s]])
  /\ NextAdapter(s)
  /\ position' = [position EXCEPT ![s] = 0]
  /\ unsaved' = unsaved \cup Unwritten(s)
  /\ UNCHANGED <<alive, dispatch, current, fed, stored, admitted>>

-----------------------------------------------------------------------------
Init ==
  /\ alive = [s \in Source |-> TRUE]
  /\ queue = [s \in Source |-> <<>>]
  /\ pushing = [s \in Source |-> FALSE]
  /\ posts = [s \in Source |-> 0]
  /\ worker = [s \in Source |-> "idle"]
  /\ current = [s \in Source |-> CHOOSE m \in Message : TRUE]
  /\ adapter = [s \in Source |-> 1]
  /\ position = [s \in Source |-> 0]
  /\ fed = [s \in Source |-> <<>>]
  /\ stored = {}
  /\ admitted = [s \in Source |-> <<>>]
  /\ unsaved = {}

Step(s) ==
  \/ Post(s)
  \/ Start(s) \/ Pop(s) \/ Drained(s) \/ Leave(s)
  \/ ParseFails(s) \/ Parses(s)
  \/ Feed(s) \/ Store(s) \/ Stored(s) \/ StoreFails(s)

Next ==
  \/ \E s \in Source, m \in Message : Push(s, m)
  \/ \E s \in Source : Destroy(s)
  \/ \E s \in Source : Step(s)

Spec == Init /\ [][Next]_vars

(* What a thread has started it finishes, and a thread that is free picks up *)
(* waiting handlers.  Nothing obliges a connection to receive.              *)
FairSpec == Spec /\ \A s \in Source : WF_vars(Step(s))

-----------------------------------------------------------------------------
(* Properties.                                                             *)

TypeOK ==
  /\ alive \in [Source -> BOOLEAN]
  /\ queue \in [Source -> Seq(Message)]
  /\ \A s \in Source : Len(queue[s]) <= Capacity
  /\ pushing \in [Source -> BOOLEAN]
  /\ posts \in [Source -> Nat]
  /\ worker \in [Source -> {"idle", "pop", "try", "feed", "store", "leave"}]
  /\ current \in [Source -> Message]
  /\ adapter \in [Source -> Nat]
  /\ position \in [Source -> Nat]
  /\ fed \in [Source -> Seq(Message)]
  /\ stored \subseteq Record
  /\ admitted \in [Source -> Seq(Message)]
  /\ unsaved \subseteq Record

(* The messages some adapter parses.                                       *)
Known == {m \in Message : Parser[m] \in 1..Adapters}

(* What is taken from the queue and not yet handed on, then the queue.      *)
Pending(s) ==
  (IF worker[s] = "feed" \/ (worker[s] = "try" /\ adapter[s] <= Parser[current[s]])
   THEN <<current[s]>> ELSE <<>>) \o queue[s]

(* Each message the queue took and an adapter understands is handed to the   *)
(* feed exactly once and in order of arrival, whatever fails in between.    *)
ExactlyOnceInOrder ==
  \A s \in Source :
    fed[s] \o Only(Pending(s), Known) = Only(admitted[s], Known)

(* No message waits in a queue that nobody is going to look at.             *)
NoLostWakeup ==
  \A s \in Source :
    alive[s] /\ queue[s] # <<>> =>
      pushing[s] \/ posts[s] > 0 \/ worker[s] \in {"pop", "try", "feed", "store"}

(* What the feed's subscribers were shown is in the database, but for what   *)
(* the connection still has in hand to write and what a failing write left   *)
(* out: wherever the program ends, and although a connection may be destroyed *)
(* while its queue is drained, no more is lost (data_sink.hpp:108,171-172).  *)
BeingWritten(s) == IF worker[s] = "store" THEN Unwritten(s) ELSE {}

FedIsKept ==
  \A s \in Source : \A m \in ToSet(fed[s]) :
    ToSet(Records[m]) \subseteq stored \cup unsaved \cup BeingWritten(s)

(* Every admitted message is eventually handled, or the connection is gone. *)
Handled(s) == Len(admitted[s]) - Len(Pending(s))

EventuallyHandled ==
  \A s \in Source, n \in 1..MaxReceived :
    Len(admitted[s]) >= n ~> Handled(s) >= n \/ ~alive[s]
=============================================================================
