------------------------ MODULE WebsocketConnection ------------------------
(***************************************************************************)
(* connect::websock_connection (src/src/connect/websocket.{hpp,cpp}): three *)
(* coroutines on one strand share a connection object they do not own.  The *)
(* exec loop opens the stream, then reads and hands on; the send loop       *)
(* drains a bounded channel, one write at a time; the heartbeat loop puts a *)
(* ping on the channel at every tick.  operator() starts one co_enqueue per *)
(* payload.  From one co_await to the next a coroutine has the strand.      *)
(*                                                                         *)
(* The object lives as long as its owner, an open in progress or an enqueue *)
(* holds it.  The network, external, may fail or stay silent at any await.  *)
(* The connection context outlives the connection, as in ByBitDataManager.  *)
(***************************************************************************)
EXTENDS Naturals, Sequences

CONSTANTS
  Capacity,    (* of m_send_channel: 64 in the code                        *)
  MaxPayloads  (* bound on the calls of operator()                         *)

ASSUME CapacityAssumption == Capacity \in Nat \ {0}
ASSUME MaxPayloadsAssumption == MaxPayloads \in Nat

(* A payload is the number of its operator() call; a heartbeat is 0.        *)
Ping == 0
Payload == 0..MaxPayloads

VARIABLES
  status,     (* m_status: INIT, READY, STALE                              *)
  owned,      (* the owner keeps its shared_ptr                            *)
  exec,       (* co_exec_loop: opening, retry, loop (it has the strand and *)
              (* enters co_read), reading, crashed, done                   *)
  sender,     (* co_send_loop: check, receive, poll, writing, done         *)
  out,        (* the payload in its hands                                  *)
  heartbeat,  (* co_heartbeat_loop: off (timer at max), armed, sending,    *)
              (* done                                                      *)
  spawned,    (* co_enqueue coroutines not yet run                         *)
  blocked,    (* co_enqueue coroutines waiting for room in the channel     *)
  channel,    (* m_send_channel                                            *)
  calls,      (* operator() calls so far                                   *)
  sent,       (* history: the payloads written, heartbeats left out        *)
  invented    (* history: the handler got a text that nobody sent          *)

queues == <<spawned, blocked, channel>>
history == <<calls, sent, invented>>
vars == <<status, owned, exec, sender, out, heartbeat, queues, history>>

(* weak_ptr::lock succeeds.                                                *)
Alive == owned \/ exec = "opening" \/ spawned # <<>> \/ blocked # <<>>

StrandFree == exec # "loop"

-----------------------------------------------------------------------------
(* The owner, on any thread.                                               *)

(* operator(): spawn a co_enqueue.                                         *)
Send ==
  /\ owned
  /\ calls < MaxPayloads
  /\ calls' = calls + 1
  /\ spawned' = Append(spawned, calls + 1)
  /\ UNCHANGED <<status, owned, exec, sender, out, heartbeat, blocked, channel,
                 sent, invented>>

(* set_heartbeat: the pending wait is aborted and entered again.            *)
SetHeartbeat ==
  /\ owned
  /\ heartbeat = "off"
  /\ heartbeat' = "armed"
  /\ UNCHANGED <<status, owned, exec, sender, out, queues, history>>

Drop ==
  /\ owned
  /\ owned' = FALSE
  /\ UNCHANGED <<status, exec, sender, out, heartbeat, queues, history>>

-----------------------------------------------------------------------------
(* co_enqueue and co_heartbeat_loop.                                       *)

Room == Len(channel) < Capacity

(* async_send: to the waiting receiver, else into the buffer.               *)
HandOver(p) ==
  \/ /\ sender = "receive"
     /\ out' = p
     /\ sender' = "poll"
     /\ UNCHANGED channel
  \/ /\ sender # "receive" /\ Room
     /\ channel' = Append(channel, p)
     /\ UNCHANGED <<sender, out>>

MustWait == sender # "receive" /\ ~Room

(* Mutation: try_send, which gives up on a full channel.                    *)
EnqueueOrForget ==
  /\ StrandFree
  /\ spawned # <<>>
  /\ spawned' = Tail(spawned)
  /\ HandOver(Head(spawned)) \/ (MustWait /\ UNCHANGED <<channel, sender, out>>)
  /\ UNCHANGED <<status, owned, exec, heartbeat, blocked, history>>

(* Mutation: the channel has no capacity.                                  *)
EnqueueUnbounded ==
  /\ StrandFree
  /\ spawned # <<>>
  /\ spawned' = Tail(spawned)
  /\ channel' = Append(channel, Head(spawned))
  /\ UNCHANGED <<status, owned, exec, sender, out, heartbeat, blocked, history>>

(* A spawned co_enqueue runs up to its async_send.                         *)
Enqueue ==
  /\ StrandFree
  /\ spawned # <<>>
  /\ spawned' = Tail(spawned)
  /\ \/ /\ HandOver(Head(spawned))
        /\ UNCHANGED blocked
     \/ /\ MustWait
        /\ blocked' = Append(blocked, Head(spawned))
        /\ UNCHANGED <<channel, sender, out>>
  /\ UNCHANGED <<status, owned, exec, heartbeat, history>>

(* A tick: the loop ends with the object or its session, else it sends a    *)
(* ping and waits for it to be taken.                                      *)
Tick ==
  /\ StrandFree
  /\ heartbeat = "armed"
  /\ \/ /\ ~Alive \/ status = "STALE"
        /\ heartbeat' = "done"
        /\ UNCHANGED <<blocked, channel, sender, out>>
     \/ /\ Alive /\ status # "STALE"
        /\ HandOver(Ping)
        /\ UNCHANGED <<heartbeat, blocked>>
     \/ /\ Alive /\ status # "STALE" /\ MustWait
        /\ blocked' = Append(blocked, Ping)
        /\ heartbeat' = "sending"
        /\ UNCHANGED <<channel, sender, out>>
  /\ UNCHANGED <<status, owned, exec, spawned, history>>

-----------------------------------------------------------------------------
(* co_send_loop.                                                           *)

(* The loop ends with the object or its session.                           *)
SendLoopEnds ==
  /\ ~Alive \/ status = "STALE"
  /\ sender' = "done"
  /\ UNCHANGED <<out, heartbeat, blocked, channel>>

(* async_receive takes the head of the buffer, whose place goes to the first *)
(* blocked enqueue, or waits.                                              *)
SendReceive ==
  /\ StrandFree
  /\ sender = "check"
  /\ \/ SendLoopEnds
     \/ /\ Alive /\ status # "STALE"
        /\ channel = <<>>
        /\ sender' = "receive"
        /\ UNCHANGED <<out, heartbeat, blocked, channel>>
     \/ /\ Alive /\ status # "STALE"
        /\ channel # <<>>
        /\ out' = Head(channel)
        /\ sender' = "poll"
        /\ \/ /\ blocked = <<>>
              /\ channel' = Tail(channel)
              /\ UNCHANGED <<blocked, heartbeat>>
           \/ /\ blocked # <<>>
              /\ channel' = Append(Tail(channel), Head(blocked))
              /\ blocked' = Tail(blocked)
              /\ heartbeat' = IF Head(blocked) = Ping THEN "armed" ELSE heartbeat
  /\ UNCHANGED <<status, owned, exec, spawned, history>>

(* The channel goes away with the object and with it the pending receive.   *)
ReceiveCancelled ==
  /\ StrandFree
  /\ sender = "receive"
  /\ ~Alive
  /\ sender' = "done"
  /\ UNCHANGED <<status, owned, exec, out, heartbeat, queues, history>>

(* Mutation: the send loop writes as soon as the session is not stale.      *)
SendPollUnlessStale ==
  /\ StrandFree
  /\ sender = "poll"
  /\ \/ SendLoopEnds
     \/ /\ Alive /\ status # "STALE"
        /\ sender' = "writing"
        /\ UNCHANGED <<out, heartbeat, blocked, channel>>
  /\ UNCHANGED <<status, owned, exec, spawned, history>>

(* Mutation: the send loop goes back for the next payload when the stream   *)
(* is not up, instead of polling again.                                    *)
SendPollOnce ==
  /\ StrandFree
  /\ sender = "poll"
  /\ \/ SendLoopEnds
     \/ /\ Alive /\ status # "STALE"
        /\ sender' = IF status = "READY" THEN "writing" ELSE "check"
        /\ UNCHANGED <<out, heartbeat, blocked, channel>>
  /\ UNCHANGED <<status, owned, exec, spawned, history>>

(* The payload waits for the stream, 50 ms at a time.                      *)
SendPoll ==
  /\ StrandFree
  /\ sender = "poll"
  /\ \/ SendLoopEnds
     \/ /\ Alive /\ status = "READY"
        /\ sender' = "writing"
        /\ UNCHANGED <<out, heartbeat, blocked, channel>>
  /\ UNCHANGED <<status, owned, exec, spawned, history>>

SendWritten ==
  /\ StrandFree
  /\ sender = "writing"
  /\ sent' = IF out = Ping THEN sent ELSE Append(sent, out)
  /\ sender' = IF Alive THEN "check" ELSE "done"
  /\ UNCHANGED <<status, owned, exec, out, heartbeat, queues, calls, invented>>

(* The loop ends without a word to the error handler.                      *)
SendFails ==
  /\ StrandFree
  /\ sender = "writing"
  /\ status' = IF Alive THEN "STALE" ELSE status
  /\ sender' = "done"
  /\ UNCHANGED <<owned, exec, out, heartbeat, queues, history>>

-----------------------------------------------------------------------------
(* co_exec_loop, co_open, co_read.                                         *)

Opened ==
  /\ exec = "opening"
  /\ status' = "READY"
  /\ exec' = "loop"
  /\ UNCHANGED <<owned, sender, out, heartbeat, queues, history>>

OpenFails ==
  /\ exec = "opening"
  /\ exec' = "retry"
  /\ UNCHANGED <<status, owned, sender, out, heartbeat, queues, history>>

Retry ==
  /\ exec = "retry"
  /\ exec' = IF Alive THEN "opening" ELSE "done"
  /\ UNCHANGED <<status, owned, sender, out, heartbeat, queues, history>>

(* co_read is entered: it awaits a frame, ...                              *)
Read ==
  /\ exec = "loop"
  /\ Alive /\ status = "READY"
  /\ exec' = "reading"
  /\ UNCHANGED <<status, owned, sender, out, heartbeat, queues, history>>

(* ... or, on a stale session, returns an empty text that is handed on like *)
(* a message, again and again: the loop has the strand and awaits nothing,  *)
(* ...                                                                     *)
ReadStale ==
  /\ exec = "loop"
  /\ Alive /\ status = "STALE"
  /\ invented' = TRUE
  /\ UNCHANGED <<status, owned, exec, sender, out, heartbeat, queues, calls, sent>>

(* ... or, when the object is gone, dereferences the null stream.           *)
ReadNothing ==
  /\ exec = "loop"
  /\ ~Alive
  /\ exec' = "crashed"
  /\ UNCHANGED <<status, owned, sender, out, heartbeat, queues, history>>

Message ==
  /\ exec = "reading"
  /\ exec' = IF Alive THEN "loop" ELSE "done"
  /\ UNCHANGED <<status, owned, sender, out, heartbeat, queues, history>>

(* An empty frame sends co_read around its own loop: on a stale session it  *)
(* returns, else it reads on, even when the object is gone.                 *)
EmptyFrame ==
  /\ exec = "reading"
  /\ Alive /\ status = "STALE"
  /\ exec' = "loop"
  /\ invented' = TRUE
  /\ UNCHANGED <<status, owned, sender, out, heartbeat, queues, calls, sent>>

(* The session is stale and the error handler is told.                     *)
ReadFails ==
  /\ exec = "reading"
  /\ status' = IF Alive THEN "STALE" ELSE status
  /\ exec' = "done"
  /\ UNCHANGED <<owned, sender, out, heartbeat, queues, history>>

-----------------------------------------------------------------------------
Init ==
  /\ status = "INIT"
  /\ owned = TRUE
  /\ exec = "opening"
  /\ sender = "check"
  /\ out = Ping
  /\ heartbeat = "off"
  /\ spawned = <<>> /\ blocked = <<>> /\ channel = <<>>
  /\ calls = 0 /\ sent = <<>> /\ invented = FALSE

SendLoop ==
  SendReceive \/ ReceiveCancelled \/ SendPoll \/ SendWritten \/ SendFails

ExecLoop ==
  \/ Opened \/ OpenFails \/ Retry
  \/ Read \/ ReadStale \/ ReadNothing
  \/ Message \/ EmptyFrame \/ ReadFails

Next == Send \/ SetHeartbeat \/ Drop \/ Enqueue \/ Tick \/ SendLoop \/ ExecLoop

Spec == Init /\ [][Next]_vars

(* A strand runs its handlers in the order they become ready, so none is    *)
(* passed over for ever; a write ends, if only by the stream's timeout, and *)
(* a handler returns.  An open need not succeed, a peer need not speak, and  *)
(* nothing obliges the owner.                                              *)
FairSpec == Spec /\ SF_vars(Enqueue) /\ SF_vars(SendLoop) /\ WF_vars(Read)

-----------------------------------------------------------------------------
(* Properties.                                                             *)

(* Every variable has its type; the channel keeps its capacity, an enqueue   *)
(* waits only for a full one, and the handler gets a text that nobody sent   *)
(* from no session but a stale one (websocket.cpp:319).                     *)
TypeOK ==
  /\ status \in {"INIT", "READY", "STALE"}
  /\ owned \in BOOLEAN
  /\ exec \in {"opening", "retry", "loop", "reading", "crashed", "done"}
  /\ sender \in {"check", "receive", "poll", "writing", "done"}
  /\ out \in Payload
  /\ heartbeat \in {"off", "armed", "sending", "done"}
  /\ spawned \in Seq(Payload) /\ blocked \in Seq(Payload) /\ channel \in Seq(Payload)
  /\ Len(channel) <= Capacity
  /\ blocked # <<>> => Len(channel) = Capacity
  /\ calls \in 0..MaxPayloads
  /\ sent \in Seq(Payload)
  /\ invented => status = "STALE"

(* The exchange sees the payloads in the order of the operator() calls, each *)
(* once and none skipped, through full channels, heartbeats and failures.   *)
PayloadsInOrder == sent = [i \in 1..Len(sent) |-> i]

(* No write starts on a stream that is not open: before the handshake the    *)
(* stream does not exist, and a stale one is left alone.                    *)
WritesStartReady == [][sender' = "writing" /\ sender # "writing" => status = "READY"]_vars

(* Once the session is up, what was passed to operator() is written, unless  *)
(* the session fails or the owner lets the connection go.                   *)
EventuallySent ==
  \A n \in 1..MaxPayloads :
    calls >= n /\ status = "READY" ~> Len(sent) >= n \/ status = "STALE" \/ ~owned
=============================================================================
