---------------------------- MODULE ConnectProofs ----------------------------
(***************************************************************************)
(* Proofs about the two ways to the exchange, each a specification of its   *)
(* own: WebsocketConnection and HttpQuery.                                  *)
(*                                                                         *)
(* Of the websocket, for any capacity of the channel and any number of       *)
(* calls: the type invariant, that a write starts on an open stream only,   *)
(* and that the exchange sees the payloads in order.                        *)
(*                                                                         *)
(* Of the requests, for any set of queries: the type invariant, the truth   *)
(* of the answers, and that nobody is called who let go before the completion *)
(* handler locked his query.                                               *)
(*                                                                         *)
(* The answers rest on what a request has behind it: one at its last await  *)
(* has been written, so the server has it; one that ended without being     *)
(* made had no owner or no context, and neither ever comes back.            *)
(***************************************************************************)
EXTENDS WebsocketConnection, HttpQuery, SeqEditTheorems

-----------------------------------------------------------------------------
(* The websocket connection.                                               *)

(* An exec loop that has not opened the stream, and a send loop that has    *)
(* begun to write to it, know where the session stands.                    *)
SessionKnown ==
  /\ exec \in {"opening", "retry"} => status = "INIT"
  /\ sender = "writing" => status # "INIT"

Typed == TypeOK /\ SessionKnown

LEMMA InitTyped == Init => Typed
BY CapacityAssumption, MaxPayloadsAssumption DEF Init, Typed, TypeOK, SessionKnown, Payload, Ping

(* What async_send leaves of the channel.                                  *)
LEMMA HandOverTypes ==
  ASSUME Typed, NEW p \in Payload, HandOver(p)
  PROVE  /\ channel' \in Seq(Payload) /\ Len(channel') <= Capacity
         /\ out' \in Payload
         /\ \/ sender' = sender /\ channel' = Append(channel, p) /\ Len(channel) < Capacity
            \/ sender' = "poll" /\ channel' = channel
<1>1. Len(channel) \in Nat /\ Capacity \in Nat /\ channel \in Seq(Payload)
  BY CapacityAssumption DEF Typed, TypeOK
<1>2. CASE sender = "receive" /\ out' = p /\ sender' = "poll" /\ UNCHANGED channel
  BY <1>2 DEF Typed, TypeOK
<1>3. CASE Room /\ channel' = Append(channel, p) /\ UNCHANGED <<sender, out>>
  <2>1. channel' \in Seq(Payload) /\ Len(channel') = Len(channel) + 1
    BY <1>1, <1>3
  <2>. QED BY <1>1, <1>3, <2>1 DEF Typed, TypeOK, Room
<1>. QED BY <1>2, <1>3 DEF HandOver

(* Who must wait finds the channel full.                                   *)
LEMMA FullChannel == Typed /\ MustWait => Len(channel) = Capacity
<1>. SUFFICES ASSUME Typed, MustWait PROVE Len(channel) = Capacity
  OBVIOUS
<1>1. Len(channel) \in Nat /\ Capacity \in Nat /\ Len(channel) <= Capacity
  BY CapacityAssumption DEF Typed, TypeOK
<1>. QED BY <1>1 DEF MustWait, Room

LEMMA NextTyped == Typed /\ [Next]_vars => Typed'
<1>. SUFFICES ASSUME Typed, [Next]_vars PROVE Typed'
  OBVIOUS
<1>. USE DEF Typed, TypeOK, SessionKnown
<1>0. 0 \in Payload /\ Ping = 0 /\ Payload \subseteq Nat
  BY MaxPayloadsAssumption DEF Payload, Ping
<1>1. CASE UNCHANGED vars
  BY <1>1 DEF vars, queues, history
<1>2. CASE Send
  <2>1. calls + 1 \in Payload /\ calls + 1 \in 0 .. MaxPayloads
    BY <1>2, MaxPayloadsAssumption DEF Send, Payload
  <2>2. spawned' \in Seq(Payload)
    BY <1>2, <2>1 DEF Send
  <2>. QED BY <1>2, <2>1, <2>2 DEF Send
<1>3. CASE SetHeartbeat
  BY <1>3 DEF SetHeartbeat, queues, history
<1>4. CASE Drop
  BY <1>4 DEF Drop, queues, history
<1>5. CASE Enqueue
  <2>1. Head(spawned) \in Payload /\ Tail(spawned) \in Seq(Payload)
    BY <1>5 DEF Enqueue
  <2>2. CASE HandOver(Head(spawned)) /\ UNCHANGED blocked
    BY <1>5, <2>1, <2>2, HandOverTypes DEF Enqueue, history
  <2>3. CASE MustWait /\ blocked' = Append(blocked, Head(spawned))
             /\ UNCHANGED <<channel, sender, out>>
    BY <1>5, <2>1, <2>3, FullChannel DEF Enqueue, history
  <2>. QED BY <1>5, <2>2, <2>3 DEF Enqueue
<1>6. CASE Tick
  <2>1. CASE UNCHANGED <<blocked, channel, sender, out>> /\ heartbeat' = "done"
    BY <1>6, <2>1 DEF Tick, history
  <2>2. CASE HandOver(Ping) /\ UNCHANGED <<heartbeat, blocked>>
    BY <1>0, <1>6, <2>2, HandOverTypes DEF Tick, history
  <2>3. CASE MustWait /\ blocked' = Append(blocked, Ping) /\ heartbeat' = "sending"
             /\ UNCHANGED <<channel, sender, out>>
    BY <1>0, <1>6, <2>3, FullChannel DEF Tick, history
  <2>. QED BY <1>6, <2>1, <2>2, <2>3 DEF Tick
<1>7. CASE SendLoop
  <2>1. CASE SendReceive
    <3>1. CASE SendLoopEnds
      BY <2>1, <3>1 DEF SendReceive, SendLoopEnds, history
    <3>2. CASE channel = <<>> /\ sender' = "receive"
               /\ UNCHANGED <<out, heartbeat, blocked, channel>>
      BY <2>1, <3>2 DEF SendReceive, history
    <3>3. CASE /\ channel # <<>> /\ out' = Head(channel) /\ sender' = "poll"
               /\ blocked = <<>> /\ channel' = Tail(channel)
               /\ UNCHANGED <<blocked, heartbeat>>
      BY <2>1, <3>3, CapacityAssumption DEF SendReceive, history
    <3>4. CASE /\ channel # <<>> /\ out' = Head(channel) /\ sender' = "poll"
               /\ blocked # <<>>
               /\ channel' = Append(Tail(channel), Head(blocked))
               /\ blocked' = Tail(blocked)
               /\ heartbeat' = IF Head(blocked) = Ping THEN "armed" ELSE heartbeat
      <4>1. /\ channel' \in Seq(Payload) /\ Len(channel') = Len(channel)
            /\ blocked' \in Seq(Payload) /\ out' \in Payload
        BY <3>4
      <4>. QED BY <2>1, <3>4, <4>1 DEF SendReceive, history
    <3>. QED BY <2>1, <3>1, <3>2, <3>3, <3>4 DEF SendReceive
  <2>2. CASE ReceiveCancelled
    BY <2>2 DEF ReceiveCancelled, queues, history
  <2>3. CASE SendPoll
    BY <2>3 DEF SendPoll, SendLoopEnds, history
  <2>4. CASE SendWritten
    BY <2>4 DEF SendWritten, queues
  <2>5. CASE SendFails
    BY <2>5 DEF SendFails, queues, history
  <2>. QED BY <1>7, <2>1, <2>2, <2>3, <2>4, <2>5 DEF SendLoop
<1>8. CASE ExecLoop
  BY <1>8 DEF ExecLoop, Opened, OpenFails, Retry, Read, ReadStale, ReadNothing, Message,
              EmptyFrame, ReadFails, queues, history
<1>. QED BY <1>1, <1>2, <1>3, <1>4, <1>5, <1>6, <1>7, <1>8 DEF Next

(* The type invariant, with what the three coroutines know of the session.  *)
THEOREM Invariant == Spec => []Typed
BY InitTyped, NextTyped, PTL DEF Spec

(* Every variable keeps its type, the channel its capacity, and the handler  *)
(* gets a text nobody sent from a stale session only (websocket.cpp:319).   *)
THEOREM TypeCorrect == Spec => []TypeOK
BY Invariant, PTL DEF Typed

(* The send loop starts a write on an open stream only                      *)
(* (websocket.cpp, co_send_loop).                                          *)
THEOREM WritesOnOpenStream == Spec => WritesStartReady
<1>1. [Next]_vars => [sender' = "writing" /\ sender # "writing" => status = "READY"]_vars
  <2>. SUFFICES ASSUME Next, sender' = "writing", sender # "writing" PROVE status = "READY"
    OBVIOUS
  <2>1. CASE Send \/ SetHeartbeat \/ Drop
    BY <2>1 DEF Send, SetHeartbeat, Drop
  <2>2. CASE Enqueue \/ Tick
    BY <2>2 DEF Enqueue, Tick, HandOver
  <2>3. CASE SendLoop
    BY <2>3 DEF SendLoop, SendReceive, ReceiveCancelled, SendPoll, SendWritten, SendFails,
                SendLoopEnds
  <2>4. CASE ExecLoop
    BY <2>4 DEF ExecLoop, Opened, OpenFails, Retry, Read, ReadStale, ReadNothing, Message,
                EmptyFrame, ReadFails
  <2>. QED BY <2>1, <2>2, <2>3, <2>4 DEF Next
<1>. QED BY <1>1, PTL DEF Spec, WritesStartReady
-----------------------------------------------------------------------------
(* The order of the payloads.  A ping has no number, and no place in it.    *)

Ordered(s) ==
  \A i, j \in 1 .. Len(s) : i < j /\ s[i] # Ping /\ s[j] # Ping => s[i] < s[j]
Before(A, B) == \A a \in A, b \in B : a # Ping /\ b # Ping => a < b

(* What the send loop has taken and may still write.                       *)
Hand == IF sender \in {"poll", "writing"} THEN {out} ELSE {}
InFlight == Hand \cup ToSet(channel) \cup ToSet(blocked) \cup ToSet(spawned)

(* From the hand back to the last call the payloads stand in line, ...      *)
InLine ==
  /\ Ordered(channel) /\ Ordered(blocked) /\ Ordered(spawned)
  /\ Before(Hand, ToSet(channel) \cup ToSet(blocked) \cup ToSet(spawned))
  /\ Before(ToSet(channel), ToSet(blocked) \cup ToSet(spawned))
  /\ Before(ToSet(blocked), ToSet(spawned))
  /\ sender = "receive" => channel = <<>>

(* ... and they are the calls that have not been written.                  *)
Unsent ==
  /\ Len(sent) <= calls
  /\ \A n \in InFlight : n # Ping => Len(sent) < n /\ n <= calls
  /\ sender # "done" => \A n \in Nat : Len(sent) < n /\ n <= calls => n \in InFlight

Line == InLine /\ Unsent /\ PayloadsInOrder

LEMMA OrderedAppend ==
  ASSUME NEW s \in Seq(Payload), NEW p \in Payload, Ordered(s), Before(ToSet(s), {p})
  PROVE  Ordered(Append(s, p))
<1>1. /\ Append(s, p) \in Seq(Payload) /\ Len(Append(s, p)) = Len(s) + 1
      /\ Append(s, p)[Len(s) + 1] = p
      /\ \A i \in 1 .. Len(s) : Append(s, p)[i] = s[i] /\ s[i] \in ToSet(s)
  BY DEF ToSet
<1>. QED BY <1>1 DEF Ordered, Before

LEMMA OrderedTail ==
  ASSUME NEW s \in Seq(Payload), s # <<>>, Ordered(s)
  PROVE  Ordered(Tail(s)) /\ Before({Head(s)}, ToSet(Tail(s)))
<1>1. /\ Tail(s) \in Seq(Payload) /\ Len(Tail(s)) = Len(s) - 1 /\ Len(s) \in Nat /\ Len(s) > 0
      /\ \A i \in 1 .. Len(s) - 1 : Tail(s)[i] = s[i + 1]
      /\ Head(s) = s[1]
  OBVIOUS
<1>2. Ordered(Tail(s))
  BY <1>1 DEF Ordered
<1>3. Before({Head(s)}, ToSet(Tail(s)))
  <2>1. ToSet(Tail(s)) = {Tail(s)[i] : i \in 1 .. Len(s) - 1}
    BY <1>1, ToSetProperties
  <2>. QED BY <1>1, <2>1 DEF Ordered, Before
<1>. QED BY <1>2, <1>3

(* The same of a payload that async_send hands over, or that waits.         *)
LEMMA SeqFacts ==
  ASSUME NEW s \in Seq(Payload), NEW p \in Payload
  PROVE  /\ ToSet(Append(s, p)) = ToSet(s) \cup {p}
         /\ s # <<>> => /\ ToSet(s) = ToSet(Tail(s)) \cup {Head(s)}
                        /\ Head(s) \in Payload /\ Tail(s) \in Seq(Payload)
BY ToSetGrowth

LEMMA LineTypes ==
  ASSUME Typed
  PROVE  /\ InFlight \subseteq Payload /\ Payload \subseteq Nat /\ Ping \in Payload
         /\ Len(sent) \in Nat /\ calls \in Nat
         /\ ToSet(<< >>) = {}
<1>1. /\ channel \in Seq(Payload) /\ blocked \in Seq(Payload) /\ spawned \in Seq(Payload)
      /\ out \in Payload /\ sent \in Seq(Payload) /\ calls \in 0 .. MaxPayloads
  BY DEF Typed, TypeOK
<1>2. /\ ToSet(channel) \subseteq Payload /\ ToSet(blocked) \subseteq Payload
      /\ ToSet(spawned) \subseteq Payload
  BY <1>1, ToSetProperties
<1>3. ToSet(<< >>) = {}
  BY DEF ToSet
<1>. QED BY <1>1, <1>2, <1>3, MaxPayloadsAssumption DEF InFlight, Hand, Payload, Ping

LEMMA InitLine == Init => Line
<1>. SUFFICES ASSUME Init PROVE Line
  OBVIOUS
<1>1. ToSet(<< >>) = {}
  BY DEF ToSet
<1>. QED BY <1>1 DEF Init, Line, InLine, Unsent, PayloadsInOrder, Ordered, Before, Hand, InFlight

(* The last call goes to the end of the line.                              *)
LEMMA SendLine == Typed /\ Line /\ Send => Line'
<1>. SUFFICES ASSUME Typed, Line, Send PROVE Line'
  OBVIOUS
<1>1. /\ calls + 1 \in Payload /\ calls \in Nat /\ Len(sent) \in Nat
      /\ spawned \in Seq(Payload) /\ Ping = 0 /\ Payload \subseteq Nat
  BY MaxPayloadsAssumption DEF Typed, TypeOK, Send, Payload, Ping
<1>2. ToSet(spawned') = ToSet(spawned) \cup {calls + 1}
  BY <1>1, SeqFacts DEF Send
<1>3. /\ UNCHANGED <<sender, out, channel, blocked, sent>> /\ calls' = calls + 1
      /\ Hand' = Hand /\ InFlight' = InFlight \cup {calls + 1}
  BY <1>2 DEF Send, Hand, InFlight
<1>4. \A n \in InFlight : n \in Nat /\ (n # Ping => n < calls + 1)
  <2>1. InFlight \subseteq Nat /\ \A n \in InFlight : n # Ping => n <= calls
    BY LineTypes DEF Line, Unsent
  <2>. QED BY <1>1, <2>1
<1>5. Before(InFlight, {calls + 1})
  BY <1>4 DEF Before
<1>6. InLine'
  <2>1. Ordered(spawned')
    BY <1>1, <1>5, OrderedAppend DEF Send, Line, InLine, Before, InFlight
  <2>. QED BY <1>2, <1>3, <1>5, <2>1 DEF Line, InLine, Before, InFlight
<1>7. Unsent'
  <2>1. Len(sent) < calls + 1
    BY <1>1 DEF Line, Unsent
  <2>2. \A n \in InFlight' : n # Ping => Len(sent) < n /\ n <= calls + 1
    BY <1>1, <1>3, <1>4, <2>1 DEF Line, Unsent
  <2>3. ASSUME sender # "done", NEW n \in Nat, Len(sent) < n, n <= calls + 1
        PROVE  n \in InFlight'
    BY <1>1, <1>3, <2>3 DEF Line, Unsent
  <2>. QED BY <1>1, <1>3, <2>1, <2>2, <2>3 DEF Unsent
<1>. QED BY <1>3, <1>6, <1>7 DEF Line, PayloadsInOrder

(* A step that writes nothing and loses nothing of the line keeps it.       *)
LEMMA UnsentKept ==
  ASSUME Typed, Unsent, UNCHANGED <<calls, sent>>,
         InFlight' \subseteq InFlight \cup {Ping},
         sender' # "done" => sender # "done" /\ InFlight \subseteq InFlight' \cup {Ping}
  PROVE  Unsent'
<1>1. \A n \in Nat : Len(sent) < n => n # Ping
  BY LineTypes DEF Ping
<1>. QED BY <1>1 DEF Unsent

(* The payload p leaves the front of the spawned enqueues, or is a ping.     *)
Leaves(p) ==
  /\ spawned' \in Seq(Payload) /\ Ordered(spawned')
  /\ Before({p}, ToSet(spawned'))
  /\ ToSet(spawned') \cup {p, Ping} = ToSet(spawned) \cup {Ping}

LEMMA HandOverLine ==
  ASSUME Typed, Line, NEW p \in Payload, Leaves(p), HandOver(p), UNCHANGED <<blocked, calls, sent>>
  PROVE  Line'
<1>1. /\ channel \in Seq(Payload) /\ blocked \in Seq(Payload) /\ Len(channel) \in Nat
      /\ Capacity \in Nat \ {0}
      /\ blocked # <<>> => Len(channel) = Capacity
  BY CapacityAssumption DEF Typed, TypeOK
<1>2. Before(Hand \cup ToSet(channel) \cup ToSet(blocked), {p} \cup ToSet(spawned'))
  BY DEF Line, InLine, Leaves, Before
<1>3. blocked = <<>> /\ ToSet(blocked) = {}
  <2>1. blocked = <<>>
    <3>1. CASE channel = <<>>
      BY <1>1, <3>1
    <3>2. CASE channel # <<>>
      BY <1>1, <3>2 DEF HandOver, Line, InLine, Room
    <3>. QED BY <3>1, <3>2
  <2>. QED BY <2>1, LineTypes
<1>4. CASE sender = "receive" /\ out' = p /\ sender' = "poll" /\ UNCHANGED channel
  <2>1. channel = <<>> /\ ToSet(channel) = {} /\ Hand = {} /\ Hand' = {p}
    BY <1>4, LineTypes DEF Line, InLine, Hand
  <2>2. InLine'
    BY <1>3, <1>4, <2>1 DEF Line, InLine, Leaves, Before
  <2>3. InFlight' \cup {Ping} = InFlight \cup {Ping}
    BY <1>3, <1>4, <2>1 DEF InFlight, Leaves
  <2>. QED BY <1>4, <2>2, <2>3, UnsentKept DEF Line, PayloadsInOrder
<1>5. CASE sender # "receive" /\ channel' = Append(channel, p) /\ UNCHANGED <<sender, out>>
  <2>1. ToSet(channel') = ToSet(channel) \cup {p} /\ Hand' = Hand
    BY <1>1, <1>5, SeqFacts DEF Hand
  <2>2. Ordered(channel')
    BY <1>1, <1>2, <1>5, OrderedAppend DEF Line, InLine, Before
  <2>3. InLine'
    BY <1>2, <1>3, <1>5, <2>1, <2>2 DEF Line, InLine, Leaves, Before
  <2>4. InFlight' \cup {Ping} = InFlight \cup {Ping}
    BY <1>3, <1>5, <2>1 DEF InFlight, Leaves
  <2>. QED BY <1>5, <2>3, <2>4, UnsentKept DEF Line, PayloadsInOrder
<1>. QED BY <1>4, <1>5 DEF HandOver

LEMMA WaitLine ==
  ASSUME Typed, Line, NEW p \in Payload, Leaves(p), MustWait,
         blocked' = Append(blocked, p), UNCHANGED <<channel, sender, out, calls, sent>>
  PROVE  Line'
<1>1. blocked \in Seq(Payload)
  BY DEF Typed, TypeOK
<1>2. Before(Hand \cup ToSet(channel) \cup ToSet(blocked), {p} \cup ToSet(spawned'))
  BY DEF Line, InLine, Leaves, Before
<1>3. ToSet(blocked') = ToSet(blocked) \cup {p} /\ Hand' = Hand
  BY <1>1, SeqFacts DEF Hand
<1>4. Ordered(blocked')
  BY <1>1, <1>2, OrderedAppend DEF Line, InLine, Before
<1>5. InLine'
  BY <1>2, <1>3, <1>4 DEF Line, InLine, Leaves, Before
<1>6. InFlight' \cup {Ping} = InFlight \cup {Ping}
  BY <1>3 DEF InFlight, Leaves
<1>. QED BY <1>5, <1>6, UnsentKept DEF Line, PayloadsInOrder

LEMMA EnqueueLine == Typed /\ Line /\ (Enqueue \/ Tick) => Line'
<1>. SUFFICES ASSUME Typed, Line, Enqueue \/ Tick PROVE Line'
  OBVIOUS
<1>1. ASSUME Enqueue PROVE Line'
  <2>1. spawned \in Seq(Payload) /\ Head(spawned) \in Payload
    BY <1>1, SeqFacts DEF Enqueue, Typed, TypeOK
  <2>2. /\ ToSet(spawned) = ToSet(Tail(spawned)) \cup {Head(spawned)}
        /\ Tail(spawned) \in Seq(Payload)
    BY <1>1, <2>1, SeqFacts DEF Enqueue
  <2>3. Ordered(Tail(spawned)) /\ Before({Head(spawned)}, ToSet(Tail(spawned)))
    BY <1>1, <2>1, OrderedTail DEF Enqueue, Line, InLine
  <2>4. Leaves(Head(spawned))
    BY <1>1, <2>2, <2>3 DEF Enqueue, Leaves
  <2>. QED BY <1>1, <2>1, <2>4, HandOverLine, WaitLine DEF Enqueue, history
<1>2. ASSUME Tick PROVE Line'
  <2>1. Leaves(Ping) /\ Ping \in Payload
    BY <1>2, LineTypes DEF Tick, Leaves, Line, InLine, Typed, TypeOK, Before
  <2>2. CASE UNCHANGED <<blocked, channel, sender, out>>
    BY <1>2, <2>2 DEF Tick, history, Line, InLine, Unsent, PayloadsInOrder, InFlight, Hand
  <2>. QED BY <1>2, <2>1, <2>2, HandOverLine, WaitLine DEF Tick, history
<1>. QED BY <1>1, <1>2

(* The payload in the hand is the next one, if it is not a ping.            *)
LEMMA WrittenLine == Typed /\ Line /\ SendWritten => Line'
<1>. SUFFICES ASSUME Typed, Line, SendWritten PROVE Line'
  OBVIOUS
<1>1. /\ UNCHANGED <<out, channel, blocked, spawned, calls>> /\ Hand = {out} /\ Hand' = {}
      /\ sender # "done" /\ sender' # "receive"
      /\ InFlight' \subseteq InFlight /\ InFlight = InFlight' \cup {out}
  BY DEF SendWritten, queues, Hand, InFlight
<1>2. InLine'
  BY <1>1 DEF Line, InLine, Before
<1>3. CASE out = Ping
  <2>1. UNCHANGED sent
    BY <1>3 DEF SendWritten
  <2>. QED BY <1>1, <1>2, <1>3, <2>1, UnsentKept DEF Line, PayloadsInOrder
<1>4. CASE out # Ping
  <2>1. /\ sent' = Append(sent, out) /\ sent \in Seq(Payload) /\ out \in Payload
        /\ Len(sent') = Len(sent) + 1 /\ sent'[Len(sent) + 1] = out
        /\ \A i \in 1 .. Len(sent) : sent'[i] = sent[i]
        /\ sent' \in Seq(Payload)
    BY <1>4 DEF SendWritten, Typed, TypeOK
  <2>2. Len(sent) < out /\ out <= calls /\ \A n \in InFlight' : n # Ping => out < n
    BY <1>1, <1>4 DEF Line, Unsent, InLine, Before, InFlight
  <2>3. out = Len(sent) + 1
    <3>1. Len(sent) + 1 \in Nat /\ Len(sent) + 1 <= calls /\ out \in Nat
      BY <2>1, <2>2, LineTypes
    <3>2. Len(sent) + 1 \in InFlight' \cup {out}
      BY <1>1, <3>1, LineTypes DEF Line, Unsent
    <3>. QED BY <2>2, <3>1, <3>2, LineTypes DEF Ping
  <2>4. Unsent'
    BY <1>1, <2>1, <2>2, <2>3, LineTypes DEF Line, Unsent
  <2>5. PayloadsInOrder'
    <3>1. \A i \in 1 .. Len(sent') : sent'[i] = i
      BY <2>1, <2>3, LineTypes DEF Line, PayloadsInOrder
    <3>2. sent' \in [1 .. Len(sent') -> Payload]
      BY <2>1, LenProperties
    <3>. QED BY <3>1, <3>2 DEF PayloadsInOrder
  <2>. QED BY <1>2, <2>4, <2>5 DEF Line
<1>. QED BY <1>3, <1>4

(* The loop takes the head of the channel, the first that waits its place.  *)
LEMMA ReceiveLine ==
  ASSUME Typed, Line, channel # <<>>, sender = "check", out' = Head(channel), sender' = "poll",
         UNCHANGED <<spawned, calls, sent>>,
         \/ blocked = <<>> /\ channel' = Tail(channel) /\ UNCHANGED blocked
         \/ /\ blocked # <<>> /\ channel' = Append(Tail(channel), Head(blocked))
            /\ blocked' = Tail(blocked)
  PROVE  Line'
<1>1. /\ channel \in Seq(Payload) /\ blocked \in Seq(Payload)
      /\ Tail(channel) \in Seq(Payload) /\ Head(channel) \in Payload
      /\ ToSet(channel) = ToSet(Tail(channel)) \cup {Head(channel)}
  BY SeqFacts DEF Typed, TypeOK
<1>2. Ordered(Tail(channel)) /\ Before({Head(channel)}, ToSet(Tail(channel)))
  BY <1>1, OrderedTail DEF Line, InLine
<1>3. Hand = {} /\ Hand' = {Head(channel)}
  BY DEF Hand
<1>4. CASE blocked = <<>> /\ channel' = Tail(channel) /\ UNCHANGED blocked
  <2>1. InLine' /\ InFlight' = InFlight
    BY <1>1, <1>2, <1>3, <1>4 DEF Line, InLine, Before, InFlight
  <2>. QED BY <2>1, UnsentKept DEF Line, PayloadsInOrder
<1>5. CASE /\ blocked # <<>> /\ channel' = Append(Tail(channel), Head(blocked))
           /\ blocked' = Tail(blocked)
  <2>1. /\ Head(blocked) \in Payload
        /\ ToSet(blocked) = ToSet(blocked') \cup {Head(blocked)}
        /\ ToSet(channel') = ToSet(Tail(channel)) \cup {Head(blocked)}
    BY <1>1, <1>5, SeqFacts
  <2>2. Ordered(blocked') /\ Before({Head(blocked)}, ToSet(blocked'))
    BY <1>1, <1>5, OrderedTail DEF Line, InLine
  <2>3. Before(ToSet(Tail(channel)), {Head(blocked)})
    BY <1>1, <2>1 DEF Line, InLine, Before
  <2>4. Ordered(channel')
    BY <1>1, <1>2, <1>5, <2>1, <2>3, OrderedAppend
  <2>5. InLine' /\ InFlight' = InFlight
    BY <1>1, <1>2, <1>3, <2>1, <2>2, <2>4 DEF Line, InLine, Before, InFlight
  <2>. QED BY <2>5, UnsentKept DEF Line, PayloadsInOrder
<1>. QED BY <1>4, <1>5

LEMMA NextLine == Typed /\ Line /\ [Next]_vars => Line'
<1>. SUFFICES ASSUME Typed, Line, [Next]_vars PROVE Line'
  OBVIOUS
<1>1. CASE UNCHANGED <<sender, out, channel, blocked, spawned, calls, sent>>
  BY <1>1 DEF Line, InLine, Unsent, PayloadsInOrder, InFlight, Hand
<1>2. ASSUME UNCHANGED <<out, channel, blocked, spawned, calls, sent>>,
             \/ sender' = "done"
             \/ sender = "poll" /\ sender' = "writing"
             \/ sender = "check" /\ sender' = "receive" /\ channel = <<>>
      PROVE  Line'
  <2>1. InLine' /\ InFlight' \subseteq InFlight /\ (sender' # "done" => InFlight' = InFlight)
    BY <1>2 DEF Line, InLine, Before, InFlight, Hand
  <2>. QED BY <1>2, <2>1, UnsentKept DEF Line, PayloadsInOrder
<1>3. CASE UNCHANGED vars
  BY <1>1, <1>3 DEF vars, queues, history
<1>4. CASE SetHeartbeat \/ Drop
  BY <1>1, <1>4 DEF SetHeartbeat, Drop, queues, history
<1>5. CASE ExecLoop
  BY <1>1, <1>5 DEF ExecLoop, Opened, OpenFails, Retry, Read, ReadStale, ReadNothing, Message,
                    EmptyFrame, ReadFails, queues, history
<1>6. CASE SendLoop
  <2>1. CASE SendReceive
    BY <1>2, <2>1, ReceiveLine DEF SendReceive, SendLoopEnds, history
  <2>2. CASE ReceiveCancelled
    BY <1>2, <2>2 DEF ReceiveCancelled, queues, history
  <2>3. CASE SendPoll
    BY <1>2, <2>3 DEF SendPoll, SendLoopEnds, history
  <2>4. CASE SendFails
    BY <1>2, <2>4 DEF SendFails, queues, history
  <2>. QED BY <1>6, <2>1, <2>2, <2>3, <2>4, WrittenLine DEF SendLoop
<1>. QED BY <1>3, <1>4, <1>5, <1>6, SendLine, EnqueueLine DEF Next

(* The exchange sees the payloads in the order of the calls, each once and   *)
(* none skipped, through full channels, heartbeats and failures             *)
(* (websocket.cpp, co_enqueue and co_send_loop).                           *)
THEOREM SentInOrder == Spec => []PayloadsInOrder
<1>1. Line => PayloadsInOrder
  BY DEF Line
<1>. QED BY <1>1, Invariant, InitLine, NextLine, PTL DEF Spec

-----------------------------------------------------------------------------
(* The requests.                                                           *)

(* A request that reads its response, or has it, has reached the server; an *)
(* empty one has no owner or no context; one that is not over has called     *)
(* nobody, and one that is has called with what became of it.               *)
Backed(q) ==
  /\ pc[Request(q)] # "none" => q \in made
  /\ pc[Request(q)] = "reading" => q \in received
  /\ outcome[q] = "body" => q \in received
  /\ outcome[q] = "empty" => q \in made \ held \/ ~context
  /\ outcome[q] = "empty" /\ pc[Request(q)] = "locked" => ~context
  /\ answers[q] \in {<<>>, <<"data">>, <<"error">>, <<"data", "error">>}
  /\ answers[q] # <<>> => pc[Request(q)] = "over"
  /\ answers[q] \in {<<"data">>, <<"data", "error">>} =>
       outcome[q] = "body" \/ (outcome[q] = "empty" /\ ~context)
  /\ answers[q] = <<"error">> => outcome[q] = "failure"
  /\ outcome[q] # "none" <=> pc[Request(q)] \in {"ended", "locked", "over"}

Types ==
  /\ made \subseteq Query /\ held \subseteq made /\ received \subseteq Query
  /\ context \in BOOLEAN
  /\ pc \in [Task -> Stage]
  /\ cached \in BOOLEAN
  /\ outcome \in [Query -> {"none", "empty", "failure", "body"}]
  /\ answers \in [Query -> {<<>>, <<"data">>, <<"error">>, <<"data", "error">>}]

IInv == Types /\ \A q \in Query : Backed(q)

(* The request of a query is its own task, and no prefetch.                *)
LEMMA RequestTasks ==
  /\ \A q \in Query : Request(q) \in Task /\ <<q, "prefetch">> \in Task
  /\ \A q \in Query : Request(q) # <<q, "prefetch">>
  /\ \A p, q \in Query : Request(p) = Request(q) <=> p = q
  /\ \A p, q \in Query : Request(p) # <<q, "prefetch">>
  /\ \A t \in Task : t[1] \in Query /\ (t[2] = "request" => t = Request(t[1]))
  /\ \A q \in Query : Request(q)[1] = q /\ Request(q)[2] = "request"
BY DEF Task, Request

(* The stages, and what follows each await of a request.                   *)
LEMMA Stages ==
  /\ Stage = {"none", "spawned", "posted", "asking", "reading", "ended", "locked", "over",
              "looking", "storing", "connecting", "handshaking", "writing"}
  /\ DOMAIN Following = {"connecting", "handshaking", "writing"}
  /\ Following["connecting"] = "handshaking"
  /\ Following["handshaking"] = "writing"
  /\ Following["writing"] = "reading"
BY DEF Stage, Inside, Following

(* The sequences of calls there are.                                       *)
Calls == {<<>>, <<"data">>, <<"error">>, <<"data", "error">>}

(* What is first appended to no calls is all there is.                     *)
LEMMA FirstCalls == \A called \in Calls : <<>> \o called = called
BY DEF Calls

LEMMA InitIInv == HttpInit => IInv
<1>. SUFFICES ASSUME HttpInit PROVE IInv
  OBVIOUS
<1>1. Types
  BY Stages DEF HttpInit, Types
<1>2. ASSUME NEW q \in Query PROVE Backed(q)
  <2>1. pc[Request(q)] = "none" /\ outcome[q] = "none" /\ answers[q] = <<>>
    BY RequestTasks DEF HttpInit
  <2>. QED BY <2>1 DEF Backed
<1>. QED BY <1>1, <1>2 DEF IInv

(* A step that leaves a query, its request and its handlers alone keeps     *)
(* what is behind it.                                                      *)
LEMMA OthersBacked ==
  ASSUME NEW q \in Query, Backed(q),
         pc'[Request(q)] = pc[Request(q)], outcome'[q] = outcome[q], answers'[q] = answers[q],
         made \subseteq made', received \subseteq received', context' => context,
         q \in held' => q \in held \/ q \notin made
  PROVE  Backed(q)'
BY DEF Backed, Request

LEMMA ReleaseContextIInv == IInv /\ ReleaseContext => IInv'
<1>. SUFFICES ASSUME IInv, ReleaseContext PROVE IInv'
  OBVIOUS
<1>1. Types'
  BY DEF IInv, Types, ReleaseContext
<1>2. ASSUME NEW q \in Query PROVE Backed(q)'
  BY OthersBacked DEF IInv, ReleaseContext
<1>. QED BY <1>1, <1>2 DEF IInv

(* The owner's steps.                                                      *)
LEMMA OwnerIInv ==
  ASSUME IInv, NEW q \in Query, Create(q) \/ Call(q) \/ Release(q)
  PROVE  IInv'
<1>. USE RequestTasks, Stages DEF IInv
<1>1. Types'
  BY DEF Create, Call, Release, Types
<1>2. ASSUME NEW p \in Query PROVE Backed(p)'
  <2>1. CASE Create(q) \/ Release(q)
    <3>1. pc' = pc \/ pc' = [pc EXCEPT ![<<q, "prefetch">>] = "posted"]
      BY <2>1 DEF Create, Release
    <3>2. Request(p) \in Task /\ Request(p) # <<q, "prefetch">>
      BY DEF Request, Task
    <3>3. pc'[Request(p)] = pc[Request(p)]
      BY <3>1, <3>2 DEF Types
    <3>. QED BY <2>1, <3>3, OthersBacked DEF Create, Release, Types
  <2>2. CASE Call(q) /\ p # q
    <3>1. pc'[Request(p)] = pc[Request(p)]
      BY <2>2 DEF Call, Types
    <3>. QED BY <2>2, <3>1, OthersBacked DEF Call, Types
  <2>3. CASE Call(q) /\ p = q
    <3>1. pc'[Request(q)] = "spawned" /\ pc[Request(q)] = "none" /\ q \in made
      BY <2>3 DEF Call, Types
    <3>. QED BY <2>3, <3>1 DEF Call, Backed, Request
  <2>. QED BY <2>1, <2>2, <2>3
<1>. QED BY <1>1, <1>2

(* A request begins, goes on, gets its response and completes.             *)
LEMMA RequestIInv ==
  ASSUME IInv, NEW q \in Query, Perform(q)
  PROVE  IInv'
<1>. USE RequestTasks, Stages DEF IInv
<1>1. CASE Start(q)
  <2>1. Types'
    BY <1>1 DEF Start, End, Types
  <2>2. ASSUME NEW p \in Query, p # q PROVE Backed(p)'
    <3>0. \E stage : pc' = [pc EXCEPT ![Request(q)] = stage]
      BY <1>1 DEF Start, End
    <3>1. pc'[Request(p)] = pc[Request(p)]
      BY <2>2, <3>0 DEF Types
    <3>2. outcome' = outcome \/ outcome' = [outcome EXCEPT ![q] = "empty"]
      BY <1>1 DEF Start, End
    <3>3. outcome'[p] = outcome[p]
      BY <2>2, <3>2 DEF Types
    <3>. QED BY <1>1, <3>1, <3>3, OthersBacked DEF Start
  <2>3. Backed(q)'
    <3>1. CASE q \in held /\ ContextAlive
      <4>1. pc'[Request(q)] = "posted" /\ outcome' = outcome
        BY <1>1, <3>1 DEF Start, Types
      <4>. QED BY <1>1, <4>1 DEF Start, Backed, Request
    <3>2. CASE ~(q \in held /\ ContextAlive)
      <4>1. pc'[Request(q)] = "ended" /\ outcome'[q] = "empty"
        BY <1>1, <3>2, ZenonT(30) DEF Start, End, Types
      <4>2. q \in made /\ (q \notin held \/ ~context)
        BY <1>1, <3>2 DEF Start, Backed, ContextAlive
      <4>. QED BY <1>1, <4>1, <4>2 DEF Start, Backed, Request
    <3>. QED BY <3>1, <3>2
  <2>. QED BY <2>1, <2>2, <2>3
<1>2. CASE Advance(q)
  <2>1. Types'
    <3>1. Following[pc[Request(q)]] \in Stage
      BY <1>2 DEF Advance
    <3>. QED BY <1>2, <3>1 DEF Advance, Types
  <2>2. ASSUME NEW p \in Query, p # q PROVE Backed(p)'
    <3>1. pc'[Request(p)] = pc[Request(p)] /\ received \subseteq received'
      BY <1>2, <2>2 DEF Advance, Types
    <3>. QED BY <1>2, <3>1, OthersBacked DEF Advance
  <2>3. Backed(q)'
    <3>1. /\ pc[Request(q)] \in {"connecting", "handshaking", "writing"}
          /\ pc'[Request(q)] \in {"handshaking", "writing", "reading"}
          /\ pc'[Request(q)] = "reading" => q \in received'
          /\ received \subseteq received'
      BY <1>2 DEF Advance, Types
    <3>. QED BY <1>2, <3>1 DEF Advance, Backed, Request
  <2>. QED BY <2>1, <2>2, <2>3
<1>3. CASE Respond(q)
  <2>1. PICK result \in {"body", "failure"} : End(q, result)
    BY <1>3 DEF Respond
  <2>2. Types'
    BY <1>3, <2>1 DEF Respond, End, Types
  <2>3. ASSUME NEW p \in Query, p # q PROVE Backed(p)'
    <3>1. pc'[Request(p)] = pc[Request(p)] /\ outcome'[p] = outcome[p]
      BY <2>1, <2>3 DEF End, Types
    <3>. QED BY <1>3, <3>1, OthersBacked DEF Respond
  <2>4. Backed(q)'
    <3>1. pc'[Request(q)] = "ended" /\ outcome'[q] = result
      BY <2>1 DEF End, Types
    <3>. QED BY <1>3, <3>1 DEF Respond, Backed, Request
  <2>. QED BY <2>2, <2>3, <2>4
<1>4. CASE Lock(q)
  <2>1. pc[Request(q)] = "ended" /\ pc'[Request(q)] \in {"locked", "over"}
    BY <1>4 DEF Lock, Types
  <2>2. Types'
    BY <1>4 DEF Lock, Types
  <2>3. ASSUME NEW p \in Query, p # q PROVE Backed(p)'
    <3>1. pc'[Request(p)] = pc[Request(p)]
      BY <1>4, <2>3 DEF Lock, Types
    <3>. QED BY <1>4, <3>1, OthersBacked DEF Lock
  <2>4. Backed(q)'
    <3>1. pc'[Request(q)] = "locked" => q \in held
      BY <1>4 DEF Lock, Types, QueryAlive
    <3>2. outcome[q] = "empty" => q \notin held \/ ~context
      BY DEF Backed
    <3>. QED BY <1>4, <2>1, <3>1, <3>2 DEF Lock, Backed, Request
  <2>. QED BY <2>2, <2>3, <2>4
<1>5. CASE CallHandler(q)
  <2>1. pc[Request(q)] = "locked" /\ pc'[Request(q)] = "over" /\ answers[q] = <<>>
    BY <1>5 DEF CallHandler, Types, Backed
  <2>2. /\ answers' \in [Query -> Calls]
        /\ \A p \in Query : p # q => answers'[p] = answers[p]
        /\ answers'[q] \in HandlerCalls(q)
    <3>1. PICK called \in HandlerCalls(q) : answers' = [answers EXCEPT ![q] = @ \o called]
      BY <1>5 DEF CallHandler
    <3>2. called \in Calls
      BY DEF HandlerCalls, Calls
    <3>3. answers' = [answers EXCEPT ![q] = called]
      BY <2>1, <3>1, <3>2, FirstCalls
    <3>4. answers \in [Query -> Calls]
      BY DEF Types, Calls
    <3>. QED BY <3>2, <3>3, <3>4
  <2>3. Types'
    BY <1>5, <2>2 DEF CallHandler, Types, Calls
  <2>4. ASSUME NEW p \in Query, p # q PROVE Backed(p)'
    <3>1. pc'[Request(p)] = pc[Request(p)]
      BY <1>5, <2>4 DEF CallHandler, Types
    <3>. QED BY <1>5, <2>2, <2>4, <3>1, OthersBacked DEF CallHandler
  <2>5. Backed(q)'
    <3>1. outcome[q] = "empty" => ~context
      BY <2>1 DEF Backed
    <3>2. outcome[q] \in {"empty", "failure", "body"}
      BY <2>1 DEF Types, Backed
    <3>3. \/ answers'[q] = <<"error">> /\ outcome[q] = "failure"
          \/ /\ answers'[q] \in {<<"data">>, <<"data", "error">>}
             /\ outcome[q] = "body" \/ (outcome[q] = "empty" /\ ~context)
      BY <2>2, <3>1, <3>2 DEF HandlerCalls
    <3>4. <<"error">> # <<>> /\ <<"data">> # <<>> /\ <<"data", "error">> # <<>>
          /\ <<"error">> # <<"data">> /\ <<"error">> # <<"data", "error">>
      OBVIOUS
    <3>. QED BY <1>5, <2>1, <3>2, <3>3, <3>4 DEF CallHandler, Backed, Request
  <2>. QED BY <2>3, <2>4, <2>5
<1>. QED BY <1>1, <1>2, <1>3, <1>4, <1>5 DEF Perform

(* The resolutions, of both coroutines: a request goes from stage to stage   *)
(* before it is written.                                                   *)
LEMMA ResolveIInv ==
  ASSUME IInv, NEW t \in Task, Resolve(t)
  PROVE  IInv'
<1>. DEFINE Early == {"posted", "looking", "asking", "storing", "connecting"}
<1>. USE RequestTasks, Stages DEF IInv
<1>1. PICK stage \in Early \cup {"ended"} :
        /\ pc' = [pc EXCEPT ![t] = stage]
        /\ pc[t] \in Early
        /\ stage = "ended" => t[2] # "request"
  BY DEF Resolve, EnterStrand, Look, Answer, Store, Resolved
<1>2. UNCHANGED <<made, held, context, received, outcome, answers>> /\ cached' \in BOOLEAN
  BY DEF Resolve, EnterStrand, Look, Answer, Store, Types
<1>3. Types'
  BY <1>1, <1>2 DEF Types
<1>4. ASSUME NEW q \in Query PROVE Backed(q)'
  <2>1. CASE t # Request(q)
    <3>1. pc'[Request(q)] = pc[Request(q)]
      BY <1>1, <2>1 DEF Types
    <3>. QED BY <1>2, <3>1, OthersBacked
  <2>2. CASE t = Request(q)
    <3>1. pc[Request(q)] \in Early /\ pc'[Request(q)] \in Early
      BY <1>1, <2>2 DEF Types
    <3>. QED BY <1>2, <3>1 DEF Backed, Request
  <2>. QED BY <2>1, <2>2
<1>. QED BY <1>3, <1>4

LEMMA FailIInv ==
  ASSUME IInv, NEW t \in Task, Fail(t)
  PROVE  IInv'
<1>. USE RequestTasks, Stages DEF IInv
<1>1. /\ pc' = [pc EXCEPT ![t] = "ended"]
      /\ pc[t] \in {"asking", "reading", "connecting", "handshaking", "writing"}
      /\ IF t[2] = "request" THEN outcome' = [outcome EXCEPT ![t[1]] = "failure"]
         ELSE outcome' = outcome
      /\ UNCHANGED <<made, held, context, cached, answers>>
      /\ received \subseteq received' /\ received' \subseteq Query
  BY DEF Fail, End, Types
<1>2. Types'
  BY <1>1 DEF Types
<1>3. ASSUME NEW q \in Query PROVE Backed(q)'
  <2>1. CASE t # Request(q)
    <3>1. pc'[Request(q)] = pc[Request(q)] /\ outcome'[q] = outcome[q]
      BY <1>1, <2>1 DEF Types
    <3>. QED BY <1>1, <3>1, OthersBacked
  <2>2. CASE t = Request(q)
    <3>1. pc'[Request(q)] = "ended" /\ outcome'[q] = "failure"
      BY <1>1, <2>2 DEF Types
    <3>. QED BY <1>1, <2>2, <3>1 DEF Backed, Request
  <2>. QED BY <2>1, <2>2
<1>. QED BY <1>2, <1>3

LEMMA NextIInv == IInv /\ [HttpNext]_httpVars => IInv'
<1>. SUFFICES ASSUME IInv, [HttpNext]_httpVars PROVE IInv'
  OBVIOUS
<1>1. CASE UNCHANGED httpVars
  BY <1>1 DEF httpVars, IInv, Types, Backed
<1>2. CASE HttpNext
  BY <1>2, OwnerIInv, ReleaseContextIInv, RequestIInv, ResolveIInv, FailIInv DEF HttpNext
<1>. QED BY <1>1, <1>2

(* In every reachable state what a query did is backed by its stage: the    *)
(* inductive invariant behind the theorems below.                          *)
THEOREM QueryInvariant == HttpSpec => []IInv
BY InitIInv, NextIInv, PTL DEF HttpSpec

(* The variables have their types, and a request has an outcome exactly     *)
(* when it is over.                                                        *)
THEOREM QueryTypeCorrect == HttpSpec => []QueryTypeOK
<1>1. IInv => QueryTypeOK
  BY DEF IInv, Types, Backed, QueryTypeOK
<1>. QED BY QueryInvariant, <1>1, PTL

(* A handler is called when the request is over, with what became of it:    *)
(* the empty text only where no context was left (http_query.cpp:88,141).    *)
THEOREM AnswersTrue == HttpSpec => []AnswersAreTrue
<1>1. IInv => AnswersAreTrue
  <2>. SUFFICES ASSUME IInv, NEW q \in Query, answers[q] # <<>>
                PROVE  /\ pc[Request(q)] = "over"
                       /\ Head(answers[q]) = "data" =>
                            (q \in received /\ outcome[q] = "body") \/ (outcome[q] = "empty" /\ ~context)
                       /\ Head(answers[q]) = "error" => outcome[q] = "failure"
    BY DEF AnswersAreTrue
  <2>1. CASE answers[q] \in {<<"data">>, <<"data", "error">>}
    <3>1. Head(answers[q]) = "data" BY <2>1
    <3>. QED BY <2>1, <3>1 DEF IInv, Backed
  <2>2. CASE answers[q] = <<"error">>
    <3>1. Head(answers[q]) = "error" BY <2>2
    <3>. QED BY <2>2, <3>1 DEF IInv, Backed
  <2>. QED BY <2>1, <2>2 DEF IInv, Backed
<1>. QED BY QueryInvariant, <1>1, PTL

(* Both of them, which is what the runs check.                             *)
THEOREM QueryCorrect == HttpSpec => []QueryInv
BY QueryTypeCorrect, AnswersTrue, PTL DEF QueryInv

(* A query without owner, with no handler call of its own and none under     *)
(* way: it stays like that.                                                *)
Abandoned(q) == q \in made \ held /\ pc[Request(q)] # "locked" /\ answers[q] = <<>>

LEMMA StaysAbandoned ==
  ASSUME IInv, [HttpNext]_httpVars, NEW q \in Query, Abandoned(q)
  PROVE  Abandoned(q)'
<1>. USE RequestTasks, Stages DEF IInv, Types
<1>1. CASE UNCHANGED httpVars
  BY <1>1 DEF httpVars, Abandoned
<1>2. ASSUME NEW p \in Query, Create(p) \/ Call(p) \/ Release(p) PROVE Abandoned(q)'
  <2>1. q \in made' \ held' /\ answers' = answers
    BY <1>2 DEF Create, Call, Release, Abandoned
  <2>2. \/ pc' = pc
        \/ pc' = [pc EXCEPT ![<<p, "prefetch">>] = "posted"]
        \/ pc' = [pc EXCEPT ![Request(p)] = "spawned"]
    BY <1>2 DEF Create, Call, Release
  <2>3. CASE pc' = pc
    BY <2>1, <2>3 DEF Abandoned
  <2>4. CASE pc' = [pc EXCEPT ![<<p, "prefetch">>] = "posted"]
    <3>1. pc'[Request(q)] = pc[Request(q)]
      BY <2>4
    <3>. QED BY <2>1, <3>1 DEF Abandoned
  <2>5. CASE pc' = [pc EXCEPT ![Request(p)] = "spawned"]
    <3>1. pc'[Request(q)] = pc[Request(q)] \/ pc'[Request(q)] = "spawned"
      BY <2>5
    <3>. QED BY <2>1, <3>1 DEF Abandoned
  <2>. QED BY <2>2, <2>3, <2>4, <2>5
<1>3. ASSUME NEW p \in Query, Start(p) \/ Advance(p) \/ Respond(p) PROVE Abandoned(q)'
  <2>1. \E stage \in {"posted", "ended", "handshaking", "writing", "reading"} :
          pc' = [pc EXCEPT ![Request(p)] = stage]
    BY <1>3 DEF Start, Advance, Respond, End
  <2>2. pc'[Request(q)] # "locked"
    BY <2>1 DEF Abandoned
  <2>. QED BY <1>3, <2>2 DEF Start, Advance, Respond, Abandoned
<1>4. ASSUME NEW p \in Query, Lock(p) PROVE Abandoned(q)'
  <2>1. CASE p = q
    BY <1>4, <2>1 DEF Lock, QueryAlive, Abandoned
  <2>2. CASE p # q
    BY <1>4, <2>2 DEF Lock, Abandoned
  <2>. QED BY <2>1, <2>2
<1>5. ASSUME NEW p \in Query, CallHandler(p) PROVE Abandoned(q)'
  <2>1. p # q
    BY <1>5 DEF CallHandler, Abandoned
  <2>2. pc'[Request(q)] = pc[Request(q)] /\ answers'[q] = answers[q]
    BY <1>5, <2>1 DEF CallHandler
  <2>. QED BY <1>5, <2>2 DEF CallHandler, Abandoned
<1>6. ASSUME NEW t \in Task, Resolve(t) \/ Fail(t) PROVE Abandoned(q)'
  <2>1. \E stage \in {"looking", "asking", "storing", "connecting", "ended"} :
          pc' = [pc EXCEPT ![t] = stage]
    BY <1>6 DEF Resolve, EnterStrand, Look, Answer, Store, Resolved, Fail, End
  <2>2. pc'[Request(q)] # "locked"
    BY <2>1 DEF Abandoned
  <2>3. UNCHANGED <<made, held, answers>>
    BY <1>6 DEF Resolve, EnterStrand, Look, Answer, Store, Fail, End
  <2>. QED BY <2>2, <2>3 DEF Abandoned
<1>7. CASE ReleaseContext
  BY <1>7 DEF ReleaseContext, Abandoned
<1>. QED BY <1>1, <1>2, <1>3, <1>4, <1>5, <1>6, <1>7 DEF HttpNext, Perform

(* Who lets his query go before its completion handler has locked it is      *)
(* never called: his query is abandoned, and no lock finds it again         *)
(* (http_query.cpp:74).                                                    *)
THEOREM NobodyIsCalledWhoLeft == HttpSpec => LeaverIsNotCalled
<1>. SUFFICES ASSUME NEW q \in Query
              PROVE  HttpSpec => [](LetGoInTime(q) => [](answers[q] = <<>>))
  BY DEF LeaverIsNotCalled
<1>1. IInv /\ LetGoInTime(q) => Abandoned(q)
  BY DEF IInv, Backed, LetGoInTime, Abandoned
<1>2. IInv /\ [HttpNext]_httpVars /\ Abandoned(q) => Abandoned(q)'
  BY StaysAbandoned
<1>3. Abandoned(q) => answers[q] = <<>>
  BY DEF Abandoned
<1>. QED BY QueryInvariant, <1>1, <1>2, <1>3, PTL DEF HttpSpec
=============================================================================
