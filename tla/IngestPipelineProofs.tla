------------------------ MODULE IngestPipelineProofs ------------------------
(***************************************************************************)
(* Proofs about IngestPipeline, for any connections, threads, adapters,      *)
(* messages and queue length: the type invariant, that no message waits for *)
(* a handler nobody has posted, that what the feed was handed is stored but   *)
(* for what is in hand or failed, and that the feed is handed what the queue  *)
(* took, exactly once and in order.                                        *)
(***************************************************************************)
EXTENDS IngestPipeline, SeqEditTheorems

(* A step of the strand or of the producer of one connection.              *)
Advances(s) == Step(s) \/ Destroy(s) \/ \E m \in Message : Push(s, m)

LEMMA NextIsSomeone == Next => \E s \in Source : Advances(s)
BY DEF Next, Advances

LEMMA NextAdapterTypes ==
  ASSUME TypeOK, NEW s \in Source, NextAdapter(s)
  PROVE  /\ adapter' \in [Source -> Nat]
         /\ worker' = [worker EXCEPT ![s] = "try"] \/ worker' = [worker EXCEPT ![s] = "pop"]
<1>1. adapter \in [Source -> Nat] /\ adapter[s] + 1 \in Nat
  BY DEF TypeOK
<1>2. CASE adapter[s] < Adapters
  <2>1. adapter' = [adapter EXCEPT ![s] = adapter[s] + 1]
    BY <1>2 DEF NextAdapter
  <2>2. adapter' \in [Source -> Nat]
    BY <1>1, <2>1
  <2>. QED BY <1>2, <2>2 DEF NextAdapter
<1>3. CASE ~ (adapter[s] < Adapters)
  BY <1>1, <1>3 DEF NextAdapter
<1>. QED BY <1>2, <1>3

-----------------------------------------------------------------------------
LEMMA InitTypeOK == Init => TypeOK
<1>. SUFFICES ASSUME Init PROVE TypeOK
  OBVIOUS
<1>1. (CHOOSE m \in Message : TRUE) \in Message
  BY MessageAssumption
<1>2. \A s \in Source : Len(queue[s]) <= Capacity
  BY CapacityAssumption DEF Init
<1>3. /\ queue \in [Source -> Seq(Message)] /\ fed \in [Source -> Seq(Message)]
      /\ admitted \in [Source -> Seq(Message)]
  BY DEF Init
<1>4. current \in [Source -> Message]
  BY <1>1 DEF Init
<1>. QED BY <1>2, <1>3, <1>4 DEF Init, TypeOK

(* A record that is written is one of its message.                         *)
LEMMA WrittenIsRecord ==
  ASSUME TypeOK, NEW s \in Source, position[s] < Len(Records[current[s]])
  PROVE  /\ Records[current[s]][position[s] + 1] \in ToSet(Records[current[s]])
         /\ Records[current[s]][position[s] + 1] \in Record
<1>1. current[s] \in Message /\ position[s] \in Nat
  BY DEF TypeOK
<1>2. Records[current[s]] \in Seq(ToSet(Records[current[s]]))
  BY <1>1, RecordsAssumption
<1>3. position[s] + 1 \in DOMAIN Records[current[s]]
  BY <1>1, <1>2
<1>. QED BY <1>1, <1>3 DEF Record, ToSet

(* The records of its message that a failing write gives up are records.    *)
LEMMA UnwrittenAreRecords ==
  ASSUME TypeOK, NEW s \in Source
  PROVE  Unwritten(s) \subseteq Record
<1>1. position[s] \in Nat /\ current[s] \in Message
  BY DEF TypeOK
<1>2. Records[current[s]] \in Seq(ToSet(Records[current[s]]))
  BY <1>1, RecordsAssumption
<1>3. \A i \in (position[s] + 1) .. Len(Records[current[s]]) :
        Records[current[s]][i] \in ToSet(Records[current[s]])
  BY <1>1, <1>2 DEF ToSet
<1>. QED BY <1>1, <1>3 DEF Unwritten, Record

LEMMA NextTypeOK == TypeOK /\ [Next]_vars => TypeOK'
<1>. SUFFICES ASSUME TypeOK, [Next]_vars PROVE TypeOK'
  OBVIOUS
<1>1. CASE UNCHANGED vars
  BY <1>1 DEF vars, dispatch, work, TypeOK
<1>2. ASSUME NEW s \in Source, Advances(s) PROVE TypeOK'
  <2>. USE DEF TypeOK, dispatch, work
  <2>1. ASSUME NEW m \in Message, Push(s, m) PROVE TypeOK'
    <3>1. Append(queue[s], m) \in Seq(Message) /\ Len(Append(queue[s], m)) <= Capacity
      BY <2>1, CapacityAssumption DEF Push
    <3>2. Append(admitted[s], m) \in Seq(Message)
      BY <2>1
    <3>. QED BY <2>1, <3>1, <3>2 DEF Push
  <2>2. CASE Post(s) BY <2>2 DEF Post
  <2>3. CASE Destroy(s) BY <2>3 DEF Destroy
  <2>4. CASE Start(s) BY <2>4 DEF Start
  <2>5. CASE Pop(s)
    <3>1. Head(queue[s]) \in Message /\ Tail(queue[s]) \in Seq(Message) /\ Len(Tail(queue[s])) <= Capacity
      BY <2>5, CapacityAssumption DEF Pop
    <3>. QED BY <2>5, <3>1 DEF Pop
  <2>6. CASE Drained(s) BY <2>6 DEF Drained
  <2>7. CASE Leave(s) BY <2>7 DEF Leave
  <2>8. CASE ParseFails(s) BY <2>8, NextAdapterTypes DEF ParseFails
  <2>9. CASE Parses(s) BY <2>9 DEF Parses
  <2>10. CASE Feed(s)
    <3>1. Append(fed[s], current[s]) \in Seq(Message)
      OBVIOUS
    <3>. QED BY <2>10, <3>1 DEF Feed
  <2>11. CASE Store(s) BY <2>11, WrittenIsRecord, SMTT(30) DEF Store
  <2>12. CASE Stored(s) BY <2>12 DEF Stored
  <2>13. CASE StoreFails(s) BY <2>13, NextAdapterTypes, UnwrittenAreRecords DEF StoreFails
  <2>. QED BY <1>2, <2>1, <2>2, <2>3, <2>4, <2>5, <2>6, <2>7, <2>8, <2>9, <2>10, <2>11, <2>12, <2>13
           DEF Advances, Step
<1>. QED BY <1>1, <1>2, NextIsSomeone

(* The variables have their types; in particular no queue outgrows its       *)
(* capacity.                                                                *)
THEOREM TypeCorrect == Spec => []TypeOK
BY InitTypeOK, NextTypeOK, PTL DEF Spec

-----------------------------------------------------------------------------
(* One connection's queue is looked at, or will be.                        *)
Watched(s) ==
  alive[s] /\ queue[s] # <<>> =>
    pushing[s] \/ posts[s] > 0 \/ worker[s] \in {"pop", "try", "feed", "store"}

(* No message waits in the queue of a live connection without somebody that  *)
(* will look: the strand leaves only a queue it has found empty, and what is *)
(* pushed after that is posted after that.                                  *)
THEOREM NoWakeupIsLost == Spec => []NoLostWakeup
<1>1. Init => NoLostWakeup
  BY DEF Init, NoLostWakeup
<1>2. TypeOK /\ NoLostWakeup /\ [Next]_vars => NoLostWakeup'
  <2>. SUFFICES ASSUME TypeOK, NoLostWakeup, [Next]_vars, NEW r \in Source
                PROVE  Watched(r)'
    BY DEF NoLostWakeup, Watched
  <2>0. Watched(r)
    BY DEF NoLostWakeup, Watched
  <2>. USE DEF TypeOK, dispatch, work
  <2>1. CASE UNCHANGED vars
    BY <2>0, <2>1 DEF vars, Watched
  <2>2. ASSUME NEW s \in Source, Advances(s), s # r PROVE Watched(r)'
    <3>1. /\ alive'[r] = alive[r] /\ queue'[r] = queue[r] /\ pushing'[r] = pushing[r]
          /\ posts'[r] = posts[r] /\ worker'[r] = worker[r]
      BY <2>2 DEF Advances, Step, Push, Post, Destroy, Start, Pop, Drained, Leave, ParseFails,
                  NextAdapter, Parses, Feed, Store, Stored, StoreFails
    <3>. QED BY <2>0, <3>1 DEF Watched
  <2>3. ASSUME Advances(r) PROVE Watched(r)'
    <3>1. ASSUME NEW m \in Message, Push(r, m) PROVE Watched(r)'
      BY <3>1 DEF Push, Watched
    <3>2. CASE Post(r) BY <3>2 DEF Post, Watched
    <3>3. CASE Destroy(r) BY <3>3 DEF Destroy, Watched
    <3>4. CASE Start(r) BY <3>4 DEF Start, Watched
    <3>5. CASE Pop(r) BY <3>5 DEF Pop, Watched
    <3>6. CASE Drained(r) BY <3>6 DEF Drained, Watched
    <3>7. CASE Leave(r) BY <2>0, <3>7 DEF Leave, Watched
    <3>8. CASE ParseFails(r) BY <3>8, NextAdapterTypes DEF ParseFails, Watched
    <3>9. CASE Parses(r) BY <3>9 DEF Parses, Watched
    <3>10. CASE Feed(r) BY <3>10 DEF Feed, Watched
    <3>11. CASE Store(r) BY <3>11 DEF Store, Watched
    <3>12. CASE Stored(r) BY <3>12 DEF Stored, Watched
    <3>13. CASE StoreFails(r) BY <3>13, NextAdapterTypes DEF StoreFails, Watched
    <3>. QED BY <2>3, <3>1, <3>2, <3>3, <3>4, <3>5, <3>6, <3>7, <3>8, <3>9, <3>10, <3>11, <3>12, <3>13
             DEF Advances, Step
  <2>. QED BY <2>1, <2>2, <2>3, NextIsSomeone
<1>. QED BY TypeCorrect, <1>1, <1>2, PTL DEF Spec

-----------------------------------------------------------------------------
(* A strand that is not writing starts with the first record next time.     *)
StartsAtFirst == \A s \in Source : worker[s] # "store" => position[s] = 0

(* What one connection handed on is stored, being written, or given up.      *)
Kept(s) ==
  \A m \in ToSet(fed[s]) : ToSet(Records[m]) \subseteq stored \cup unsaved \cup BeingWritten(s)

KeepInv == StartsAtFirst /\ \A s \in Source : Kept(s)

LEMMA StartsAtFirstStays ==
  ASSUME TypeOK, StartsAtFirst, [Next]_vars
  PROVE  StartsAtFirst'
<1>. SUFFICES ASSUME NEW r \in Source, worker'[r] # "store" PROVE position'[r] = 0
  BY DEF StartsAtFirst
<1>0. worker[r] # "store" => position[r] = 0
  BY DEF StartsAtFirst
<1>1. CASE UNCHANGED vars
  BY <1>0, <1>1 DEF vars, work
<1>2. ASSUME NEW s \in Source, Advances(s), s # r
      PROVE  worker'[r] = worker[r] /\ position'[r] = position[r]
  BY <1>2 DEF Advances, Step, Push, Post, Destroy, Start, Pop, Drained, Leave, ParseFails,
              NextAdapter, Parses, Feed, Store, Stored, StoreFails, TypeOK, work
<1>3. CASE Stored(r) \/ StoreFails(r)
  BY <1>3 DEF Stored, StoreFails, TypeOK
<1>4. ASSUME Advances(r), ~Stored(r), ~StoreFails(r)
      PROVE  (position'[r] = position[r] /\ worker[r] # "store") \/ worker'[r] = "store"
  BY <1>4 DEF Advances, Step, Push, Post, Destroy, Start, Pop, Drained, Leave, ParseFails,
              Parses, Feed, Store, TypeOK, work
<1>. QED BY <1>0, <1>1, <1>2, <1>3, <1>4, NextIsSomeone

(* The database only grows, and so does what was given up.                  *)
LEMMA SavedGrows ==
  ASSUME [Next]_vars
  PROVE  stored \subseteq stored' /\ unsaved \subseteq unsaved'
<1>1. CASE UNCHANGED vars
  BY <1>1 DEF vars
<1>2. ASSUME NEW s \in Source, Advances(s) PROVE stored \subseteq stored' /\ unsaved \subseteq unsaved'
  BY <1>2 DEF Advances, Step, Push, Post, Destroy, Start, Pop, Drained, Leave, ParseFails,
              Parses, Feed, Store, Stored, StoreFails
<1>. QED BY <1>1, <1>2, NextIsSomeone

(* A message not written at all has all its records ahead, one written to    *)
(* its end none; a write takes the first of them.                          *)
LEMMA UnwrittenFacts ==
  ASSUME TypeOK, NEW s \in Source
  PROVE  /\ position[s] = 0 => Unwritten(s) = ToSet(Records[current[s]])
         /\ position[s] = Len(Records[current[s]]) => Unwritten(s) = {}
         /\ Unwritten(s) \subseteq
              {Records[current[s]][position[s] + 1]}
                \cup {Records[current[s]][i] : i \in (position[s] + 2) .. Len(Records[current[s]])}
<1>. DEFINE q == Records[current[s]]
<1>1. position[s] \in Nat /\ q \in Seq(ToSet(q)) /\ Len(q) \in Nat /\ DOMAIN q = 1 .. Len(q)
  BY RecordsAssumption DEF TypeOK
<1>2. ToSet(q) = {q[i] : i \in 1 .. Len(q)}
  BY <1>1 DEF ToSet
<1>3. Unwritten(s) = {q[i] : i \in (position[s] + 1) .. Len(q)}
  BY DEF Unwritten
<1>4. \A i \in (position[s] + 1) .. Len(q) : i = position[s] + 1 \/ i \in (position[s] + 2) .. Len(q)
  BY <1>1
<1>5. position[s] = 0 => Unwritten(s) = ToSet(q)
  BY <1>1, <1>2, <1>3
<1>6. position[s] = Len(q) => Unwritten(s) = {}
  <2>1. position[s] = Len(q) => (position[s] + 1) .. Len(q) = {}
    BY <1>1
  <2>. QED BY <1>3, <2>1
<1>7. Unwritten(s) \subseteq {q[position[s] + 1]} \cup {q[i] : i \in (position[s] + 2) .. Len(q)}
  BY <1>3, <1>4
<1>. QED BY <1>5, <1>6, <1>7

LEMMA KeptStays ==
  ASSUME TypeOK, KeepInv, [Next]_vars, NEW r \in Source
  PROVE  Kept(r)'
<1>. DEFINE Saved == stored \cup unsaved
<1>0. /\ \A m \in ToSet(fed[r]) : ToSet(Records[m]) \subseteq Saved \cup BeingWritten(r)
      /\ worker[r] # "store" => position[r] = 0
      /\ Saved \subseteq Saved'
  BY SavedGrows DEF KeepInv, StartsAtFirst, Kept
<1>1. ASSUME fed'[r] = fed[r], BeingWritten(r) \subseteq Saved' \cup BeingWritten(r)'
      PROVE  Kept(r)'
  BY <1>0, <1>1 DEF Kept
<1>2. CASE UNCHANGED vars
  BY <1>1, <1>2 DEF vars, work, BeingWritten, Unwritten
<1>3. ASSUME NEW s \in Source, Advances(s), s # r PROVE Kept(r)'
  <2>1. /\ worker'[r] = worker[r] /\ current'[r] = current[r] /\ position'[r] = position[r]
        /\ fed'[r] = fed[r]
    BY <1>3 DEF Advances, Step, Push, Post, Destroy, Start, Pop, Drained, Leave, ParseFails,
                NextAdapter, Parses, Feed, Store, Stored, StoreFails, TypeOK, work
  <2>. QED BY <1>1, <2>1 DEF BeingWritten, Unwritten
<1>4. CASE Feed(r)
  <2>1. /\ worker[r] = "feed" /\ worker'[r] = "store" /\ current' = current /\ position' = position
        /\ fed'[r] = Append(fed[r], current[r])
    BY <1>4 DEF Feed, TypeOK
  <2>2. ToSet(fed'[r]) = ToSet(fed[r]) \cup {current[r]}
    BY <2>1, ToSetGrowth DEF TypeOK
  <2>3. BeingWritten(r) = {} /\ BeingWritten(r)' = ToSet(Records[current[r]])
    <3>1. Unwritten(r)' = Unwritten(r)
      BY <2>1 DEF Unwritten
    <3>. QED BY <1>0, <2>1, <3>1, UnwrittenFacts DEF BeingWritten
  <2>. QED BY <1>0, <2>2, <2>3 DEF Kept
<1>5. CASE Store(r)
  <2>. DEFINE q == Records[current[r]]
  <2>1. /\ worker[r] = "store" /\ worker'[r] = "store" /\ current' = current /\ fed' = fed
        /\ position'[r] = position[r] + 1 /\ q[position[r] + 1] \in stored'
        /\ position[r] \in Nat
    BY <1>5 DEF Store, TypeOK
  <2>2. Unwritten(r)' = {q[i] : i \in (position[r] + 2) .. Len(q)}
    <3>1. position'[r] + 1 = position[r] + 2
      BY <2>1
    <3>. QED BY <2>1, <3>1 DEF Unwritten
  <2>3. Unwritten(r) \subseteq {q[position[r] + 1]} \cup Unwritten(r)'
    BY <2>2, UnwrittenFacts
  <2>. QED BY <1>1, <2>1, <2>3 DEF BeingWritten
<1>6. CASE Stored(r)
  <2>1. BeingWritten(r) = {} /\ fed' = fed
    BY <1>6, UnwrittenFacts DEF Stored, BeingWritten
  <2>. QED BY <1>1, <2>1
<1>7. CASE StoreFails(r)
  <2>1. BeingWritten(r) \subseteq unsaved' /\ fed' = fed
    BY <1>7 DEF StoreFails, BeingWritten
  <2>. QED BY <1>1, <2>1
<1>8. ASSUME Advances(r), ~Feed(r), ~Store(r), ~Stored(r), ~StoreFails(r) PROVE Kept(r)'
  <2>1. fed' = fed /\ (worker[r] # "store" \/ (worker' = worker /\ current' = current /\ position' = position))
    BY <1>8 DEF Advances, Step, Push, Post, Destroy, Start, Pop, Drained, Leave, ParseFails,
                Parses, work
  <2>2. BeingWritten(r) \subseteq BeingWritten(r)'
    BY <2>1 DEF BeingWritten, Unwritten
  <2>. QED BY <1>1, <2>1, <2>2
<1>. QED BY <1>2, <1>3, <1>4, <1>5, <1>6, <1>7, <1>8, NextIsSomeone

(* Whatever the feed was handed is in the database, in hand to be written,   *)
(* or was given up by a write that threw, in every state the program may     *)
(* end in (data_sink.hpp:171-172, data_model.hpp:122-125).                   *)
THEOREM FedStaysKept == Spec => []FedIsKept
<1>1. Init => KeepInv
  <2>1. ToSet(<< >>) = {}
    BY DEF ToSet
  <2>. QED BY <2>1 DEF Init, KeepInv, StartsAtFirst, Kept
<1>2. TypeOK /\ KeepInv /\ [Next]_vars => KeepInv'
  BY StartsAtFirstStays, KeptStays DEF KeepInv
<1>3. KeepInv => FedIsKept
  BY DEF KeepInv, Kept, FedIsKept
<1>. QED BY TypeCorrect, <1>1, <1>2, <1>3, PTL DEF Spec

-----------------------------------------------------------------------------
(* The message in hand is tried from the first adapter on, and is fed and    *)
(* stored by the adapter that parses it.                                   *)
ByItsParser ==
  \A s \in Source :
    /\ adapter[s] >= 1
    /\ worker[s] \in {"feed", "store"} => Parser[current[s]] = adapter[s]

LEMMA ParserStays ==
  ASSUME TypeOK, ByItsParser, [Next]_vars
  PROVE  ByItsParser'
<1>. SUFFICES ASSUME NEW r \in Source
              PROVE  /\ adapter'[r] >= 1
                     /\ worker'[r] \in {"feed", "store"} => Parser[current'[r]] = adapter'[r]
  BY DEF ByItsParser
<1>0. /\ adapter[r] \in Nat /\ adapter[r] >= 1
      /\ worker[r] \in {"feed", "store"} => Parser[current[r]] = adapter[r]
  BY DEF ByItsParser, TypeOK
<1>1. CASE UNCHANGED vars
  BY <1>0, <1>1 DEF vars, work
<1>2. ASSUME NEW s \in Source, Advances(s), s # r
      PROVE  worker'[r] = worker[r] /\ current'[r] = current[r] /\ adapter'[r] = adapter[r]
  BY <1>2 DEF Advances, Step, Push, Post, Destroy, Start, Pop, Drained, Leave, ParseFails,
              NextAdapter, Parses, Feed, Store, Stored, StoreFails, TypeOK, work
<1>3. CASE Parses(r)
  BY <1>0, <1>3 DEF Parses, TypeOK
<1>4. CASE ParseFails(r) \/ StoreFails(r)
  <2>1. adapter'[r] \in {adapter[r], adapter[r] + 1} /\ worker'[r] \in {"try", "pop"}
    BY <1>4 DEF ParseFails, StoreFails, NextAdapter, TypeOK
  <2>. QED BY <1>0, <2>1
<1>5. CASE Pop(r)
  BY <1>5 DEF Pop, TypeOK
<1>6. ASSUME Advances(r), ~Parses(r), ~ParseFails(r), ~StoreFails(r), ~Pop(r)
      PROVE  /\ adapter'[r] = adapter[r] /\ current'[r] = current[r]
             /\ worker'[r] \in {"feed", "store"} => worker[r] \in {"feed", "store"}
  BY <1>6 DEF Advances, Step, Push, Post, Destroy, Start, Drained, Leave, Feed, Store, Stored,
              TypeOK, work
<1>. QED BY <1>0, <1>1, <1>2, <1>3, <1>4, <1>5, <1>6, NextIsSomeone

(* The message in hand as long as it has not been handed on.                *)
InHand(s) ==
  IF worker[s] = "feed" \/ (worker[s] = "try" /\ adapter[s] <= Parser[current[s]])
  THEN <<current[s]>> ELSE <<>>

(* One message in front of others.                                         *)
LEMMA OnlyFirst ==
  ASSUME NEW m \in Message, NEW q \in Seq(Message)
  PROVE  /\ Only(q, Known) \in Seq(Message)
         /\ Only(<<m>> \o q, Known) =
              IF m \in Known THEN <<m>> \o Only(q, Known) ELSE Only(q, Known)
<1>1. \A z \in Seq(Message) :
        /\ Only(z, Known) \in Seq(Message)
        /\ Only(Append(z, m), Known) = IF m \in Known THEN Append(Only(z, Known), m) ELSE Only(z, Known)
  BY OnlyAppend
<1>2. \A h \in Seq(Message) : Only(h \o q, Known) = Only(h, Known) \o Only(q, Known)
  BY OnlyConcat
<1>3. <<>> \in Seq(Message) /\ <<m>> \in Seq(Message) /\ <<m>> = Append(<<>>, m)
  OBVIOUS
<1>4. Only(<<>>, Known) = <<>>
  BY OnlyEmpty
<1>5. Only(<<m>>, Known) = IF m \in Known THEN <<m>> ELSE <<>>
  BY <1>1, <1>3, <1>4
<1>6. Only(q, Known) \in Seq(Message)
  BY OnlyIsSeq
<1>7. Only(<<m>> \o q, Known) = Only(<<m>>, Known) \o Only(q, Known)
  BY <1>2, <1>3
<1>8. <<>> \o Only(q, Known) = Only(q, Known)
  BY <1>6
<1>. QED BY <1>5, <1>6, <1>7, <1>8

(* The messages of one connection, from the queue to the feed.             *)
Delivered(s) == fed[s] \o Only(Pending(s), Known) = Only(admitted[s], Known)

LEMMA DeliveredStays ==
  ASSUME TypeOK, ByItsParser, NEW r \in Source, Delivered(r), Advances(r)
  PROVE  Delivered(r)'
<1>. DEFINE c == current[r]
            q == queue[r]
            p == Pending(r)
<1>0. /\ c \in Message /\ q \in Seq(Message) /\ fed[r] \in Seq(Message)
      /\ admitted[r] \in Seq(Message)
      /\ adapter[r] \in Nat /\ adapter[r] >= 1
      /\ Parser[c] \in 0..Adapters /\ Adapters \in Nat
      /\ worker[r] \in {"feed", "store"} => Parser[c] = adapter[r]
  BY ParserAssumption, AdaptersAssumption DEF TypeOK, ByItsParser
<1>1. p = InHand(r) \o q /\ p \in Seq(Message) /\ <<c>> \in Seq(Message)
  BY <1>0 DEF Pending, InHand
<1>2. Pending(r)' = InHand(r)' \o queue'[r]
  BY DEF Pending, InHand
<1>. USE DEF work, dispatch
<1>3. ASSUME NEW m \in Message, Push(r, m) PROVE Delivered(r)'
  <2>1. /\ queue'[r] = Append(q, m) /\ admitted'[r] = Append(admitted[r], m) /\ fed' = fed
        /\ InHand(r)' = InHand(r)
    BY <1>3 DEF Push, TypeOK, InHand
  <2>2. InHand(r) \in Seq(Message)
    BY <1>0, <1>1 DEF InHand
  <2>3. Pending(r)' = Append(p, m)
    <3>1. InHand(r) \o Append(q, m) = Append(InHand(r) \o q, m)
      <4>1. \A h \in Seq(Message), w \in Seq(Message) : h \o Append(w, m) = Append(h \o w, m)
        BY ConcatAppend
      <4>. QED BY <1>0, <2>2, <4>1
    <3>. QED BY <1>1, <1>2, <2>1, <2>2, <3>1
  <2>4. /\ Only(p, Known) \in Seq(Message)
        /\ Only(Append(p, m), Known) = IF m \in Known THEN Append(Only(p, Known), m) ELSE Only(p, Known)
    BY <1>1, OnlyAppend
  <2>5. /\ Only(admitted[r], Known) \in Seq(Message)
        /\ Only(Append(admitted[r], m), Known) =
             IF m \in Known THEN Append(Only(admitted[r], Known), m) ELSE Only(admitted[r], Known)
    <3>1. \A a \in Seq(Message) :
            /\ Only(a, Known) \in Seq(Message)
            /\ Only(Append(a, m), Known) = IF m \in Known THEN Append(Only(a, Known), m) ELSE Only(a, Known)
      BY OnlyAppend
    <3>. QED BY <1>0, <3>1
  <2>6. fed[r] \o Append(Only(p, Known), m) = Append(fed[r] \o Only(p, Known), m)
    <3>1. \A f \in Seq(Message), w \in Seq(Message) : f \o Append(w, m) = Append(f \o w, m)
      BY ConcatAppend
    <3>. QED BY <1>0, <2>4, <3>1
  <2>. QED BY <2>1, <2>3, <2>4, <2>5, <2>6 DEF Delivered
<1>4. CASE Pop(r)
  <2>1. /\ q # <<>> /\ queue'[r] = Tail(q) /\ current'[r] = Head(q) /\ adapter'[r] = 1
        /\ worker[r] = "pop" /\ worker'[r] = "try" /\ fed' = fed /\ admitted' = admitted
    BY <1>4 DEF Pop, TypeOK
  <2>2. Head(q) \in Message /\ Tail(q) \in Seq(Message) /\ q = <<Head(q)>> \o Tail(q)
    BY <1>0, <2>1
  <2>3. p = q
    BY <1>0, <1>1, <2>1 DEF InHand
  <2>4. Parser[Head(q)] \in 0..Adapters
    BY <2>2, ParserAssumption
  <2>5. Pending(r)' = IF 1 <= Parser[Head(q)] THEN <<Head(q)>> \o Tail(q) ELSE Tail(q)
    <3>1. InHand(r)' = IF 1 <= Parser[Head(q)] THEN <<Head(q)>> ELSE <<>>
      BY <2>1 DEF InHand
    <3>2. <<>> \o Tail(q) = Tail(q)
      BY <2>2
    <3>. QED BY <1>2, <2>1, <3>1, <3>2
  <2>6. 1 <= Parser[Head(q)] <=> Head(q) \in Known
    BY <1>0, <2>2, <2>4 DEF Known
  <2>7. Only(<<Head(q)>> \o Tail(q), Known) =
          IF Head(q) \in Known THEN <<Head(q)>> \o Only(Tail(q), Known) ELSE Only(Tail(q), Known)
    BY <2>2, OnlyFirst
  <2>8. Only(Pending(r)', Known) = Only(p, Known)
    BY <2>2, <2>3, <2>5, <2>6, <2>7
  <2>. QED BY <2>1, <2>8 DEF Delivered, Known
<1>5. CASE Feed(r)
  <2>1. /\ fed'[r] = Append(fed[r], c) /\ worker'[r] = "store" /\ worker[r] = "feed"
        /\ queue'[r] = q /\ admitted' = admitted
    BY <1>5 DEF Feed, TypeOK
  <2>2. p = <<c>> \o q /\ Pending(r)' = q
    BY <1>0, <1>1, <1>2, <2>1 DEF InHand
  <2>3. c \in Known
    BY <1>0, <2>1 DEF Known
  <2>4. Only(q, Known) \in Seq(Message) /\ Only(<<c>> \o q, Known) = <<c>> \o Only(q, Known)
    BY <1>0, <2>3, OnlyFirst
  <2>5. Append(fed[r], c) \o Only(q, Known) = fed[r] \o (<<c>> \o Only(q, Known))
    <3>. DEFINE f == fed[r]
                w == Only(q, Known)
    <3>1. f \in Seq(Message) /\ w \in Seq(Message) /\ c \in Message
      BY <1>0, <2>4
    <3>. HIDE DEF f, w, c
    <3>2. Append(f, c) = f \o <<c>>
      BY <3>1
    <3>3. (f \o <<c>>) \o w = f \o (<<c>> \o w)
      BY <3>1
    <3>. QED BY <3>2, <3>3 DEF f, w
  <2>. QED BY <2>1, <2>2, <2>4, <2>5 DEF Delivered, Known
<1>6. ASSUME Advances(r), \A m \in Message : ~Push(r, m), ~Pop(r), ~Feed(r)
      PROVE  queue'[r] = q /\ fed'[r] = fed[r] /\ admitted'[r] = admitted[r] /\ InHand(r)' = InHand(r)
  <2>. USE DEF TypeOK
  <2>1. CASE Post(r) BY <2>1 DEF Post, InHand
  <2>2. CASE Destroy(r) BY <2>2 DEF Destroy, InHand
  <2>3. CASE Start(r) BY <2>3 DEF Start, InHand
  <2>4. CASE Drained(r) BY <2>4 DEF Drained, InHand
  <2>5. CASE Leave(r) BY <2>5 DEF Leave, InHand
  <2>6. CASE Parses(r)
    <3>1. /\ worker[r] = "try" /\ Parser[c] = adapter[r] /\ worker'[r] = "feed" /\ current' = current
          /\ adapter' = adapter /\ queue' = queue /\ fed' = fed /\ admitted' = admitted
      BY <2>6 DEF Parses
    <3>. QED BY <1>0, <3>1 DEF InHand
  <2>7. CASE ParseFails(r)
    <3>1. /\ worker[r] = "try" /\ Parser[c] # adapter[r] /\ current' = current
          /\ queue' = queue /\ fed' = fed /\ admitted' = admitted
      BY <2>7 DEF ParseFails
    <3>2. CASE adapter[r] < Adapters
      <4>1. adapter'[r] = adapter[r] + 1 /\ worker'[r] = "try"
        BY <2>7, <3>2 DEF ParseFails, NextAdapter
      <4>2. adapter[r] <= Parser[c] <=> adapter'[r] <= Parser[c]
        BY <1>0, <3>1, <4>1
      <4>. QED BY <3>1, <4>1, <4>2 DEF InHand
    <3>3. CASE ~(adapter[r] < Adapters)
      <4>1. adapter'[r] = adapter[r] /\ worker'[r] = "pop"
        BY <2>7, <3>3 DEF ParseFails, NextAdapter
      <4>2. ~(adapter[r] <= Parser[c])
        BY <1>0, <3>1, <3>3
      <4>. QED BY <3>1, <4>1, <4>2 DEF InHand
    <3>. QED BY <3>2, <3>3
  <2>8. CASE Store(r) BY <2>8 DEF Store, InHand
  <2>9. CASE Stored(r) BY <2>9 DEF Stored, InHand
  <2>10. CASE StoreFails(r)
    <3>1. /\ worker[r] = "store" /\ Parser[c] = adapter[r] /\ current' = current
          /\ queue' = queue /\ fed' = fed /\ admitted' = admitted
      BY <1>0, <2>10 DEF StoreFails
    <3>2. \/ worker'[r] = "pop"
          \/ worker'[r] = "try" /\ adapter'[r] = adapter[r] + 1
      BY <2>10 DEF StoreFails, NextAdapter
    <3>. QED BY <1>0, <3>1, <3>2 DEF InHand
  <2>. QED BY <1>6, <2>1, <2>2, <2>3, <2>4, <2>5, <2>6, <2>7, <2>8, <2>9, <2>10 DEF Advances, Step
<1>7. ASSUME queue'[r] = q, fed'[r] = fed[r], admitted'[r] = admitted[r], InHand(r)' = InHand(r)
      PROVE  Delivered(r)'
  <2>1. Pending(r)' = p
    BY <1>1, <1>2, <1>7
  <2>. QED BY <1>7, <2>1 DEF Delivered, Known
<1>. QED BY <1>3, <1>4, <1>5, <1>6, <1>7

(* What a queue took and an adapter understands is handed to the feed once   *)
(* and in order of arrival, whatever fails to parse or to be written.       *)
THEOREM DeliveredExactlyOnce == Spec => []ExactlyOnceInOrder
<1>1. Init => ExactlyOnceInOrder /\ ByItsParser
  <2>. SUFFICES ASSUME Init PROVE ExactlyOnceInOrder /\ ByItsParser
    OBVIOUS
  <2>1. ByItsParser
    BY DEF Init, ByItsParser
  <2>2. ASSUME NEW s \in Source PROVE fed[s] \o Only(Pending(s), Known) = Only(admitted[s], Known)
    <3>1. Pending(s) = <<>> /\ fed[s] = <<>> /\ admitted[s] = <<>>
      BY DEF Init, Pending
    <3>. QED BY <3>1, OnlyEmpty
  <2>. QED BY <2>1, <2>2 DEF ExactlyOnceInOrder
<1>2. TypeOK /\ ExactlyOnceInOrder /\ ByItsParser /\ [Next]_vars => ExactlyOnceInOrder' /\ ByItsParser'
  <2>. SUFFICES ASSUME TypeOK, ExactlyOnceInOrder, ByItsParser, [Next]_vars
                PROVE  ExactlyOnceInOrder' /\ ByItsParser'
    OBVIOUS
  <2>1. ASSUME NEW r \in Source PROVE Delivered(r)'
    <3>0. Delivered(r)
      BY DEF ExactlyOnceInOrder, Delivered
    <3>1. CASE UNCHANGED vars
      BY <3>0, <3>1 DEF vars, work, dispatch, Delivered, Pending, Known
    <3>2. ASSUME NEW s \in Source, Advances(s), s # r PROVE Delivered(r)'
      <4>1. /\ worker'[r] = worker[r] /\ current'[r] = current[r] /\ adapter'[r] = adapter[r]
            /\ queue'[r] = queue[r] /\ fed'[r] = fed[r] /\ admitted'[r] = admitted[r]
        BY <3>2 DEF Advances, Step, Push, Post, Destroy, Start, Pop, Drained, Leave, ParseFails,
                    NextAdapter, Parses, Feed, Store, Stored, StoreFails, TypeOK, work, dispatch
      <4>. QED BY <3>0, <4>1 DEF Delivered, Pending, Known
    <3>3. CASE Advances(r)
      BY <3>0, <3>3, DeliveredStays
    <3>. QED BY <3>1, <3>2, <3>3, NextIsSomeone
  <2>2. ByItsParser'
    BY ParserStays
  <2>. QED BY <2>1, <2>2 DEF ExactlyOnceInOrder, Delivered
<1>. QED BY TypeCorrect, <1>1, <1>2, PTL DEF Spec
=============================================================================
