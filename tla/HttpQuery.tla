----------------------------- MODULE HttpQuery -----------------------------
(***************************************************************************)
(* HTTPS requests: http_query (src/src/connect/http_query.{hpp,cpp}) over   *)
(* the shared resolver cache of connect::context                            *)
(* (src/src/connect/connection_context.cpp), as the instrument list and     *)
(* the order functions of the data manager use them                         *)
(* (src/src/data/bybit/data_manager.cpp:240,297,324).                       *)
(*                                                                         *)
(* A query has two coroutines: its constructor spawns a resolution for the  *)
(* cache's sake, its call operator the request.  Both run on the io         *)
(* threads; whoever made the query calls it, and may let it go, on another. *)
(* The request locks a weak reference when it starts and so keeps the query  *)
(* until it ends; its completion handler locks another one, for the call.    *)
(* The query refers to the context weakly too; the coroutines hold it.       *)
(*                                                                         *)
(* All requests go to one host, so the cache has one entry, and which       *)
(* addresses it holds makes no difference.                                  *)
(***************************************************************************)
EXTENDS Naturals, Sequences, FiniteSets

CONSTANTS
  Query,     (* the queries that are made                                  *)
  Threads    (* io threads: main.cpp:31 makes one, the tests up to two     *)

ASSUME ThreadsAssumption == Threads \in Nat \ {0}

VARIABLES
  made,      (* queries whose constructor has returned                     *)
  held,      (* queries whose owner still has its shared_ptr               *)
  context,   (* whether the context's owner still has its shared_ptr       *)
  pc,        (* where each coroutine stands                                *)
  cached,    (* whether m_resolution_cache has the host                    *)
  received,  (* requests that reached the server                           *)
  outcome,   (* what the request ended with                                *)
  answers    (* calls of the query's handlers                              *)

httpVars == <<made, held, context, pc, cached, received, outcome, answers>>

Task == Query \X {"prefetch", "request"}
Request(q) == <<q, "request">>

(* The stages in which a coroutine touches the cache.                      *)
Inside == {"looking", "storing"}
(* The awaits of a request after its resolution, each with what follows.   *)
Following ==
  [connecting |-> "handshaking", handshaking |-> "writing", writing |-> "reading"]
Stage ==
  {"none", "spawned", "posted", "asking", "reading", "ended", "locked", "over"}
    \cup Inside \cup DOMAIN Following

-----------------------------------------------------------------------------
(* The owner, on a thread of its own.                                      *)

Create(q) ==
  /\ q \notin made /\ context
  /\ made' = made \cup {q}
  /\ held' = held \cup {q}
  /\ pc' = [pc EXCEPT ![<<q, "prefetch">>] = "posted"]
  /\ UNCHANGED <<context, cached, received, outcome, answers>>

(* A coroutine at work holds the context.                                  *)
AtWork == {t \in Task : pc[t] \notin {"none", "spawned", "ended", "locked", "over"}}
ContextAlive == context \/ AtWork # {}

(* operator() spawns the request and returns; without a context it does      *)
(* nothing.                                                                *)
Call(q) ==
  /\ q \in held
  /\ ContextAlive
  /\ pc[Request(q)] = "none"
  /\ pc' = [pc EXCEPT ![Request(q)] = "spawned"]
  /\ UNCHANGED <<made, held, context, cached, received, outcome, answers>>

(* An order function returns, or the data manager goes away.               *)
Release(q) ==
  /\ q \in held
  /\ held' = held \ {q}
  /\ UNCHANGED <<made, context, pc, cached, received, outcome, answers>>

(* The owner of the context lets it go, before the queries or after them.    *)
ReleaseContext ==
  /\ context
  /\ context' = FALSE
  /\ UNCHANGED <<made, held, pc, cached, received, outcome, answers>>

-----------------------------------------------------------------------------
(* The coroutines.                                                         *)

End(q, result) ==
  /\ pc' = [pc EXCEPT ![Request(q)] = "ended"]
  /\ outcome' = [outcome EXCEPT ![q] = result]

(* The first locks: of the query and, through it, of the context.  Where one *)
(* fails the request ends with the empty text.                             *)
Start(q) ==
  /\ pc[Request(q)] = "spawned"
  /\ IF q \in held /\ ContextAlive
     THEN /\ pc' = [pc EXCEPT ![Request(q)] = "posted"]
          /\ UNCHANGED outcome
     ELSE End(q, "empty")
  /\ UNCHANGED <<made, held, context, cached, received, answers>>

Resolved(t) == [pc EXCEPT ![t] = IF t[2] = "request" THEN "connecting" ELSE "ended"]

ThreadFree == Cardinality({t \in Task : pc[t] \in Inside}) < Threads

(* The post to m_resolution_strand: what follows, up to the next await,     *)
(* runs inside the strand.                                                 *)
EnterStrand(t) ==
  /\ pc[t] = "posted"
  /\ ThreadFree
  /\ \A u \in Task : pc[u] # "looking"
  /\ pc' = [pc EXCEPT ![t] = "looking"]
  /\ UNCHANGED <<made, held, context, cached, received, outcome, answers>>

(* The lookup.  Next to an insertion it may find the host or not.           *)
Look(t) ==
  /\ pc[t] = "looking"
  /\ \/ (cached \/ \E u \in Task : pc[u] = "storing") /\ pc' = Resolved(t)
     \/ ~cached /\ pc' = [pc EXCEPT ![t] = "asking"]
  /\ UNCHANGED <<made, held, context, cached, received, outcome, answers>>

(* async_resolve answers: the coroutine goes on with the executor of the    *)
(* io context, not on the strand.                                          *)
Answer(t) ==
  /\ pc[t] = "asking"
  /\ ThreadFree
  /\ pc' = [pc EXCEPT ![t] = "storing"]
  /\ UNCHANGED <<made, held, context, cached, received, outcome, answers>>

Store(t) ==
  /\ pc[t] = "storing"
  /\ cached' = TRUE
  /\ pc' = Resolved(t)
  /\ UNCHANGED <<made, held, context, received, outcome, answers>>

(* One more await of the request succeeds; the server has the request when  *)
(* it is written.                                                          *)
Advance(q) ==
  LET stage == pc[Request(q)] IN
  /\ stage \in DOMAIN Following
  /\ pc' = [pc EXCEPT ![Request(q)] = Following[stage]]
  /\ received' = IF stage = "writing" THEN received \cup {q} ELSE received
  /\ UNCHANGED <<made, held, context, cached, outcome, answers>>

(* The response: any other status than 200 is thrown.                      *)
Respond(q) ==
  /\ pc[Request(q)] = "reading"
  /\ \E result \in {"body", "failure"} : End(q, result)
  /\ UNCHANGED <<made, held, context, cached, received, answers>>

(* The name does not resolve, an await fails or its time is up.  A request  *)
(* that fails while it is written may have reached the server.             *)
Fail(t) ==
  /\ pc[t] \in {"asking", "reading"} \cup DOMAIN Following
  /\ IF t[2] = "request" THEN End(t[1], "failure")
     ELSE pc' = [pc EXCEPT ![t] = "ended"] /\ UNCHANGED outcome
  /\ \/ UNCHANGED received
     \/ pc[t] = "writing" /\ received' = received \cup {t[1]}
  /\ UNCHANGED <<made, held, context, cached, answers>>

(* Mutation: the completion handler has the query itself.                  *)
AlwaysAlive(q) == TRUE

(* What the completion handler's lock of its weak reference finds: the       *)
(* coroutine's own is gone with its frame.                                  *)
QueryAlive(q) == q \in held

(* From here to the handler's return the query is kept, whoever lets it go.  *)
Lock(q) ==
  /\ pc[Request(q)] = "ended"
  /\ pc' = [pc EXCEPT ![Request(q)] = IF QueryAlive(q) THEN "locked" ELSE "over"]
  /\ UNCHANGED <<made, held, context, cached, received, outcome, answers>>

(* Mutation: the exception pointer is not looked at.                       *)
HandlerCallsUnchecked(q) == {<<"data">>}

(* Mutation: a failure is not reported.                                    *)
HandlerCallsOnSuccess(q) ==
  IF outcome[q] = "failure" THEN {<<>>} ELSE {<<"data">>, <<"data", "error">>}

(* generic_handler::handle_data reports what the data handler throws to     *)
(* the error handler.                                                      *)
HandlerCalls(q) ==
  IF outcome[q] = "failure" THEN {<<"error">>} ELSE {<<"data">>, <<"data", "error">>}

CallHandler(q) ==
  /\ pc[Request(q)] = "locked"
  /\ pc' = [pc EXCEPT ![Request(q)] = "over"]
  /\ \E called \in HandlerCalls(q) : answers' = [answers EXCEPT ![q] = @ \o called]
  /\ UNCHANGED <<made, held, context, cached, received, outcome>>

-----------------------------------------------------------------------------
HttpInit ==
  /\ made = {} /\ held = {} /\ received = {}
  /\ context = TRUE
  /\ pc = [t \in Task |-> "none"]
  /\ cached = FALSE
  /\ outcome = [q \in Query |-> "none"]
  /\ answers = [q \in Query |-> <<>>]

Resolve(t) == EnterStrand(t) \/ Look(t) \/ Answer(t) \/ Store(t)

Perform(q) == Start(q) \/ Advance(q) \/ Respond(q) \/ Lock(q) \/ CallHandler(q)

HttpNext ==
  \/ \E q \in Query : Create(q) \/ Call(q) \/ Release(q) \/ Perform(q)
  \/ \E t \in Task : Resolve(t) \/ Fail(t)
  \/ ReleaseContext

(* The io thread takes what is ready, and every await ends: by its answer,  *)
(* its error or the stream's timeout.                                       *)
Fairness ==
  /\ \A q \in Query : WF_httpVars(Perform(q))
  /\ \A t \in Task : WF_httpVars(Resolve(t) \/ Fail(t))

HttpSpec == HttpInit /\ [][HttpNext]_httpVars
FairHttpSpec == HttpSpec /\ Fairness

-----------------------------------------------------------------------------
(* Properties.                                                             *)

(* The variables have their types; a request has an outcome when it has     *)
(* ended (http_query.cpp:71-80).                                           *)
QueryTypeOK ==
  /\ made \subseteq Query /\ held \subseteq made /\ received \subseteq Query
  /\ context \in BOOLEAN
  /\ pc \in [Task -> Stage]
  /\ cached \in BOOLEAN
  /\ outcome \in [Query -> {"none", "empty", "failure", "body"}]
  /\ \A q \in Query : answers[q] \in {<<>>, <<"data">>, <<"error">>, <<"data", "error">>}
  /\ \A q \in Query : outcome[q] # "none" <=> pc[Request(q)] \in {"ended", "locked", "over"}

(* A request is answered once, when it is over, and with what became of it: *)
(* data if the server has it and answered with 200; the empty text of a      *)
(* request that was not made reaches only an owner who has outlived the      *)
(* context (http_query.cpp:72-80,88,141).                                  *)
AnswersAreTrue ==
  \A q \in Query : answers[q] # <<>> =>
    /\ pc[Request(q)] = "over"
    /\ Head(answers[q]) = "data" =>
         (q \in received /\ outcome[q] = "body") \/ (outcome[q] = "empty" /\ ~context)
    /\ Head(answers[q]) = "error" => outcome[q] = "failure"

(* The type invariant and the truth of the answers.                        *)
QueryInv == QueryTypeOK /\ AnswersAreTrue

(* An owner who lets his query go before the completion handler has locked   *)
(* it, at whichever stage of the request and on whichever thread, is never   *)
(* called; one who does so between the lock and the call still is           *)
(* (http_query.cpp:74-78).                                                 *)
LetGoInTime(q) == q \in made \ held /\ pc[Request(q)] \notin {"locked", "over"}

LeaverIsNotCalled == \A q \in Query : [](LetGoInTime(q) => [](answers[q] = <<>>))

(* A query that its owner keeps is answered: no wait of the two coroutines  *)
(* for the strand or the network is for ever (http_query.cpp:92-122).       *)
HeldIsAnswered ==
  \A q \in Query :
    (pc[Request(q)] = "spawned") ~> (answers[q] # <<>> \/ q \notin held)
=============================================================================
