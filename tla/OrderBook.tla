----------------------------- MODULE OrderBook -----------------------------
(***************************************************************************)
(* The order book of one symbol: the exchange's messages, the handler that  *)
(* turns one into an update (src/src/data/bybit/data_manager.cpp), the      *)
(* two-pointer merge of OrderBook::accept (src/src/data/orderbook.hpp) and  *)
(* the feed the merged book is pushed into (SnapshotMerge).                *)
(*                                                                         *)
(* The exchange is external: `book' is its true book as of the message last *)
(* handled, a signed size per price, bids positive, asks negative, 0 for no *)
(* level, every bid below every ask.  A delta lists the sides of the prices *)
(* that changed, a size of 0 for a side that has gone.                     *)
(* Messages are handled one at a time, on the strand of the dispatcher.     *)
(***************************************************************************)
EXTENDS Integers, FiniteSets, Sequences, SequencesExt

CONSTANTS
  Price,       (* a finite set of price ticks                              *)
  MaxSize,     (* bound on the size of a level                             *)
  MayCross     (* a delta may delete an ask below a bid it adds            *)

ASSUME PriceAssumption == Price \subseteq Int /\ IsFiniteSet(Price)
ASSUME MaxSizeAssumption == MaxSize \in Nat
ASSUME MayCrossAssumption == MayCross \in BOOLEAN

VARIABLES
  book,     (* the exchange's book: Price -> signed size                   *)
  levels,   (* mLevels                                                     *)
  pc,       (* idle, accept, merge, push                                   *)
  update,   (* the vector handed to accept, from its iterator u on         *)
  rest,     (* mLevels from the iterator e on                              *)
  result,   (* the merge's output so far                                   *)
  fed       (* the cache of ob_feed                                        *)

bookVars == <<book, levels, pc, update, rest, result, fed>>

Level == [price : Price, size : Int]

PriceOf(l) == l.price

(* The feed of the book.                                                   *)
ObFeed == INSTANCE SnapshotMerge WITH SortField <- PriceOf, KeyField <- PriceOf

-----------------------------------------------------------------------------
(* The exchange.                                                           *)

Uncrossed(b) == \A p, q \in Price : b[p] > 0 /\ b[q] < 0 => p < q

Book == {b \in [Price -> -MaxSize..MaxSize] : Uncrossed(b)}

NoLevels == [p \in Price |-> 0]

(* The two sides of a book: the sizes by price, 0 for no level.             *)
Bids(b) == [p \in Price |-> IF b[p] > 0 THEN b[p] ELSE 0]
Asks(b) == [p \in Price |-> IF b[p] < 0 THEN b[p] ELSE 0]

Changed(old, new) == {p \in Price : old[p] # new[p]}

(* Nothing on the bid side of a delta is above anything on its ask side.    *)
SidesApart(old, new) ==
  \A p \in Changed(Bids(old), Bids(new)), q \in Changed(Asks(old), Asks(new)) : p <= q

-----------------------------------------------------------------------------
(* The handler: bids reversed, then the asks with their sizes negated.      *)

(* The elements of a finite set of prices, lowest first.                   *)
InOrder(S) ==
  CHOOSE s \in [1..Cardinality(S) -> S] :
    ToSet(s) = S /\ \A i, j \in DOMAIN s : i < j => s[i] < s[j]

(* One side of a message, lowest price first.                              *)
SideUpdate(old, new) ==
  LET asc == InOrder(Changed(old, new)) IN
  [i \in DOMAIN asc |-> [price |-> asc[i], size |-> new[asc[i]]]]

(* Mutation: the bids are left in the order of the wire, best first.        *)
ConcatenationBidsFirst(old, new) ==
  Reverse(SideUpdate(Bids(old), Bids(new))) \o SideUpdate(Asks(old), Asks(new))

Concatenation(old, new) ==
  SideUpdate(Bids(old), Bids(new)) \o SideUpdate(Asks(old), Asks(new))

(* A snapshot: accept({}) empties mLevels, then its levels are accepted.    *)
Snapshot(new) ==
  /\ pc = "idle"
  /\ book' = new
  /\ levels' = <<>>
  /\ update' = Concatenation(NoLevels, new)
  /\ pc' = "accept"
  /\ UNCHANGED <<rest, result, fed>>

(* A delta.  The exchange sends none when nothing changed.                  *)
Delta(new) ==
  /\ pc = "idle"
  /\ new # book
  /\ MayCross \/ SidesApart(book, new)
  /\ book' = new
  /\ update' = Concatenation(book, new)
  /\ pc' = "accept"
  /\ UNCHANGED <<levels, rest, result, fed>>

-----------------------------------------------------------------------------
(* OrderBook::accept.                                                      *)

(* An empty update clears the book and tells nobody.                       *)
AcceptReset ==
  /\ pc = "accept"
  /\ update = <<>>
  /\ levels' = <<>>
  /\ pc' = "idle"
  /\ UNCHANGED <<book, update, rest, result, fed>>

(* An empty book takes the update as it is.                                *)
AcceptInitial ==
  /\ pc = "accept"
  /\ update # <<>>
  /\ levels = <<>>
  /\ levels' = update
  /\ update' = <<>>
  /\ pc' = "push"
  /\ UNCHANGED <<book, rest, result, fed>>

AcceptMerge ==
  /\ pc = "accept"
  /\ update # <<>>
  /\ levels # <<>>
  /\ rest' = levels
  /\ pc' = "merge"
  /\ UNCHANGED <<book, levels, update, result, fed>>

(* Keep a level below the next update, or left over when there is none.     *)
KeepExisting ==
  /\ pc = "merge"
  /\ rest # <<>>
  /\ update # <<>> => Head(rest).price < Head(update).price
  /\ result' = Append(result, Head(rest))
  /\ rest' = Tail(rest)
  /\ UNCHANGED <<book, levels, pc, update, fed>>

(* push_back unless the size is 0.                                         *)
WithSize(u) == IF u.size # 0 THEN <<u>> ELSE <<>>

(* Insert an update below the next level, or left over.                    *)
InsertNew ==
  /\ pc = "merge"
  /\ update # <<>>
  /\ rest # <<>> => Head(update).price < Head(rest).price
  /\ result' = result \o WithSize(Head(update))
  /\ update' = Tail(update)
  /\ UNCHANGED <<book, levels, pc, rest, fed>>

(* Update or delete the level of the same price.                           *)
UpdateExisting ==
  /\ pc = "merge"
  /\ rest # <<>> /\ update # <<>>
  /\ Head(update).price = Head(rest).price
  /\ result' = result \o WithSize(Head(update))
  /\ update' = Tail(update)
  /\ rest' = Tail(rest)
  /\ UNCHANGED <<book, levels, pc, fed>>

MergeDone ==
  /\ pc = "merge"
  /\ rest = <<>> /\ update = <<>>
  /\ levels' = result
  /\ result' = <<>>
  /\ pc' = "push"
  /\ UNCHANGED <<book, update, rest, fed>>

(* The acceptor of ob_feed gets a copy of the book.                        *)
Push ==
  /\ pc = "push"
  /\ fed' = ObFeed!SortedMerge(fed, levels).cache
  /\ pc' = "idle"
  /\ UNCHANGED <<book, levels, update, rest, result>>

-----------------------------------------------------------------------------
BookInit ==
  /\ book = NoLevels
  /\ levels = <<>>
  /\ pc = "idle"
  /\ update = <<>>
  /\ rest = <<>>
  /\ result = <<>>
  /\ fed = <<>>

BookNext ==
  \/ \E new \in Book : Snapshot(new)
  \/ \E new \in Book : Delta(new)
  \/ AcceptReset
  \/ AcceptInitial
  \/ AcceptMerge
  \/ KeepExisting
  \/ InsertNew
  \/ UpdateExisting
  \/ MergeDone
  \/ Push

BookSpec == BookInit /\ [][BookNext]_bookVars

-----------------------------------------------------------------------------
(* Properties.                                                             *)

ByPrice(s) == \A i, j \in DOMAIN s : i < j => s[i].price < s[j].price

BookTypeOK ==
  /\ book \in Book
  /\ pc \in {"idle", "accept", "merge", "push"}
  /\ levels \in Seq(Level) /\ Len(levels) <= Cardinality(Price)
  /\ update \in Seq(Level)
  /\ rest \in Seq(Level)
  /\ result \in Seq(Level)
  /\ fed \in Seq(Level)

(* The levels a book has.                                                  *)
LevelsOf(b) == {[price |-> p, size |-> b[p]] : p \in {q \in Price : b[q] # 0}}

(* After each message the program's book is the exchange's: each level, on   *)
(* its side, with its size, no deleted one left behind, in ascending order. *)
MirrorsExchange ==
  pc \in {"idle", "push"} =>
    /\ ToSet(levels) = LevelsOf(book)
    /\ ByPrice(levels)

(* What the feed holds of the book: every price the book has, each once, ascending. *)
FeedCoversBook ==
  /\ ByPrice(fed)
  /\ pc = "idle" =>
       {l.price : l \in ToSet(levels)} \subseteq {l.price : l \in ToSet(fed)}

(* The type invariant and what the feed behind the book owes its            *)
(* subscribers.                                                             *)
BookInv == BookTypeOK /\ FeedCoversBook

=============================================================================
