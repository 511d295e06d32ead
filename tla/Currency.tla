------------------------------ MODULE Currency ------------------------------
(***************************************************************************)
(* currency<uint64_t> (src/src/data/currency.hpp): a fixed-point number, an *)
(* unsigned integer of some width and the count of its decimals.  Each      *)
(* value has the scale of the text it was read from; the operations bring   *)
(* two scales together by rescaling integers, which wrap.                   *)
(*                                                                         *)
(* A text is the digits before the point and those after it; without any   *)
(* after it there is no point.                                             *)
(***************************************************************************)
EXTENDS Integers, Sequences, SequencesExt

CONSTANT Limit   (* two to the power of the width; 2^64 in the program *)

ASSUME LimitAssumption == Limit \in Nat /\ Limit > 10

Wrap(n) == n % Limit

Cur(raw, decimals) == [raw |-> raw, decimals |-> decimals]

(* currency()                                                              *)
ZeroCur == Cur(0, 0)

Larger(m, n) == IF m < n THEN n ELSE m

-----------------------------------------------------------------------------
(* raw_at: the value on another scale, cut off when that one is narrower.   *)
RawAt(c, decimals) ==
  IF decimals < c.decimals THEN c.raw \div Wrap(10 ^ (c.decimals - decimals))
  ELSE Wrap(c.raw * Wrap(10 ^ (decimals - c.decimals)))

WiderScale(a, b) == Larger(a.decimals, b.decimals)

Less(a, b) == RawAt(a, WiderScale(a, b)) < RawAt(b, WiderScale(a, b))

(* Mutation: the sum keeps the scale of its left operand.                  *)
PlusOnLeftScale(a, b) == Cur(Wrap(a.raw + RawAt(b, a.decimals)), a.decimals)

Plus(a, b) ==
  Cur(Wrap(RawAt(a, WiderScale(a, b)) + RawAt(b, WiderScale(a, b))), WiderScale(a, b))

Times(a, b) == Cur(Wrap(a.raw * b.raw), a.decimals + b.decimals)

Over(a, b) ==
  IF a.decimals >= b.decimals THEN Cur(a.raw \div b.raw, a.decimals - b.decimals)
  ELSE Cur(Wrap(a.raw * Wrap(10 ^ (b.decimals - a.decimals))) \div b.raw, 0)

-----------------------------------------------------------------------------
(* std::to_string: the digits of a number, at least one.                   *)
DigitCount(n) == CHOOSE k \in 1..Limit : n < 10 ^ k /\ (k = 1 \/ n >= 10 ^ (k - 1))

LastDigits(n, k) == [i \in 1..k |-> (n \div 10 ^ (k - i)) % 10]

(* Mutation: the zeros between point and first digit are not filled in.     *)
to_string_unpadded(c) ==
  LET digits == LastDigits(c.raw, DigitCount(c.raw))
      point  == Larger(Len(digits) - c.decimals, 0)
  IN [whole |-> SubSeq(digits, 1, point), frac |-> SubSeq(digits, point + 1, Len(digits))]

(* to_string: filled up with zeros until a digit stands before the point.   *)
to_string(c) ==
  LET digits == LastDigits(c.raw, Larger(DigitCount(c.raw), c.decimals + 1))
      point  == Len(digits) - c.decimals
  IN [whole |-> SubSeq(digits, 1, point), frac |-> SubSeq(digits, point + 1, Len(digits))]

(* What parse throws on, std::overflow_error.                              *)
Overflow == -1

(* One digit: the value must have room for ten times itself, and after     *)
(* that for the digit.                                                      *)
TakeDigit(value, digit) ==
  IF \/ value = Overflow
     \/ value > (Limit - 1) \div 10
     \/ Limit - 1 - digit < 10 * value
  THEN Overflow ELSE 10 * value + digit

(* currency(str): the scale is the text's own, so that parse has nothing to *)
(* rescale.                                                                 *)
Parse(text) ==
  Cur(FoldLeft(TakeDigit, 0, text.whole \o text.frac), Len(text.frac))
=============================================================================
