---------------------------- MODULE MCCandleMean ----------------------------
(* An instance of CandleMean for TLC.  A width of twelve bits: the last      *)
(* price is too long for it, the one before fits and its notional does not.  *)
EXTENDS CandleMean

MCPriceText ==
  {[whole |-> <<1>>, frac |-> <<5>>],
   [whole |-> <<1>>, frac |-> <<9>>],
   [whole |-> <<1>>, frac |-> <<5, 5>>],
   [whole |-> <<2>>, frac |-> <<>>],
   [whole |-> <<4, 0, 9, 5>>, frac |-> <<>>],
   [whole |-> <<4, 0, 9>>, frac |-> <<6>>]}

MCSizeText ==
  {[whole |-> <<1>>, frac |-> <<>>],
   [whole |-> <<0>>, frac |-> <<3>>],
   [whole |-> <<0>>, frac |-> <<0, 7>>]}
=============================================================================
