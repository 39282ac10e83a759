---------------------------- MODULE MCExchange -----------------------------
(***************************************************************************)
(* A small exchange for TLC: bars of a second with a hole, a clock that *)
(* passes while two tasks page, and names that take every way through the  *)
(* normaliser: ETH is a base and a quote, USD no quote at all.             *)
(***************************************************************************)
EXTENDS Exchange, TLC

Named(base, quote) == [base |-> base, quote |-> quote]
BTC == <<"B", "T", "C">>
ETH == <<"E", "T", "H">>
BNB == <<"B", "N", "B">>
USDT == <<"U", "S", "D", "T">>
USDC == <<"U", "S", "D", "C">>

MCBases == {BTC, ETH, BNB}
MCQuotes == {USDT, USDC, BTC, ETH}
MCLetters == {"B", "C", "D", "E", "H", "N", "S", "T", "U"}
MCPairs == {Named(ETH, BTC), Named(BTC, USDT)}

\* As the user may write it; BTCUSD is the name of no known pair.
MCRaws(pair) ==
  IF pair.base = ETH THEN {ETH \o <<"/">> \o BTC, ETH \o <<"-">> \o BTC}
  ELSE {BTC \o USDT, BTC \o <<"U", "S", "D">>}

\* No inside, one that ends in the hole, one around it whose end may be in the future.
MCRanges == {[start |-> 1, end |-> e] : e \in {1, 2, 4}}

\* One that both know, one that only Binance does.
MCIntervals == {60, 180}

\* The bar at 2 is missing.
MCOpens == {1, 3, 4}

MCSymmetry == Permutations(Tasks)
=============================================================================
