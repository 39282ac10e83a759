--------------------------- MODULE MCMarketData -----------------------------
(***************************************************************************)
(* The data provider for TLC: a bar lasts two units of time, so that a     *)
(* range may start or end inside a bar, and an interval is one bar or two. *)
(***************************************************************************)
EXTENDS MarketData

Stored(exchange, times) == {[timestamp |-> t, exchange |-> exchange] : t \in times}

\* A table with holes and rows of two exchanges in one minute.
MCFirstRows == {Stored("bybit", {10}) \cup Stored("custom", {4, 10})}

Config(interval, n, start, end, source) ==
  [interval |-> interval, count |-> n, start |-> start, end |-> end,
   source |-> source, max |-> 4]

\* A range with not a bar too many, one of longer bars that starts inside a bar and is
\* counted back from the clock, and calls that are answered at once: made-up bars, no bars, a
\* count beyond the limit, and a timeframe that does not parse.
MCConfigs ==
  {Config(2, 3, 2, 8, "real"), Config(4, 1, NoTime, NoTime, "real"),
   Config(4, 2, NoTime, 8, "synthetic"), Config(2, 0, NoTime, 8, "real"),
   Config(2, 5, NoTime, 8, "real"), Config(0, 1, 6, NoTime, "real")}

\* The callers are alike.
MCSymmetry == Permutations(Callers)

MCRequests == {}

\* Prices that differ from bar to bar.
MCContent(row) ==
  LET t == row.timestamp \div 2
  IN  [open   |-> 10 + t, high |-> 20 - (t % 3), low |-> 5 + (t % 2), close |-> 11 + t,
       volume |-> IF row.exchange = "custom" THEN 1 ELSE 3]
=============================================================================
