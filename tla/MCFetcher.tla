----------------------------- MODULE MCFetcher ------------------------------
(***************************************************************************)
(* The data fetcher for TLC: a bar lasts two units of time, so that a      *)
(* request may start or end inside a bar.                                  *)
(***************************************************************************)
EXTENDS Archive

Req(start, end) == [start |-> start, end |-> end]
Stored(exchange, times) == {[timestamp |-> t, exchange |-> exchange] : t \in times}

\* Two overlapping ranges, one of whole bars and one that starts inside a bar.
MCRequests == {Req(2, 8), Req(5, 10)}

\* A table with holes, and one with rows of two exchanges that overlap.
MCFirstRows ==
  {Stored("bybit", {4}), Stored("bybit", {2, 4, 6}) \cup Stored("binance", {4})}

\* Rows the table may hold: two of one month and exchange, and two of another's months.
MCTable == Stored("bybit", {2, 4}) \cup Stored("binance", {4, 6})
=============================================================================
