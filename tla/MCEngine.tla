------------------------------ MODULE MCEngine ------------------------------
(***************************************************************************)
(* Instances of the engine for TLC: what the configurations give the       *)
(* constants of Engine.                                                    *)
(***************************************************************************)
EXTENDS Engine

CONSTANTS Closes,      \* the closing prices of the bars
          NumBars,     \* how many bars a backtest has
          FirstTime,   \* timestamp of the first bar
          BarLength    \* seconds from a bar to the next

\* The bars of a course of closing prices: each opens at the close before it, and the
\* volumes are such that the first bars add up to powers of two.
BarsOf(closes) ==
  [i \in DOMAIN closes |->
     LET opened == IF i = 1 THEN closes[1] ELSE closes[i - 1]
     IN  [timestamp |-> FirstTime + (i - 1) * BarLength,
          high      |-> Max({opened, closes[i]}),
          low       |-> Min({opened, closes[i]}),
          close     |-> closes[i],
          volume    |-> IF i = 1 THEN 1 ELSE 2 ^ (i - 2)]]

\* Every course of the closing prices; the delay is positive, so nothing is executed at
\* the first close or marked at it, and one price is enough for it.
MCBarSeqs ==
  {BarsOf(closes) : closes \in {c \in [1 .. NumBars -> Closes] : c[1] = Min(Closes)}}

\* One signal of each kind, the sizes such that a reduction may be partial, total or
\* refused, and one with the default quantity.
Sig(action, symbol, quantity) ==
  [action |-> action, symbol |-> symbol, quantity |-> quantity, amount |-> 0]

\* ReduceLong(2), as docs/STRATEGY_GUIDE.md writes it, and no quantity.
ReduceLongBy2 == [Sig("ReduceLong", "btc", NoQuantity) EXCEPT !.amount = 2]

AllSignals ==
  {Sig("OpenLong", "btc", 2), Sig("OpenShort", "btc", NoQuantity),
   ReduceLongBy2, Sig("ReduceShort", "btc", 2),
   Sig("CloseLong", "btc", 2), Sig("CloseAll", "btc", 1)}

\* A few signals, for the runs about the queue and the days: two symbols, opening,
\* reducing, closing one position and closing all.
QueueSignals ==
  {Sig("OpenLong", "btc", 1), Sig("OpenShort", "eth", NoQuantity), ReduceLongBy2,
   Sig("CloseLong", "btc", 1), Sig("CloseAll", "eth", 1)}
=============================================================================
