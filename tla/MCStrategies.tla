---------------------------- MODULE MCStrategies ----------------------------
(***************************************************************************)
(* The engine and its strategies for TLC: any strategy at all over short   *)
(* courses of two prices, and each strategy of the catalogue, with short   *)
(* periods, over longer courses of three.                                  *)
(***************************************************************************)
EXTENDS Strategies, MCEngine, EngineBook, Results

CONSTANTS Levels,       \* the closing prices the catalogue's strategies see
          NumLevels     \* and over how many bars

Courses == {BarsOf(closes) : closes \in [1 .. NumLevels -> Levels]}

\* One bar more, for a strategy that needs it to open and close: from a price that can
\* still rise and fall.
LongCourses ==
  {BarsOf(closes) : closes \in {c \in [1 .. NumLevels + 1 -> Levels] :
                                  c[1] \notin {Min(Levels), Max(Levels)}}}

Backtest(id, params, course) == [id |-> id, params |-> params, bars |-> course]

\* Parameters with which every strategy acts within the bars.  One width is a number,
\* where text is asked for, and gives way to the default, as do parameters left out and a
\* strategy nobody knows.
MCBacktests ==
  {Backtest("any", << >>, course) : course \in MCBarSeqs}
  \cup {Backtest("always_long", << >>, course) : course \in MCBarSeqs}
  \cup {Backtest("turtle", << >>, course) : course \in MCBarSeqs}
  \cup {Backtest("bollinger_bands", [period |-> Number(2), std_dev |-> Number(1)], course) :
          course \in MCBarSeqs}
  \cup {Backtest("ema_crossover", [fast_period |-> Number(1), slow_period |-> Number(3)],
                 course) : course \in Courses}
  \cup {Backtest("bollinger_bands", [period |-> Number(2), std_dev |-> Text(1)], course) :
          course \in Courses}
  \cup {Backtest("breakout", [lookback |-> Number(2), threshold_pct |-> Text(2)], course) :
          course \in Courses}
  \cup {Backtest("rsi_macd", [rsi_period |-> Number(2), macd_fast |-> Number(1),
                              macd_slow |-> Number(2), macd_signal |-> Number(2)], course) :
          course \in LongCourses}

MCBookPrices == Closes \cup Levels

AllBarSeqs == {backtest.bars : backtest \in MCBacktests}

Ind(name, period) == [name |-> name, period |-> period]

MCWatched ==
  << Ind("ema", 2), Ind("rsi", 2), Ind("bollinger", 3), Ind("atr", 2), [name |-> "vwap"],
     [name |-> "macd", fast |-> 1, slow |-> 2, signal |-> 2], [name |-> "unknown"] >>
=============================================================================
