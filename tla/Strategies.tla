----------------------------- MODULE Strategies -----------------------------
(***************************************************************************)
(* The engine with the strategies of the strategy crate                    *)
(* (rust_core/crates/strategy/src).  A strategy is a field of the engine,  *)
(* with parameters and, in one case, a state of its own; step() shows it   *)
(* the bars up to the current one and the positions before it executes     *)
(* anything, and queues what on_bar returns.                               *)
(*                                                                         *)
(* Besides the strategies of the crate there is one of kind "any", which   *)
(* returns whatever Engine lets it: any implementation of the trait.       *)
(***************************************************************************)
EXTENDS Engine, Indicators, SequencesExt

CONSTANTS
  Backtests,     \* what is started: the strategy's id and parameters, and the bars
  Quantity,      \* the quantity start_backtest gives every strategy
  Watched        \* the indicators a client asks for while the engine runs

ASSUME WatchedAssumption == \A i \in DOMAIN Watched : IndicatorType(Watched[i])

VARIABLE strategy    \* the engine's strategy: its kind, parameters and latch

stratVars == <<vars, strategy>>

-----------------------------------------------------------------------------
\* The catalogue

\* Parameters are JSON values: a number, or text that parses as one.
Number(n) == [json |-> "number", value |-> n]
Text(n)   == [json |-> "string", value |-> n]

\* default_params of available_strategies.
DefaultParams ==
  [always_long     |-> << >>,
   ema_crossover   |-> [fast_period |-> Number(9), slow_period |-> Number(21)],
   rsi_macd        |-> [rsi_period |-> Number(14), macd_fast |-> Number(12),
                        macd_slow |-> Number(26), macd_signal |-> Number(9)],
   bollinger_bands |-> [period |-> Number(20), std_dev |-> Text(2)],
   breakout        |-> [lookback |-> Number(20), threshold_pct |-> Text(2)]]

\* The create functions: as_u64 takes numbers, the two Decimal parameters are taken from
\* text only, and whatever is missing or of the other type gets its default.
Parameter(id, params, name) ==
  IF name \in DOMAIN params /\ params[name].json = DefaultParams[id][name].json
  THEN params[name].value
  ELSE DefaultParams[id][name].value

\* start_backtest: an id that is not in the catalogue is no strategy at all.
Create(id, params) ==
  [kind         |-> IF id \in DOMAIN DefaultParams \cup {"any"} THEN id ELSE "none",
   params       |-> IF id \in DOMAIN DefaultParams
                    THEN [name \in DOMAIN DefaultParams[id] |-> Parameter(id, params, name)]
                    ELSE << >>,
   has_position |-> FALSE]

-----------------------------------------------------------------------------
\* on_bar

\* StrategyContext.historical_bars: up to and including the current bar.
History(idx) == SubSeq(bars, 1, idx)

HistoryCloses(idx) == ClosePrices(History(idx))

\* A slip for the mutants: short positions are looked for.
IsShort ==
  \E id \in DOMAIN positions :
    /\ positions[id].symbol = Symbol
    /\ positions[id].direction = "Short"
    /\ positions[id].status \in {"Open", "PartiallyClosed"}

\* is_long, on the positions before this bar's executions.
IsLong ==
  \E id \in DOMAIN positions :
    /\ positions[id].symbol = Symbol
    /\ positions[id].direction = "Long"
    /\ positions[id].status \in {"Open", "PartiallyClosed"}

Wish(action) ==
  << [action |-> action, symbol |-> Symbol, quantity |-> Quantity, amount |-> 0] >>

\* A list of signals: the first whose condition holds, or none.
Choose2(open, close) ==
  IF open THEN Wish("OpenLong") ELSE IF close THEN Wish("CloseLong") ELSE << >>

\* EmaCrossover, on the last two points of its averages; it does not look at positions.
OnEmaCrossover(idx) ==
  LET fast == Ema(strategy.params.fast_period, HistoryCloses(idx))
      slow == Ema(strategy.params.slow_period, HistoryCloses(idx))
  IN  IF Len(fast.points) < 2 \/ Len(slow.points) < 2 THEN << >>
      ELSE Choose2(/\ ValueBefore(fast) <= ValueBefore(slow)
                   /\ LastValue(fast) > LastValue(slow),
                   /\ ValueBefore(fast) >= ValueBefore(slow)
                   /\ LastValue(fast) < LastValue(slow))

\* RsiMacd: oversold and the histogram turns positive; overbought or it turns negative.
OnRsiMacd(idx) ==
  LET rsi  == Rsi(strategy.params.rsi_period, HistoryCloses(idx))
      macd == Macd(strategy.params.macd_fast, strategy.params.macd_slow,
                   strategy.params.macd_signal, HistoryCloses(idx))
  IN  IF Len(rsi.points) < 1 \/ Len(macd.points) < 2 THEN << >>
      ELSE Choose2(/\ RsiBelow(LastValue(rsi), 30)
                   /\ LastValue(macd) > 0 /\ ValueBefore(macd) <= 0
                   /\ ~IsLong,
                   /\ IsLong
                   /\ \/ RsiAbove(LastValue(rsi), 70)
                      \/ LastValue(macd) < 0 /\ ValueBefore(macd) >= 0)

\* BollingerBands: at or beyond the lower band, at or beyond the upper one.
OnBollinger(idx) ==
  LET bands == Bollinger(strategy.params.period, HistoryCloses(idx))
      close == bars[idx].close
  IN  IF Len(bands.points) = 0 THEN << >>
      ELSE Choose2(BelowBand(close, LastValue(bands), strategy.params.std_dev) /\ ~IsLong,
                   AboveBand(close, LastValue(bands), strategy.params.std_dev) /\ IsLong)

\* Breakout: beyond the range of the last lookback bars by a share of that range, in
\* hundredths; the bars are those of the history, the current one among them.
OnBreakout(idx) ==
  LET recent == {History(idx)[i] : i \in idx - strategy.params.lookback + 1 .. idx}
      highest   == Max({bar.high : bar \in recent})
      lowest    == Min({bar.low : bar \in recent})
      threshold == (highest - lowest) * strategy.params.threshold_pct
  IN  IF idx <= strategy.params.lookback THEN << >>
      ELSE Choose2(100 * (bars[idx].close - highest) > threshold /\ ~IsLong,
                   100 * (lowest - bars[idx].close) > threshold /\ IsLong)

\* AlwaysLong, with its latch.
OnAlwaysLong == IF strategy.has_position THEN << >> ELSE Wish("OpenLong")

OnBar(idx) ==
  CASE strategy.kind = "always_long"     -> OnAlwaysLong
    [] strategy.kind = "ema_crossover"   -> OnEmaCrossover(idx)
    [] strategy.kind = "rsi_macd"        -> OnRsiMacd(idx)
    [] strategy.kind = "bollinger_bands" -> OnBollinger(idx)
    [] strategy.kind = "breakout"        -> OnBreakout(idx)
    [] strategy.kind = "none"            -> << >>

-----------------------------------------------------------------------------

StrategyInit ==
  \E backtest \in Backtests :
    /\ bars = backtest.bars
    /\ strategy = Create(backtest.id, backtest.params)
    /\ Init

\* step() asks the strategy; what the strategy returns is what it queues.
StrategyStep ==
  /\ pc = "idle" /\ MoreBars
  /\ \/ strategy.kind = "any"
     \/ /\ strategy.kind # "any"
        /\ pending_signals' =
             pending_signals \o Queued(current_idx + 1, OnBar(current_idx + 1))
  /\ BeginStep
  /\ strategy' = [strategy EXCEPT !.has_position = @ \/ strategy.kind = "always_long"]

\* reset() clears every field of the engine and does not touch the strategy.
StrategyReset == Reset /\ UNCHANGED strategy

StrategyNext ==
  \/ StrategyStep
  \/ InStep /\ UNCHANGED strategy
  \/ StrategyReset

StrategySpec == StrategyInit /\ [][StrategyNext]_stratVars

\* run(): as RunSpec of Engine, with the strategy.
StrategyRunSpec ==
  /\ StrategyInit
  /\ [][StrategyStep \/ (InStep /\ UNCHANGED strategy) \/ (~MoreBars /\ StrategyReset)]_stratVars
  /\ WF_stratVars(StrategyStep \/ (InStep /\ UNCHANGED strategy))

-----------------------------------------------------------------------------
\* Properties

\* The strategies that ask is_long before they open do not see a signal that is still
\* waiting: until the first one is executed each bar may add another, and no more.
OpeningsWithinDelay ==
  strategy.kind \in {"rsi_macd", "bollinger_bands"} =>
    Cardinality({id \in DOMAIN positions : positions[id].direction = "Long"}) <= Delay + 1

\* A client that asks for an indicator at every bar sees a series that only grows: what
\* it was answered is the beginning of what it is answered one bar later, no answer turns
\* into an error, the last point is that of the bar just processed, and one that asks for
\* the last value alone is given that of the series.  (The bars of "any" are those of another.)
ChartsDoNotRepaint ==
  pc = "idle" /\ current_idx > 1 /\ strategy.kind # "any" =>
    \A i \in DOMAIN Watched :
      \E before \in {GetIndicators(<< Watched[i] >>, History(current_idx - 1), TRUE)},
         now    \in {GetIndicators(<< Watched[i] >>, History(current_idx), TRUE)},
         last   \in {GetIndicators(<< Watched[i] >>, History(current_idx), FALSE)} :
        /\ before.status = 200 =>
             now.status = 200 /\ IsPrefix(before.values[1], now.values[1])
        /\ last.status = now.status
        /\ now.status = 200 =>
             \E newest \in {now.values[1][Len(now.values[1])]} :
               newest.timestamp = CurrentBar.timestamp /\ last.values[1].value = newest.value
=============================================================================
