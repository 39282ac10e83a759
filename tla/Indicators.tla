----------------------------- MODULE Indicators -----------------------------
(***************************************************************************)
(* The indicators crate (rust_core/crates/indicators/src) and the answer   *)
(* that GET /api/indicators computes with it                               *)
(* (rust_core/crates/api/src/server.rs).                                   *)
(*                                                                         *)
(* Every function of the crate takes the whole history and returns one     *)
(* point per bar from the bar where it has enough of them.  A point is     *)
(* [index, value]: the (1-based) index of its bar and what was computed.   *)
(* Prices are integers in units so fine that the divisions by periods and  *)
(* volumes come out even, so there is no rounding; a relative strength is  *)
(* kept as the pair of averages it is the quotient of, and a Bollinger     *)
(* band as its middle and the variance it is drawn with.                   *)
(***************************************************************************)
EXTENDS Integers, Sequences, FiniteSetsExt, Functions

\* Err(_), and Ok(the points).
Failed == [ok |-> FALSE, points |-> << >>]
Points(points) == [ok |-> TRUE, points |-> points]

LastValue(result) == result.points[Len(result.points)].value
ValueBefore(result) == result.points[Len(result.points) - 1].value

\* The points of the bars from first to last, the value of each given by Value (joined to
\* nothing, so that TLC computes them once).
PointsFrom(first, last, Value(_)) ==
  Points(<< >> \o [i \in 1 .. last - first + 1 |->
                     [index |-> first + i - 1, value |-> Value(first + i - 1)]])

\* The sum of some of the values of a sequence, or of a function on its indices.
SumOver(values, first, last) == SumFunction([j \in first .. last |-> values[j]])

\* A slip for the mutants: the average starts from the newest prices.
EmaFromNewest(period, prices) ==
  LET Seed == SumOver([j \in DOMAIN prices |-> prices[Len(prices) + 1 - j]], 1, period) \div period
      average[i \in period .. Len(prices)] ==
        IF i = period THEN Seed
        ELSE (2 * prices[i] + (period - 1) * average[i - 1]) \div (period + 1)
  IN  IF period = 0 \/ Len(prices) < period THEN Failed
      ELSE PointsFrom(period, Len(prices), LAMBDA i : average[i])

\* ema: a simple average, then price * k + ema * (1 - k) with k = 2 / (period + 1).
Ema(period, prices) ==
  LET average[i \in period .. Len(prices)] ==
        IF i = period THEN SumOver(prices, 1, period) \div period
        ELSE (2 * prices[i] + (period - 1) * average[i - 1]) \div (period + 1)
  IN  IF period = 0 \/ Len(prices) < period THEN Failed
      ELSE PointsFrom(period, Len(prices), LAMBDA i : average[i])

\* macd: the line starts at the first bar of the slow average, the signal is the
\* average of the line, and a point needs both.
Macd(fast, slow, signal, prices) ==
  LET fastEma == Ema(fast, prices)
      slowEma == Ema(slow, prices)
      line    == [i \in 1 .. Len(prices) - slow + 1 |->
                    fastEma.points[i + slow - fast].value - slowEma.points[i].value]
      signalEma == Ema(signal, line)
      Histogram(i) == line[i - slow + 1] - signalEma.points[i - slow - signal + 2].value
  IN  IF fast >= slow \/ 0 \in {fast, slow, signal} \/ Len(prices) < slow + signal - 1
      THEN Failed
      ELSE PointsFrom(slow + signal - 1, Len(prices), Histogram)

\* rsi: averages of the gains and of the losses, smoothed over the period.
Rsi(period, prices) ==
  LET Change(i) == prices[i + 1] - prices[i]
      gain == [i \in 1 .. Len(prices) - 1 |-> IF Change(i) >= 0 THEN Change(i) ELSE 0]
      loss == [i \in 1 .. Len(prices) - 1 |-> IF Change(i) >= 0 THEN 0 ELSE -Change(i)]
      smoothed[i \in period .. Len(prices) - 1] ==
        IF i = period
        THEN [gain |-> SumOver(gain, 1, period) \div period,
              loss |-> SumOver(loss, 1, period) \div period]
        ELSE [gain |-> (smoothed[i - 1].gain * (period - 1) + gain[i]) \div period,
              loss |-> (smoothed[i - 1].loss * (period - 1) + loss[i]) \div period]
  IN  IF period = 0 \/ Len(prices) <= period THEN Failed
      ELSE PointsFrom(period + 1, Len(prices), LAMBDA i : smoothed[i - 1])

\* calculate_rsi, compared with a level: 100 when nothing was lost.
RsiBelow(strength, level) ==
  strength.loss # 0 /\ 100 * strength.gain < level * (strength.gain + strength.loss)
RsiAbove(strength, level) ==
  strength.loss = 0 \/ 100 * strength.gain > level * (strength.gain + strength.loss)

\* bollinger: each window of the period on its own.
Bollinger(period, prices) ==
  LET Middle(i)   == SumOver(prices, i - period + 1, i) \div period
      Squares(m)  == [j \in DOMAIN prices |-> (prices[j] - m) * (prices[j] - m)]
      Variance(i) == SumOver(Squares(Middle(i)), i - period + 1, i) \div period
  IN  IF period = 0 \/ Len(prices) < period THEN Failed
      ELSE PointsFrom(period, Len(prices),
                      LAMBDA i : [middle |-> Middle(i), variance |-> Variance(i)])

\* price <= middle - width * std, and price >= middle + width * std: squared, as std is
\* the root of the variance.
BelowBand(price, band, width) ==
  /\ price <= band.middle
  /\ (band.middle - price) * (band.middle - price) >= width * width * band.variance
AboveBand(price, band, width) ==
  /\ price >= band.middle
  /\ (band.middle - price) * (band.middle - price) >= width * width * band.variance

Larger(a, b) == IF a >= b THEN a ELSE b
Distance(a, b) == Larger(a - b, b - a)

\* atr: a simple average of the true ranges.
Atr(period, bars) ==
  LET TrueRange(i) ==
        Larger(bars[i].high - bars[i].low,
               Larger(Distance(bars[i].high, bars[i - 1].close),
                      Distance(bars[i].low, bars[i - 1].close)))
      ranges == [i \in 2 .. Len(bars) |-> TrueRange(i)]
  IN  IF period = 0 \/ Len(bars) <= period THEN Failed
      ELSE PointsFrom(period + 1, Len(bars),
                      LAMBDA i : SumOver(ranges, i - period + 1, i) \div period)

\* vwap: over everything so far; no volume so far is an error.
Vwap(bars) ==
  LET volumes   == [j \in DOMAIN bars |-> bars[j].volume]
      Volume(i) == SumOver(volumes, 1, i)
      Paid(i)   == SumOver([j \in DOMAIN bars |-> bars[j].close * volumes[j]], 1, i)
  IN  IF Len(bars) = 0 \/ \E i \in DOMAIN bars : Volume(i) = 0 THEN Failed
      ELSE PointsFrom(1, Len(bars), LAMBDA i : Paid(i) \div Volume(i))

-----------------------------------------------------------------------------
\* GET /api/indicators

ClosePrices(bars) == [i \in DOMAIN bars |-> bars[i].close]

\* IndicatorType: the periods are usizes.
IndicatorType(indicator) ==
  /\ indicator.name \in {"ema", "rsi", "bollinger", "atr"} => indicator.period \in Nat
  /\ indicator.name = "macd" => {indicator.fast, indicator.slow, indicator.signal} \subseteq Nat

\* An indicator, as parse_indicator_name returns it; "unknown" stands for its errors.
Calculate(indicator, bars) ==
  CASE indicator.name = "ema"       -> Ema(indicator.period, ClosePrices(bars))
    [] indicator.name = "rsi"       -> Rsi(indicator.period, ClosePrices(bars))
    [] indicator.name = "macd"      ->
         Macd(indicator.fast, indicator.slow, indicator.signal, ClosePrices(bars))
    [] indicator.name = "bollinger" -> Bollinger(indicator.period, ClosePrices(bars))
    [] indicator.name = "atr"       -> Atr(indicator.period, bars)
    [] indicator.name = "vwap"      -> Vwap(bars)
    [] OTHER                        -> Failed

\* calculate_indicator_series: each point with the time of its bar.
Series(indicator, bars) ==
  LET points == Calculate(indicator, bars).points
  IN  [i \in DOMAIN points |->
         [timestamp |-> bars[points[i].index].timestamp, value |-> points[i].value]]

\* calculate_indicator_last: the last point, whose timestamp is the index of its bar.
Latest(indicator, bars) ==
  LET points == Calculate(indicator, bars).points
  IN  [timestamp |-> points[Len(points)].index, value |-> points[Len(points)].value]

\* get_indicators on the bars an engine has processed: an empty object before the first
\* bar, 400 if one of the indicators fails, else of each its series or its last point.
GetIndicators(indicators, processed, full) ==
  LET Value(indicator) == IF full THEN Series(indicator, processed)
                          ELSE Latest(indicator, processed)
  IN  IF processed = << >> THEN [status |-> 200, values |-> << >>]
      ELSE IF \E i \in DOMAIN indicators : ~Calculate(indicators[i], processed).ok
      THEN [status |-> 400, values |-> << >>]
      ELSE [status |-> 200, values |-> [i \in DOMAIN indicators |-> Value(indicators[i])]]
=============================================================================
