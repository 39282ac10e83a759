------------------------------- MODULE Results ------------------------------
(***************************************************************************)
(* What the engine reports of itself (get_state, build_snapshot_impl,      *)
(* build_result and compute_sharpe of rust_core/crates/engine/src/         *)
(* backtest.rs).  The counters of record_fill and the sums of the result   *)
(* are functions of the recorded fills; a quotient is a pair of whole      *)
(* numbers, and money is counted as in Engine.                             *)
(***************************************************************************)
EXTENDS Engine, OrderSimulator

\* Every division is guarded: by nothing, it is zero.
Ratio(n, d) == IF d > 0 THEN << n, d >> ELSE << 0, 1 >>

Unrealized == Unit * UnrealizedIn(positions)

\* record_fill counts every fill, those that open a position and realize nothing too.
TotalTrades == Len(orders_history)
Winning == {i \in DOMAIN orders_history : orders_history[i].realized > 0}
Losing  == {i \in DOMAIN orders_history : orders_history[i].realized < 0}
WinRate == Ratio(Cardinality(Winning), TotalTrades)

\* What the fills realized, in the order they were recorded.
Returns == [i \in DOMAIN orders_history |-> orders_history[i].realized]

GrossProfit == SumFunctionOnSet(Returns, Winning)

\* A slip for the mutants: the losses keep their sign.
GrossLossSigned == SumFunctionOnSet(Returns, Losing)

GrossLoss == -SumFunctionOnSet(Returns, Losing)

\* compute_sharpe: what it divides, the mean of the days that are closed; none of less than
\* two days or when they are all the same, which is when their deviation is zero.
Sharpe ==
  LET returns == [i \in DOMAIN daily_pnl |-> daily_pnl[i].pnl]
  IN  IF Len(daily_pnl) < 2 \/ \A i \in DOMAIN returns : returns[i] = returns[1] THEN {}
      ELSE {[mean |-> Ratio(SumFunction(returns), Len(daily_pnl))]}

\* build_snapshot_impl, as far as the account goes.
SnapshotOf(bar, equity) ==
  [timestamp         |-> bar.timestamp,
   current_bar_index |-> current_idx,
   equity            |-> equity,
   available_balance |-> equity - margin_used,
   margin_ratio      |-> Ratio(margin_used + Unrealized, equity),
   unrealized_pnl    |-> Unrealized,
   trades            |-> TotalTrades,
   win_rate          |-> WinRate,
   sharpe_ratio      |-> Sharpe]

\* get_state, between two steps: the bar is the last one processed, the first before any.
StateBar == bars[IF current_idx > 0 THEN current_idx ELSE 1]

GetState == SnapshotOf(StateBar, EquityOf(balance, positions))

BuildResult ==
  LET final == IF equity_curve = << >> THEN InitialBalance ELSE equity_curve[Len(equity_curve)]
  IN  [final_equity      |-> final,
       total_return      |-> Ratio(final - InitialBalance, InitialBalance),
       max_drawdown_pct  |-> max_drawdown_pct,
       sharpe_ratio      |-> Sharpe,
       total_trades      |-> TotalTrades,
       win_rate          |-> WinRate,
       profit_factor     |-> Ratio(GrossProfit, GrossLoss),
       avg_trade_return  |-> Ratio(SumFunction(Returns), TotalTrades)]

-----------------------------------------------------------------------------
\* Properties

\* After any number of steps the result, the state, the trades and the book tell one story,
\* though each is summed up elsewhere: the return is what the book realized and holds less
\* every fee, and, unless a CloseAll left out what it realized, that is the gross profit
\* less the gross loss of the trades, and what the closed days and the one under way hold.
ResultAddsUp ==
  pc = "idle" =>
    LET result == BuildResult
        state  == GetState
    IN  /\ RealizedByPositions
        /\ result.final_equity =
             InitialBalance + realized_pnl_total + state.unrealized_pnl - fees_paid
        /\ state.equity = result.final_equity
        /\ (\A i \in DOMAIN orders_history : orders_history[i].position # NoPosition) =>
             /\ GrossProfit - GrossLoss = realized_pnl_total
             /\ \A sharpe \in result.sharpe_ratio :
                  sharpe.mean[1] + day_realized_pnl = realized_pnl_total

\* An order never fills at a price its bar does not have, a limit order never at a worse
\* price than its limit, and a closer limit or stop is never reached without a farther one.
\* No bar passes by a price unseen: it fills the limit order or triggers the stop there.
OrdersFillWithinBar ==
  pc = "idle" /\ current_idx > 0 =>
    LET bar == CurrentBar
        prices == {bar.low - 1, bar.low, bar.close, bar.high, bar.high + 1}
        Fills(type, side, price) ==
          LET order == Order(type, side, price, 1)
          IN  LimitFills(order, bar, FeeRate) \cup StopFills(order, bar, FeeRate)
    IN  \A side \in Sides, price \in prices :
          /\ \A type \in OrderTypes : \A fill \in Fills(type, side, price) :
               bar.low <= fill.price /\ fill.price <= bar.high
          /\ \A fill \in Fills("Limit", side, price) :
               IF side = "Buy" THEN fill.price <= price ELSE fill.price >= price
          /\ \A farther \in prices :
               /\ (side = "Buy") = (farther > price) /\ Fills("Limit", side, price) # {} =>
                    Fills("Limit", side, farther) # {}
               /\ (side = "Buy") = (farther < price) /\ Fills("StopMarket", side, price) # {} =>
                    Fills("StopMarket", side, farther) # {}
          /\ Fills("Limit", side, price) # {} \/ Fills("StopMarket", side, price) # {}
=============================================================================
