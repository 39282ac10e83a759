--------------------------- MODULE OrderSimulator ---------------------------
(***************************************************************************)
(* OrderSimulator of rust_core/crates/orderbook/src/order.rs: what an      *)
(* order makes of one bar.  An answer is a set with the fill, or with      *)
(* none.  The engine uses market orders alone.                             *)
(***************************************************************************)
EXTENDS Integers, FiniteSetsExt

Sides == {"Buy", "Sell"}
OrderTypes == {"Market", "Limit", "StopMarket"}

Order(type, side, price, quantity) ==
  [type |-> type, side |-> side, price |-> price, quantity |-> quantity]

\* The fill of a whole order; the fee is in units of the rate.
Filled(order, price, rate) ==
  [price |-> price, quantity |-> order.quantity, fee |-> order.quantity * price * rate]

\* simulate_market_order
MarketFill(order, bar, rate) == Filled(order, bar.close, rate)

\* A slip for the mutants: a limit order that is touched fills at the close.
LimitFillsAtClose(order, bar, rate) ==
  IF order.type # "Limit" THEN {}
  ELSE IF order.side = "Buy"
       THEN IF bar.low > order.price THEN {} ELSE {Filled(order, bar.close, rate)}
       ELSE IF bar.high < order.price THEN {} ELSE {Filled(order, bar.close, rate)}

\* simulate_limit_order: touched, it fills at the close when that is better than the limit.
LimitFills(order, bar, rate) ==
  IF order.type # "Limit" THEN {}
  ELSE IF order.side = "Buy"
       THEN IF bar.low > order.price THEN {}
            ELSE {Filled(order, Min({order.price, bar.close}), rate)}
       ELSE IF bar.high < order.price THEN {}
            ELSE {Filled(order, Max({order.price, bar.close}), rate)}

Triggered(order, bar) ==
  IF order.side = "Buy" THEN bar.high >= order.price ELSE bar.low <= order.price

\* simulate_stop_market: triggered, it fills at the close, wherever that is.
StopFills(order, bar, rate) ==
  IF order.type = "StopMarket" /\ Triggered(order, bar)
  THEN {MarketFill(order, bar, rate)} ELSE {}
=============================================================================
