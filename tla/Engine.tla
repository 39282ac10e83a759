------------------------------- MODULE Engine -------------------------------
(***************************************************************************)
(* The backtest engine (BacktestEngine of                                  *)
(* rust_core/crates/engine/src/backtest.rs): it walks over the bars, asks  *)
(* the strategy for signals, executes them after a delay, marks the book   *)
(* and keeps the account and its statistics.                               *)
(*                                                                         *)
(* step() is one call; here it is a sequence of actions, so that each      *)
(* signal it executes and each position a CloseAll closes is a step of its *)
(* own.  pc says where in the call the engine is; only when it is "idle"   *)
(* can a caller do anything (submit_signal, step, reset).                  *)
(*                                                                         *)
(* The engine never calls add_to_position, so every position it owns has   *)
(* one leg: entry is that leg's price and the average.  The engine's book  *)
(* implements PositionBook (module EngineBook).                            *)
(*                                                                         *)
(* Money is counted in units of 1/Unit: a notional is Unit * price *       *)
(* quantity, the taker fee on it FeeRate * price * quantity and its        *)
(* initial margin MarginRate * price * quantity (taker_fee_rate is         *)
(* FeeRate / Unit and the leverage Unit / MarginRate).                     *)
(***************************************************************************)
EXTENDS Integers, Sequences, FiniteSetsExt, Functions

CONSTANTS
  BarSeqs,          \* the sequences of bars a backtest may be given
  Symbol,           \* config.symbol
  Symbols,          \* every symbol a signal may name
  Signals,          \* the signals a strategy or a caller may produce
  InitialBalance, Unit, FeeRate, MarginRate,
  Delay,            \* config.execution_delay_bars
  DefaultQuantity,  \* config.default_quantity
  DayLength,        \* what step() divides a timestamp by (86400000)
  MaxPerBar,        \* bound: signals one on_bar returns
  MaxPending        \* bound: pending signals when a caller submits another

Actions == {"OpenLong", "OpenShort", "ReduceLong", "ReduceShort",
            "CloseLong", "CloseShort", "CloseAll"}

\* Option<Decimal>::None in Signal.quantity.
NoQuantity == -1

\* The position id of a fill that belongs to no single position.
NoPosition == 0

Bar == [timestamp : Nat, high : Nat, low : Nat, close : Nat, volume : Nat]

\* struct Signal; amount is the Decimal of ReduceLong(_) and ReduceShort(_).
SignalType == [action : Actions, symbol : Symbols, quantity : Nat \cup {NoQuantity}, amount : Nat]

ASSUME BarsAssumption == BarSeqs \subseteq Seq(Bar)
\* query_bars reads the bars ORDER BY timestamp ASC, and the aggregation keeps their order.
ASSUME TimestampsAssumption ==
  \A course \in BarSeqs : \A i, j \in DOMAIN course :
    i <= j => course[i].timestamp <= course[j].timestamp
ASSUME SignalsAssumption == Signals \subseteq SignalType
ASSUME SymbolAssumption == Symbol \in Symbols
ASSUME MoneyAssumption ==
  InitialBalance \in Nat /\ Unit \in Nat \ {0} /\ FeeRate \in Nat /\ MarginRate \in Nat
ASSUME ConfigAssumption ==
  Delay \in Nat /\ DefaultQuantity \in Nat /\ DayLength \in Nat \ {0} /\ MaxPerBar \in Nat

VARIABLES
  pc,                  \* "idle", or where step() is: "executing", "closing", "marking"
  bars, current_idx,
  positions,           \* the order book's open positions: id -> record
  closed_positions,    \* the positions it closed, in order
  created,             \* ids drawn so far
  balance, margin_used, realized_pnl_total, day_realized_pnl,
  orders_history,      \* every fill recorded
  last_trades,         \* the fills no snapshot has reported yet
  reported,            \* history: the fills that snapshots of step() reported, in order
  pending_signals,     \* the queue of (execute_at, signal), with the index it was
                       \* produced at as a history field, from
  equity_curve, peak_equity, max_drawdown,
  max_drawdown_pct,    \* the fraction as <<drawdown, peak>>
  daily_pnl, last_day,
  closing,             \* the CloseAll in progress: its fill and the ids left to close
  fees_paid            \* history: every fee deducted from the balance

bookVars    == <<positions, closed_positions, created>>
accountVars == <<balance, margin_used, realized_pnl_total, day_realized_pnl, fees_paid>>
curveVars   == <<equity_curve, peak_equity, max_drawdown, max_drawdown_pct>>
dayVars     == <<daily_pnl, last_day>>
tradeVars   == <<orders_history, last_trades, reported>>
vars == <<pc, bars, current_idx, bookVars, accountVars, tradeVars, pending_signals,
          curveVars, dayVars, closing>>

-----------------------------------------------------------------------------
\* Prices and money

DirMultiplier(direction) == IF direction = "Long" THEN 1 ELSE -1

\* The profit, in price * quantity, of leaving qty of a position at price.
Profit(pos, price, qty) == (price - pos.entry) * qty * DirMultiplier(pos.direction)

\* What the open positions of a book were last marked at.
UnrealizedIn(book) == SumFunction([id \in DOMAIN book |-> book[id].unrealized])

\* compute_equity
EquityOf(cash, book) == cash + Unit * UnrealizedIn(book)

Day(timestamp) == timestamp \div DayLength

CurrentBar == bars[current_idx]

\* The market order of a signal fills at the close of the current bar.
FillPrice == CurrentBar.close

\* signal.quantity.unwrap_or(default_quantity)
FillQuantity(signal) ==
  IF signal.quantity = NoQuantity THEN DefaultQuantity ELSE signal.quantity

FillFee(signal) == FeeRate * FillPrice * FillQuantity(signal)

\* initial_margin of a fill
FillMargin(signal) == MarginRate * FillPrice * FillQuantity(signal)

-----------------------------------------------------------------------------
\* The order book, on single-leg positions

BySymbol(symbol) == {id \in DOMAIN positions : positions[id].symbol = symbol}

NewPosition(symbol, direction, price, qty) ==
  [symbol |-> symbol, direction |-> direction, entry |-> price, size |-> qty,
   status |-> "Open", realized |-> 0, unrealized |-> 0]

OpenPosition(symbol, direction, price, qty) ==
  /\ created' = created + 1
  /\ positions' = [id \in DOMAIN positions \cup {created + 1} |->
                     IF id = created + 1 THEN NewPosition(symbol, direction, price, qty)
                     ELSE positions[id]]
  /\ UNCHANGED closed_positions

Reduced(pos, price, qty) ==
  [pos EXCEPT !.size = @ - qty,
              !.realized = @ + Profit(pos, price, qty),
              !.status = IF pos.size = qty THEN "Closed" ELSE "PartiallyClosed",
              !.unrealized = IF pos.size = qty THEN 0 ELSE @]

\* A slip for the mutants: a fill larger than the position.
SufficientAlways(pos, qty) == TRUE

\* The negation of reduce_position's InsufficientSize check.
Sufficient(pos, qty) == qty <= pos.size

\* reduce_position, when it does not return an error.
ReducePosition(id, price, qty) ==
  /\ Sufficient(positions[id], qty)
  /\ \/ /\ positions[id].size = qty
        /\ positions' = [other \in DOMAIN positions \ {id} |-> positions[other]]
        /\ closed_positions' =
             Append(closed_positions, [id |-> id, pos |-> Reduced(positions[id], price, qty)])
     \/ /\ positions[id].size # qty
        /\ positions' = [positions EXCEPT ![id] = Reduced(@, price, qty)]
        /\ UNCHANGED closed_positions
  /\ UNCHANGED created

\* close_position overrides the fill's quantity with the whole size.
ClosePosition(id, price) == ReducePosition(id, price, positions[id].size)

\* check_liquidation, whatever the position, the mark and the maintenance rate.
CheckLiquidation(pos, mark) == FALSE

\* A slip for the mutants: a partially closed position is not marked any more.
MarkedIfOpen(mark) ==
  [id \in DOMAIN positions |->
     IF positions[id].symbol = Symbol /\ positions[id].status = "Open"
     THEN [positions[id] EXCEPT !.unrealized = Profit(positions[id], mark, positions[id].size)]
     ELSE positions[id]]

\* update_unrealized_pnl for the engine's symbol.
Marked(mark) ==
  [id \in DOMAIN positions |->
     IF positions[id].symbol = Symbol
     THEN [positions[id] EXCEPT !.unrealized = Profit(positions[id], mark, positions[id].size)]
     ELSE positions[id]]

-----------------------------------------------------------------------------
\* Submitting and queueing

\* A slip for the mutants: the delay is counted from the next bar.
ExecuteAtLate(idx) == idx + Delay + 1

ExecuteAt(idx) == idx + Delay

Queued(idx, signals) ==
  [i \in DOMAIN signals |-> [at |-> ExecuteAt(idx), from |-> idx, signal |-> signals[i]]]

\* submit_signal called from outside between two steps.
SubmitSignal(signal) ==
  /\ pc = "idle"
  /\ Len(pending_signals) < MaxPending
  /\ pending_signals' = pending_signals \o Queued(current_idx, << signal >>)
  /\ UNCHANGED <<pc, bars, current_idx, bookVars, accountVars, tradeVars, curveVars,
                 dayVars, closing>>

\* What on_bar may return: any few signals, in any order.
Batches == UNION {[1 .. n -> Signals] : n \in 0 .. MaxPerBar}

\* A slip for the mutants: the last bar is never stepped on.
MoreBarsShort == current_idx + 1 < Len(bars)

\* The negation of is_complete, and of the early return of step().
MoreBars == current_idx < Len(bars)

\* step(), as far as the strategy's signals: the index moves first.
BeginStep ==
  /\ pc = "idle"
  /\ MoreBars
  /\ current_idx' = current_idx + 1
  /\ \E batch \in Batches :
       pending_signals' = pending_signals \o Queued(current_idx + 1, batch)
  /\ pc' = "executing"
  /\ UNCHANGED <<bars, bookVars, accountVars, tradeVars, curveVars, dayVars, closing>>

\* A slip for the mutants: a signal waits for the bar after its own.
DueNextBar == pending_signals # << >> /\ Head(pending_signals).at < current_idx

\* process_pending_signals goes on as long as the first signal is due.
Due == pending_signals # << >> /\ Head(pending_signals).at <= current_idx

-----------------------------------------------------------------------------
\* execute_signal

Fill(id, signal, realized) ==
  [position |-> id, quantity |-> FillQuantity(signal), fee |-> FillFee(signal),
   realized |-> realized]

RecordFill(fill) ==
  /\ orders_history' = Append(orders_history, fill)
  /\ last_trades' = Append(last_trades, fill)
  /\ UNCHANGED reported

\* The fee is deducted before anything is known of the positions; realized is what
\* the execution adds to the account.
Settle(signal, realized) ==
  /\ balance' = balance - FillFee(signal) + Unit * realized
  /\ fees_paid' = fees_paid + FillFee(signal)
  /\ realized_pnl_total' = realized_pnl_total + Unit * realized
  /\ day_realized_pnl' = day_realized_pnl + Unit * realized

\* pop_front and the call, for the first due signal when it has one of the actions.
Execute(actions) ==
  /\ pc = "executing"
  /\ Due
  /\ Head(pending_signals).signal.action \in actions
  /\ pending_signals' = Tail(pending_signals)
  /\ UNCHANGED <<bars, current_idx, curveVars, dayVars>>

Current == Head(pending_signals).signal

ExecuteOpen ==
  /\ Execute({"OpenLong", "OpenShort"})
  /\ Settle(Current, 0)
  /\ margin_used' = margin_used + FillMargin(Current)
  /\ OpenPosition(Current.symbol, IF Current.action = "OpenLong" THEN "Long" ELSE "Short",
                  FillPrice, FillQuantity(Current))
  /\ RecordFill(Fill(created + 1, Current, 0))
  /\ UNCHANGED <<pc, closing>>

\* The first position of the symbol, in the arbitrary order of a HashMap, whatever
\* its direction; by the signal's quantity, whatever the amount in the action.
ExecuteReduce ==
  /\ Execute({"ReduceLong", "ReduceShort"})
  /\ \E id \in BySymbol(Current.symbol) :
       LET realized == Profit(positions[id], FillPrice, FillQuantity(Current))
       IN  /\ ReducePosition(id, FillPrice, FillQuantity(Current))
           /\ Settle(Current, realized)
           /\ RecordFill(Fill(id, Current, Unit * realized))
  /\ margin_used' = margin_used - FillMargin(Current)
  /\ UNCHANGED <<pc, closing>>

ExecuteClose ==
  /\ Execute({"CloseLong", "CloseShort"})
  /\ \E id \in BySymbol(Current.symbol) :
       LET realized == Profit(positions[id], FillPrice, positions[id].size)
       IN  /\ ClosePosition(id, FillPrice)
           /\ Settle(Current, realized)
           /\ RecordFill(Fill(id, Current, Unit * realized))
  /\ margin_used' = 0
  /\ UNCHANGED <<pc, closing>>

\* No position of the symbol, or a reduction larger than the first one: the fee has
\* been deducted, nothing else happens and nothing is recorded.
ExecuteFeeOnly ==
  /\ Execute({"ReduceLong", "ReduceShort", "CloseLong", "CloseShort"})
  /\ \/ BySymbol(Current.symbol) = {}
     \/ /\ Current.action \in {"ReduceLong", "ReduceShort"}
        /\ \E id \in BySymbol(Current.symbol) : ~Sufficient(positions[id], FillQuantity(Current))
  /\ Settle(Current, 0)
  /\ UNCHANGED <<pc, bookVars, margin_used, tradeVars, closing>>

\* CloseAll collects the ids of the symbol's positions first ...
ExecuteCloseAll ==
  /\ Execute({"CloseAll"})
  /\ Settle(Current, 0)
  /\ closing' = [fill |-> Fill(NoPosition, Current, 0), todo |-> BySymbol(Current.symbol)]
  /\ pc' = "closing"
  /\ UNCHANGED <<bookVars, margin_used, tradeVars>>

\* A slip for the mutants: the loop over the ids forgets the account's totals.
CloseNextSilently(id) ==
  /\ ClosePosition(id, FillPrice)
  /\ balance' = balance + Unit * Profit(positions[id], FillPrice, positions[id].size)
  /\ UNCHANGED <<realized_pnl_total, day_realized_pnl>>

\* The body of the loop over the ids.
CloseNext(id) ==
  LET realized == Unit * Profit(positions[id], FillPrice, positions[id].size)
  IN  /\ ClosePosition(id, FillPrice)
      /\ balance' = balance + realized
      /\ realized_pnl_total' = realized_pnl_total + realized
      /\ day_realized_pnl' = day_realized_pnl + realized

\* ... closes them one by one ...
CloseAllNext ==
  /\ pc = "closing"
  /\ \E id \in closing.todo :
       /\ CloseNext(id)
       /\ closing' = [closing EXCEPT !.todo = @ \ {id}]
  /\ UNCHANGED <<pc, bars, current_idx, margin_used, fees_paid, tradeVars,
                 pending_signals, curveVars, dayVars>>

\* No CloseAll in progress.
NoClosing == [fill |-> [position |-> NoPosition, quantity |-> 0, fee |-> 0, realized |-> 0],
              todo |-> {}]

\* ... and records one fill, for no position and with nothing realized.
CloseAllDone ==
  /\ pc = "closing"
  /\ closing.todo = {}
  /\ margin_used' = 0
  /\ RecordFill(closing.fill)
  /\ closing' = NoClosing
  /\ pc' = "executing"
  /\ UNCHANGED <<bars, current_idx, bookVars, balance, realized_pnl_total, day_realized_pnl,
                 fees_paid, pending_signals, curveVars, dayVars>>

\* The first signal is not due, or there is none.
ExecutedAll ==
  /\ pc = "executing"
  /\ ~Due
  /\ pc' = "marking"
  /\ UNCHANGED <<bars, current_idx, bookVars, accountVars, tradeVars, pending_signals,
                 curveVars, dayVars, closing>>

-----------------------------------------------------------------------------
\* The end of step()

\* check_liquidations: what it leaves of the book.  No position is ever reported, so
\* the forced close in its loop (balance, margin and fill) is never reached.
CheckLiquidations(book, mark) ==
  [id \in {i \in DOMAIN book : ~CheckLiquidation(book[i], mark)} |-> book[id]]

AtLeastZero(n) == IF n < 0 THEN 0 ELSE n

\* A slip for the mutants: the drawdown is measured from the opening balance.
DrawdownFromStart(equity) ==
  LET dd == InitialBalance - equity
  IN  /\ equity_curve' = Append(equity_curve, equity)
      /\ peak_equity' = IF equity > peak_equity THEN equity ELSE peak_equity
      /\ max_drawdown' = IF dd > max_drawdown THEN dd ELSE max_drawdown
      /\ UNCHANGED max_drawdown_pct

\* Step 6: the point of the curve, the peak, and the drawdown from the peak; the
\* percentage is the one of the largest absolute drawdown.
Drawdown(equity) ==
  LET peak == IF equity > peak_equity THEN equity ELSE peak_equity
      dd   == peak - equity
  IN  /\ equity_curve' = Append(equity_curve, equity)
      /\ peak_equity' = peak
      /\ max_drawdown' = IF dd > max_drawdown THEN dd ELSE max_drawdown
      /\ max_drawdown_pct' = IF dd > max_drawdown /\ peak # 0 THEN << dd, peak >>
                             ELSE max_drawdown_pct

\* A slip for the mutants: a day that ends is recorded and not started over.
DailyPnlNoReset(day) ==
  /\ last_day' = day
  /\ UNCHANGED day_realized_pnl
  /\ daily_pnl' = IF day # last_day /\ last_day # 0
                  THEN Append(daily_pnl, [day |-> last_day, pnl |-> day_realized_pnl])
                  ELSE daily_pnl

\* Step 7: the first bar of a day closes the day before; day 0 is never closed.
DailyPnl(day) ==
  /\ last_day' = day
  /\ \/ /\ day # last_day /\ last_day # 0
        /\ daily_pnl' = Append(daily_pnl, [day |-> last_day, pnl |-> day_realized_pnl])
        /\ day_realized_pnl' = 0
     \/ /\ day = last_day \/ last_day = 0
        /\ UNCHANGED <<daily_pnl, day_realized_pnl>>

\* A slip for the mutants: the snapshot copies the trades instead of taking them.
SnapshotCopies ==
  /\ reported' = reported \o last_trades
  /\ UNCHANGED <<orders_history, last_trades>>

\* build_snapshot takes last_trades, which are the snapshot's recent_trades.
Snapshot ==
  /\ reported' = reported \o last_trades
  /\ last_trades' = << >>
  /\ UNCHANGED orders_history

\* Steps 3 to 7 of step(): mark the book, check liquidations, clamp the margin,
\* record equity and drawdown, the day's profit, and return the snapshot.
FinishStep ==
  /\ pc = "marking"
  /\ positions' = CheckLiquidations(Marked(CurrentBar.close), CurrentBar.close)
  /\ margin_used' = AtLeastZero(margin_used)
  /\ Drawdown(EquityOf(balance, positions'))
  /\ DailyPnl(Day(CurrentBar.timestamp))
  /\ Snapshot
  /\ pc' = "idle"
  /\ UNCHANGED <<bars, current_idx, closed_positions, created, balance, realized_pnl_total,
                 fees_paid, pending_signals, closing>>

-----------------------------------------------------------------------------

\* new(), with the bars of the backtest.
Init ==
  /\ pc = "idle"
  /\ bars \in BarSeqs
  /\ current_idx = 0
  /\ positions = << >> /\ closed_positions = << >> /\ created = 0
  /\ balance = InitialBalance /\ margin_used = 0 /\ fees_paid = 0
  /\ realized_pnl_total = 0 /\ day_realized_pnl = 0
  /\ orders_history = << >> /\ last_trades = << >> /\ reported = << >>
  /\ pending_signals = << >>
  /\ equity_curve = << >> /\ peak_equity = InitialBalance
  /\ max_drawdown = 0 /\ max_drawdown_pct = << 0, 1 >>
  /\ daily_pnl = << >> /\ last_day = 0
  /\ closing = NoClosing

\* reset() puts every field but the bars, the configuration and the strategy back.
Reset ==
  /\ pc = "idle"
  /\ current_idx' = 0
  /\ positions' = << >> /\ closed_positions' = << >> /\ created' = 0
  /\ balance' = InitialBalance /\ margin_used' = 0 /\ fees_paid' = 0
  /\ realized_pnl_total' = 0 /\ day_realized_pnl' = 0
  /\ orders_history' = << >> /\ last_trades' = << >> /\ reported' = << >>
  /\ pending_signals' = << >>
  /\ equity_curve' = << >> /\ peak_equity' = InitialBalance
  /\ max_drawdown' = 0 /\ max_drawdown_pct' = << 0, 1 >>
  /\ daily_pnl' = << >> /\ last_day' = 0
  /\ closing' = NoClosing
  /\ UNCHANGED <<pc, bars>>

\* The actions inside a call of step().
InStep ==
  \/ ExecuteOpen \/ ExecuteReduce \/ ExecuteClose \/ ExecuteFeeOnly
  \/ ExecuteCloseAll \/ CloseAllNext \/ CloseAllDone
  \/ ExecutedAll \/ FinishStep

Next ==
  \/ BeginStep
  \/ InStep
  \/ \E signal \in Signals : SubmitSignal(signal)
  \/ Reset

Spec == Init /\ [][Next]_vars

\* run() steps until the bars are consumed, and nothing else happens meanwhile; the
\* owner of a finished engine may reset it and run it again.
RunSpec ==
  /\ Init
  /\ [][BeginStep \/ InStep \/ (~MoreBars /\ Reset)]_vars
  /\ WF_vars(BeginStep \/ InStep)

-----------------------------------------------------------------------------
\* Properties

PositionType ==
  [symbol : Symbols, direction : {"Long", "Short"}, entry : Nat, size : Nat,
   status : {"Open", "PartiallyClosed", "Closed"}, realized : Int, unrealized : Int]

FillType == [position : Nat, quantity : Int, fee : Int, realized : Int]

\* Types of the engine's fields, the equity figures aside; the index stays within the
\* bars, and inside a step it is that of the step's bar.
TypeOK ==
  /\ pc \in {"idle", "executing", "closing", "marking"}
  /\ bars \in Seq(Bar)
  /\ current_idx \in 0 .. Len(bars)
  /\ pc # "idle" => current_idx > 0
  /\ created \in Nat
  /\ DOMAIN positions \subseteq 1 .. created
  /\ positions \in [DOMAIN positions -> PositionType]
  /\ closed_positions \in Seq([id : Nat, pos : PositionType])
  /\ balance \in Int /\ margin_used \in Int /\ fees_paid \in Int
  /\ realized_pnl_total \in Int /\ day_realized_pnl \in Int
  /\ orders_history \in Seq(FillType) /\ last_trades \in Seq(FillType)
  /\ reported \in Seq(FillType)
  /\ pending_signals \in Seq([at : Nat, from : Nat, signal : SignalType])
  /\ daily_pnl \in Seq([day : Int, pnl : Int]) /\ last_day \in Int
  /\ closing \in [fill : FillType, todo : SUBSET Nat]
  /\ closing.todo \subseteq DOMAIN positions

\* The balance is accounted for at every moment, in the middle of a step too: what
\* the account started with, plus everything realized, minus every fee deducted.
BalanceAccountedFor == balance = InitialBalance + realized_pnl_total - fees_paid

\* process_pending_signals stops at the first signal that is not due: that leaves no
\* due signal behind because the queue is ordered by execution index, and every
\* signal waits for an index that has not gone by and is within the delay.
QueueOrdered ==
  /\ \A i, j \in DOMAIN pending_signals :
       i < j => pending_signals[i].at <= pending_signals[j].at
  /\ \A i \in DOMAIN pending_signals :
       /\ pending_signals[i].at <= current_idx + Delay
       /\ Delay > 0 => pending_signals[i].at >= current_idx
       /\ Delay > 0 /\ pc \in {"idle", "marking"} => pending_signals[i].at > current_idx

\* SPEC.md, "Execution Delay": a signal leaves the queue to be executed at the bar
\* it was produced at plus execution_delay_bars, never earlier and never later.
ExecutedOnTime ==
  [][pc = "executing" /\ pending_signals' # pending_signals /\ Delay > 0
       => current_idx = Head(pending_signals).from + Delay]_vars

RealizedOpen   == SumFunction([id \in DOMAIN positions |-> positions[id].realized])
RealizedClosed == SumFunction([i \in DOMAIN closed_positions |->
                                 closed_positions[i].pos.realized])

\* What the engine realized in all is what its positions realized, open or closed:
\* the account and the book are updated by different code.
RealizedByPositions == realized_pnl_total = Unit * (RealizedOpen + RealizedClosed)

\* What the open positions would bring in at a price.
ProfitAt(price) ==
  SumFunction([id \in DOMAIN positions |-> Profit(positions[id], price, positions[id].size)])

\* After a step the equity recorded is the money put in, plus what was realized,
\* minus the fees, plus the open positions at the bar's close: no position is left
\* at an old mark, and each bar so far has one point in the curve.
EquityIsFair ==
  pc = "idle" =>
    /\ Len(equity_curve) = current_idx
    /\ current_idx > 0 /\ Symbols = {Symbol} =>
         equity_curve[current_idx] =
           InitialBalance + realized_pnl_total - fees_paid
           + Unit * ProfitAt(CurrentBar.close)

\* The drawdown kept incrementally is the largest fall from an earlier point of the
\* equity curve (the opening balance included) to a later one.
DrawdownIsLargestFall ==
  LET curve == << InitialBalance >> \o equity_curve
  IN  max_drawdown =
        Max(UNION {{curve[i] - curve[j] : j \in i .. Len(curve)} : i \in DOMAIN curve})

\* What the closed days realized.
ClosedDays == SumFunction([i \in DOMAIN daily_pnl |-> daily_pnl[i].pnl])

\* Every realized amount is in exactly one day: the closed days, which are in order,
\* and the running one add up to the total.
DaysAddUp ==
  /\ realized_pnl_total = day_realized_pnl + ClosedDays
  /\ \A i \in DOMAIN daily_pnl :
       /\ daily_pnl[i].day < last_day
       /\ i > 1 => daily_pnl[i - 1].day < daily_pnl[i].day

\* The snapshots that step() returns report every recorded fill once, in order, and
\* the one a step records is in that step's snapshot.
TradesReportedOnce ==
  /\ orders_history = reported \o last_trades
  /\ pc = "idle" => last_trades = << >>

\* Every run() ends: the loops over the due signals and over the ids of a CloseAll do, and
\* every bar is consumed and has its point in the equity curve.
RunCompletes == []<>(pc = "idle" /\ ~MoreBars /\ Len(equity_curve) = Len(bars))
=============================================================================
