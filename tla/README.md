# CBT-pro: models, checks and proofs

TLA+ models of the backtesting platform CBT-pro, TLC configurations that check them on
small instances, and theorems about them proved with TLAPS. Paths below are relative to
the repository; `crates/` stands for `rust_core/crates/`.

    tlc -config Book.cfg PositionLedger.tla      # a run: configuration and module
    tlapm EngineProofs.tla                       # the proofs of a module

`PROJECT.json` lists the runs, the lines every definition stands for, the mutations each
property was tried against, the hazards of the code and the theorems.

## The system

A React frontend configures a backtest and plays it. A Rust server keeps the running
backtests in memory. Starting one makes a data provider see to it that one-minute bars are
in PostgreSQL (downloading what is missing from an exchange), aggregate them to the
requested timeframe and hand them to an engine. The engine walks over the bars, asks a
strategy for signals, executes them a number of bars later at that bar's close, and keeps
the account. The engine is stepped by WebSocket sessions, or run to its end by a REST request.

| part | state | operations | what must be right |
| --- | --- | --- | --- |
| order book (`crates/orderbook`) | open positions with their entry legs, closed positions, total of unrealized profit | open, add, reduce, close, mark; three cost-basis methods | legs, size, average and realized profit, each kept by its own formula, agree; no position is lost; FIFO and LIFO take the units they promise |
| engine (`crates/engine`) | index, book, account, queue of pending signals, equity curve, drawdown, days, unreported trades | `step`, `run`, `reset`, `submit_signal`, `get_state` | a signal is executed exactly on time; account, book and fills agree in every state; a run ends |
| strategies (`crates/strategy`) | a latch, or none | `create_*`, `on_bar` | signals depend on the past only; no more is opened than the delay lets through |
| indicators (`crates/indicators`) | none | a series or its last value | a point once drawn does not change; the last value is the series' last |
| order simulation (`engine/src/order.rs`) | none | fills of market, limit and stop orders in a bar | a fill is at a price of its bar and not beyond its limit |
| data fetcher (`crates/data_pipeline/src/fetcher.rs`) | set of ranges in progress | `ensure_data`, `verify_data` | a range is downloaded once at a time; no gap is left; every call returns |
| storage (`storage.rs`) | table `ohlcv_1m` | insert, query bars, query ranges | bars are stored once per exchange; ranges are what is stored |
| Parquet files (`storage.rs`) | a file for each month | write, read | a file is one write, whole |
| exchange adapters (`exchange.rs`) | rate limiter | `fetch_ohlcv` with paging, `fetch_symbols` | the pages together are the range, each bar once; every call gets its turn |
| symbol names (`symbol.rs`) | none | parse, format, normalize, denormalize | a pair stays the same pair |
| aggregation and cache (`aggregation.rs`, `cache.rs`) | LRU map with a time to live, or Redis | get, set, delete, clear; aggregate by bucket | an answer is no older than the time to live; the way to a longer bar does not matter |
| data provider (`backtest.rs` there) | none of its own | `get_bars` | enough bars, of the range that was asked for |
| REST server (`crates/api/src/server.rs`) | engines by id, the data provider, one mutex | start, pause, resume, state, result, order | no engine lost or used twice; nobody waits for a slow exchange but who asked |
| WebSocket sessions (`websocket.rs`) | subscribed backtest; the socket | subscribe, control | bars are sent in order, each once, over all sessions |
| frontend (`frontend/src`) | store, connection with retries, playback timer | messages, user actions | bars and signals are shown once; one connection at a time |

They interact by calls (server to provider to fetcher to adapter and storage; engine to
strategy and book), by the shared state behind the server's mutex, by the table that
concurrent downloads fill, and by messages between sessions and the frontend. What is hard:

- several formulas that must agree over any sequence of trades (book, account, drawdown);
- indices that are off by one on purpose (delayed execution);
- tasks that interleave at every await, and futures that are dropped there (downloads,
  start requests whose client has gone);
- one mutex that is kept over socket writes;
- units of time that are converted at several places;
- a cache that is filled from reads of a table others are filling;
- connections that close late, after a new one was made for the same page.

## Modules

| module | models | run |
| --- | --- | --- |
| `CostBasis` | the legs of a position and the three ways of taking units out of them (`position.rs` 305-408) | with `PositionBook` |
| `PositionBook` | `InMemoryOrderBook`: one action per operation that changes it | `Book` |
| `PositionLedger` | the book with a history of the money through each position, and the properties that need it | `Book`, `BookLots` |
| `LotBook` | abstract: a holding is the queue of the entry prices of its units; `PositionLedger` implements it | `BookLots` |
| `Engine`, `MCEngine` | `BacktestEngine`: `step()` as a sequence of actions, one for each signal executed and each position a CloseAll closes; reset, submissions | `EngineQueue` |
| `Indicators` | the six indicators over integer prices, and what `GET /indicators` answers | `EngineRun` |
| `Strategies`, `MCStrategies` | the catalogue, its `create_*` functions with their parameters, `on_bar` of the five strategies, and the engine run by them | `EngineRun` |
| `OrderSimulator` | fills of market, limit and stop orders against one bar | `EngineRun` |
| `Results` | `get_state`, `build_result`, the counters of trades, `compute_sharpe` | `EngineRun` |
| `EngineBook` | the map from the engine's single-leg records to the positions of `PositionBook`, which the engine implements under it | `EngineRun` |
| `Ranges` | continuous ranges of stored bars and the gaps in a request (`calculate_gaps`, `query_data_ranges`) | with `DataFetcher` |
| `DataFetcher`, `MCFetcher` | `ensure_data` and `verify_data` called concurrently, with the table and the adapters | `DataFetcher`, `DocFetchOk`, `DocSeconds` |
| `ParquetStorage` | `write_bars` and `read_bars`, with an error at any point of a write | `DataFetcher` |
| `Archive` | both stores of `storage.rs`: files written from the table that the fetcher fills | `DataFetcher` |
| `Exchange`, `MCExchange` | `fetch_ohlcv` of the Binance and Bybit adapters, page by page, over a shared rate limiter; `fetch_symbols` | `Exchange` |
| `OneStepFetch` | abstract: a call asks the exchange once, without limits of a page | `Exchange` |
| `SortedSets` | a set of moments as the sequence a loop over ordered rows goes through | with `Exchange`, `DataFetcher`, `MarketData` |
| `Symbols` | the normaliser and the formats of the exchanges | `Exchange` |
| `Aggregation` | buckets, their bars, the latest bar | `MarketData` |
| `MarketData`, `MCMarketData` | `get_bars` of the data provider, composed with `DataFetcher`; the cache in memory and in Redis, and readers that go through it alone | `MarketData` |
| `ApiServer`, `MCApi` | the shared state, the REST handlers and the sessions | `ApiStarts`, `ApiPlay` |
| `Frontend`, `MCFrontend` | the page: connection, retries and timers, playback, reset and start; and the session at the other end | `Frontend` |
| `FoldTheorems` | lemmas about sums over functions, folds over sets and sequences, recursive functions over an interval, ordered lists, and the induction they rest on | |
| `BookProofs` | theorems about `PositionBook`, `PositionLedger`, and their refinement of `LotBook` | |
| `EngineProofs`, `EngineAccountProofs` | theorems about `Engine`, its queue and its strategies; about its account, `Results` and `EngineBook` | |
| `DataProofs` | theorems about `DataFetcher`, `MarketData` with its cache and aggregation, and `Archive` | |
| `ExchangeProofs`, `ApiProofs`, `FrontendProofs` | theorems about `Exchange` with its `Symbols` and its refinement of `OneStepFetch`, `ApiServer`, `Frontend` | |

### How the models correspond to the code

**Order book.** A `HashMap` is a function from ids to records. Ids, random in the code, are
numbered as they are drawn. Decimals are integers; the prices of the configurations make
every average a whole number, so that the division is exact, as it is in the code up to 28
digits. The FIFO and LIFO loops are a fold over the legs.

**Engine.** `pc` says where in `step()` the engine is: `BeginStep` advances the index and
queues what the strategy returns; `ExecuteOpen`, `ExecuteReduce`, `ExecuteClose`,
`ExecuteFeeOnly` and `ExecuteCloseAll` are the arms of `execute_signal`; `CloseNext` is one
turn of the CloseAll loop; `FinishStep` is the rest of `step()`. A caller's `submit_signal`
and `reset` happen between steps. Money is counted in units small enough for the fee and
the margin to be whole. Positions have one leg because the engine never calls
`add_to_position`; `EngineBook` shows that this refines the full book. The order of a
`HashMap`'s values is any order. `check_liquidation` returns false, and so does the model.

**Strategies, indicators, results.** A strategy is a record with its kind, its latch and its
parameters, made by `Create` from what the request holds (a number where the code wants text
gives way to the default). `StrategyStep` replaces the free choice of `BeginStep` by what
`on_bar` returns for the bars up to the current one. The kind `any` keeps the free choice. An
indicator returns the points of its series; prices and periods are such that its divisions
come out even, square roots are compared by squares, and RSI's ratio is a pair. Ratios of a
result are pairs too, `None` is an empty set. Of the Sharpe ratio there is the mean and
whether the days vary. Limit and stop orders, which the engine never submits, are tried in every
bar it passes, at the prices around the bar.

**Data fetcher.** A task's actions go from one await to the next: `Lead` and `Follow` are the
critical section at the start of `ensure_data`, `Poll` the loop of a call that waits, `Plan`
the query of the ranges and the decision, `Fetch` and `Insert` one turn of the loop, `Finish`
the removal of the key. `Fail` is an error of the database or the exchange, `Drop` the loss of the
future at an await (or a panic). `Answers` says what `fetch_ohlcv` of an adapter
makes of the window it gets, in one step, which `Exchange` justifies; the exchange behind it
is external and has a fixed set of bars. The custom adapter is external: `DataFetcher::new`
takes any implementation of the trait, and this one reads the window as `ensure_data_inner`
writes it. Bars have no content here but their time and exchange.

**Parquet.** A file is empty (unreadable), or the rows of a month in the order written.
`WriteBars` gives the outcomes of a `write_bars`: the months are written one after another in
the map's order, and an error may stop it before, within (the file was emptied) or after any of
them. Nothing in the system calls it; the property is about every two writes of what a query of
the table returns (`ByTime`: rows of one minute come in any order).

**Exchange adapters.** `Asked` makes the window of a call, `Acquire` takes the limiter when
its interval is over (waiters queue, as at tokio's mutex), `Receive` is a page: the loop ends or
goes on behind the last bar's time. `Error` and `Unreadable` are the ways a reply fails,
`Drop` a future that is gone while it waits, sleeps or asks. `Pass` is the exchange's clock, so
that new bars open between two pages. A page is assumed to hold the oldest bars of its window
in order, as the mock servers of the tests answer. Names are sequences of letters and
separators; upper case is the only one, as every comparison of the code turns names into it.

**Data provider and cache.** `stage` says where a call is in `get_bars`: in the fetcher, at the
cache, before the write to the cache. The query and the aggregation are one action, the write
another, so that rows are inserted in between, by the fetcher of another call. Entries have an
age; `Tick` makes all older. A call does not spend a whole tick between its query and its write
(a query takes milliseconds, a tick stands for the better part of an hour). In memory the cache
evicts the least recently used entry and removes an old one when it is read; Redis forgets by
itself, and may fail, which the code takes for a miss. Redis is external.

**Server.** Holding the mutex without an await is one action, taken when the mutex is free.
`start_backtest` is three: it takes the provider out of the state, fetches without the mutex,
and puts engine and provider in. `get_backtest_result` takes the engine out and runs it
outside. A session keeps the mutex from the handling of a message until the last of what it
answers is sent (`Handled` and `Send`); a send waits while the connection is full. A step is answered
by a snapshot, a bar, and any few signals and trades (`Updates`: up to `MaxSignals` and `MaxTrades`). Of
an engine only the number of consumed bars matters; that a step advances by one and that `run`
consumes the rest is what `Engine` shows. `pause` and `resume` change nothing in the code; `GetState`
stands for them.

**Frontend.** A handler of the page runs to its end and is one action: `Opens`, `Closes` (which may
come long after `close()`), `Receive`, `TimerFires`, the panel's interval `Tick` and its effects
(`Effect`), and what the user does. Sockets are numbered and kept until their close event, so that an
older one may still report. The server's side of a socket answers one message at a time, in order,
and forgets it when the connection is lost. A snapshot brings the bar of `get_state`, which is the first
one as long as the engine has read none (`StateBar`): the page draws it when it subscribes, and is sent it
once more with the first step. `appendBar` compares times (`Time`): of two backtests of the same data, a bar
of the second may take the place of the first one's last.

## Runs

| run | shows | bounds and why they are enough |
| --- | --- | --- |
| `Book` | no position lost, legs cover the size, the total is fresh, realized profit equals the cash result, closed positions are final | 2 symbols, 2 prices, quantities 1 and 2, 4 fills of which 2 additions, 2 positions: three legs, a reduction that ends inside any leg or at its end, two positions that interleave, all three methods |
| `BookLots` | FIFO and LIFO implement the unit lots (refinement) | 1 position, 5 fills: up to four legs and two reductions after each other |
| `EngineQueue` | signals in order and on time, days add up, trades reported once | delay 2, 2 symbols, days of 2 bars, a caller's submissions beside the strategy's |
| `EngineRun` | balance, book, result and equity agree; the drawdown is the largest fall; a run ends; engine refines book; no strategy opens more than the delay lets through; charts do not repaint; orders fill inside their bar | any signal of any kind over every course of 4 closes of 2 prices (delay 1: a position opened at bar 2, a peak at bar 3, a fall at bar 4); the catalogue over every course of 5 closes of 3 prices, RSI/MACD over 6 from the middle price, with periods of 1 to 3 bars: every strategy but the breakout, which never does, opens and closes |
| `DataFetcher` | one download of a range at a time, exact gaps, no gap left by a call that worked, integrity never understated, files that are one write each, every call returns | 3 tasks, 3 calls, 2 overlapping ranges (one starts inside a bar), tables with holes and with rows of two exchanges, 1 error, 1 dropped call, 3 adapters; files of every two writes of parts of a table of 4 rows, in 2 months and of 2 exchanges |
| `MarketData` | answers no older than the time to live, ranges wide enough, aggregation composes | 2 callers, 3 calls, 6 configurations (2 that read the table, 4 answered before), 1 cache entry, time to live of 2 ticks, both backends, 1 error: an entry written by a slow call after a fast one, evicted, expired or overtaken by inserts |
| `Exchange` | paging implements one step (refinement), symbols come back, bars under way only in recent ranges, every call returns | 2 tasks, 2 calls, pages of one bar, 3 ranges of up to 4 bars with a hole, bars that open while a call pages, 1 failing reply, drops at every await; all pairs of 3 bases and 4 quotes in all spellings |
| `ApiStarts` | engines accounted for, the provider comes back, everything is answered | 2 clients, 2 starts, 1 session, 1 dropped request, up to 1 signal and 1 trade a step, with and without a provider at the start |
| `ApiPlay` | bars in order and complete last over two sessions | 2 sessions with 3 messages each, 2 bars, up to 1 signal and 2 trades a step, a result taken at any time |
| `Frontend` | bars in order on the chart, a played backtest ends while an attempt to connect is left | 4 sockets, 2 bars, 2 attempts, 1 message under way each way, 2 backtests, 1 reset, 1 lost or failing connection, both backtests of the same data: an old socket that reports after its successor opened |
| `DocFetchOk`, `DocSeconds` | end in a counterexample: see Findings | |

Constants named `Max...` bound a model and are not in the code, but for `MaxMissing`, the
10,000 bars of `fetcher.rs:167`, and `MaxAttempts`, the 5 of `websocket.ts`. `Millis` is 1000 in the
code; any value that moves a window beyond the last bar shows the same. Each passing run takes up to
three minutes and reaches between 66,000 and 2.3 million distinct states.
Deadlock is checked in `Book`, `BookLots`, `EngineQueue` and `EngineRun`; the others stop when the calls,
starts and messages that their bounds allow are used up.

### Fairness

- `StrategyRunSpec` (`EngineRun`): `run()` is a loop in one thread, so the engine goes on while it can.
- `FairSpec` of `DataFetcher`: the runtime polls a task that can go on, and an exchange and a
  database answer or fail, as HTTP and SQL clients do. Weak fairness of each task's steps; none
  of calls, errors or drops. `CallsReturn` is about finitely many calls: without end, other calls
  for its range could hold the key whenever a waiting call looks (every 100 ms).
- `FairSpec` of `Exchange`: the limiter's timer fires, the runtime polls, and the exchange
  replies; none of calls, errors, drops or the exchange's clock.
- `FairSpec` of `ApiServer`: tokio's mutex queues its waiters, so a handler that can go on
  again and again does (strong fairness of `Serve` and `Handle`), and clients read what they are
  sent. Nothing is assumed of exchanges: a fetch may last for ever, and nobody else waits.
- `FairSpec` of `Frontend`: timers fire, effects run, an attempt to connect ends one way or the
  other, messages arrive and the server handles them. None of the user or of faults. That the
  server handles them is `EverythingAnswered` of `ApiServer`.

## Proofs

For all values of the constants that the modules' assumptions and the premises below allow: any
number of callers, clients, positions, bars, prices, pages and errors.

### The order book (`BookProofs`)

| theorem | says | argument |
| --- | --- | --- |
| `NoPositionIsLost` | every id drawn is that of one open position with units left or of one closed position with none | `Inv`: the open ids and the closed ones together are `1 .. created` and their numbers add up to it; sizes are positive in the map. Nothing about legs is needed |
| `ClosedStaysClosed` | `closed_positions` only grows at its end | with `Inv`: an empty new book after an empty one is the only replacement that keeps `created` |
| `LegsAlwaysCoverSize` | the legs of a position hold as many units as its size says, under all three methods | the loop over the legs, a `FoldLeft`, splits its argument: after any number of legs, what it consumed, kept and still needs add up to what it was given |
| `TotalIsAlwaysSum` | the book's total is the sum of the open positions' unrealized profit | the sum over a function's domain with one element added, removed or changed (`FoldTheorems`) |
| `CashAddsUp`, `CashAddsUpByLegs` | what a position realized is what came out of it minus what went in | the cost of the legs left and of the legs consumed is that of all legs. For the weighted average the premise `[][WholeAverages]_vars`: no addition rounds (the model divides integers; the code divides decimals of 28 digits). FIFO and LIFO need none |
| `LegsAreLots` | under FIFO and LIFO the book implements `LotBook` | the legs are flattened into units (`LotsOf`); the fold takes the first units of its argument, LIFO gives it the legs turned round; one step of the book is one step of `LotBook` or a stutter |

### The engine (`EngineProofs`, `EngineAccountProofs`)

| theorem | says | argument |
| --- | --- | --- |
| `Typing` | the types of the engine's state | `Inv`: types, and no CloseAll is in progress outside its loop. Without the second part an execution could remove a position that the loop has yet to close |
| `Accounting` | the balance is the opening balance plus all realized profit minus all fees, in the middle of a step too | inductive with `Inv`: each action adds the same to both sides |
| `QueueIsOrdered` | the queue is ordered by execution index, and no entry waits for an index that has gone by | `QueueInv`: the entries lie between the index and the index plus the delay, and an appended one is last because it waits for the largest of them |
| `ExecutionDelay` | every signal is executed at the bar it was produced at plus the delay | with the above: what is due when the index reaches it is executed before the index moves. For delays of at least one bar |
| `Reporting` | the fills the snapshots report are the recorded ones, each once and in order | `reported` followed by `last_trades` is always `orders_history` |
| `NoMoreThanTheDelay` | a strategy that asks `is_long` before it opens never has more than `Delay + 1` long positions | the openings that wait are of different bars within the delay, and none is made once a position is open |
| `BreakoutNeverOpens` | the breakout strategy never asks for anything: a finding (see there), not something it should do | the close lies in a range that holds its own bar. Premise `BreakoutRuns`: low, close and high of a bar in order, a window of at least one bar, a threshold that is not negative (the code accepts a negative text, and then could open; a window of 0 panics) |
| `DaysAddUpAlways`, `FairEquity`, `ResultStory` | days, equity, result, trades and book tell one story | `AccountInv`: in each place of `step()`, which of the figures already include the trade under way; sums over positions, days and fills by `FoldTheorems` |
| `DrawdownIsTheLargestFall` | the drawdown is the largest fall of the curve from a point to a later one | the peak is the highest point and is one of them, the drawdown bounds every fall and is one of them; a new point falls deepest from the peak |
| `ChartsNeverRepaint` | what a client was answered of an indicator at one bar is the beginning of what it is answered at the next, an answer never turns into an error, and the newest value alone is the last of its series | each series is an average, or a fold, of values that depend on the bars up to their own: the same recursive function over a longer interval begins with the shorter one's values (`SameCourse`). Any bars, strategies, indicators and periods |
| `FillsWithinBar` | an order fills at a price of its bar, a limit order at no worse one than its limit | by cases of the orders. Premise: the close of a bar is between its low and its high (`Candle`) |
| `EngineKeepsTheBook` | the engine implements `PositionBook` | with `AccountInv`: opening, reducing, closing and marking a single-leg record is the same operation on the position it stands for, whatever the method; a reset is a new book. Assumes quantities and prices above zero, as the book's model does (the code checks neither) |

### The data pipeline (`DataProofs`, `ExchangeProofs`)

| theorem | says | argument |
| --- | --- | --- |
| `SingleFlight` | two calls never download the same range at the same time, and the key of a range none of whose calls was dropped is in the set exactly while a call is at work on it | `Guard`: `OneLeader`, the keys of dropped calls stay, and no call works on one of them; else a call that finishes would take out that key |
| `GapsAlwaysExact` | over every table the calls can fill, the gaps of a range are its moments in no stored bar, in order and apart | what has been joined, and what has been looked at, after any subset of the rows and ranges in the order of the fold; two exchanges' rows of one minute make ranges that overlap, and the loop looks past them |
| `MinutesStay` | the table holds bars of whole minutes only, unless OKX makes bars up | the others answer with bars the exchange has. OKX counts from the start of the window in milliseconds, so that a request that starts inside a minute gives bars that do, too |
| `NoGapIsLeft` | a call that did the work and returned Ok left no bar of its range behind | `WorkInv`: a bar that is due is stored, in the answer about to be inserted, or in the gaps that are left. Rows are never lost. Premise `WholeMinutes`: the exchange's bars and the first rows are of whole minutes (a row in between would hide a part of the bar that is due) |
| `VerifyCounts`, `VerifyCountsMinutes` | `verify_data` never understates what there is | each minute is in a gap of its first look, or in a row of the second; sums of gaps and counts of rows are cardinalities of sets of minutes. Premise: the table is of whole minutes, or (with `MinutesStay`) no OKX and `WholeMinutes` |
| `NoStaleAnswer` | an answer through the cache leaves no row out that was stored a time to live ago | `DataInv`: every entry, and what a call is about to write, was made from some rows, and the others of its range are no older than the entry; the two age alike. A call that wrote late would break it, were a tick possible between its query and its write |
| `AggregationAlwaysComposes` | bars of a longer interval are the same from raw bars and from bars of one that divides it, no volume is lost, and `get_latest_bar`, which reads one bucket again, returns one of them that is not before any closed one | a bar more, not before the others, goes into the last of the bars that are made or after it (`PushIs`); so each claim about a sequence follows from the same claim without its last bar, and the table, listed by its timestamps, is a sequence of such pushes. Premise `WholePrices`: prices and volumes are integers |
| `EnoughForItsCount` | a call that did the download, of a range long enough for its count and whole at the exchange, gets its bars unless an older answer was cached | the starts of as many intervals as were asked for lie in the range; each is a minute the exchange has, which the leader stored (`AskInv`, with `WorkInv`) and which is the timestamp of a bar of its own. Premises `WholeMinutes`, `WholePrices`, and `WholeIntervals`: timeframes are of whole minutes. For others it is false, see Findings |
| `ArchiveAlwaysKeeps` | of every table the calls can leave, written to files twice while it grew: each file that can be read is its month as one write found it, complete and by time; a failed write makes at most one unreadable; after one that returned Ok every row is read | a sequence by time has every row once, and the rows of one path are, in their order, such a sequence of their own; so `WriteIs` says of each file after a write that it is as before, torn (one at most), or holds its month |
| `PagesAreOneStep` | `fetch_ohlcv` with its pages implements `OneStepFetch` | the bars of a call between two pages are those of its range that open before the next page's start, in order and each once; a page is the first few of an ordered list. `Millis > 1`: with a unit of time of one millisecond the last page would start at the end and miss the bar that opens there |
| `OldBarsAreWhole` | a bar still under way comes only from a range that reaches into the present | a bar a call gets opens no later than its end and is whole one bar length after it opened, and the clock of the exchange does not go back before the call |
| `SymbolsAlwaysComeBack` | each known pair comes back from the format of each exchange, for the server too, and a request for bars is of the pair the user meant | a mark is no letter of a token, so a name is split where it was joined, and taken for a name without marks it is of no known tokens; a name without marks is parsed at the quote it was made with, since a longer quote at its end would end with that one (`QuoteAssumption`) |

### Server and page (`ApiProofs`, `FrontendProofs`)

| theorem | says | argument |
| --- | --- | --- |
| `BarsAreSentInOrder` | every bar of a backtest is sent once and in order over all sessions, and none is missing when the mutex is free | `Inv`: who has bars to send holds the mutex, its next bar is the engine's last one, and an id not answered for has sent nothing |
| `CompleteIsLast` | a session has a `complete` to send only when every bar was sent | the same `Inv`: a result to send is under the mutex, with all bars sent |
| `EnginesAreAccountedFor` | a backtest whose start was answered is in the map, with the one request that runs it, or was returned once | `RestInv`: the property, with the set of running requests finite, and starts under way have different ids that were told to nobody; so an id that is inserted is in no other place |
| `ProviderIsReturned` | the provider is missing only while a start is under way or after one that failed | `RestInv`: a start that has its bars has a provider to put back |
| `ChartStaysInOrder` | the chart never shows a bar of a backtest twice or after a later one | `PageInv`: only the page's own connection, once it is open, carries answers; they are in order, a snapshot followed by its own bar, and come after what the chart shows, but for the bar drawn last, and no request on its way is for an earlier backtest |

### How folds are proved

Induction theorems of the library take an operator as a parameter, which the provers cannot
instantiate. `FoldTheorems` gets along with sets: a set that holds zero and the successor of all it
holds is `Nat` (from `WFMin`, the least element of its complement), and likewise for the subsets of a
finite set taken apart in the order a fold picks elements. `SumFunction`, `FoldLeft` and
`MapThenFoldSet` are `CHOOSE`s of a function with a recursive equation; that one exists is proved
by such an induction, and what it computes by another. Therefore the totals of the models are
sums over functions and the loops are folds, and no module has a `RECURSIVE` operator. A running
average is a recursive function over an interval of bars: `IsCourse` says what its values are, and
`SameCourse` that a longer interval begins with the same. An ordered list of a set of integers
(`Ascending`) is looked at through `Ascends`, which says that it rises and has every element.

### Assumptions

The named assumptions of the modules are types and bounds that the runs satisfy. Those that say
more: `TimestampsAssumption` (`Engine`; `storage.rs:173` reads `ORDER BY timestamp ASC`, and the
aggregation keeps the order), finite first tables and types of rows (`FetcherAssumption`), prices
and quantities above zero (`PositionBook`, `EngineBook`), a time to live and a capacity of at least one
(`ProviderAssumption`), tokens without separators of which no quote ends with another
(`TokenAssumption` and `QuoteAssumption`, as the lists of `symbol.rs:46` are), and names that a user
writes in some exchange's way or in none, but not in the way of another pair (`RawsAssumption`).
`WatchedAssumption` and `ConfigsAssumption` are types. Prices and volumes that are integers stand for
decimals in their smallest unit; `\div` floors where Rust truncates, which is the same for times after 1970.

### Only model-checked

Liveness: `RunCompletes`, `CallsReturn`, `RequestsReturn`, `EverythingAnswered`, `PlayEnds`. Every
invariant and every action property of the runs is stated by a theorem.

Most of the engine's theorems are about `Engine!Spec`, with any strategy; a strategy of the catalogue
only takes away behaviours. `ChartsNeverRepaint`, `NoMoreThanTheDelay` and `BreakoutNeverOpens` are
about `StrategySpec`.

## Findings

Each of these two is a run that ends in a counterexample.

- `DocFetchOk`: a call of `ensure_data` that waited for another one returns Ok even when that one failed.
- `DocSeconds`: `ensure_data_inner` passes milliseconds, the Binance and Bybit adapters take seconds
  and multiply again: nothing is downloaded, and the call returns Ok.

Three more places where the code does not do what its comments say. The models follow the code and
are allowed to; no property states either side, so that a repair breaks none of them:

- The breakout strategy is "A volatility strategy that trades breakouts from price ranges." (`config.rs:280`)
  and has "OpenLong when price breaks above resistance" (`breakout.rs:40`). Its range is that of the last
  bars with the current one among them, no close is outside its own bar, and so it never trades.
  `BreakoutNeverOpens` proves that for all bars and all thresholds that are not negative.
- `fetcher.rs:142` says "Ensure cleanup on panic or early return.", but a call that is dropped or panics
  leaves its key in `in_progress`, and later calls for the range wait for ever. `OneLeader`
  speaks of the keys of ranges none of whose calls was dropped, `CallsReturn` of runs without one.
- `aggregation.rs:193` says "Return the most recent closed bar for a symbol / timeframe.", but
  `get_latest_bar` takes the bucket of the last raw bar, whether or not the bucket has all of its own.
  `AggregationComposes` only says that what it returns is not before any closed bar.

Noticed while modelling, and modelled as the code does it, without a run of its own:

Engine and book

- `reset()` leaves the strategy as it is (`backtest.rs:212`): after a reset AlwaysLong never trades again.
- CloseLong and CloseShort close the first of a `HashMap`'s values, of either direction
  (`backtest.rs:391`): with two positions open, two runs over the same data may differ (SPEC.md:535).
  ReduceLong ignores the amount it carries (`:367`; STRATEGY_GUIDE.md:215).
- The fill of a close names the signal's quantity, not the position's (`:401`). A CloseAll's
  profit is in no fill (`:423`), so profit factor, win rate and average trade leave it out. Opening
  fills count as trades in the win rate. A fee is charged even if nothing is executed (`:353`; SPEC.md:536).
- `margin_used` is released at the exit price and set to zero by any close (`:384`; API_SPEC.md:592),
  and `max_drawdown_pct` is that of the largest absolute drawdown (`:195`; API_SPEC.md:659).
- Positions are never liquidated (`position.rs:294`; `rust_core/tests/integration_test.rs:279`).
- Days are 86,400,000 long while the timestamps of bars are in seconds (`backtest.rs:201`), and the
  last day is never in the Sharpe ratio.
- A stop order fills at the bar's close, however far it is beyond the stop.

Strategies and indicators

- Strategies that ask `is_long` do not see a signal that waits, and with delay 1 open two positions.
- Parameters that arrive as JSON numbers, as the page sends them, give way to the defaults without a
  word where `create_*` wants text. A lookback of 0 panics.
- The timestamp of an indicator's last value is the index of a bar, that of a series' point a time.

Data

- Rows of two exchanges in one minute are both aggregated: the volume doubles, and the count of bars
  is satisfied by fewer minutes. An answer that was cached while a download went on makes later calls fail
  for as long as it lives.
- Bars are stored as confirmed while they are still forming, and `ON CONFLICT DO NOTHING` keeps them.
  `endTime` is inclusive, so a range brings the bar that opens at its end.
- The doc of `StandardBar.symbol` writes "BTC-USDT", the normaliser "BTC/USDT".
- A timeframe that is not of whole minutes (`TimeFrame::parse` takes any number of seconds) may make fewer
  bars than were asked for of a range that is whole: from second 3601 to 3723 with 61 seconds, the minutes 3660
  and 3720 fall into one bucket, and a count of 2 is refused.
- A timeframe that does not parse, with an explicit start and no end, is noticed after the download.
- `write_bars` replaces the file of a month: a write of newer bars alone loses the older ones, and an
  error in between leaves an empty file.

Server and frontend

- A failing or dropped start loses the data provider; the next start makes a new one (`server.rs:308`).
  A result can be asked for once: the second request is answered 404 (`server.rs:444`), and the 202 of
  API_SPEC.md:214 never is.
- A start over fewer than 100 bars always fails: the count is clamped (`server.rs:303`) and
  `get_bars` wants that many.
- A socket that was closed by hand and reports its close after a reset makes the page schedule a
  reconnect, which may leave an attempt to connect without an owner; `disconnect` clears only the last timer.
- `reset` keeps `ws.backtestId`, so that a connection made anew subscribes to the old backtest; the panel
  takes the last snapshot for the end, so that the `complete` message is rarely shown; a change of speed
  while playing does not change the interval.

## Not modelled

- Maintenance margin and the margin ratio: single formulas nothing calls. `margin_used` has no
  property of its own, for the code lets it drift.
- `submit_order` of the server, which fills an order at a price of its own and keeps nothing, and the
  lists of strategies.
- Signals, trades and settings of the page's store (assignments), rendering, and the chart's layout.
- Schema creation, configuration, logging, HTTP details; the process's start, scripts, migrations, CI.
- Widths of numbers: prices are `Decimal`s, and times are 64-bit seconds far from their limits.

## Plan

Done: the order book and its abstract lots, the engine with strategies, indicators, orders and
results, the fetcher, the adapters, the provider with cache and aggregation, the server and the
page, each with its runs; theorems for every safety property of the runs, and the three
refinements. Left, in this order:

1. The page composed with `ApiServer` instead of a session of its own.
2. `submit_order`, and the store's signals and trades.
