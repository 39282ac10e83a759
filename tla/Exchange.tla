------------------------------ MODULE Exchange ------------------------------
(***************************************************************************)
(* The adapters that page through an exchange's REST interface, Binance's  *)
(* and Bybit's of rust_core/crates/data_pipeline/src/exchange.rs:          *)
(* fetch_ohlcv with its pages, errors and the rate limiter that the tasks  *)
(* of an adapter share, and fetch_symbols.  The exchange is external: it   *)
(* answers a page with the oldest bars of the range that have opened, in   *)
(* order, as the mock servers of the tests do, the last of them perhaps    *)
(* still under way.                                                        *)
(***************************************************************************)
EXTENDS Integers, SequencesExt, FiniteSetsExt, Symbols, SortedSets

CONSTANTS Tasks,       \* callers that share an adapter
          Adapters,    \* of "binance" and "bybit"
          Pairs,       \* what is asked for: [base, quote]
          Raws(_),     \* pair -> the names a user may write for it
          Ranges,      \* ... and the ranges: [start, end], in seconds
          Intervals,   \* ... and the intervals, in seconds
          Opens,       \* when the exchange's bars open
          BarLength,   \* seconds to the end of a bar
          Millis,      \* milliseconds of a second: 1000
          Limit,       \* bars of a page: 1000 or 200
          MinInterval, \* ticks between two requests: 50 ms
          Horizon,     \* last moment of the exchange's clock (bounds the model)
          MaxAsks,     \* calls in a behaviour (bounds the model)
          MaxErrors    \* replies that are errors (bounds the model)

ASSUME ExchangeAssumption ==
  /\ Adapters \subseteq {"binance", "bybit"} /\ Pairs \subseteq Pair
  /\ Ranges \subseteq [start : Int, end : Int] /\ Opens \subseteq Int
  /\ {BarLength, Limit} \subseteq Nat \ {0} /\ Millis \in Nat \ {0, 1}
  /\ {MinInterval, Horizon, MaxAsks, MaxErrors} \subseteq Nat

\* A pair is written with a separator of some exchange or with none, or in a way that no
\* exchange's format knows; it is not the name of another pair.
ASSUME RawsAssumption ==
  \A pair \in Pairs : \A raw \in Raws(pair) :
    \/ \E separator \in {<< >>, <<"/">>, <<"-">>} : raw = pair.base \o separator \o pair.quote
    \/ \A exchange \in ToSet(Priority) : Normalize(raw, exchange) = {}

VARIABLES adapter,   \* its name
          now,       \* the exchange's clock, in seconds
          elapsed,   \* ticks since the last request, at most MinInterval
          waiting,   \* tasks in acquire, the first of which holds the mutex
          at,        \* task -> "idle", "acquiring" or "sent"
          request,   \* task -> what it was called with
          current,   \* task -> current_start_ms
          all_bars,  \* task -> the bars of the pages so far
          answer,    \* task -> what its last call returned
          since,     \* task -> when it was called, and for a range up to when (history)
          asks, errors

clocks  == <<adapter, now>>
limiter == <<elapsed, waiting>>
call    == <<at, request, current, all_bars, answer, since>>
vars    == <<clocks, limiter, call, asks, errors>>

NoRange == [start |-> 0, end |-> 0]
NoRequest == [kind |-> "none", name |-> << >>, pair |-> << >>, range |-> NoRange]
Answer(kind, bars) == [kind |-> kind, bars |-> bars]
NoAnswer == Answer("none", << >>)

Init ==
  /\ adapter \in Adapters /\ now = 0
  /\ elapsed = MinInterval /\ waiting = << >>
  /\ at = [c \in Tasks |-> "idle"]
  /\ request = [c \in Tasks |-> NoRequest]
  /\ current = [c \in Tasks |-> 0]
  /\ all_bars = [c \in Tasks |-> << >>]
  /\ answer = [c \in Tasks |-> NoAnswer]
  /\ since = [c \in Tasks |-> [now |-> 0, end |-> 0]]
  /\ asks = 0 /\ errors = 0

\* The call returns.
Return(c, a) ==
  /\ answer' = [answer EXCEPT ![c] = a]
  /\ at' = [at EXCEPT ![c] = "idle"]
  /\ request' = [request EXCEPT ![c] = NoRequest]
  /\ current' = [current EXCEPT ![c] = 0]
  /\ all_bars' = [all_bars EXCEPT ![c] = << >>]

Called(c, end) ==
  /\ at[c] = "idle" /\ asks < MaxAsks
  /\ asks' = asks + 1
  /\ since' = [since EXCEPT ![c] = [now |-> now, end |-> end]]
  /\ UNCHANGED <<clocks, elapsed, errors>>

\* A call with its first request before it, which is to wait for the rate limiter.
Begins(c, r, start) ==
  /\ at' = [at EXCEPT ![c] = "acquiring"]
  /\ request' = [request EXCEPT ![c] = r]
  /\ current' = [current EXCEPT ![c] = start]
  /\ answer' = [answer EXCEPT ![c] = NoAnswer]
  /\ waiting' = Append(waiting, c)
  /\ UNCHANGED all_bars

\* secs_to_interval of the one and of the other.
BybitIntervals == {60, 300, 900, 1800, 3600, 7200, 14400, 86400, 604800}

BinanceIntervals == BybitIntervals \cup {180, 21600, 28800, 43200, 259200}

Supported == [binance |-> BinanceIntervals, bybit |-> BybitIntervals]

\* The engine's symbol is made of what the user wrote, the exchange's name of that; none
\* when the exchange does not know it.
Names == [e \in Adapters |-> [raw \in UNION {Raws(pair) : pair \in Pairs} |->
                                Denormalize(EngineSymbol(raw), e)]]

\* Neither the symbol nor the interval may be new to the exchange.
Refused(names, interval) == names = {} \/ interval \notin Supported[adapter]

\* fetch_ohlcv: an empty range is answered at once, before anything else is looked at.
Asked(c, pair, raw, range, interval) ==
  /\ Called(c, range.end)
  /\ LET names == Names[adapter][raw]
     IN  \/ /\ range.start >= range.end
            /\ Return(c, Answer("Ok", << >>)) /\ UNCHANGED waiting
         \/ /\ range.start < range.end /\ Refused(names, interval)
            /\ Return(c, Answer("Err", << >>)) /\ UNCHANGED waiting
         \/ /\ range.start < range.end /\ ~Refused(names, interval)
            /\ \E name \in names :
                 Begins(c, [kind |-> "bars", name |-> name, range |-> range,
                            pair |-> Standard(pair.base, pair.quote)],
                        Millis * range.start)

\* fetch_symbols asks once; its answer is a list of names that nothing reads.
AskedSymbols(c) ==
  /\ Called(c, 0)
  /\ Begins(c, [NoRequest EXCEPT !.kind = "symbols"], 0)

\* acquire: the mutex is kept until the time between two requests is over.
Acquire(c) ==
  /\ waiting # << >> /\ Head(waiting) = c
  /\ elapsed = MinInterval
  /\ elapsed' = 0 /\ waiting' = Tail(waiting)
  /\ at' = [at EXCEPT ![c] = "sent"]
  /\ UNCHANGED <<clocks, request, current, all_bars, answer, since, asks, errors>>

\* A slip for the mutants: the end of the range is not sent.
PageOfAll(c) ==
  LET open == {t \in Opens : t <= now /\ current[c] <= Millis * t}
      sorted == Ascending(open)
  IN  SubSeq(sorted, 1, Min({Limit, Len(sorted)}))

\* The exchange's answer: bars that open from startTime to endTime, both included.
Page(c) ==
  LET open == {t \in Opens : /\ t <= now /\ current[c] <= Millis * t
                             /\ t <= request[c].range.end}
      sorted == Ascending(open)
  IN  SubSeq(sorted, 1, Min({Limit, Len(sorted)}))

\* What parse_kline_item makes of a bar: it is whole when its time is over.
Parsed(times) == [i \in DOMAIN times |-> [timestamp |-> times[i],
                                          whole |-> times[i] + BarLength <= now]]

\* fetch_page, when there is a page: every bar of it.
FetchPage(c) == Parsed(Page(c))

\* A slip for the mutants: the next page starts a bar later.
NextStartLate(t) == Millis * (t + BarLength) + 1

\* The next page starts a millisecond after the last bar opened.
NextStart(t) == Millis * t + 1

\* An empty page, or a start past the end, ends the loop.
MorePages(c, page) ==
  page # << >> /\ NextStart(Last(page).timestamp) < Millis * request[c].range.end

\* A page is there: the next one is asked for, or the call returns them all.
Receive(c) ==
  /\ at[c] = "sent" /\ request[c].kind = "bars"
  /\ \E page \in {FetchPage(c)} :
       LET all == all_bars[c] \o page
       IN  \/ /\ MorePages(c, page)
              /\ all_bars' = [all_bars EXCEPT ![c] = all]
              /\ current' = [current EXCEPT ![c] = NextStart(Last(page).timestamp)]
              /\ at' = [at EXCEPT ![c] = "acquiring"]
              /\ waiting' = Append(waiting, c)
              /\ UNCHANGED <<request, answer>>
           \/ /\ ~MorePages(c, page)
              /\ Return(c, Answer("Ok", all)) /\ UNCHANGED waiting
  /\ UNCHANGED <<clocks, elapsed, since, asks, errors>>

ReceiveSymbols(c) ==
  /\ at[c] = "sent" /\ request[c].kind = "symbols"
  /\ Return(c, NoAnswer)
  /\ UNCHANGED <<clocks, limiter, since, asks, errors>>

\* A reply that ends the call: the pages before it are lost.
Fails(c) ==
  /\ at[c] = "sent" /\ errors < MaxErrors
  /\ errors' = errors + 1
  /\ Return(c, Answer("Err", << >>))
  /\ UNCHANGED <<clocks, limiter, since, asks>>

\* No connection, a status that is not a success (429 too: nothing is tried again), or a
\* body that is not what it should be.
Error(c) == Fails(c)

\* parse_kline_item cannot read one of the page's bars.
Unreadable(c) == request[c].kind = "bars" /\ Page(c) # << >> /\ Fails(c)

\* A slip for the mutants: a caller that is dropped keeps its place.
DropInPlace(c) ==
  /\ at[c] # "idle"
  /\ Return(c, NoAnswer)
  /\ UNCHANGED <<clocks, limiter, since, asks, errors>>

\* The future is dropped; in acquire, it leaves the mutex or the queue for it.
Drop(c) ==
  /\ at[c] # "idle"
  /\ Return(c, NoAnswer)
  /\ waiting' = SelectSeq(waiting, LAMBDA d : d # c)
  /\ UNCHANGED <<clocks, elapsed, since, asks, errors>>

Tick == elapsed < MinInterval /\ elapsed' = elapsed + 1
        /\ UNCHANGED <<clocks, waiting, call, asks, errors>>

\* The exchange's clock goes on.
Pass == now < Horizon /\ now' = now + 1 /\ UNCHANGED <<adapter, limiter, call, asks, errors>>

Next ==
  \/ \E c \in Tasks :
       \/ \E pair \in Pairs, range \in Ranges, interval \in Intervals :
            \E raw \in Raws(pair) : Asked(c, pair, raw, range, interval)
       \/ AskedSymbols(c)
       \/ Acquire(c) \/ Receive(c) \/ ReceiveSymbols(c)
       \/ Error(c) \/ Unreadable(c) \/ Drop(c)
  \/ Tick
  \/ Pass

Spec == Init /\ [][Next]_vars

\* Timers fire, the runtime polls its tasks, and an exchange replies.
FairSpec ==
  /\ Spec
  /\ WF_vars(Tick)
  /\ \A c \in Tasks : WF_vars(Acquire(c)) /\ WF_vars(Receive(c) \/ ReceiveSymbols(c))

-----------------------------------------------------------------------------
\* Properties

\* fetch_with_pagination, while other tasks take their turns at the limiter and new bars
\* open: the pages together are what one request without a limit would have brought at the
\* end of the call, each bar once and in order.  So the fetcher may take fetch_ohlcv for
\* one step.
OneStep ==
  INSTANCE OneStepFetch
    WITH asking <- [c \in Tasks |-> request[c].range],
         answered <- [c \in Tasks |->
                        [kind |-> answer[c].kind,
                         times |-> [i \in DOMAIN answer[c].bars |->
                                      answer[c].bars[i].timestamp]]]

FetchIsOneStep == OneStep!FetchSpec

\* The symbols of the bars, through parse_engine_config, denormalize and normalize: they
\* are of the pair the user meant, whichever exchange's way of writing it was used; and
\* so for every known pair and exchange.
SymbolsComeBack ==
  /\ \A c \in Tasks :
       request[c].kind = "bars" => Normalize(request[c].name, adapter) = {request[c].pair}
  /\ RoundTrips

\* Bars that are not whole, which the table keeps as they are: only a call for a range that
\* reaches into the bar it was made in brings one.
WholeUnlessRecent ==
  \A c \in Tasks : \A bars \in {answer[c].bars, all_bars[c]} : \A i \in DOMAIN bars :
    ~bars[i].whole => since[c].now < since[c].end + BarLength

\* Whoever else waits for the limiter, fails or is dropped: every call returns.
RequestsReturn == \A c \in Tasks : at[c] # "idle" ~> at[c] = "idle"
=============================================================================
