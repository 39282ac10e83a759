---------------------------- MODULE DataFetcher -----------------------------
(***************************************************************************)
(* DataFetcher of rust_core/crates/data_pipeline/src/fetcher.rs, with the  *)
(* table of one symbol behind it (storage.rs): ensure_data, called         *)
(* concurrently, with its set of ranges in progress, and verify_data.      *)
(*                                                                         *)
(* Every action is what a task does from one await to the next.  The two   *)
(* short critical sections on in_progress are part of the action that      *)
(* follows the lock.  The exchange is external: it has the bars Market.    *)
(* What an adapter makes of the window it is asked for is exchange.rs, but *)
(* for the custom one, external too, which takes it as the fetcher means   *)
(* it, in milliseconds.                                                    *)
(***************************************************************************)
EXTENDS Ranges

CONSTANTS Callers,      \* tasks that share the fetcher
          Requests,     \* the ranges they ask for: [start, end]
          Market,       \* timestamps of the bars the exchange has
          Adapters,     \* the adapters to look at: "binance", "okx" or "custom"
          Exchanges,    \* whose rows the table may hold
          Millis,       \* milliseconds of a unit of time: 1000
          FirstRows,    \* what the table may hold at the start
          MaxMissing,   \* most missing bars that are fetched: 10_000
          MaxCalls,     \* calls in a behaviour (bounds the model)
          MaxFaults,    \* errors of the exchange and the database (bounds the model)
          MaxDrops      \* calls that are dropped or panic (bounds the model)

ASSUME FetcherAssumption ==
  /\ Requests \subseteq [start : Int, end : Int]
  /\ Market \subseteq Int
  /\ Adapters \subseteq {"binance", "okx", "custom"} /\ Adapters \subseteq Exchanges
  /\ Millis \in Nat \ {0}
  /\ FirstRows \subseteq SUBSET [timestamp : Int, exchange : Exchanges]
  /\ \A stored \in FirstRows : IsFiniteSet(stored)
  /\ {MaxMissing, MaxCalls, MaxFaults, MaxDrops} \subseteq Nat

VARIABLES rows,          \* table ohlcv_1m: a set of [timestamp, exchange]
          adapter,       \* the exchange adapter of the fetcher, by its name
          in_progress,   \* HashSet of keys; the key is the request
          pc,            \* caller -> where it is in ensure_data or verify_data
          request,       \* caller -> what it was called with
          gaps,          \* caller -> missing ranges still to fetch
          fetched,       \* caller -> the adapter's answer, about to be inserted
          result,        \* caller -> what its last call returned
          led,           \* caller -> its last call did the work itself (history)
          integrity,     \* caller -> what its last verify_data found
          calls,         \* how many calls there were
          faults,        \* how many errors
          dropped        \* keys of the calls that were dropped or panicked (history)

world == <<rows, adapter>>
task  == <<request, gaps, fetched, result, led, integrity>>
count == <<calls, faults, dropped>>
vars  == <<world, in_progress, pc, task, count>>

Row == [timestamp : Int, exchange : Exchanges]
NoRequest == [start |-> 0, end |-> 0]
NoReport == [expected |-> 0, actual |-> 0, segments |-> 0, missing |-> 0]

\* Where a call holds a key of in_progress.
Working == {"planning", "fetching", "inserting", "finishing"}

Init ==
  /\ rows \in FirstRows /\ adapter \in Adapters
  /\ in_progress = {}
  /\ pc = [c \in Callers |-> "idle"]
  /\ request = [c \in Callers |-> NoRequest]
  /\ gaps = [c \in Callers |-> << >>]
  /\ fetched = [c \in Callers |-> {}]
  /\ result = [c \in Callers |-> "none"]
  /\ led = [c \in Callers |-> FALSE]
  /\ integrity = [c \in Callers |-> NoReport]
  /\ calls = 0 /\ faults = 0 /\ dropped = {}

\* A slip for the mutants: the key is inserted whether or not it is there.
LeadBlind(c, r) ==
  /\ pc[c] = "idle" /\ calls < MaxCalls
  /\ calls' = calls + 1
  /\ request' = [request EXCEPT ![c] = r]
  /\ result' = [result EXCEPT ![c] = "none"]
  /\ in_progress' = in_progress \cup {r}
  /\ led' = [led EXCEPT ![c] = TRUE]
  /\ pc' = [pc EXCEPT ![c] = "planning"]
  /\ UNCHANGED <<world, gaps, fetched, integrity, faults, dropped>>

\* ensure_data: the first call for a key inserts it and does the work, any other waits.
Call(c, r) ==
  /\ pc[c] = "idle" /\ calls < MaxCalls
  /\ calls' = calls + 1
  /\ request' = [request EXCEPT ![c] = r]
  /\ result' = [result EXCEPT ![c] = "none"]
  /\ integrity' = [integrity EXCEPT ![c] = NoReport]
  /\ UNCHANGED <<world, fetched, faults, dropped>>

Lead(c, r) ==
  /\ Call(c, r)
  /\ r \notin in_progress
  /\ in_progress' = in_progress \cup {r}
  /\ led' = [led EXCEPT ![c] = TRUE]
  /\ pc' = [pc EXCEPT ![c] = "planning"]
  /\ UNCHANGED gaps

Follow(c, r) ==
  /\ Call(c, r)
  /\ r \in in_progress
  /\ led' = [led EXCEPT ![c] = FALSE]
  /\ pc' = [pc EXCEPT ![c] = "waiting"]
  /\ UNCHANGED <<in_progress, gaps>>

\* A waiting call looks every 100 ms whether the key is gone, and returns Ok.
Poll(c) ==
  /\ pc[c] = "waiting"
  /\ request[c] \notin in_progress
  /\ pc' = [pc EXCEPT ![c] = "idle"]
  /\ result' = [result EXCEPT ![c] = "Ok"]
  /\ UNCHANGED <<world, in_progress, request, gaps, fetched, led, integrity, count>>

\* ensure_data_inner ends, with its result.
EndsWith(c, res) ==
  /\ pc' = [pc EXCEPT ![c] = "finishing"]
  /\ result' = [result EXCEPT ![c] = res]

\* The missing ranges, as a set of one sequence; query_data_ranges and what they decide.
Missing(r) == UNION {{CalculateGaps(r.start, r.end, existing)} : existing \in {DataRanges(rows)}}

Plan(c) ==
  /\ pc[c] = "planning"
  /\ \E missing \in Missing(request[c]) :
         \/ missing = << >> /\ EndsWith(c, "Ok") /\ UNCHANGED gaps
         \/ MissingBars(missing) > MaxMissing /\ EndsWith(c, "TooMuch") /\ UNCHANGED gaps
         \/ /\ missing # << >> /\ MissingBars(missing) <= MaxMissing
            /\ gaps' = [gaps EXCEPT ![c] = missing]
            /\ pc' = [pc EXCEPT ![c] = "fetching"]
            /\ UNCHANGED result
  /\ UNCHANGED <<world, in_progress, request, fetched, led, integrity, count>>

\* A slip for the mutants: the loop ends after its first range.
NextRangeStops(c) == gaps' = [gaps EXCEPT ![c] = << >>] /\ EndsWith(c, "Ok")

\* The loop over the missing ranges goes on, or ends with Ok.
NextRange(c) ==
  /\ gaps' = [gaps EXCEPT ![c] = Tail(@)]
  /\ IF Len(gaps[c]) > 1 THEN pc' = [pc EXCEPT ![c] = "fetching"] /\ UNCHANGED result
     ELSE EndsWith(c, "Ok")

\* The window of a gap as fetch_ohlcv gets it, in milliseconds.
Window(gap) == [start |-> Millis * gap.start, end |-> Millis * gap.end]

\* BinanceAdapter (and BybitAdapter) takes the window for one in seconds and asks, page
\* by page, for the bars that open in it.
Paginated(window) == {t \in Market : window.start <= t /\ t <= window.end}

\* OKXAdapter makes bars up, one for each BarLength of the window.
Synthetic(window) ==
  {window.start + i * BarLength : i \in 0 .. (window.end - window.start) \div BarLength - 1}

\* Of a custom adapter that knows milliseconds: the bars of the window; some include the
\* bar that opens at its end.
InMillis(window) ==
  {{t \in Market : window.start <= Millis * t /\ Millis * t <= last} :
     last \in {window.end - 1, window.end}}

\* What fetch_ohlcv may return for a gap.
Answers(gap) ==
  CASE adapter = "binance" -> {Paginated(Window(gap))}
    [] adapter = "okx"     -> {Synthetic(Window(gap))}
    [] adapter = "custom"  -> InMillis(Window(gap))

\* fetch_ohlcv returned: an empty answer is skipped.
Fetch(c) ==
  /\ pc[c] = "fetching"
  /\ \E bars \in Answers(Head(gaps[c])) :
       IF bars = {} THEN NextRange(c) /\ UNCHANGED fetched
       ELSE /\ fetched' = [fetched EXCEPT ![c] = bars]
            /\ pc' = [pc EXCEPT ![c] = "inserting"]
            /\ UNCHANGED <<gaps, result>>
  /\ UNCHANGED <<world, in_progress, request, led, integrity, count>>

\* insert_bars commits: one transaction, ON CONFLICT DO NOTHING.
Insert(c) ==
  /\ pc[c] = "inserting"
  /\ rows' = rows \cup {[timestamp |-> t, exchange |-> adapter] : t \in fetched[c]}
  /\ fetched' = [fetched EXCEPT ![c] = {}]
  /\ NextRange(c)
  /\ UNCHANGED <<adapter, in_progress, request, led, integrity, count>>

\* The database or the exchange returns an error: `?` ends ensure_data_inner.
Fail(c) ==
  /\ pc[c] \in {"planning", "fetching", "inserting"} /\ faults < MaxFaults
  /\ faults' = faults + 1
  /\ gaps' = [gaps EXCEPT ![c] = << >>]
  /\ fetched' = [fetched EXCEPT ![c] = {}]
  /\ EndsWith(c, "Err")
  /\ UNCHANGED <<world, in_progress, request, led, integrity, calls, dropped>>

\* A slip for the mutants: an error returns before the key is removed.
FinishIfOk(c) ==
  /\ pc[c] = "finishing"
  /\ in_progress' = IF result[c] = "Ok" THEN in_progress \ {request[c]} ELSE in_progress
  /\ pc' = [pc EXCEPT ![c] = "idle"]
  /\ UNCHANGED <<world, task, count>>

\* The key is removed and the result returned.
Finish(c) ==
  /\ pc[c] = "finishing"
  /\ in_progress' = in_progress \ {request[c]}
  /\ pc' = [pc EXCEPT ![c] = "idle"]
  /\ UNCHANGED <<world, task, count>>

\* The future is dropped at an await, or the adapter panics: nothing after it runs.
Drop(c) ==
  /\ pc[c] \in Working \cup {"waiting"} /\ Cardinality(dropped) < MaxDrops
  /\ dropped' = dropped \cup (IF pc[c] = "waiting" THEN {} ELSE {request[c]})
  /\ pc' = [pc EXCEPT ![c] = "idle"]
  /\ gaps' = [gaps EXCEPT ![c] = << >>]
  /\ fetched' = [fetched EXCEPT ![c] = {}]
  /\ result' = [result EXCEPT ![c] = "none"]
  /\ UNCHANGED <<world, in_progress, request, led, integrity, calls, faults>>

\* verify_data reads the ranges, and then counts the bars from start to end, both
\* included: rows may be inserted in between.
Verify(c, r) ==
  /\ Call(c, r)
  /\ \E missing \in Missing(r) : gaps' = [gaps EXCEPT ![c] = missing]
  /\ pc' = [pc EXCEPT ![c] = "verifying"]
  /\ led' = [led EXCEPT ![c] = FALSE]
  /\ UNCHANGED in_progress

Report(c) ==
  /\ pc[c] = "verifying"
  /\ integrity' =
       [integrity EXCEPT ![c] =
          [expected |-> Bigger((request[c].end - request[c].start) \div BarLength, 0),
           actual   |-> Cardinality({row \in rows : /\ request[c].start <= row.timestamp
                                                   /\ row.timestamp <= request[c].end}),
           segments |-> Len(gaps[c]),
           missing  |-> MissingBars(gaps[c])]]
  /\ gaps' = [gaps EXCEPT ![c] = << >>]
  /\ pc' = [pc EXCEPT ![c] = "idle"]
  /\ UNCHANGED <<world, in_progress, request, fetched, result, led, count>>

Step(c) == Poll(c) \/ Plan(c) \/ Fetch(c) \/ Insert(c) \/ Finish(c) \/ Report(c)

Next ==
  \E c \in Callers :
    \/ \E r \in Requests : Lead(c, r) \/ Follow(c, r) \/ Verify(c, r)
    \/ Step(c)
    \/ Fail(c)
    \/ Drop(c)

Spec == Init /\ [][Next]_vars

\* The runtime polls every task that can go on, and an exchange and a database answer.
FairSpec == Spec /\ \A c \in Callers : WF_vars(Step(c))

-----------------------------------------------------------------------------
\* Properties

\* Types of the fetcher's state.
TypeOK ==
  /\ rows \subseteq Row
  /\ in_progress \subseteq Requests
  /\ pc \in [Callers -> Working \cup {"idle", "waiting", "verifying"}]
  /\ request \in [Callers -> Requests \cup {NoRequest}]
  /\ \A c \in Callers : gaps[c] \in Seq([start : Int, end : Int])
  /\ \A c \in Callers : adapter # "okx" => fetched[c] \subseteq Market
  /\ result \in [Callers -> {"none", "Ok", "Err", "TooMuch"}]
  /\ led \in [Callers -> BOOLEAN]
  /\ dropped \subseteq Requests

\* The concurrency guard of ensure_data: a range is downloaded by one call at a time, and
\* the key of a range none of whose calls was dropped is in the set exactly while a call is
\* at work on it, however that call ends.  (What becomes of the key of a call that was
\* dropped is not said: the code leaves it, a comment of the code would have it removed.)
Held == {request[c] : c \in {d \in Callers : pc[d] \in Working}}

OneLeader ==
  /\ \A c, d \in Callers :
       pc[c] \in Working /\ pc[d] \in Working /\ request[c] = request[d] => c = d
  /\ \A r \in Requests \ dropped : r \in in_progress <=> r \in Held

\* calculate_gaps, over every table the calls can produce: the gaps of a range are its
\* moments in no stored bar, whatever overlaps the rows of several exchanges make.
GapsAreExact ==
  \A r \in Requests :
    GapsOf(rows, r.start, r.end, CalculateGaps(r.start, r.end, DataRanges(rows)))

\* Bars of the exchange in a range are in the table.
Covered(r) ==
  \A t \in Market : r.start <= t /\ t < r.end => \E row \in rows : row.timestamp = t

\* A call that did the work and returned Ok left no bar of its range behind, whichever
\* gaps were empty, whatever other calls inserted meanwhile, if the adapter knows the
\* unit of the window.
LeaderStores ==
  \A c \in Callers : led[c] /\ pc[c] = "idle" /\ result[c] = "Ok" => Covered(request[c])

LeaderLeavesNoGap == adapter = "custom" => LeaderStores

\* verify_data never finds less than there is to find, though it reads the table twice:
\* of a range of whole minutes, each expected bar is among the missing or the actual ones.
VerifyMissesNothing ==
  \A c \in Callers :
    request[c].start % BarLength = 0 /\ request[c].end % BarLength = 0 =>
      integrity[c].missing + integrity[c].actual >= integrity[c].expected

\* Of finitely many calls every one returns, waiting ones too, unless the leader of some
\* range was dropped.  (A waiting call only polls: without end, calls for its range could
\* keep the key in the set whenever it looks.)
CallsReturn ==
  \A c \in Callers : pc[c] # "idle" ~> (pc[c] = "idle" \/ dropped # {})

\* exchange.rs says of the window of fetch_with_pagination "Unix timestamp in SECONDS": with
\* that adapter, too, a call that did the work stores what the exchange has.
PaginationGetsSeconds == adapter = "binance" => LeaderStores

\* fetcher.rs says of ensure_data "Ensure that data for `symbol` exists between `start`
\* and `end`": when a call returned Ok, the bars the exchange has are stored.
OkMeansStored ==
  \A c \in Callers : pc[c] = "idle" /\ result[c] = "Ok" => Covered(request[c])
=============================================================================
