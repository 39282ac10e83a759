----------------------------- MODULE MarketData -----------------------------
(***************************************************************************)
(* BacktestDataProvider of rust_core/crates/data_pipeline/src/backtest.rs: *)
(* get_bars makes a range of times, has the fetcher store its bars, and    *)
(* aggregates what is stored, through the cache of AggregationEngine       *)
(* (aggregation.rs, cache.rs).  Its calls run concurrently over one        *)
(* fetcher, module DataFetcher, and one cache, and others read through the *)
(* cache without the fetcher.                                              *)
(*                                                                         *)
(* A call goes from await to await: the fetcher's steps, the look into the *)
(* cache, the query, the write to the cache.  Time passes in ticks, long   *)
(* against the time of a query.                                            *)
(***************************************************************************)
EXTENDS DataFetcher, Aggregation

CONSTANTS Configs,     \* the BacktestConfigs of the calls
          Presents,    \* what the clock may read, in seconds
          Content(_),  \* row -> its prices and its volume
          Backends,    \* cache providers: "memory", "redis"
          Capacity,    \* entries of the cache in memory: 1000
          Ttl          \* ticks an entry may be read for: 3600 s

ASSUME ProviderAssumption == {Capacity, Ttl} \subseteq Nat \ {0} /\ Backends \subseteq {"memory", "redis"}

ASSUME ConfigsAssumption ==
  /\ Configs \subseteq [interval : Nat, count : Nat, start : Int, end : Int,
                        source : {"real", "synthetic"}, max : Nat]
  /\ Presents \subseteq Int

VARIABLES backend,   \* the cache provider
          cache,     \* its entries [key, bars, age], the last used first
          stored,    \* row -> ticks since it was inserted, at most Ttl (history)
          stage,     \* caller -> where it is in get_bars
          config,    \* caller -> what it was called with
          key,       \* caller -> the cache key of its call
          bars,      \* caller -> what it read from the table, aggregated
          answer     \* caller -> what its last call returned, and how

dataVars == <<backend, cache, stored, stage, config, key, bars, answer>>
allVars  == <<vars, dataVars>>

NoTime == -1
NoConfig == [interval |-> 0, count |-> 0, start |-> NoTime, end |-> NoTime,
             source |-> "none", max |-> 0]
NoKey == [interval |-> 0, start |-> 0, end |-> 0]
Answer(kind, seq, cached) == [kind |-> kind, bars |-> seq, cached |-> cached]
NoAnswer == Answer("none", << >>, FALSE)

DataInit ==
  /\ Init
  /\ backend \in Backends /\ cache = << >>
  /\ stored = [row \in rows |-> Ttl]
  /\ stage = [c \in Callers |-> "none"]
  /\ config = [c \in Callers |-> NoConfig]
  /\ key = [c \in Callers |-> NoKey]
  /\ bars = [c \in Callers |-> << >>]
  /\ answer = [c \in Callers |-> NoAnswer]

-----------------------------------------------------------------------------
\* calculate_time_range

Parses(cfg) == cfg.interval > 0
End(cfg, present) == IF cfg.end = NoTime THEN present ELSE cfg.end
CountBack(cfg, end) == end - cfg.count * cfg.interval

\* The ranges a config may get, none if it is refused.  An explicit start is only looked
\* at together with the count when the end is explicit, too.
TimeRange(cfg, present) ==
  LET end == End(cfg, present)
      Within(start) == {[start |-> start, end |-> end]}
  IN  IF cfg.start # NoTime
      THEN CASE cfg.start >= end -> {}
             [] cfg.count > 0 /\ cfg.end # NoTime ->
                  IF Parses(cfg) THEN Within(Bigger(cfg.start, CountBack(cfg, end))) ELSE {}
             [] OTHER -> Within(cfg.start)
      ELSE IF ~Parses(cfg) \/ cfg.count > cfg.max THEN {}
           ELSE Within(CountBack(cfg, end))

\* generate_synthetic_bars: the times of the bars it makes up; prices are left out.
SyntheticBars(cfg, range) ==
  [i \in 1 .. Bigger((range.end - range.start) \div cfg.interval, 0) |->
     [timestamp |-> range.start + (i - 1) * cfg.interval]]

-----------------------------------------------------------------------------
\* MemoryCacheProvider and RedisCacheProvider

At(k) == {i \in DOMAIN cache : cache[i].key = k}
Others(k) == RemoveFirstMatch(cache, LAMBDA entry : entry.key = k)
Entry(k, seq) == << [key |-> k, bars |-> seq, age |-> 0] >>

\* MemoryCacheProvider::get: an entry that is younger than the time to live becomes the
\* last used, one that is not is removed.
MemoryHit(k, entry) ==
  \E i \in At(k) : /\ entry = cache[i] /\ entry.age < Ttl
                   /\ cache' = << entry >> \o RemoveAt(cache, i)
MemoryMiss(k) == (\A i \in At(k) : cache[i].age = Ttl) /\ cache' = Others(k)

\* RedisCacheProvider::get: the server expires entries; any error is a miss.
RedisHit(k, entry) ==
  \E i \in At(k) : entry = cache[i] /\ entry.age < Ttl /\ UNCHANGED cache
RedisMiss(k) == UNCHANGED cache

\* A slip for the mutants: an entry is read without a look at its age.
HitAnyAge(k, entry) == \E i \in At(k) : entry = cache[i] /\ UNCHANGED cache

Hit(k, entry) == IF backend = "memory" THEN MemoryHit(k, entry) ELSE RedisHit(k, entry)
Miss(k) == IF backend = "memory" THEN MemoryMiss(k) ELSE RedisMiss(k)

\* set: the entry is new.  Memory keeps the Capacity last used; an error of Redis leaves
\* what was there.  The time to live that is passed is a constant.
MemorySet(k, seq) ==
  \E all \in {Entry(k, seq) \o Others(k)} :
    cache' = SubSeq(all, 1, Smaller(Len(all), Capacity))
RedisSet(k, seq) == cache' = Entry(k, seq) \o Others(k) \/ UNCHANGED cache

Put(k, seq) == IF backend = "memory" THEN MemorySet(k, seq) ELSE RedisSet(k, seq)

-----------------------------------------------------------------------------
\* Calls of get_bars, and of get_bars_with_storage

Return(c, a) ==
  /\ answer' = [answer EXCEPT ![c] = a]
  /\ stage' = [stage EXCEPT ![c] = "none"]
  /\ bars' = [bars EXCEPT ![c] = << >>]

\* The count of bars is checked, whether they come from the cache or not.
Validated(cfg, seq, cached) ==
  Answer(IF Len(seq) < cfg.count THEN "NotFound" ELSE "Ok", seq, cached)

\* Rows that a step of the fetcher has inserted are new.
Ages == stored' = [row \in rows' |-> IF row \in rows THEN stored[row] ELSE 0]

\* A call that needs no data: no bars, made-up ones, or a range that is refused.
GetAtOnce(c, cfg) ==
  /\ pc[c] = "idle" /\ stage[c] = "none" /\ calls < MaxCalls
  /\ calls' = calls + 1
  /\ \E present \in Presents :
       LET ranges == TimeRange(cfg, present)
           synthetic == cfg.source = "synthetic"
           refused == ranges = {} \/ (synthetic /\ ~Parses(cfg))
       IN  \/ cfg.count = 0 /\ Return(c, Answer("Ok", << >>, FALSE))
           \/ cfg.count > 0 /\ refused /\ Return(c, Answer("Err", << >>, FALSE))
           \/ /\ cfg.count > 0 /\ ~refused /\ synthetic
              /\ \E range \in ranges :
                   Return(c, Answer("Ok", SyntheticBars(cfg, range), FALSE))
  /\ UNCHANGED <<world, in_progress, pc, task, faults, dropped, backend, cache, stored,
                 config, key>>

\* get_bars up to its first await: ensure_data for the range.
GetBars(c, cfg) ==
  /\ stage[c] = "none" /\ cfg.count > 0 /\ cfg.source = "real"
  /\ \E present \in Presents : \E range \in TimeRange(cfg, present) :
       /\ Lead(c, range) \/ Follow(c, range)
       /\ key' = [key EXCEPT ![c] = [interval |-> cfg.interval, start |-> range.start,
                                     end |-> range.end]]
  /\ stage' = [stage EXCEPT ![c] = "ensuring"]
  /\ config' = [config EXCEPT ![c] = cfg]
  /\ answer' = [answer EXCEPT ![c] = NoAnswer]
  /\ UNCHANGED <<backend, cache, stored, bars>>

\* get_bars_with_storage, called by others, and by warmup one range after another: the
\* cache is looked at without the fetcher, and no count is asked for.
ReadThrough(c, cfg) ==
  /\ pc[c] = "idle" /\ stage[c] = "none" /\ calls < MaxCalls
  /\ cfg.count > 0 /\ cfg.source = "real" /\ Parses(cfg)
  /\ calls' = calls + 1
  /\ \E present \in Presents : \E range \in TimeRange(cfg, present) :
       key' = [key EXCEPT ![c] = [interval |-> cfg.interval, start |-> range.start,
                                  end |-> range.end]]
  /\ result' = [result EXCEPT ![c] = "Ok"]
  /\ led' = [led EXCEPT ![c] = FALSE]
  /\ stage' = [stage EXCEPT ![c] = "ensuring"]
  /\ config' = [config EXCEPT ![c] = [cfg EXCEPT !.count = 0]]
  /\ answer' = [answer EXCEPT ![c] = NoAnswer]
  /\ UNCHANGED <<world, in_progress, pc, request, gaps, fetched, integrity, faults, dropped,
                 backend, cache, stored, bars>>

\* ensure_data returned: its error ends the call.
EnsureFailed(c) ==
  /\ stage[c] = "ensuring" /\ pc[c] = "idle" /\ result[c] \in {"Err", "TooMuch"}
  /\ Return(c, Answer("Err", << >>, FALSE))
  /\ UNCHANGED <<vars, backend, cache, stored, config, key>>

\* With Ok, the timeframe is parsed, now at the latest, and the cache looked at.
LookUp(c) ==
  /\ stage[c] = "ensuring" /\ pc[c] = "idle" /\ result[c] = "Ok"
  /\ \/ /\ ~Parses(config[c]) /\ Return(c, Answer("Err", << >>, FALSE))
        /\ UNCHANGED cache
     \/ /\ Parses(config[c])
        /\ \E entry \in ToSet(cache) :
             Hit(key[c], entry) /\ Return(c, Validated(config[c], entry.bars, TRUE))
     \/ /\ Parses(config[c]) /\ Miss(key[c])
        /\ stage' = [stage EXCEPT ![c] = "reading"]
        /\ UNCHANGED <<bars, answer>>
  /\ UNCHANGED <<vars, backend, stored, config, key>>

\* A slip for the mutants: the bar at the start is left out.
InRangeAfter(table, k) == {row \in table : k.start < row.timestamp /\ row.timestamp <= k.end}

\* query_bars: the rows from start to end, both included, whatever their exchange.
InRange(table, k) == {row \in table : k.start <= row.timestamp /\ row.timestamp <= k.end}

\* ... in the order of their timestamps, rows of one minute with any exchange's first.
Listed(table, first) ==
  InOrder(LAMBDA row, list : Append(list, row), << >>,
          LAMBDA row : 2 * row.timestamp + IF row.exchange = first THEN 0 ELSE 1, table)

RawBar(row) ==
  [timestamp |-> row.timestamp, open |-> Content(row).open, high |-> Content(row).high,
   low |-> Content(row).low, close |-> Content(row).close, volume |-> Content(row).volume]

Raw(list) == [i \in DOMAIN list |-> RawBar(list[i])]

Orders(table) == {Raw(Listed(table, row.exchange)) : row \in table}

\* The raw bars are read and aggregated; none, or an error, ends the call.
Read(c) ==
  /\ stage[c] = "reading"
  /\ LET raws == Orders(InRange(rows, key[c]))
     IN  \/ raws = {} /\ Return(c, Answer("NotFound", << >>, FALSE))
         \/ \E raw \in raws :
              IF key[c].interval # BarLength /\ Refused(raw, key[c].interval)
              THEN Return(c, Answer("Err", << >>, FALSE))
              ELSE /\ bars' = [bars EXCEPT ![c] = OfInterval(raw, key[c].interval)]
                   /\ stage' = [stage EXCEPT ![c] = "filling"]
                   /\ UNCHANGED answer
  /\ UNCHANGED <<vars, backend, cache, stored, config, key>>

ReadFails(c) ==
  /\ stage[c] = "reading" /\ faults < MaxFaults
  /\ faults' = faults + 1
  /\ Return(c, Answer("Err", << >>, FALSE))
  /\ UNCHANGED <<world, in_progress, pc, task, calls, dropped, backend, cache, stored,
                 config, key>>

\* The cache is written and the bars returned if they are enough.
Fill(c) ==
  /\ stage[c] = "filling"
  /\ Put(key[c], bars[c])
  /\ Return(c, Validated(config[c], bars[c], FALSE))
  /\ UNCHANGED <<vars, backend, stored, config, key>>

\* The future of a call is dropped, with the fetcher's in it.
DropCall(c) ==
  /\ stage[c] # "none"
  /\ \/ Drop(c)
     \/ /\ pc[c] = "idle" /\ UNCHANGED vars
  /\ stage' = [stage EXCEPT ![c] = "none"]
  /\ bars' = [bars EXCEPT ![c] = << >>]
  /\ UNCHANGED <<backend, cache, stored, config, key, answer>>

-----------------------------------------------------------------------------
\* A tick of the clock ages what is stored and what is cached.  No call is so slow that
\* it spends a tick between its query and the write to the cache.
Older(age) == Smaller(age + 1, Ttl)

Tick ==
  /\ \A c \in Callers : stage[c] # "filling"
  /\ stored' = [row \in rows |-> Older(stored[row])]
  /\ cache' = [i \in DOMAIN cache |-> [cache[i] EXCEPT !.age = Older(@)]]
  /\ UNCHANGED <<vars, backend, stage, config, key, bars, answer>>

\* delete; when Redis fails, nothing happens.
Delete ==
  /\ \E i \in DOMAIN cache : cache' = RemoveAt(cache, i)
  /\ UNCHANGED <<vars, backend, stored, stage, config, key, bars, answer>>

\* clear of memory, and of Redis, which scans and deletes by the hundred: an error on the
\* way leaves any of the entries, whose order does not matter there.
MemoryClear == backend = "memory" /\ cache' = << >>
RedisClear ==
  /\ backend = "redis"
  /\ \E kept \in SUBSET ToSet(cache) : cache' = SetToSeq(kept)

Clear ==
  /\ MemoryClear \/ RedisClear
  /\ UNCHANGED <<vars, backend, stored, stage, config, key, bars, answer>>

ProviderStep(c) == EnsureFailed(c) \/ LookUp(c) \/ Read(c) \/ Fill(c)

FetcherStep(c) ==
  /\ Step(c) \/ Fail(c)
  /\ Ages
  /\ UNCHANGED <<backend, cache, stage, config, key, bars, answer>>

DataNext ==
  \/ \E c \in Callers :
       \/ \E cfg \in Configs : GetAtOnce(c, cfg) \/ GetBars(c, cfg) \/ ReadThrough(c, cfg)
       \/ FetcherStep(c)
       \/ ProviderStep(c) \/ ReadFails(c) \/ DropCall(c)
  \/ Tick \/ Delete \/ Clear

DataSpec == DataInit /\ [][DataNext]_allVars

-----------------------------------------------------------------------------
\* Properties

\* The sequence is what the table holds for the key, but for rows that were inserted less
\* than a time to live ago.
Reflects(k, seq) ==
  LET found == InRange(rows, k)
  IN  \E late \in SUBSET {row \in found : stored[row] < Ttl} :
        \E raw \in Orders(found \ late) : seq = OfInterval(raw, k.interval)

\* The cache of get_bars_with_storage, filled by calls that read the table before or while
\* others insert, and by slow ones after faster ones: an answer is the aggregation of rows
\* of the table, and leaves none out that was stored a time to live ago.
AnswersWithinTtl ==
  [][\A c \in Callers :
       stage[c] \in {"ensuring", "filling"} /\ answer'[c].kind \in {"Ok", "NotFound"} =>
         Reflects(key[c], answer'[c].bars)]_allVars

\* calculate_time_range, the gaps, the bounds of the query and the buckets together: a call
\* that did the download, of a range that is long enough for its count and whole at the
\* exchange, is refused only for an older answer in the cache.  For timeframes of whole minutes.
HasEveryBar(k) == \A t \in k.start .. k.end - 1 : t % BarLength = 0 => t \in Market

EnoughBars ==
  \A c \in Callers :
    /\ led[c] /\ stage[c] = "none" /\ answer[c].kind = "NotFound" /\ ~answer[c].cached
    /\ HasEveryBar(key[c])
    => key[c].end - key[c].start < config[c].count * config[c].interval

\* aggregate, on every range of every table that a call reads, rows of two exchanges in one
\* minute too: bars of a longer interval are the same from raw bars and from bars of a
\* shorter one that divides it, no volume is lost, and get_latest_bar returns one of them
\* that is not before any closed one.
AggregationComposes ==
  \A c \in Callers : stage[c] = "filling" =>
    \A raw \in Orders(InRange(rows, key[c])) : \A n \in {1, 2} :
      Composes(raw, n * BarLength, 2 * n * BarLength)
=============================================================================
