---------------------------- MODULE Aggregation -----------------------------
(***************************************************************************)
(* AggregationEngine::aggregate of                                         *)
(* rust_core/crates/data_pipeline/src/aggregation.rs: one-minute bars in   *)
(* the order of their timestamps become bars of a longer interval.  A bar  *)
(* is [timestamp, open, high, low, close, volume].  A bucket is the set of *)
(* the places its bars have in the sequence.                               *)
(***************************************************************************)
EXTENDS Ranges, SortedSets

\* The start of the interval a moment lies in.
Bucket(timestamp, interval) == (timestamp \div interval) * interval

\* The volume of some of the bars.
VolumeOf(bars, places) == SumFunctionOnSet([i \in DOMAIN bars |-> bars[i].volume], places)

\* A slip for the mutants: the middle of a bucket is forgotten.
MergedEnds(bars, start, places) ==
  [timestamp |-> start,
   open      |-> bars[Min(places)].open,
   high      |-> Max({bars[i].high : i \in {Min(places), Max(places)}}),
   low       |-> Min({bars[i].low : i \in {Min(places), Max(places)}}),
   close     |-> bars[Max(places)].close,
   volume    |-> VolumeOf(bars, places)]

\* One bar made of those of a bucket, which is not empty.
Merged(bars, start, places) ==
  [timestamp |-> start,
   open      |-> bars[Min(places)].open,
   high      |-> Max({bars[i].high : i \in places}),
   low       |-> Min({bars[i].low : i \in places}),
   close     |-> bars[Max(places)].close,
   volume    |-> VolumeOf(bars, places)]

\* The buckets of a BTreeMap, in the order of their starts.  An interval shorter than a
\* raw bar is refused, but not for no bars.
Refused(bars, interval) == bars # << >> /\ interval < BarLength

Starts(bars, interval) == {Bucket(bars[i].timestamp, interval) : i \in DOMAIN bars}

Places(bars, start, interval) ==
  {i \in DOMAIN bars : Bucket(bars[i].timestamp, interval) = start}

Aggregate(bars, interval) ==
  LET ordered == Ascending(Starts(bars, interval))
  IN  [k \in DOMAIN ordered |-> Merged(bars, ordered[k], Places(bars, ordered[k], interval))]

\* What get_bars makes of the raw bars of a range: those of one minute are left alone.
OfInterval(bars, interval) ==
  IF interval = BarLength THEN bars ELSE Aggregate(bars, interval)

\* get_latest_bar: made of the bars in the bucket of the last of all, whether or not the
\* table has the whole of it.  They are read once more, by their times.
BarsFrom(bars, start, end) ==
  LET found == Ascending({i \in DOMAIN bars : start <= bars[i].timestamp /\ bars[i].timestamp <= end})
  IN  [k \in DOMAIN found |-> bars[found[k]]]

LatestBar(bars, interval) ==
  LET start == Bucket(Last(bars).timestamp, interval)
  IN  Last(Aggregate(BarsFrom(bars, start, start + interval - 1), interval))

-----------------------------------------------------------------------------
\* A bar of a longer interval is closed when the table has the last raw bar of its bucket.
Closed(bar, bars, interval) ==
  bar.timestamp + interval <= Last(bars).timestamp + BarLength

\* Aggregation in two steps is aggregation in one, none of the volume is lost, and the
\* latest bar is one of the bars that are made, not before any closed one: a bar missed by
\* the range of times that is read again would show.  (That it is itself closed is not
\* said: a comment of the code has it so, and the code takes the last bucket as it is.)
Composes(bars, interval, longer) ==
  /\ Aggregate(OfInterval(bars, interval), longer) = Aggregate(bars, longer)
  /\ VolumeOf(Aggregate(bars, longer), DOMAIN Aggregate(bars, longer))
       = VolumeOf(bars, DOMAIN bars)
  /\ LET made == Aggregate(bars, longer)
     IN  \E k \in DOMAIN made :
           /\ LatestBar(bars, longer) = made[k]
           /\ \A j \in DOMAIN made : Closed(made[j], bars, longer) => j <= k
=============================================================================
