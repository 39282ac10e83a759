--------------------------- MODULE ParquetStorage ---------------------------
(***************************************************************************)
(* ParquetStorage of rust_core/crates/data_pipeline/src/storage.rs: the    *)
(* bars of one symbol in files, one for each exchange and month.  A file   *)
(* is created, which empties it, and written whole; an error in between    *)
(* leaves it torn and the months that come after it as they were.          *)
(***************************************************************************)
EXTENDS Integers, SequencesExt, FiniteSetsExt, SortedSets

CONSTANTS MonthLength,     \* a month, all of one length here
          Table            \* the rows whose files are looked at: [timestamp, exchange]

ASSUME MonthAssumption == MonthLength \in Nat \ {0}

NoFiles == << >>

Month(t) == t \div MonthLength

\* A slip for the mutants: the exchange is no part of the path.
PathOfMonth(exchange, month) == [exchange |-> "", month |-> month]

\* get_partition_path
Path(exchange, month) == [exchange |-> exchange, month |-> month]

PathOf(bar) == Path(bar.exchange, Month(bar.timestamp))

\* A file holds columns, in the order of the bars.
Columns(bars) ==
  [whole |-> TRUE,
   timestamp |-> [i \in DOMAIN bars |-> bars[i].timestamp],
   exchange  |-> [i \in DOMAIN bars |-> bars[i].exchange]]

Torn == [whole |-> FALSE, timestamp |-> << >>, exchange |-> << >>]

\* The bars of a file, in the order they have among all.
OfPath(bars, path) ==
  LET found == Ascending({i \in DOMAIN bars : PathOf(bars[i]) = path})
  IN  [k \in DOMAIN found |-> bars[found[k]]]

Grouped(bars) ==
  [path \in {PathOf(bars[i]) : i \in DOMAIN bars} |-> Columns(OfPath(bars, path))]

\* Files that are written over others.
Over(newer, files) ==
  [path \in DOMAIN newer \cup DOMAIN files |->
     IF path \in DOMAIN newer THEN newer[path] ELSE files[path]]

\* An error at one file, which is torn when it had been created, after some others.
Stopped(files, groups, path, done) ==
  {[files |-> Over(left, Over([p \in done |-> groups[p]], files)), ok |-> FALSE] :
     left \in {NoFiles, [p \in {path} |-> Torn]}}

\* write_bars: what it may leave behind.  The groups come in the order of a HashMap, so
\* before an error any of them may have been written.
WriteBars(files, bars) ==
  LET groups == Grouped(bars)
  IN  {[files |-> Over(groups, files), ok |-> TRUE]}
      \cup UNION {UNION {Stopped(files, groups, path, done) : done \in SUBSET (DOMAIN groups \ {path})} :
                     path \in DOMAIN groups}

\* read_bars: the rows of one file, put together from its columns.
ReadBars(files, exchange, month) ==
  LET path == Path(exchange, month)
  IN  IF path \notin DOMAIN files THEN [status |-> "NotFound", bars |-> << >>]
      ELSE IF ~files[path].whole THEN [status |-> "Parquet", bars |-> << >>]
      ELSE [status |-> "Ok",
            bars |-> [i \in DOMAIN files[path].timestamp |->
                        [timestamp |-> files[path].timestamp[i],
                         exchange  |-> files[path].exchange[i]]]]

-----------------------------------------------------------------------------
\* Properties

\* The rows of a table by time, as query_bars orders them: those of one minute in any order.
ByTime(table) ==
  {bars \in [1 .. Cardinality(table) -> table] :
     \A i, j \in DOMAIN bars :
       i < j => bars[i] # bars[j] /\ bars[i].timestamp <= bars[j].timestamp}

OfMonth(later, row) ==
  {other \in later : /\ other.exchange = row.exchange
                     /\ Month(other.timestamp) = Month(row.timestamp)}

WriteTable(files, table) == UNION {WriteBars(files, bars) : bars \in ByTime(table)}

\* Two writes, of a table and of what it has grown to, whatever they write before they stop.
Writes(later) ==
  UNION {UNION {{[before |-> before, first |-> first, last |-> last] :
                   last \in WriteTable(first.files, later)} :
                  first \in WriteTable(NoFiles, before)} : before \in SUBSET later}

Reads(w, row) == ReadBars(w.last.files, row.exchange, Month(row.timestamp))

\* A file that can be read holds its month, of one exchange, as one of the writes found it.
FilesAreWrites(later, w) ==
  \A row \in later : Reads(w, row).status = "Ok" =>
    Reads(w, row).bars \in ByTime(OfMonth(later, row)) \cup ByTime(OfMonth(w.before, row))

\* A write that returned Ok is all there is to read.
LastWriteIsRead(later, w) ==
  w.last.ok => \A row \in later : /\ Reads(w, row).status = "Ok"
                                  /\ Reads(w, row).bars \in ByTime(OfMonth(later, row))

\* One that failed makes at most one file unreadable.
OneFileIsLost(w) ==
  w.first.ok =>
    Cardinality({PathOf(row) : row \in {r \in w.before : Reads(w, r).status # "Ok"}}) <= 1

\* The tables that some two writes do not keep so.
SpoiltTables ==
  UNION {{later : w \in {v \in Writes(later) : ~(/\ FilesAreWrites(later, v)
                                                 /\ LastWriteIsRead(later, v)
                                                 /\ OneFileIsLost(v))}} :
           later \in SUBSET Table}
=============================================================================
