------------------------------ MODULE Archive -------------------------------
(***************************************************************************)
(* The two stores of rust_core/crates/data_pipeline/src/storage.rs, one    *)
(* made from the other: the table the fetcher fills, and files written     *)
(* from what a query of it returns.                                        *)
(***************************************************************************)
EXTENDS DataFetcher, ParquetStorage

\* Of every table the fetcher leaves, files written by write_bars now and earlier, when it
\* held less: each is the month of one write, complete and in order, never a mixture of
\* two; the later write makes at most one unreadable wherever it stops, and when it
\* returned Ok every row can be read again.
ArchiveKeepsTable == rows \cap Table \notin SpoiltTables
=============================================================================
