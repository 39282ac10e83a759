------------------------------- MODULE Ranges -------------------------------
(***************************************************************************)
(* The arithmetic of time ranges in the data pipeline                      *)
(* (rust_core/crates/data_pipeline/src/fetcher.rs and storage.rs): which   *)
(* continuous ranges a set of stored one-minute bars makes, and which gaps *)
(* these leave in a requested range.  A range includes its start and not   *)
(* its end.                                                                *)
(***************************************************************************)
EXTENDS Integers, SequencesExt, FiniteSetsExt

CONSTANT BarLength      \* seconds from one bar to the next: 60

ASSUME BarLengthAssumption == BarLength \in Nat \ {0}

Bigger(a, b) == IF a > b THEN a ELSE b
Smaller(a, b) == IF a < b THEN a ELSE b

\* Folds op over the elements of S in the order of their keys, the smallest first.  The
\* set around the accumulator makes TLC evaluate it once.
InOrder(op(_, _), base, key(_), S) ==
  MapThenFoldSet(LAMBDA x, acc : CHOOSE y \in {op(x, a) : a \in {acc}} : TRUE,
                 base, LAMBDA x : x,
                 LAMBDA s : CHOOSE x \in s : \A y \in s : key(y) <= key(x), S)

\* query_data_ranges: the rows in the order of their timestamps, joined while each
\* starts where the one before it ends.  Two exchanges' rows of one minute do not.
Joined(row, ranges) ==
  LET ts == row.timestamp
  IN  IF ranges # << >> /\ Last(ranges).end = ts
      THEN [ranges EXCEPT ![Len(ranges)].end = ts + BarLength]
      ELSE Append(ranges, [start |-> ts, end |-> ts + BarLength])

DataRanges(stored) == InOrder(Joined, << >>, LAMBDA row : row.timestamp, stored)

\* A slip for the mutants: the part looked at ends where the range starts.
NextGapAtStart(st, range, end) ==
  IF st.current >= end THEN st
  ELSE [gaps    |-> IF st.current < range.start
                    THEN Append(st.gaps, [start |-> st.current,
                                          end   |-> Smaller(range.start, end)])
                    ELSE st.gaps,
        current |-> Bigger(st.current, range.start)]

\* The loop of calculate_gaps over the ranges in the order of their starts: current is
\* where the part not yet looked at begins.
NextGap(st, range, end) ==
  IF st.current >= end THEN st
  ELSE [gaps    |-> IF st.current < range.start
                    THEN Append(st.gaps, [start |-> st.current,
                                          end   |-> Smaller(range.start, end)])
                    ELSE st.gaps,
        current |-> Bigger(st.current, range.end)]

Looked(start, end, existing) ==
  InOrder(LAMBDA i, st : NextGap(st, existing[i], end), [gaps |-> << >>, current |-> start],
          LAMBDA i : existing[i].start, DOMAIN existing)

CalculateGaps(start, end, existing) ==
  IF start >= end THEN << >>
  ELSE LET looked == Looked(start, end, existing)
       IN  IF looked.current < end
           THEN Append(looked.gaps, [start |-> looked.current, end |-> end])
           ELSE looked.gaps

\* A slip for the mutants: the end of a gap is taken for a moment in it.
MissingBarsInside(gaps) ==
  FoldLeft(LAMBDA n, gap : n + (gap.end - gap.start - 1) \div BarLength, 0, gaps)

\* Whole bars in the gaps: (e - s) / 60, rounded down for each gap.
MissingBars(gaps) ==
  FoldLeft(LAMBDA n, gap : n + (gap.end - gap.start) \div BarLength, 0, gaps)

-----------------------------------------------------------------------------
\* What calculate_gaps promises: nonempty gaps, in order and apart, that are together
\* the moments of [start, end) in no stored bar.
Moments(ranges) == UNION {ranges[i].start .. ranges[i].end - 1 : i \in DOMAIN ranges}

GapsOf(stored, start, end, gaps) ==
  /\ \A i \in DOMAIN gaps : gaps[i].start < gaps[i].end
  /\ \A i, j \in DOMAIN gaps : i < j => gaps[i].end < gaps[j].start
  /\ Moments(gaps) =
       (start .. end - 1) \
         UNION {row.timestamp .. row.timestamp + BarLength - 1 : row \in stored}
=============================================================================
