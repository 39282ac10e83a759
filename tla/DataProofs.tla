----------------------------- MODULE DataProofs -----------------------------
(***************************************************************************)
(* The safety properties of DataFetcher, for every set of callers,         *)
(* requests and bars, and what the cache of MarketData answers.            *)
(*                                                                         *)
(* The concurrency guard.  OneLeader is not inductive: a call that         *)
(* finishes takes its key out, and would take out the same key left by a   *)
(* dropped call.  The part that is missing is that no call works on the    *)
(* key of a dropped one.                                                   *)
(*                                                                         *)
(* The gaps.  DataRanges joins the rows in the order of their timestamps,  *)
(* and calculate_gaps looks at the ranges in the order of their starts.    *)
(* Both are folds: the lemmas say what has been joined, and what has been  *)
(* looked at, after any subset of the elements.                            *)
(*                                                                         *)
(* The work of a leader.  Rows are never lost, so that a bar that is due   *)
(* is stored, about to be inserted or in the gaps that are left: WorkInv   *)
(* follows it from planning to the answer Ok.                              *)
(*                                                                         *)
(* verify_data.  Each minute is in the gaps of its first look at the       *)
(* table, or stored by the second one; the sums and the counts of the      *)
(* report are compared as cardinalities of sets of minutes.                *)
(*                                                                         *)
(* The cache.  Its entries, and what a call is about to write to it, were  *)
(* made from some of the rows; every row of the range that they leave out  *)
(* was stored no longer ago than the entry (DataInv).  How bars are        *)
(* aggregated does not matter for it.                                      *)
(*                                                                         *)
(* The aggregation.  A bar more, not before the others, is pushed: into    *)
(* the last of the bars that are made, or after it (PushIs).  So what      *)
(* aggregate promises of a sequence follows from the same of the sequence  *)
(* without its last bar, and the table is listed by such pushes, too.      *)
(*                                                                         *)
(* Enough bars.  The starts of as many intervals as were asked for lie in  *)
(* the range; each is a minute that the exchange has, so that the leader   *)
(* stored it, and the timestamp of a bar of its own.                       *)
(*                                                                         *)
(* The archive.  A sequence by time has every row once, so that each file  *)
(* of a write holds the rows of its month by time (WriteIs): what the two  *)
(* writes of a table have left, wherever they stopped, follows from that.  *)
(***************************************************************************)
EXTENDS MarketData, Archive, FoldTheorems, SequenceTheorems, FunctionTheorems

Shape ==
  /\ DOMAIN pc = Callers
  /\ DOMAIN request = Callers

Guard ==
  /\ Shape
  /\ OneLeader
  /\ in_progress = Held \cup dropped
  /\ \A c \in Callers : pc[c] \in Working => request[c] \notin dropped

\* A step of one caller that changes only where it is, from one place at work to
\* another: the guard does not see it.
LEMMA StaysAtWork ==
  ASSUME Guard, NEW c \in Callers, pc[c] \in Working,
         NEW place \in Working, pc' = [pc EXCEPT ![c] = place],
         UNCHANGED <<in_progress, request, dropped>>
  PROVE  Guard'
BY DEF Guard, Shape, OneLeader, Held

\* A step of one caller that is not at work before or after it does not touch the guard
\* either.
LEMMA StaysOutside ==
  ASSUME Guard, NEW c \in Callers, pc[c] \notin Working,
         NEW place, place \notin Working, pc' = [pc EXCEPT ![c] = place],
         UNCHANGED <<request, in_progress, dropped>>
  PROVE  Guard'
BY DEF Guard, Shape, OneLeader, Held

\* The table, the calls and the keys start empty.
LEMMA GuardInit == Init => Guard
BY DEF Init, Guard, Shape, OneLeader, Held, Working

\* Every action keeps the guard.
LEMMA GuardNext == Guard /\ [Next]_vars => Guard'
<1> SUFFICES ASSUME Guard, [Next]_vars PROVE Guard'
  OBVIOUS
<1> USE DEF Working
<1>1. CASE UNCHANGED vars
  BY <1>1 DEF vars, world, task, count, Guard, Shape, OneLeader, Held
<1>2. ASSUME NEW c \in Callers, NEW r \in Requests, Lead(c, r) PROVE Guard'
  BY <1>2 DEF Lead, Call, Guard, Shape, OneLeader, Held
<1>3. ASSUME NEW c \in Callers, NEW r \in Requests, Follow(c, r) PROVE Guard'
  <2>1. /\ pc[c] \notin Working /\ pc' = [pc EXCEPT ![c] = "waiting"]
        /\ request' \in {request, [request EXCEPT ![c] = r]}
        /\ UNCHANGED <<in_progress, dropped>>
    BY <1>3 DEF Follow, Call
  <2>2. QED
    BY <2>1 DEF Guard, Shape, OneLeader, Held
<1>4. ASSUME NEW c \in Callers, NEW r \in Requests, Verify(c, r) PROVE Guard'
  <2>1. /\ pc[c] \notin Working /\ pc' = [pc EXCEPT ![c] = "verifying"]
        /\ request' \in {request, [request EXCEPT ![c] = r]}
        /\ UNCHANGED <<in_progress, dropped>>
    BY <1>4 DEF Verify, Call
  <2>2. QED
    BY <2>1 DEF Guard, Shape, OneLeader, Held
<1>5. ASSUME NEW c \in Callers, Poll(c) PROVE Guard'
  BY <1>5, StaysOutside DEF Poll, count
<1>6. ASSUME NEW c \in Callers, Report(c) PROVE Guard'
  BY <1>6, StaysOutside DEF Report, count
<1>7. ASSUME NEW c \in Callers, Plan(c) PROVE Guard'
  BY <1>7, StaysAtWork DEF Plan, EndsWith, count
<1>8. ASSUME NEW c \in Callers, Fetch(c) PROVE Guard'
  BY <1>8, StaysAtWork DEF Fetch, NextRange, EndsWith, count
<1>9. ASSUME NEW c \in Callers, Insert(c) PROVE Guard'
  BY <1>9, StaysAtWork DEF Insert, NextRange, EndsWith, count
<1>10. ASSUME NEW c \in Callers, Fail(c) PROVE Guard'
  BY <1>10, StaysAtWork DEF Fail, EndsWith
<1>11. ASSUME NEW c \in Callers, Finish(c) PROVE Guard'
  BY <1>11 DEF Finish, task, count, Guard, Shape, OneLeader, Held
<1>12. ASSUME NEW c \in Callers, Drop(c) PROVE Guard'
  BY <1>12 DEF Drop, Guard, Shape, OneLeader, Held
<1>13. QED
  BY <1>1, <1>2, <1>3, <1>4, <1>5, <1>6, <1>7, <1>8, <1>9, <1>10, <1>11, <1>12 DEF Next, Step

\* Two calls never download the same range at a time, and the key of a range that no dropped
\* call was at work on is in the set exactly while a call is at work on it.  The invariant
\* needs the keys of the dropped calls, too: they stay, so that nobody leads there again.
THEOREM SingleFlight == Spec => []OneLeader
<1>1. Guard => OneLeader
  BY DEF Guard
<1>2. QED
  BY GuardInit, GuardNext, <1>1, PTL DEF Spec

-----------------------------------------------------------------------------
\* Lists of ranges.

\* Ranges with their ends among given moments.
Spans(G) == [start : G, end : G]

\* Sequences of such ranges, none of them empty.
Lists(G) == {R \in Seq(Spans(G)) : \A i \in DOMAIN R : R[i].start < R[i].end}

\* The moments in a stored bar.
Lasting(table) == UNION {row.timestamp .. row.timestamp + BarLength - 1 : row \in table}

\* The bars start and end at given moments.
MarkedBy(table, G) ==
  \A row \in table : row.timestamp \in G /\ row.timestamp + BarLength \in G

LEMMA MomentIn ==
  ASSUME NEW R
  PROVE  \A m : m \in Moments(R) <=> \E i \in DOMAIN R : m \in R[i].start .. R[i].end - 1
BY DEF Moments

\* R2 is R with the range from a to b after it.
OneRangeMore(G, R, R2, a, b) ==
  /\ R2 \in Lists(G)
  /\ Moments(R2) = Moments(R) \cup (a .. b - 1)
  /\ \A i \in DOMAIN R : R2[i] = R[i]
  /\ R2[Len(R2)] = [start |-> a, end |-> b]
  /\ DOMAIN R2 = DOMAIN R \cup {Len(R2)} /\ Len(R2) = Len(R) + 1

LEMMA AppendRange ==
  ASSUME NEW G \in SUBSET Int, NEW R \in Lists(G), NEW a \in G, NEW b \in G, a < b
  PROVE  OneRangeMore(G, R, Append(R, [start |-> a, end |-> b]), a, b)
<1> DEFINE x == [start |-> a, end |-> b]
           R2 == Append(R, x)
<1>1. R \in Seq(Spans(G)) /\ Len(R) \in Nat /\ DOMAIN R = 1 .. Len(R)
  BY DEF Lists
<1>2. x \in Spans(G) /\ x.start = a /\ x.end = b
  BY DEF Spans
<1> HIDE DEF x
<1>3. /\ R2 \in Seq(Spans(G)) /\ Len(R2) = Len(R) + 1
      /\ R2[Len(R2)] = x
      /\ \A i \in DOMAIN R : R2[i] = R[i]
      /\ DOMAIN R2 = 1 .. Len(R) + 1
  BY <1>1, <1>2
<1>4. DOMAIN R2 = DOMAIN R \cup {Len(R2)}
  BY <1>1, <1>3
<1> HIDE DEF R2
<1>5. \A i \in DOMAIN R2 : R2[i].start < R2[i].end
  BY <1>2, <1>3, <1>4 DEF Lists
<1>6. ASSUME NEW m PROVE m \in Moments(R2) <=> m \in Moments(R) \cup (a .. b - 1)
  <2>1. m \in Moments(R2) <=> \E i \in DOMAIN R2 : m \in R2[i].start .. R2[i].end - 1
    BY MomentIn, Zenon
  <2>2. m \in Moments(R) <=> \E i \in DOMAIN R : m \in R[i].start .. R[i].end - 1
    BY MomentIn, Zenon
  <2>3. R2[Len(R2)].start = a /\ R2[Len(R2)].end = b
    BY <1>2, <1>3
  <2>4. (\E i \in DOMAIN R2 : m \in R2[i].start .. R2[i].end - 1)
          <=> \/ \E i \in DOMAIN R : m \in R2[i].start .. R2[i].end - 1
              \/ m \in a .. b - 1
    BY <1>4, <2>3, Zenon
  <2>5. (\E i \in DOMAIN R : m \in R2[i].start .. R2[i].end - 1)
          <=> \E i \in DOMAIN R : m \in R[i].start .. R[i].end - 1
    BY <1>3, Zenon
  <2>6. QED
    BY <2>1, <2>2, <2>4, <2>5
<1>7. Moments(R2) = Moments(R) \cup (a .. b - 1)
  BY <1>6
<1>8. QED
  BY <1>3, <1>4, <1>5, <1>7 DEF R2, x, Lists, OneRangeMore

LEMMA JoinedIs ==
  ASSUME NEW G \in SUBSET Int, NEW R \in Lists(G), NEW row,
         row.timestamp \in G, row.timestamp + BarLength \in G
  PROVE  /\ Joined(row, R) \in Lists(G)
         /\ Moments(Joined(row, R)) =
              Moments(R) \cup (row.timestamp .. row.timestamp + BarLength - 1)
<1> DEFINE ts == row.timestamp
           n == Len(R)
<1> HIDE DEF ts
<1>a. R \in Seq(Spans(G)) /\ \A i \in DOMAIN R : R[i].start < R[i].end
  BY DEF Lists
<1>d. ts \in G /\ ts + BarLength \in G
  BY DEF ts
<1>b. ts \in Int /\ BarLength \in Nat /\ BarLength > 0 /\ ts < ts + BarLength
  <2>1. ts \in Int
    BY <1>d
  <2>2. QED
    BY <2>1, BarLengthAssumption
<1>c. n \in Nat /\ DOMAIN R = 1 .. n
  BY <1>a
<1>0. /\ ts \in Int /\ BarLength \in Nat /\ BarLength > 0 /\ ts < ts + BarLength
      /\ R \in Seq(Spans(G)) /\ n \in Nat /\ DOMAIN R = 1 .. n
  BY <1>a, <1>b, <1>c
<1>1. CASE R # << >> /\ Last(R).end = ts
  <2> DEFINE S == [R EXCEPT ![n].end = ts + BarLength]
  <2>1. Joined(row, R) = S
    BY <1>1 DEF Joined, ts
  <2>2. n \in DOMAIN R /\ Last(R) = R[n] /\ n > 0
    BY <1>0, <1>1 DEF Last
  <2>3. PICK r \in Spans(G) : r = R[n] /\ r.end = ts /\ r.start < ts /\ r.start \in Int
    <3>1. R[n] \in Spans(G) /\ R[n].end = ts /\ R[n].start < R[n].end
      BY <1>0, <1>1, <1>a, <2>2
    <3>2. R[n].start \in Int
      BY <3>1 DEF Spans
    <3>3. QED
      BY <3>1, <3>2
  <2>4. DOMAIN S = DOMAIN R /\ \A i \in DOMAIN R : i # n => S[i] = R[i]
    OBVIOUS
  <2>5. S[n] = [r EXCEPT !.end = ts + BarLength]
    BY <2>2, <2>3
  <2>6. S[n] \in Spans(G) /\ S[n].start = r.start /\ S[n].end = ts + BarLength
    <3>1. PICK v \in G : v = ts + BarLength
      BY <1>d
    <3>2. [r EXCEPT !.end = v] \in Spans(G) /\ [r EXCEPT !.end = v].start = r.start
          /\ [r EXCEPT !.end = v].end = v
      BY DEF Spans
    <3>3. QED
      BY <2>5, <3>1, <3>2
  <2> HIDE DEF S
  <2>7. \A i \in DOMAIN R : S[i] \in Spans(G)
    BY <1>0, <2>4, <2>6
  <2>8. S \in Seq(Spans(G))
    <3>1. S = [i \in 1 .. n |-> S[i]]
      BY <1>0 DEF S
    <3>2. QED
      BY <1>0, <2>7, <3>1, IsASeq
  <2>9. \A i \in DOMAIN S : S[i].start < S[i].end
    BY <1>0, <2>3, <2>4, <2>6 DEF Lists
  <2>10. ASSUME NEW m
         PROVE  m \in Moments(S) <=> m \in Moments(R) \cup (ts .. ts + BarLength - 1)
    <3>1. m \in Moments(S) <=> \/ \E i \in DOMAIN R : i # n /\ m \in R[i].start .. R[i].end - 1
                               \/ m \in r.start .. ts + BarLength - 1
      <4>1. m \in Moments(S) <=> \E i \in DOMAIN S : m \in S[i].start .. S[i].end - 1
        BY MomentIn, Zenon
      <4>2. (\E i \in DOMAIN S : m \in S[i].start .. S[i].end - 1)
              <=> \/ \E i \in DOMAIN R : i # n /\ m \in S[i].start .. S[i].end - 1
                  \/ m \in S[n].start .. S[n].end - 1
        BY <2>2, <2>4, Zenon
      <4>3. (\E i \in DOMAIN R : i # n /\ m \in S[i].start .. S[i].end - 1)
              <=> \E i \in DOMAIN R : i # n /\ m \in R[i].start .. R[i].end - 1
        BY <2>4, Zenon
      <4>4. m \in S[n].start .. S[n].end - 1 <=> m \in r.start .. ts + BarLength - 1
        <5>1. S[n].start = r.start /\ S[n].end = ts + BarLength
          BY <2>6
        <5>2. r.start \in Int /\ ts \in Int /\ BarLength \in Int
          BY <1>b, <2>3
        <5>3. QED
          BY <5>1, <5>2
      <4>5. QED
        BY <4>1, <4>2, <4>3, <4>4, Zenon
    <3>2. m \in Moments(R) <=> \/ \E i \in DOMAIN R : i # n /\ m \in R[i].start .. R[i].end - 1
                               \/ m \in r.start .. ts - 1
      <4>1. m \in Moments(R) <=> \E i \in DOMAIN R : m \in R[i].start .. R[i].end - 1
        BY MomentIn, Zenon
      <4>2. R[n].start = r.start /\ R[n].end = ts
        BY <2>3
      <4>3. QED
        BY <2>2, <4>1, <4>2, Zenon
    <3>3. m \in r.start .. ts + BarLength - 1 <=> m \in r.start .. ts - 1 \/ m \in ts .. ts + BarLength - 1
      BY <1>0, <2>3
    <3>4. QED
      BY <3>1, <3>2, <3>3
  <2>11. QED
    BY <2>1, <2>8, <2>9, <2>10 DEF Lists, ts
<1>2. CASE ~ (R # << >> /\ Last(R).end = ts)
  <2>1. Joined(row, R) = Append(R, [start |-> ts, end |-> ts + BarLength])
    BY <1>2 DEF Joined, ts
  <2>2. QED
    <3>1. PICK b \in G : b = ts + BarLength
      BY <1>d
    <3>2. QED
      BY <1>0, <1>d, <2>1, <3>1, AppendRange DEF ts, OneRangeMore
<1>3. QED
  BY <1>1, <1>2

-----------------------------------------------------------------------------
\* query_data_ranges

\* The row the query takes last.
Latest(s) == CHOOSE x \in s : \A y \in s : y.timestamp <= x.timestamp

\* The equation of the loop over the rows.
IsJoin(iter, table) ==
  iter = [s \in SUBSET table |->
            IF s = {} THEN << >>
            ELSE CHOOSE y \in {Joined(Latest(s), a) : a \in {iter[s \ {Latest(s)}]}} : TRUE]

LEMMA JoinExpanded ==
  ASSUME NEW table
  PROVE  DataRanges(table) = (CHOOSE iter : IsJoin(iter, table))[table]
BY Zenon DEF DataRanges, InOrder, MapThenFoldSet, IsJoin, Latest

LEMMA OnlyOne ==
  ASSUME NEW v PROVE (CHOOSE y \in {v} : TRUE) = v
OBVIOUS

LEMMA JoinStep ==
  ASSUME NEW row, NEW v
  PROVE  (CHOOSE y \in {Joined(row, a) : a \in {v}} : TRUE) = Joined(row, v)
<1>1. {Joined(row, a) : a \in {v}} = {Joined(row, v)}
  BY Zenon
<1>2. QED
  BY <1>1, OnlyOne, Zenon

\* The loop has a value for every set of rows.
LEMMA JoinExists ==
  ASSUME NEW G \in SUBSET Int, NEW table, IsFiniteSet(table), MarkedBy(table, G)
  PROVE  /\ \E iter : IsJoin(iter, table)
         /\ \A s \in SUBSET table : s # {} => Latest(s) \in s
<1> DEFINE place == [row \in table |-> row.timestamp]
           pick == [s \in SUBSET table |-> Latest(s)]
           A == Lists(G)
           step == [row \in table |-> [R \in A |-> Joined(row, R)]]
<1>1. place \in [table -> Int]
  BY DEF MarkedBy
<1>2. ASSUME NEW s \in SUBSET table, s # {} PROVE Latest(s) \in s
  <2>1. \E x \in s : \A y \in s : place[y] <= place[x]
    <3> HIDE DEF place
    <3>1. QED
      BY <1>1, <1>2, LargestKey
  <2>2. \E x \in s : \A y \in s : y.timestamp <= x.timestamp
    BY <2>1
  <2>3. QED
    BY <2>2, Zenon DEF Latest
<1>3. Picks(pick, table) /\ \A s \in SUBSET table : pick[s] = Latest(s)
  BY <1>2 DEF Picks
<1> HIDE DEF pick
<1>4. PICK g : IsFoldOver(g, table, << >>, step, pick)
  <2> HIDE DEF step
  <2>1. QED
    BY <1>3, FoldOverExists, Zenon
<1>5. \A s \in SUBSET table :
         g[s] = IF s = {} THEN << >> ELSE step[Latest(s)][g[s \ {Latest(s)}]]
  <2> HIDE DEF step
  <2>1. QED
    BY <1>3, <1>4 DEF IsFoldOver
<1> DEFINE Q == {s \in SUBSET table : g[s] \in A}
<1>6. {} \in Q
  <2>1. << >> \in A
    BY DEF Lists
  <2> HIDE DEF A
  <2>2. QED
    BY <1>5, <2>1
<1>7. ASSUME NEW s \in SUBSET table, s # {}, s \ {pick[s]} \in Q PROVE s \in Q
  <2>1. PICK row \in table : row = Latest(s)
    BY <1>2, <1>7
  <2>2. PICK R \in A : R = g[s \ {row}]
    <3> HIDE DEF A
    <3>1. QED
      BY <1>3, <1>7, <2>1
  <2>3. Joined(row, R) \in A
    BY <2>2, JoinedIs DEF MarkedBy
  <2>4. step[row][R] = Joined(row, R)
    <3> HIDE DEF A
    <3>1. QED
      BY <2>1, <2>2
  <2> HIDE DEF A, step
  <2>5. g[s] = step[row][R]
    BY <1>5, <1>7, <2>1, <2>2
  <2>6. QED
    BY <2>3, <2>4, <2>5
<1>8. \A s \in SUBSET table : s \in Q
  <2> HIDE DEF Q
  <2>1. \A s \in SUBSET table : s # {} /\ s \ {pick[s]} \in Q => s \in Q
    BY <1>7
  <2>2. QED
    <3>1. Picks(pick, table)
      BY <1>3
    <3>2. QED
      BY <1>6, <2>1, <3>1, PickInd
<1> DEFINE Rhs(s) == IF s = {} THEN << >>
                     ELSE CHOOSE y \in {Joined(Latest(s), a) : a \in {g[s \ {Latest(s)}]}} : TRUE
<1>9. ASSUME NEW s \in SUBSET table
      PROVE  g[s] = IF s = {} THEN << >>
                    ELSE CHOOSE y \in {Joined(Latest(s), a) : a \in {g[s \ {Latest(s)}]}} : TRUE
  <2>1. CASE s = {}
    BY <1>5, <2>1
  <2>2. CASE s # {}
    <3>1. PICK row \in table : row = Latest(s)
      BY <1>2, <2>2
    <3>2. PICK R \in A : R = g[s \ {row}]
      <4> HIDE DEF A
      <4>1. s \ {row} \in SUBSET table
        OBVIOUS
      <4>2. QED
        BY <1>8, <4>1
    <3>3. step[row][R] = Joined(row, R)
      <4> HIDE DEF A
      <4>1. QED
        BY <3>1, <3>2
    <3> HIDE DEF A, step, Q
    <3>4. g[s] = step[row][R]
      BY <1>5, <2>2, <3>1, <3>2
    <3>5. g[s] = CHOOSE y \in {Joined(row, a) : a \in {R}} : TRUE
      BY <3>3, <3>4, JoinStep, Zenon
    <3>6. QED
      BY <2>2, <3>1, <3>2, <3>5, Zenon
  <2>3. QED
    BY <2>1, <2>2
<1>10. IsJoin(g, table)
  <2> HIDE DEF A, step, Q
  <2>1. g = [s \in SUBSET table |-> g[s]]
    BY <1>4 DEF IsFoldOver
  <2>2. \A s \in SUBSET table : g[s] = Rhs(s)
    BY <1>9
  <2>3. g = [s \in SUBSET table |-> Rhs(s)]
    <3> HIDE DEF Rhs
    <3>1. QED
      BY <2>1, <2>2
  <2>4. QED
    BY <2>3 DEF IsJoin
<1>11. QED
  BY <1>2, <1>10, Zenon

\* The value of the loop over some rows: nonempty ranges that last as long as they do.
LEMMA DataRangesAre ==
  ASSUME NEW G \in SUBSET Int, NEW table, IsFiniteSet(table), MarkedBy(table, G)
  PROVE  DataRanges(table) \in Lists(G) /\ Moments(DataRanges(table)) = Lasting(table)
<1>1. PICK g : g = CHOOSE iter : IsJoin(iter, table)
  OBVIOUS
<1>2. IsJoin(g, table) /\ \A s \in SUBSET table : s # {} => Latest(s) \in s
  BY <1>1, JoinExists, Zenon
<1>3. DataRanges(table) = g[table]
  BY <1>1, JoinExpanded, Zenon
<1>4. \A s \in SUBSET table :
         g[s] = IF s = {} THEN << >> ELSE Joined(Latest(s), g[s \ {Latest(s)}])
  <2> DEFINE Rhs(s) == IF s = {} THEN << >>
                       ELSE CHOOSE y \in {Joined(Latest(s), a) : a \in {g[s \ {Latest(s)}]}} : TRUE
  <2>1. g = [s \in SUBSET table |-> Rhs(s)]
    BY <1>2 DEF IsJoin
  <2>2. \A s \in SUBSET table : g[s] = Rhs(s)
    <3> HIDE DEF Rhs
    <3>1. QED
      BY <2>1
  <2>3. \A s \in SUBSET table :
          Rhs(s) = IF s = {} THEN << >> ELSE Joined(Latest(s), g[s \ {Latest(s)}])
    BY JoinStep, Zenon
  <2> HIDE DEF Rhs
  <2>4. QED
    BY <2>2, <2>3
<1> DEFINE Q == {s \in SUBSET table : g[s] \in Lists(G) /\ Moments(g[s]) = Lasting(s)}
           pick == [s \in SUBSET table |-> Latest(s)]
<1>5. Picks(pick, table) /\ \A s \in SUBSET table : pick[s] = Latest(s)
  BY <1>2 DEF Picks
<1> HIDE DEF pick
<1>6. {} \in Q
  <2>1. g[{}] = << >>
    BY <1>4
  <2>2. << >> \in Lists(G) /\ Moments(<< >>) = {} /\ Lasting({}) = {}
    BY DEF Lists, Moments, Lasting
  <2>3. QED
    BY <2>1, <2>2
<1>7. ASSUME NEW s \in SUBSET table, s # {}, s \ {pick[s]} \in Q PROVE s \in Q
  <2>1. PICK row \in table : row = Latest(s) /\ row \in s
    BY <1>2, <1>7
  <2>2. PICK R \in Lists(G) : R = g[s \ {row}] /\ Moments(R) = Lasting(s \ {row})
    BY <1>5, <1>7, <2>1
  <2>3. /\ Joined(row, R) \in Lists(G)
        /\ Moments(Joined(row, R)) =
             Lasting(s \ {row}) \cup (row.timestamp .. row.timestamp + BarLength - 1)
    BY <2>2, JoinedIs DEF MarkedBy
  <2>4. Lasting(s) = Lasting(s \ {row}) \cup (row.timestamp .. row.timestamp + BarLength - 1)
    BY <2>1 DEF Lasting
  <2>5. g[s] = Joined(row, R)
    BY <1>4, <1>7, <2>1, <2>2
  <2>6. QED
    BY <2>3, <2>4, <2>5
<1>8. \A s \in SUBSET table : s \in Q
  <2> HIDE DEF Q
  <2>1. \A s \in SUBSET table : s # {} /\ s \ {pick[s]} \in Q => s \in Q
    BY <1>7
  <2>2. Picks(pick, table)
    BY <1>5
  <2>3. QED
    BY <1>6, <2>1, <2>2, PickInd
<1>9. QED
  BY <1>3, <1>8

-----------------------------------------------------------------------------
\* calculate_gaps

\* States of the loop over the ranges.
States(G) == [gaps : Lists(G), current : G]

\* What the loop has made of the ranges with the indices s, in the order of their starts.
LookedAt(G, st, start, end, existing, s) ==
  /\ st \in States(G)
  /\ start <= st.current
  /\ \A i \in DOMAIN st.gaps : /\ st.gaps[i].end < st.current
                               /\ \E k \in s : st.gaps[i].end <= existing[k].start
  /\ \A i, j \in DOMAIN st.gaps : i < j => st.gaps[i].end < st.gaps[j].start
  /\ \A k \in s : existing[k].end <= st.current \/ st.current >= end
  /\ \A m \in Int : m \in Moments(st.gaps) <=>
       /\ start <= m /\ m < st.current /\ m < end
       /\ \A k \in s : m \notin existing[k].start .. existing[k].end - 1

LEMMA NextGapTyped ==
  ASSUME NEW G \in SUBSET Int, NEW st \in States(G), NEW end \in G,
         NEW range \in Spans(G), range.start < range.end
  PROVE  NextGap(st, range, end) \in States(G)
<1>1. /\ st.gaps \in Lists(G) /\ st.current \in G /\ range.start \in G /\ range.end \in G
  BY DEF States, Spans
<1>2. PICK c \in G, a \in G, b \in G : c = st.current /\ a = range.start /\ b = range.end
  BY <1>1
<1>3. c \in Int /\ a \in Int /\ b \in Int /\ end \in Int
  OBVIOUS
<1>4. CASE c >= end
  BY <1>2, <1>4 DEF NextGap
<1>5. CASE c < end
  <2>1. Bigger(c, b) \in G /\ Smaller(a, end) \in G
    BY DEF Bigger, Smaller
  <2>2. CASE c < a
    <3>1. c < Smaller(a, end)
      BY <1>3, <1>5, <2>2 DEF Smaller
    <3>2. Append(st.gaps, [start |-> c, end |-> Smaller(a, end)]) \in Lists(G)
      BY <1>1, <2>1, <3>1, AppendRange DEF OneRangeMore
    <3>3. NextGap(st, range, end) =
            [gaps |-> Append(st.gaps, [start |-> c, end |-> Smaller(a, end)]),
             current |-> Bigger(c, b)]
      BY <1>2, <1>3, <1>5, <2>2 DEF NextGap
    <3>4. QED
      BY <2>1, <3>2, <3>3 DEF States
  <2>3. CASE ~ (c < a)
    <3>1. NextGap(st, range, end) = [gaps |-> st.gaps, current |-> Bigger(c, b)]
      BY <1>2, <1>3, <1>5, <2>3 DEF NextGap
    <3>2. QED
      BY <1>1, <2>1, <3>1 DEF States
  <2>4. QED
    BY <2>2, <2>3
<1>6. QED
  BY <1>3, <1>4, <1>5

\* One iteration, for a range that starts no earlier than those before it.
LEMMA LookStep ==
  ASSUME NEW G \in SUBSET Int, NEW start \in Int, NEW end \in G, NEW existing \in Lists(G),
         NEW s \in SUBSET DOMAIN existing, NEW x \in DOMAIN existing,
         \A k \in s : existing[k].start <= existing[x].start,
         NEW st, LookedAt(G, st, start, end, existing, s)
  PROVE  LookedAt(G, NextGap(st, existing[x], end), start, end, existing, s \cup {x})
<1> DEFINE range == existing[x]
           st2 == NextGap(st, range, end)
<1>1. /\ \A k \in DOMAIN existing : /\ existing[k] \in Spans(G)
                                    /\ existing[k].start \in Int /\ existing[k].end \in Int
                                    /\ existing[k].start < existing[k].end
  <2>1. existing \in Seq(Spans(G)) /\ \A k \in DOMAIN existing : existing[k].start < existing[k].end
    BY DEF Lists
  <2>2. \A k \in DOMAIN existing : existing[k] \in Spans(G)
    BY <2>1
  <2>3. \A r \in Spans(G) : r.start \in Int /\ r.end \in Int
    BY DEF Spans
  <2>4. QED
    BY <2>1, <2>2, <2>3
<1>2. /\ st \in States(G) /\ st.gaps \in Lists(G) /\ st.current \in Int /\ st.current \in G
  BY DEF LookedAt, States
<1>3. st2 \in States(G)
  BY <1>1, <1>2, NextGapTyped
<1>4. PICK a \in Int, b \in Int, c \in Int :
        a = range.start /\ b = range.end /\ c = st.current /\ a < b /\ range.start \in G
        /\ range.end \in G
  BY <1>1, <1>2 DEF Spans
<1>5. end \in Int
  OBVIOUS
<1> DEFINE found == st.gaps
<1>6. /\ start <= c
      /\ \A i \in DOMAIN found : /\ found[i].end < c /\ found[i].end <= a
                                /\ \E k \in s : found[i].end <= existing[k].start
      /\ \A i, j \in DOMAIN found : i < j => found[i].end < found[j].start
      /\ \A k \in s : existing[k].end <= c \/ c >= end
  <2>1. \A i \in DOMAIN found : found[i].start \in Int /\ found[i].end \in Int
    <3>1. found \in Seq(Spans(G))
      BY <1>2 DEF Lists
    <3>2. \A i \in DOMAIN found : found[i] \in Spans(G)
      BY <3>1
    <3>3. \A r \in Spans(G) : r.start \in Int /\ r.end \in Int
      BY DEF Spans
    <3>4. QED
      BY <3>2, <3>3
  <2>2. ASSUME NEW i \in DOMAIN found PROVE found[i].end <= a
    <3>1. PICK k \in s : found[i].end <= existing[k].start
      BY DEF LookedAt
    <3>2. existing[k].start \in Int /\ existing[k].start <= a /\ found[i].end \in Int
      BY <1>1, <1>4, <2>1
    <3>3. QED
      BY <3>1, <3>2
  <2>3. QED
    BY <1>4, <2>2 DEF LookedAt
<1>7. \A m \in Int : m \in Moments(found) <=>
        /\ start <= m /\ m < c /\ m < end
        /\ \A k \in s : m \notin existing[k].start .. existing[k].end - 1
  BY <1>4 DEF LookedAt
\* No moment of a gap is in a range looked at later.
<1>8. \A m \in Int : m \in Moments(found) => m < a
  <2>1. SUFFICES ASSUME NEW m \in Int, m \in Moments(found) PROVE m < a
    OBVIOUS
  <2>2. PICK i \in DOMAIN found : m \in found[i].start .. found[i].end - 1
    BY <2>1 DEF Moments
  <2>3. found[i].start \in Int /\ found[i].end \in Int
    <3>1. found \in Seq(Spans(G))
      BY <1>2 DEF Lists
    <3>2. found[i] \in Spans(G)
      BY <3>1
    <3>3. QED
      BY <3>2 DEF Spans
  <2>4. found[i].end <= a
    BY <1>6
  <2>5. QED
    BY <2>2, <2>3, <2>4
<1> DEFINE Bare(m) == \A k \in s \cup {x} : m \notin existing[k].start .. existing[k].end - 1
<1>9. \A m \in Int : Bare(m) <=> /\ \A k \in s : m \notin existing[k].start .. existing[k].end - 1
                                 /\ ~ (a <= m /\ m < b)
  BY <1>4
<1>10. CASE c >= end
  <2>1. st2 = st
    BY <1>4, <1>10 DEF NextGap
  <2> HIDE DEF st2, Bare
  <2>2. \A m \in Int : m \in Moments(found) <=> start <= m /\ m < c /\ m < end /\ Bare(m)
    BY <1>4, <1>7, <1>8, <1>9
  <2>3. \A k \in s \cup {x} : existing[k].end <= c \/ c >= end
    BY <1>10
  <2>4. QED
    BY <1>2, <1>4, <1>6, <2>1, <2>2, <2>3, Zenon DEF LookedAt, st2, Bare
<1>11. CASE c < end
  <2> DEFINE last == Smaller(a, end)
             next == Bigger(c, b)
  <2>1. /\ last \in Int /\ last <= a /\ last <= end /\ (last = a \/ last = end)
        /\ next \in Int /\ next >= c /\ next >= b /\ (next = c \/ next = b)
        /\ last \in G /\ last < b
    BY <1>4, <1>5 DEF Smaller, Bigger
  <2>2. CASE c < a
    <3> DEFINE more == Append(found, [start |-> c, end |-> last])
    <3>1. st2 = [gaps |-> more, current |-> next]
      BY <1>4, <1>5, <1>11, <2>2 DEF NextGap
    <3>2. c < last
      BY <1>11, <2>1, <2>2, <1>5
    <3>3. /\ Moments(more) = Moments(found) \cup (c .. last - 1)
          /\ \A i \in DOMAIN found : more[i] = found[i]
          /\ more[Len(more)] = [start |-> c, end |-> last]
          /\ DOMAIN more = DOMAIN found \cup {Len(more)} /\ Len(more) = Len(found) + 1
      <4>1. c \in G /\ last \in G
        BY <1>2, <1>4, <2>1
      <4> HIDE DEF last, found
      <4>2. found \in Lists(G)
        BY <1>2 DEF found
      <4>3. OneRangeMore(G, found, more, c, last)
        BY <3>2, <4>1, <4>2, AppendRange
      <4>4. QED
        BY <4>3, Zenon DEF OneRangeMore
    <3>4. \A i \in DOMAIN found : i < Len(more) /\ i \in Nat /\ Len(more) \in Nat
      <4>1. found \in Seq(Spans(G))
        BY <1>2 DEF Lists
      <4>2. Len(found) \in Nat /\ DOMAIN found = 1 .. Len(found)
        BY <4>1
      <4> HIDE DEF more, found
      <4>3. QED
        BY <3>3, <4>2
    <3> HIDE DEF more, last, next, st2, Bare
    <3>5. st2.gaps = more /\ st2.current = next
      BY <3>1
    <3>6. \A m \in Int : m \in Moments(more) <=> start <= m /\ m < next /\ m < end /\ Bare(m)
      <4>1. SUFFICES ASSUME NEW m \in Int
                     PROVE  m \in Moments(more) <=> start <= m /\ m < next /\ m < end /\ Bare(m)
        OBVIOUS
      <4>2. m \in Moments(more) <=> m \in Moments(found) \/ (c <= m /\ m < last)
        BY <2>1, <3>3
      <4>3. m < c \/ (c <= m /\ m < last) \/ (last <= m)
        BY <2>1
      <4>4. CASE m < c
        BY <1>4, <1>7, <1>8, <1>9, <2>1, <4>2, <4>4
      <4>5. CASE c <= m /\ m < last
        <5>1. \A k \in s : m \notin existing[k].start .. existing[k].end - 1
          <6>1. SUFFICES ASSUME NEW k \in s PROVE existing[k].end <= m /\ existing[k].end \in Int
                                             /\ existing[k].start \in Int
            OBVIOUS
          <6>2. existing[k].end <= c /\ existing[k].end \in Int /\ existing[k].start \in Int
            BY <1>1, <1>5, <1>6, <1>11
          <6>3. QED
            BY <4>5, <6>2
        <5>2. Bare(m)
          BY <1>9, <2>1, <4>5, <5>1
        <5>3. start <= m /\ m < next /\ m < end
          BY <1>5, <1>6, <2>1, <4>5, <1>4
        <5>4. QED
          BY <4>2, <4>5, <5>2, <5>3
      <4>6. CASE last <= m
        <5>1. m \notin Moments(found)
          BY <1>4, <1>7, <2>1, <3>2, <4>6
        <5>2. m < end /\ m < next => a <= m /\ m < b
          BY <1>4, <1>5, <2>1, <2>2, <4>6
        <5>3. QED
          BY <1>9, <2>1, <4>2, <4>6, <5>1, <5>2
      <4>7. QED
        BY <4>3, <4>4, <4>5, <4>6
    <3>7. \A i \in DOMAIN more : /\ more[i].end < next
                                 /\ \E k \in s \cup {x} : more[i].end <= existing[k].start
      <4>1. more[Len(more)].end = last
        BY <3>3
      <4>2. last < next /\ last <= existing[x].start
        BY <1>4, <2>1
      <4>3. ASSUME NEW i \in DOMAIN found
            PROVE  found[i].end < next
        <5>1. found[i].end < c /\ found[i].end \in Int
          <6>1. found \in Seq(Spans(G))
            BY <1>2 DEF Lists
          <6>2. found[i] \in Spans(G)
            BY <6>1
          <6>3. QED
            BY <1>6, <6>2 DEF Spans
        <5>2. QED
          BY <2>1, <5>1
      <4>4. QED
        BY <1>6, <3>3, <4>1, <4>2, <4>3, Zenon
    <3>8. \A i, j \in DOMAIN more : i < j => more[i].end < more[j].start
      <4>1. more[Len(more)].start = c
        BY <3>3
      <4>2. SUFFICES ASSUME NEW i \in DOMAIN more, NEW j \in DOMAIN more, i < j
                     PROVE  more[i].end < more[j].start
        OBVIOUS
      <4>3. i \in DOMAIN found
        BY <3>3, <3>4, <4>2
      <4>4. CASE j = Len(more)
        BY <1>6, <3>3, <4>1, <4>3, <4>4, Zenon
      <4>5. CASE j \in DOMAIN found
        BY <1>6, <3>3, <4>2, <4>3, <4>5, Zenon
      <4>6. QED
        BY <3>3, <4>4, <4>5
    <3>9. \A k \in s \cup {x} : existing[k].end <= next \/ next >= end
      BY <1>1, <1>4, <1>5, <1>6, <1>11, <2>1
    <3>10. start <= next
      BY <1>4, <1>6, <2>1
    <3>11. QED
      BY <1>3, <3>5, <3>6, <3>7, <3>8, <3>9, <3>10, Zenon DEF LookedAt, st2, Bare
  <2>3. CASE ~ (c < a)
    <3>1. st2 = [gaps |-> found, current |-> next]
      BY <1>4, <1>5, <1>11, <2>3 DEF NextGap
    <3> HIDE DEF last, next, st2, Bare
    <3>5. st2.gaps = found /\ st2.current = next
      BY <3>1
    <3>6. \A m \in Int : m \in Moments(found) <=> start <= m /\ m < next /\ m < end /\ Bare(m)
      BY <1>4, <1>5, <1>7, <1>8, <1>9, <1>11, <2>1, <2>3
    <3>7. \A i \in DOMAIN found : /\ found[i].end < next
                                 /\ \E k \in s \cup {x} : found[i].end <= existing[k].start
      <4>3. ASSUME NEW i \in DOMAIN found
            PROVE  found[i].end < next
        <5>1. found[i].end < c /\ found[i].end \in Int
          <6>1. found \in Seq(Spans(G))
            BY <1>2 DEF Lists
          <6>2. found[i] \in Spans(G)
            BY <6>1
          <6>3. QED
            BY <1>6, <6>2 DEF Spans
        <5>2. QED
          BY <2>1, <5>1
      <4>4. QED
        BY <1>6, <4>3, Zenon
    <3>9. \A k \in s \cup {x} : existing[k].end <= next \/ next >= end
      BY <1>1, <1>4, <1>5, <1>6, <1>11, <2>1
    <3>10. start <= next
      BY <1>4, <1>6, <2>1
    <3>11. QED
      BY <1>3, <1>6, <3>5, <3>6, <3>7, <3>9, <3>10, Zenon DEF LookedAt, st2, Bare
  <2>4. QED
    BY <2>2, <2>3
<1>12. QED
  BY <1>4, <1>5, <1>10, <1>11

\* The range that is looked at last.
LatestIn(s, existing) == CHOOSE x \in s : \A y \in s : existing[y].start <= existing[x].start

FromStart(start) == [gaps |-> << >>, current |-> start]

\* The equation of the loop.
IsLook(iter, start, end, existing) ==
  iter = [s \in SUBSET DOMAIN existing |->
            IF s = {} THEN FromStart(start)
            ELSE CHOOSE y \in {NextGap(a, existing[LatestIn(s, existing)], end) :
                                 a \in {iter[s \ {LatestIn(s, existing)}]}} : TRUE]

LEMMA LookExpanded ==
  ASSUME NEW start, NEW end, NEW existing
  PROVE  Looked(start, end, existing)
           = (CHOOSE iter : IsLook(iter, start, end, existing))[DOMAIN existing]
BY Zenon DEF Looked, InOrder, MapThenFoldSet, IsLook, LatestIn, FromStart

LEMMA GapStep ==
  ASSUME NEW range, NEW end, NEW v
  PROVE  (CHOOSE y \in {NextGap(a, range, end) : a \in {v}} : TRUE) = NextGap(v, range, end)
<1>1. {NextGap(a, range, end) : a \in {v}} = {NextGap(v, range, end)}
  BY Zenon
<1>2. QED
  BY <1>1, OnlyOne, Zenon

LEMMA ListIs ==
  ASSUME NEW G \in SUBSET Int, NEW R \in Lists(G)
  PROVE  /\ IsFiniteSet(DOMAIN R)
         /\ \A k \in DOMAIN R : /\ R[k] \in Spans(G) /\ R[k].start \in Int /\ R[k].end \in Int
                                /\ R[k].start \in G /\ R[k].end \in G
                                /\ R[k].start < R[k].end
<1>1. R \in Seq(Spans(G)) /\ \A k \in DOMAIN R : R[k].start < R[k].end
  BY DEF Lists
<1>2. \A k \in DOMAIN R : R[k] \in Spans(G)
  BY <1>1
<1>3. \A r \in Spans(G) : r.start \in Int /\ r.end \in Int /\ r.start \in G /\ r.end \in G
  BY DEF Spans
<1>4. DOMAIN R = 1 .. Len(R) /\ Len(R) \in Nat
  BY <1>1
<1>5. IsFiniteSet(DOMAIN R)
  BY <1>4, FS_Interval
<1>6. QED
  BY <1>1, <1>2, <1>3, <1>5

\* The loop has a value for every set of the ranges.
LEMMA LookExists ==
  ASSUME NEW G \in SUBSET Int, NEW start \in G, NEW end \in G, NEW existing \in Lists(G)
  PROVE  /\ \E iter : IsLook(iter, start, end, existing)
         /\ \A s \in SUBSET DOMAIN existing : s # {} =>
              /\ LatestIn(s, existing) \in s
              /\ \A k \in s : existing[k].start <= existing[LatestIn(s, existing)].start
<1> DEFINE D == DOMAIN existing
           place == [k \in D |-> existing[k].start]
           pick == [s \in SUBSET D |-> LatestIn(s, existing)]
           A == States(G)
           step == [k \in D |-> [st \in A |-> NextGap(st, existing[k], end)]]
<1>1. place \in [D -> Int] /\ IsFiniteSet(D)
  BY ListIs
<1>2. ASSUME NEW s \in SUBSET D, s # {}
      PROVE  /\ LatestIn(s, existing) \in s
             /\ \A k \in s : existing[k].start <= existing[LatestIn(s, existing)].start
  <2>1. \E x \in s : \A y \in s : place[y] <= place[x]
    <3> HIDE DEF place, D
    <3>1. QED
      BY <1>1, <1>2, LargestKey
  <2>2. \E x \in s : \A y \in s : existing[y].start <= existing[x].start
    BY <2>1
  <2>3. QED
    BY <2>2, Zenon DEF LatestIn
<1>3. Picks(pick, D) /\ \A s \in SUBSET D : pick[s] = LatestIn(s, existing)
  BY <1>2 DEF Picks
<1> HIDE DEF pick
<1>4. PICK g : IsFoldOver(g, D, FromStart(start), step, pick)
  <2> HIDE DEF step, D
  <2>1. QED
    BY <1>1, <1>3, FoldOverExists, Zenon
<1>5. \A s \in SUBSET D :
         g[s] = IF s = {} THEN FromStart(start)
                ELSE step[LatestIn(s, existing)][g[s \ {LatestIn(s, existing)}]]
  <2> HIDE DEF step, D
  <2>1. QED
    BY <1>3, <1>4 DEF IsFoldOver
<1> DEFINE Q == {s \in SUBSET D : g[s] \in A}
<1>6. {} \in Q
  <2>1. FromStart(start) \in A
    BY DEF States, Lists, FromStart
  <2> HIDE DEF A
  <2>2. QED
    BY <1>5, <2>1
<1>7. ASSUME NEW s \in SUBSET D, s # {}, s \ {pick[s]} \in Q PROVE s \in Q
  <2>1. PICK k \in D : k = LatestIn(s, existing)
    BY <1>2, <1>7
  <2>2. PICK st \in A : st = g[s \ {k}]
    <3> HIDE DEF A
    <3>1. QED
      BY <1>3, <1>7, <2>1
  <2>3. NextGap(st, existing[k], end) \in A
    BY <2>2, NextGapTyped, ListIs
  <2>4. step[k][st] = NextGap(st, existing[k], end)
    <3> HIDE DEF A
    <3>1. QED
      BY <2>1, <2>2
  <2> HIDE DEF A, step
  <2>5. g[s] = step[k][st]
    BY <1>5, <1>7, <2>1, <2>2
  <2>6. QED
    BY <2>3, <2>4, <2>5
<1>8. \A s \in SUBSET D : s \in Q
  <2> HIDE DEF Q, D
  <2>1. \A s \in SUBSET D : s # {} /\ s \ {pick[s]} \in Q => s \in Q
    BY <1>7
  <2>2. Picks(pick, D)
    BY <1>3
  <2>3. QED
    BY <1>1, <1>6, <2>1, <2>2, PickInd
<1> DEFINE Rhs(s) == IF s = {} THEN FromStart(start)
                     ELSE CHOOSE y \in {NextGap(a, existing[LatestIn(s, existing)], end) :
                                          a \in {g[s \ {LatestIn(s, existing)}]}} : TRUE
<1>9. ASSUME NEW s \in SUBSET D PROVE g[s] = Rhs(s)
  <2>1. CASE s = {}
    BY <1>5, <2>1
  <2>2. CASE s # {}
    <3>1. PICK k \in D : k = LatestIn(s, existing)
      BY <1>2, <2>2
    <3>2. PICK st \in A : st = g[s \ {k}]
      <4> HIDE DEF A
      <4>1. s \ {k} \in SUBSET D
        OBVIOUS
      <4>2. QED
        BY <1>8, <4>1
    <3>3. step[k][st] = NextGap(st, existing[k], end)
      <4> HIDE DEF A
      <4>1. QED
        BY <3>1, <3>2
    <3>4. g[s] = step[k][st]
      <4> HIDE DEF A, step, Q, Rhs
      <4>1. QED
        BY <1>5, <2>2, <3>1, <3>2
    <3>5. g[s] = CHOOSE y \in {NextGap(a, existing[k], end) : a \in {st}} : TRUE
      <4> HIDE DEF A, step, Q, Rhs
      <4>1. QED
        BY <3>3, <3>4, GapStep, Zenon
    <3>6. Rhs(s) = CHOOSE y \in {NextGap(a, existing[k], end) : a \in {st}} : TRUE
      <4> HIDE DEF A, step, Q
      <4>1. QED
        BY <2>2, <3>1, <3>2, Zenon
    <3> HIDE DEF A, step, Q, Rhs
    <3>7. QED
      BY <3>5, <3>6, Zenon
  <2>3. QED
    BY <2>1, <2>2
<1>10. IsLook(g, start, end, existing)
  <2> HIDE DEF A, step, Q
  <2>1. g = [s \in SUBSET D |-> g[s]]
    BY <1>4 DEF IsFoldOver
  <2>2. g = [s \in SUBSET D |-> Rhs(s)]
    <3> HIDE DEF Rhs, D
    <3>1. QED
      BY <1>9, <2>1
  <2>3. QED
    BY <2>2 DEF IsLook
<1>11. QED
  BY <1>2, <1>10, Zenon

\* What the loop ends with.
LEMMA LookedIs ==
  ASSUME NEW G \in SUBSET Int, NEW start \in G, NEW end \in G, NEW existing \in Lists(G)
  PROVE  LookedAt(G, Looked(start, end, existing), start, end, existing, DOMAIN existing)
<1> DEFINE D == DOMAIN existing
           pick == [s \in SUBSET D |-> LatestIn(s, existing)]
<1>1. PICK g : g = CHOOSE iter : IsLook(iter, start, end, existing)
  OBVIOUS
<1>2. /\ IsLook(g, start, end, existing)
      /\ \A s \in SUBSET D : s # {} =>
           /\ LatestIn(s, existing) \in s
           /\ \A k \in s : existing[k].start <= existing[LatestIn(s, existing)].start
  BY <1>1, LookExists, Zenon
<1>3. Looked(start, end, existing) = g[D]
  BY <1>1, LookExpanded, Zenon
<1>4. \A s \in SUBSET D :
         g[s] = IF s = {} THEN FromStart(start)
                ELSE NextGap(g[s \ {LatestIn(s, existing)}], existing[LatestIn(s, existing)], end)
  <2> DEFINE Rhs(s) == IF s = {} THEN FromStart(start)
                       ELSE CHOOSE y \in {NextGap(a, existing[LatestIn(s, existing)], end) :
                                            a \in {g[s \ {LatestIn(s, existing)}]}} : TRUE
  <2>1. g = [s \in SUBSET D |-> Rhs(s)]
    BY <1>2 DEF IsLook
  <2>2. \A s \in SUBSET D : g[s] = Rhs(s)
    <3> HIDE DEF Rhs, D
    <3>1. QED
      BY <2>1
  <2>3. \A s \in SUBSET D :
          Rhs(s) = IF s = {} THEN FromStart(start)
                   ELSE NextGap(g[s \ {LatestIn(s, existing)}], existing[LatestIn(s, existing)], end)
    BY GapStep, Zenon
  <2> HIDE DEF Rhs, D
  <2>4. QED
    BY <2>2, <2>3
<1>5. Picks(pick, D) /\ \A s \in SUBSET D : pick[s] = LatestIn(s, existing)
  BY <1>2 DEF Picks
<1> HIDE DEF pick
<1> DEFINE Q == {s \in SUBSET D : LookedAt(G, g[s], start, end, existing, s)}
<1>6. {} \in Q
  <2>1. g[{}] = FromStart(start)
    BY <1>4
  <2>2. FromStart(start).gaps = << >> /\ FromStart(start).current = start
        /\ FromStart(start) \in States(G) /\ start \in Int /\ Moments(<< >>) = {}
    BY DEF FromStart, States, Lists, Moments
  <2>3. LookedAt(G, FromStart(start), start, end, existing, {})
    BY <2>2 DEF LookedAt
  <2>4. QED
    BY <2>1, <2>3
<1>7. ASSUME NEW s \in SUBSET D, s # {}, s \ {pick[s]} \in Q PROVE s \in Q
  <2>1. PICK x \in D : x = LatestIn(s, existing) /\ x \in s
    BY <1>2, <1>7
  <2>2. PICK st : st = g[s \ {x}]
    OBVIOUS
  <2>3. LookedAt(G, st, start, end, existing, s \ {x})
    BY <1>5, <1>7, <2>1, <2>2
  <2>4. \A k \in s \ {x} : existing[k].start <= existing[x].start
    BY <1>2, <2>1
  <2>5. LookedAt(G, NextGap(st, existing[x], end), start, end, existing, (s \ {x}) \cup {x})
    <3>1. s \ {x} \in SUBSET DOMAIN existing /\ start \in Int
      OBVIOUS
    <3>2. QED
      BY <2>3, <2>4, <3>1, LookStep
  <2>6. (s \ {x}) \cup {x} = s
    BY <2>1
  <2>7. g[s] = NextGap(st, existing[x], end)
    BY <1>4, <1>7, <2>1, <2>2
  <2>8. QED
    BY <2>5, <2>6, <2>7
<1>8. \A s \in SUBSET D : s \in Q
  <2>1. IsFiniteSet(D)
    BY ListIs
  <2>2. \A s \in SUBSET D : s # {} /\ s \ {pick[s]} \in Q => s \in Q
    BY <1>7
  <2>3. Picks(pick, D)
    BY <1>5
  <2> HIDE DEF Q, D
  <2>4. QED
    BY <1>6, <2>1, <2>2, <2>3, PickInd
<1>9. QED
  BY <1>3, <1>8

-----------------------------------------------------------------------------
\* Whatever bars are stored, the gaps are nonempty, apart, in order and together exactly the
\* moments of the range in no stored bar (calculate_gaps over query_data_ranges); and they
\* start and end where the range or a stored bar does.
LEMMA GapsExact ==
  ASSUME NEW G \in SUBSET Int, NEW start \in G, NEW end \in G,
         NEW table, IsFiniteSet(table), MarkedBy(table, G)
  PROVE  LET found == CalculateGaps(start, end, DataRanges(table))
         IN  found \in Lists(G) /\ GapsOf(table, start, end, found)
<1> DEFINE existing == DataRanges(table)
           found == CalculateGaps(start, end, existing)
<1>1. existing \in Lists(G) /\ Moments(existing) = Lasting(table)
  BY DataRangesAre
<1>2. start \in Int /\ end \in Int
  OBVIOUS
<1>3. CASE start >= end
  <2>1. found = << >> /\ << >> \in Lists(G) /\ Moments(<< >>) = {}
    BY <1>3 DEF CalculateGaps, Lists, Moments
  <2>2. start .. end - 1 = {}
    BY <1>2, <1>3
  <2> HIDE DEF found
  <2>3. GapsOf(table, start, end, << >>)
    BY <2>1, <2>2 DEF GapsOf
  <2>4. QED
    BY <2>1, <2>3 DEF found
<1>4. CASE start < end
  <2> DEFINE looked == Looked(start, end, existing)
             old == looked.gaps
  <2>1. LookedAt(G, looked, start, end, existing, DOMAIN existing)
    <3> HIDE DEF existing
    <3>1. QED
      BY <1>1, LookedIs
  <2>2. found = IF looked.current < end
               THEN Append(old, [start |-> looked.current, end |-> end]) ELSE old
    BY <1>2, <1>4 DEF CalculateGaps
  <2> HIDE DEF looked, found
  <2>3. /\ old \in Lists(G) /\ looked.current \in Int /\ looked.current \in G
    BY <2>1 DEF LookedAt, States
  <2>4. /\ \A i, j \in DOMAIN old : i < j => old[i].end < old[j].start
        /\ \A i \in DOMAIN old : old[i].end < looked.current
        /\ start <= looked.current
        /\ \A k \in DOMAIN existing : existing[k].end <= looked.current \/ looked.current >= end
    BY <2>1 DEF LookedAt
  <2> HIDE DEF existing
  <2>5. \A m \in Int : m \in Moments(old) <=>
          start <= m /\ m < looked.current /\ m < end /\ m \notin Moments(existing)
    BY <2>1 DEF LookedAt, Moments
  <2>6. \A m \in Moments(existing) : m < looked.current \/ looked.current >= end
    <3>1. SUFFICES ASSUME NEW m \in Moments(existing) PROVE m < looked.current \/ looked.current >= end
      OBVIOUS
    <3>2. PICK k \in DOMAIN existing : m \in existing[k].start .. existing[k].end - 1
      BY DEF Moments
    <3>3. existing[k].start \in Int /\ existing[k].end \in Int
      BY <1>1, ListIs
    <3>4. QED
      BY <2>3, <2>4, <3>2, <3>3
  <2>7. \A R \in Lists(G) : Moments(R) \subseteq Int
    <3>1. SUFFICES ASSUME NEW R \in Lists(G), NEW m \in Moments(R) PROVE m \in Int
      OBVIOUS
    <3>2. PICK k \in DOMAIN R : m \in R[k].start .. R[k].end - 1
      BY DEF Moments
    <3>3. R[k].start \in Int /\ R[k].end \in Int
      BY ListIs
    <3>4. QED
      BY <3>2, <3>3
  <2>8. found \in Lists(G) /\ (\A m \in Int : m \in Moments(found) <=>
                                start <= m /\ m < end /\ m \notin Moments(existing))
        /\ \A i, j \in DOMAIN found : i < j => found[i].end < found[j].start
    <3>1. CASE looked.current < end
      <4>1. found = Append(old, [start |-> looked.current, end |-> end])
        BY <2>2, <3>1
      <4>2. /\ found \in Lists(G)
            /\ Moments(found) = Moments(old) \cup (looked.current .. end - 1)
            /\ \A i \in DOMAIN old : found[i] = old[i]
            /\ found[Len(found)] = [start |-> looked.current, end |-> end]
            /\ DOMAIN found = DOMAIN old \cup {Len(found)} /\ Len(found) = Len(old) + 1
        <5>1. PICK o \in Lists(G), c \in G : o = old /\ c = looked.current /\ c < end
          BY <2>3, <3>1
        <5>2. found = Append(o, [start |-> c, end |-> end])
          BY <4>1, <5>1, Zenon
        <5> HIDE DEF old
        <5>3. OneRangeMore(G, o, Append(o, [start |-> c, end |-> end]), c, end)
          BY <5>1, AppendRange
        <5>4. OneRangeMore(G, old, found, looked.current, end)
          BY <5>1, <5>2, <5>3
        <5>5. QED
          BY <5>4, Zenon DEF OneRangeMore
      <4>3. Len(old) \in Nat /\ DOMAIN old = 1 .. Len(old)
        <5>1. old \in Seq(Spans(G))
          BY <2>3 DEF Lists
        <5>2. QED
          BY <5>1
      <4> HIDE DEF old
      <4>4. \A m \in Int : m \in Moments(found) <=>
              start <= m /\ m < end /\ m \notin Moments(existing)
        <5>1. SUFFICES ASSUME NEW m \in Int
                       PROVE  m \in Moments(found) <=> start <= m /\ m < end /\ m \notin Moments(existing)
          OBVIOUS
        <5>2. m \in Moments(found) <=> m \in Moments(old) \/ (looked.current <= m /\ m < end)
          BY <1>2, <2>3, <4>2
        <5>3. m \in Moments(existing) => m < looked.current
          BY <1>2, <2>3, <2>6, <3>1
        <5>4. QED
          BY <1>2, <2>3, <2>4, <2>5, <3>1, <5>2, <5>3
      <4>5. \A i, j \in DOMAIN found : i < j => found[i].end < found[j].start
        <5>1. found[Len(found)].start = looked.current
          BY <4>2
        <5>2. SUFFICES ASSUME NEW i \in DOMAIN found, NEW j \in DOMAIN found, i < j
                       PROVE  found[i].end < found[j].start
          OBVIOUS
        <5>3. i \in DOMAIN old
          BY <4>2, <4>3, <5>2
        <5>4. CASE j = Len(found)
          BY <2>4, <4>2, <5>1, <5>3, <5>4, Zenon
        <5>5. CASE j \in DOMAIN old
          BY <2>4, <4>2, <5>2, <5>3, <5>5, Zenon
        <5>6. QED
          BY <4>2, <5>4, <5>5
      <4>6. QED
        BY <4>2, <4>4, <4>5
    <3>2. CASE ~ (looked.current < end)
      <4>1. found = old
        BY <2>2, <3>2
      <4> HIDE DEF old
      <4>2. QED
        BY <1>2, <2>3, <2>4, <2>5, <3>2, <4>1
    <3>3. QED
      BY <3>1, <3>2
  <2>9. Moments(found) = (start .. end - 1) \ Moments(existing)
    BY <1>2, <2>7, <2>8
  <2>10. \A i \in DOMAIN found : found[i].start < found[i].end
    BY <2>8 DEF Lists
  <2>11. GapsOf(table, start, end, found)
    BY <1>1, <2>8, <2>9, <2>10 DEF GapsOf, Lasting
  <2>12. QED
    BY <2>8, <2>11 DEF found, existing
<1>5. QED
  BY <1>2, <1>3, <1>4

-----------------------------------------------------------------------------
\* The table and the work of the calls.

LEMMA Scaled ==
  \A a, b \in Int : /\ Millis * a \in Int
                    /\ Millis * a <= Millis * b <=> a <= b
                    /\ a < b => Millis * a <= Millis * b - 1
<1>1. Millis \in Nat /\ Millis > 0
  BY FetcherAssumption
<1>2. QED
  BY <1>1, Z3

\* Finitely many bars answer a request for a gap, and a custom adapter answers with
\* those that the exchange has in it.
LEMMA AnswersAre ==
  ASSUME adapter \in Adapters, NEW gap \in Spans(Int), NEW brought \in Answers(gap)
  PROVE  /\ IsFiniteSet(brought) /\ brought \subseteq Int
         /\ adapter # "okx" => brought \subseteq Market
         /\ adapter = "custom" =>
              \A t \in Market : gap.start <= t /\ t < gap.end => t \in brought
<1>1. PICK a \in Int, b \in Int : a = gap.start /\ b = gap.end
  BY DEF Spans
<1>2. PICK from \in Int, to \in Int :
        from = Millis * a /\ to = Millis * b /\ Window(gap) = [start |-> from, end |-> to]
  BY <1>1, Scaled DEF Window
<1>3. Market \subseteq Int /\ adapter \in {"binance", "okx", "custom"}
  BY FetcherAssumption
<1>4. \A s \in SUBSET (from .. to) : IsFiniteSet(s)
  BY FS_Interval, FS_Subset
<1>5. CASE adapter = "binance"
  <2>1. brought = {t \in Market : from <= t /\ t <= to}
    BY <1>2, <1>5 DEF Answers, Paginated
  <2>2. brought \in SUBSET (from .. to)
    <3>1. SUFFICES ASSUME NEW t \in brought PROVE t \in from .. to
      OBVIOUS
    <3>2. t \in Market /\ from <= t /\ t <= to
      BY <2>1
    <3>3. t \in Int
      BY <1>3, <3>2
    <3>4. QED
      BY <3>2, <3>3
  <2>3. QED
    BY <1>3, <1>4, <1>5, <2>1, <2>2
<1>6. CASE adapter = "okx"
  <2>1. PICK n \in Int : n = (to - from) \div BarLength - 1
    BY BarLengthAssumption
  <2>2. brought = {from + i * BarLength : i \in 0 .. n}
    BY <1>2, <1>6, <2>1 DEF Answers, Synthetic
  <2> DEFINE at == [i \in 0 .. n |-> from + i * BarLength]
  <2>3. IsFiniteSet(0 .. n) /\ brought = {at[i] : i \in 0 .. n} /\ DOMAIN at = 0 .. n
    BY <2>2, FS_Interval
  <2>4. \A i \in 0 .. n : from + i * BarLength \in Int
    BY BarLengthAssumption
  <2>5. IsFiniteSet(brought)
    <3> HIDE DEF at
    <3>1. QED
      BY <2>3, ImageOf
  <2>6. brought \subseteq Int
    BY <2>2, <2>4
  <2>7. QED
    BY <1>6, <2>5, <2>6
<1>7. CASE adapter = "custom"
  <2>1. PICK last \in {to - 1, to} :
          brought = {t \in Market : from <= Millis * t /\ Millis * t <= last}
    BY <1>2, <1>7 DEF Answers, InMillis
  <2>2. \A t \in Market : t \in Int /\ Millis * t \in Int
    BY <1>3, Scaled
  <2>3. last \in Int /\ (last = to \/ last = to - 1)
    OBVIOUS
  <2>4. brought \in SUBSET (a .. b)
    <3>1. SUFFICES ASSUME NEW t \in brought PROVE t \in Int /\ a <= t /\ t <= b
      OBVIOUS
    <3>2. t \in Market /\ from <= Millis * t /\ Millis * t <= last
      BY <2>1
    <3>3. t \in Int /\ Millis * t \in Int
      BY <2>2, <3>2
    <3>4. Millis * t <= to
      BY <2>3, <3>2, <3>3
    <3>5. QED
      BY <1>2, <3>2, <3>3, <3>4, Scaled
  <2>5. IsFiniteSet(brought)
    BY <2>4, FS_Interval, FS_Subset
  <2>6. ASSUME NEW t \in Market, a <= t, t < b PROVE t \in brought
    <3>1. t \in Int /\ Millis * t \in Int
      BY <2>2
    <3>2. from <= Millis * t /\ Millis * t <= to - 1
      BY <1>2, <2>6, <3>1, Scaled
    <3>3. Millis * t <= last
      BY <2>3, <3>1, <3>2
    <3>4. QED
      BY <2>1, <3>2, <3>3
  <2>7. brought \subseteq Market
    BY <2>1
  <2>8. brought \subseteq Int
    BY <1>3, <2>7
  <2>9. QED
    BY <1>1, <2>5, <2>6, <2>7, <2>8
<1>8. QED
  BY <1>3, <1>5, <1>6, <1>7

\* The loop over the gaps: the one that is fetched, and the rest.
LEMMA HeadAndTail ==
  ASSUME NEW G \in SUBSET Int, NEW R \in Lists(G), R # << >>
  PROVE  /\ Head(R) \in Spans(G) /\ Tail(R) \in Lists(G)
         /\ Len(R) > 1 => Tail(R) # << >>
         /\ ~ (Len(R) > 1) => Tail(R) = << >>
         /\ \A m \in Moments(R) : m \in Head(R).start .. Head(R).end - 1 \/ m \in Moments(Tail(R))
<1>1. R \in Seq(Spans(G)) /\ \A k \in DOMAIN R : R[k].start < R[k].end
  BY DEF Lists
<1>2. Len(R) \in Nat /\ Len(R) > 0 /\ DOMAIN R = 1 .. Len(R)
  BY <1>1
<1>3. PICK T : T = Tail(R)
  OBVIOUS
<1>4. T \in Seq(Spans(G)) /\ Len(T) = Len(R) - 1 /\ DOMAIN T = 1 .. Len(T)
      /\ \A i \in 1 .. Len(T) : T[i] = R[i + 1]
  BY <1>1, <1>3
<1>5. Head(R) = R[1] /\ 1 \in DOMAIN R /\ R[1] \in Spans(G)
  BY <1>1, <1>2
<1>6. ASSUME NEW i \in DOMAIN T PROVE T[i].start < T[i].end
  <2>1. i + 1 \in DOMAIN R /\ T[i] = R[i + 1]
    BY <1>2, <1>4
  <2>2. QED
    BY <1>1, <2>1
<1>7. T \in Lists(G)
  BY <1>4, <1>6 DEF Lists
<1>8. Len(R) > 1 => T # << >>
  BY <1>2, <1>4
<1>9. ~ (Len(R) > 1) => T = << >>
  BY <1>2, <1>4
<1>10. ASSUME NEW m \in Moments(R)
       PROVE  m \in Head(R).start .. Head(R).end - 1 \/ m \in Moments(T)
  <2>1. PICK k \in DOMAIN R : m \in R[k].start .. R[k].end - 1
    BY DEF Moments
  <2>2. CASE k = 1
    BY <1>5, <2>1, <2>2
  <2>3. CASE k # 1
    <3>1. k - 1 \in DOMAIN T /\ T[k - 1] = R[k]
      BY <1>2, <1>4, <2>3
    <3>2. m \in T[k - 1].start .. T[k - 1].end - 1
      BY <2>1, <3>1
    <3>3. QED
      BY <3>1, <3>2, Zenon DEF Moments
  <2>4. QED
    BY <2>2, <2>3
<1>11. QED
  BY <1>3, <1>5, <1>7, <1>8, <1>9, <1>10

-----------------------------------------------------------------------------
\* The table stays finite, and the gaps of a call are ranges.

Windows == [start : Int, end : Int]

TableInv ==
  /\ IsFiniteSet(rows) /\ rows \subseteq Row
  /\ adapter \in Adapters
  /\ DOMAIN pc = Callers
  /\ request \in [Callers -> Windows]
  /\ gaps \in [Callers -> Lists(Int)]
  /\ fetched \in [Callers -> SUBSET Int]
  /\ \A c \in Callers : IsFiniteSet(fetched[c])
  /\ \A c \in Callers : pc[c] \in {"fetching", "inserting"} => gaps[c] # << >>

\* The steps of the fetcher, for any ranges, and those that leave its work alone.
FetcherAction ==
  \E c \in Callers : \/ \E r \in Windows : Lead(c, r) \/ Follow(c, r) \/ Verify(c, r)
                    \/ Step(c)
                    \/ Fail(c)
                    \/ Drop(c)

Quiet == UNCHANGED <<rows, adapter, pc, request, gaps, fetched>>

Moves == FetcherAction \/ Quiet

LEMMA NextMoves == [Next]_vars => Moves
<1> SUFFICES ASSUME [Next]_vars PROVE Moves
  OBVIOUS
<1>1. CASE UNCHANGED vars
  BY <1>1 DEF vars, world, task, Moves, Quiet
<1>2. CASE Next
  <2>1. Requests \subseteq Windows
    BY FetcherAssumption DEF Windows
  <2>2. QED
    BY <1>2, <2>1, Zenon DEF Next, Moves, FetcherAction
<1>3. QED
  BY <1>1, <1>2

LEMMA EmptyList == \A G : << >> \in Lists(G)
BY DEF Lists

LEMMA TableInit == Init => TableInv
<1> SUFFICES ASSUME Init PROVE TableInv
  OBVIOUS
<1>1. rows \in FirstRows /\ IsFiniteSet(rows) /\ rows \subseteq Row /\ adapter \in Adapters
  BY FetcherAssumption DEF Init, Row
<1>2. NoRequest \in Windows
  BY DEF NoRequest, Windows
<1>3. /\ request \in [Callers -> Windows] /\ DOMAIN pc = Callers
      /\ gaps \in [Callers -> Lists(Int)]
      /\ fetched \in [Callers -> SUBSET Int]
  BY <1>2, EmptyList DEF Init
<1>4. \A c \in Callers : IsFiniteSet(fetched[c]) /\ pc[c] = "idle"
  BY FS_EmptySet DEF Init
<1>5. QED
  BY <1>1, <1>3, <1>4 DEF TableInv

\* The ranges that calculate_gaps finds in the table.
LEMMA MissingAre ==
  ASSUME TableInv, NEW r \in Windows, NEW missing \in Missing(r)
  PROVE  /\ missing = CalculateGaps(r.start, r.end, DataRanges(rows))
         /\ missing \in Lists(Int)
         /\ GapsOf(rows, r.start, r.end, missing)
<1>1. missing = CalculateGaps(r.start, r.end, DataRanges(rows))
  BY DEF Missing
<1>2. r.start \in Int /\ r.end \in Int
  BY DEF Windows
<1>3. IsFiniteSet(rows) /\ MarkedBy(rows, Int)
  BY BarLengthAssumption DEF TableInv, MarkedBy, Row
<1>4. QED
  BY <1>1, <1>2, <1>3, GapsExact

\* What the loop over the gaps does to them.
LEMMA NextRangeIs ==
  ASSUME NEW c \in Callers, NextRange(c),
         TableInv, gaps[c] # << >>
  PROVE  /\ gaps' = [gaps EXCEPT ![c] = Tail(gaps[c])]
         /\ gaps'[c] \in Lists(Int)
         /\ pc' \in {[pc EXCEPT ![c] = "fetching"], [pc EXCEPT ![c] = "finishing"]}
         /\ \/ pc'[c] = "fetching" /\ gaps'[c] # << >> /\ result' = result
            \/ /\ pc'[c] = "finishing" /\ gaps'[c] = << >>
               /\ result' = [result EXCEPT ![c] = "Ok"]
<1>1. gaps[c] \in Lists(Int) /\ gaps[c] # << >> /\ DOMAIN pc = Callers /\ DOMAIN gaps = Callers
  BY DEF TableInv
<1>2. gaps' = [gaps EXCEPT ![c] = Tail(gaps[c])] /\ gaps'[c] = Tail(gaps[c])
  BY <1>1 DEF NextRange
<1>3. /\ Tail(gaps[c]) \in Lists(Int)
      /\ Len(gaps[c]) > 1 => Tail(gaps[c]) # << >>
      /\ ~ (Len(gaps[c]) > 1) => Tail(gaps[c]) = << >>
  BY <1>1, HeadAndTail
<1>4. \/ Len(gaps[c]) > 1 /\ pc' = [pc EXCEPT ![c] = "fetching"] /\ result' = result
      \/ /\ ~ (Len(gaps[c]) > 1) /\ pc' = [pc EXCEPT ![c] = "finishing"]
         /\ result' = [result EXCEPT ![c] = "Ok"]
  BY DEF NextRange, EndsWith
<1>5. QED
  BY <1>1, <1>2, <1>3, <1>4

LEMMA TableStep ==
  ASSUME TableInv, FetcherAction
  PROVE  TableInv'
<1>0. /\ IsFiniteSet(rows) /\ rows \subseteq Row /\ adapter \in Adapters
      /\ DOMAIN pc = Callers /\ request \in [Callers -> Windows]
      /\ gaps \in [Callers -> Lists(Int)] /\ fetched \in [Callers -> SUBSET Int]
      /\ \A c \in Callers : IsFiniteSet(fetched[c])
      /\ \A c \in Callers : pc[c] \in {"fetching", "inserting"} => gaps[c] # << >>
  BY DEF TableInv
<1>1. ASSUME NEW c \in Callers, NEW r \in Windows, Lead(c, r) PROVE TableInv'
  BY <1>0, <1>1 DEF Lead, Call, world, TableInv
<1>2. ASSUME NEW c \in Callers, NEW r \in Windows, Follow(c, r) PROVE TableInv'
  BY <1>0, <1>2 DEF Follow, Call, world, TableInv
<1>3. ASSUME NEW c \in Callers, NEW r \in Windows, Verify(c, r) PROVE TableInv'
  <2>1. PICK missing \in Missing(r) : gaps' = [gaps EXCEPT ![c] = missing]
    BY <1>3 DEF Verify
  <2>2. missing \in Lists(Int)
    BY <2>1, MissingAre
  <2>3. /\ UNCHANGED <<rows, adapter, fetched>> /\ pc' = [pc EXCEPT ![c] = "verifying"]
        /\ request' = [request EXCEPT ![c] = r]
    BY <1>3 DEF Verify, Call, world
  <2>4. QED
    BY <1>0, <2>1, <2>2, <2>3 DEF TableInv
<1>4. ASSUME NEW c \in Callers, Poll(c) PROVE TableInv'
  BY <1>0, <1>4 DEF Poll, world, TableInv
<1>5. ASSUME NEW c \in Callers, Report(c) PROVE TableInv'
  <2>1. /\ UNCHANGED <<rows, adapter, fetched, request>> /\ pc' = [pc EXCEPT ![c] = "idle"]
        /\ gaps' = [gaps EXCEPT ![c] = << >>]
    BY <1>5 DEF Report, world
  <2>2. QED
    BY <1>0, <2>1, EmptyList DEF TableInv
<1>6. ASSUME NEW c \in Callers, Plan(c) PROVE TableInv'
  <2>1. UNCHANGED <<rows, adapter, fetched, request>>
    BY <1>6 DEF Plan, world
  <2>2. PICK missing \in Missing(request[c]) :
          \/ pc' = [pc EXCEPT ![c] = "finishing"] /\ UNCHANGED gaps
          \/ /\ missing # << >>
             /\ gaps' = [gaps EXCEPT ![c] = missing]
             /\ pc' = [pc EXCEPT ![c] = "fetching"]
    BY <1>6 DEF Plan, EndsWith
  <2>3. missing \in Lists(Int)
    BY <1>0, <2>2, MissingAre
  <2>4. QED
    BY <1>0, <2>1, <2>2, <2>3 DEF TableInv
<1>7. ASSUME NEW c \in Callers, Fetch(c) PROVE TableInv'
  <2>1. UNCHANGED <<rows, adapter, request>> /\ gaps[c] # << >>
    BY <1>0, <1>7 DEF Fetch, world
  <2>2. PICK brought \in Answers(Head(gaps[c])) :
          \/ NextRange(c) /\ UNCHANGED fetched
          \/ /\ fetched' = [fetched EXCEPT ![c] = brought]
             /\ pc' = [pc EXCEPT ![c] = "inserting"]
             /\ UNCHANGED gaps
    BY <1>7 DEF Fetch
  <2>3. CASE NextRange(c) /\ UNCHANGED fetched
    <3>1. /\ gaps' = [gaps EXCEPT ![c] = Tail(gaps[c])] /\ gaps'[c] \in Lists(Int)
          /\ pc' \in {[pc EXCEPT ![c] = "fetching"], [pc EXCEPT ![c] = "finishing"]}
          /\ pc'[c] = "fetching" => gaps'[c] # << >>
      BY <2>1, <2>3, NextRangeIs
    <3>2. gaps' \in [Callers -> Lists(Int)]
      BY <1>0, <3>1
    <3>3. QED
      BY <1>0, <2>1, <2>3, <3>1, <3>2 DEF TableInv
  <2>4. CASE /\ fetched' = [fetched EXCEPT ![c] = brought]
             /\ pc' = [pc EXCEPT ![c] = "inserting"]
             /\ UNCHANGED gaps
    <3>1. IsFiniteSet(brought) /\ brought \in SUBSET Int
      <4>1. gaps[c] \in Lists(Int)
        BY <1>0
      <4>2. Head(gaps[c]) \in Spans(Int)
        BY <2>1, <4>1, HeadAndTail
      <4>3. QED
        BY <1>0, <4>2, AnswersAre
    <3>2. QED
      BY <1>0, <2>1, <2>4, <3>1 DEF TableInv
  <2>5. QED
    BY <2>2, <2>3, <2>4
<1>8. ASSUME NEW c \in Callers, Insert(c) PROVE TableInv'
  <2>1. /\ UNCHANGED <<adapter, request>> /\ gaps[c] # << >>
        /\ fetched' = [fetched EXCEPT ![c] = {}] /\ NextRange(c)
        /\ rows' = rows \cup {[timestamp |-> t, exchange |-> adapter] : t \in fetched[c]}
    BY <1>0, <1>8 DEF Insert
  <2>2. /\ gaps' = [gaps EXCEPT ![c] = Tail(gaps[c])] /\ gaps'[c] \in Lists(Int)
        /\ pc' \in {[pc EXCEPT ![c] = "fetching"], [pc EXCEPT ![c] = "finishing"]}
        /\ pc'[c] = "fetching" => gaps'[c] # << >>
    BY <2>1, NextRangeIs
  <2>3. gaps' \in [Callers -> Lists(Int)]
    BY <1>0, <2>2
  <2>4. IsFiniteSet(rows') /\ rows' \subseteq Row
    <3> DEFINE f == [t \in fetched[c] |-> [timestamp |-> t, exchange |-> adapter]]
               new == {f[t] : t \in fetched[c]}
    <3>1. IsFiniteSet(fetched[c]) /\ DOMAIN f = fetched[c] /\ fetched[c] \subseteq Int
      BY <1>0
    <3>2. rows' = rows \cup new
      BY <2>1
    <3>3. \A t \in fetched[c] : f[t] \in Row
      BY <1>0, <3>1, FetcherAssumption DEF Row
    <3> HIDE DEF f
    <3>4. IsFiniteSet(new)
      BY <3>1, ImageOf
    <3>5. new \subseteq Row
      BY <3>3
    <3> HIDE DEF new
    <3>6. IsFiniteSet(rows \cup new)
      BY <1>0, <3>4, FS_Union
    <3>7. QED
      BY <1>0, <3>2, <3>5, <3>6
  <2>5. \A d \in Callers : IsFiniteSet(fetched'[d])
    BY <1>0, <2>1, FS_EmptySet
  <2>6. fetched' \in [Callers -> SUBSET Int]
    BY <1>0, <2>1
  <2>7. \A d \in Callers : pc'[d] \in {"fetching", "inserting"} => gaps'[d] # << >>
    BY <1>0, <2>2
  <2>8. QED
    BY <1>0, <2>1, <2>2, <2>3, <2>4, <2>5, <2>6, <2>7 DEF TableInv
<1>9. ASSUME NEW c \in Callers, Fail(c) PROVE TableInv'
  <2>1. /\ UNCHANGED <<rows, adapter, request>> /\ pc' = [pc EXCEPT ![c] = "finishing"]
        /\ gaps' = [gaps EXCEPT ![c] = << >>] /\ fetched' = [fetched EXCEPT ![c] = {}]
    BY <1>9 DEF Fail, EndsWith, world
  <2>2. QED
    BY <1>0, <2>1, EmptyList, FS_EmptySet DEF TableInv
<1>10. ASSUME NEW c \in Callers, Finish(c) PROVE TableInv'
  BY <1>0, <1>10 DEF Finish, world, task, TableInv
<1>11. ASSUME NEW c \in Callers, Drop(c) PROVE TableInv'
  <2>1. /\ UNCHANGED <<rows, adapter, request>> /\ pc' = [pc EXCEPT ![c] = "idle"]
        /\ gaps' = [gaps EXCEPT ![c] = << >>] /\ fetched' = [fetched EXCEPT ![c] = {}]
    BY <1>11 DEF Drop, world
  <2>2. QED
    BY <1>0, <2>1, EmptyList, FS_EmptySet DEF TableInv
<1>12. QED
  BY <1>1, <1>2, <1>3, <1>4, <1>5, <1>6, <1>7, <1>8, <1>9, <1>10, <1>11 DEF FetcherAction, Step

LEMMA TableMoves ==
  ASSUME TableInv, Moves
  PROVE  TableInv'
<1>1. CASE FetcherAction
  BY <1>1, TableStep
<1>2. CASE Quiet
  BY <1>2 DEF TableInv, Quiet
<1>3. QED
  BY <1>1, <1>2 DEF Moves

LEMMA TableNext == TableInv /\ [Next]_vars => TableInv'
BY TableMoves, NextMoves

\* calculate_gaps, over every table the calls can produce: the gaps of a range are its
\* moments in no stored bar, nonempty, in order and apart.
THEOREM GapsAlwaysExact == Spec => []GapsAreExact
<1>1. TableInv => GapsAreExact
  <2>1. SUFFICES ASSUME TableInv, NEW r \in Requests
                 PROVE GapsOf(rows, r.start, r.end, CalculateGaps(r.start, r.end, DataRanges(rows)))
    BY DEF GapsAreExact
  <2>2. r.start \in Int /\ r.end \in Int
    BY FetcherAssumption
  <2>3. IsFiniteSet(rows) /\ MarkedBy(rows, Int)
    BY <2>1, BarLengthAssumption DEF TableInv, MarkedBy, Row
  <2>4. QED
    BY <2>2, <2>3, GapsExact
<1>2. QED
  BY TableInit, TableNext, <1>1, PTL DEF Spec

-----------------------------------------------------------------------------
\* Bars open at whole minutes.

Minutes == {t \in Int : t % BarLength = 0}

OnTheMinute == \A row \in rows : row.timestamp \in Minutes

\* Those of the exchange and those that are stored at the start do.
WholeMinutes ==
  /\ Market \subseteq Minutes
  /\ \A table \in FirstRows : \A row \in table : row.timestamp \in Minutes

MinuteInv == adapter # "okx" => OnTheMinute /\ \A c \in Callers : fetched[c] \subseteq Market

LEMMA MinuteInit == WholeMinutes /\ Init => MinuteInv
<1> SUFFICES ASSUME WholeMinutes, Init PROVE MinuteInv
  OBVIOUS
<1>1. OnTheMinute
  BY DEF WholeMinutes, Init, OnTheMinute
<1>2. \A c \in Callers : fetched[c] = {}
  BY DEF Init
<1>3. QED
  BY <1>1, <1>2 DEF MinuteInv

\* What a step does to the table and to the bars about to be inserted.
LEMMA BarsOfStep ==
  ASSUME TableInv, Moves
  PROVE  /\ UNCHANGED adapter
         /\ \/ UNCHANGED rows
            \/ \E c \in Callers :
                 rows' = rows \cup {[timestamp |-> t, exchange |-> adapter] : t \in fetched[c]}
         /\ \A d \in Callers : \/ fetched'[d] = fetched[d]
                               \/ fetched'[d] = {}
                               \/ \E gap \in Spans(Int) : fetched'[d] \in Answers(gap)
<1>0. /\ fetched \in [Callers -> SUBSET Int] /\ gaps \in [Callers -> Lists(Int)]
      /\ \A c \in Callers : pc[c] \in {"fetching", "inserting"} => gaps[c] # << >>
  BY DEF TableInv
<1>1. CASE Quiet
  BY <1>1 DEF Quiet
<1>2. ASSUME NEW c \in Callers, NEW r \in Windows, Lead(c, r) \/ Follow(c, r) \/ Verify(c, r)
      PROVE  UNCHANGED <<rows, adapter, fetched>>
  BY <1>2 DEF Lead, Follow, Verify, Call, world
<1>3. ASSUME NEW c \in Callers, Poll(c) \/ Plan(c) \/ Finish(c) \/ Report(c)
      PROVE  UNCHANGED <<rows, adapter, fetched>>
  BY <1>3 DEF Poll, Plan, Finish, Report, world, task
<1>4. ASSUME NEW c \in Callers, Fail(c) \/ Drop(c)
      PROVE  UNCHANGED <<rows, adapter>> /\ fetched' = [fetched EXCEPT ![c] = {}]
  BY <1>4 DEF Fail, Drop, world
<1>5. ASSUME NEW c \in Callers, Insert(c)
      PROVE  /\ UNCHANGED adapter /\ fetched' = [fetched EXCEPT ![c] = {}]
             /\ rows' = rows \cup {[timestamp |-> t, exchange |-> adapter] : t \in fetched[c]}
  BY <1>5 DEF Insert
<1>6. ASSUME NEW c \in Callers, Fetch(c)
      PROVE  /\ UNCHANGED <<rows, adapter>>
             /\ \A d \in Callers : \/ fetched'[d] = fetched[d]
                                   \/ \E gap \in Spans(Int) : fetched'[d] \in Answers(gap)
  <2>1. UNCHANGED <<rows, adapter>> /\ gaps[c] # << >> /\ gaps[c] \in Lists(Int)
    BY <1>0, <1>6 DEF Fetch, world
  <2>2. Head(gaps[c]) \in Spans(Int)
    BY <2>1, HeadAndTail
  <2>3. PICK brought \in Answers(Head(gaps[c])) :
          UNCHANGED fetched \/ fetched' = [fetched EXCEPT ![c] = brought]
    BY <1>6 DEF Fetch
  <2>4. QED
    BY <1>0, <2>1, <2>2, <2>3
<1>7. QED
  BY <1>0, <1>1, <1>2, <1>3, <1>4, <1>5, <1>6 DEF Moves, FetcherAction, Step

LEMMA MinuteMoves ==
  WholeMinutes /\ TableInv /\ MinuteInv /\ Moves => MinuteInv'
<1> SUFFICES ASSUME WholeMinutes, TableInv, MinuteInv, Moves, adapter' # "okx"
             PROVE  OnTheMinute' /\ \A c \in Callers : fetched'[c] \subseteq Market
  BY DEF MinuteInv
<1>1. adapter' = adapter /\ OnTheMinute /\ \A c \in Callers : fetched[c] \subseteq Market
  BY BarsOfStep DEF MinuteInv
<1>2. OnTheMinute'
  <2>1. CASE UNCHANGED rows
    BY <1>1, <2>1 DEF OnTheMinute
  <2>2. ASSUME NEW c \in Callers,
               rows' = rows \cup {[timestamp |-> t, exchange |-> adapter] : t \in fetched[c]}
        PROVE  OnTheMinute'
    <3>1. \A t \in fetched[c] : t \in Minutes
      BY <1>1 DEF WholeMinutes
    <3>2. QED
      BY <1>1, <2>2, <3>1 DEF OnTheMinute
  <2>3. QED
    BY <2>1, <2>2, BarsOfStep
<1>3. ASSUME NEW c \in Callers PROVE fetched'[c] \subseteq Market
  <2>1. adapter \in Adapters
    BY DEF TableInv
  <2>2. \A gap \in Spans(Int) : fetched'[c] \in Answers(gap) => fetched'[c] \subseteq Market
    BY <1>1, <2>1, AnswersAre
  <2>3. QED
    BY <1>1, <2>2, BarsOfStep
<1>4. QED
  BY <1>2, <1>3

\* Unless okx makes them up, the table holds bars of whole minutes only.
THEOREM MinutesStay ==
  WholeMinutes => (Spec => [](adapter # "okx" => OnTheMinute))
<1>1. MinuteInv => (adapter # "okx" => OnTheMinute)
  BY DEF MinuteInv
<1>2. SUFFICES ASSUME WholeMinutes PROVE Spec => [](adapter # "okx" => OnTheMinute)
  OBVIOUS
<1>3. Init => MinuteInv
  BY <1>2, MinuteInit
<1>4. TableInv /\ MinuteInv /\ [Next]_vars => MinuteInv'
  BY <1>2, MinuteMoves, NextMoves
<1>5. QED
  BY TableInit, TableNext, <1>1, <1>3, <1>4, PTL DEF Spec

-----------------------------------------------------------------------------
\* The bars of a range that are stored or about to be.

Stored(t) == \E row \in rows : row.timestamp = t

LEMMA WholeMinute ==
  \A t \in Minutes : t \in Int /\ t \div BarLength \in Int /\ t = BarLength * (t \div BarLength)
<1>1. BarLength \in Nat /\ BarLength > 0
  BY BarLengthAssumption
<1>2. \A t \in Int : t \div BarLength \in Int /\ t = BarLength * (t \div BarLength) + (t % BarLength)
  BY <1>1
<1>3. QED
  BY <1>1, <1>2 DEF Minutes

\* A bar that opens in the range is stored or opens in one of the gaps.
LEMMA StoredOrMissing ==
  ASSUME OnTheMinute, NEW start \in Int, NEW end \in Int, NEW missing,
         GapsOf(rows, start, end, missing), NEW t \in Minutes, start <= t, t < end
  PROVE  Stored(t) \/ t \in Moments(missing)
<1>1. SUFFICES ASSUME t \notin Moments(missing) PROVE Stored(t)
  OBVIOUS
<1>2. PICK row \in rows : t \in row.timestamp .. row.timestamp + BarLength - 1
  BY <1>1 DEF GapsOf, Minutes
<1>3. PICK ts \in Int : ts = row.timestamp /\ ts % BarLength = 0
  BY DEF OnTheMinute, Minutes
<1>4. t \in Int /\ t % BarLength = 0 /\ BarLength \in Nat /\ BarLength > 0
  BY BarLengthAssumption DEF Minutes
<1>5. ts <= t /\ t < ts + BarLength
  BY <1>2, <1>3, <1>4
<1>6. t = ts
  <2>1. PICK p \in Int : t = BarLength * p
    BY WholeMinute
  <2>2. PICK q \in Int : ts = BarLength * q
    BY <1>3, WholeMinute DEF Minutes
  <2>3. p = q
    BY <1>4, <1>5, <2>1, <2>2
  <2>4. QED
    BY <2>1, <2>2, <2>3
<1>7. QED
  BY <1>3, <1>6 DEF Stored

-----------------------------------------------------------------------------
\* The work of the calls: where a call with a custom adapter is, the bars of its range are
\* stored, about to be inserted, or in the gaps that are left.

Due(r) == {t \in Market : r.start <= t /\ t < r.end}

Work(c) ==
  /\ pc[c] \in {"waiting", "verifying"} => ~ led[c]
  /\ pc[c] = "fetching" => \A t \in Due(request[c]) : Stored(t) \/ t \in Moments(gaps[c])
  /\ pc[c] = "inserting" =>
       \A t \in Due(request[c]) : Stored(t) \/ t \in fetched[c] \/ t \in Moments(Tail(gaps[c]))
  /\ led[c] /\ pc[c] \in {"finishing", "idle"} /\ result[c] = "Ok" => Covered(request[c])

WorkInv ==
  /\ DOMAIN result = Callers /\ DOMAIN led = Callers
  /\ adapter = "custom" => \A c \in Callers : Work(c)

LEMMA CoveredIs == \A r : Covered(r) <=> \A t \in Due(r) : Stored(t)
BY DEF Covered, Due, Stored

LEMMA WorkInit == Init => WorkInv
BY DEF Init, WorkInv, Work

\* Rows are never lost.
LEMMA RowsStay ==
  ASSUME TableInv, Moves
  PROVE  /\ \A t : Stored(t) => Stored(t)'
         /\ \A r : Covered(r) => Covered(r)'
<1>1. rows \subseteq rows'
  BY BarsOfStep
<1>2. QED
  BY <1>1 DEF Covered, Stored

\* A call that takes no step keeps its part.
LEMMA OthersWork ==
  ASSUME TableInv, Moves, NEW d \in Callers, Work(d),
         pc'[d] = pc[d], request'[d] = request[d], gaps'[d] = gaps[d],
         fetched'[d] = fetched[d], result'[d] = result[d], led'[d] = led[d]
  PROVE  Work(d)'
BY RowsStay DEF Work

LEMMA WorkStep ==
  ASSUME WholeMinutes, TableInv, MinuteInv, WorkInv, FetcherAction
  PROVE  WorkInv'
<1>m. Moves
  BY DEF Moves
<1>0. /\ DOMAIN pc = Callers /\ DOMAIN result = Callers /\ DOMAIN led = Callers
      /\ DOMAIN request = Callers /\ DOMAIN gaps = Callers /\ DOMAIN fetched = Callers
      /\ \A c \in Callers : pc[c] \in {"fetching", "inserting"} => gaps[c] # << >>
      /\ \A c \in Callers : gaps[c] \in Lists(Int) /\ request[c] \in Windows
      /\ adapter \in Adapters
  BY DEF TableInv, WorkInv
<1>1. DOMAIN result' = Callers /\ DOMAIN led' = Callers
  <2> DEFINE Kept == DOMAIN result' = DOMAIN result /\ DOMAIN led' = DOMAIN led
  <2>1. ASSUME NEW c \in Callers, NEW r \in Windows, Lead(c, r) \/ Follow(c, r) \/ Verify(c, r)
        PROVE  Kept
    BY <2>1 DEF Lead, Follow, Verify, Call
  <2>2. ASSUME NEW c \in Callers, NextRange(c), UNCHANGED led PROVE Kept
    BY <2>2 DEF NextRange, EndsWith
  <2>3. ASSUME NEW c \in Callers, Poll(c) \/ Plan(c) PROVE Kept
    BY <2>3 DEF Poll, Plan, EndsWith
  <2>4. ASSUME NEW c \in Callers, Fetch(c) \/ Insert(c) PROVE Kept
    <3>1. UNCHANGED led /\ (NextRange(c) \/ UNCHANGED result)
      BY <2>4 DEF Fetch, Insert
    <3>2. QED
      BY <2>2, <3>1
  <2>5. ASSUME NEW c \in Callers, Finish(c) \/ Report(c) PROVE Kept
    BY <2>5 DEF Finish, Report, task
  <2>6. ASSUME NEW c \in Callers, Fail(c) \/ Drop(c) PROVE Kept
    BY <2>6 DEF Fail, Drop, EndsWith
  <2> HIDE DEF Kept
  <2>7. Kept
    BY <2>1, <2>3, <2>4, <2>5, <2>6, Zenon DEF FetcherAction, Step
  <2>8. QED
    BY <1>0, <2>7 DEF Kept
<1>2. SUFFICES ASSUME adapter' = "custom" PROVE \A d \in Callers : Work(d)'
  BY <1>1 DEF WorkInv
<1>3. adapter = "custom" /\ (\A d \in Callers : Work(d)) /\ OnTheMinute
      /\ \A c \in Callers : fetched[c] \subseteq Market
  BY <1>m, <1>2, BarsOfStep DEF WorkInv, MinuteInv
\* c takes a step, and what it becomes is left to show.
<1> DEFINE Only(c) == \A d \in Callers \ {c} :
             /\ pc'[d] = pc[d] /\ request'[d] = request[d] /\ gaps'[d] = gaps[d]
             /\ fetched'[d] = fetched[d] /\ result'[d] = result[d] /\ led'[d] = led[d]
<1>5. ASSUME NEW c \in Callers, Only(c), Work(c)' PROVE \A d \in Callers : Work(d)'
  BY <1>m, <1>3, <1>5, OthersWork
<1> HIDE DEF Only
<1>6. ASSUME NEW c \in Callers, NEW r \in Windows, Lead(c, r) PROVE \A d \in Callers : Work(d)'
  <2>1. Only(c) /\ pc'[c] = "planning"
    BY <1>0, <1>6 DEF Lead, Call, Only
  <2>2. Work(c)'
    BY <2>1 DEF Work
  <2>3. QED
    BY <1>5, <2>1, <2>2
<1>7. ASSUME NEW c \in Callers, NEW r \in Windows, Follow(c, r) PROVE \A d \in Callers : Work(d)'
  <2>1. Only(c) /\ pc'[c] = "waiting" /\ ~ led'[c]
    BY <1>0, <1>7 DEF Follow, Call, Only
  <2>2. Work(c)'
    BY <2>1 DEF Work
  <2>3. QED
    BY <1>5, <2>1, <2>2
<1>8. ASSUME NEW c \in Callers, NEW r \in Windows, Verify(c, r) PROVE \A d \in Callers : Work(d)'
  <2>1. Only(c) /\ pc'[c] = "verifying" /\ ~ led'[c]
    BY <1>0, <1>8 DEF Verify, Call, Only
  <2>2. Work(c)'
    BY <2>1 DEF Work
  <2>3. QED
    BY <1>5, <2>1, <2>2
<1>9. ASSUME NEW c \in Callers, Poll(c) \/ Report(c) PROVE \A d \in Callers : Work(d)'
  <2>1. Only(c) /\ pc'[c] = "idle" /\ led'[c] = led[c] /\ pc[c] \in {"waiting", "verifying"}
    BY <1>0, <1>9 DEF Poll, Report, Only
  <2>2. ~ led'[c]
    BY <1>3, <2>1 DEF Work
  <2>3. Work(c)'
    BY <2>1, <2>2 DEF Work
  <2>4. QED
    BY <1>5, <2>1, <2>3
<1>10. ASSUME NEW c \in Callers, Plan(c) PROVE \A d \in Callers : Work(d)'
  <2>1. /\ UNCHANGED <<rows, request, fetched, led>> /\ pc[c] = "planning"
    BY <1>10 DEF Plan, world
  <2>2. PICK missing \in Missing(request[c]) :
          \/ missing = << >> /\ EndsWith(c, "Ok") /\ UNCHANGED gaps
          \/ EndsWith(c, "TooMuch") /\ UNCHANGED gaps
          \/ /\ gaps' = [gaps EXCEPT ![c] = missing]
             /\ pc' = [pc EXCEPT ![c] = "fetching"]
             /\ UNCHANGED result
    BY <1>10 DEF Plan
  <2>3. Only(c)
    BY <1>0, <2>1, <2>2 DEF EndsWith, Only
  <2>4. \A t \in Due(request[c]) : Stored(t) \/ t \in Moments(missing)
    <3>1. request[c].start \in Int /\ request[c].end \in Int
      BY <1>0 DEF Windows
    <3>2. GapsOf(rows, request[c].start, request[c].end, missing)
      BY <1>0, <2>2, MissingAre
    <3>3. SUFFICES ASSUME NEW t \in Due(request[c]) PROVE Stored(t) \/ t \in Moments(missing)
      OBVIOUS
    <3>4. t \in Minutes /\ request[c].start <= t /\ t < request[c].end
      BY DEF Due, WholeMinutes
    <3>5. QED
      BY <1>3, <3>1, <3>2, <3>4, StoredOrMissing
  <2>5. CASE missing = << >> /\ EndsWith(c, "Ok")
    <3>1. Moments(<< >>) = {}
      BY DEF Moments
    <3>2. Covered(request[c])
      BY <2>4, <2>5, <3>1, CoveredIs
    <3>3. Covered(request[c])'
      BY <2>1, <3>2 DEF Covered
    <3>4. pc'[c] = "finishing"
      BY <1>0, <2>5 DEF EndsWith
    <3>5. Work(c)'
      BY <3>3, <3>4 DEF Work
    <3>6. QED
      BY <1>5, <2>3, <3>5
  <2>6. CASE EndsWith(c, "TooMuch")
    <3>1. pc'[c] = "finishing" /\ result'[c] = "TooMuch"
      BY <1>0, <2>6 DEF EndsWith
    <3>2. Work(c)'
      BY <3>1 DEF Work
    <3>3. QED
      BY <1>5, <2>3, <3>2
  <2>7. CASE gaps' = [gaps EXCEPT ![c] = missing] /\ pc' = [pc EXCEPT ![c] = "fetching"]
    <3>1. pc'[c] = "fetching" /\ gaps'[c] = missing /\ request'[c] = request[c]
      BY <1>0, <2>1, <2>7
    <3>2. \A t \in Due(request[c]) : Stored(t)' \/ t \in Moments(missing)
      BY <2>1, <2>4 DEF Stored
    <3>3. Work(c)'
      BY <3>1, <3>2 DEF Work
    <3>4. QED
      BY <1>5, <2>3, <3>3
  <2>8. QED
    BY <2>2, <2>5, <2>6, <2>7
\* The loop goes on when nothing that is due is lost.
<1>a. ASSUME NEW c \in Callers, NextRange(c), gaps[c] # << >>, UNCHANGED <<request, led>>,
             \A d \in Callers \ {c} : fetched'[d] = fetched[d],
             \A t \in Due(request[c]) : Stored(t)' \/ t \in Moments(Tail(gaps[c]))
      PROVE  \A d \in Callers : Work(d)'
  <2>1. /\ gaps' = [gaps EXCEPT ![c] = Tail(gaps[c])]
        /\ pc' \in {[pc EXCEPT ![c] = "fetching"], [pc EXCEPT ![c] = "finishing"]}
        /\ \/ pc'[c] = "fetching" /\ gaps'[c] # << >> /\ result' = result
           \/ /\ pc'[c] = "finishing" /\ gaps'[c] = << >>
              /\ result' = [result EXCEPT ![c] = "Ok"]
    BY <1>a, NextRangeIs
  <2>2. Only(c) /\ request'[c] = request[c] /\ gaps'[c] = Tail(gaps[c])
    BY <1>0, <1>a, <2>1 DEF Only
  <2>3. CASE pc'[c] = "fetching"
    <3>1. Work(c)'
      BY <1>a, <2>2, <2>3 DEF Work
    <3>2. QED
      BY <1>5, <2>2, <3>1
  <2>4. CASE pc'[c] = "finishing" /\ gaps'[c] = << >>
    <3>1. Moments(<< >>) = {}
      BY DEF Moments
    <3>2. \A t \in Due(request[c]) : Stored(t)'
      BY <1>a, <2>2, <2>4, <3>1
    <3>3. Covered(request[c])'
      BY <2>2, <3>2 DEF Covered, Due, Stored
    <3>4. Work(c)'
      BY <2>4, <3>3 DEF Work
    <3>5. QED
      BY <1>5, <2>2, <3>4
  <2>5. QED
    BY <2>1, <2>3, <2>4
<1>11. ASSUME NEW c \in Callers, Fetch(c) PROVE \A d \in Callers : Work(d)'
  <2>1. UNCHANGED <<rows, request, led>> /\ pc[c] = "fetching" /\ gaps[c] # << >>
        /\ gaps[c] \in Lists(Int)
    BY <1>0, <1>11 DEF Fetch, world
  <2>2. PICK brought \in Answers(Head(gaps[c])) :
          \/ brought = {} /\ NextRange(c) /\ UNCHANGED fetched
          \/ /\ fetched' = [fetched EXCEPT ![c] = brought]
             /\ pc' = [pc EXCEPT ![c] = "inserting"]
             /\ UNCHANGED <<gaps, result>>
    BY <1>11 DEF Fetch
  <2>3. /\ Head(gaps[c]) \in Spans(Int)
        /\ \A m \in Moments(gaps[c]) : \/ m \in Head(gaps[c]).start .. Head(gaps[c]).end - 1
                                       \/ m \in Moments(Tail(gaps[c]))
    BY <2>1, HeadAndTail
  <2>4. \A t \in Market : Head(gaps[c]).start <= t /\ t < Head(gaps[c]).end => t \in brought
    BY <1>0, <1>3, <2>3, AnswersAre
  <2>5. \A t \in Due(request[c]) : Stored(t) \/ t \in brought \/ t \in Moments(Tail(gaps[c]))
    <3>1. SUFFICES ASSUME NEW t \in Due(request[c]), t \in Moments(gaps[c]),
                          t \notin Moments(Tail(gaps[c]))
                   PROVE  t \in brought
      BY <1>3, <2>1 DEF Work
    <3>2. t \in Head(gaps[c]).start .. Head(gaps[c]).end - 1 /\ t \in Market
      BY <2>3, <3>1 DEF Due
    <3>3. Head(gaps[c]).start \in Int /\ Head(gaps[c]).end \in Int
      BY <2>3 DEF Spans
    <3>4. Head(gaps[c]).start <= t /\ t < Head(gaps[c]).end
      BY <3>2, <3>3
    <3>5. QED
      BY <2>4, <3>2, <3>4
  <2>6. CASE brought = {} /\ NextRange(c) /\ UNCHANGED fetched
    <3>1. \A t \in Due(request[c]) : Stored(t)' \/ t \in Moments(Tail(gaps[c]))
      BY <2>1, <2>5, <2>6 DEF Stored
    <3>2. QED
      BY <1>a, <2>1, <2>6, <3>1
  <2>7. CASE /\ fetched' = [fetched EXCEPT ![c] = brought]
             /\ pc' = [pc EXCEPT ![c] = "inserting"]
             /\ UNCHANGED <<gaps, result>>
    <3>1. /\ Only(c) /\ pc'[c] = "inserting" /\ fetched'[c] = brought
          /\ request'[c] = request[c] /\ gaps'[c] = gaps[c]
      BY <1>0, <2>1, <2>7 DEF Only
    <3>2. \A t \in Due(request[c]) : Stored(t)' \/ t \in brought \/ t \in Moments(Tail(gaps[c]))
      BY <2>1, <2>5 DEF Stored
    <3>3. Work(c)'
      BY <3>1, <3>2 DEF Work
    <3>4. QED
      BY <1>5, <3>1, <3>3
  <2>8. QED
    BY <2>2, <2>6, <2>7
<1>12. ASSUME NEW c \in Callers, Insert(c) PROVE \A d \in Callers : Work(d)'
  <2>1. /\ UNCHANGED <<request, led>> /\ pc[c] = "inserting" /\ gaps[c] # << >>
        /\ fetched' = [fetched EXCEPT ![c] = {}] /\ NextRange(c)
        /\ rows' = rows \cup {[timestamp |-> t, exchange |-> adapter] : t \in fetched[c]}
    BY <1>0, <1>12 DEF Insert
  <2>2. ASSUME NEW t \in fetched[c] PROVE Stored(t)'
    <3>1. [timestamp |-> t, exchange |-> adapter] \in rows'
      BY <2>1
    <3>2. [timestamp |-> t, exchange |-> adapter].timestamp = t
      OBVIOUS
    <3>3. QED
      BY <3>1, <3>2, Zenon DEF Stored
  <2>3. \A t : Stored(t) => Stored(t)'
    BY <1>m, RowsStay
  <2>4. \A t \in Due(request[c]) : Stored(t)' \/ t \in Moments(Tail(gaps[c]))
    BY <1>3, <2>1, <2>2, <2>3 DEF Work
  <2>5. \A d \in Callers \ {c} : fetched'[d] = fetched[d]
    BY <1>0, <2>1
  <2>6. QED
    BY <1>a, <2>1, <2>4, <2>5
<1>13. ASSUME NEW c \in Callers, Fail(c) PROVE \A d \in Callers : Work(d)'
  <2>1. Only(c) /\ pc'[c] = "finishing" /\ result'[c] = "Err"
    BY <1>0, <1>13 DEF Fail, EndsWith, Only
  <2>2. Work(c)'
    BY <2>1 DEF Work
  <2>3. QED
    BY <1>5, <2>1, <2>2
<1>14. ASSUME NEW c \in Callers, Finish(c) PROVE \A d \in Callers : Work(d)'
  <2>1. /\ Only(c) /\ pc[c] = "finishing" /\ pc'[c] = "idle" /\ UNCHANGED <<rows, task>>
    BY <1>0, <1>14 DEF Finish, Only, world, task
  <2>2. Work(c)'
    BY <1>3, <2>1 DEF Work, task, Covered
  <2>3. QED
    BY <1>5, <2>1, <2>2
<1>15. ASSUME NEW c \in Callers, Drop(c) PROVE \A d \in Callers : Work(d)'
  <2>1. Only(c) /\ pc'[c] = "idle" /\ result'[c] = "none"
    BY <1>0, <1>15 DEF Drop, Only
  <2>2. Work(c)'
    BY <2>1 DEF Work
  <2>3. QED
    BY <1>5, <2>1, <2>2
<1>16. QED
  BY <1>6, <1>7, <1>8, <1>9, <1>10, <1>11, <1>12, <1>13, <1>14, <1>15 DEF FetcherAction, Step

\* What a call returned may be forgotten when it starts another that does no work.
Forgets ==
  /\ DOMAIN result' = DOMAIN result /\ DOMAIN led' = DOMAIN led
  /\ \A c \in Callers :
       \/ result'[c] = result[c] /\ led'[c] = led[c]
       \/ pc[c] = "idle" /\ ~ led'[c]

LEMMA WorkStutters ==
  ASSUME TableInv, WorkInv, Quiet, Forgets
  PROVE  WorkInv'
<1>1. DOMAIN result' = Callers /\ DOMAIN led' = Callers /\ adapter' = adapter
      /\ UNCHANGED <<rows, pc, request, gaps, fetched>>
  BY DEF WorkInv, Quiet, Forgets
<1>2. ASSUME NEW c \in Callers, Work(c) PROVE Work(c)'
  <2>1. CASE result'[c] = result[c] /\ led'[c] = led[c]
    <3>1. Moves
      BY DEF Moves
    <3>2. QED
      BY <1>1, <1>2, <2>1, <3>1, OthersWork
  <2>2. CASE pc[c] = "idle" /\ ~ led'[c]
    BY <1>1, <2>2 DEF Work
  <2>3. QED
    BY <2>1, <2>2 DEF Forgets
<1>3. QED
  BY <1>1, <1>2 DEF WorkInv

LEMMA WorkNext ==
  WholeMinutes /\ TableInv /\ MinuteInv /\ WorkInv /\ [Next]_vars => WorkInv'
<1> SUFFICES ASSUME WholeMinutes, TableInv, MinuteInv, WorkInv, [Next]_vars PROVE WorkInv'
  OBVIOUS
<1>1. CASE UNCHANGED vars
  BY <1>1, WorkStutters DEF vars, world, task, Quiet, Forgets
<1>2. CASE Next
  <2>1. Requests \subseteq Windows
    BY FetcherAssumption DEF Windows
  <2>2. FetcherAction
    BY <1>2, <2>1, Zenon DEF Next, FetcherAction
  <2>3. QED
    BY <2>2, WorkStep
<1>3. QED
  BY <1>1, <1>2

\* A call that did the work and returned Ok left no bar of its range behind, whatever other
\* calls inserted meanwhile, if the adapter knows the unit of the window (ensure_data_inner).
THEOREM NoGapIsLeft == WholeMinutes => (Spec => []LeaderLeavesNoGap)
<1>1. SUFFICES ASSUME WholeMinutes PROVE Spec => []LeaderLeavesNoGap
  OBVIOUS
<1>2. Init => MinuteInv
  BY <1>1, MinuteInit
<1>3. TableInv /\ MinuteInv /\ [Next]_vars => MinuteInv'
  BY <1>1, MinuteMoves, NextMoves
<1>4. TableInv /\ MinuteInv /\ WorkInv /\ [Next]_vars => WorkInv'
  BY <1>1, WorkNext
<1>5. WorkInv => LeaderLeavesNoGap
  BY DEF WorkInv, Work, LeaderLeavesNoGap, LeaderStores
<1>6. QED
  BY TableInit, TableNext, WorkInit, <1>2, <1>3, <1>4, <1>5, PTL DEF Spec

-----------------------------------------------------------------------------
\* Counting: whole minutes by their numbers.

Number(t) == t \div BarLength

LEMMA Numbered ==
  \A s, t \in Minutes : /\ Number(t) \in Int /\ t = BarLength * Number(t)
                        /\ (t - s) \div BarLength = Number(t) - Number(s)
                        /\ s <= t <=> Number(s) <= Number(t)
<1>1. SUFFICES ASSUME NEW s \in Minutes, NEW t \in Minutes
               PROVE  /\ Number(t) \in Int /\ t = BarLength * Number(t)
                      /\ (t - s) \div BarLength = Number(t) - Number(s)
                      /\ s <= t <=> Number(s) <= Number(t)
  OBVIOUS
<1>2. BarLength \in Nat /\ BarLength > 0
  BY BarLengthAssumption
<1>3. PICK p \in Int, q \in Int : /\ p = Number(s) /\ q = Number(t)
                                  /\ s = BarLength * p /\ t = BarLength * q
  BY WholeMinute DEF Number
<1>4. t - s = BarLength * (q - p)
  BY <1>2, <1>3
<1>5. (BarLength * (q - p)) \div BarLength = q - p
  <2>1. PICK d \in Int : d = q - p
    BY <1>3
  <2>2. (BarLength * d) \div BarLength = d
    BY <1>2, Z3
  <2>3. QED
    BY <2>1, <2>2
<1>6. BarLength * p <= BarLength * q <=> p <= q
  BY <1>2, Z3
<1>7. QED
  BY <1>3, <1>4, <1>5, <1>6

LEMMA NumberIsMinute ==
  \A k \in Int : BarLength * k \in Minutes /\ Number(BarLength * k) = k
<1>1. BarLength \in Nat /\ BarLength > 0
  BY BarLengthAssumption
<1>2. \A k \in Int : /\ BarLength * k \in Int /\ (BarLength * k) % BarLength = 0
                     /\ (BarLength * k) \div BarLength = k
  BY <1>1, Z3
<1>3. QED
  BY <1>2 DEF Minutes, Number

\* The equation of the sum in missing bars.
IsCount(iter, R) ==
  iter = [s \in SUBSET DOMAIN R |->
            IF s = {} THEN 0
            ELSE iter[s \ {Max(s)}] + (R[Max(s)].end - R[Max(s)].start) \div BarLength]

LEMMA CountExpanded ==
  ASSUME NEW R
  PROVE  MissingBars(R) = (CHOOSE iter : IsCount(iter, R))[DOMAIN R]
BY Zenon DEF MissingBars, FoldLeft, MapThenFoldSet, IsCount

\* The numbers of the minutes in the ranges with the indices s.
Numbers(R, s) == UNION {Number(R[i].start) .. Number(R[i].end) - 1 : i \in s}

Length(range) == (range.end - range.start) \div BarLength

LEMMA LengthIs ==
  ASSUME NEW R \in Lists(Minutes), NEW i \in DOMAIN R
  PROVE  /\ Length(R[i]) \in Int /\ Number(R[i].start) \in Int /\ Number(R[i].end) \in Int
         /\ IsFiniteSet(Number(R[i].start) .. Number(R[i].end) - 1)
         /\ Cardinality(Number(R[i].start) .. Number(R[i].end) - 1) = Length(R[i])
<1>1. /\ R[i].start \in Minutes /\ R[i].end \in Minutes /\ R[i].start < R[i].end
      /\ R[i].start \in Int /\ R[i].end \in Int
  <2>1. Minutes \in SUBSET Int
    BY DEF Minutes
  <2>2. QED
    BY <2>1, ListIs
<1>2. PICK p \in Int, q \in Int :
        p = Number(R[i].start) /\ q = Number(R[i].end) /\ Length(R[i]) = q - p /\ p <= q
  BY <1>1, Numbered DEF Length
<1>3. IsFiniteSet(p .. q - 1) /\ Cardinality(p .. q - 1) = q - p
  <2>1. PICK r \in Int : r = q - 1
    OBVIOUS
  <2>2. /\ IsFiniteSet(p .. r)
        /\ Cardinality(p .. r) = IF p > r THEN 0 ELSE (r - p) + 1
    BY FS_Interval
  <2>3. p <= q
    BY <1>2
  <2>4. QED
    BY <2>1, <2>2, <2>3
<1>4. QED
  BY <1>2, <1>3

LEMMA CountExists ==
  ASSUME NEW R \in Lists(Minutes)
  PROVE  \E iter : IsCount(iter, R)
<1>1. PICK n \in Nat : DOMAIN R = 1 .. n
  <2>1. R \in Seq(Spans(Minutes))
    BY DEF Lists
  <2>2. QED
    BY <2>1
<1> DEFINE step == [i \in 1 .. n |-> [m \in Int |-> m + Length(R[i])]]
<1>2. step \in [1 .. n -> [Int -> Int]]
  BY <1>1, LengthIs
<1>3. PICK g \in [SUBSET (1 .. n) -> Int] : IsFold(g, n, 0, step)
  <2> HIDE DEF step
  <2>1. n \in Nat /\ 0 \in Int
    BY <1>1
  <2>2. QED
    BY <1>2, <2>1, FoldExists, Zenon
<1> DEFINE Rhs(s) == IF s = {} THEN 0 ELSE g[s \ {Max(s)}] + Length(R[Max(s)])
<1>4. ASSUME NEW s \in SUBSET (1 .. n) PROVE g[s] = Rhs(s)
  <2>1. g[s] = IF s = {} THEN 0 ELSE step[Max(s)][g[s \ {Max(s)}]]
    <3> HIDE DEF step
    <3>1. QED
      BY <1>3 DEF IsFold
  <2>2. CASE s = {}
    BY <2>1, <2>2
  <2>3. CASE s # {}
    <3>1. Max(s) \in 1 .. n /\ s \ {Max(s)} \in SUBSET (1 .. n)
      BY <2>3, MaxIs
    <3>2. g[s \ {Max(s)}] \in Int
      BY <3>1
    <3>3. step[Max(s)][g[s \ {Max(s)}]] = g[s \ {Max(s)}] + Length(R[Max(s)])
      BY <3>1, <3>2
    <3>4. QED
      BY <2>1, <2>3, <3>3
  <2>4. QED
    BY <2>2, <2>3
<1>5. g = [s \in SUBSET DOMAIN R |-> Rhs(s)]
  <2> HIDE DEF Rhs
  <2>1. QED
    BY <1>1, <1>4
<1>6. IsCount(g, R)
  BY <1>5, Zenon DEF IsCount, Length
<1>7. QED
  BY <1>6, Zenon

\* As many bars are missing as whole minutes are in the gaps, at least.
LEMMA CountIs ==
  ASSUME NEW R \in Lists(Minutes)
  PROVE  /\ MissingBars(R) \in Int
         /\ IsFiniteSet(Numbers(R, DOMAIN R))
         /\ Cardinality(Numbers(R, DOMAIN R)) <= MissingBars(R)
<1> DEFINE D == DOMAIN R
           pick == [s \in SUBSET D |-> Max(s)]
<1>1. PICK g : g = CHOOSE iter : IsCount(iter, R)
  OBVIOUS
<1>2. IsCount(g, R)
  BY <1>1, CountExists, Zenon
<1>3. MissingBars(R) = g[D]
  BY <1>1, CountExpanded, Zenon
<1>4. \A s \in SUBSET D :
         g[s] = IF s = {} THEN 0 ELSE g[s \ {Max(s)}] + Length(R[Max(s)])
  <2> DEFINE Rhs(s) == IF s = {} THEN 0
                       ELSE g[s \ {Max(s)}] + (R[Max(s)].end - R[Max(s)].start) \div BarLength
  <2>1. g = [s \in SUBSET D |-> Rhs(s)]
    BY <1>2, Zenon DEF IsCount
  <2>2. \A s \in SUBSET D : g[s] = Rhs(s)
    <3> HIDE DEF Rhs, D
    <3>1. QED
      BY <2>1
  <2>3. QED
    BY <2>2, Zenon DEF Length
<1>5. PICK n \in Nat : D = 1 .. n
  <2>1. R \in Seq(Spans(Minutes))
    BY DEF Lists
  <2>2. QED
    BY <2>1
<1>6. Picks(pick, D) /\ \A s \in SUBSET D : pick[s] = Max(s)
  BY <1>5, MaxIs DEF Picks
<1> HIDE DEF pick
<1> DEFINE Q == {s \in SUBSET D : /\ g[s] \in Int /\ IsFiniteSet(Numbers(R, s))
                                  /\ Cardinality(Numbers(R, s)) <= g[s]}
<1>7. {} \in Q
  <2>1. Numbers(R, {}) = {}
    BY DEF Numbers
  <2>2. g[{}] = 0
    BY <1>4
  <2>3. IsFiniteSet({}) /\ Cardinality({}) = 0
    BY FS_EmptySet
  <2>4. QED
    BY <2>1, <2>2, <2>3
<1>8. ASSUME NEW s \in SUBSET D, s # {}, s \ {pick[s]} \in Q PROVE s \in Q
  <2>1. PICK i \in D : i = Max(s) /\ i = pick[s] /\ i \in s
    BY <1>6, <1>8 DEF Picks
  <2>2. PICK m, A : /\ m \in Int /\ m = g[s \ {i}] /\ A = Numbers(R, s \ {i})
                    /\ IsFiniteSet(A) /\ Cardinality(A) <= m
    BY <1>8, <2>1
  <2>3. PICK k, B : /\ k \in Int /\ k = Length(R[i])
                    /\ B = Number(R[i].start) .. Number(R[i].end) - 1
                    /\ IsFiniteSet(B) /\ Cardinality(B) = k
    BY <2>1, LengthIs
  <2>4. g[s] = m + k
    BY <1>4, <1>8, <2>1, <2>2, <2>3
  <2>5. Numbers(R, s) = A \cup B
    BY <2>1, <2>2, <2>3 DEF Numbers
  <2>6. /\ IsFiniteSet(A \cup B)
        /\ Cardinality(A \cup B) = Cardinality(A) + Cardinality(B) - Cardinality(A \cap B)
    BY <2>2, <2>3, FS_Union
  <2>7. Cardinality(A \cap B) \in Nat /\ Cardinality(A) \in Nat
    <3>1. IsFiniteSet(A \cap B)
      BY <2>2, FS_Subset
    <3>2. QED
      BY <2>2, <3>1, FS_CardinalityType
  <2>8. Cardinality(A \cup B) <= m + k
    BY <2>2, <2>3, <2>6, <2>7
  <2>9. g[s] \in Int /\ IsFiniteSet(Numbers(R, s)) /\ Cardinality(Numbers(R, s)) <= g[s]
    <3>1. PICK n2 \in Int : n2 = m + k
      BY <2>2, <2>3
    <3>2. QED
      BY <2>4, <2>5, <2>6, <2>8, <3>1
  <2>10. QED
    BY <2>9
<1>9. \A s \in SUBSET D : s \in Q
  <2>1. IsFiniteSet(D)
    BY <1>5, FS_Interval
  <2>2. \A s \in SUBSET D : s # {} /\ s \ {pick[s]} \in Q => s \in Q
    BY <1>8
  <2>3. Picks(pick, D)
    BY <1>6
  <2> HIDE DEF Q, D
  <2>4. QED
    BY <1>7, <2>1, <2>2, <2>3, PickInd
<1>10. QED
  BY <1>3, <1>9

\* Every minute of a range that has a stored bar or is in a gap is counted.
LEMMA AllCounted ==
  ASSUME OnTheMinute, IsFiniteSet(rows), NEW start \in Minutes, NEW end \in Minutes,
         NEW R \in Lists(Minutes),
         \A t \in Minutes : start <= t /\ t < end => Stored(t) \/ t \in Moments(R)
  PROVE  Bigger((end - start) \div BarLength, 0) <=
           MissingBars(R) + Cardinality({row \in rows : start <= row.timestamp
                                                        /\ row.timestamp <= end})
<1> DEFINE S == {row \in rows : start <= row.timestamp /\ row.timestamp <= end}
           num == [row \in S |-> Number(row.timestamp)]
           K == {num[row] : row \in S}
           N == Numbers(R, DOMAIN R)
           I == Number(start) .. Number(end) - 1
<1>1. IsFiniteSet(S) /\ DOMAIN num = S
  BY FS_Subset
<1>2. /\ IsFiniteSet(S) /\ IsFiniteSet(K) /\ Cardinality(K) <= Cardinality(S)
      /\ Cardinality(S) \in Nat /\ Cardinality(K) \in Nat
  <2> HIDE DEF num, S
  <2>1. IsFiniteSet(K) /\ Cardinality(K) <= Cardinality(S)
    BY <1>1, ImageOf
  <2> HIDE DEF K
  <2>2. QED
    BY <1>1, <2>1, FS_CardinalityType
<1>3. /\ MissingBars(R) \in Int /\ IsFiniteSet(N) /\ Cardinality(N) <= MissingBars(R)
      /\ Cardinality(N) \in Nat
  BY CountIs, FS_CardinalityType
<1>4. PICK p \in Int, q \in Int : /\ p = Number(start) /\ q = Number(end)
                                  /\ (end - start) \div BarLength = q - p
  BY Numbered
<1>5. ASSUME NEW k \in I PROVE k \in N \cup K
  <2>1. PICK t \in Minutes : t = BarLength * k /\ Number(t) = k
    BY <1>4, NumberIsMinute
  <2>2. start <= t /\ t < end
    <3>1. Number(start) <= Number(t) /\ ~ (Number(end) <= Number(t))
      BY <1>4, <2>1
    <3>2. start <= t /\ ~ (end <= t)
      BY <3>1, Numbered
    <3>3. start \in Int /\ end \in Int /\ t \in Int
      BY DEF Minutes
    <3>4. QED
      BY <3>2, <3>3
  <2>3. CASE Stored(t)
    <3>1. PICK row \in rows : row.timestamp = t
      BY <2>3 DEF Stored
    <3>2. t <= end
      <4>1. t \in Int /\ end \in Int
        BY DEF Minutes
      <4>2. QED
        BY <2>2, <4>1
    <3>3. row \in S
      BY <2>2, <3>1, <3>2
    <3>4. num[row] = k
      BY <2>1, <3>1, <3>3
    <3>5. QED
      BY <3>3, <3>4
  <2>4. CASE t \in Moments(R)
    <3>1. PICK i \in DOMAIN R : t \in R[i].start .. R[i].end - 1
      BY <2>4 DEF Moments
    <3>2. R[i].start \in Minutes /\ R[i].end \in Minutes /\ R[i].start \in Int /\ R[i].end \in Int
      <4>1. Minutes \in SUBSET Int
        BY DEF Minutes
      <4>2. QED
        BY <4>1, ListIs
    <3>3. R[i].start <= t /\ ~ (R[i].end <= t)
      BY <3>1, <3>2
    <3>4. Number(R[i].start) <= k /\ ~ (Number(R[i].end) <= k)
      BY <2>1, <3>2, <3>3, Numbered
    <3>5. Number(R[i].start) \in Int /\ Number(R[i].end) \in Int /\ k \in Int
      BY <1>4, <3>2, Numbered
    <3>6. k \in Number(R[i].start) .. Number(R[i].end) - 1
      BY <3>4, <3>5
    <3>7. QED
      BY <3>6, Zenon DEF Numbers
  <2>5. QED
    BY <2>2, <2>3, <2>4
<1> HIDE DEF N, K, S, num
<1>6. /\ IsFiniteSet(N \cup K) /\ Cardinality(N \cup K) <= Cardinality(N) + Cardinality(K)
      /\ Cardinality(N \cup K) \in Nat
  <2>1. /\ IsFiniteSet(N \cup K)
        /\ Cardinality(N \cup K) = Cardinality(N) + Cardinality(K) - Cardinality(N \cap K)
    BY <1>2, <1>3, FS_Union
  <2>2. IsFiniteSet(N \cap K)
    BY <1>3, FS_Subset
  <2>3. Cardinality(N \cap K) \in Nat /\ Cardinality(N \cup K) \in Nat
    BY <2>1, <2>2, FS_CardinalityType
  <2>4. QED
    BY <1>2, <1>3, <2>1, <2>3
<1>7. Cardinality(p .. q - 1) <= Cardinality(N \cup K)
  <2>1. p .. q - 1 \subseteq N \cup K
    BY <1>4, <1>5
  <2>2. QED
    BY <1>6, <2>1, FS_Subset
<1>8. Cardinality(p .. q - 1) = IF p > q - 1 THEN 0 ELSE q - p
  BY FS_Interval
<1>9. Bigger(q - p, 0) <= Cardinality(p .. q - 1)
  BY <1>8 DEF Bigger
<1>10. Bigger(q - p, 0) <= MissingBars(R) + Cardinality(S)
  <2>1. Bigger(q - p, 0) \in Int /\ Cardinality(p .. q - 1) \in Int
    BY <1>8 DEF Bigger
  <2>2. QED
    BY <1>2, <1>3, <1>6, <1>7, <1>9, <2>1
<1>11. QED
  BY <1>4, <1>10 DEF S

-----------------------------------------------------------------------------
\* verify_data.

OfMinutes(r) == r.start % BarLength = 0 /\ r.end % BarLength = 0

\* Between its two looks at the table, each minute of a range of whole minutes is in the
\* gaps that the first look found or has a stored bar.
FirstLook(c) ==
  pc[c] = "verifying" /\ OfMinutes(request[c]) =>
    /\ gaps[c] \in Lists(Minutes)
    /\ \A t \in Minutes : request[c].start <= t /\ t < request[c].end =>
         Stored(t) \/ t \in Moments(gaps[c])

\* What the report of a call says.
Counted(c) ==
  OfMinutes(request[c]) => integrity[c].missing + integrity[c].actual >= integrity[c].expected

VerifyInv ==
  /\ DOMAIN integrity = Callers
  /\ \A c \in Callers : FirstLook(c) /\ Counted(c)

LEMMA VerifyInit == Init => VerifyInv
BY DEF Init, VerifyInv, FirstLook, Counted, NoReport

\* A call that takes no step keeps its part, as does one that is not at verify_data.
LEMMA OthersRead ==
  ASSUME TableInv, [Next]_vars, NEW d \in Callers, FirstLook(d), Counted(d),
         pc'[d] = pc[d], request'[d] = request[d], gaps'[d] = gaps[d],
         integrity'[d] = integrity[d]
  PROVE  FirstLook(d)' /\ Counted(d)'
BY RowsStay, NextMoves DEF FirstLook, Counted

LEMMA ReportCounts ==
  ASSUME TableInv, OnTheMinute, NEW c \in Callers, FirstLook(c), DOMAIN integrity = Callers,
         Report(c)
  PROVE  Counted(c)'
<1>1. /\ pc[c] = "verifying" /\ request' = request /\ IsFiniteSet(rows)
      /\ request[c].start \in Int /\ request[c].end \in Int
  BY DEF Report, TableInv, Windows
<1> DEFINE S == {row \in rows : request[c].start <= row.timestamp
                                /\ row.timestamp <= request[c].end}
<1>2. /\ integrity'[c].expected = Bigger((request[c].end - request[c].start) \div BarLength, 0)
      /\ integrity'[c].actual = Cardinality(S)
      /\ integrity'[c].missing = MissingBars(gaps[c])
  BY DEF Report
<1>3. SUFFICES ASSUME OfMinutes(request[c])
               PROVE  integrity'[c].missing + integrity'[c].actual >= integrity'[c].expected
  BY <1>1 DEF Counted
<1>4. request[c].start \in Minutes /\ request[c].end \in Minutes
  BY <1>1, <1>3 DEF OfMinutes, Minutes
<1>5. /\ gaps[c] \in Lists(Minutes)
      /\ \A t \in Minutes : request[c].start <= t /\ t < request[c].end =>
           Stored(t) \/ t \in Moments(gaps[c])
  BY <1>1, <1>3 DEF FirstLook
<1>6. Bigger((request[c].end - request[c].start) \div BarLength, 0)
        <= MissingBars(gaps[c]) + Cardinality(S)
  BY <1>1, <1>4, <1>5, AllCounted
<1>7. /\ MissingBars(gaps[c]) \in Int /\ Cardinality(S) \in Int
      /\ Bigger((request[c].end - request[c].start) \div BarLength, 0) \in Int
  <2>1. IsFiniteSet(S)
    BY <1>1, FS_Subset
  <2>2. Cardinality(S) \in Nat
    BY <2>1, FS_CardinalityType
  <2>3. (request[c].end - request[c].start) \div BarLength \in Int
    BY <1>1, BarLengthAssumption
  <2>4. QED
    BY <1>5, <2>2, <2>3, CountIs DEF Bigger
<1>8. QED
  BY <1>2, <1>6, <1>7

LEMMA VerifyNext ==
  TableInv /\ OnTheMinute /\ VerifyInv /\ [Next]_vars => VerifyInv'
<1> SUFFICES ASSUME TableInv, OnTheMinute, VerifyInv, [Next]_vars PROVE VerifyInv'
  OBVIOUS
<1>0. /\ DOMAIN pc = Callers /\ DOMAIN request = Callers /\ DOMAIN gaps = Callers
      /\ DOMAIN integrity = Callers /\ \A c \in Callers : FirstLook(c) /\ Counted(c)
      /\ \A c \in Callers : request[c] \in Windows
  BY DEF TableInv, VerifyInv
<1>1. DOMAIN integrity' = Callers
  BY <1>0 DEF Next, Step, Lead, Follow, Verify, Call, Poll, Plan, Fetch, Insert, Finish, Report,
              Fail, Drop, vars, task
<1>2. SUFFICES \A d \in Callers : FirstLook(d)' /\ Counted(d)'
  BY <1>1 DEF VerifyInv
<1>3. CASE UNCHANGED vars
  BY <1>0, <1>3, OthersRead DEF vars, world, task
<1> DEFINE Only(c) == \A d \in Callers \ {c} :
             /\ pc'[d] = pc[d] /\ request'[d] = request[d] /\ gaps'[d] = gaps[d]
             /\ integrity'[d] = integrity[d]
<1>4. ASSUME NEW c \in Callers, Only(c), FirstLook(c)', Counted(c)'
      PROVE  \A d \in Callers : FirstLook(d)' /\ Counted(d)'
  BY <1>0, <1>4, OthersRead
<1> HIDE DEF Only
\* A call that starts has no report.
<1>5. ASSUME NEW c \in Callers, NEW r \in Requests, Call(c, r)
      PROVE  Counted(c)'
  <2>1. integrity'[c] = NoReport
    BY <1>0, <1>5 DEF Call
  <2>2. QED
    BY <2>1 DEF Counted, NoReport
<1>6. ASSUME NEW c \in Callers, NEW r \in Requests, Lead(c, r) \/ Follow(c, r)
      PROVE  \A d \in Callers : FirstLook(d)' /\ Counted(d)'
  <2>1. Only(c) /\ pc'[c] \in {"planning", "waiting"}
    BY <1>0, <1>6 DEF Lead, Follow, Call, Only
  <2>2. FirstLook(c)' /\ Counted(c)'
    BY <1>5, <1>6, <2>1 DEF FirstLook, Lead, Follow
  <2>3. QED
    BY <1>4, <2>1, <2>2
<1>7. ASSUME NEW c \in Callers, NEW r \in Requests, Verify(c, r)
      PROVE  \A d \in Callers : FirstLook(d)' /\ Counted(d)'
  <2>1. /\ Call(c, r) /\ rows' = rows /\ request'[c] = r
        /\ r.start \in Int /\ r.end \in Int /\ r \in Windows
    BY <1>0, <1>7, FetcherAssumption DEF Verify, Call, world, Windows
  <2>2. PICK missing \in Missing(r) : gaps' = [gaps EXCEPT ![c] = missing]
    BY <1>7 DEF Verify
  <2>3. Only(c) /\ gaps'[c] = missing
    BY <1>0, <1>7, <2>1, <2>2 DEF Verify, Call, Only
  <2>4. /\ missing = CalculateGaps(r.start, r.end, DataRanges(rows))
        /\ GapsOf(rows, r.start, r.end, missing)
    BY <2>1, <2>2, MissingAre
  <2>5. ASSUME OfMinutes(r)
        PROVE  /\ missing \in Lists(Minutes)
               /\ \A t \in Minutes : r.start <= t /\ t < r.end =>
                    Stored(t) \/ t \in Moments(missing)
    <3>1. r.start \in Minutes /\ r.end \in Minutes /\ Minutes \in SUBSET Int
      BY <2>1, <2>5 DEF OfMinutes, Minutes
    <3>2. IsFiniteSet(rows)
      BY DEF TableInv
    <3>3. MarkedBy(rows, Minutes)
      <4>1. \A t \in Minutes : t + BarLength \in Minutes
        <5>1. SUFFICES ASSUME NEW t \in Minutes PROVE t + BarLength \in Minutes
          OBVIOUS
        <5>2. PICK k \in Int : t = BarLength * k
          BY Numbered
        <5>3. t + BarLength = BarLength * (k + 1)
          BY <5>2, BarLengthAssumption
        <5>4. k + 1 \in Int
          OBVIOUS
        <5>5. QED
          BY <5>3, <5>4, NumberIsMinute
      <4>2. QED
        BY <4>1 DEF MarkedBy, OnTheMinute
    <3>4. missing \in Lists(Minutes)
      BY <2>4, <3>1, <3>2, <3>3, GapsExact
    <3>5. QED
      BY <2>1, <2>4, <3>4, StoredOrMissing
  <2>6. FirstLook(c)'
    BY <2>1, <2>3, <2>5 DEF FirstLook, Stored
  <2>7. QED
    BY <1>4, <1>5, <2>1, <2>3, <2>6
<1>8. ASSUME NEW c \in Callers, Report(c)
      PROVE  \A d \in Callers : FirstLook(d)' /\ Counted(d)'
  <2>1. Only(c) /\ pc'[c] = "idle"
    BY <1>0, <1>8 DEF Report, Only
  <2>2. FirstLook(c)'
    BY <2>1 DEF FirstLook
  <2>3. Counted(c)'
    BY <1>0, <1>8, ReportCounts
  <2>4. QED
    BY <1>4, <2>1, <2>2, <2>3
\* No other step is one of verify_data.
<1>9. ASSUME NEW c \in Callers, Only(c), pc'[c] # "verifying",
             UNCHANGED <<request, integrity>>
      PROVE  \A d \in Callers : FirstLook(d)' /\ Counted(d)'
  <2>1. FirstLook(c)' /\ Counted(c)'
    BY <1>0, <1>9 DEF FirstLook, Counted
  <2>2. QED
    BY <1>4, <1>9, <2>1
<1>10. ASSUME NEW c \in Callers, Poll(c) \/ Finish(c)
       PROVE  \A d \in Callers : FirstLook(d)' /\ Counted(d)'
  <2>1. Only(c) /\ pc'[c] # "verifying" /\ UNCHANGED <<request, integrity>>
    BY <1>0, <1>10 DEF Poll, Finish, Only, task
  <2>2. QED
    BY <1>9, <2>1
<1>11. ASSUME NEW c \in Callers, Fail(c) \/ Drop(c)
       PROVE  \A d \in Callers : FirstLook(d)' /\ Counted(d)'
  <2>1. Only(c) /\ pc'[c] # "verifying" /\ UNCHANGED <<request, integrity>>
    BY <1>0, <1>11 DEF Fail, Drop, EndsWith, Only
  <2>2. QED
    BY <1>9, <2>1
<1>12. ASSUME NEW c \in Callers, Plan(c)
       PROVE  \A d \in Callers : FirstLook(d)' /\ Counted(d)'
  <2>1. PICK missing \in Missing(request[c]) :
          \/ EndsWith(c, "Ok") /\ UNCHANGED gaps
          \/ EndsWith(c, "TooMuch") /\ UNCHANGED gaps
          \/ /\ gaps' = [gaps EXCEPT ![c] = missing]
             /\ pc' = [pc EXCEPT ![c] = "fetching"]
    BY <1>12 DEF Plan
  <2>2. UNCHANGED <<request, integrity>>
    BY <1>12 DEF Plan
  <2>3. Only(c) /\ pc'[c] # "verifying"
    BY <1>0, <2>1, <2>2 DEF EndsWith, Only
  <2>4. QED
    BY <1>9, <2>2, <2>3
<1>13. ASSUME NEW c \in Callers, Fetch(c) \/ Insert(c)
       PROVE  \A d \in Callers : FirstLook(d)' /\ Counted(d)'
  <2>1. UNCHANGED <<request, integrity>>
    BY <1>13 DEF Fetch, Insert
  <2>2. \/ NextRange(c)
        \/ pc' = [pc EXCEPT ![c] = "inserting"] /\ UNCHANGED gaps
    BY <1>13 DEF Fetch, Insert
  <2>3. Only(c) /\ pc'[c] # "verifying"
    BY <1>0, <2>1, <2>2 DEF NextRange, EndsWith, Only
  <2>4. QED
    BY <1>9, <2>1, <2>3
<1>14. QED
  BY <1>3, <1>6, <1>7, <1>8, <1>10, <1>11, <1>12, <1>13 DEF Next, Step

LEMMA VerifyInvMissesNothing == VerifyInv => VerifyMissesNothing
BY DEF VerifyInv, VerifyMissesNothing, Counted, OfMinutes

\* While the table holds bars of whole minutes, verify_data never finds less than there
\* is to find, whatever is inserted between its two looks at the table.
THEOREM VerifyCounts == Spec /\ []OnTheMinute => []VerifyMissesNothing
BY TableInit, TableNext, VerifyInit, VerifyNext, VerifyInvMissesNothing, PTL DEF Spec

\* So it is when the exchange's bars and the first rows open at whole minutes, unless okx
\* makes bars up.
THEOREM VerifyCountsMinutes ==
  WholeMinutes => (Spec => [](adapter # "okx" => VerifyMissesNothing))
<1> DEFINE Inv == adapter # "okx" => VerifyInv
<1>1. SUFFICES ASSUME WholeMinutes PROVE Spec => [](adapter # "okx" => VerifyMissesNothing)
  OBVIOUS
<1>2. Init => MinuteInv /\ Inv
  BY <1>1, MinuteInit, VerifyInit
<1>3. TableInv /\ MinuteInv /\ [Next]_vars => MinuteInv'
  BY <1>1, MinuteMoves, NextMoves
<1>4. TableInv /\ MinuteInv /\ Inv /\ [Next]_vars => Inv'
  BY VerifyNext, BarsOfStep, NextMoves DEF MinuteInv
<1>5. Inv => (adapter # "okx" => VerifyMissesNothing)
  BY VerifyInvMissesNothing
<1>6. QED
  BY TableInit, TableNext, <1>2, <1>3, <1>4, <1>5, PTL DEF Spec

-----------------------------------------------------------------------------
\* The answers of the data provider

\* The bars were aggregated from rows of the table, and those that are in the range and
\* were left out came no more than age ago.
Mirrors(table, ages, k, seq, age) ==
  \E past \in SUBSET InRange(table, k) :
    /\ \E raw \in Orders(past) : seq = OfInterval(raw, k.interval)
    /\ \A row \in InRange(table, k) \ past : ages[row] <= age

FreshEntry(table, ages, e) ==
  /\ e = [key |-> e.key, bars |-> e.bars, age |-> e.age]
  /\ e.age \in 0 .. Ttl
  /\ Mirrors(table, ages, e.key, e.bars, e.age)

\* Every entry of the cache is as old, at least, as the rows it leaves out.
FreshCache(table, ages, es) ==
  \E S : es \in Seq(S) /\ \A e \in S : FreshEntry(table, ages, e)

\* Between its query and its write to the cache a call leaves out what is new only.
Fresh(c) ==
  /\ stage[c] = "filling" => Mirrors(rows, stored, key[c], bars[c], 0)
  /\ stage[c] # "none" => answer[c] = NoAnswer

DataInv ==
  /\ DOMAIN stage = Callers /\ DOMAIN key = Callers
  /\ DOMAIN bars = Callers /\ DOMAIN answer = Callers
  /\ stored \in [rows -> 0 .. Ttl]
  /\ FreshCache(rows, stored, cache)
  /\ \A c \in Callers : Fresh(c)

\* Rows are added, and are new; the others are as old as they were.
Grown(table, ages, table2, ages2) ==
  /\ table \subseteq table2
  /\ \A row \in table2 : ages2[row] = IF row \in table THEN ages[row] ELSE 0

LEMMA MirrorsGrown ==
  ASSUME NEW table, NEW ages, NEW table2, NEW ages2, Grown(table, ages, table2, ages2),
         NEW k, NEW seq, NEW age \in Nat, Mirrors(table, ages, k, seq, age)
  PROVE  Mirrors(table2, ages2, k, seq, age)
<1>1. PICK past \in SUBSET InRange(table, k) :
        /\ \E raw \in Orders(past) : seq = OfInterval(raw, k.interval)
        /\ \A row \in InRange(table, k) \ past : ages[row] <= age
  BY Zenon DEF Mirrors
<1>2. past \in SUBSET InRange(table2, k)
  BY DEF Grown, InRange
<1>3. ASSUME NEW row \in InRange(table2, k) \ past PROVE ages2[row] <= age
  <2>1. CASE row \in table
    <3>1. row \in InRange(table, k) \ past /\ ages2[row] = ages[row]
      BY <2>1 DEF Grown, InRange
    <3>2. QED
      BY <1>1, <3>1, Zenon
  <2>2. CASE row \notin table
    <3>1. ages2[row] = 0
      BY <2>2 DEF Grown, InRange
    <3>2. QED
      BY <3>1
  <2>3. QED
    BY <2>1, <2>2
<1>4. QED
  BY <1>1, <1>2, <1>3, Zenon DEF Mirrors

LEMMA CacheGrown ==
  ASSUME NEW table, NEW ages, NEW table2, NEW ages2, Grown(table, ages, table2, ages2),
         NEW es, FreshCache(table, ages, es)
  PROVE  FreshCache(table2, ages2, es)
<1>1. PICK S : es \in Seq(S) /\ \A e \in S : FreshEntry(table, ages, e)
  BY Zenon DEF FreshCache
<1>2. ASSUME NEW e \in S PROVE FreshEntry(table2, ages2, e)
  <2>1. FreshEntry(table, ages, e)
    BY <1>1
  <2>2. e.age \in Nat
    BY <2>1, ProviderAssumption DEF FreshEntry
  <2>3. Mirrors(table2, ages2, e.key, e.bars, e.age)
    BY <2>1, <2>2, MirrorsGrown DEF FreshEntry
  <2>4. QED
    BY <2>1, <2>3, Zenon DEF FreshEntry
<1>3. QED
  BY <1>1, <1>2, Zenon DEF FreshCache

\* The rows and the entries of the cache age alike.
LEMMA MirrorsOlder ==
  ASSUME NEW table, NEW ages \in [table -> 0 .. Ttl],
         NEW k, NEW seq, NEW age \in 0 .. Ttl, Mirrors(table, ages, k, seq, age)
  PROVE  Mirrors(table, [row \in table |-> Older(ages[row])], k, seq, Older(age))
<1>1. PICK past \in SUBSET InRange(table, k) :
        /\ \E raw \in Orders(past) : seq = OfInterval(raw, k.interval)
        /\ \A row \in InRange(table, k) \ past : ages[row] <= age
  BY Zenon DEF Mirrors
<1>2. Ttl \in Nat
  BY ProviderAssumption
<1>3. ASSUME NEW row \in InRange(table, k) \ past
      PROVE  [r \in table |-> Older(ages[r])][row] <= Older(age)
  <2>1. row \in table /\ ages[row] <= age /\ ages[row] \in 0 .. Ttl
    BY <1>1 DEF InRange
  <2>2. Older(ages[row]) <= Older(age)
    BY <1>2, <2>1 DEF Older, Smaller
  <2>3. QED
    BY <2>1, <2>2
<1>4. QED
  BY <1>1, <1>3, Zenon DEF Mirrors

LEMMA EntryOlder ==
  ASSUME NEW table, NEW ages \in [table -> 0 .. Ttl], NEW e, FreshEntry(table, ages, e)
  PROVE  FreshEntry(table, [row \in table |-> Older(ages[row])],
                    [e EXCEPT !.age = Older(@)])
<1>1. /\ e = [key |-> e.key, bars |-> e.bars, age |-> e.age]
      /\ e.age \in 0 .. Ttl
      /\ Mirrors(table, ages, e.key, e.bars, e.age)
  BY Zenon DEF FreshEntry
<1>2. PICK older : older = [e EXCEPT !.age = Older(@)]
  OBVIOUS
<1>3. /\ older = [key |-> older.key, bars |-> older.bars, age |-> older.age]
      /\ older.key = e.key /\ older.bars = e.bars /\ older.age = Older(e.age)
  <2>1. older = [[key |-> e.key, bars |-> e.bars, age |-> e.age] EXCEPT !.age = Older(e.age)]
    BY <1>1, <1>2
  <2>2. QED
    BY <2>1
<1>4. older.age \in 0 .. Ttl
  BY <1>1, <1>3, ProviderAssumption DEF Older, Smaller
<1>5. Mirrors(table, [row \in table |-> Older(ages[row])], older.key, older.bars, older.age)
  BY <1>1, <1>3, MirrorsOlder
<1>6. FreshEntry(table, [row \in table |-> Older(ages[row])], older)
  BY <1>3, <1>4, <1>5, Zenon DEF FreshEntry
<1>7. QED
  BY <1>2, <1>6

LEMMA CacheOlder ==
  ASSUME NEW table, NEW ages \in [table -> 0 .. Ttl], NEW es, FreshCache(table, ages, es)
  PROVE  FreshCache(table, [row \in table |-> Older(ages[row])],
                    [i \in DOMAIN es |-> [es[i] EXCEPT !.age = Older(@)]])
<1>1. PICK S : es \in Seq(S) /\ \A e \in S : FreshEntry(table, ages, e)
  BY Zenon DEF FreshCache
<1>2. PICK T : T = {[e EXCEPT !.age = Older(@)] : e \in S}
  OBVIOUS
<1>3. [i \in DOMAIN es |-> [es[i] EXCEPT !.age = Older(@)]] \in Seq(T)
  <2>1. ASSUME NEW i \in DOMAIN es PROVE [es[i] EXCEPT !.age = Older(@)] \in T
    <3>1. PICK e \in S : e = es[i]
      BY <1>1
    <3>2. [e EXCEPT !.age = Older(@)] \in T
      BY <1>2, Zenon
    <3>3. QED
      BY <3>1, <3>2
  <2>2. DOMAIN es = 1 .. Len(es) /\ Len(es) \in Nat
    BY <1>1
  <2>3. QED
    BY <2>1, <2>2
<1>4. \A e \in T : FreshEntry(table, [row \in table |-> Older(ages[row])], e)
  BY <1>1, <1>2, EntryOlder
<1>5. QED
  BY <1>3, <1>4, Zenon DEF FreshCache


-----------------------------------------------------------------------------
\* What the operations leave in the cache was there, or is the entry that is set.

LEMMA RemovedAt ==
  ASSUME NEW S, NEW es \in Seq(S), NEW i \in DOMAIN es
  PROVE  RemoveAt(es, i) \in Seq(S)
<1>1. i \in 1 .. Len(es) /\ Len(es) \in Nat
  OBVIOUS
<1>2. SubSeq(es, 1, i - 1) \in Seq(S)
  BY <1>1, SubSeqProperties
<1>3. SubSeq(es, i + 1, Len(es)) \in Seq(S)
  BY <1>1, SubSeqProperties
<1>4. QED
  BY <1>2, <1>3 DEF RemoveAt

LEMMA LeastOf ==
  ASSUME NEW I \in SUBSET Nat, I # {}
  PROVE  \E m \in I : \A n \in I : m <= n
<1>1. PICK m \in I : \A n \in I : ~ (<< n, m >> \in OpToRel(<, Nat))
  BY NatLessThanWellFounded, WFMin, Zenon
<1>2. ASSUME NEW n \in I PROVE m <= n
  <2>1. ~ (n < m)
    BY <1>1 DEF OpToRel
  <2>2. QED
    BY <2>1
<1>3. QED
  BY <1>2

LEMMA OthersLeft ==
  ASSUME NEW S, cache \in Seq(S), NEW k
  PROVE  Others(k) \in Seq(S)
<1> DEFINE P(i) == cache[i].key = k
           I == {i \in 1 .. Len(cache) : P(i)}
           at == Min(I)
<1>1. Others(k) = IF \E i \in 1 .. Len(cache) : P(i)
                  THEN RemoveAt(cache, IF I # {} THEN at ELSE 0) ELSE cache
  BY Zenon DEF Others, RemoveFirstMatch, SelectInSeq
<1>2. CASE \E i \in 1 .. Len(cache) : P(i)
  <2>1. at \in 1 .. Len(cache) /\ I # {}
    <3>1. I # {} /\ I \in SUBSET Nat /\ I \in SUBSET (1 .. Len(cache))
      BY <1>2
    <3> HIDE DEF I
    <3>2. PICK m \in I : \A n \in I : m <= n
      BY <3>1, LeastOf
    <3>3. at \in I
      BY <3>2 DEF Min
    <3>4. QED
      BY <3>1, <3>3
  <2>2. at \in DOMAIN cache
    BY <2>1
  <2> HIDE DEF at, P, I
  <2>3. RemoveAt(cache, at) \in Seq(S)
    BY <2>2, RemovedAt
  <2>4. QED
    BY <1>1, <1>2, <2>1, <2>3, Zenon
<1>3. QED
  BY <1>1, <1>2

LEMMA HitLeaves ==
  ASSUME NEW S, cache \in Seq(S), NEW k, NEW entry, Hit(k, entry)
  PROVE  /\ entry \in S /\ entry.key = k /\ entry.age < Ttl
         /\ cache' \in Seq(S)
<1>1. PICK i \in At(k) : /\ entry = cache[i] /\ entry.age < Ttl
                         /\ cache' = << entry >> \o RemoveAt(cache, i) \/ cache' = cache
  BY DEF Hit, MemoryHit, RedisHit
<1>2. i \in DOMAIN cache /\ entry \in S /\ entry.key = k
  BY <1>1 DEF At
<1>3. << entry >> \o RemoveAt(cache, i) \in Seq(S)
  <2>1. RemoveAt(cache, i) \in Seq(S)
    BY <1>2, RemovedAt
  <2>2. << entry >> \in Seq(S)
    BY <1>2
  <2>3. QED
    BY <2>1, <2>2, ConcatProperties
<1>4. QED
  BY <1>1, <1>2, <1>3

LEMMA MissLeaves ==
  ASSUME NEW S, cache \in Seq(S), NEW k, Miss(k)
  PROVE  cache' \in Seq(S)
BY OthersLeft DEF Miss, MemoryMiss, RedisMiss

LEMMA PutLeaves ==
  ASSUME NEW S, cache \in Seq(S), NEW k, NEW seq, Put(k, seq),
         [key |-> k, bars |-> seq, age |-> 0] \in S
  PROVE  cache' \in Seq(S)
<1>1. PICK all : all = Entry(k, seq) \o Others(k)
  OBVIOUS
<1>2. all \in Seq(S)
  <2>1. Entry(k, seq) \in Seq(S)
    BY DEF Entry
  <2>2. QED
    BY <1>1, <2>1, OthersLeft, ConcatProperties
<1>3. Smaller(Len(all), Capacity) \in 0 .. Len(all)
  <2>1. Len(all) \in Nat /\ Capacity \in Nat
    BY <1>2, ProviderAssumption
  <2>2. QED
    BY <2>1 DEF Smaller
<1>4. SubSeq(all, 1, Smaller(Len(all), Capacity)) \in Seq(S)
  BY <1>2, <1>3, SubSeqProperties
<1>5. cache' \in {cache, all, SubSeq(all, 1, Smaller(Len(all), Capacity))}
  BY <1>1 DEF Put, MemorySet, RedisSet
<1>6. QED
  BY <1>2, <1>4, <1>5

\* A finite set has a sequence of its elements.
LEMMA Sequenced ==
  ASSUME NEW T, IsFiniteSet(T)
  PROVE  SetToSeq(T) \in Seq(T)
<1>1. PICK n \in Nat : ExistsBijection(1 .. n, T)
  BY FS_NatBijection
<1>2. Cardinality(T) = n
  BY <1>1, FS_CountingElements
<1>3. \E f \in [1 .. Cardinality(T) -> T] : IsInjective(f)
  BY <1>1, <1>2 DEF ExistsBijection, Bijection, Injection
<1>4. SetToSeq(T) \in [1 .. Cardinality(T) -> T]
  BY <1>3 DEF SetToSeq
<1>5. QED
  BY <1>2, <1>4

LEMMA ClearLeaves ==
  ASSUME NEW S, cache \in Seq(S), MemoryClear \/ RedisClear
  PROVE  cache' \in Seq(S)
<1>1. CASE MemoryClear
  BY <1>1 DEF MemoryClear
<1>2. CASE RedisClear
  <2>1. PICK kept \in SUBSET ToSet(cache) : cache' = SetToSeq(kept)
    BY <1>2 DEF RedisClear
  <2>2. IsFiniteSet(ToSet(cache))
    <3>1. DOMAIN cache = 1 .. Len(cache) /\ Len(cache) \in Nat
      OBVIOUS
    <3>2. IsFiniteSet(DOMAIN cache)
      BY <3>1, FS_Interval
    <3>3. QED
      BY <3>2, ImageOf DEF ToSet
  <2>3. IsFiniteSet(kept)
    BY <2>1, <2>2, FS_Subset
  <2>4. kept \in SUBSET S
    BY <2>1 DEF ToSet
  <2>5. SetToSeq(kept) \in Seq(kept)
    BY <2>3, Sequenced
  <2>6. QED
    BY <2>1, <2>4, <2>5
<1>3. QED
  BY <1>1, <1>2


-----------------------------------------------------------------------------
\* Every action keeps the cache fresh.

LEMMA DataInitFresh == DataInit => DataInv
<1> SUFFICES ASSUME DataInit PROVE DataInv
  OBVIOUS
<1>1. stored \in [rows -> 0 .. Ttl]
  BY ProviderAssumption DEF DataInit
<1>2. FreshCache(rows, stored, cache)
  <2>a. PICK S : S = {}
    OBVIOUS
  <2>1. cache \in Seq(S) /\ \A e \in S : FreshEntry(rows, stored, e)
    BY <2>a DEF DataInit
  <2>2. QED
    BY <2>1, Zenon DEF FreshCache
<1>3. \A c \in Callers : Fresh(c)
  BY DEF DataInit, Fresh
<1>4. QED
  BY <1>1, <1>2, <1>3 DEF DataInit, DataInv

\* The table only grows, and ages as Grown says, in every action but Tick.
TableGrows == /\ Grown(rows, stored, rows', stored')
              /\ stored' \in [rows' -> 0 .. Ttl]

LEMMA SameTable ==
  ASSUME DataInv, UNCHANGED <<rows, stored>>
  PROVE  TableGrows
BY DEF DataInv, TableGrows, Grown

LEMMA MoreTable ==
  ASSUME DataInv, rows \subseteq rows', Ages
  PROVE  TableGrows
BY ProviderAssumption DEF DataInv, TableGrows, Grown, Ages

\* A call that takes no step stays fresh.
LEMMA OthersFresh ==
  ASSUME DataInv, TableGrows, NEW d \in Callers, Fresh(d),
         stage'[d] = stage[d], key'[d] = key[d], bars'[d] = bars[d], answer'[d] = answer[d]
  PROVE  Fresh(d)'
<1>1. Mirrors(rows, stored, key[d], bars[d], 0) =>
        Mirrors(rows', stored', key[d], bars[d], 0)
  BY MirrorsGrown DEF TableGrows
<1>2. QED
  BY <1>1 DEF Fresh

\* One call takes a step, and the others none.
OneCall(c) ==
  /\ DOMAIN stage' = Callers /\ DOMAIN key' = Callers
  /\ DOMAIN bars' = Callers /\ DOMAIN answer' = Callers
  /\ \A d \in Callers \ {c} : /\ stage'[d] = stage[d] /\ key'[d] = key[d]
                              /\ bars'[d] = bars[d] /\ answer'[d] = answer[d]

LEMMA OneCallKeeps ==
  ASSUME DataInv, TableGrows, NEW c \in Callers, OneCall(c), Fresh(c)',
         FreshCache(rows', stored', cache')
  PROVE  DataInv'
<1>1. \A d \in Callers : Fresh(d)'
  <2>1. ASSUME NEW d \in Callers \ {c} PROVE Fresh(d)'
    BY <2>1, OthersFresh DEF DataInv, OneCall
  <2>2. QED
    BY <2>1
<1>2. QED
  BY <1>1 DEF DataInv, TableGrows, OneCall

LEMMA SameCache ==
  ASSUME DataInv, TableGrows, cache' = cache
  PROVE  FreshCache(rows', stored', cache')
<1>1. FreshCache(rows', stored', cache)
  BY CacheGrown DEF DataInv, TableGrows
<1>2. QED
  BY <1>1

\* A call returns.
LEMMA Returned ==
  ASSUME DataInv, NEW c \in Callers, NEW a, Return(c, a), UNCHANGED key
  PROVE  OneCall(c) /\ Fresh(c)'
<1>1. OneCall(c)
  BY DEF DataInv, Return, OneCall
<1>2. stage'[c] = "none"
  BY DEF DataInv, Return
<1>3. QED
  BY <1>1, <1>2 DEF Fresh


\* The fetcher's steps, and the start of a call, leave the rows or add to them.
LEMMA FetcherRows ==
  ASSUME NEW c, Step(c) \/ Fail(c) \/ Drop(c)
  PROVE  rows \subseteq rows'
BY DEF Step, Poll, Plan, Fetch, Insert, Finish, Report, Fail, Drop, world

LEMMA CallRows ==
  ASSUME NEW c, NEW r, Lead(c, r) \/ Follow(c, r)
  PROVE  UNCHANGED rows
BY DEF Lead, Follow, Call, world

LEMMA StartFresh ==
  ASSUME DataInv, NEW c \in Callers, UNCHANGED <<rows, stored, cache, bars>>,
         NEW k, key' = [key EXCEPT ![c] = k],
         stage' = [stage EXCEPT ![c] = "ensuring"],
         answer' = [answer EXCEPT ![c] = NoAnswer]
  PROVE  DataInv'
<1>1. TableGrows
  BY SameTable
<1>2. OneCall(c) /\ Fresh(c)'
  BY DEF DataInv, OneCall, Fresh
<1>3. FreshCache(rows', stored', cache')
  BY <1>1, SameCache
<1>4. QED
  BY <1>1, <1>2, <1>3, OneCallKeeps

LEMMA ReturnFresh ==
  ASSUME DataInv, NEW c \in Callers, UNCHANGED <<rows, stored, key>>,
         NEW a, Return(c, a), NEW S, cache' \in Seq(S),
         \A e \in S : FreshEntry(rows, stored, e)
  PROVE  DataInv'
<1>1. TableGrows
  BY SameTable
<1>2. OneCall(c) /\ Fresh(c)'
  BY Returned
<1>3. FreshCache(rows', stored', cache')
  BY Zenon DEF FreshCache
<1>4. QED
  BY <1>1, <1>2, <1>3, OneCallKeeps

\* ... and with the cache as it was.
LEMMA ReturnSame ==
  ASSUME DataInv, NEW c \in Callers, UNCHANGED <<rows, stored, key, cache>>,
         NEW a, Return(c, a)
  PROVE  DataInv'
<1>1. PICK S : cache \in Seq(S) /\ \A e \in S : FreshEntry(rows, stored, e)
  BY Zenon DEF DataInv, FreshCache
<1>2. QED
  BY <1>1, ReturnFresh

LEMMA LookUpFresh ==
  ASSUME DataInv, NEW c \in Callers, LookUp(c)
  PROVE  DataInv'
<1>1. UNCHANGED <<rows, stored, key>>
  BY DEF LookUp, vars, world
<1>2. PICK S : cache \in Seq(S) /\ \A e \in S : FreshEntry(rows, stored, e)
  BY Zenon DEF DataInv, FreshCache
<1>3. CASE Return(c, Answer("Err", << >>, FALSE)) /\ UNCHANGED cache
  BY <1>1, <1>3, ReturnSame
<1>4. ASSUME NEW entry, Hit(key[c], entry), Return(c, Validated(config[c], entry.bars, TRUE))
      PROVE  DataInv'
  <2>1. cache' \in Seq(S)
    BY <1>2, <1>4, HitLeaves
  <2>2. QED
    BY <1>1, <1>2, <1>4, <2>1, ReturnFresh
<1>5. CASE /\ Miss(key[c]) /\ stage' = [stage EXCEPT ![c] = "reading"]
           /\ UNCHANGED <<bars, answer>> /\ stage[c] = "ensuring"
  <2>1. cache' \in Seq(S)
    BY <1>2, <1>5, MissLeaves
  <2>2. TableGrows
    BY <1>1, SameTable
  <2>3. OneCall(c) /\ Fresh(c)'
    BY <1>1, <1>5 DEF DataInv, OneCall, Fresh
  <2>4. FreshCache(rows', stored', cache')
    BY <1>1, <1>2, <2>1, Zenon DEF FreshCache
  <2>5. QED
    BY <2>2, <2>3, <2>4, OneCallKeeps
<1>6. QED
  BY <1>3, <1>4, <1>5 DEF LookUp

\* What is read leaves nothing out.
LEMMA ReadFresh ==
  ASSUME DataInv, NEW c \in Callers, Read(c)
  PROVE  DataInv'
<1>1. UNCHANGED <<rows, stored, key, cache>> /\ stage[c] = "reading"
  BY DEF Read, vars, world
<1>2. CASE \E a : Return(c, a)
  BY <1>1, <1>2, ReturnSame
<1>3. ASSUME NEW raw \in Orders(InRange(rows, key[c])),
             bars' = [bars EXCEPT ![c] = OfInterval(raw, key[c].interval)],
             stage' = [stage EXCEPT ![c] = "filling"], UNCHANGED answer
      PROVE  DataInv'
  <2>1. TableGrows
    BY <1>1, SameTable
  <2>2. OneCall(c)
    BY <1>1, <1>3 DEF DataInv, OneCall
  <2>3. Fresh(c)'
    <3>1. bars'[c] = OfInterval(raw, key[c].interval) /\ stage'[c] = "filling"
      BY <1>3 DEF DataInv
    <3>2. ASSUME NEW k, NEW seq, NEW past, past = InRange(rows, k), raw \in Orders(past),
                 seq = OfInterval(raw, k.interval)
          PROVE  Mirrors(rows, stored, k, seq, 0)
      BY <3>2 DEF Mirrors
    <3>3. Mirrors(rows, stored, key[c], bars'[c], 0)
      BY <1>3, <3>1, <3>2, Zenon
    <3>4. Mirrors(rows', stored', key'[c], bars'[c], 0)
      BY <1>1, <3>3
    <3>5. answer'[c] = NoAnswer
      BY <1>1, <1>3 DEF DataInv, Fresh
    <3>6. QED
      BY <3>4, <3>5 DEF Fresh
  <2>4. FreshCache(rows', stored', cache')
    BY <1>1, <2>1, SameCache
  <2>5. QED
    BY <2>1, <2>2, <2>3, <2>4, OneCallKeeps
<1>4. QED
  BY <1>2, <1>3 DEF Read

LEMMA FillFresh ==
  ASSUME DataInv, NEW c \in Callers, Fill(c)
  PROVE  DataInv'
<1>1. UNCHANGED <<rows, stored, key>> /\ stage[c] = "filling"
  BY DEF Fill, vars, world
<1>2. PICK S : cache \in Seq(S) /\ \A e \in S : FreshEntry(rows, stored, e)
  BY Zenon DEF DataInv, FreshCache
<1>3. PICK new : new = [key |-> key[c], bars |-> bars[c], age |-> 0]
  OBVIOUS
<1>4. FreshEntry(rows, stored, new)
  <2>1. Mirrors(rows, stored, key[c], bars[c], 0)
    BY <1>1 DEF DataInv, Fresh
  <2>2. /\ new = [key |-> new.key, bars |-> new.bars, age |-> new.age]
        /\ new.key = key[c] /\ new.bars = bars[c] /\ new.age = 0
    BY <1>3
  <2>3. new.age \in 0 .. Ttl
    BY <2>2, ProviderAssumption
  <2>4. Mirrors(rows, stored, new.key, new.bars, new.age)
    BY <2>1, <2>2
  <2>5. QED
    BY <2>2, <2>3, <2>4, Zenon DEF FreshEntry
<1>5. PICK T : T = S \cup {new}
  OBVIOUS
<1>6. cache \in Seq(T) /\ new \in T /\ \A e \in T : FreshEntry(rows, stored, e)
  BY <1>2, <1>4, <1>5
<1>7. cache' \in Seq(T)
  BY <1>3, <1>6, PutLeaves DEF Fill
<1>8. QED
  BY <1>1, <1>6, <1>7, ReturnFresh DEF Fill


LEMMA DropFresh ==
  ASSUME DataInv, NEW c \in Callers, DropCall(c)
  PROVE  DataInv'
<1>1. UNCHANGED <<stored, cache, key, answer>> /\ UNCHANGED rows
  BY DEF DropCall, Drop, vars, world
<1>2. TableGrows
  BY <1>1, SameTable
<1>3. OneCall(c) /\ Fresh(c)'
  BY <1>1 DEF DataInv, OneCall, Fresh, DropCall
<1>4. FreshCache(rows', stored', cache')
  BY <1>1, <1>2, SameCache
<1>5. QED
  BY <1>2, <1>3, <1>4, OneCallKeeps

LEMMA FetcherFresh ==
  ASSUME DataInv, NEW c \in Callers, FetcherStep(c)
  PROVE  DataInv'
<1>1. rows \subseteq rows' /\ Ages /\ UNCHANGED <<cache, stage, key, bars, answer>>
  BY FetcherRows DEF FetcherStep
<1>2. TableGrows
  BY <1>1, MoreTable
<1>3. OneCall(c)
  BY <1>1 DEF DataInv, OneCall
<1>4. Fresh(c)'
  BY <1>1, <1>2, OthersFresh DEF DataInv
<1>5. FreshCache(rows', stored', cache')
  BY <1>1, <1>2, SameCache
<1>6. QED
  BY <1>2, <1>3, <1>4, <1>5, OneCallKeeps

\* No call is between its query and its write when time passes.
LEMMA TickFresh ==
  ASSUME DataInv, Tick
  PROVE  DataInv'
<1>1. /\ \A c \in Callers : stage[c] # "filling"
      /\ stored' = [row \in rows |-> Older(stored[row])]
      /\ cache' = [i \in DOMAIN cache |-> [cache[i] EXCEPT !.age = Older(@)]]
      /\ UNCHANGED <<rows, stage, key, bars, answer>>
  BY DEF Tick, vars, world
<1>2. stored' \in [rows' -> 0 .. Ttl]
  <2>1. ASSUME NEW row \in rows PROVE Older(stored[row]) \in 0 .. Ttl
    <3>1. stored[row] \in 0 .. Ttl /\ Ttl \in Nat
      BY ProviderAssumption DEF DataInv
    <3>2. QED
      BY <3>1 DEF Older, Smaller
  <2>2. QED
    BY <1>1, <2>1
<1>3. FreshCache(rows', stored', cache')
  <2>1. stored \in [rows -> 0 .. Ttl] /\ FreshCache(rows, stored, cache)
    BY DEF DataInv
  <2>2. FreshCache(rows, [row \in rows |-> Older(stored[row])],
                   [i \in DOMAIN cache |-> [cache[i] EXCEPT !.age = Older(@)]])
    BY <2>1, CacheOlder
  <2>3. QED
    BY <1>1, <2>2
<1>4. \A c \in Callers : Fresh(c)'
  BY <1>1 DEF DataInv, Fresh
<1>5. QED
  BY <1>1, <1>2, <1>3, <1>4 DEF DataInv

\* Entries go, and nothing else changes.
LEMMA LessCache ==
  ASSUME DataInv, UNCHANGED <<rows, stored, stage, key, bars, answer>>,
         \A S : cache \in Seq(S) => cache' \in Seq(S)
  PROVE  DataInv'
<1>1. PICK S : cache \in Seq(S) /\ \A e \in S : FreshEntry(rows, stored, e)
  BY Zenon DEF DataInv, FreshCache
<1>2. FreshCache(rows', stored', cache')
  BY <1>1, Zenon DEF FreshCache
<1>3. \A c \in Callers : Fresh(c)'
  BY DEF DataInv, Fresh
<1>4. QED
  BY <1>2, <1>3 DEF DataInv

LEMMA DeleteFresh ==
  ASSUME DataInv, Delete \/ Clear
  PROVE  DataInv'
<1>1. UNCHANGED <<rows, stored, stage, key, bars, answer>>
  BY DEF Delete, Clear, vars, world
<1>2. ASSUME NEW S, cache \in Seq(S) PROVE cache' \in Seq(S)
  <2>1. CASE Delete
    BY <1>2, <2>1, RemovedAt DEF Delete
  <2>2. CASE Clear
    BY <1>2, <2>2, ClearLeaves DEF Clear
  <2>3. QED
    BY <2>1, <2>2
<1>3. QED
  BY <1>1, <1>2, LessCache

LEMMA GetAtOnceReturns ==
  ASSUME NEW c, NEW cfg, GetAtOnce(c, cfg)
  PROVE  (\E a : Return(c, a)) /\ stage[c] = "none" /\ UNCHANGED <<rows, stored, key, cache>>
BY DEF GetAtOnce, world

LEMMA GetBarsStarts ==
  ASSUME NEW c, NEW cfg, GetBars(c, cfg) \/ ReadThrough(c, cfg)
  PROVE  /\ UNCHANGED <<rows, stored, cache, bars>>
         /\ \E k : key' = [key EXCEPT ![c] = k]
         /\ stage[c] = "none"
         /\ stage' = [stage EXCEPT ![c] = "ensuring"]
         /\ answer' = [answer EXCEPT ![c] = NoAnswer]
BY CallRows DEF GetBars, ReadThrough, world

LEMMA EndReturns ==
  ASSUME NEW c, EnsureFailed(c) \/ ReadFails(c)
  PROVE  /\ \E a : Return(c, a) /\ a.kind = "Err"
         /\ UNCHANGED <<rows, stored, key, cache>>
BY DEF EnsureFailed, ReadFails, vars, world, Answer

LEMMA DataNextFresh == DataInv /\ [DataNext]_allVars => DataInv'
<1> SUFFICES ASSUME DataInv, [DataNext]_allVars PROVE DataInv'
  OBVIOUS
<1>1. CASE UNCHANGED allVars
  <2>1. UNCHANGED <<rows, stored, stage, key, bars, answer, cache>>
    BY <1>1 DEF allVars, dataVars, vars, world
  <2>2. QED
    BY <2>1, LessCache
<1>2. ASSUME NEW c \in Callers, NEW cfg \in Configs, GetAtOnce(c, cfg)
      PROVE  DataInv'
  BY <1>2, GetAtOnceReturns, ReturnSame
<1>3. ASSUME NEW c \in Callers, NEW cfg \in Configs, GetBars(c, cfg) \/ ReadThrough(c, cfg)
      PROVE  DataInv'
  BY <1>3, GetBarsStarts, StartFresh
<1>4. ASSUME NEW c \in Callers, EnsureFailed(c) \/ ReadFails(c)
      PROVE  DataInv'
  BY <1>4, EndReturns, ReturnSame
<1>5. QED
  BY <1>1, <1>2, <1>3, <1>4, FetcherFresh, LookUpFresh, ReadFresh, FillFresh, DropFresh,
     TickFresh, DeleteFresh DEF DataNext, ProviderStep

-----------------------------------------------------------------------------
\* What is answered.

\* What is left out came less than a time to live ago.
LEMMA FreshReflects ==
  ASSUME NEW k, NEW seq, NEW age \in Nat, age < Ttl, Mirrors(rows, stored, k, seq, age),
         stored \in [rows -> 0 .. Ttl]
  PROVE  Reflects(k, seq)
<1>1. PICK past \in SUBSET InRange(rows, k) :
        /\ \E raw \in Orders(past) : seq = OfInterval(raw, k.interval)
        /\ \A row \in InRange(rows, k) \ past : stored[row] <= age
  BY Zenon DEF Mirrors
<1>2. PICK found : found = InRange(rows, k)
  OBVIOUS
<1>3. found \ past \in SUBSET {row \in found : stored[row] < Ttl}
  <2>1. ASSUME NEW row \in found \ past PROVE stored[row] < Ttl
    <3>1. row \in rows /\ stored[row] <= age
      BY <1>1, <1>2 DEF InRange
    <3>2. stored[row] \in 0 .. Ttl /\ Ttl \in Nat
      BY <3>1, ProviderAssumption
    <3>3. QED
      BY <3>1, <3>2
  <2>2. QED
    BY <2>1
<1>4. found \ (found \ past) = past
  BY <1>1, <1>2
<1>5. PICK late : late = found \ past
  OBVIOUS
<1>6. /\ late \in SUBSET {row \in found : stored[row] < Ttl}
      /\ \E raw \in Orders(found \ late) : seq = OfInterval(raw, k.interval)
  BY <1>1, <1>3, <1>4, <1>5
<1>7. QED
  BY <1>2, <1>6, Zenon DEF Reflects

\* What a step makes a call answer.
AnswersWell(c) ==
  stage[c] \in {"ensuring", "filling"} /\ answer'[c].kind \in {"Ok", "NotFound"} =>
    Reflects(key[c], answer'[c].bars)

LEMMA NothingAnswered ==
  ASSUME DataInv, NEW c \in Callers, answer'[c] = answer[c] \/ answer'[c] = NoAnswer
                                       \/ answer'[c].kind = "Err"
  PROVE  AnswersWell(c)
BY DEF DataInv, Fresh, AnswersWell, NoAnswer, Answer

LEMMA LookUpAnswers ==
  ASSUME DataInv, NEW c \in Callers, LookUp(c)
  PROVE  AnswersWell(c)
<1>1. PICK S : cache \in Seq(S) /\ \A e \in S : FreshEntry(rows, stored, e)
  BY Zenon DEF DataInv, FreshCache
<1>2. ASSUME NEW entry, Hit(key[c], entry), Return(c, Validated(config[c], entry.bars, TRUE))
      PROVE  AnswersWell(c)
  <2>1. entry \in S /\ entry.key = key[c] /\ entry.age < Ttl
    BY <1>1, <1>2, HitLeaves
  <2>2. FreshEntry(rows, stored, entry)
    BY <1>1, <2>1
  <2>3. entry.age \in Nat /\ Mirrors(rows, stored, key[c], entry.bars, entry.age)
    BY <2>1, <2>2, ProviderAssumption DEF FreshEntry
  <2>4. Reflects(key[c], entry.bars)
    BY <2>1, <2>3, FreshReflects DEF DataInv
  <2>5. answer'[c].bars = entry.bars
    BY <1>2 DEF DataInv, Return, Validated, Answer
  <2>6. QED
    BY <2>4, <2>5 DEF AnswersWell
<1>3. CASE Return(c, Answer("Err", << >>, FALSE))
  <2>1. answer'[c].kind = "Err"
    BY <1>3 DEF DataInv, Return, Answer
  <2>2. QED
    BY <2>1, NothingAnswered
<1>4. CASE UNCHANGED answer
  BY <1>4, NothingAnswered
<1>5. QED
  BY <1>2, <1>3, <1>4 DEF LookUp

LEMMA FillAnswers ==
  ASSUME DataInv, NEW c \in Callers, Fill(c)
  PROVE  AnswersWell(c)
<1>1. Mirrors(rows, stored, key[c], bars[c], 0)
  BY DEF DataInv, Fresh, Fill
<1>2. 0 < Ttl
  BY ProviderAssumption
<1>3. Reflects(key[c], bars[c])
  BY <1>1, <1>2, FreshReflects DEF DataInv
<1>4. answer'[c].bars = bars[c]
  BY DEF DataInv, Fill, Return, Validated, Answer
<1>5. QED
  BY <1>3, <1>4 DEF AnswersWell

LEMMA AnswersFresh ==
  ASSUME DataInv, [DataNext]_allVars, NEW c \in Callers
  PROVE  AnswersWell(c)
<1>1. CASE UNCHANGED answer
  BY <1>1, NothingAnswered
<1>2. ASSUME NEW d \in Callers, NEW a, d # c, Return(d, a)
      PROVE  AnswersWell(c)
  <2>1. answer'[c] = answer[c]
    BY <1>2 DEF DataInv, Return
  <2>2. QED
    BY <2>1, NothingAnswered
<1>3. ASSUME NEW d \in Callers, NEW cfg \in Configs, GetAtOnce(d, cfg)
      PROVE  AnswersWell(c)
  <2>1. stage[d] = "none" /\ \E a : Return(d, a)
    BY <1>3, GetAtOnceReturns
  <2>2. CASE d = c
    BY <2>1, <2>2 DEF AnswersWell
  <2>3. QED
    BY <1>2, <2>1, <2>2
<1>4. ASSUME NEW d \in Callers, NEW cfg \in Configs, GetBars(d, cfg) \/ ReadThrough(d, cfg)
      PROVE  AnswersWell(c)
  <2>1. answer'[c] = answer[c] \/ answer'[c] = NoAnswer
    BY <1>4, GetBarsStarts DEF DataInv
  <2>2. QED
    BY <2>1, NothingAnswered
<1>5. ASSUME NEW d \in Callers, EnsureFailed(d) \/ ReadFails(d)
      PROVE  AnswersWell(c)
  <2>1. PICK a : Return(d, a) /\ a.kind = "Err"
    BY <1>5, EndReturns
  <2>2. CASE d = c
    <3>1. answer'[c].kind = "Err"
      BY <2>1, <2>2 DEF DataInv, Return
    <3>2. QED
      BY <3>1, NothingAnswered
  <2>3. QED
    BY <1>2, <2>1, <2>2
<1>6. ASSUME NEW d \in Callers, LookUp(d) \/ Read(d) \/ Fill(d)
      PROVE  AnswersWell(c)
  <2>1. UNCHANGED answer \/ \E a : Return(d, a)
    BY <1>6 DEF LookUp, Read, Fill
  <2>2. CASE d = c /\ Read(d)
    BY <2>2 DEF AnswersWell, Read
  <2>3. CASE d # c
    BY <1>1, <1>2, <2>1, <2>3
  <2>4. QED
    BY <1>6, <2>2, <2>3, LookUpAnswers, FillAnswers
<1>7. ASSUME NEW d \in Callers, FetcherStep(d) \/ DropCall(d)
      PROVE  AnswersWell(c)
  BY <1>1, <1>7 DEF FetcherStep, DropCall
<1>8. CASE Tick \/ Delete \/ Clear
  BY <1>1, <1>8 DEF Tick, Delete, Clear
<1>9. CASE UNCHANGED allVars
  BY <1>1, <1>9 DEF allVars, dataVars
<1>10. QED
  BY <1>3, <1>4, <1>5, <1>6, <1>7, <1>8, <1>9 DEF DataNext, ProviderStep

\* Of the cache of get_bars_with_storage, in memory or in Redis: an answer is the aggregation
\* of rows of the table and leaves none out that was stored a time to live ago, however
\* queries, inserts, slow writes to the cache, evictions and errors interleave.
THEOREM NoStaleAnswer == DataSpec => AnswersWithinTtl
<1>1. DataInit => DataInv
  BY DataInitFresh
<1>2. DataInv /\ [DataNext]_allVars => DataInv'
  BY DataNextFresh
<1>3. DataInv /\ [DataNext]_allVars =>
        [\A c \in Callers :
           stage[c] \in {"ensuring", "filling"} /\ answer'[c].kind \in {"Ok", "NotFound"} =>
             Reflects(key[c], answer'[c].bars)]_allVars
  BY AnswersFresh DEF AnswersWell
<1>4. QED
  BY <1>1, <1>2, <1>3, PTL DEF DataSpec, AnswersWithinTtl


-----------------------------------------------------------------------------
\* Bars in the order of their timestamps

Bar == [timestamp : Int, open : Int, high : Int, low : Int, close : Int, volume : Int]

\* Bars in the order of their timestamps.
InTime(q) == \A i, j \in DOMAIN q : i < j => q[i].timestamp <= q[j].timestamp

\* Induction over sequences that grow at their end.
LEMMA AppendInd ==
  ASSUME NEW S, NEW Q, << >> \in Q,
         \A q \in Seq(S) : \A b \in S : q \in Q => Append(q, b) \in Q
  PROVE  \A q \in Seq(S) : q \in Q
<1> DEFINE T == {n \in Nat : \A q \in Seq(S) : Len(q) = n => q \in Q}
<1>1. 0 \in T
  <2>1. \A q \in Seq(S) : Len(q) = 0 => q = << >>
    BY EmptySeq
  <2>2. QED
    BY <2>1
<1>2. ASSUME NEW n \in T PROVE n + 1 \in T
  <2>1. SUFFICES ASSUME NEW q \in Seq(S), Len(q) = n + 1 PROVE q \in Q
    OBVIOUS
  <2> DEFINE p == SubSeq(q, 1, n)
             b == q[n + 1]
  <2>2. p \in Seq(S) /\ Len(p) = n /\ b \in S /\ q = Append(p, b)
    BY <2>1
  <2> HIDE DEF p, b
  <2>3. p \in Q
    BY <2>2
  <2>4. QED
    BY <2>2, <2>3
<1>3. T = Nat
  <2>1. T \in SUBSET Nat
    OBVIOUS
  <2> HIDE DEF T
  <2>2. QED
    BY <1>1, <1>2, <2>1, NatInd
<1>4. QED
  BY <1>3

-----------------------------------------------------------------------------
\* Buckets.

LEMMA BucketIs ==
  ASSUME NEW n \in Nat \ {0}
  PROVE  /\ \A t \in Int : /\ Bucket(t, n) \in Int
                           /\ Bucket(t, n) <= t /\ t < Bucket(t, n) + n
         /\ \A t, u \in Int : t <= u => Bucket(t, n) <= Bucket(u, n)
         /\ \A t, u \in Int : Bucket(t, n) <= u /\ u < Bucket(t, n) + n
                                => Bucket(u, n) = Bucket(t, n)
<1>1. \A t \in Int : /\ t \div n \in Int /\ (t \div n) * n \in Int
                     /\ (t \div n) * n <= t /\ t < (t \div n) * n + n
  BY Z3
<1>2. \A p, q \in Int : p < q => p * n + n <= q * n
  BY Z3
<1>3. \A t, u \in Int : t <= u => (t \div n) * n <= (u \div n) * n
  <2>1. SUFFICES ASSUME NEW t \in Int, NEW u \in Int, t <= u
                 PROVE (t \div n) * n <= (u \div n) * n
    OBVIOUS
  <2>2. PICK p \in Int, q \in Int : p = t \div n /\ q = u \div n
    BY <1>1
  <2>3. p * n \in Int /\ q * n \in Int /\ p * n <= t /\ u < q * n + n
    BY <1>1, <2>2
  <2>4. CASE q < p
    <3>1. q * n + n <= p * n
      BY <1>2, <2>4
    <3>2. QED
      BY <2>1, <2>3, <3>1
  <2>5. CASE p = q
    BY <2>2, <2>3, <2>5
  <2>6. CASE p < q
    <3>1. p * n + n <= q * n
      BY <1>2, <2>6
    <3>2. QED
      BY <2>2, <2>3, <3>1
  <2>7. QED
    BY <2>2, <2>4, <2>5, <2>6
<1>4. ASSUME NEW t \in Int, NEW u \in Int, (t \div n) * n <= u, u < (t \div n) * n + n
      PROVE  (u \div n) * n = (t \div n) * n
  <2>1. PICK p \in Int, q \in Int : p = t \div n /\ q = u \div n
    BY <1>1
  <2>2. /\ p * n \in Int /\ q * n \in Int /\ p * n <= u /\ u < p * n + n
        /\ q * n <= u /\ u < q * n + n
    BY <1>1, <1>4, <2>1
  <2>3. ~ (p < q) /\ ~ (q < p)
    <3>1. ASSUME p < q PROVE FALSE
      <4>1. p * n + n <= q * n
        BY <1>2, <3>1
      <4>2. QED
        BY <2>2, <4>1
    <3>2. ASSUME q < p PROVE FALSE
      <4>1. q * n + n <= p * n
        BY <1>2, <3>2
      <4>2. QED
        BY <2>2, <4>1
    <3>3. QED
      BY <3>1, <3>2
  <2>4. QED
    BY <2>1, <2>3
<1>5. QED
  BY <1>1, <1>3, <1>4, Zenon DEF Bucket

\* A bucket of twice the length is made of two.
LEMMA BucketTwice ==
  ASSUME NEW n \in Nat \ {0}, NEW t \in Int
  PROVE  Bucket(Bucket(t, n), 2 * n) = Bucket(t, 2 * n)
<1>1. PICK m \in Nat \ {0} : m = 2 * n
  OBVIOUS
<1>2. PICK p \in Int : p = t \div m /\ p * m \in Int /\ p * m <= t /\ t < p * m + m
  BY Z3
<1>3. PICK q \in Int : q = t \div n /\ q * n \in Int /\ q * n <= t /\ t < q * n + n
  BY Z3
<1>4. p * m = (2 * p) * n /\ (2 * p) * n \in Int
  BY <1>1, Z3
<1>5. ~ (q < 2 * p)
  <2>1. SUFFICES ASSUME q < 2 * p PROVE FALSE
    OBVIOUS
  <2>2. q * n + n <= (2 * p) * n
    <3>1. \A a, b \in Int : a < b => a * n + n <= b * n
      BY Z3
    <3>2. QED
      BY <2>1, <3>1
  <2>3. QED
    BY <1>2, <1>3, <1>4, <2>2
<1>6. (2 * p) * n <= q * n
  <2>1. \A a, b \in Int : a <= b => a * n <= b * n
    BY Z3
  <2>2. QED
    BY <1>5, <2>1
<1>7. p * m <= q * n /\ q * n < p * m + m
  BY <1>2, <1>3, <1>4, <1>6
<1>8. Bucket(q * n, m) = Bucket(t, m)
  <2>1. Bucket(t, m) = p * m /\ Bucket(t, n) = q * n
    BY <1>2, <1>3, Zenon DEF Bucket
  <2>2. PICK u \in Int : u = q * n
    BY <1>3
  <2>3. Bucket(t, m) <= u /\ u < Bucket(t, m) + m
    BY <1>7, <2>1, <2>2
  <2>4. Bucket(u, m) = Bucket(t, m)
    BY <2>3, BucketIs
  <2>5. QED
    BY <2>2, <2>4
<1>9. QED
  BY <1>1, <1>3, <1>8, Zenon DEF Bucket

-----------------------------------------------------------------------------
\* The largest and the smallest of a set with one element more.

LEMMA Extremes ==
  ASSUME NEW S \in SUBSET Int, IsFiniteSet(S), S # {}
  PROVE  /\ Max(S) \in S /\ \A x \in S : x <= Max(S)
         /\ Min(S) \in S /\ \A x \in S : Min(S) <= x
<1>1. \E x \in S : \A y \in S : x >= y
  <2>1. [x \in S |-> x] \in [S -> Int]
    OBVIOUS
  <2>2. \E x \in S : \A y \in S : [z \in S |-> z][y] <= [z \in S |-> z][x]
    BY <2>1, LargestKey
  <2>3. QED
    BY <2>2
<1>2. \E x \in S : \A y \in S : x <= y
  <2>1. [x \in S |-> -x] \in [S -> Int]
    OBVIOUS
  <2>2. \E x \in S : \A y \in S : [z \in S |-> -z][y] <= [z \in S |-> -z][x]
    BY <2>1, LargestKey
  <2>3. QED
    BY <2>2
<1>3. Max(S) \in S /\ \A y \in S : Max(S) >= y
  BY <1>1, Zenon DEF Max
<1>4. Min(S) \in S /\ \A y \in S : Min(S) <= y
  BY <1>2, Zenon DEF Min
<1>5. QED
  BY <1>3, <1>4

LEMMA ExtremesAre ==
  ASSUME NEW S \in SUBSET Int, NEW x \in S
  PROVE  /\ (\A y \in S : y <= x) => Max(S) = x
         /\ (\A y \in S : x <= y) => Min(S) = x
<1>1. ASSUME \A y \in S : y <= x PROVE Max(S) = x
  <2>1. \E z \in S : \A y \in S : z >= y
    BY <1>1
  <2>2. Max(S) \in S /\ \A y \in S : Max(S) >= y
    BY <2>1, Zenon DEF Max
  <2>3. PICK m \in S : m = Max(S)
    BY <2>2
  <2>4. m >= x /\ x >= m
    BY <1>1, <2>2, <2>3
  <2>5. m \in Int /\ x \in Int
    OBVIOUS
  <2>6. QED
    BY <2>3, <2>4, <2>5
<1>2. ASSUME \A y \in S : x <= y PROVE Min(S) = x
  <2>1. \E z \in S : \A y \in S : z <= y
    BY <1>2
  <2>2. Min(S) \in S /\ \A y \in S : Min(S) <= y
    BY <2>1, Zenon DEF Min
  <2>3. PICK m \in S : m = Min(S)
    BY <2>2
  <2>4. m <= x /\ x <= m
    BY <1>2, <2>2, <2>3
  <2>5. m \in Int /\ x \in Int
    OBVIOUS
  <2>6. QED
    BY <2>3, <2>4, <2>5
<1>3. QED
  BY <1>1, <1>2

LEMMA ExtremesGrow ==
  ASSUME NEW S \in SUBSET Int, IsFiniteSet(S), S # {}, NEW x \in Int
  PROVE  /\ Max(S \cup {x}) = Bigger(Max(S), x)
         /\ Min(S \cup {x}) = Smaller(Min(S), x)
<1>1. /\ Max(S) \in S /\ (\A y \in S : y <= Max(S))
      /\ Min(S) \in S /\ (\A y \in S : Min(S) <= y)
  BY Extremes
<1>2. PICK a \in S, b \in S : a = Max(S) /\ b = Min(S)
  BY <1>1
<1>3. Bigger(a, x) \in S \cup {x} /\ \A y \in S \cup {x} : y <= Bigger(a, x)
  BY <1>1, <1>2 DEF Bigger
<1>4. Smaller(b, x) \in S \cup {x} /\ \A y \in S \cup {x} : Smaller(b, x) <= y
  BY <1>1, <1>2 DEF Smaller
<1>5. S \cup {x} \in SUBSET Int
  OBVIOUS
<1> DEFINE p == Bigger(a, x)
           q == Smaller(b, x)
<1> HIDE DEF p, q
<1>6. p = Bigger(a, x) /\ q = Smaller(b, x)
  BY DEF p, q
<1>7. p \in S \cup {x} /\ (\A y \in S \cup {x} : y <= p) /\ q \in S \cup {x} /\ \A y \in S \cup {x} : q <= y
  BY <1>3, <1>4, <1>6
<1>8. Max(S \cup {x}) = p /\ Min(S \cup {x}) = q
  BY <1>5, <1>7, ExtremesAre
<1>9. QED
  BY <1>2, <1>6, <1>8

-----------------------------------------------------------------------------
\* The bar of a bucket, with one bar more.

Join(a, b) ==
  [timestamp |-> a.timestamp, open |-> a.open, high |-> Bigger(a.high, b.high),
   low |-> Smaller(a.low, b.low), close |-> b.close, volume |-> a.volume + b.volume]

Alone(start, b) ==
  [timestamp |-> start, open |-> b.open, high |-> b.high, low |-> b.low,
   close |-> b.close, volume |-> b.volume]

LEMMA JoinIs ==
  /\ \A a, b \in Bar : Join(a, b) \in Bar
  /\ \A a, b, c \in Bar : Join(Join(a, b), c) = Join(a, Join(b, c))
  /\ \A b \in Bar, start \in Int : Alone(start, b) \in Bar
  /\ \A a, b \in Bar, start \in Int : Join(Alone(start, a), b) = Alone(start, Join(a, b))
  /\ \A a, b \in Bar, start \in Int : Join(a, Alone(start, b)) = Join(a, b)
  /\ \A b \in Bar, s, t \in Int : Alone(s, Alone(t, b)) = Alone(s, b)
<1>1. \A a, b \in Bar : Join(a, b) \in Bar
  BY DEF Join, Bar, Bigger, Smaller
<1>2. \A a, b, c \in Bar : Join(Join(a, b), c) = Join(a, Join(b, c))
  <2>1. \A x, y, z \in Int : /\ Bigger(Bigger(x, y), z) = Bigger(x, Bigger(y, z))
                             /\ Smaller(Smaller(x, y), z) = Smaller(x, Smaller(y, z))
                             /\ (x + y) + z = x + (y + z)
    BY DEF Bigger, Smaller
  <2>2. QED
    BY <2>1 DEF Join, Bar
<1>3. \A b \in Bar, start \in Int : Alone(start, b) \in Bar
  BY DEF Alone, Bar
<1>4. \A a, b \in Bar, start \in Int : Join(Alone(start, a), b) = Alone(start, Join(a, b))
  BY DEF Join, Alone, Bar
<1>5. \A a, b \in Bar, start \in Int : Join(a, Alone(start, b)) = Join(a, b)
  BY DEF Join, Alone, Bar
<1>6. \A b \in Bar, s, t \in Int : Alone(s, Alone(t, b)) = Alone(s, b)
  BY DEF Alone, Bar
<1>7. QED
  BY <1>1, <1>2, <1>3, <1>4, <1>5, <1>6

\* Some places in a sequence of bars.
LEMMA PlacesIn ==
  ASSUME NEW q \in Seq(Bar), NEW P \in SUBSET (1 .. Len(q))
  PROVE  /\ IsFiniteSet(P) /\ P \in SUBSET Int /\ DOMAIN q = 1 .. Len(q) /\ Len(q) \in Nat
         /\ \A i \in P : q[i] \in Bar /\ i \in DOMAIN q
<1>1. Len(q) \in Nat /\ DOMAIN q = 1 .. Len(q)
  OBVIOUS
<1>2. IsFiniteSet(1 .. Len(q))
  BY <1>1, FS_Interval
<1>3. IsFiniteSet(P)
  BY <1>2, FS_Subset
<1>4. QED
  BY <1>1, <1>3

\* The sum with one place more.
OnePlaceMore(S, f, T, x, U) ==
  /\ IsFiniteSet(S) /\ \A y \in S : f[y] \in Int
  /\ T \in SUBSET S /\ x \in S \ T /\ U = T \cup {x}

SumGrowsBy(f, T, x, U) ==
  /\ SumFunctionOnSet(f, T) \in Int
  /\ SumFunctionOnSet(f, U) = f[x] + SumFunctionOnSet(f, T)

LEMMA SumOneMore ==
  ASSUME NEW S, NEW f, NEW T, NEW x, NEW U, OnePlaceMore(S, f, T, x, U)
  PROVE  SumGrowsBy(f, T, x, U)
<1>1. /\ IsFiniteSet(S) /\ \A y \in S : f[y] \in Int
      /\ T \in SUBSET S /\ x \in S \ T /\ U = T \cup {x}
  BY DEF OnePlaceMore
<1>2. QED
  BY <1>1, SumInsert DEF SumGrowsBy

LEMMA VolumeIs ==
  ASSUME NEW q \in Seq(Bar), NEW P \in SUBSET (1 .. Len(q))
  PROVE  VolumeOf(q, P) \in Int
<1> DEFINE f == [i \in DOMAIN q |-> q[i].volume]
<1>1. IsFiniteSet(P) /\ \A i \in P : f[i] \in Int
  BY PlacesIn DEF Bar
<1> HIDE DEF f
<1>2. SumFunctionOnSet(f, P) \in Int
  BY <1>1, SumRemove
<1>3. QED
  BY <1>2, Zenon DEF VolumeOf, f

LEMMA VolumeGrows ==
  ASSUME NEW q \in Seq(Bar), NEW b \in Bar, NEW P \in SUBSET (1 .. Len(q))
  PROVE  /\ VolumeOf(Append(q, b), P) = VolumeOf(q, P)
         /\ VolumeOf(Append(q, b), P \cup {Len(q) + 1}) = VolumeOf(q, P) + b.volume
<1> DEFINE r == Append(q, b)
           n == Len(q)
           f == [i \in DOMAIN q |-> q[i].volume]
           g == [i \in DOMAIN r |-> r[i].volume]
<1>1. /\ n \in Nat /\ DOMAIN q = 1 .. n /\ DOMAIN r = 1 .. n + 1 /\ r[n + 1] = b
      /\ \A i \in 1 .. n : r[i] = q[i] /\ q[i] \in Bar
  OBVIOUS
<1>2. /\ \A i \in 1 .. n : f[i] \in Int /\ g[i] = f[i]
      /\ \A i \in 1 .. n + 1 : g[i] \in Int
      /\ g[n + 1] = b.volume
  <2> HIDE DEF r, n
  <2>1. \A i \in 1 .. n : f[i] = q[i].volume /\ g[i] = q[i].volume /\ q[i].volume \in Int
    <3>1. \A i \in 1 .. n : f[i] = q[i].volume /\ g[i] = q[i].volume
      <4>1. \A i \in 1 .. n : i \in DOMAIN q /\ i \in DOMAIN r /\ r[i] = q[i]
        BY <1>1
      <4>2. \A i \in DOMAIN r : g[i] = r[i].volume
        OBVIOUS
      <4>3. \A i \in DOMAIN q : f[i] = q[i].volume
        OBVIOUS
      <4> HIDE DEF f, g
      <4>4. QED
        BY <4>1, <4>2, <4>3
    <3>2. \A i \in 1 .. n : q[i].volume \in Int
      <4>1. \A x \in Bar : x.volume \in Int
        BY DEF Bar
      <4>2. QED
        BY <1>1, <4>1
    <3>3. QED
      BY <3>1, <3>2
  <2>2. g[n + 1] = b.volume /\ b.volume \in Int
    BY <1>1 DEF Bar
  <2>3. \A i \in 1 .. n + 1 : i \in 1 .. n \/ i = n + 1
    BY <1>1
  <2>4. QED
    BY <2>1, <2>2, <2>3
<1>3. IsFiniteSet(1 .. n + 1) /\ IsFiniteSet(P)
  <2>1. n + 1 \in Nat
    BY <1>1
  <2>2. QED
    BY <2>1, FS_Interval, FS_Subset, PlacesIn
<1>4. P \in SUBSET (1 .. n) /\ P \in SUBSET (1 .. n + 1) /\ n + 1 \in (1 .. n + 1) \ P
  BY <1>1
<1>5. VolumeOf(q, P) = SumFunctionOnSet(f, P) /\ \A T : VolumeOf(r, T) = SumFunctionOnSet(g, T)
  BY Zenon DEF VolumeOf
<1> HIDE DEF f, g, r, n
<1>6. SumFunctionOnSet(g, P) = SumFunctionOnSet(f, P)
  BY <1>2, <1>3, <1>4, SumAgrees
<1>7. /\ SumFunctionOnSet(g, P) \in Int
      /\ SumFunctionOnSet(g, P \cup {n + 1}) = g[n + 1] + SumFunctionOnSet(g, P)
  <2>1. PICK U : U = P \cup {n + 1}
    OBVIOUS
  <2>2. OnePlaceMore(1 .. n + 1, g, P, n + 1, U)
    BY <1>2, <1>3, <1>4, <2>1 DEF OnePlaceMore
  <2>3. SumFunctionOnSet(g, P) \in Int /\ SumFunctionOnSet(g, U) = g[n + 1] + SumFunctionOnSet(g, P)
    <3>1. SumGrowsBy(g, P, n + 1, U)
      BY <2>2, SumOneMore, Zenon
    <3>2. QED
      BY <3>1, Zenon DEF SumGrowsBy
  <2>4. QED
    BY <2>1, <2>3
<1>8. g[n + 1] \in Int /\ g[n + 1] = b.volume
  <2>1. n + 1 \in 1 .. n + 1
    BY <1>4
  <2>2. QED
    BY <1>2, <2>1
<1>9. VolumeOf(r, P) = VolumeOf(q, P) /\ VolumeOf(r, P \cup {n + 1}) = VolumeOf(q, P) + b.volume
  BY <1>5, <1>6, <1>7, <1>8
<1>10. QED
  BY <1>9 DEF r, n

LEMMA MergedIs ==
  ASSUME NEW q \in Seq(Bar), NEW start \in Int, NEW P \in SUBSET (1 .. Len(q)), P # {}
  PROVE  Merged(q, start, P) \in Bar
<1>1. /\ IsFiniteSet(P) /\ P \in SUBSET Int
      /\ \A i \in P : q[i] \in Bar
  BY PlacesIn
<1>2. Min(P) \in P /\ Max(P) \in P
  BY <1>1, Extremes
<1> DEFINE hs == [i \in P |-> q[i].high]
           ls == [i \in P |-> q[i].low]
           H == {hs[i] : i \in P}
           L == {ls[i] : i \in P}
<1>3. IsFiniteSet(H) /\ IsFiniteSet(L)
  <2>1. DOMAIN hs = P /\ DOMAIN ls = P
    OBVIOUS
  <2> HIDE DEF hs, ls
  <2>2. QED
    BY <1>1, <2>1, ImageOf
<1>4. H \in SUBSET Int /\ L \in SUBSET Int /\ H # {} /\ L # {}
  BY <1>1 DEF Bar
<1>5. H = {q[i].high : i \in P} /\ L = {q[i].low : i \in P}
  OBVIOUS
<1> HIDE DEF H, L
<1>6. Max(H) \in Int /\ Min(L) \in Int
  BY <1>3, <1>4, Extremes
<1>7. VolumeOf(q, P) \in Int
  BY VolumeIs
<1>8. q[Min(P)].open \in Int /\ q[Max(P)].close \in Int
  BY <1>1, <1>2 DEF Bar
<1>9. QED
  BY <1>5, <1>6, <1>7, <1>8 DEF Merged, Bar

\* Of the bars before, and of one more.
LEMMA MergedGrows ==
  ASSUME NEW q \in Seq(Bar), NEW b \in Bar, NEW start \in Int,
         NEW P \in SUBSET (1 .. Len(q)), P # {}
  PROVE  /\ Merged(Append(q, b), start, P) = Merged(q, start, P)
         /\ Merged(Append(q, b), start, P \cup {Len(q) + 1}) = Join(Merged(q, start, P), b)
<1> DEFINE r == Append(q, b)
           n == Len(q)
           H == {q[i].high : i \in P}
           L == {q[i].low : i \in P}
<1>1. /\ n \in Nat /\ DOMAIN r = 1 .. n + 1 /\ r[n + 1] = b
      /\ \A i \in 1 .. n : r[i] = q[i]
  OBVIOUS
<1>2. IsFiniteSet(P) /\ P \in SUBSET Int /\ P \in SUBSET (1 .. n) /\ \A i \in P : q[i] \in Bar
  BY PlacesIn
<1>3. /\ VolumeOf(r, P) = VolumeOf(q, P)
      /\ VolumeOf(r, P \cup {n + 1}) = VolumeOf(q, P) + b.volume
  BY VolumeGrows
<1>4. Min(P) \in P /\ Max(P) \in P
  BY <1>2, Extremes
<1>5. Min(P \cup {n + 1}) = Min(P) /\ Max(P \cup {n + 1}) = n + 1
  <2>1. PICK x \in Int : x = n + 1
    BY <1>1
  <2>2. Max(P \cup {x}) = Bigger(Max(P), x) /\ Min(P \cup {x}) = Smaller(Min(P), x)
    BY <1>2, ExtremesGrow
  <2>3. PICK i \in P, j \in P : i = Min(P) /\ j = Max(P)
    BY <1>4
  <2>4. i <= n /\ j <= n /\ i \in Int /\ j \in Int
    BY <1>1, <1>2
  <2>5. QED
    BY <1>1, <2>1, <2>2, <2>3, <2>4 DEF Bigger, Smaller
<1>6. r[Min(P)] = q[Min(P)] /\ r[Max(P)] = q[Max(P)]
  BY <1>1, <1>2, <1>4
<1>7. {r[i].high : i \in P} = H /\ {r[i].low : i \in P} = L
  BY <1>1, <1>2
<1>8. /\ {r[i].high : i \in P \cup {n + 1}} = H \cup {b.high}
      /\ {r[i].low : i \in P \cup {n + 1}} = L \cup {b.low}
  BY <1>1, <1>2
<1>9. /\ Max(H \cup {b.high}) = Bigger(Max(H), b.high)
      /\ Min(L \cup {b.low}) = Smaller(Min(L), b.low)
  <2> DEFINE hs == [i \in P |-> q[i].high]
             ls == [i \in P |-> q[i].low]
  <2>1. H = {hs[i] : i \in P} /\ L = {ls[i] : i \in P} /\ DOMAIN hs = P /\ DOMAIN ls = P
    OBVIOUS
  <2>2. H \in SUBSET Int /\ L \in SUBSET Int /\ H # {} /\ L # {}
    BY <1>2 DEF Bar
  <2> HIDE DEF hs, ls, H, L
  <2>3. IsFiniteSet(H) /\ IsFiniteSet(L)
    BY <1>2, <2>1, ImageOf
  <2>4. b.high \in Int /\ b.low \in Int
    BY DEF Bar
  <2>5. QED
    BY <2>2, <2>3, <2>4, ExtremesGrow
<1> HIDE DEF H, L, r, n
<1>10. Merged(r, start, P) = Merged(q, start, P)
  BY <1>3, <1>6, <1>7 DEF Merged, H, L
<1>11. Merged(r, start, P \cup {n + 1}) = Join(Merged(q, start, P), b)
  BY <1>1, <1>3, <1>5, <1>6, <1>8, <1>9 DEF Merged, Join, H, L
<1>12. QED
  BY <1>10, <1>11 DEF r, n

LEMMA MergedAlone ==
  ASSUME NEW q \in Seq(Bar), NEW b \in Bar, NEW start \in Int
  PROVE  Merged(Append(q, b), start, {Len(q) + 1}) = Alone(start, b)
<1> DEFINE r == Append(q, b)
<1>1. PICK k \in Int : k = Len(q) + 1 /\ r[k] = b
  OBVIOUS
<1>2. {k} \in SUBSET Int /\ k \in {k} /\ Max({k}) = k /\ Min({k}) = k
  <2>1. {k} \in SUBSET Int /\ k \in {k} /\ \A y \in {k} : y <= k /\ k <= y
    OBVIOUS
  <2>2. QED
    BY <2>1, ExtremesAre
<1>3. Max({b.high}) = b.high /\ Min({b.low}) = b.low
  <2>1. PICK x \in Int, y \in Int : x = b.high /\ y = b.low
    BY DEF Bar
  <2>2. {x} \in SUBSET Int /\ {y} \in SUBSET Int /\ x \in {x} /\ y \in {y}
        /\ (\A z \in {x} : z <= x) /\ \A z \in {y} : y <= z
    OBVIOUS
  <2>3. Max({x}) = x /\ Min({y}) = y
    BY <2>2, ExtremesAre
  <2>4. QED
    BY <2>1, <2>3
<1>4. {r[i].high : i \in {k}} = {b.high} /\ {r[i].low : i \in {k}} = {b.low}
  BY <1>1
<1>5. VolumeOf(r, {k}) = b.volume
  <2>1. VolumeOf(q, {}) = 0
    BY SumEmptySet, Zenon DEF VolumeOf
  <2>2. VolumeOf(r, {} \cup {Len(q) + 1}) = VolumeOf(q, {}) + b.volume
    <3>1. {} \in SUBSET (1 .. Len(q))
      OBVIOUS
    <3>2. QED
      BY <3>1, VolumeGrows
  <2>3. {} \cup {Len(q) + 1} = {k}
    BY <1>1
  <2>4. b.volume \in Int
    BY DEF Bar
  <2>5. VolumeOf(r, {k}) = VolumeOf(q, {}) + b.volume
    BY <2>2, <2>3, Zenon
  <2>6. QED
    BY <2>1, <2>4, <2>5
<1> HIDE DEF r
<1>6. Merged(r, start, {k}) = Alone(start, b)
  BY <1>1, <1>2, <1>3, <1>4, <1>5 DEF Merged, Alone
<1>7. QED
  BY <1>1, <1>6 DEF r

-----------------------------------------------------------------------------
\* What aggregate makes of bars in order.

LEMMA StartsIs ==
  ASSUME NEW q \in Seq(Bar), NEW n \in Nat \ {0}
  PROVE  /\ Starts(q, n) \in SUBSET Int /\ IsFiniteSet(Starts(q, n))
         /\ Ascends(Ascending(Starts(q, n)), Starts(q, n))
         /\ \A s \in Starts(q, n) : Places(q, s, n) \in SUBSET (1 .. Len(q)) /\ Places(q, s, n) # {}
         /\ Starts(q, n) = {} <=> q = << >>
<1> DEFINE f == [i \in DOMAIN q |-> Bucket(q[i].timestamp, n)]
           S == {f[i] : i \in DOMAIN q}
<1>1. DOMAIN q = 1 .. Len(q) /\ Len(q) \in Nat /\ \A i \in DOMAIN q : q[i] \in Bar
  OBVIOUS
<1>2. \A i \in DOMAIN q : q[i].timestamp \in Int
  BY <1>1 DEF Bar
<1>3. \A t \in Int : Bucket(t, n) \in Int
  BY BucketIs
<1>4. Starts(q, n) = S
  BY DEF Starts
<1>5. \A i \in DOMAIN q : f[i] \in Int
  BY <1>2, <1>3
<1>6. DOMAIN f = DOMAIN q
  OBVIOUS
<1>7. IsFiniteSet(DOMAIN q)
  BY <1>1, FS_Interval
<1>8. \A s \in Starts(q, n) : Places(q, s, n) \in SUBSET (1 .. Len(q)) /\ Places(q, s, n) # {}
  BY <1>1 DEF Starts, Places
<1>9. S = {} <=> q = << >>
  <2>1. S = {} <=> DOMAIN q = {}
    OBVIOUS
  <2>2. DOMAIN q = {} => q = << >>
    BY <1>1
  <2>3. DOMAIN << >> = {}
    OBVIOUS
  <2>4. QED
    BY <2>1, <2>2, <2>3
<1> HIDE DEF f
<1>10. S \in SUBSET Int /\ IsFiniteSet(S)
  BY <1>5, <1>6, <1>7, ImageOf
<1> HIDE DEF S
<1>11. Ascends(Ascending(S), S)
  BY <1>10, AscendingIs
<1>12. QED
  BY <1>4, <1>8, <1>9, <1>10, <1>11, Zenon

LEMMA AggregateIs ==
  ASSUME NEW q \in Seq(Bar), NEW n \in Nat \ {0}, NEW list, list = Ascending(Starts(q, n))
  PROVE  /\ DOMAIN Aggregate(q, n) = DOMAIN list
         /\ \A k \in DOMAIN list :
              /\ Aggregate(q, n)[k] = Merged(q, list[k], Places(q, list[k], n))
              /\ Aggregate(q, n)[k].timestamp = list[k]
              /\ Aggregate(q, n)[k] \in Bar
         /\ Aggregate(q, n) \in Seq(Bar) /\ Len(Aggregate(q, n)) = Len(list)
         /\ InTime(Aggregate(q, n))
<1>1. Aggregate(q, n) = [k \in DOMAIN list |-> Merged(q, list[k], Places(q, list[k], n))]
  BY Zenon DEF Aggregate
<1>2. /\ Ascends(list, Starts(q, n)) /\ Starts(q, n) \in SUBSET Int
      /\ \A s \in Starts(q, n) : Places(q, s, n) \in SUBSET (1 .. Len(q)) /\ Places(q, s, n) # {}
  BY StartsIs
<1>3. /\ DOMAIN list = 1 .. Len(list) /\ Len(list) \in Nat
      /\ \A k \in DOMAIN list : list[k] \in Starts(q, n) /\ list[k] \in Int
  BY <1>2, ListedIs
<1> DEFINE A == Aggregate(q, n)
<1>4. \A k \in DOMAIN list : A[k] = Merged(q, list[k], Places(q, list[k], n))
  BY <1>1
<1>5. \A k \in DOMAIN list : A[k] \in Bar
  BY <1>2, <1>3, <1>4, MergedIs
<1>6. \A k \in DOMAIN list : A[k].timestamp = list[k]
  <2>1. \A s, P : Merged(q, s, P).timestamp = s
    BY DEF Merged
  <2> HIDE DEF A
  <2>2. QED
    BY <1>4, <2>1
<1>7. DOMAIN A = DOMAIN list
  BY <1>1
<1>8. A \in Seq(Bar) /\ Len(A) = Len(list)
  <2>1. A = [k \in DOMAIN list |-> A[k]]
    BY <1>1
  <2> HIDE DEF A
  <2>2. A \in [1 .. Len(list) -> Bar]
    BY <1>3, <1>5, <2>1
  <2>3. PICK m \in Nat : m = Len(list)
    BY <1>3
  <2>4. A \in [1 .. m -> Bar]
    BY <2>2, <2>3
  <2>5. A \in Seq(Bar) /\ Len(A) = m
    BY <2>4
  <2>6. QED
    BY <2>3, <2>5
<1>9. InTime(A)
  <2>1. \A i, j \in DOMAIN list : i < j => list[i] <= list[j]
    BY <1>2, <1>3 DEF Ascends
  <2> HIDE DEF A
  <2>2. QED
    BY <1>6, <1>7, <2>1 DEF InTime
<1>10. QED
  BY <1>4, <1>5, <1>6, <1>7, <1>8, <1>9

Push(done, b, n) ==
  IF done # << >> /\ done[Len(done)].timestamp = Bucket(b.timestamp, n)
  THEN [done EXCEPT ![Len(done)] = Join(done[Len(done)], b)]
  ELSE Append(done, Alone(Bucket(b.timestamp, n), b))

\* One bar more goes into the last bucket or into one of its own.
LEMMA PushIs ==
  ASSUME NEW q \in Seq(Bar), NEW b \in Bar, NEW n \in Nat \ {0}, InTime(Append(q, b))
  PROVE  Aggregate(Append(q, b), n) = Push(Aggregate(q, n), b, n)
<1> DEFINE r == Append(q, b)
           m == Len(q)
           s == Bucket(b.timestamp, n)
           S == Starts(q, n)
           list == Ascending(S)
           A == Aggregate(q, n)
           R == Aggregate(r, n)
<1>1. /\ r \in Seq(Bar) /\ m \in Nat /\ DOMAIN q = 1 .. m /\ DOMAIN r = 1 .. m + 1
      /\ r[m + 1] = b /\ \A i \in 1 .. m : r[i] = q[i] /\ q[i] \in Bar
  OBVIOUS
<1>2. /\ S \in SUBSET Int /\ IsFiniteSet(S) /\ Ascends(list, S)
      /\ \A x \in S : Places(q, x, n) \in SUBSET (1 .. m) /\ Places(q, x, n) # {}
  BY StartsIs
<1>3. /\ DOMAIN list = 1 .. Len(list) /\ Len(list) \in Nat
      /\ \A k \in DOMAIN list : list[k] \in S /\ list[k] \in Int
  BY <1>2, ListedIs
<1>4. /\ DOMAIN A = DOMAIN list
      /\ \A k \in DOMAIN list : /\ A[k] = Merged(q, list[k], Places(q, list[k], n))
                                /\ A[k].timestamp = list[k]
                                /\ A[k] \in Bar
      /\ A \in Seq(Bar) /\ Len(A) = Len(list)
  BY AggregateIs
<1>5. s \in Int /\ \A x \in S : x <= s
  <2>1. b.timestamp \in Int /\ \A i \in 1 .. m : q[i].timestamp \in Int
    BY <1>1 DEF Bar
  <2>2. \A i \in 1 .. m : q[i].timestamp <= b.timestamp
    <3>1. SUFFICES ASSUME NEW i \in 1 .. m PROVE q[i].timestamp <= b.timestamp
      OBVIOUS
    <3>2. i \in DOMAIN r /\ m + 1 \in DOMAIN r /\ i < m + 1
      BY <1>1
    <3>3. r[i].timestamp <= r[m + 1].timestamp
      BY <3>2 DEF InTime
    <3>4. QED
      BY <1>1, <3>3
  <2>3. \A t, u \in Int : t <= u => Bucket(t, n) <= Bucket(u, n)
    BY BucketIs
  <2>4. \A t \in Int : Bucket(t, n) \in Int
    BY BucketIs
  <2>5. QED
    BY <1>1, <2>1, <2>2, <2>3, <2>4 DEF Starts
<1>6. Starts(r, n) = S \cup {s}
  <2>1. Starts(r, n) = {Bucket(r[i].timestamp, n) : i \in 1 .. m + 1}
    BY <1>1 DEF Starts
  <2>2. S = {Bucket(q[i].timestamp, n) : i \in 1 .. m}
    BY <1>1 DEF Starts
  <2>3. \A i \in 1 .. m + 1 : i \in 1 .. m \/ i = m + 1
    BY <1>1
  <2>4. \A i \in 1 .. m : i \in 1 .. m + 1
    BY <1>1
  <2>5. m + 1 \in 1 .. m + 1
    BY <1>1
  <2> HIDE DEF r, S, m
  <2>6. QED
    BY <1>1, <2>1, <2>2, <2>3, <2>4, <2>5
<1>7. /\ \A x : x # s => Places(r, x, n) = Places(q, x, n)
      /\ Places(r, s, n) = Places(q, s, n) \cup {m + 1}
  <2>1. \A x : Places(r, x, n) = {i \in 1 .. m + 1 : Bucket(r[i].timestamp, n) = x}
    BY <1>1 DEF Places
  <2>2. \A x : Places(q, x, n) = {i \in 1 .. m : Bucket(q[i].timestamp, n) = x}
    BY <1>1 DEF Places
  <2>3. \A i \in 1 .. m + 1 : i \in 1 .. m \/ i = m + 1
    BY <1>1
  <2>4. \A i \in 1 .. m : i \in 1 .. m + 1
    BY <1>1
  <2>5. m + 1 \in 1 .. m + 1
    BY <1>1
  <2> HIDE DEF r, S, m, s
  <2>6. \A i \in 1 .. m : Bucket(r[i].timestamp, n) = Bucket(q[i].timestamp, n)
    BY <1>1
  <2>7. Bucket(r[m + 1].timestamp, n) = s
    BY <1>1 DEF s
  <2>8. ASSUME NEW x, x # s PROVE Places(r, x, n) = Places(q, x, n)
    BY <2>1, <2>2, <2>3, <2>4, <2>6, <2>7, <2>8
  <2>9. Places(r, s, n) = Places(q, s, n) \cup {m + 1}
    BY <2>1, <2>2, <2>3, <2>4, <2>5, <2>6, <2>7
  <2>10. QED
    BY <2>8, <2>9
<1>8. /\ \A x \in S : x # s => Merged(r, x, Places(r, x, n)) = Merged(q, x, Places(q, x, n))
      /\ s \in S => Merged(r, s, Places(r, s, n)) = Join(Merged(q, s, Places(q, s, n)), b)
      /\ s \notin S => Merged(r, s, Places(r, s, n)) = Alone(s, b)
  <2>1. \A x \in S : x # s => Merged(r, x, Places(r, x, n)) = Merged(q, x, Places(q, x, n))
    <3>1. SUFFICES ASSUME NEW x \in S, x # s
                   PROVE Merged(r, x, Places(r, x, n)) = Merged(q, x, Places(q, x, n))
      OBVIOUS
    <3>2. PICK P : P = Places(q, x, n) /\ P = Places(r, x, n)
      BY <1>7, <3>1
    <3>3. P \in SUBSET (1 .. Len(q)) /\ P # {} /\ x \in Int
      BY <1>2, <3>2
    <3>4. Merged(r, x, P) = Merged(q, x, P)
      BY <3>3, MergedGrows
    <3>5. QED
      BY <3>2, <3>4
  <2>2. ASSUME s \in S
        PROVE Merged(r, s, Places(r, s, n)) = Join(Merged(q, s, Places(q, s, n)), b)
    <3>1. PICK P : P = Places(q, s, n)
      OBVIOUS
    <3>2. P \in SUBSET (1 .. Len(q)) /\ P # {} /\ Places(r, s, n) = P \cup {Len(q) + 1}
      BY <1>2, <1>7, <2>2, <3>1
    <3>3. Merged(r, s, P \cup {Len(q) + 1}) = Join(Merged(q, s, P), b)
      BY <1>5, <3>2, MergedGrows
    <3>4. QED
      BY <3>1, <3>2, <3>3
  <2>3. ASSUME s \notin S PROVE Merged(r, s, Places(r, s, n)) = Alone(s, b)
    <3>1. Places(q, s, n) = {}
      BY <2>3 DEF Places, Starts
    <3>2. Places(r, s, n) = {Len(q) + 1}
      BY <1>7, <3>1
    <3>3. Merged(r, s, {Len(q) + 1}) = Alone(s, b)
      BY <1>5, MergedAlone
    <3>4. QED
      BY <3>2, <3>3
  <2>4. QED
    BY <2>1, <2>2, <2>3
<1>9. PICK list2 : list2 = Ascending(S \cup {s})
  OBVIOUS
<1>10. /\ Ascends(list2, S \cup {s})
       /\ DOMAIN R = DOMAIN list2
       /\ \A k \in DOMAIN list2 : R[k] = Merged(r, list2[k], Places(r, list2[k], n))
       /\ R \in Seq(Bar) /\ Len(R) = Len(list2)
  <2>1. list2 = Ascending(Starts(r, n))
    BY <1>6, <1>9
  <2>2. Ascends(list2, Starts(r, n))
    BY <1>1, <2>1, StartsIs
  <2> HIDE DEF r, S, list, A, R, m
  <2>3. r \in Seq(Bar) /\ R = Aggregate(r, n)
    BY <1>1 DEF R
  <2>4. /\ DOMAIN R = DOMAIN list2
        /\ \A k \in DOMAIN list2 : R[k] = Merged(r, list2[k], Places(r, list2[k], n))
        /\ R \in Seq(Bar) /\ Len(R) = Len(list2)
    BY <2>1, <2>3, AggregateIs
  <2>5. QED
    BY <1>6, <2>2, <2>4
<1> HIDE DEF r, S, list, A, R, m
<1>11. ASSUME s \in S PROVE R = Push(A, b, n)
  <2>1. S \cup {s} = S /\ list2 = list
    BY <1>9, <1>11 DEF list
  <2>2. PICK len \in Nat : len = Len(list)
    BY <1>3
  <2>3. len \in DOMAIN list /\ list[len] = s
    <3>1. PICK i \in DOMAIN list : list[i] = s
      BY <1>2, <1>11 DEF Ascends
    <3>2. i \in Nat /\ i <= len /\ len \in DOMAIN list
      BY <1>3, <2>2, <3>1
    <3>3. CASE i < len
      <4>1. list[i] < list[len]
        BY <1>2, <3>2, <3>3 DEF Ascends
      <4>2. list[len] <= s /\ list[len] \in Int
        BY <1>3, <1>5, <3>2
      <4>3. QED
        BY <1>5, <3>1, <4>1, <4>2
    <3>4. CASE i = len
      BY <3>1, <3>2, <3>4
    <3>5. QED
      BY <3>2, <3>3, <3>4
  <2>4. \A k \in DOMAIN list : k # len => list[k] # s
    <3>1. SUFFICES ASSUME NEW k \in DOMAIN list, k # len PROVE list[k] # s
      OBVIOUS
    <3>2. k < len
      BY <1>3, <2>2, <3>1
    <3>3. list[k] < list[len] /\ list[k] \in Int
      BY <1>2, <1>3, <2>3, <3>2 DEF Ascends
    <3>4. QED
      BY <2>3, <3>3
  <2>5. R[len] = Join(A[len], b) /\ \A k \in DOMAIN list : k # len => R[k] = A[k]
    <3>1. R[len] = Merged(r, s, Places(r, s, n)) /\ A[len] = Merged(q, s, Places(q, s, n))
      BY <1>4, <1>10, <2>1, <2>3
    <3>2. \A k \in DOMAIN list : k # len => R[k] = A[k]
      BY <1>3, <1>4, <1>8, <1>10, <2>1, <2>4
    <3>3. QED
      BY <1>8, <1>11, <3>1, <3>2
  <2>6. A # << >> /\ Len(A) = len /\ A[len].timestamp = s
    <3>1. Len(A) = len /\ A[len].timestamp = s
      BY <1>4, <2>2, <2>3
    <3>2. DOMAIN A # {}
      BY <1>4, <2>3
    <3>3. DOMAIN << >> = {}
      OBVIOUS
    <3>4. QED
      BY <3>1, <3>2, <3>3
  <2>7. R = [A EXCEPT ![len] = Join(A[len], b)]
    <3>1. DOMAIN R = DOMAIN A /\ len \in DOMAIN A
      BY <1>4, <1>10, <2>1, <2>3
    <3>2. \A k \in DOMAIN A : R[k] = [A EXCEPT ![len] = Join(A[len], b)][k]
      BY <1>4, <2>5, <3>1
    <3>3. R \in [DOMAIN A -> Bar] /\ A \in [DOMAIN A -> Bar]
      BY <1>4, <1>10, <3>1
    <3>4. QED
      BY <3>1, <3>2, <3>3
  <2>8. QED
    BY <2>6, <2>7 DEF Push
<1>12. ASSUME s \notin S PROVE R = Push(A, b, n)
  <2>1. \A x \in S, y \in {s} : x < y
    BY <1>2, <1>5, <1>12
  <2>2. Ascends(<< s >>, {s})
    BY <1>5 DEF Ascends
  <2>3. Ascends(list \o << s >>, S \cup {s})
    BY <1>2, <2>1, <2>2, JoinedLists
  <2>4. list2 = list \o << s >>
    BY <1>10, <2>3, OneList
  <2>5. PICK len \in Nat : len = Len(list)
    BY <1>3
  <2>6. list \in Seq(Int)
    BY <1>2 DEF Ascends
  <2>7. /\ Len(list2) = len + 1 /\ DOMAIN list2 = 1 .. len + 1 /\ list2[len + 1] = s
        /\ \A k \in 1 .. len : list2[k] = list[k]
    BY <1>5, <2>4, <2>5, <2>6
  <2>8. R[len + 1] = Alone(s, b) /\ \A k \in 1 .. len : R[k] = A[k]
    <3>1. len + 1 \in DOMAIN list2 /\ DOMAIN list = 1 .. len /\ \A k \in 1 .. len : k \in DOMAIN list2
      BY <1>3, <2>5, <2>7
    <3>2. \A k \in 1 .. len : list[k] \in S /\ list[k] # s
      BY <1>3, <1>12, <3>1
    <3>3. R[len + 1] = Merged(r, s, Places(r, s, n))
      BY <1>10, <2>7, <3>1
    <3>4. \A k \in 1 .. len : R[k] = A[k]
      BY <1>4, <1>8, <1>10, <2>7, <3>1, <3>2
    <3>5. QED
      BY <1>8, <1>12, <3>3, <3>4
  <2>9. ~ (A # << >> /\ A[Len(A)].timestamp = s)
    <3>1. SUFFICES ASSUME A # << >> PROVE A[Len(A)].timestamp # s
      OBVIOUS
    <3>2. Len(A) \in DOMAIN A
      <4>1. Len(A) \in Nat \ {0} /\ DOMAIN A = 1 .. Len(A)
        BY <1>4, <3>1, EmptySeq
      <4>2. QED
        BY <4>1
    <3>3. A[Len(A)].timestamp \in S
      BY <1>3, <1>4, <3>2
    <3>4. QED
      BY <1>12, <3>3
  <2>10. R = Append(A, Alone(s, b))
    <3>1. PICK x : x = Alone(s, b) /\ x \in Bar
      BY <1>5, JoinIs
    <3>2. Append(A, x) \in Seq(Bar) /\ Len(Append(A, x)) = len + 1 /\ Append(A, x)[len + 1] = x
          /\ \A k \in 1 .. len : Append(A, x)[k] = A[k]
      BY <1>4, <2>5, <3>1
    <3>3. R \in Seq(Bar) /\ Len(R) = len + 1
      BY <1>10, <2>7
    <3>4. \A k \in 1 .. len + 1 : R[k] = Append(A, x)[k]
      BY <2>8, <3>1, <3>2
    <3>5. R = Append(A, x)
      BY <3>2, <3>3, <3>4
    <3>6. QED
      BY <3>1, <3>5
  <2>11. QED
    BY <2>9, <2>10 DEF Push
<1>13. R = Push(A, b, n)
  BY <1>11, <1>12
<1>14. QED
  BY <1>13 DEF R, A, r

LEMMA NoneAggregated ==
  ASSUME NEW n \in Nat \ {0} PROVE Aggregate(<< >>, n) = << >>
<1>1. << >> \in Seq(Bar)
  OBVIOUS
<1>2. PICK list : list = Ascending(Starts(<< >>, n))
  OBVIOUS
<1>3. Ascends(list, {})
  BY <1>1, <1>2, StartsIs
<1>4. list = << >>
  BY <1>3, EmptyAscends, OneList
<1>5. Aggregate(<< >>, n) \in Seq(Bar) /\ Len(Aggregate(<< >>, n)) = Len(list)
  BY <1>1, <1>2, AggregateIs
<1>6. QED
  BY <1>4, <1>5, EmptySeq

LEMMA PushedIs ==
  ASSUME NEW done \in Seq(Bar), NEW b \in Bar, NEW n \in Nat \ {0}
  PROVE  /\ Push(done, b, n) \in Seq(Bar) /\ Push(done, b, n) # << >>
         /\ Push(done, b, n)[Len(Push(done, b, n))].timestamp = Bucket(b.timestamp, n)
<1> DEFINE s == Bucket(b.timestamp, n)
<1>1. s \in Int
  BY BucketIs DEF Bar
<1> HIDE DEF s
<1>2. CASE done # << >> /\ done[Len(done)].timestamp = s
  <2>1. PICK len \in Nat : len = Len(done) /\ len \in DOMAIN done /\ done[len] \in Bar
    BY <1>2, EmptySeq
  <2>2. PICK x \in Bar : x = Join(done[len], b)
    BY <2>1, JoinIs
  <2>3. x.timestamp = s
    BY <1>2, <2>1, <2>2 DEF Join
  <2>4. Push(done, b, n) = [done EXCEPT ![len] = x]
    BY <1>2, <2>1, <2>2 DEF Push, s
  <2>5. PICK p : p = [done EXCEPT ![len] = x]
    OBVIOUS
  <2>6. p \in Seq(Bar) /\ Len(p) = len /\ p[len] = x
    BY <2>1, <2>5
  <2>7. p # << >>
    <3>1. DOMAIN p # {} /\ DOMAIN << >> = {}
      BY <2>1, <2>5
    <3>2. QED
      BY <3>1
  <2>8. QED
    BY <2>3, <2>4, <2>5, <2>6, <2>7 DEF s
<1>3. CASE ~ (done # << >> /\ done[Len(done)].timestamp = s)
  <2>1. PICK x \in Bar : x = Alone(s, b)
    BY <1>1, JoinIs
  <2>2. Push(done, b, n) = Append(done, x)
    BY <1>3, <2>1 DEF Push, s
  <2>3. PICK p, len : p = Append(done, x) /\ len = Len(done)
    OBVIOUS
  <2>4. p \in Seq(Bar) /\ len \in Nat /\ Len(p) = len + 1 /\ p[len + 1] = x
    BY <2>3
  <2>5. p # << >>
    BY <2>4
  <2>6. x.timestamp = s
    BY <2>1 DEF Alone
  <2>7. QED
    BY <2>2, <2>3, <2>4, <2>5, <2>6 DEF s
<1>4. QED
  BY <1>2, <1>3

\* Two bars of one bucket go in as one.
LEMMA PushTwice ==
  ASSUME NEW done \in Seq(Bar), NEW l \in Bar, NEW b \in Bar, NEW n \in Nat \ {0},
         Bucket(l.timestamp, n) = Bucket(b.timestamp, n)
  PROVE  Push(Push(done, l, n), b, n) = Push(done, Join(l, b), n)
<1> DEFINE s == Bucket(b.timestamp, n)
           x == Join(l, b)
<1>1. s \in Int /\ x \in Bar /\ Bucket(x.timestamp, n) = s
  <2>1. x.timestamp = l.timestamp
    BY DEF Join
  <2>2. QED
    BY <2>1, BucketIs, JoinIs DEF Bar
<1>2. PICK p : p = Push(done, l, n)
  OBVIOUS
<1>3. p \in Seq(Bar) /\ p # << >> /\ p[Len(p)].timestamp = s
  BY <1>2, PushedIs
<1>4. Push(p, b, n) = [p EXCEPT ![Len(p)] = Join(p[Len(p)], b)]
  BY <1>3 DEF Push
<1> HIDE DEF s
<1>5. CASE done # << >> /\ done[Len(done)].timestamp = s
  <2>1. PICK len \in Nat : len = Len(done) /\ len \in DOMAIN done /\ done[len] \in Bar
    BY <1>5, EmptySeq
  <2>2. p = [done EXCEPT ![len] = Join(done[len], l)]
    BY <1>2, <1>5, <2>1 DEF Push, s
  <2>3. Len(p) = len /\ p[len] = Join(done[len], l) /\ Join(done[len], l) \in Bar
    BY <2>1, <2>2, JoinIs
  <2>4. Join(p[len], b) = Join(done[len], x)
    BY <2>1, <2>3, JoinIs
  <2>5. Push(p, b, n) = [done EXCEPT ![len] = Join(done[len], x)]
    <3>1. PICK y : y = Join(done[len], x)
      OBVIOUS
    <3>2. Push(p, b, n) = [p EXCEPT ![len] = y]
      BY <1>4, <2>3, <2>4, <3>1
    <3>3. [p EXCEPT ![len] = y] = [done EXCEPT ![len] = y]
      BY <2>1, <2>2
    <3>4. QED
      BY <3>1, <3>2, <3>3
  <2>6. Push(done, x, n) = [done EXCEPT ![len] = Join(done[len], x)]
    <3> HIDE DEF x
    <3>1. QED
      BY <1>1, <1>5, <2>1 DEF Push
  <2>7. QED
    BY <1>2, <2>5, <2>6
<1>6. CASE ~ (done # << >> /\ done[Len(done)].timestamp = s)
  <2>1. PICK y \in Bar : y = Alone(s, l)
    BY <1>1, JoinIs
  <2>2. p = Append(done, y)
    BY <1>2, <1>6, <2>1 DEF Push, s
  <2>3. PICK len \in Nat : len = Len(done)
    OBVIOUS
  <2>4. Len(p) = len + 1 /\ p[len + 1] = y
    BY <2>2, <2>3
  <2>5. Join(y, b) = Alone(s, x)
    BY <1>1, <2>1, JoinIs
  <2>6. PICK z : z = Alone(s, x) /\ z \in Bar
    BY <1>1, JoinIs
  <2>7. Push(p, b, n) = [p EXCEPT ![len + 1] = z]
    BY <1>4, <2>4, <2>5, <2>6
  <2>8. [p EXCEPT ![len + 1] = z] = Append(done, z)
    <3>1. /\ Append(done, z) \in Seq(Bar) /\ Len(Append(done, z)) = len + 1
          /\ Append(done, z)[len + 1] = z /\ \A k \in 1 .. len : Append(done, z)[k] = done[k]
      BY <2>3, <2>6
    <3>2. p \in Seq(Bar) /\ Len(p) = len + 1 /\ \A k \in 1 .. len : p[k] = done[k]
      BY <2>1, <2>2, <2>3
    <3>3. PICK w : w = [p EXCEPT ![len + 1] = z]
      OBVIOUS
    <3>4. /\ w \in Seq(Bar) /\ Len(w) = len + 1
          /\ w[len + 1] = z /\ \A k \in 1 .. len : w[k] = p[k]
      BY <2>3, <2>6, <3>2, <3>3
    <3>5. \A k \in 1 .. len + 1 : w[k] = Append(done, z)[k]
      BY <2>3, <3>1, <3>2, <3>4
    <3>6. w = Append(done, z)
      BY <3>1, <3>4, <3>5
    <3>7. QED
      BY <3>3, <3>6
  <2>9. Push(done, x, n) = Append(done, z)
    <3> HIDE DEF x
    <3>1. QED
      BY <1>1, <1>6, <2>6 DEF Push
  <2>10. QED
    BY <1>2, <2>7, <2>8, <2>9
<1>7. QED
  BY <1>5, <1>6

\* A bar goes where its bucket's does.
LEMMA PushAlone ==
  ASSUME NEW done \in Seq(Bar), NEW b \in Bar, NEW t \in Int, NEW n \in Nat \ {0},
         Bucket(t, n) = Bucket(b.timestamp, n)
  PROVE  Push(done, Alone(t, b), n) = Push(done, b, n)
<1>1. PICK x \in Bar : x = Alone(t, b) /\ x.timestamp = t
  <2>1. Alone(t, b) \in Bar /\ Alone(t, b).timestamp = t
    BY JoinIs DEF Alone
  <2>2. QED
    BY <2>1
<1>2. PICK s \in Int : s = Bucket(b.timestamp, n)
  BY BucketIs DEF Bar
<1>3. Bucket(x.timestamp, n) = s /\ Alone(s, x) = Alone(s, b)
  BY <1>1, <1>2, JoinIs
<1>4. CASE done # << >> /\ done[Len(done)].timestamp = s
  <2>1. Len(done) \in DOMAIN done /\ done[Len(done)] \in Bar
    BY <1>4, EmptySeq
  <2>2. Join(done[Len(done)], x) = Join(done[Len(done)], b)
    BY <1>1, <2>1, JoinIs
  <2>3. QED
    BY <1>1, <1>2, <1>3, <1>4, <2>2 DEF Push
<1>5. CASE ~ (done # << >> /\ done[Len(done)].timestamp = s)
  BY <1>1, <1>2, <1>3, <1>5 DEF Push
<1>6. QED
  BY <1>4, <1>5

\* The rows before the last are in order, too.
LEMMA InTimePrefix ==
  ASSUME NEW q \in Seq(Bar), NEW b \in Bar, InTime(Append(q, b))
  PROVE  /\ InTime(q)
         /\ \A i \in DOMAIN q : q[i].timestamp <= b.timestamp
<1>1. PICK n \in Nat : n = Len(q) /\ DOMAIN q = 1 .. n
  OBVIOUS
<1>2. PICK r : r = Append(q, b)
  OBVIOUS
<1>3. DOMAIN r = 1 .. n + 1 /\ r[n + 1] = b /\ \A i \in 1 .. n : r[i] = q[i]
  BY <1>1, <1>2
<1>4. InTime(r)
  BY <1>2
<1>5. \A i, j \in 1 .. n + 1 : i < j => r[i].timestamp <= r[j].timestamp
  BY <1>3, <1>4 DEF InTime
<1>6. \A i, j \in 1 .. n : i < j => q[i].timestamp <= q[j].timestamp
  BY <1>3, <1>5
<1>7. \A i \in 1 .. n : q[i].timestamp <= b.timestamp
  BY <1>3, <1>5
<1>8. QED
  BY <1>1, <1>6, <1>7 DEF InTime

\* What Push does with the last bar there is.
LEMMA PushCases ==
  ASSUME NEW done \in Seq(Bar), NEW b \in Bar, NEW n \in Nat \ {0},
         NEW s \in Int, s = Bucket(b.timestamp, n)
  PROVE  \/ Push(done, b, n) = Append(done, Alone(s, b))
         \/ \E first \in Seq(Bar), l \in Bar :
              /\ done = Append(first, l)
              /\ l.timestamp = s
              /\ Push(done, b, n) = Append(first, Join(l, b))
<1>1. s = Bucket(b.timestamp, n)
  OBVIOUS
<1>2. CASE done # << >> /\ done[Len(done)].timestamp = s
  <2>1. PICK len \in Nat : len = Len(done) /\ len \in DOMAIN done /\ done[len] \in Bar /\ len > 0
    BY <1>2, EmptySeq
  <2>2. PICK first, l : first = SubSeq(done, 1, len - 1) /\ l = done[len]
    OBVIOUS
  <2>3. /\ first \in Seq(Bar) /\ l \in Bar /\ Len(first) = len - 1
        /\ \A k \in 1 .. len - 1 : first[k] = done[k]
    BY <2>1, <2>2
  <2>4. done = Append(first, l)
    BY <2>1, <2>2, <2>3
  <2>5. PICK y \in Bar : y = Join(l, b)
    BY <2>3, JoinIs
  <2>6. Push(done, b, n) = [done EXCEPT ![len] = y]
    BY <1>1, <1>2, <2>1, <2>2, <2>5 DEF Push
  <2>7. PICK w : w = [done EXCEPT ![len] = y]
    OBVIOUS
  <2>8. w \in Seq(Bar) /\ Len(w) = len /\ w[len] = y /\ \A k \in 1 .. len - 1 : w[k] = done[k]
    BY <2>1, <2>5, <2>7
  <2>9. /\ Append(first, y) \in Seq(Bar) /\ Len(Append(first, y)) = len
        /\ Append(first, y)[len] = y /\ \A k \in 1 .. len - 1 : Append(first, y)[k] = first[k]
    BY <2>1, <2>3, <2>5
  <2>10. \A k \in 1 .. len : w[k] = Append(first, y)[k]
    BY <2>1, <2>3, <2>8, <2>9
  <2>11. w = Append(first, y)
    BY <2>8, <2>9, <2>10
  <2>12. QED
    <3>1. l.timestamp = s
      BY <1>2, <2>1, <2>2
    <3>2. Push(done, b, n) = Append(first, Join(l, b))
      BY <2>5, <2>6, <2>7, <2>11
    <3>3. \E f \in Seq(Bar), a \in Bar :
            /\ done = Append(f, a)
            /\ a.timestamp = s
            /\ Push(done, b, n) = Append(f, Join(a, b))
      BY <2>3, <2>4, <3>1, <3>2, Zenon
    <3>4. QED
      BY <3>3
<1>3. CASE ~ (done # << >> /\ done[Len(done)].timestamp = s)
  BY <1>1, <1>3 DEF Push
<1>4. QED
  BY <1>2, <1>3

\* Bars of n minutes, made of bars of one minute, make the bars of twice as many.
LEMMA AggregateTwice ==
  ASSUME NEW n \in Nat \ {0}
  PROVE  \A q \in Seq(Bar) : InTime(q) => Aggregate(Aggregate(q, n), 2 * n) = Aggregate(q, 2 * n)
<1> DEFINE Q == {q \in Seq(Bar) : InTime(q) =>
                    Aggregate(Aggregate(q, n), 2 * n) = Aggregate(q, 2 * n)}
<1>1. << >> \in Q
  BY NoneAggregated
<1>2. ASSUME NEW q \in Seq(Bar), NEW b \in Bar, q \in Q PROVE Append(q, b) \in Q
  <2>1. SUFFICES ASSUME InTime(Append(q, b))
                 PROVE  Aggregate(Aggregate(Append(q, b), n), 2 * n) = Aggregate(Append(q, b), 2 * n)
    OBVIOUS
  <2>2. PICK A, D : A = Aggregate(q, n) /\ D = Aggregate(q, 2 * n)
    OBVIOUS
  <2>3. 2 * n \in Nat \ {0} /\ b.timestamp \in Int
    BY DEF Bar
  <2>4. A \in Seq(Bar) /\ InTime(A) /\ D \in Seq(Bar) /\ Aggregate(A, 2 * n) = D
    BY <1>2, <2>1, <2>2, <2>3, InTimePrefix, AggregateIs
  <2>5. PICK R : R = Push(A, b, n)
    OBVIOUS
  <2>6. R = Aggregate(Append(q, b), n) /\ R \in Seq(Bar) /\ InTime(R)
    <3> HIDE DEF Q
    <3>1. PICK r \in Seq(Bar) : r = Append(q, b)
      <4>1. Append(q, b) \in Seq(Bar)
        OBVIOUS
      <4>2. QED
        BY <4>1, Zenon
    <3>2. R = Aggregate(r, n)
      BY <2>1, <2>2, <2>5, <3>1, PushIs
    <3>3. Aggregate(r, n) \in Seq(Bar) /\ InTime(Aggregate(r, n))
      BY AggregateIs
    <3>4. QED
      BY <3>1, <3>2, <3>3
  <2>7. Aggregate(Append(q, b), 2 * n) = Push(D, b, 2 * n)
    BY <2>1, <2>2, <2>3, PushIs
  <2>8. Aggregate(R, 2 * n) = Push(D, b, 2 * n)
    <3>1. PICK s \in Int : s = Bucket(b.timestamp, n) /\ Bucket(s, 2 * n) = Bucket(b.timestamp, 2 * n)
      BY <2>3, BucketIs, BucketTwice
    <3>2. CASE R = Append(A, Alone(s, b))
      <4>1. PICK x \in Bar : x = Alone(s, b)
        BY <3>1, JoinIs
      <4>2. Aggregate(R, 2 * n) = Push(D, x, 2 * n)
        BY <2>3, <2>4, <2>6, <3>2, <4>1, PushIs
      <4>3. QED
        BY <2>3, <2>4, <3>1, <4>1, <4>2, PushAlone
    <3>3. CASE \E first \in Seq(Bar), l \in Bar :
                 A = Append(first, l) /\ l.timestamp = s /\ R = Append(first, Join(l, b))
      <4>1. PICK first \in Seq(Bar), l \in Bar :
                 A = Append(first, l) /\ l.timestamp = s /\ R = Append(first, Join(l, b))
        BY <3>3
      <4>2. PICK x \in Bar : x = Join(l, b)
        BY JoinIs
      <4>3. PICK F : F = Aggregate(first, 2 * n)
        OBVIOUS
      <4>4. F \in Seq(Bar)
        BY <2>3, <4>3, AggregateIs
      <4>5. D = Push(F, l, 2 * n)
        BY <2>3, <2>4, <4>1, <4>3, PushIs
      <4>6. Aggregate(R, 2 * n) = Push(F, x, 2 * n)
        BY <2>3, <2>6, <4>1, <4>2, <4>3, PushIs
      <4>7. Bucket(l.timestamp, 2 * n) = Bucket(b.timestamp, 2 * n)
        BY <3>1, <4>1
      <4>8. Push(Push(F, l, 2 * n), b, 2 * n) = Push(F, Join(l, b), 2 * n)
        BY <2>3, <4>4, <4>7, PushTwice
      <4>9. QED
        BY <4>2, <4>5, <4>6, <4>8
    <3>4. QED
      <4>1. \/ Push(A, b, n) = Append(A, Alone(s, b))
            \/ \E first \in Seq(Bar), l \in Bar :
                 /\ A = Append(first, l)
                 /\ l.timestamp = s
                 /\ Push(A, b, n) = Append(first, Join(l, b))
        <5>1. A \in Seq(Bar)
          BY <2>4
        <5>2. s = Bucket(b.timestamp, n)
          BY <3>1
        <5> HIDE DEF Q
        <5>3. QED
          BY <5>1, <5>2, PushCases, Zenon
      <4>2. QED
        BY <2>5, <3>2, <3>3, <4>1, Zenon
  <2>9. QED
    BY <2>6, <2>7, <2>8
<1> HIDE DEF Q
<1>3. \A q \in Seq(Bar) : q \in Q
  BY <1>1, <1>2, AppendInd
<1>4. QED
  BY <1>3 DEF Q

\* No volume is lost.
LEMMA VolumeKept ==
  ASSUME NEW n \in Nat \ {0}
  PROVE  \A q \in Seq(Bar) : InTime(q) =>
           VolumeOf(Aggregate(q, n), DOMAIN Aggregate(q, n)) = VolumeOf(q, DOMAIN q)
<1> DEFINE Total(q) == VolumeOf(q, DOMAIN q)
           Q == {q \in Seq(Bar) : InTime(q) => Total(Aggregate(q, n)) = Total(q)}
<1>1. << >> \in Q
  BY NoneAggregated
<1>2. ASSUME NEW q \in Seq(Bar), NEW b \in Bar
      PROVE  Total(q) \in Int /\ Total(Append(q, b)) = Total(q) + b.volume
  <2>1. PICK k \in Nat : k = Len(q) /\ DOMAIN q = 1 .. k
    OBVIOUS
  <2>2. DOMAIN Append(q, b) = DOMAIN q \cup {Len(q) + 1}
    BY <2>1
  <2>3. DOMAIN q \in SUBSET (1 .. Len(q))
    BY <2>1
  <2>4. QED
    BY <2>2, <2>3, VolumeIs, VolumeGrows
<1>3. ASSUME NEW q \in Seq(Bar), NEW b \in Bar, q \in Q PROVE Append(q, b) \in Q
  <2>1. SUFFICES ASSUME InTime(Append(q, b))
                 PROVE  Total(Aggregate(Append(q, b), n)) = Total(Append(q, b))
    OBVIOUS
  <2>2. PICK A : A = Aggregate(q, n)
    OBVIOUS
  <2>3. A \in Seq(Bar) /\ Total(A) = Total(q)
    BY <1>3, <2>1, <2>2, InTimePrefix, AggregateIs
  <2>4. PICK s \in Int : s = Bucket(b.timestamp, n)
    BY BucketIs DEF Bar
  <2> HIDE DEF Total, Q
  <2>5. b.volume \in Int
    BY DEF Bar
  <2>6. Total(Push(A, b, n)) = Total(A) + b.volume
    <3>1. CASE Push(A, b, n) = Append(A, Alone(s, b))
      <4>1. PICK x \in Bar : x = Alone(s, b) /\ x.volume = b.volume
        <5>1. Alone(s, b) \in Bar /\ Alone(s, b).volume = b.volume
          BY <2>4, JoinIs DEF Alone
        <5>2. QED
          BY <5>1
      <4>2. Total(Append(A, x)) = Total(A) + x.volume
        BY <1>2, <2>3
      <4>3. QED
        BY <3>1, <4>1, <4>2
    <3>2. CASE \E first \in Seq(Bar), l \in Bar :
                 A = Append(first, l) /\ l.timestamp = s /\ Push(A, b, n) = Append(first, Join(l, b))
      <4>1. PICK first \in Seq(Bar), l \in Bar :
                 A = Append(first, l) /\ l.timestamp = s /\ Push(A, b, n) = Append(first, Join(l, b))
        BY <3>2
      <4>2. PICK x \in Bar : x = Join(l, b) /\ x.volume = l.volume + b.volume
        <5>1. Join(l, b) \in Bar /\ Join(l, b).volume = l.volume + b.volume
          BY JoinIs DEF Join
        <5>2. QED
          BY <5>1
      <4>3. Total(first) \in Int /\ Total(Append(first, l)) = Total(first) + l.volume
        BY <1>2
      <4>4. Total(Append(first, x)) = Total(first) + x.volume
        BY <1>2
      <4>5. l.volume \in Int
        BY DEF Bar
      <4>6. QED
        BY <2>5, <4>1, <4>2, <4>3, <4>4, <4>5
    <3>3. QED
      <4>1. \/ Push(A, b, n) = Append(A, Alone(s, b))
            \/ \E first \in Seq(Bar), l \in Bar :
                 /\ A = Append(first, l)
                 /\ l.timestamp = s
                 /\ Push(A, b, n) = Append(first, Join(l, b))
        BY <2>3, <2>4, PushCases, Zenon
      <4>2. QED
        BY <3>1, <3>2, <4>1, Zenon
  <2>7. Total(Append(q, b)) = Total(q) + b.volume
    BY <1>2
  <2>8. Aggregate(Append(q, b), n) = Push(A, b, n)
    BY <2>1, <2>2, PushIs
  <2>9. QED
    BY <2>3, <2>6, <2>7, <2>8
<1>4. \A q \in Seq(Bar) : q \in Q
  <2> HIDE DEF Q
  <2>1. QED
    BY <1>1, <1>3, AppendInd
<1>5. QED
  BY <1>4

-----------------------------------------------------------------------------
\* The latest bar.

Within(q, a, e) == {i \in DOMAIN q : a <= q[i].timestamp /\ q[i].timestamp <= e}

LEMMA BarsFromIs ==
  ASSUME NEW q \in Seq(Bar), NEW a \in Int, NEW e \in Int,
         NEW list, list = Ascending(Within(q, a, e))
  PROVE  /\ Ascends(list, Within(q, a, e))
         /\ DOMAIN BarsFrom(q, a, e) = DOMAIN list
         /\ \A k \in DOMAIN list : BarsFrom(q, a, e)[k] = q[list[k]] /\ list[k] \in DOMAIN q
         /\ BarsFrom(q, a, e) \in Seq(Bar) /\ Len(BarsFrom(q, a, e)) = Len(list)
         /\ InTime(q) => InTime(BarsFrom(q, a, e))
<1>1. PICK W : W = Within(q, a, e)
  OBVIOUS
<1>2. W \in SUBSET (1 .. Len(q))
  BY <1>1 DEF Within
<1>3. IsFiniteSet(W) /\ W \in SUBSET Int
  BY <1>2, PlacesIn
<1>4. Ascends(list, W)
  BY <1>1, <1>3, AscendingIs
<1>5. PICK B : B = BarsFrom(q, a, e)
  OBVIOUS
<1>6. B = [k \in DOMAIN list |-> q[list[k]]]
  BY <1>5 DEF BarsFrom, Within
<1>7. /\ Len(list) \in Nat /\ DOMAIN list = 1 .. Len(list)
      /\ \A k \in DOMAIN list : list[k] \in W /\ list[k] \in Int
  BY <1>4, ListedIs
<1>8. \A k \in DOMAIN list : B[k] = q[list[k]] /\ list[k] \in DOMAIN q /\ q[list[k]] \in Bar
  BY <1>2, <1>6, <1>7, PlacesIn
<1>9. B \in Seq(Bar) /\ Len(B) = Len(list) /\ DOMAIN B = DOMAIN list
  BY <1>6, <1>7, <1>8
<1>10. ASSUME InTime(q) PROVE InTime(B)
  <2>1. \A i, j \in DOMAIN list : i < j => list[i] < list[j]
    BY <1>4 DEF Ascends
  <2>2. \A i, j \in DOMAIN list : i < j => B[i].timestamp <= B[j].timestamp
    BY <1>8, <1>10, <2>1 DEF InTime
  <2>3. QED
    BY <1>9, <2>2 DEF InTime
<1>11. QED
  BY <1>1, <1>4, <1>5, <1>8, <1>9, <1>10

LEMMA BarsFromGrows ==
  ASSUME NEW q \in Seq(Bar), NEW b \in Bar, NEW a \in Int, NEW e \in Int,
         a <= b.timestamp, b.timestamp <= e
  PROVE  BarsFrom(Append(q, b), a, e) = Append(BarsFrom(q, a, e), b)
<1>1. PICK r \in Seq(Bar) : r = Append(q, b)
  <2>1. Append(q, b) \in Seq(Bar)
    OBVIOUS
  <2>2. QED
    BY <2>1
<1>2. PICK n \in Nat : n = Len(q) /\ DOMAIN q = 1 .. n
  OBVIOUS
<1>3. DOMAIN r = 1 .. n + 1 /\ r[n + 1] = b /\ \A i \in 1 .. n : r[i] = q[i]
  BY <1>1, <1>2
<1>4. Within(r, a, e) = Within(q, a, e) \cup {n + 1}
  BY <1>2, <1>3 DEF Within
<1>5. PICK list, list2 : list = Ascending(Within(q, a, e)) /\ list2 = Ascending(Within(r, a, e))
  OBVIOUS
<1>6. /\ Ascends(list, Within(q, a, e)) /\ Len(BarsFrom(q, a, e)) = Len(list)
      /\ BarsFrom(q, a, e) \in Seq(Bar)
      /\ \A k \in DOMAIN list : BarsFrom(q, a, e)[k] = q[list[k]] /\ list[k] \in DOMAIN q
  BY <1>5, BarsFromIs
<1>7. /\ Ascends(list2, Within(r, a, e)) /\ Len(BarsFrom(r, a, e)) = Len(list2)
      /\ BarsFrom(r, a, e) \in Seq(Bar)
      /\ \A k \in DOMAIN list2 : BarsFrom(r, a, e)[k] = r[list2[k]]
  BY <1>5, BarsFromIs
<1>8. Ascends(<< n + 1 >>, {n + 1})
  BY <1>2 DEF Ascends
<1>9. \A x \in Within(q, a, e), y \in {n + 1} : x < y
  BY <1>2 DEF Within
<1>10. list2 = list \o << n + 1 >>
  <2>1. Ascends(list \o << n + 1 >>, Within(q, a, e) \cup {n + 1})
    BY <1>6, <1>8, <1>9, JoinedLists
  <2>2. Ascends(list2, Within(q, a, e) \cup {n + 1})
    BY <1>4, <1>7
  <2>3. QED
    BY <2>1, <2>2, OneList
<1>11. PICK len \in Nat : len = Len(list) /\ DOMAIN list = 1 .. len
  BY <1>6, ListedIs
<1>12. list \in Seq(Int)
  BY <1>6 DEF Ascends
<1>13. /\ Len(list2) = len + 1 /\ DOMAIN list2 = 1 .. len + 1 /\ list2[len + 1] = n + 1
       /\ \A k \in 1 .. len : list2[k] = list[k]
  BY <1>2, <1>10, <1>11, <1>12
<1>14. PICK B, R : B = BarsFrom(q, a, e) /\ R = BarsFrom(r, a, e)
  OBVIOUS
<1>15. B \in Seq(Bar) /\ Len(B) = len /\ R \in Seq(Bar) /\ Len(R) = len + 1
  BY <1>6, <1>7, <1>11, <1>13, <1>14
<1>16. R[len + 1] = b /\ \A k \in 1 .. len : R[k] = B[k]
  <2>1. \A k \in 1 .. len + 1 : R[k] = r[list2[k]]
    BY <1>7, <1>13, <1>14
  <2>2. R[len + 1] = b
    BY <1>3, <1>13, <2>1
  <2>3. \A k \in 1 .. len : B[k] = q[list[k]] /\ list[k] \in 1 .. n
    BY <1>2, <1>6, <1>11, <1>14
  <2>4. \A k \in 1 .. len : R[k] = r[list[k]]
    BY <1>13, <2>1
  <2>5. QED
    BY <1>3, <2>2, <2>3, <2>4
<1>17. /\ Append(B, b) \in Seq(Bar) /\ Len(Append(B, b)) = len + 1
       /\ Append(B, b)[len + 1] = b /\ \A k \in 1 .. len : Append(B, b)[k] = B[k]
  BY <1>15
<1>18. \A k \in 1 .. len + 1 : R[k] = Append(B, b)[k]
  BY <1>16, <1>17
<1>19. R = Append(B, b)
  BY <1>15, <1>17, <1>18
<1>20. QED
  BY <1>1, <1>14, <1>19

LEMMA BarsFromNone ==
  ASSUME NEW q \in Seq(Bar), NEW a \in Int, NEW e \in Int,
         \A i \in DOMAIN q : q[i].timestamp < a
  PROVE  BarsFrom(q, a, e) = << >>
<1>1. Within(q, a, e) = {}
  <2>1. \A i \in DOMAIN q : q[i] \in Bar
    OBVIOUS
  <2>2. \A i \in DOMAIN q : q[i].timestamp \in Int
    BY <2>1 DEF Bar
  <2>3. QED
    BY <2>2 DEF Within
<1>2. PICK list : list = Ascending(Within(q, a, e))
  OBVIOUS
<1>3. Ascends(list, {}) /\ BarsFrom(q, a, e) \in Seq(Bar) /\ Len(BarsFrom(q, a, e)) = Len(list)
  <2>1. Ascends(list, Within(q, a, e))
    BY <1>2, BarsFromIs
  <2>2. BarsFrom(q, a, e) \in Seq(Bar) /\ Len(BarsFrom(q, a, e)) = Len(list)
    BY <1>2, BarsFromIs
  <2>3. QED
    BY <1>1, <2>1, <2>2
<1>4. list = << >>
  BY <1>3, ListedIs
<1>5. Len(BarsFrom(q, a, e)) = 0
  BY <1>3, <1>4
<1>6. QED
  BY <1>3, <1>5, EmptySeq

\* The last bar of all is made of the rows of the last bucket alone.
LEMMA LatestIsLast ==
  ASSUME NEW n \in Nat \ {0}
  PROVE  \A q \in Seq(Bar) : InTime(q) /\ q # << >> =>
           LatestBar(q, n) = Last(Aggregate(q, n))
<1> DEFINE From(q) == BarsFrom(q, Bucket(q[Len(q)].timestamp, n),
                                  Bucket(q[Len(q)].timestamp, n) + n - 1)
           Q == {q \in Seq(Bar) : InTime(q) /\ q # << >> =>
                   /\ From(q) # << >>
                   /\ Last(Aggregate(From(q), n)) = Last(Aggregate(q, n))}
<1>1. << >> \in Q
  OBVIOUS
<1>2. ASSUME NEW q \in Seq(Bar), NEW b \in Bar, q \in Q, InTime(Append(q, b))
      PROVE  /\ From(Append(q, b)) # << >>
             /\ Last(Aggregate(From(Append(q, b)), n)) = Last(Aggregate(Append(q, b), n))
  <2>1. PICK s \in Int : s = Bucket(b.timestamp, n)
    BY BucketIs DEF Bar
  <2>2. s <= b.timestamp /\ b.timestamp <= s + n - 1 /\ b.timestamp \in Int
    <3>1. b.timestamp \in Int
      BY DEF Bar
    <3>2. s <= b.timestamp /\ b.timestamp < s + n
      BY <2>1, <3>1, BucketIs
    <3>3. QED
      BY <3>1, <3>2
  <2>3. PICK w : w = BarsFrom(q, s, s + n - 1)
    OBVIOUS
  <2>4. InTime(q) /\ \A i \in DOMAIN q : q[i].timestamp <= b.timestamp
    BY <1>2, InTimePrefix
  <2>5. w \in Seq(Bar) /\ InTime(w)
    BY <2>1, <2>3, <2>4, BarsFromIs
  <2>6. From(Append(q, b)) = Append(w, b)
    <3>1. Append(q, b)[Len(Append(q, b))] = b
      OBVIOUS
    <3>2. QED
      BY <2>1, <2>2, <2>3, <3>1, BarsFromGrows
  <2>7. InTime(Append(w, b))
    <3>1. PICK r \in Seq(Bar) : r = Append(q, b)
      <4>1. Append(q, b) \in Seq(Bar)
        OBVIOUS
      <4>2. QED
        BY <4>1
    <3>2. PICK e \in Int : e = s + n - 1
      OBVIOUS
    <3>3. InTime(r)
      BY <1>2, <3>1
    <3>4. InTime(BarsFrom(r, s, e))
      BY <3>3, BarsFromIs
    <3>5. BarsFrom(r, s, e) = Append(w, b)
      BY <2>2, <2>3, <3>1, <3>2, BarsFromGrows
    <3>6. QED
      BY <3>4, <3>5
  <2>8. PICK A, W : A = Aggregate(q, n) /\ W = Aggregate(w, n)
    OBVIOUS
  <2>9. A \in Seq(Bar) /\ W \in Seq(Bar)
    BY <2>5, <2>8, AggregateIs
  <2>10. Aggregate(Append(q, b), n) = Push(A, b, n) /\ Aggregate(Append(w, b), n) = Push(W, b, n)
    BY <1>2, <2>5, <2>7, <2>8, PushIs
  <2>11. Append(w, b) # << >>
    BY <2>5
  <2> DEFINE x == Alone(s, b)
             Joins(done) == done # << >> /\ done[Len(done)].timestamp = s
  <2>12. ASSUME NEW done \in Seq(Bar)
         PROVE  /\ Joins(done) => Last(Push(done, b, n)) = Join(Last(done), b)
                /\ ~ Joins(done) => Last(Push(done, b, n)) = Alone(s, b)
    <3>1. CASE Joins(done)
      <4>1. PICK len \in Nat : len = Len(done) /\ len \in DOMAIN done
        BY <2>12, <3>1, EmptySeq
      <4>2. PICK y : y = Join(done[len], b)
        OBVIOUS
      <4>3. Push(done, b, n) = [done EXCEPT ![len] = y]
        BY <2>1, <3>1, <4>1, <4>2 DEF Push
      <4>4. Len([done EXCEPT ![len] = y]) = len /\ [done EXCEPT ![len] = y][len] = y
        BY <4>1
      <4>5. QED
        BY <3>1, <4>1, <4>2, <4>3, <4>4 DEF Last
    <3>2. CASE ~ Joins(done)
      <4>1. PICK y \in Bar : y = Alone(s, b)
        BY <2>1, JoinIs
      <4>2. Push(done, b, n) = Append(done, y)
        BY <2>1, <3>2, <4>1 DEF Push
      <4>3. Len(Append(done, y)) = Len(done) + 1 /\ Append(done, y)[Len(done) + 1] = y
        BY <4>1
      <4>4. QED
        BY <3>2, <4>1, <4>2, <4>3 DEF Last
    <3>3. QED
      BY <3>1, <3>2
  <2> HIDE DEF Joins, x
  <2>13. Last(Push(A, b, n)) = Last(Push(W, b, n))
    <3>1. CASE q = << >>
      <4>1. \A i \in DOMAIN q : q[i].timestamp < s
        BY <3>1
      <4>2. w = << >>
        BY <2>1, <2>3, <4>1, BarsFromNone
      <4>3. QED
        BY <2>8, <3>1, <4>2
    <3>2. CASE q # << >>
      <4>1. PICK len \in Nat : len = Len(q) /\ len > 0 /\ DOMAIN q = 1 .. len /\ q[len] \in Bar
        BY <3>2, EmptySeq
      <4>2. PICK first, l : first = SubSeq(q, 1, len - 1) /\ l = q[len]
        OBVIOUS
      <4>3. first \in Seq(Bar) /\ l \in Bar /\ q = Append(first, l)
        BY <4>1, <4>2
      <4>4. PICK t \in Int : t = Bucket(l.timestamp, n)
        BY <4>3, BucketIs DEF Bar
      <4>5. A = Push(Aggregate(first, n), l, n) /\ Aggregate(first, n) \in Seq(Bar)
        BY <2>4, <2>8, <4>3, PushIs, AggregateIs
      <4>6. A # << >> /\ A[Len(A)].timestamp = t
        BY <4>3, <4>4, <4>5, PushedIs
      <4>7. CASE t = s
        <5>1. From(q) = w
          BY <2>3, <4>1, <4>2, <4>4, <4>7
        <5>2. w # << >> /\ Last(W) = Last(A)
          BY <1>2, <2>4, <2>8, <3>2, <5>1
        <5>3. PICK k \in Nat : k = Len(w) /\ k > 0 /\ DOMAIN w = 1 .. k /\ w[k] \in Bar
          BY <2>5, <5>2, EmptySeq
        <5>4. PICK front, z : front = SubSeq(w, 1, k - 1) /\ z = w[k]
          OBVIOUS
        <5>5. front \in Seq(Bar) /\ z \in Bar /\ w = Append(front, z)
          BY <2>5, <5>3, <5>4
        <5>6. W = Push(Aggregate(front, n), z, n) /\ Aggregate(front, n) \in Seq(Bar)
          BY <2>5, <2>8, <5>5, PushIs, AggregateIs
        <5>7. W # << >>
          BY <5>5, <5>6, PushedIs
        <5>8. Last(W) = W[Len(W)] /\ Last(A) = A[Len(A)]
          BY DEF Last
        <5>9. Joins(A) /\ Joins(W)
          BY <4>6, <4>7, <5>2, <5>7, <5>8 DEF Joins
        <5>10. QED
          BY <2>9, <2>12, <5>2, <5>9
      <4>8. CASE t # s
        <5>1. l.timestamp \in Int /\ l.timestamp <= b.timestamp
          <6>1. l.timestamp \in Int
            BY <4>3 DEF Bar
          <6>2. QED
            BY <2>4, <4>1, <4>2, <6>1
        <5>2. l.timestamp < s
          <6>1. s <= l.timestamp /\ l.timestamp < s + n => t = s
            BY <2>1, <2>2, <4>4, <5>1, BucketIs
          <6>2. QED
            BY <2>2, <4>8, <5>1, <6>1
        <5>3. \A i \in DOMAIN q : q[i].timestamp < s
          <6>1. \A i \in DOMAIN q : q[i].timestamp \in Int /\ q[i].timestamp <= l.timestamp
            <7>1. SUFFICES ASSUME NEW i \in DOMAIN q
                           PROVE  q[i].timestamp \in Int /\ q[i].timestamp <= l.timestamp
              OBVIOUS
            <7>2. q[i] \in Bar /\ i \in 1 .. len
              BY <4>1
            <7>3. q[i].timestamp \in Int
              BY <7>2 DEF Bar
            <7>4. i < len => q[i].timestamp <= q[len].timestamp
              BY <2>4, <4>1, <7>2 DEF InTime
            <7>5. QED
              BY <4>2, <5>1, <7>2, <7>3, <7>4
          <6>2. QED
            BY <5>1, <5>2, <6>1
        <5>4. w = << >>
          BY <2>1, <2>3, <5>3, BarsFromNone
        <5>5. W = << >>
          BY <2>8, <5>4, NoneAggregated
        <5>6. ~ Joins(A) /\ ~ Joins(W)
          BY <4>6, <4>8, <5>5 DEF Joins
        <5>7. QED
          BY <2>9, <2>12, <5>6
      <4>9. QED
        BY <4>7, <4>8
    <3>3. QED
      BY <3>1, <3>2
  <2>14. QED
    BY <2>6, <2>10, <2>11, <2>13
<1>3. ASSUME NEW q \in Seq(Bar), NEW b \in Bar, q \in Q PROVE Append(q, b) \in Q
  <2>1. Append(q, b) \in Seq(Bar)
    OBVIOUS
  <2> HIDE DEF From
  <2>2. QED
    BY <1>2, <1>3, <2>1
<1> HIDE DEF Q
<1>4. \A q \in Seq(Bar) : q \in Q
  BY <1>1, <1>3, AppendInd
<1>5. \A q : LatestBar(q, n) = Last(Aggregate(From(q), n))
  BY DEF LatestBar, Last
<1>6. QED
  BY <1>4, <1>5 DEF Q

-----------------------------------------------------------------------------
\* The rows of a table in the order of their timestamps

KeyOf(row, first) == 2 * row.timestamp + IF row.exchange = first THEN 0 ELSE 1

Newest(s, first) == CHOOSE x \in s : \A y \in s : KeyOf(y, first) <= KeyOf(x, first)

\* The equation of the loop over the rows.
IsListing(iter, table, first) ==
  iter = [s \in SUBSET table |->
            IF s = {} THEN << >>
            ELSE CHOOSE y \in {Append(a, Newest(s, first)) : a \in {iter[s \ {Newest(s, first)}]}} : TRUE]

LEMMA ListingExpanded ==
  ASSUME NEW table, NEW first
  PROVE  Listed(table, first) = (CHOOSE iter : IsListing(iter, table, first))[table]
BY Zenon DEF Listed, InOrder, MapThenFoldSet, IsListing, Newest, KeyOf

LEMMA ListingStep ==
  ASSUME NEW row, NEW v
  PROVE  (CHOOSE y \in {Append(a, row) : a \in {v}} : TRUE) = Append(v, row)
<1>1. {Append(a, row) : a \in {v}} = {Append(v, row)}
  BY Zenon
<1>2. QED
  BY <1>1, OnlyOne, Zenon

\* The row that comes last has the latest timestamp.
LEMMA NewestIs ==
  ASSUME NEW table \in SUBSET Row, IsFiniteSet(table), NEW first,
         NEW s \in SUBSET table, s # {}
  PROVE  Newest(s, first) \in s /\ \A y \in s : y.timestamp <= Newest(s, first).timestamp
<1> DEFINE place == [row \in table |-> KeyOf(row, first)]
<1>1. \A row \in table : row.timestamp \in Int /\ KeyOf(row, first) \in Int
                         /\ KeyOf(row, first) \in 2 * row.timestamp .. 2 * row.timestamp + 1
  <2>1. \A row \in table : row.timestamp \in Int
    BY DEF Row
  <2>2. \A row \in table : KeyOf(row, first) \in {2 * row.timestamp, 2 * row.timestamp + 1}
    BY <2>1 DEF KeyOf
  <2>3. QED
    BY <2>1, <2>2
<1>2. place \in [table -> Int]
  BY <1>1
<1>3. \E x \in s : \A y \in s : place[y] <= place[x]
  <2> HIDE DEF place
  <2>1. QED
    BY <1>2, LargestKey
<1>4. \E x \in s : \A y \in s : KeyOf(y, first) <= KeyOf(x, first)
  BY <1>3
<1>5. /\ Newest(s, first) \in s
      /\ \A y \in s : KeyOf(y, first) <= KeyOf(Newest(s, first), first)
  BY <1>4, Zenon DEF Newest
<1>6. PICK x \in s : x = Newest(s, first)
  BY <1>5
<1>7. ASSUME NEW y \in s PROVE y.timestamp <= x.timestamp
  <2>1. KeyOf(y, first) <= KeyOf(x, first)
    BY <1>5, <1>6
  <2>2. x \in table /\ y \in table
    BY <1>6
  <2>3. QED
    BY <1>1, <2>1, <2>2
<1>8. QED
  BY <1>6, <1>7

\* The loop has a value for every set of rows.
LEMMA ListingExists ==
  ASSUME NEW table \in SUBSET Row, IsFiniteSet(table), NEW first
  PROVE  \E iter : IsListing(iter, table, first)
<1> DEFINE pick == [s \in SUBSET table |-> Newest(s, first)]
           A == Seq(Row)
           step == [row \in table |-> [list \in A |-> Append(list, row)]]
<1>1. \A s \in SUBSET table : s # {} => Newest(s, first) \in s
  BY NewestIs
<1>2. Picks(pick, table) /\ \A s \in SUBSET table : pick[s] = Newest(s, first)
  BY <1>1 DEF Picks
<1> HIDE DEF pick
<1>3. PICK g : IsFoldOver(g, table, << >>, step, pick)
  <2> HIDE DEF step
  <2>1. QED
    BY <1>2, FoldOverExists, Zenon
<1>4. \A s \in SUBSET table :
         g[s] = IF s = {} THEN << >> ELSE step[Newest(s, first)][g[s \ {Newest(s, first)}]]
  <2> HIDE DEF step
  <2>1. QED
    BY <1>2, <1>3 DEF IsFoldOver
<1> DEFINE Q == {s \in SUBSET table : g[s] \in A}
<1>5. {} \in Q
  <2>1. << >> \in A
    OBVIOUS
  <2> HIDE DEF A, step
  <2>2. g[{}] = << >>
    BY <1>4
  <2>3. QED
    BY <2>1, <2>2
<1>6. ASSUME NEW s \in SUBSET table, s # {}, s \ {pick[s]} \in Q PROVE s \in Q
  <2>1. PICK row \in table : row = Newest(s, first)
    BY <1>1, <1>6
  <2>2. PICK list \in A : list = g[s \ {row}]
    <3> HIDE DEF A
    <3>1. QED
      BY <1>2, <1>6, <2>1
  <2>3. Append(list, row) \in A
    BY <2>1, <2>2
  <2>4. step[row][list] = Append(list, row)
    <3> HIDE DEF A
    <3>1. QED
      BY <2>1, <2>2
  <2> HIDE DEF A, step
  <2>5. g[s] = step[row][list]
    BY <1>4, <1>6, <2>1, <2>2
  <2>6. QED
    BY <2>3, <2>4, <2>5
<1>7. \A s \in SUBSET table : s \in Q
  <2> HIDE DEF Q
  <2>1. \A s \in SUBSET table : s # {} /\ s \ {pick[s]} \in Q => s \in Q
    BY <1>6
  <2>2. Picks(pick, table)
    BY <1>2
  <2>3. QED
    BY <1>5, <2>1, <2>2, PickInd
<1> DEFINE Rhs(s) == IF s = {} THEN << >>
                     ELSE CHOOSE y \in {Append(a, Newest(s, first)) :
                                          a \in {g[s \ {Newest(s, first)}]}} : TRUE
<1>8. ASSUME NEW s \in SUBSET table PROVE g[s] = Rhs(s)
  <2>1. CASE s = {}
    BY <1>4, <2>1
  <2>2. CASE s # {}
    <3>1. PICK row \in table : row = Newest(s, first)
      BY <1>1, <2>2
    <3>2. PICK list \in A : list = g[s \ {row}]
      <4> HIDE DEF A
      <4>1. s \ {row} \in SUBSET table
        OBVIOUS
      <4>2. QED
        BY <1>7, <4>1
    <3>3. step[row][list] = Append(list, row)
      <4> HIDE DEF A
      <4>1. QED
        BY <3>1, <3>2
    <3> HIDE DEF A, step, Q
    <3>4. g[s] = step[row][list]
      BY <1>4, <2>2, <3>1, <3>2
    <3>5. g[s] = CHOOSE y \in {Append(a, row) : a \in {list}} : TRUE
      BY <3>3, <3>4, ListingStep, Zenon
    <3>6. QED
      BY <2>2, <3>1, <3>2, <3>5, Zenon
  <2>3. QED
    BY <2>1, <2>2
<1>9. IsListing(g, table, first)
  <2> HIDE DEF A, step, Q
  <2>1. g = [s \in SUBSET table |-> g[s]]
    BY <1>3 DEF IsFoldOver
  <2>2. \A s \in SUBSET table : g[s] = Rhs(s)
    BY <1>8
  <2>3. g = [s \in SUBSET table |-> Rhs(s)]
    <3> HIDE DEF Rhs
    <3>1. QED
      BY <2>1, <2>2
  <2>4. QED
    BY <2>3 DEF IsListing
<1>10. QED
  BY <1>9, Zenon

\* One row more, not before the others.
LEMMA AppendInTime ==
  ASSUME NEW S, NEW list \in Seq(S), NEW x \in S, InTime(list),
         \A i \in DOMAIN list : list[i].timestamp <= x.timestamp
  PROVE  InTime(Append(list, x))
<1>1. PICK n \in Nat : n = Len(list) /\ DOMAIN list = 1 .. n
  OBVIOUS
<1>2. PICK r : r = Append(list, x)
  OBVIOUS
<1>3. DOMAIN r = 1 .. n + 1 /\ r[n + 1] = x /\ \A i \in 1 .. n : r[i] = list[i]
  BY <1>1, <1>2
<1>4. \A i, j \in 1 .. n : i < j => list[i].timestamp <= list[j].timestamp
  BY <1>1 DEF InTime
<1>5. \A i \in 1 .. n : list[i].timestamp <= x.timestamp
  BY <1>1
<1>6. \A i, j \in 1 .. n + 1 : i < j => r[i].timestamp <= r[j].timestamp
  BY <1>3, <1>4, <1>5
<1>7. InTime(r)
  BY <1>3, <1>6 DEF InTime
<1>8. QED
  BY <1>2, <1>7

\* The rows of a table, in the order of their timestamps.
LEMMA ListedInTime ==
  ASSUME NEW table \in SUBSET Row, IsFiniteSet(table), NEW first
  PROVE  /\ Listed(table, first) \in Seq(table) /\ InTime(Listed(table, first))
         /\ table # {} => Listed(table, first) # << >>
         /\ \A row \in table : \E i \in DOMAIN Listed(table, first) : Listed(table, first)[i] = row
<1>1. PICK g : g = CHOOSE iter : IsListing(iter, table, first)
  OBVIOUS
<1>2. IsListing(g, table, first)
  BY <1>1, ListingExists, Zenon
<1>3. Listed(table, first) = g[table]
  BY <1>1, ListingExpanded, Zenon
<1>4. \A s \in SUBSET table :
         g[s] = IF s = {} THEN << >> ELSE Append(g[s \ {Newest(s, first)}], Newest(s, first))
  <2> DEFINE Rhs(s) == IF s = {} THEN << >>
                       ELSE CHOOSE y \in {Append(a, Newest(s, first)) :
                                            a \in {g[s \ {Newest(s, first)}]}} : TRUE
  <2>1. g = [s \in SUBSET table |-> Rhs(s)]
    BY <1>2 DEF IsListing
  <2>2. \A s \in SUBSET table : g[s] = Rhs(s)
    <3> HIDE DEF Rhs
    <3>1. QED
      BY <2>1
  <2>3. \A s \in SUBSET table :
          Rhs(s) = IF s = {} THEN << >> ELSE Append(g[s \ {Newest(s, first)}], Newest(s, first))
    BY ListingStep, Zenon
  <2> HIDE DEF Rhs
  <2>4. QED
    BY <2>2, <2>3
<1> DEFINE Q == {s \in SUBSET table :
                   /\ g[s] \in Seq(table) /\ InTime(g[s])
                   /\ \A i \in DOMAIN g[s] : g[s][i] \in s
                   /\ s # {} => g[s] # << >>
                   /\ \A x \in s : \E i \in DOMAIN g[s] : g[s][i] = x}
           pick == [s \in SUBSET table |-> Newest(s, first)]
<1>5. Picks(pick, table) /\ \A s \in SUBSET table : pick[s] = Newest(s, first)
  BY NewestIs DEF Picks
<1> HIDE DEF pick
<1>6. {} \in Q
  <2>1. g[{}] = << >>
    BY <1>4
  <2>2. << >> \in Seq(table) /\ InTime(<< >>) /\ \A i \in DOMAIN << >> : << >>[i] \in {}
    BY DEF InTime
  <2>3. QED
    BY <2>1, <2>2
<1>7. ASSUME NEW s \in SUBSET table, s # {}, s \ {pick[s]} \in Q PROVE s \in Q
  <2>1. PICK row \in table : row = Newest(s, first) /\ row \in s
                             /\ \A y \in s : y.timestamp <= row.timestamp
    BY <1>7, NewestIs
  <2>2. PICK list : list = g[s \ {row}]
    OBVIOUS
  <2>3. /\ list \in Seq(table) /\ InTime(list) /\ \A i \in DOMAIN list : list[i] \in s
        /\ \A x \in s \ {row} : \E i \in DOMAIN list : list[i] = x
    BY <1>5, <1>7, <2>1, <2>2
  <2>4. g[s] = Append(list, row)
    BY <1>4, <1>7, <2>1, <2>2
  <2>5. InTime(Append(list, row))
    BY <2>1, <2>3, AppendInTime
  <2>6. Append(list, row) \in Seq(table) /\ Append(list, row) # << >>
    BY <2>3
  <2>7. \A i \in DOMAIN Append(list, row) : Append(list, row)[i] \in s
    BY <2>1, <2>3
  <2>8. \A x \in s : \E i \in DOMAIN Append(list, row) : Append(list, row)[i] = x
    <3>1. PICK n \in Nat : n = Len(list) /\ DOMAIN list = 1 .. n
      BY <2>3
    <3>2. PICK r : r = Append(list, row)
      OBVIOUS
    <3>3. DOMAIN r = 1 .. n + 1 /\ r[n + 1] = row /\ \A i \in 1 .. n : r[i] = list[i]
      BY <2>3, <3>1, <3>2
    <3>4. \A x \in s : \E i \in DOMAIN r : r[i] = x
      BY <2>3, <3>1, <3>3
    <3>5. QED
      BY <3>2, <3>4
  <2>9. QED
    BY <2>4, <2>5, <2>6, <2>7, <2>8
<1>8. \A s \in SUBSET table : s \in Q
  <2> HIDE DEF Q
  <2>1. \A s \in SUBSET table : s # {} /\ s \ {pick[s]} \in Q => s \in Q
    BY <1>7
  <2>2. Picks(pick, table)
    BY <1>5
  <2>3. QED
    BY <1>6, <2>1, <2>2, PickInd
<1>9. QED
  BY <1>3, <1>8

\* The prices and the volume of a row are numbers.
WholePrices ==
  \A row \in Row : Content(row) \in [open : Int, high : Int, low : Int, close : Int, volume : Int]

\* What query_bars returns: some bars, in the order of their timestamps.
LEMMA OrdersAre ==
  ASSUME WholePrices, NEW table \in SUBSET Row, IsFiniteSet(table), NEW raw \in Orders(table)
  PROVE  /\ raw \in Seq(Bar) /\ InTime(raw) /\ raw # << >>
         /\ \A r \in table : \E i \in DOMAIN raw : raw[i].timestamp = r.timestamp
<1>1. PICK row \in table : raw = Raw(Listed(table, row.exchange))
  BY DEF Orders
<1>2. PICK list : list = Listed(table, row.exchange)
  OBVIOUS
<1>3. /\ list \in Seq(table) /\ InTime(list) /\ list # << >>
      /\ \A r \in table : \E i \in DOMAIN list : list[i] = r
  BY <1>1, <1>2, ListedInTime
<1>4. \A r \in table : RawBar(r) \in Bar /\ RawBar(r).timestamp = r.timestamp
  BY DEF WholePrices, RawBar, Bar, Row
<1>5. PICK n \in Nat : n = Len(list) /\ DOMAIN list = 1 .. n /\ n # 0
  BY <1>3, EmptySeq
<1>6. \A i \in 1 .. n : list[i] \in table
  BY <1>3, <1>5
<1>7. raw = [i \in 1 .. n |-> RawBar(list[i])]
  BY <1>1, <1>2, <1>5 DEF Raw
<1>8. \A i \in 1 .. n : raw[i] = RawBar(list[i]) /\ raw[i] \in Bar /\ raw[i].timestamp = list[i].timestamp
  BY <1>4, <1>6, <1>7
<1>9. raw \in Seq(Bar) /\ Len(raw) = n /\ DOMAIN raw = 1 .. n
  BY <1>7, <1>8
<1>10. InTime(raw)
  BY <1>3, <1>5, <1>8, <1>9 DEF InTime
<1>11. raw # << >>
  BY <1>5, <1>9
<1>12. \A r \in table : \E i \in DOMAIN raw : raw[i].timestamp = r.timestamp
  BY <1>3, <1>5, <1>8, <1>9
<1>13. QED
  BY <1>9, <1>10, <1>11, <1>12

\* aggregate, of bars in the order of their timestamps.
LEMMA ComposesAre ==
  ASSUME NEW q \in Seq(Bar), InTime(q), q # << >>, NEW n \in Nat \ {0}
  PROVE  Composes(q, n, 2 * n)
<1>1. 2 * n \in Nat \ {0}
  OBVIOUS
<1>2. Aggregate(OfInterval(q, n), 2 * n) = Aggregate(q, 2 * n)
  BY AggregateTwice DEF OfInterval
<1>3. VolumeOf(Aggregate(q, 2 * n), DOMAIN Aggregate(q, 2 * n)) = VolumeOf(q, DOMAIN q)
  BY <1>1, VolumeKept
<1>4. LatestBar(q, 2 * n) = Last(Aggregate(q, 2 * n))
  BY <1>1, LatestIsLast
<1>5. PICK made : made = Aggregate(q, 2 * n)
  OBVIOUS
<1>6. made \in Seq(Bar) /\ Len(made) \in Nat \ {0}
  <2>1. PICK list : list = Ascending(Starts(q, 2 * n))
    OBVIOUS
  <2>2. made \in Seq(Bar) /\ Len(made) = Len(list)
    BY <1>1, <1>5, <2>1, AggregateIs
  <2>3. Ascends(list, Starts(q, 2 * n))
    BY <1>1, <2>1, StartsIs
  <2>4. 1 \in DOMAIN q
    BY EmptySeq
  <2>5. Starts(q, 2 * n) # {}
    BY <2>4 DEF Starts
  <2>6. Len(list) # 0
    BY <2>3, <2>5 DEF Ascends
  <2>7. QED
    BY <2>2, <2>6
<1>7. /\ Len(made) \in DOMAIN made /\ LatestBar(q, 2 * n) = made[Len(made)]
      /\ \A j \in DOMAIN made : j <= Len(made)
  BY <1>4, <1>5, <1>6 DEF Last
<1>8. \E k \in DOMAIN made : /\ LatestBar(q, 2 * n) = made[k]
                            /\ \A j \in DOMAIN made : Closed(made[j], q, 2 * n) => j <= k
  BY <1>7
<1>9. QED
  BY <1>2, <1>3, <1>5, <1>8 DEF Composes

-----------------------------------------------------------------------------
\* The table of the fetcher, with the data provider in front of it.

\* The ranges of calculate_time_range.
LEMMA RangesAre ==
  ASSUME NEW cfg \in Configs, NEW present \in Presents
  PROVE  TimeRange(cfg, present) \subseteq Windows
<1>1. /\ cfg.interval \in Nat /\ cfg.count \in Nat /\ cfg.start \in Int /\ cfg.end \in Int
      /\ present \in Int
  BY ConfigsAssumption
<1>2. PICK end \in Int : end = End(cfg, present)
  BY <1>1 DEF End
<1>3. PICK back \in Int : back = CountBack(cfg, end)
  <2>1. cfg.count * cfg.interval \in Int
    BY <1>1
  <2>2. QED
    BY <1>2, <2>1 DEF CountBack
<1>4. Bigger(cfg.start, back) \in Int
  BY <1>1 DEF Bigger
<1>5. TimeRange(cfg, present) \subseteq
        {[start |-> s, end |-> end] : s \in {cfg.start, back, Bigger(cfg.start, back)}}
  BY <1>2, <1>3, Zenon DEF TimeRange
<1>6. QED
  BY <1>1, <1>4, <1>5 DEF Windows

\* What a step does to the fetcher: one of its own, or none, but that a call that reads
\* through forgets what it returned.
LEMMA DataMoves ==
  ASSUME [DataNext]_allVars
  PROVE  FetcherAction \/ (Quiet /\ (DOMAIN pc = Callers /\ DOMAIN led = Callers
                                       /\ DOMAIN result = Callers => Forgets))
<1> DEFINE Rests == Quiet /\ (DOMAIN pc = Callers /\ DOMAIN led = Callers
                                /\ DOMAIN result = Callers => Forgets)
<1>1. ASSUME UNCHANGED <<world, pc, task>> PROVE Rests
  BY <1>1 DEF Quiet, Forgets, world, task
<1>2. ASSUME UNCHANGED vars PROVE Rests
  BY <1>1, <1>2 DEF vars
<1>3. ASSUME NEW c \in Callers, NEW cfg \in Configs, GetAtOnce(c, cfg) PROVE Rests
  BY <1>1, <1>3 DEF GetAtOnce
<1>4. ASSUME NEW c \in Callers, NEW cfg \in Configs, GetBars(c, cfg) PROVE FetcherAction
  <2>1. PICK present \in Presents :
          \E range \in TimeRange(cfg, present) : Lead(c, range) \/ Follow(c, range)
    BY <1>4, Zenon DEF GetBars
  <2>2. \A range \in TimeRange(cfg, present) : range \in Windows
    BY RangesAre
  <2>3. QED
    BY <2>1, <2>2, Zenon DEF FetcherAction
<1>5. ASSUME NEW c \in Callers, NEW cfg \in Configs, ReadThrough(c, cfg) PROVE Rests
  <2>1. /\ UNCHANGED <<world, pc, request, gaps, fetched>> /\ pc[c] = "idle"
        /\ result' = [result EXCEPT ![c] = "Ok"] /\ led' = [led EXCEPT ![c] = FALSE]
    BY <1>5 DEF ReadThrough
  <2>2. QED
    BY <2>1 DEF Quiet, Forgets, world
<1>6. ASSUME NEW c \in Callers, FetcherStep(c) PROVE FetcherAction
  BY <1>6, Zenon DEF FetcherStep, FetcherAction
<1>7. ASSUME NEW c \in Callers, ProviderStep(c) PROVE UNCHANGED vars
  BY <1>7 DEF ProviderStep, EnsureFailed, LookUp, Read, Fill
<1>8. ASSUME NEW c \in Callers, ReadFails(c) PROVE Rests
  BY <1>1, <1>8 DEF ReadFails
<1>9. ASSUME NEW c \in Callers, DropCall(c) PROVE FetcherAction \/ UNCHANGED vars
  BY <1>9, Zenon DEF DropCall, FetcherAction
<1>10. ASSUME Tick \/ Delete \/ Clear PROVE UNCHANGED vars
  BY <1>10 DEF Tick, Delete, Clear
<1>11. ASSUME UNCHANGED allVars PROVE UNCHANGED vars
  BY <1>11 DEF allVars
<1> HIDE DEF Rests
<1>12. FetcherAction \/ Rests
  BY <1>2, <1>3, <1>4, <1>5, <1>6, <1>7, <1>8, <1>9, <1>10, <1>11, Zenon DEF DataNext
<1>13. QED
  BY <1>12 DEF Rests

LEMMA DataTableNext == TableInv /\ [DataNext]_allVars => TableInv'
BY DataMoves, TableMoves, Zenon DEF Moves

\* aggregate, on what a call reads of any table: longer bars are the same from raw bars and
\* from shorter ones that divide them, no volume is lost, and get_latest_bar, which reads
\* the rows of one bucket again, returns one of them that is not before any closed one.
THEOREM AggregationAlwaysComposes == WholePrices => (DataSpec => []AggregationComposes)
<1> SUFFICES ASSUME WholePrices PROVE DataSpec => []AggregationComposes
  OBVIOUS
<1>1. TableInv => AggregationComposes
  <2>1. SUFFICES ASSUME TableInv, NEW c \in Callers, NEW raw \in Orders(InRange(rows, key[c])),
                        NEW n \in {1, 2}
                 PROVE  Composes(raw, n * BarLength, 2 * n * BarLength)
    BY Zenon DEF AggregationComposes
  <2>2. PICK table : table = InRange(rows, key[c])
    OBVIOUS
  <2>3. table \subseteq rows
    BY <2>2 DEF InRange
  <2>4. table \in SUBSET Row /\ IsFiniteSet(table)
    BY <2>1, <2>3, FS_Subset DEF TableInv
  <2>5. raw \in Seq(Bar) /\ InTime(raw) /\ raw # << >>
    BY <2>2, <2>4, OrdersAre
  <2>6. PICK m \in Nat \ {0} : m = n * BarLength
    BY BarLengthAssumption
  <2>7. 2 * n * BarLength = 2 * m
    BY <2>6, BarLengthAssumption
  <2>8. Composes(raw, m, 2 * m)
    BY <2>5, ComposesAre
  <2>9. QED
    BY <2>6, <2>7, <2>8
<1>2. DataInit => TableInv
  BY TableInit DEF DataInit
<1>3. QED
  BY DataTableNext, <1>1, <1>2, PTL DEF DataSpec

-----------------------------------------------------------------------------
\* Enough bars: the starts of as many intervals as were asked for are in the range.

\* Multiples of n.
LEMMA Multiples ==
  ASSUME NEW n \in Nat \ {0}
  PROVE  /\ \A p \in Int : p * n \in Int /\ (p * n) \div n = p /\ (p * n) % n = 0
         /\ \A p, q \in Int : p * n = q * n => p = q
         /\ \A t \in Int : t % n = 0 => \E p \in Int : t = p * n
<1>1. \A p \in Int : p * n \in Int /\ (p * n) \div n = p
  BY Z3
<1>2. \A p \in Int : (p * n) % n = 0
  BY Z3
<1>3. \A t \in Int : t \div n \in Int /\ t = (t \div n) * n + (t % n)
  BY Z3
<1>4. \A t \in Int : t % n = 0 => t = (t \div n) * n
  BY <1>3, Z3
<1>5. QED
  BY <1>1, <1>2, <1>3, <1>4

LEMMA MultiplesOf ==
  ASSUME NEW n \in Int, NEW b \in Nat \ {0}, n % b = 0
  PROVE  \A p \in Int : (p * n) % b = 0
<1>1. n \div b \in Int /\ n = (n \div b) * b + (n % b)
  BY Z3
<1>2. PICK m \in Int : m = n \div b
  BY <1>1
<1>3. n = m * b /\ m * b \in Int
  BY <1>1, <1>2, Z3
<1>4. ASSUME NEW p \in Int PROVE (p * n) % b = 0
  <2>1. PICK r \in Int : r = p * m
    OBVIOUS
  <2>2. p * n = r * b
    BY <1>3, <2>1, Z3
  <2>3. (r * b) % b = 0
    BY Multiples
  <2>4. QED
    BY <2>2, <2>3
<1>5. QED
  BY <1>4

\* So many moments at the starts of intervals of n in a range.
Spread(f, n, many, start, end) ==
  /\ f \in [1 .. many -> Int]
  /\ \A i \in 1 .. many : /\ start <= f[i] /\ f[i] < end
                          /\ Bucket(f[i], n) = f[i]
                          /\ \E p \in Int : f[i] = p * n
  /\ \A i, j \in 1 .. many : f[i] = f[j] => i = j

LEMMA StartsInRange ==
  ASSUME NEW n \in Nat \ {0}, NEW many \in Nat, NEW start \in Int, NEW end \in Int,
         end - start >= many * n
  PROVE  \E f : Spread(f, n, many, start, end)
<1>1. PICK p \in Int : start <= p * n /\ p * n < start + n
  <2>1. PICK t \in Int : t = start - 1
    OBVIOUS
  <2>2. PICK q \in Int : q = t \div n /\ q * n \in Int /\ q * n <= t /\ t < q * n + n
    BY Z3
  <2>3. (q + 1) * n = q * n + n
    BY Z3
  <2>4. PICK p \in Int : p = q + 1
    OBVIOUS
  <2>5. start <= p * n /\ p * n < start + n
    BY <2>1, <2>2, <2>3, <2>4
  <2>6. QED
    BY <2>5
<1> DEFINE f == [i \in 1 .. many |-> (p + i - 1) * n]
<1>2. PICK len \in Int : len = many * n
  OBVIOUS
<1>3. PICK a \in Int : a = p * n /\ start <= a /\ a < start + n
  BY <1>1
<1>4. ASSUME NEW i \in 1 .. many
      PROVE  /\ f[i] = (p + i - 1) * n /\ f[i] = a + (i - 1) * n
             /\ (i - 1) * n >= 0 /\ (i - 1) * n + n <= len
             /\ (i - 1) * n \in Int
  <2>1. f[i] = (p + i - 1) * n
    OBVIOUS
  <2>2. (p + i - 1) * n = p * n + (i - 1) * n /\ (i - 1) * n >= 0 /\ (i - 1) * n \in Int
    BY Z3
  <2>3. (i - 1) * n + n = i * n /\ i * n <= many * n
    <3>1. i \in Nat /\ i <= many
      OBVIOUS
    <3>2. QED
      BY <3>1, Z3
  <2>4. QED
    BY <1>2, <1>3, <2>1, <2>2, <2>3
<1>5. \A q \in Int : Bucket(q * n, n) = q * n
  BY Multiples DEF Bucket
<1>6. ASSUME NEW i \in 1 .. many, NEW j \in 1 .. many, f[i] = f[j] PROVE i = j
  <2>1. PICK x \in Int, y \in Int : x = p + i - 1 /\ y = p + j - 1
    OBVIOUS
  <2>2. x * n = y * n
    BY <1>4, <1>6, <2>1
  <2>3. x = y
    BY <2>2, Multiples
  <2>4. i \in Int /\ j \in Int
    OBVIOUS
  <2> HIDE DEF f
  <2>5. QED
    BY <2>1, <2>3, <2>4
<1>7. ASSUME NEW i \in 1 .. many
      PROVE  /\ f[i] \in Int /\ start <= f[i] /\ f[i] < end
             /\ Bucket(f[i], n) = f[i]
             /\ \E q \in Int : f[i] = q * n
  <2>1. PICK x \in Int : x = p + i - 1
    OBVIOUS
  <2>2. f[i] = x * n
    BY <1>4, <2>1
  <2>3. Bucket(f[i], n) = f[i]
    BY <1>5, <2>2
  <2>4. PICK d \in Int : d = (i - 1) * n /\ f[i] = a + d /\ d >= 0 /\ d + n <= len
    BY <1>4
  <2>5. f[i] \in Int /\ start <= f[i] /\ f[i] < end
    BY <1>2, <1>3, <2>4
  <2>6. QED
    BY <2>2, <2>3, <2>5
<1>8. f \in [1 .. many -> Int]
  BY <1>7
<1> HIDE DEF f
<1>9. \A i, j \in 1 .. many : f[i] = f[j] => i = j
  BY <1>6
<1>10. Spread(f, n, many, start, end)
  BY <1>7, <1>8, <1>9 DEF Spread
<1>11. QED
  BY <1>10

\* A sequence with so many different timestamps is that long.
LEMMA ManyTimes ==
  ASSUME NEW S, NEW q \in Seq(S), NEW many \in Nat, NEW f \in [1 .. many -> Int],
         \A i, j \in 1 .. many : f[i] = f[j] => i = j,
         \A i \in 1 .. many : \E k \in DOMAIN q : q[k].timestamp = f[i]
  PROVE  Len(q) >= many
<1>1. PICK n \in Nat : n = Len(q) /\ DOMAIN q = 1 .. n
  OBVIOUS
<1>2. SUFFICES ASSUME n < many PROVE FALSE
  BY <1>1
<1> DEFINE g == [i \in 1 .. many |-> CHOOSE k \in 1 .. n : q[k].timestamp = f[i]]
<1>3. \A i \in 1 .. many : g[i] \in 1 .. n /\ q[g[i]].timestamp = f[i]
  BY <1>1
<1>4. g \in [1 .. many -> 1 .. n]
  BY <1>3
<1> HIDE DEF g
<1>5. /\ IsFiniteSet(1 .. many) /\ Cardinality(1 .. many) = many
      /\ IsFiniteSet(1 .. n) /\ Cardinality(1 .. n) = n
  BY FS_Interval
<1>6. \E i, j \in 1 .. many : i # j /\ g[i] = g[j]
  <2>1. PICK A, B : A = 1 .. many /\ B = 1 .. n
    OBVIOUS
  <2>2. IsFiniteSet(A) /\ IsFiniteSet(B) /\ Cardinality(B) < Cardinality(A) /\ g \in [A -> B]
    BY <1>2, <1>4, <1>5, <2>1
  <2>3. \E i, j \in A : i # j /\ g[i] = g[j]
    BY <2>2, FS_PigeonHole
  <2>4. QED
    BY <2>1, <2>3
<1>7. QED
  BY <1>3, <1>6

\* Aggregated, bars of so many intervals are that many.
LEMMA EnoughAggregated ==
  ASSUME NEW raw \in Seq(Bar), NEW n \in Nat \ {0}, NEW many \in Nat,
         NEW f \in [1 .. many -> Int],
         \A i, j \in 1 .. many : f[i] = f[j] => i = j,
         \A i \in 1 .. many : /\ Bucket(f[i], n) = f[i]
                               /\ \E k \in DOMAIN raw : raw[k].timestamp = f[i]
  PROVE  Len(OfInterval(raw, n)) >= many
<1>1. CASE n = BarLength
  BY <1>1, ManyTimes DEF OfInterval
<1>2. CASE n # BarLength
  <2>1. PICK list : list = Ascending(Starts(raw, n))
    OBVIOUS
  <2>2. Ascends(list, Starts(raw, n))
    BY <2>1, StartsIs
  <2>3. PICK done : done = Aggregate(raw, n)
    OBVIOUS
  <2>4. /\ done \in Seq(Bar) /\ DOMAIN done = DOMAIN list
        /\ \A k \in DOMAIN list : done[k].timestamp = list[k]
    BY <2>1, <2>3, AggregateIs
  <2>5. \A i \in 1 .. many : f[i] \in Starts(raw, n)
    <3>1. SUFFICES ASSUME NEW i \in 1 .. many PROVE f[i] \in Starts(raw, n)
      OBVIOUS
    <3>2. PICK k \in DOMAIN raw : raw[k].timestamp = f[i]
      OBVIOUS
    <3>3. f[i] = Bucket(raw[k].timestamp, n)
      BY <3>2
    <3>4. QED
      BY <3>3 DEF Starts
  <2>6. \A i \in 1 .. many : \E k \in DOMAIN done : done[k].timestamp = f[i]
    <3>1. \A x \in Starts(raw, n) : \E k \in DOMAIN list : list[k] = x
      BY <2>2 DEF Ascends
    <3>2. SUFFICES ASSUME NEW i \in 1 .. many
                   PROVE  \E k \in DOMAIN done : done[k].timestamp = f[i]
      OBVIOUS
    <3>3. PICK k \in DOMAIN list : list[k] = f[i]
      BY <2>5, <3>1
    <3>4. k \in DOMAIN done /\ done[k].timestamp = f[i]
      BY <2>4, <3>3
    <3>5. QED
      BY <3>4
  <2>7. Len(done) >= many
    BY <2>4, <2>6, ManyTimes
  <2>8. QED
    BY <1>2, <2>3, <2>7 DEF OfInterval
<1>3. QED
  BY <1>1, <1>2

\* What is read of a range that is long enough, and whole in the table, is enough.
LEMMA EnoughRead ==
  ASSUME WholePrices, NEW table \in SUBSET Row, IsFiniteSet(table),
         NEW k, k.start \in Int, k.end \in Int, k.interval \in Nat \ {0},
         k.interval % BarLength = 0,
         NEW many \in Nat, k.end - k.start >= many * k.interval,
         \A t \in k.start .. k.end - 1 :
           t % BarLength = 0 => \E row \in table : row.timestamp = t
  PROVE  /\ \A raw \in Orders(InRange(table, k)) : Len(OfInterval(raw, k.interval)) >= many
         /\ many > 0 => Orders(InRange(table, k)) # {}
<1>1. PICK n \in Nat \ {0} : n = k.interval /\ n % BarLength = 0
  OBVIOUS
<1>2. PICK f : Spread(f, n, many, k.start, k.end)
  <2>1. PICK start \in Int, end \in Int : start = k.start /\ end = k.end
    OBVIOUS
  <2>2. end - start >= many * n
    BY <1>1, <2>1
  <2>3. \E f : Spread(f, n, many, start, end)
    BY <2>2, StartsInRange
  <2>4. QED
    BY <2>1, <2>3
<1>3. \A p \in Int : (p * n) % BarLength = 0
  <2>1. PICK b \in Nat \ {0} : b = BarLength
    BY BarLengthAssumption
  <2>2. n \in Int /\ n % b = 0
    BY <1>1, <2>1
  <2>3. \A p \in Int : (p * n) % b = 0
    BY <2>2, MultiplesOf
  <2>4. QED
    BY <2>1, <2>3
<1>4. ASSUME NEW i \in 1 .. many
      PROVE  \E row \in InRange(table, k) : row.timestamp = f[i]
  <2>0. k.start <= f[i] /\ f[i] < k.end /\ f[i] \in Int /\ f[i] % BarLength = 0
    BY <1>2, <1>3 DEF Spread
  <2>1. f[i] \in k.start .. k.end - 1 /\ f[i] % BarLength = 0
    BY <2>0
  <2>2. PICK row \in table : row.timestamp = f[i]
    BY <2>1
  <2>3. row \in InRange(table, k)
    BY <2>0, <2>2 DEF InRange
  <2>4. QED
    BY <2>2, <2>3
<1>5. InRange(table, k) \in SUBSET Row /\ IsFiniteSet(InRange(table, k))
  <2>1. InRange(table, k) \subseteq table
    BY DEF InRange
  <2>2. QED
    BY <2>1, FS_Subset
<1>6. ASSUME NEW raw \in Orders(InRange(table, k)) PROVE Len(OfInterval(raw, n)) >= many
  <2>1. /\ raw \in Seq(Bar)
        /\ \A row \in InRange(table, k) : \E i \in DOMAIN raw : raw[i].timestamp = row.timestamp
    BY <1>5, OrdersAre
  <2>2. \A i \in 1 .. many : \E x \in DOMAIN raw : raw[x].timestamp = f[i]
    BY <1>4, <2>1
  <2>3. /\ f \in [1 .. many -> Int] /\ \A i, j \in 1 .. many : f[i] = f[j] => i = j
        /\ \A i \in 1 .. many : Bucket(f[i], n) = f[i]
    BY <1>2 DEF Spread
  <2>4. QED
    BY <2>1, <2>2, <2>3, EnoughAggregated
<1>7. many > 0 => Orders(InRange(table, k)) # {}
  <2>1. SUFFICES ASSUME many > 0 PROVE Orders(InRange(table, k)) # {}
    OBVIOUS
  <2>2. \E row : row \in InRange(table, k)
    <3>1. 1 \in 1 .. many
      BY <2>1
    <3>2. QED
      BY <1>4, <3>1
  <2>3. QED
    BY <2>2 DEF Orders
<1>8. QED
  BY <1>1, <1>6, <1>7

-----------------------------------------------------------------------------
\* From the call to the answer.

\* The timeframes of the calls are of whole minutes.
WholeIntervals == \A cfg \in Configs : cfg.interval % BarLength = 0

Keys == {k \in [interval : Nat, start : Int, end : Int] : k.interval % BarLength = 0}

\* The exchange has every bar of the range, which the call downloaded, and the range is long
\* enough.
Served(c) ==
  /\ led[c] /\ HasEveryBar(key[c])
  /\ ~ (key[c].end - key[c].start < config[c].count * config[c].interval)

Asks(c) ==
  /\ key[c] \in Keys /\ config[c].count \in Nat /\ config[c].interval = key[c].interval
  /\ stage[c] # "none" => answer[c] = NoAnswer
  /\ stage[c] # "none" /\ led[c] =>
       request[c] = [start |-> key[c].start, end |-> key[c].end] /\ config[c].count > 0
  /\ stage[c] \in {"reading", "filling"} =>
       pc[c] = "idle" /\ result[c] = "Ok" /\ key[c].interval > 0
  /\ stage[c] = "filling" /\ Served(c) => ~ (Len(bars[c]) < config[c].count)
  /\ stage[c] = "none" /\ answer[c].kind = "NotFound" /\ ~ answer[c].cached => ~ Served(c)

Listeners == /\ DOMAIN stage = Callers /\ DOMAIN key = Callers /\ DOMAIN config = Callers
        /\ DOMAIN bars = Callers /\ DOMAIN answer = Callers

AskInv == Listeners /\ (adapter = "custom" => \A c \in Callers : Asks(c))

LEMMA AskInit == DataInit => AskInv
<1> SUFFICES ASSUME DataInit PROVE Listeners /\ \A c \in Callers : Asks(c)
  BY DEF AskInv
<1>1. Listeners
  BY DEF DataInit, Listeners
<1>2. NoKey \in Keys
  <2>1. 0 % BarLength = 0
    BY BarLengthAssumption
  <2>2. QED
    BY <2>1 DEF NoKey, Keys
<1>3. ASSUME NEW c \in Callers PROVE Asks(c)
  <2>1. /\ key[c] = NoKey /\ config[c] = NoConfig /\ stage[c] = "none" /\ answer[c] = NoAnswer
    BY <1>3 DEF DataInit
  <2>2. QED
    BY <1>2, <2>1 DEF Asks, NoKey, NoConfig, NoAnswer, Answer
<1>4. QED
  BY <1>1, <1>3

LEMMA DataWorkNext ==
  WholeMinutes /\ TableInv /\ MinuteInv /\ WorkInv /\ [DataNext]_allVars => WorkInv'
<1> SUFFICES ASSUME WholeMinutes, TableInv, MinuteInv, WorkInv, [DataNext]_allVars PROVE WorkInv'
  OBVIOUS
<1>1. DOMAIN pc = Callers /\ DOMAIN led = Callers /\ DOMAIN result = Callers
  BY DEF TableInv, WorkInv
<1>2. FetcherAction \/ (Quiet /\ Forgets)
  BY <1>1, DataMoves
<1>3. QED
  BY <1>2, WorkStep, WorkStutters

\* What a step of the fetcher leaves alone.
LEMMA FetcherKeeps ==
  ASSUME NEW c, Step(c) \/ Fail(c)
  PROVE  /\ UNCHANGED <<request, led>> /\ pc[c] # "idle"
         /\ \A d \in (DOMAIN pc \cap DOMAIN result) \ {c} : pc'[d] = pc[d] /\ result'[d] = result[d]
<1> DEFINE Rest == /\ UNCHANGED <<request, led>> /\ pc[c] # "idle"
                   /\ \A d \in (DOMAIN pc \cap DOMAIN result) \ {c} :
                        pc'[d] = pc[d] /\ result'[d] = result[d]
<1>1. CASE Poll(c)
  BY <1>1 DEF Poll
<1>2. CASE Plan(c)
  BY <1>2 DEF Plan, EndsWith
<1>3. CASE Fetch(c)
  BY <1>3 DEF Fetch, NextRange, EndsWith
<1>4. CASE Insert(c)
  BY <1>4 DEF Insert, NextRange, EndsWith
<1>5. CASE Finish(c) \/ Report(c)
  BY <1>5 DEF Finish, Report, task
<1>6. CASE Fail(c)
  BY <1>6 DEF Fail, EndsWith
<1>7. QED
  BY <1>1, <1>2, <1>3, <1>4, <1>5, <1>6, Zenon DEF Step

\* A call that takes no step keeps its part.
LEMMA OthersAsk ==
  ASSUME NEW d \in Callers, Asks(d),
         led'[d] = led[d], request'[d] = request[d], key'[d] = key[d], config'[d] = config[d],
         stage'[d] = stage[d], answer'[d] = answer[d], bars'[d] = bars[d],
         stage[d] \in {"reading", "filling"} => pc'[d] = pc[d] /\ result'[d] = result[d]
  PROVE  Asks(d)'
BY DEF Asks, Served, HasEveryBar

\* The others, when one call takes a step of its own.
NoOther(c) ==
  \A d \in Callers \ {c} :
    /\ led'[d] = led[d] /\ request'[d] = request[d] /\ pc'[d] = pc[d] /\ result'[d] = result[d]
    /\ key'[d] = key[d] /\ config'[d] = config[d] /\ stage'[d] = stage[d]
    /\ answer'[d] = answer[d] /\ bars'[d] = bars[d]

LEMMA OneAsks ==
  ASSUME \A d \in Callers : Asks(d), NEW c \in Callers, NoOther(c), Asks(c)'
  PROVE  \A d \in Callers : Asks(d)'
<1>1. ASSUME NEW d \in Callers \ {c} PROVE Asks(d)'
  BY <1>1, OthersAsk DEF NoOther
<1>2. QED
  BY <1>1

\* A call returns, and what it returns is not too little.
LEMMA ReturnAsks ==
  ASSUME Listeners, \A d \in Callers : Asks(d), NEW c \in Callers, NEW a, Return(c, a),
         UNCHANGED <<led, request, pc, result, key, config>>,
         a.kind = "NotFound" /\ ~ a.cached => ~ Served(c)
  PROVE  \A d \in Callers : Asks(d)'
<1>1. NoOther(c) /\ stage'[c] = "none" /\ answer'[c] = a
  BY DEF Return, NoOther, Listeners
<1>2. Asks(c)'
  BY <1>1 DEF Asks, Served, HasEveryBar
<1>3. QED
  BY <1>1, <1>2, OneAsks

LEMMA GetBarsAsks ==
  ASSUME WholeIntervals, TableInv, WorkInv, Listeners, \A d \in Callers : Asks(d),
         NEW c \in Callers, NEW cfg \in Configs, GetBars(c, cfg)
  PROVE  \A d \in Callers : Asks(d)'
<1>1. PICK present \in Presents :
        \E range \in TimeRange(cfg, present) :
          /\ Lead(c, range) \/ Follow(c, range)
          /\ key' = [key EXCEPT ![c] = [interval |-> cfg.interval, start |-> range.start,
                                        end |-> range.end]]
  BY Zenon DEF GetBars
<1>2. PICK range \in TimeRange(cfg, present) :
        /\ Lead(c, range) \/ Follow(c, range)
        /\ key' = [key EXCEPT ![c] = [interval |-> cfg.interval, start |-> range.start,
                                      end |-> range.end]]
  BY <1>1
<1>3. range \in Windows
  BY RangesAre
<1>4. /\ stage' = [stage EXCEPT ![c] = "ensuring"] /\ config' = [config EXCEPT ![c] = cfg]
      /\ answer' = [answer EXCEPT ![c] = NoAnswer] /\ UNCHANGED bars /\ cfg.count > 0
  BY DEF GetBars
<1>5. /\ DOMAIN pc = Callers /\ DOMAIN result = Callers /\ DOMAIN led = Callers
      /\ DOMAIN request = Callers
  BY DEF TableInv, WorkInv
<1>6. /\ request'[c] = range
      /\ \A d \in Callers \ {c} : /\ led'[d] = led[d] /\ request'[d] = request[d]
                                  /\ pc'[d] = pc[d] /\ result'[d] = result[d]
  BY <1>2, <1>5 DEF Lead, Follow, Call
<1>7. NoOther(c)
  BY <1>2, <1>4, <1>6 DEF NoOther
<1>8. /\ key'[c] = [interval |-> cfg.interval, start |-> range.start, end |-> range.end]
      /\ stage'[c] = "ensuring" /\ config'[c] = cfg /\ answer'[c] = NoAnswer
  BY <1>2, <1>4 DEF Listeners
<1>9. cfg.interval \in Nat /\ cfg.count \in Nat /\ cfg.interval % BarLength = 0
  BY ConfigsAssumption DEF WholeIntervals
<1>10. key'[c] \in Keys
  BY <1>3, <1>8, <1>9 DEF Keys, Windows
<1>11. request'[c] = [start |-> key'[c].start, end |-> key'[c].end]
  BY <1>3, <1>6, <1>8 DEF Windows
<1>12. Asks(c)'
  BY <1>4, <1>8, <1>9, <1>10, <1>11 DEF Asks
<1>13. QED
  BY <1>7, <1>12, OneAsks

LEMMA ReadThroughAsks ==
  ASSUME WholeIntervals, TableInv, WorkInv, Listeners, \A d \in Callers : Asks(d),
         NEW c \in Callers, NEW cfg \in Configs, ReadThrough(c, cfg)
  PROVE  \A d \in Callers : Asks(d)'
<1>1. PICK present \in Presents :
        \E range \in TimeRange(cfg, present) :
          key' = [key EXCEPT ![c] = [interval |-> cfg.interval, start |-> range.start,
                                     end |-> range.end]]
  BY Zenon DEF ReadThrough
<1>2. PICK range \in TimeRange(cfg, present) :
        key' = [key EXCEPT ![c] = [interval |-> cfg.interval, start |-> range.start,
                                   end |-> range.end]]
  BY <1>1
<1>3. range \in Windows
  BY RangesAre
<1>4. /\ stage' = [stage EXCEPT ![c] = "ensuring"]
      /\ config' = [config EXCEPT ![c] = [cfg EXCEPT !.count = 0]]
      /\ answer' = [answer EXCEPT ![c] = NoAnswer] /\ UNCHANGED <<bars, request, pc>>
      /\ result' = [result EXCEPT ![c] = "Ok"] /\ led' = [led EXCEPT ![c] = FALSE]
  BY DEF ReadThrough
<1>5. DOMAIN result = Callers /\ DOMAIN led = Callers
  BY DEF WorkInv
<1>6. NoOther(c)
  BY <1>2, <1>4, <1>5 DEF NoOther
<1>7. cfg \in [interval : Nat, count : Nat, start : Int, end : Int,
               source : {"real", "synthetic"}, max : Nat]
  BY ConfigsAssumption
<1>8. /\ key'[c] = [interval |-> cfg.interval, start |-> range.start, end |-> range.end]
      /\ stage'[c] = "ensuring" /\ config'[c] = [cfg EXCEPT !.count = 0]
      /\ answer'[c] = NoAnswer /\ ~ led'[c]
  BY <1>2, <1>4, <1>5 DEF Listeners
<1>9. config'[c].count = 0 /\ config'[c].interval = cfg.interval
  BY <1>7, <1>8
<1>10. cfg.interval \in Nat /\ cfg.interval % BarLength = 0
  BY <1>7 DEF WholeIntervals
<1>11. key'[c] \in Keys
  BY <1>3, <1>8, <1>10 DEF Keys, Windows
<1>12. Asks(c)'
  BY <1>8, <1>9, <1>11 DEF Asks
<1>13. QED
  BY <1>6, <1>12, OneAsks

LEMMA LookUpAsks ==
  ASSUME Listeners, \A d \in Callers : Asks(d), NEW c \in Callers, LookUp(c)
  PROVE  \A d \in Callers : Asks(d)'
<1>1. UNCHANGED <<led, request, pc, result, key, config>>
  BY DEF LookUp, vars, task
<1>2. CASE Return(c, Answer("Err", << >>, FALSE))
  BY <1>1, <1>2, ReturnAsks DEF Answer
<1>3. ASSUME NEW entry, Return(c, Validated(config[c], entry.bars, TRUE))
      PROVE  \A d \in Callers : Asks(d)'
  <2>1. PICK a : a = Validated(config[c], entry.bars, TRUE)
    OBVIOUS
  <2>2. a.cached = TRUE
    BY <2>1 DEF Validated, Answer
  <2>3. QED
    BY <1>1, <1>3, <2>1, <2>2, ReturnAsks
<1>4. CASE /\ stage' = [stage EXCEPT ![c] = "reading"] /\ UNCHANGED <<bars, answer>>
           /\ Parses(config[c])
  <2>1. NoOther(c) /\ stage'[c] = "reading" /\ answer'[c] = answer[c]
    BY <1>1, <1>4 DEF NoOther, Listeners
  <2>2. stage[c] = "ensuring" /\ pc[c] = "idle" /\ result[c] = "Ok"
    BY DEF LookUp
  <2>3. key[c].interval > 0
    BY <1>4 DEF Parses, Asks
  <2>4. Asks(c)'
    BY <1>1, <2>1, <2>2, <2>3 DEF Asks
  <2>5. QED
    BY <2>1, <2>4, OneAsks
<1>5. QED
  BY <1>2, <1>3, <1>4 DEF LookUp

LEMMA ReadAsks ==
  ASSUME WholePrices, TableInv, WorkInv, adapter = "custom", Listeners, \A d \in Callers : Asks(d),
         NEW c \in Callers, Read(c)
  PROVE  \A d \in Callers : Asks(d)'
<1>1. UNCHANGED <<led, request, pc, result, key, config>> /\ stage[c] = "reading"
  BY DEF Read, vars, task
<1>2. PICK k \in Keys : k = key[c] /\ k.interval > 0
  BY <1>1 DEF Asks
<1>3. PICK many \in Nat : many = config[c].count /\ config[c].interval = k.interval
  BY <1>2 DEF Asks
<1>4. rows \in SUBSET Row /\ IsFiniteSet(rows)
  BY DEF TableInv
<1>5. ASSUME Served(c)
      PROVE  /\ \A raw \in Orders(InRange(rows, k)) : Len(OfInterval(raw, k.interval)) >= many
             /\ Orders(InRange(rows, k)) # {}
  <2>1. led[c] /\ HasEveryBar(k) /\ ~ (k.end - k.start < many * k.interval)
    BY <1>2, <1>3, <1>5 DEF Served
  <2>2. request[c] = [start |-> k.start, end |-> k.end] /\ many > 0
    BY <1>1, <1>2, <1>3, <2>1 DEF Asks
  <2>3. Covered(request[c])
    BY <1>1, <2>1 DEF WorkInv, Work, Asks
  <2>4. k.start \in Int /\ k.end \in Int /\ k.interval \in Nat \ {0} /\ k.interval % BarLength = 0
    BY <1>2 DEF Keys
  <2>5. k.end - k.start >= many * k.interval
    <3>1. PICK len \in Int, d \in Int : len = many * k.interval /\ d = k.end - k.start
      BY <2>4
    <3>2. QED
      BY <2>1, <3>1
  <2>6. \A t \in k.start .. k.end - 1 :
          t % BarLength = 0 => \E row \in rows : row.timestamp = t
    <3>1. SUFFICES ASSUME NEW t \in k.start .. k.end - 1, t % BarLength = 0
                   PROVE  \E row \in rows : row.timestamp = t
      OBVIOUS
    <3>2. t \in Market
      BY <2>1, <3>1 DEF HasEveryBar
    <3>3. request[c].start <= t /\ t < request[c].end
      BY <2>2, <2>4
    <3>4. QED
      BY <2>3, <3>2, <3>3 DEF Covered
  <2>7. QED
    BY <1>4, <2>2, <2>4, <2>5, <2>6, EnoughRead
<1>6. CASE Orders(InRange(rows, key[c])) = {} /\ Return(c, Answer("NotFound", << >>, FALSE))
  <2>1. ~ Served(c)
    BY <1>2, <1>5, <1>6
  <2>2. QED
    BY <1>1, <1>6, <2>1, ReturnAsks
<1>7. CASE Return(c, Answer("Err", << >>, FALSE))
  BY <1>1, <1>7, ReturnAsks DEF Answer
<1>8. ASSUME NEW raw \in Orders(InRange(rows, key[c])),
             bars' = [bars EXCEPT ![c] = OfInterval(raw, key[c].interval)],
             stage' = [stage EXCEPT ![c] = "filling"], UNCHANGED answer
      PROVE  \A d \in Callers : Asks(d)'
  <2>1. PICK seq : seq = OfInterval(raw, k.interval)
    OBVIOUS
  <2>2. NoOther(c) /\ bars'[c] = seq /\ stage'[c] = "filling" /\ answer'[c] = answer[c]
    BY <1>1, <1>2, <1>8, <2>1 DEF NoOther, Listeners
  <2>3. Served(c) => Len(seq) >= many
    BY <1>2, <1>5, <1>8, <2>1
  <2>4. Served(c) => ~ (Len(seq) < many)
    <3>1. PICK table : table = InRange(rows, k)
      OBVIOUS
    <3>2. table \in SUBSET Row /\ IsFiniteSet(table)
      <4>1. table \subseteq rows
        BY <3>1 DEF InRange
      <4>2. QED
        BY <1>4, <4>1, FS_Subset
    <3>3. raw \in Seq(Bar)
      BY <1>2, <1>8, <3>1, <3>2, OrdersAre
    <3>4. k.interval \in Nat \ {0}
      BY <1>2 DEF Keys
    <3>5. seq \in Seq(Bar)
      BY <2>1, <3>3, <3>4, AggregateIs DEF OfInterval
    <3>6. Len(seq) \in Nat
      BY <3>5
    <3>7. QED
      BY <2>3, <3>6
  <2>5. Asks(c)'
    BY <1>1, <1>2, <1>3, <2>2, <2>4 DEF Asks, Served, HasEveryBar
  <2>6. QED
    BY <2>2, <2>5, OneAsks
<1>9. QED
  BY <1>6, <1>7, <1>8, Zenon DEF Read

LEMMA FillAsks ==
  ASSUME Listeners, \A d \in Callers : Asks(d), NEW c \in Callers, Fill(c)
  PROVE  \A d \in Callers : Asks(d)'
<1>1. /\ UNCHANGED <<led, request, pc, result, key, config>> /\ stage[c] = "filling"
      /\ Return(c, Validated(config[c], bars[c], FALSE))
  BY DEF Fill, vars, task
<1>2. PICK a : a = Validated(config[c], bars[c], FALSE)
  OBVIOUS
<1>3. a.kind = IF Len(bars[c]) < config[c].count THEN "NotFound" ELSE "Ok"
  BY <1>2 DEF Validated, Answer
<1>4. a.kind = "NotFound" => ~ Served(c)
  BY <1>1, <1>3 DEF Asks
<1>5. QED
  BY <1>1, <1>2, <1>4, ReturnAsks

LEMMA DropAsks ==
  ASSUME TableInv, WorkInv, Listeners, \A d \in Callers : Asks(d), NEW c \in Callers, DropCall(c)
  PROVE  \A d \in Callers : Asks(d)'
<1>1. /\ stage[c] # "none" /\ stage' = [stage EXCEPT ![c] = "none"]
      /\ bars' = [bars EXCEPT ![c] = << >>]
      /\ UNCHANGED <<key, config, answer, led, request>>
  BY DEF DropCall, Drop, vars, task
<1>2. \A d \in Callers \ {c} : pc'[d] = pc[d] /\ result'[d] = result[d]
  BY DEF DropCall, Drop, vars, task, TableInv, WorkInv
<1>3. NoOther(c)
  BY <1>1, <1>2 DEF NoOther, Listeners
<1>4. Asks(c)'
  <2>1. stage'[c] = "none" /\ answer'[c] = NoAnswer
    BY <1>1 DEF Asks, Listeners
  <2>2. NoAnswer.kind # "NotFound"
    BY DEF NoAnswer, Answer
  <2>3. QED
    BY <1>1, <2>1, <2>2 DEF Asks
<1>5. QED
  BY <1>3, <1>4, OneAsks

LEMMA FetcherAsks ==
  ASSUME TableInv, WorkInv, Listeners, \A d \in Callers : Asks(d),
         NEW c \in Callers, FetcherStep(c)
  PROVE  \A d \in Callers : Asks(d)'
<1>1. UNCHANGED <<stage, key, config, bars, answer>> /\ (Step(c) \/ Fail(c))
  BY DEF FetcherStep
<1>2. DOMAIN pc = Callers /\ DOMAIN result = Callers
  BY DEF TableInv, WorkInv
<1>3. /\ UNCHANGED <<request, led>> /\ pc[c] # "idle"
      /\ \A d \in Callers \ {c} : pc'[d] = pc[d] /\ result'[d] = result[d]
  BY <1>1, <1>2, FetcherKeeps
<1>4. stage[c] \notin {"reading", "filling"}
  BY <1>3 DEF Asks
<1>5. SUFFICES ASSUME NEW d \in Callers PROVE Asks(d)'
  OBVIOUS
<1>6. QED
  BY <1>1, <1>3, <1>4, OthersAsk

LEMMA QuietAsks ==
  ASSUME \A d \in Callers : Asks(d),
         UNCHANGED <<led, request, pc, result, key, config, stage, answer, bars>>
  PROVE  \A d \in Callers : Asks(d)'
BY OthersAsk

LEMMA ListenersStay == Listeners /\ [DataNext]_allVars => Listeners'
<1> SUFFICES ASSUME Listeners, [DataNext]_allVars PROVE Listeners'
  OBVIOUS
<1>1. CASE UNCHANGED allVars
  BY <1>1 DEF Listeners, allVars, dataVars
<1>2. ASSUME NEW c \in Callers, NEW a, Return(c, a), UNCHANGED <<config, key>> PROVE Listeners'
  BY <1>2 DEF Return, Listeners
<1>3. ASSUME NEW c \in Callers, NEW cfg \in Configs, GetAtOnce(c, cfg) PROVE Listeners'
  BY <1>2, <1>3, GetAtOnceReturns DEF GetAtOnce
<1>4. ASSUME NEW c \in Callers, NEW cfg \in Configs, GetBars(c, cfg) \/ ReadThrough(c, cfg)
      PROVE  Listeners'
  <2>1. /\ UNCHANGED bars /\ \E k : key' = [key EXCEPT ![c] = k]
        /\ stage' = [stage EXCEPT ![c] = "ensuring"] /\ answer' = [answer EXCEPT ![c] = NoAnswer]
    BY <1>4, GetBarsStarts
  <2>2. \E x : config' = [config EXCEPT ![c] = x]
    BY <1>4 DEF GetBars, ReadThrough
  <2>3. QED
    BY <2>1, <2>2 DEF Listeners
<1>5. ASSUME NEW c \in Callers, FetcherStep(c) PROVE Listeners'
  BY <1>5 DEF FetcherStep, Listeners
<1>6. ASSUME NEW c \in Callers, EnsureFailed(c) \/ Fill(c) \/ ReadFails(c) PROVE Listeners'
  BY <1>2, <1>6 DEF EnsureFailed, Fill, ReadFails
<1>7. ASSUME NEW c \in Callers, LookUp(c) \/ Read(c) PROVE Listeners'
  <2>1. /\ UNCHANGED <<config, key>>
        /\ \/ \E a : Return(c, a)
           \/ /\ \E x : stage' = [stage EXCEPT ![c] = x]
              /\ bars' = bars \/ \E x : bars' = [bars EXCEPT ![c] = x]
              /\ UNCHANGED answer
    <3>1. CASE LookUp(c)
      BY <3>1 DEF LookUp
    <3>2. CASE Read(c)
      BY <3>2, Zenon DEF Read
    <3>3. QED
      BY <1>7, <3>1, <3>2
  <2>2. QED
    BY <1>2, <2>1 DEF Listeners
<1>8. ASSUME NEW c \in Callers, DropCall(c) PROVE Listeners'
  BY <1>8 DEF DropCall, Listeners
<1>9. CASE Tick \/ Delete \/ Clear
  BY <1>9 DEF Tick, Delete, Clear, Listeners
<1>10. QED
  BY <1>1, <1>3, <1>4, <1>5, <1>6, <1>7, <1>8, <1>9, Zenon DEF DataNext, ProviderStep

LEMMA AskNext ==
  WholePrices /\ WholeIntervals /\ TableInv /\ WorkInv /\ AskInv /\ [DataNext]_allVars => AskInv'
<1> SUFFICES ASSUME WholePrices, WholeIntervals, TableInv, WorkInv, AskInv, [DataNext]_allVars
             PROVE  AskInv'
  OBVIOUS
<1>1. Listeners /\ Listeners'
  BY ListenersStay DEF AskInv
<1>2. adapter' = adapter
  BY DataMoves, BarsOfStep DEF Moves
<1>3. SUFFICES ASSUME adapter = "custom" PROVE \A d \in Callers : Asks(d)'
  BY <1>1, <1>2 DEF AskInv
<1>4. \A d \in Callers : Asks(d)
  BY <1>3 DEF AskInv
<1> DEFINE Goal == \A d \in Callers : Asks(d)'
<1>5. CASE UNCHANGED allVars
  <2>1. UNCHANGED <<led, request, pc, result, key, config, stage, answer, bars>>
    BY <1>5 DEF allVars, dataVars, vars, task
  <2>2. QED
    BY <1>4, <2>1, QuietAsks
<1>6. ASSUME NEW c \in Callers, NEW cfg \in Configs, GetAtOnce(c, cfg) PROVE Goal
  <2>1. UNCHANGED <<led, request, pc, result, key, config>>
    BY <1>6 DEF GetAtOnce, task
  <2>2. PICK kind, seq : Return(c, Answer(kind, seq, FALSE)) /\ kind # "NotFound"
    <3>1. \/ Return(c, Answer("Ok", << >>, FALSE))
          \/ Return(c, Answer("Err", << >>, FALSE))
          \/ \E range : Return(c, Answer("Ok", SyntheticBars(cfg, range), FALSE))
      BY <1>6, Zenon DEF GetAtOnce
    <3>2. "Ok" # "NotFound" /\ "Err" # "NotFound"
      OBVIOUS
    <3>3. QED
      BY <3>1, <3>2, Zenon
  <2>3. Answer(kind, seq, FALSE).kind # "NotFound"
    BY <2>2 DEF Answer
  <2>4. QED
    BY <1>1, <1>4, <2>1, <2>2, <2>3, ReturnAsks
<1>7. ASSUME NEW c \in Callers, EnsureFailed(c) \/ ReadFails(c) PROVE Goal
  <2>1. /\ UNCHANGED <<led, request, pc, result, key, config>>
        /\ \E a : Return(c, a) /\ a.kind = "Err"
    BY <1>7 DEF EnsureFailed, ReadFails, vars, task, Answer
  <2>2. QED
    BY <1>1, <1>4, <2>1, ReturnAsks
<1>8. CASE Tick \/ Delete \/ Clear
  <2>1. UNCHANGED <<led, request, pc, result, key, config, stage, answer, bars>>
    BY <1>8 DEF Tick, Delete, Clear, vars, task
  <2>2. QED
    BY <1>4, <2>1, QuietAsks
<1>9. ASSUME NEW c \in Callers, NEW cfg \in Configs, GetBars(c, cfg) PROVE Goal
  BY <1>1, <1>4, <1>9, GetBarsAsks
<1>10. ASSUME NEW c \in Callers, NEW cfg \in Configs, ReadThrough(c, cfg) PROVE Goal
  BY <1>1, <1>4, <1>10, ReadThroughAsks
<1>11. ASSUME NEW c \in Callers, LookUp(c) PROVE Goal
  BY <1>1, <1>4, <1>11, LookUpAsks
<1>12. ASSUME NEW c \in Callers, Read(c) PROVE Goal
  BY <1>1, <1>3, <1>4, <1>12, ReadAsks
<1>13. ASSUME NEW c \in Callers, Fill(c) PROVE Goal
  BY <1>1, <1>4, <1>13, FillAsks
<1>14. ASSUME NEW c \in Callers, DropCall(c) PROVE Goal
  BY <1>1, <1>4, <1>14, DropAsks
<1>15. ASSUME NEW c \in Callers, FetcherStep(c) PROVE Goal
  BY <1>1, <1>4, <1>15, FetcherAsks
<1> HIDE DEF Goal
<1>16. Goal
  BY <1>5, <1>6, <1>7, <1>8, <1>9, <1>10, <1>11, <1>12, <1>13, <1>14, <1>15, Zenon
     DEF DataNext, ProviderStep, Goal
<1>17. QED
  BY <1>16 DEF Goal

\* calculate_time_range, the gaps, the bounds of the query and the buckets together: with an
\* adapter that knows the unit of the window, a call that did the download, of a range that is
\* long enough for its count and whole at the exchange, is refused only for an older answer in
\* the cache, whatever other calls insert, cache and drop meanwhile.  So it is for timeframes of
\* whole minutes; of 61 seconds, two minutes may lie in one interval.
THEOREM EnoughForItsCount ==
  WholeMinutes /\ WholeIntervals /\ WholePrices =>
    (DataSpec => [](adapter = "custom" => EnoughBars))
<1>1. SUFFICES ASSUME WholeMinutes, WholeIntervals, WholePrices
               PROVE  DataSpec => [](adapter = "custom" => EnoughBars)
  OBVIOUS
<1> DEFINE Inv == TableInv /\ MinuteInv /\ WorkInv /\ AskInv
<1>2. DataInit => Inv
  BY <1>1, TableInit, MinuteInit, WorkInit, AskInit DEF DataInit
<1>3. Inv /\ [DataNext]_allVars => Inv'
  <2>1. SUFFICES ASSUME Inv, [DataNext]_allVars PROVE Inv'
    OBVIOUS
  <2>2. TableInv' /\ WorkInv' /\ AskInv'
    BY <1>1, <2>1, DataTableNext, DataWorkNext, AskNext
  <2>3. MinuteInv'
    BY <1>1, <2>1, DataMoves, MinuteMoves DEF Moves
  <2>4. QED
    BY <2>2, <2>3
<1>4. Inv => (adapter = "custom" => EnoughBars)
  BY DEF AskInv, Asks, Served, EnoughBars
<1> HIDE DEF Inv
<1>5. QED
  BY <1>2, <1>3, <1>4, PTL DEF DataSpec

-----------------------------------------------------------------------------
\* The files of an archive.

\* The rows of one file.
RowsOf(table, path) == {row \in table : PathOf(row) = path}

\* Every row is among them.
LEMMA EveryRow ==
  ASSUME NEW table, IsFiniteSet(table), NEW listed \in ByTime(table)
  PROVE  /\ \A i \in DOMAIN listed : listed[i] \in table
         /\ \A row \in table : \E i \in DOMAIN listed : listed[i] = row
<1>1. PICK n, A : n \in Nat /\ n = Cardinality(table) /\ A = 1 .. n
  BY FS_CardinalityType
<1>2. listed \in [A -> table] /\ \A i, j \in A : listed[i] = listed[j] => i = j
  BY <1>1 DEF ByTime
<1>3. IsFiniteSet(A) /\ Cardinality(A) = n
  BY <1>1, FS_Interval
<1>4. listed \in Injection(A, table)
  BY <1>2, Fun_IsInj
<1>5. listed \in Surjection(A, table)
  BY <1>1, <1>3, <1>4, FS_Injection
<1>6. \A row \in table : \E i \in A : listed[i] = row
  BY <1>5, Fun_SurjectionProperties
<1>7. QED
  BY <1>2, <1>6

\* A selection of listed that are in the order of their timestamps is in that order.
LEMMA OfPathIs ==
  ASSUME NEW table \in SUBSET Row, IsFiniteSet(table), NEW listed \in ByTime(table), NEW path
  PROVE  OfPath(listed, path) \in ByTime(RowsOf(table, path))
<1> DEFINE S == {i \in DOMAIN listed : PathOf(listed[i]) = path}
<1>1. PICK n \in Nat : n = Cardinality(table)
  BY FS_CardinalityType
<1>2. /\ listed \in [1 .. n -> table] /\ DOMAIN listed = 1 .. n
      /\ \A i, j \in 1 .. n : i < j => listed[i] # listed[j] /\ listed[i].timestamp <= listed[j].timestamp
  BY <1>1 DEF ByTime
<1>3. \A row \in table : \E i \in 1 .. n : listed[i] = row
  BY <1>2, EveryRow
<1>4. S \in SUBSET Int /\ IsFiniteSet(S) /\ S \subseteq 1 .. n
  <2>1. S \subseteq 1 .. n /\ S \in SUBSET Int
    BY <1>2
  <2>2. IsFiniteSet(S)
    <3>1. PICK A : A = 1 .. n /\ IsFiniteSet(A)
      BY FS_Interval
    <3>2. QED
      BY <2>1, <3>1, FS_Subset
  <2>3. QED
    BY <2>1, <2>2
<1>5. PICK list : list = Ascending(S)
  OBVIOUS
<1>6. Ascends(list, S)
  BY <1>4, <1>5, AscendingIs
<1>7. PICK len \in Nat : len = Len(list) /\ DOMAIN list = 1 .. len
                         /\ \A k \in 1 .. len : list[k] \in Int /\ list[k] \in S
  BY <1>6, ListedIs
<1>8. PICK seq : seq = OfPath(listed, path)
  OBVIOUS
<1>9. seq = [k \in 1 .. len |-> listed[list[k]]]
  BY <1>5, <1>7, <1>8 DEF OfPath
<1>10. \A k \in 1 .. len : seq[k] = listed[list[k]] /\ list[k] \in 1 .. n /\ seq[k] \in RowsOf(table, path)
  BY <1>2, <1>4, <1>7, <1>9 DEF RowsOf
<1>11. \A i, j \in 1 .. len :
         i < j => seq[i] # seq[j] /\ seq[i].timestamp <= seq[j].timestamp
  <2>1. \A i, j \in 1 .. len : i < j => list[i] < list[j]
    BY <1>6, <1>7 DEF Ascends
  <2>2. QED
    BY <1>2, <1>10, <2>1
<1>12. \A row \in RowsOf(table, path) : \E k \in 1 .. len : seq[k] = row
  <2>1. SUFFICES ASSUME NEW row \in RowsOf(table, path) PROVE \E k \in 1 .. len : seq[k] = row
    OBVIOUS
  <2>2. PICK i \in 1 .. n : listed[i] = row
    BY <1>3 DEF RowsOf
  <2>3. i \in S
    BY <1>2, <2>2 DEF RowsOf
  <2>4. PICK k \in DOMAIN list : list[k] = i
    BY <1>6, <2>3 DEF Ascends
  <2>5. k \in 1 .. len /\ seq[k] = row
    BY <1>7, <1>10, <2>2, <2>4
  <2>6. QED
    BY <2>5
<1>13. Cardinality(RowsOf(table, path)) = len
  <2>1. PICK A, T : A = 1 .. len /\ T = RowsOf(table, path)
    OBVIOUS
  <2>2. IsFiniteSet(A) /\ Cardinality(A) = len
    <3>1. IsFiniteSet(1 .. len) /\ Cardinality(1 .. len) = IF 1 <= len THEN len - 1 + 1 ELSE 0
      BY FS_Interval
    <3>2. (IF 1 <= len THEN len - 1 + 1 ELSE 0) = len
      OBVIOUS
    <3>3. QED
      BY <2>1, <3>1, <3>2
  <2>3. seq \in [A -> T] /\ \A i, j \in A : seq[i] = seq[j] => i = j
    BY <1>9, <1>10, <1>11, <2>1
  <2>4. seq \in Injection(A, T)
    BY <2>3, Fun_IsInj
  <2>5. seq \in Surjection(A, T)
    BY <1>12, <2>1, <2>3, Fun_IsSurj
  <2>6. ExistsBijection(A, T)
    BY <2>4, <2>5 DEF Bijection, ExistsBijection
  <2>7. QED
    BY <2>1, <2>2, <2>6, FS_Bijection
<1>14. seq \in [1 .. len -> RowsOf(table, path)]
  BY <1>9, <1>10
<1>15. seq \in ByTime(RowsOf(table, path))
  BY <1>11, <1>13, <1>14 DEF ByTime
<1>16. QED
  BY <1>8, <1>15

\* The files that are written of a table.
PathsOf(table) == {PathOf(row) : row \in table}

LEMMA GroupedIs ==
  ASSUME NEW table \in SUBSET Row, IsFiniteSet(table), NEW listed \in ByTime(table)
  PROVE  /\ DOMAIN Grouped(listed) = PathsOf(table)
         /\ \A path \in PathsOf(table) :
              \E seq \in ByTime(RowsOf(table, path)) : Grouped(listed)[path] = Columns(seq)
<1> DEFINE G == {PathOf(listed[i]) : i \in DOMAIN listed}
<1>1. Grouped(listed) = [path \in G |-> Columns(OfPath(listed, path))]
  BY DEF Grouped
<1>2. G = PathsOf(table)
  <2>1. /\ \A i \in DOMAIN listed : listed[i] \in table
        /\ \A row \in table : \E i \in DOMAIN listed : listed[i] = row
    BY EveryRow
  <2>2. QED
    BY <2>1 DEF PathsOf
<1> HIDE DEF G
<1>3. QED
  BY <1>1, <1>2, OfPathIs

\* What a file of a table may hold: its rows, in order, or nothing that can be read.
Holds(file, table, path) == \E seq \in ByTime(RowsOf(table, path)) : file = Columns(seq)

IsStopped(w, files, groups) ==
  \E torn \in DOMAIN groups : \E done \in SUBSET (DOMAIN groups \ {torn}) :
    w \in Stopped(files, groups, torn, done)

LEMMA WriteBarsExpanded ==
  ASSUME NEW files, NEW listed, NEW w \in WriteBars(files, listed), NEW groups,
         groups = Grouped(listed)
  PROVE  w = [files |-> Over(groups, files), ok |-> TRUE] \/ IsStopped(w, files, groups)
<1> DEFINE Failed(torn) ==
             UNION {Stopped(files, groups, torn, done) : done \in SUBSET (DOMAIN groups \ {torn})}
<1>1. WriteBars(files, listed) =
        {[files |-> Over(groups, files), ok |-> TRUE]}
          \cup UNION {Failed(torn) : torn \in DOMAIN groups}
  BY DEF WriteBars
<1>2. w = [files |-> Over(groups, files), ok |-> TRUE] \/ \E torn \in DOMAIN groups : w \in Failed(torn)
  <2> HIDE DEF Failed
  <2>1. QED
    BY <1>1
<1>3. QED
  BY <1>2 DEF IsStopped

\* What a write leaves behind: each file as it was, torn, or with its month of the table; torn
\* is one at most.
LEMMA WriteIs ==
  ASSUME NEW table \in SUBSET Row, IsFiniteSet(table), NEW files,
         NEW w \in WriteTable(files, table)
  PROVE  /\ \A path \in DOMAIN w.files :
              \/ path \in PathsOf(table) /\ Holds(w.files[path], table, path)
              \/ path \in DOMAIN files /\ w.files[path] = files[path]
              \/ w.files[path] = Torn
         /\ w.ok => \A path \in PathsOf(table) :
                       path \in DOMAIN w.files /\ Holds(w.files[path], table, path)
         /\ \E torn : \A path \in DOMAIN files \ {torn} :
              /\ path \in DOMAIN w.files
              /\ \/ path \in PathsOf(table) /\ Holds(w.files[path], table, path)
                 \/ w.files[path] = files[path]
<1>1. PICK listed \in ByTime(table) : w \in WriteBars(files, listed)
  BY DEF WriteTable
<1>2. PICK groups : groups = Grouped(listed)
  OBVIOUS
<1>3. DOMAIN groups = PathsOf(table) /\ \A path \in PathsOf(table) : Holds(groups[path], table, path)
  BY <1>2, GroupedIs DEF Holds
<1>4. CASE w = [files |-> Over(groups, files), ok |-> TRUE]
  <2>1. PICK left : left = w.files
    OBVIOUS
  <2>2. left = [path \in PathsOf(table) \cup DOMAIN files |->
                  IF path \in PathsOf(table) THEN groups[path] ELSE files[path]]
    BY <1>3, <1>4, <2>1 DEF Over
  <2>3. /\ DOMAIN left = PathsOf(table) \cup DOMAIN files
        /\ \A path \in PathsOf(table) : Holds(left[path], table, path)
        /\ \A path \in DOMAIN files \ PathsOf(table) : left[path] = files[path]
    BY <1>3, <2>2
  <2>4. QED
    BY <2>1, <2>3
<1>5. ASSUME NEW torn \in DOMAIN groups, NEW done \in SUBSET (DOMAIN groups \ {torn}),
             w \in Stopped(files, groups, torn, done)
      PROVE  /\ ~ w.ok
             /\ \A path \in DOMAIN w.files :
                  \/ path \in PathsOf(table) /\ Holds(w.files[path], table, path)
                  \/ path \in DOMAIN files /\ w.files[path] = files[path]
                  \/ w.files[path] = Torn
             /\ \A path \in DOMAIN files \ {torn} :
                  /\ path \in DOMAIN w.files
                  /\ \/ path \in PathsOf(table) /\ Holds(w.files[path], table, path)
                     \/ w.files[path] = files[path]
  <2>0. PICK first \in {NoFiles, [p \in {torn} |-> Torn]} :
          w = [files |-> Over(first, Over([p \in done |-> groups[p]], files)), ok |-> FALSE]
    BY <1>5 DEF Stopped
  <2>1. PICK left, some : left = w.files /\ some = [path \in done |-> groups[path]]
    OBVIOUS
  <2>2. left = Over(first, Over(some, files)) /\ ~ w.ok
    BY <2>0, <2>1
  <2>3. DOMAIN first \subseteq {torn} /\ \A path \in DOMAIN first : first[path] = Torn
    BY <2>0 DEF NoFiles
  <2>4. DOMAIN some = done /\ \A path \in done : some[path] = groups[path]
    BY <2>1
  <2>5. /\ DOMAIN left = DOMAIN first \cup done \cup DOMAIN files
        /\ \A path \in DOMAIN left :
             left[path] = IF path \in DOMAIN first THEN first[path]
                          ELSE IF path \in done THEN some[path] ELSE files[path]
    BY <2>2, <2>4 DEF Over
  <2>6. \A path \in done : path \in PathsOf(table) /\ Holds(some[path], table, path)
    BY <1>3, <2>4
  <2>7. QED
    BY <2>1, <2>2, <2>3, <2>4, <2>5, <2>6
<1>6. w = [files |-> Over(groups, files), ok |-> TRUE] \/ IsStopped(w, files, groups)
  BY <1>1, <1>2, WriteBarsExpanded
<1>7. CASE IsStopped(w, files, groups)
  <2>1. PICK torn \in DOMAIN groups :
          \E done \in SUBSET (DOMAIN groups \ {torn}) : w \in Stopped(files, groups, torn, done)
    BY <1>7 DEF IsStopped
  <2>2. QED
    BY <1>5, <2>1
<1>8. QED
  BY <1>4, <1>6, <1>7

LEMMA ReadsBack ==
  ASSUME NEW table \in SUBSET Row, IsFiniteSet(table), NEW seq \in ByTime(table),
         NEW files, NEW exchange, NEW month, Path(exchange, month) \in DOMAIN files,
         files[Path(exchange, month)] = Columns(seq)
  PROVE  ReadBars(files, exchange, month).status = "Ok" /\ ReadBars(files, exchange, month).bars = seq
<1>1. PICK n \in Nat : n = Cardinality(table)
  BY FS_CardinalityType
<1>2. seq \in [1 .. n -> table] /\ DOMAIN seq = 1 .. n
  BY <1>1 DEF ByTime
<1>3. PICK file : file = files[Path(exchange, month)] /\ file = Columns(seq)
  OBVIOUS
<1>4. /\ file.whole = TRUE /\ DOMAIN file.timestamp = 1 .. n
      /\ \A i \in 1 .. n : file.timestamp[i] = seq[i].timestamp /\ file.exchange[i] = seq[i].exchange
  BY <1>2, <1>3 DEF Columns
<1>5. PICK back : back = [i \in DOMAIN file.timestamp |->
                            [timestamp |-> file.timestamp[i], exchange |-> file.exchange[i]]]
  OBVIOUS
<1>6. \A i \in 1 .. n : back[i] = seq[i]
  <2>1. \A i \in 1 .. n : back[i] = [timestamp |-> seq[i].timestamp, exchange |-> seq[i].exchange]
    BY <1>4, <1>5
  <2>2. \A i \in 1 .. n : seq[i] \in Row
    BY <1>2
  <2>3. \A row \in Row : row = [timestamp |-> row.timestamp, exchange |-> row.exchange]
    BY DEF Row
  <2>4. QED
    BY <2>1, <2>2, <2>3
<1>7. back = [i \in 1 .. n |-> back[i]] /\ seq = [i \in 1 .. n |-> seq[i]]
  BY <1>2, <1>4, <1>5
<1>8. back = seq
  BY <1>6, <1>7
<1>9. ReadBars(files, exchange, month) = [status |-> "Ok", bars |-> back]
  BY <1>3, <1>4, <1>5 DEF ReadBars
<1>10. QED
  BY <1>8, <1>9

LEMMA ReadsTorn ==
  ASSUME NEW files, NEW exchange, NEW month,
         Path(exchange, month) \in DOMAIN files => files[Path(exchange, month)] = Torn
  PROVE  ReadBars(files, exchange, month).status # "Ok"
<1>1. CASE Path(exchange, month) \notin DOMAIN files
  BY <1>1 DEF ReadBars
<1>2. CASE Path(exchange, month) \in DOMAIN files /\ files[Path(exchange, month)] = Torn
  <2>1. ~ files[Path(exchange, month)].whole
    BY <1>2 DEF Torn
  <2>2. QED
    BY <1>2, <2>1 DEF ReadBars
<1>3. QED
  BY <1>1, <1>2

\* Two writes of a table that grows in between.
LEMMA WritesKept ==
  ASSUME NEW later \in SUBSET Row, IsFiniteSet(later), NEW w \in Writes(later)
  PROVE  FilesAreWrites(later, w) /\ LastWriteIsRead(later, w) /\ OneFileIsLost(w)
<1> DEFINE Lasts(before, first) ==
             {[before |-> before, first |-> first, last |-> last] : last \in WriteTable(first.files, later)}
           Firsts(before) == UNION {Lasts(before, first) : first \in WriteTable(NoFiles, before)}
<1>a. Writes(later) = UNION {Firsts(before) : before \in SUBSET later}
  BY DEF Writes
<1>1. PICK before \in SUBSET later : w \in Firsts(before)
  <2> HIDE DEF Firsts
  <2>1. QED
    BY <1>a
<1>2. PICK first \in WriteTable(NoFiles, before) : w \in Lasts(before, first)
  <2> HIDE DEF Lasts
  <2>1. w \in UNION {Lasts(before, f) : f \in WriteTable(NoFiles, before)}
    BY <1>1
  <2>2. QED
    BY <2>1
<1>3. PICK last \in WriteTable(first.files, later) :
        w = [before |-> before, first |-> first, last |-> last]
  BY <1>2
<1> HIDE DEF Lasts, Firsts
<1>4. w.before = before /\ w.first = first /\ w.last = last
  BY <1>3
<1>5. before \in SUBSET Row /\ IsFiniteSet(before)
  BY FS_Subset
<1>6. PICK old, new : old = first.files /\ new = last.files
  OBVIOUS
<1>7. /\ \A path \in DOMAIN old :
           (path \in PathsOf(before) /\ Holds(old[path], before, path)) \/ old[path] = Torn
      /\ first.ok => \A path \in PathsOf(before) :
                       path \in DOMAIN old /\ Holds(old[path], before, path)
  <2>1. DOMAIN NoFiles = {}
    BY DEF NoFiles
  <2>2. QED
    BY <1>5, <1>6, <2>1, WriteIs
<1>8. /\ \A path \in DOMAIN new :
           \/ path \in PathsOf(later) /\ Holds(new[path], later, path)
           \/ path \in DOMAIN old /\ new[path] = old[path]
           \/ new[path] = Torn
      /\ last.ok => \A path \in PathsOf(later) :
                      path \in DOMAIN new /\ Holds(new[path], later, path)
      /\ \E torn : \A path \in DOMAIN old \ {torn} :
           /\ path \in DOMAIN new
           /\ \/ path \in PathsOf(later) /\ Holds(new[path], later, path)
              \/ new[path] = old[path]
  BY <1>6, WriteIs
<1>9. \A row : /\ Reads(w, row) = ReadBars(new, row.exchange, Month(row.timestamp))
               /\ Path(row.exchange, Month(row.timestamp)) = PathOf(row)
               /\ \A table : OfMonth(table, row) = RowsOf(table, PathOf(row))
  BY <1>4, <1>6 DEF Reads, PathOf, OfMonth, RowsOf, Path
<1>10. ASSUME NEW row, NEW table \in SUBSET later, PathOf(row) \in DOMAIN new,
              Holds(new[PathOf(row)], table, PathOf(row))
       PROVE  Reads(w, row).status = "Ok" /\ Reads(w, row).bars \in ByTime(OfMonth(table, row))
  <2>1. PICK kept : kept = RowsOf(table, PathOf(row))
    OBVIOUS
  <2>2. PICK seq \in ByTime(kept) : new[PathOf(row)] = Columns(seq)
    BY <1>10, <2>1 DEF Holds
  <2>3. kept \in SUBSET Row /\ IsFiniteSet(kept)
    <3>1. kept \subseteq later
      BY <2>1 DEF RowsOf
    <3>2. QED
      BY <3>1, FS_Subset
  <2>4. Reads(w, row).status = "Ok" /\ Reads(w, row).bars = seq
    <3>1. PICK e, m : e = row.exchange /\ m = Month(row.timestamp)
      OBVIOUS
    <3>2. Path(e, m) = PathOf(row) /\ Reads(w, row) = ReadBars(new, e, m)
      BY <1>9, <3>1
    <3>3. QED
      BY <1>10, <2>2, <2>3, <3>2, ReadsBack
  <2>5. QED
    BY <1>9, <2>1, <2>4
<1>11. ASSUME NEW row, PathOf(row) \in DOMAIN new => new[PathOf(row)] = Torn
       PROVE  Reads(w, row).status # "Ok"
  <2>1. PICK e, m : e = row.exchange /\ m = Month(row.timestamp)
    OBVIOUS
  <2>2. Path(e, m) = PathOf(row) /\ Reads(w, row) = ReadBars(new, e, m)
    BY <1>9, <2>1
  <2>3. QED
    BY <1>11, <2>2, ReadsTorn
<1>12. FilesAreWrites(later, w)
  <2>1. SUFFICES ASSUME NEW row \in later, Reads(w, row).status = "Ok"
                 PROVE  Reads(w, row).bars \in ByTime(OfMonth(later, row)) \cup ByTime(OfMonth(before, row))
    BY <1>4 DEF FilesAreWrites
  <2>2. PICK path : path = PathOf(row)
    OBVIOUS
  <2>3. path \in DOMAIN new /\ new[path] # Torn
    BY <1>11, <2>1, <2>2
  <2>4. Holds(new[path], later, path) \/ Holds(new[path], before, path)
    BY <1>7, <1>8, <2>3
  <2>5. later \in SUBSET later /\ before \in SUBSET later
    OBVIOUS
  <2>6. QED
    BY <1>10, <2>2, <2>3, <2>4, <2>5
<1>13. LastWriteIsRead(later, w)
  <2>1. SUFFICES ASSUME last.ok, NEW row \in later
                 PROVE  Reads(w, row).status = "Ok" /\ Reads(w, row).bars \in ByTime(OfMonth(later, row))
    BY <1>4 DEF LastWriteIsRead
  <2>2. PathOf(row) \in PathsOf(later)
    BY DEF PathsOf
  <2>3. later \in SUBSET later
    OBVIOUS
  <2>4. QED
    BY <1>8, <1>10, <2>1, <2>2, <2>3
<1>14. OneFileIsLost(w)
  <2>1. SUFFICES ASSUME first.ok
                 PROVE  Cardinality({PathOf(row) : row \in {r \in before : Reads(w, r).status # "Ok"}}) <= 1
    BY <1>4 DEF OneFileIsLost
  <2>2. PICK torn : \A path \in DOMAIN old \ {torn} :
                      /\ path \in DOMAIN new
                      /\ \/ path \in PathsOf(later) /\ Holds(new[path], later, path)
                         \/ new[path] = old[path]
    BY <1>8
  <2>3. ASSUME NEW row \in before, PathOf(row) # torn PROVE Reads(w, row).status = "Ok"
    <3>1. PICK path : path = PathOf(row) /\ path \in PathsOf(before)
      BY DEF PathsOf
    <3>2. path \in DOMAIN old \ {torn} /\ Holds(old[path], before, path)
      BY <1>7, <2>1, <2>3, <3>1
    <3>3. path \in DOMAIN new /\ (Holds(new[path], later, path) \/ Holds(new[path], before, path))
      BY <2>2, <3>2
    <3>4. later \in SUBSET later /\ before \in SUBSET later
      OBVIOUS
    <3>5. QED
      BY <1>10, <3>1, <3>3, <3>4
  <2>4. PICK lost : lost = {PathOf(row) : row \in {r \in before : Reads(w, r).status # "Ok"}}
    OBVIOUS
  <2>5. lost \subseteq {torn}
    BY <2>3, <2>4
  <2>6. IsFiniteSet({torn}) /\ Cardinality({torn}) = 1
    BY FS_Singleton
  <2>7. Cardinality(lost) <= 1
    BY <2>5, <2>6, FS_Subset
  <2>8. QED
    BY <2>4, <2>7
<1>15. QED
  BY <1>12, <1>13, <1>14

\* ParquetStorage::write_bars of every table the fetcher leaves, once and again when it has
\* grown: each file that can be read is its month as one of the writes found it, complete and
\* in order; a write that returned Ok is all there is to read; one that failed makes at most one
\* file unreadable, wherever it stopped and in whatever order it came to the files.
THEOREM ArchiveAlwaysKeeps == Spec => []ArchiveKeepsTable
<1>1. TableInv => ArchiveKeepsTable
  <2>1. SUFFICES ASSUME TableInv, NEW table \in SpoiltTables, table = rows \cap Table PROVE FALSE
    BY DEF ArchiveKeepsTable
  <2>2. PICK later \in SUBSET Table :
          table \in {later : w \in {v \in Writes(later) : ~ (/\ FilesAreWrites(later, v)
                                                           /\ LastWriteIsRead(later, v)
                                                           /\ OneFileIsLost(v))}}
    BY Zenon DEF SpoiltTables
  <2>3. PICK w \in Writes(later) : table = later /\ ~ (/\ FilesAreWrites(later, w)
                                                      /\ LastWriteIsRead(later, w)
                                                      /\ OneFileIsLost(w))
    BY <2>2
  <2>4. later \in SUBSET Row /\ IsFiniteSet(later)
    BY <2>1, <2>3, FS_Subset DEF TableInv
  <2>5. QED
    BY <2>3, <2>4, WritesKept
<1>2. QED
  BY TableInit, TableNext, <1>1, PTL DEF Spec

=============================================================================
