--------------------------- MODULE ExchangeProofs ---------------------------
(***************************************************************************)
(* Theorems about the paging of fetch_ohlcv: the pages of a call are       *)
(* together what one request without a limit would bring (it implements    *)
(* OneStepFetch), and only a call for a range that reaches into its own    *)
(* present brings a bar that is not whole.                                 *)
(*                                                                         *)
(* The invariant says of a call between two pages that its bars are, in    *)
(* order and each once, those of the range that open before the start of   *)
(* the next page.  It needs the facts about ordered lists of FoldTheorems, *)
(* since a page is the first few of the open bars in their order.          *)
(*                                                                         *)
(* The names: a mark is no letter of a token, so that a name is split      *)
(* where it was joined; without one it is parsed at the quote it was made  *)
(* with, since a longer one at its end would end with that quote.          *)
(***************************************************************************)
EXTENDS Exchange, FoldTheorems, SequenceTheorems

-----------------------------------------------------------------------------
\* Pages.

Bars == [timestamp : Int, whole : BOOLEAN]
Times(bars) == [i \in DOMAIN bars |-> bars[i].timestamp]

\* The bars of the request that a page may have, and those the pages before it have had.
Open(c) == {t \in Opens : /\ t <= now /\ current[c] <= Millis * t
                          /\ t <= request[c].range.end}
Due(c) == {t \in Opens : /\ request[c].range.start <= t
                         /\ Millis * t < current[c]}

\* A request for bars between two pages.
BarsInFlight(c) ==
  /\ request[c].range \in Ranges /\ request[c].range.start < request[c].range.end
  /\ current[c] \in Int /\ Millis * request[c].range.start <= current[c]
  /\ Ascends(Times(all_bars[c]), Due(c))
  /\ \A t \in Due(c) : t <= now /\ t <= request[c].range.end

LEMMA Lengths == Limit \in Nat /\ Limit >= 1 /\ BarLength \in Nat /\ Millis \in Nat /\ Millis > 1
<1>1. Limit \in Nat \ {0} /\ BarLength \in Nat \ {0} /\ Millis \in Nat \ {0, 1}
  BY ExchangeAssumption
<1>2. QED
  BY <1>1

LEMMA BarsAre ==
  ASSUME NEW bars \in Seq(Bars)
  PROVE  /\ Times(bars) \in Seq(Int) /\ Len(Times(bars)) = Len(bars)
         /\ DOMAIN bars = 1 .. Len(bars) /\ Len(bars) \in Nat
         /\ DOMAIN Times(bars) = DOMAIN bars
         /\ \A i \in DOMAIN bars : Times(bars)[i] = bars[i].timestamp /\ bars[i] \in Bars
<1>1. /\ DOMAIN bars = 1 .. Len(bars) /\ Len(bars) \in Nat
      /\ \A i \in DOMAIN bars : bars[i] \in Bars
  OBVIOUS
<1>2. \A i \in DOMAIN bars : bars[i].timestamp \in Int
  BY <1>1 DEF Bars
<1>3. Times(bars) = [i \in 1 .. Len(bars) |-> bars[i].timestamp]
  BY <1>1 DEF Times
<1>4. QED
  BY <1>1, <1>2, <1>3

LEMMA NoTimes == Times(<< >>) = << >>
BY DEF Times

LEMMA TimesJoined ==
  ASSUME NEW a \in Seq(Bars), NEW b \in Seq(Bars)
  PROVE  a \o b \in Seq(Bars) /\ Times(a \o b) = Times(a) \o Times(b)
<1>1. PICK all : all = a \o b
  OBVIOUS
<1>2. /\ all \in Seq(Bars) /\ Len(all) = Len(a) + Len(b)
      /\ \A i \in 1 .. Len(a) + Len(b) : all[i] = IF i <= Len(a) THEN a[i] ELSE b[i - Len(a)]
      /\ DOMAIN all = 1 .. Len(a) + Len(b)
  BY <1>1, ConcatProperties
<1>3. PICK s \in Seq(Int), t \in Seq(Int), u \in Seq(Int) :
        s = Times(a) /\ t = Times(b) /\ u = Times(all)
  BY <1>2, BarsAre
<1>4. /\ Len(s) = Len(a) /\ Len(t) = Len(b) /\ Len(u) = Len(a) + Len(b)
      /\ Len(a) \in Nat /\ Len(b) \in Nat
      /\ \A i \in 1 .. Len(a) : s[i] = a[i].timestamp
      /\ \A i \in 1 .. Len(b) : t[i] = b[i].timestamp
      /\ \A i \in 1 .. Len(a) + Len(b) : u[i] = all[i].timestamp
  BY <1>2, <1>3, BarsAre
<1>5. PICK st : st = s \o t
  OBVIOUS
<1>6. /\ st \in Seq(Int) /\ Len(st) = Len(u)
      /\ \A i \in 1 .. Len(u) : st[i] = IF i <= Len(a) THEN s[i] ELSE t[i - Len(a)]
  <2>1. /\ st \in Seq(Int) /\ Len(st) = Len(s) + Len(t)
        /\ \A i \in 1 .. Len(s) + Len(t) : st[i] = IF i <= Len(s) THEN s[i] ELSE t[i - Len(s)]
    BY <1>5, ConcatProperties
  <2>2. QED
    BY <1>4, <2>1, Zenon
<1>7. \A i \in 1 .. Len(u) : st[i] = u[i]
  <2>1. SUFFICES ASSUME NEW i \in 1 .. Len(u) PROVE st[i] = u[i]
    OBVIOUS
  <2>2. CASE i <= Len(a)
    <3>1. i \in 1 .. Len(a)
      BY <1>4, <2>2
    <3>2. QED
      BY <1>2, <1>4, <1>6, <2>2, <3>1
  <2>3. CASE ~ (i <= Len(a))
    <3>1. i - Len(a) \in 1 .. Len(b)
      BY <1>4, <2>3
    <3>2. QED
      BY <1>2, <1>4, <1>6, <2>3, <3>1
  <2>4. QED
    BY <2>2, <2>3
<1>8. st = [i \in 1 .. Len(st) |-> st[i]] /\ u = [i \in 1 .. Len(u) |-> u[i]]
  BY <1>6
<1>9. st = u
  BY <1>6, <1>7, <1>8
<1>10. QED
  BY <1>1, <1>2, <1>3, <1>5, <1>9

LEMMA OpenIs ==
  ASSUME NEW c \in Tasks, now \in Nat, BarsInFlight(c)
  PROVE  /\ Open(c) \in SUBSET Int /\ IsFiniteSet(Open(c))
         /\ \A t \in Open(c) : request[c].range.start <= t
<1>1. PICK start \in Int, end \in Int, cur \in Int, m \in Nat, k \in Nat :
        /\ start = request[c].range.start /\ end = request[c].range.end
        /\ cur = current[c] /\ m = Millis /\ k = now
  BY ExchangeAssumption DEF BarsInFlight
<1>2. m > 0 /\ Opens \subseteq Int
  BY <1>1, ExchangeAssumption
<1>3. ASSUME NEW t \in Open(c) PROVE t \in Int /\ start <= t /\ t <= k
  <2>1. t \in Int /\ t <= k /\ cur <= m * t
    BY <1>1, <1>2 DEF Open
  <2>2. m * start <= cur
    BY <1>1 DEF BarsInFlight
  <2>3. m * start <= m * t
    <3>1. m * t \in Int /\ m * start \in Int
      BY <2>1
    <3>2. QED
      BY <2>1, <2>2, <3>1
  <2>4. start <= t
    BY <1>2, <2>1, <2>3, Z3
  <2>5. QED
    BY <2>1, <2>4
<1>4. Open(c) \subseteq start .. k
  BY <1>3
<1>5. IsFiniteSet(start .. k)
  BY FS_Interval
<1>6. QED
  BY <1>1, <1>3, <1>4, <1>5, FS_Subset

\* A page of open bars has the oldest of them.
LEMMA PageIs ==
  ASSUME NEW c \in Tasks, now \in Nat, BarsInFlight(c)
  PROVE  /\ Page(c) \in Seq(Int)
         /\ Open(c) = {} => Page(c) = << >>
         /\ Open(c) # {} => /\ Page(c) # << >> /\ Last(Page(c)) \in Open(c)
                            /\ Ascends(Page(c), {t \in Open(c) : t <= Last(Page(c))})
<1>1. PICK open \in SUBSET Int : open = Open(c) /\ IsFiniteSet(open)
  BY OpenIs
<1>2. PICK sorted : sorted = Ascending(open) /\ Ascends(sorted, open)
  BY <1>1, AscendingIs
<1>3. PICK n : n = Min({Limit, Len(sorted)})
  OBVIOUS
<1>4. PICK page : page = SubSeq(sorted, 1, n)
  OBVIOUS
<1>5. page = Page(c)
  BY <1>1, <1>2, <1>3, <1>4, Zenon DEF Page, Open
<1>6. /\ sorted \in Seq(Int) /\ Len(sorted) \in Nat /\ DOMAIN sorted = 1 .. Len(sorted)
      /\ open = {} <=> sorted = << >>
      /\ \A i \in DOMAIN sorted : sorted[i] \in open
  BY <1>2, ListedIs DEF Ascends
<1>7. n \in Nat /\ n <= Len(sorted) /\ (n = Len(sorted) \/ n >= 1)
  <2>1. PICK a \in Nat, b \in Nat : a = Limit /\ b = Len(sorted) /\ a >= 1
    BY <1>6, Lengths
  <2>2. \E x \in {a, b} : \A y \in {a, b} : x <= y
    BY <2>1
  <2>3. n \in {a, b} /\ n <= b
    BY <1>3, <2>1, <2>2 DEF Min
  <2>4. QED
    BY <2>1, <2>3
<1>8. CASE open = {}
  <2>1. sorted = << >> /\ n = 0
    BY <1>6, <1>7, <1>8
  <2>2. page = << >>
    BY <1>4, <2>1
  <2>3. QED
    BY <1>1, <1>5, <1>8, <2>2
<1>9. CASE open # {}
  <2>1. n \in 1 .. Len(sorted)
    <3>1. PICK x \in open : TRUE
      BY <1>9
    <3>2. PICK i \in DOMAIN sorted : sorted[i] = x
      BY <1>2, <3>1 DEF Ascends
    <3>3. PICK len \in Nat : len = Len(sorted) /\ DOMAIN sorted = 1 .. len
      BY <1>6
    <3>4. i \in 1 .. len /\ n \in Nat /\ n <= len /\ (n = len \/ n >= 1)
      BY <1>7, <3>2, <3>3, Zenon
    <3>5. n \in 1 .. len
      BY <3>4
    <3>6. QED
      BY <3>3, <3>5
  <2>2. Ascends(page, {t \in open : t <= sorted[n]}) /\ Len(page) = n /\ page[n] = sorted[n]
    BY <1>2, <1>4, <2>1, FirstOfList
  <2>3. Last(page) = sorted[n] /\ sorted[n] \in open /\ page # << >>
    BY <1>6, <2>1, <2>2 DEF Last
  <2>4. page \in Seq(Int) /\ Ascends(page, {t \in open : t <= Last(page)})
    BY <2>2, <2>3 DEF Ascends
  <2>5. QED
    BY <1>1, <1>5, <1>9, <2>3, <2>4
<1>10. QED
  BY <1>8, <1>9

LEMMA ParsedIs ==
  ASSUME NEW times \in Seq(Int), now \in Nat
  PROVE  /\ Parsed(times) \in Seq(Bars) /\ Times(Parsed(times)) = times
         /\ (Parsed(times) = << >> <=> times = << >>)
         /\ times # << >> => Last(Parsed(times)).timestamp = Last(times)
         /\ \A i \in DOMAIN Parsed(times) :
              /\ i \in DOMAIN times /\ Parsed(times)[i].timestamp = times[i]
              /\ ~ Parsed(times)[i].whole => now < times[i] + BarLength
<1>1. PICK n \in Nat : n = Len(times) /\ DOMAIN times = 1 .. n
  OBVIOUS
<1>2. \A i \in 1 .. n : times[i] \in Int
  BY <1>1
<1>3. PICK bars : bars = Parsed(times)
  OBVIOUS
<1>4. bars = [i \in 1 .. n |-> [timestamp |-> times[i], whole |-> times[i] + BarLength <= now]]
  BY <1>1, <1>3 DEF Parsed
<1>5. \A i \in 1 .. n : /\ bars[i].timestamp = times[i]
                        /\ bars[i].whole = (times[i] + BarLength <= now)
                        /\ bars[i] \in Bars
  BY <1>2, <1>4 DEF Bars
<1>6. bars \in Seq(Bars) /\ Len(bars) = n /\ DOMAIN bars = 1 .. n
  BY <1>4, <1>5
<1>7. Times(bars) = times
  <2>1. Times(bars) = [i \in 1 .. n |-> times[i]]
    BY <1>5, <1>6 DEF Times
  <2>2. times = [i \in 1 .. n |-> times[i]]
    BY <1>1
  <2>3. QED
    BY <2>1, <2>2
<1>8. bars = << >> <=> times = << >>
  BY <1>1, <1>6
<1>9. times # << >> => Last(bars).timestamp = Last(times)
  <2>1. times # << >> => n \in 1 .. n
    BY <1>1
  <2>2. QED
    BY <1>1, <1>5, <1>6, <2>1 DEF Last
<1>10. \A i \in 1 .. n : ~ bars[i].whole => now < times[i] + BarLength
  <2>1. SUFFICES ASSUME NEW i \in 1 .. n, ~ bars[i].whole PROVE now < times[i] + BarLength
    OBVIOUS
  <2>2. ~ (times[i] + BarLength <= now)
    BY <1>5, <2>1
  <2>3. times[i] + BarLength \in Int
    BY <1>2, Lengths
  <2>4. QED
    BY <2>2, <2>3
<1>11. QED
  BY <1>1, <1>3, <1>5, <1>6, <1>7, <1>8, <1>9, <1>10

\* What one request without a limit would bring.
InRange(c) == {t \in Opens : /\ request[c].range.start <= t
                             /\ t <= request[c].range.end /\ t <= now}

\* The bars that opened before a page that starts at ms.
DueBefore(c, ms) == {t \in Opens : request[c].range.start <= t /\ Millis * t < ms}

LEMMA ProductsOrdered ==
  ASSUME NEW m \in Nat, m > 0, NEW a \in Int, NEW b \in Int
  PROVE  /\ m * a \in Int /\ m * b \in Int
         /\ m * a < m * b <=> a < b
         /\ m * a <= m * b <=> a <= b
         /\ a < b => m * a + m <= m * b
<1>1. m * a \in Int /\ m * b \in Int
  OBVIOUS
<1>2. a < b => m * a + m <= m * b
  <2>1. SUFFICES ASSUME a < b PROVE m * a + m <= m * b
    OBVIOUS
  <2>2. PICK d \in Nat : b = (a + 1) + d
    <3>1. b - (a + 1) \in Nat /\ b = (a + 1) + (b - (a + 1))
      BY <2>1
    <3>2. QED
      BY <3>1
  <2>3. m * b = ((m * a) + m) + (m * d)
    BY <2>2, Z3
  <2>4. m * d \in Nat
    BY Z3
  <2>5. QED
    BY <1>1, <2>3, <2>4
<1>3. b < a => m * b + m <= m * a
  <2>1. SUFFICES ASSUME b < a PROVE m * b + m <= m * a
    OBVIOUS
  <2>2. PICK d \in Nat : a = (b + 1) + d
    <3>1. a - (b + 1) \in Nat /\ a = (b + 1) + (a - (b + 1))
      BY <2>1
    <3>2. QED
      BY <3>1
  <2>3. m * a = ((m * b) + m) + (m * d)
    BY <2>2, Z3
  <2>4. m * d \in Nat
    BY Z3
  <2>5. QED
    BY <1>1, <2>3, <2>4
<1>4. a < b \/ a = b \/ b < a
  OBVIOUS
<1>5. PICK x \in Int, y \in Int : x = m * a /\ y = m * b
  BY <1>1
<1>6. QED
  BY <1>2, <1>3, <1>4, <1>5

LEMMA Products == \A a, b \in Int : /\ Millis * a \in Int
                                    /\ Millis * a < Millis * b <=> a < b
                                    /\ Millis * a <= Millis * b <=> a <= b
                                    /\ a < b => Millis * a + Millis <= Millis * b
BY Lengths, ProductsOrdered

\* The bars of the pages so far and of this one.
LEMMA PageFollows ==
  ASSUME NEW c \in Tasks, now \in Nat, BarsInFlight(c), all_bars[c] \in Seq(Bars)
  PROVE  /\ FetchPage(c) \in Seq(Bars) /\ all_bars[c] \o FetchPage(c) \in Seq(Bars)
         /\ Open(c) = {} => /\ FetchPage(c) = << >>
                            /\ Ascends(Times(all_bars[c] \o FetchPage(c)), Due(c))
         /\ Open(c) # {} => /\ FetchPage(c) # << >>
                            /\ Last(FetchPage(c)).timestamp \in Open(c)
                            /\ Ascends(Times(all_bars[c] \o FetchPage(c)),
                                     DueBefore(c, NextStart(Last(FetchPage(c)).timestamp)))
<1>1. PICK page \in Seq(Int) : page = Page(c)
  BY PageIs
<1>2. PICK bars \in Seq(Bars) : bars = FetchPage(c) /\ bars = Parsed(page)
  BY <1>1, ParsedIs DEF FetchPage
<1>3. /\ Times(bars) = page /\ (bars = << >> <=> page = << >>)
      /\ page # << >> => Last(bars).timestamp = Last(page)
  BY <1>2, ParsedIs
<1>4. PICK all \in Seq(Bars) : all = all_bars[c] \o bars /\ Times(all) = Times(all_bars[c]) \o page
  BY <1>3, TimesJoined
<1>5. Ascends(Times(all_bars[c]), Due(c))
  BY DEF BarsInFlight
<1>6. CASE Open(c) = {}
  <2>1. page = << >> /\ bars = << >>
    BY <1>1, <1>3, <1>6, PageIs
  <2>2. Times(all_bars[c]) \in Seq(Int)
    BY <1>5 DEF Ascends
  <2>3. Times(all) = Times(all_bars[c])
    <3>1. PICK times \in Seq(Int) : times = Times(all_bars[c])
      BY <2>2
    <3>2. times \o << >> = times
      BY <3>1
    <3>3. QED
      BY <1>4, <2>1, <3>1, <3>2
  <2>4. QED
    BY <1>2, <1>4, <1>5, <1>6, <2>1, <2>3
<1>7. CASE Open(c) # {}
  <2>1. PICK last : last = Last(page)
    OBVIOUS
  <2>2. /\ page # << >> /\ last \in Open(c)
        /\ Ascends(page, {t \in Open(c) : t <= last})
    BY <1>1, <1>7, <2>1, PageIs
  <2>3. Opens \subseteq Int /\ current[c] \in Int /\ Open(c) \subseteq Opens /\ Due(c) \subseteq Opens
    BY ExchangeAssumption DEF BarsInFlight, Open, Due
  <2>4. \A x \in Due(c), y \in {t \in Open(c) : t <= last} : x < y
    <3>1. SUFFICES ASSUME NEW x \in Due(c), NEW y \in Open(c) PROVE x < y
      OBVIOUS
    <3>2. x \in Int /\ y \in Int /\ Millis * x < current[c] /\ current[c] <= Millis * y
      BY <2>3 DEF Due, Open
    <3>3. Millis * x < Millis * y
      <4>1. PICK a \in Int, b \in Int, cur \in Int :
              a = Millis * x /\ b = Millis * y /\ cur = current[c]
        BY <2>3, <3>2, Products
      <4>2. a < cur /\ cur <= b
        BY <3>2, <4>1
      <4>3. a < b
        BY <4>2
      <4>4. QED
        BY <4>1, <4>3
    <3>4. QED
      BY <3>2, <3>3, Products
  <2>5. Ascends(Times(all), Due(c) \cup {t \in Open(c) : t <= last})
    <3>1. PICK times : times = Times(all_bars[c])
      OBVIOUS
    <3>2. PICK ready : ready = {t \in Open(c) : t <= last}
      OBVIOUS
    <3>3. Ascends(times \o page, Due(c) \cup ready)
      BY <1>5, <2>2, <2>4, <3>1, <3>2, JoinedLists
    <3>4. QED
      BY <1>4, <3>1, <3>2, <3>3
  <2>6. Due(c) \cup {t \in Open(c) : t <= last} = DueBefore(c, NextStart(last))
    <3>1. /\ last \in Int /\ last <= now /\ current[c] <= Millis * last
          /\ last <= request[c].range.end /\ Millis * last \in Int
          /\ request[c].range \in Ranges
      BY <2>2, <2>3, Products DEF Open, BarsInFlight
    <3>2. request[c].range.end \in Int
      BY <3>1, ExchangeAssumption
    <3>3. NextStart(last) = (Millis * last) + 1
      BY DEF NextStart
    <3>4. ASSUME NEW t PROVE t \in Due(c) \cup {s \in Open(c) : s <= last}
                             <=> t \in DueBefore(c, NextStart(last))
      <4>1. CASE t \in Due(c)
        <5>1. t \in Opens /\ request[c].range.start <= t /\ Millis * t < current[c] /\ t \in Int
          BY <2>3, <4>1 DEF Due
        <5>2. Millis * t < (Millis * last) + 1
          <6>1. PICK a \in Int, b \in Int, cur \in Int :
                  a = Millis * t /\ b = Millis * last /\ cur = current[c]
            BY <2>3, <3>1, <5>1, Products
          <6>2. a < cur /\ cur <= b
            BY <3>1, <5>1, <6>1
          <6>3. a < b + 1
            BY <6>2
          <6>4. QED
            BY <6>1, <6>3
        <5>3. QED
          BY <3>3, <4>1, <5>1, <5>2 DEF DueBefore
      <4>2. CASE t \in Open(c) /\ t <= last
        <5>1. t \in Int /\ t \in Opens /\ request[c].range.start <= t
          BY <2>3, <4>2, OpenIs
        <5>2. Millis * t <= Millis * last
          BY <3>1, <4>2, <5>1, Products
        <5>3. Millis * t < (Millis * last) + 1
          BY <3>1, <5>1, <5>2, Products
        <5>4. QED
          BY <3>3, <4>2, <5>1, <5>3 DEF DueBefore
      <4>3. ASSUME t \in DueBefore(c, NextStart(last)), t \notin Due(c)
            PROVE  t \in Open(c) /\ t <= last
        <5>1. /\ t \in Opens /\ t \in Int /\ request[c].range.start <= t
              /\ Millis * t < (Millis * last) + 1 /\ Millis * t \in Int
          BY <2>3, <3>3, <4>3, Products DEF DueBefore
        <5>2. Millis * t <= Millis * last
          BY <3>1, <5>1
        <5>3. t <= last
          BY <3>1, <5>1, <5>2, Products
        <5>4. ~ (Millis * t < current[c])
          BY <4>3, <5>1 DEF Due
        <5>5. current[c] <= Millis * t /\ t <= now /\ t <= request[c].range.end
          BY <2>3, <3>1, <3>2, <5>1, <5>3, <5>4
        <5>6. QED
          BY <5>1, <5>3, <5>5 DEF Open
      <4>4. QED
        BY <4>1, <4>2, <4>3
    <3>5. QED
      BY <3>4
  <2>7. QED
    BY <1>2, <1>3, <1>4, <1>7, <2>1, <2>2, <2>5, <2>6
<1>8. QED
  BY <1>2, <1>4, <1>6, <1>7

\* The last page: nothing is missing of the range.
LEMMA LastPage ==
  ASSUME NEW c \in Tasks, now \in Nat, BarsInFlight(c), all_bars[c] \in Seq(Bars),
         ~ MorePages(c, FetchPage(c))
  PROVE  Times(all_bars[c] \o FetchPage(c)) = Ascending(InRange(c))
<1>1. PICK all : all = Times(all_bars[c] \o FetchPage(c))
  OBVIOUS
<1>2. PICK start \in Int, end \in Int :
        /\ start = request[c].range.start /\ end = request[c].range.end
        /\ current[c] \in Int /\ Opens \subseteq Int
        /\ \A t \in Due(c) : t <= now /\ t <= end
  BY ExchangeAssumption DEF BarsInFlight
<1>3. ASSUME Open(c) = {} PROVE Ascends(all, InRange(c))
  <2>1. Ascends(all, Due(c))
    BY <1>1, <1>3, PageFollows
  <2>2. ASSUME NEW t PROVE t \in Due(c) <=> t \in InRange(c)
    <3>1. t \in Due(c) => t \in InRange(c)
      BY <1>2 DEF Due, InRange
    <3>2. ASSUME t \in InRange(c) PROVE t \in Due(c)
      <4>1. /\ t \in Opens /\ t \in Int /\ start <= t /\ t <= end /\ t <= now
            /\ Millis * t \in Int
        BY <1>2, <3>2, Products DEF InRange
      <4>2. ~ (current[c] <= Millis * t)
        BY <1>2, <1>3, <4>1 DEF Open
      <4>3. QED
        BY <1>2, <4>1, <4>2 DEF Due
    <3>3. QED
      BY <3>1, <3>2
  <2>3. Due(c) = InRange(c)
    BY <2>2
  <2>4. QED
    BY <2>1, <2>3
<1>4. ASSUME Open(c) # {} PROVE Ascends(all, InRange(c))
  <2>1. PICK last : last = Last(FetchPage(c)).timestamp
    OBVIOUS
  <2>2. /\ FetchPage(c) # << >> /\ last \in Open(c)
        /\ Ascends(all, DueBefore(c, NextStart(last)))
    BY <1>1, <1>4, <2>1, PageFollows
  <2>3. ~ (NextStart(last) < Millis * end)
    BY <1>2, <2>1, <2>2 DEF MorePages
  <2>4. /\ last \in Int /\ last <= now /\ last <= end /\ current[c] <= Millis * last
        /\ Millis * last \in Int /\ Millis * end \in Int /\ NextStart(last) = (Millis * last) + 1
    BY <1>2, <2>2, Products DEF Open, NextStart
  <2>5. last = end
    <3>1. PICK a \in Int, b \in Int, m \in Int : a = Millis * last /\ b = Millis * end /\ m = Millis
      BY <2>4, Lengths
    <3>2. last < end => a + m <= b
      BY <1>2, <2>4, <3>1, Products
    <3>3. ~ (a + 1 < b) /\ m > 1
      BY <2>3, <2>4, <3>1, Lengths
    <3>4. ~ (last < end)
      BY <3>2, <3>3
    <3>5. QED
      BY <1>2, <2>4, <3>4
  <2>6. ASSUME NEW t PROVE t \in DueBefore(c, NextStart(last)) <=> t \in InRange(c)
    <3>1. ASSUME t \in Opens
          PROVE  Millis * t < NextStart(last) <=> t <= end /\ t <= now
      <4>1. t \in Int /\ Millis * t \in Int
        BY <1>2, <3>1, Products
      <4>2. Millis * t < NextStart(last) <=> Millis * t <= Millis * last
        BY <2>4, <4>1
      <4>3. Millis * t <= Millis * last <=> t <= last
        BY <2>4, <4>1, Products
      <4>4. QED
        BY <2>4, <2>5, <4>1, <4>2, <4>3
    <3>2. QED
      BY <1>2, <3>1 DEF DueBefore, InRange
  <2>7. DueBefore(c, NextStart(last)) = InRange(c)
    BY <2>6
  <2>8. QED
    BY <2>2, <2>7
<1>5. Ascends(all, InRange(c))
  BY <1>3, <1>4
<1>6. Ascends(Ascending(InRange(c)), InRange(c))
  <2>1. InRange(c) \in SUBSET Int /\ InRange(c) \subseteq start .. end
    <3>1. SUFFICES ASSUME NEW t \in InRange(c) PROVE t \in Int /\ t \in start .. end
      OBVIOUS
    <3>2. t \in Opens /\ start <= t /\ t <= end
      BY <1>2 DEF InRange
    <3>3. t \in Int
      BY <1>2, <3>2
    <3>4. QED
      BY <3>2, <3>3
  <2>2. IsFiniteSet(start .. end)
    BY FS_Interval
  <2>3. QED
    BY <2>1, <2>2, FS_Subset, AscendingIs
<1>7. QED
  BY <1>1, <1>5, <1>6, OneList

-----------------------------------------------------------------------------
\* The invariant of the calls.

\* f is a function of the tasks.
Each(f) == f = [c \in Tasks |-> f[c]]

\* A call between two steps.
CallInv(c) ==
  /\ all_bars[c] \in Seq(Bars)
  /\ at[c] = "idle" => request[c] = NoRequest
  /\ \/ /\ request[c].kind \in {"none", "symbols"} /\ request[c].range = NoRange
        /\ all_bars[c] = << >>
     \/ /\ request[c].kind = "bars" /\ BarsInFlight(c)
        /\ since[c].end = request[c].range.end
  /\ since[c].now \in Int /\ since[c].now <= now

PageInv ==
  /\ now \in Nat
  /\ Each(at) /\ Each(request) /\ Each(current) /\ Each(all_bars) /\ Each(answer) /\ Each(since)
  /\ \A c \in Tasks : CallInv(c)

\* Of the bars of an answer, or of the pages so far, WholeUnlessRecent holds.
WholeOf(bars, c) ==
  \A i \in DOMAIN bars : ~bars[i].whole => since[c].now < since[c].end + BarLength
WholeBars(c) == WholeOf(answer[c].bars, c) /\ WholeOf(all_bars[c], c)

\* Nothing changes for the task.
Same(c) ==
  /\ at'[c] = at[c] /\ request'[c] = request[c] /\ current'[c] = current[c]
  /\ all_bars'[c] = all_bars[c] /\ answer'[c] = answer[c] /\ since'[c] = since[c]

\* ... but for c at most.
Only(c) ==
  /\ Each(at') /\ Each(request') /\ Each(current')
  /\ Each(all_bars') /\ Each(answer') /\ Each(since')
  /\ \A d \in Tasks : d # c => Same(d)

\* g is f but for the value v at c.
SetAt(g, f, c, v) == Each(g) /\ g[c] = v /\ \A d \in Tasks : d # c => g[d] = f[d]

LEMMA EachExcept ==
  ASSUME NEW f, Each(f), NEW c \in Tasks, NEW v, NEW g, g = [f EXCEPT ![c] = v]
  PROVE  SetAt(g, f, c, v)
<1>1. DOMAIN f = Tasks
  BY DEF Each
<1>2. g = [d \in Tasks |-> IF d = c THEN v ELSE f[d]]
  BY <1>1
<1>3. QED
  BY <1>2 DEF Each, SetAt

\* A call that returns.
LEMMA ReturnDoes ==
  ASSUME PageInv, NEW c \in Tasks, NEW a, Return(c, a),
         Each(since'), \A d \in Tasks : d # c => since'[d] = since[d]
  PROVE  /\ Only(c)
         /\ at'[c] = "idle" /\ request'[c] = NoRequest /\ all_bars'[c] = << >> /\ answer'[c] = a
<1>1. /\ Each(at) /\ Each(request) /\ Each(current) /\ Each(all_bars) /\ Each(answer)
  BY DEF PageInv
<1>2. /\ answer' = [answer EXCEPT ![c] = a] /\ at' = [at EXCEPT ![c] = "idle"]
      /\ request' = [request EXCEPT ![c] = NoRequest]
      /\ current' = [current EXCEPT ![c] = 0] /\ all_bars' = [all_bars EXCEPT ![c] = << >>]
  BY DEF Return
<1>3. SetAt(answer', answer, c, a)
  BY <1>1, <1>2, EachExcept
<1>4. SetAt(at', at, c, "idle")
  BY <1>1, <1>2, EachExcept
<1>5. SetAt(request', request, c, NoRequest)
  BY <1>1, <1>2, EachExcept
<1>6. SetAt(current', current, c, 0)
  BY <1>1, <1>2, EachExcept
<1>7. SetAt(all_bars', all_bars, c, << >>)
  BY <1>1, <1>2, EachExcept
<1>8. QED
  BY <1>3, <1>4, <1>5, <1>6, <1>7, Zenon DEF Only, Same, SetAt

\* A call that is to send its first request.
LEMMA BeginDoes ==
  ASSUME PageInv, NEW c \in Tasks, NEW r, NEW start, Begins(c, r, start),
         Each(since'), \A d \in Tasks : d # c => since'[d] = since[d]
  PROVE  /\ Only(c)
         /\ at'[c] = "acquiring" /\ request'[c] = r /\ current'[c] = start
         /\ all_bars'[c] = all_bars[c] /\ answer'[c] = NoAnswer
<1>1. /\ Each(at) /\ Each(request) /\ Each(current) /\ Each(all_bars) /\ Each(answer)
  BY DEF PageInv
<1>2. /\ answer' = [answer EXCEPT ![c] = NoAnswer] /\ at' = [at EXCEPT ![c] = "acquiring"]
      /\ request' = [request EXCEPT ![c] = r]
      /\ current' = [current EXCEPT ![c] = start] /\ all_bars' = all_bars
  BY DEF Begins
<1>3. SetAt(answer', answer, c, NoAnswer)
  BY <1>1, <1>2, EachExcept
<1>4. SetAt(at', at, c, "acquiring")
  BY <1>1, <1>2, EachExcept
<1>5. SetAt(request', request, c, r)
  BY <1>1, <1>2, EachExcept
<1>6. SetAt(current', current, c, start)
  BY <1>1, <1>2, EachExcept
<1>7. Each(all_bars') /\ \A d \in Tasks : all_bars'[d] = all_bars[d]
  BY <1>1, <1>2, Zenon
<1>8. QED
  BY <1>3, <1>4, <1>5, <1>6, <1>7, Zenon DEF Only, Same, SetAt

\* A task for which nothing changes keeps what it had, whatever the clock does.
LEMMA SameKeeps ==
  ASSUME PageInv, now' \in Nat, now <= now', NEW d \in Tasks, Same(d)
  PROVE  CallInv(d)' /\ (WholeBars(d) => WholeBars(d)')
<1>1. CallInv(d) /\ now \in Nat
  BY DEF PageInv
<1>2. Due(d)' = Due(d)
  BY DEF Same, Due
<1>3. Times(all_bars[d])' = Times(all_bars[d])
  BY DEF Same, Times
<1>4. BarsInFlight(d) => BarsInFlight(d)'
  <2>1. SUFFICES ASSUME BarsInFlight(d) PROVE BarsInFlight(d)'
    OBVIOUS
  <2>2. Ascends(Times(all_bars[d]), Due(d))'
    BY <1>2, <1>3, <2>1 DEF BarsInFlight, Ascends
  <2>3. \A t \in Due(d) : t \in Int /\ t <= now /\ t <= now' /\ t <= request[d].range.end
    BY <1>1, <2>1, ExchangeAssumption DEF BarsInFlight, Due
  <2>4. QED
    BY <1>2, <2>1, <2>2, <2>3 DEF BarsInFlight, Same
<1>5. CallInv(d)'
  BY <1>1, <1>4 DEF CallInv, Same
<1>6. WholeBars(d) => WholeBars(d)'
  BY DEF WholeBars, WholeOf, Same
<1>7. QED
  BY <1>5, <1>6

\* One task moves, the clock does not.
LEMMA OnlyKeeps ==
  ASSUME PageInv, NEW c \in Tasks, Only(c), now' = now, CallInv(c)'
  PROVE  PageInv'
<1>1. now \in Nat /\ now' \in Nat /\ now <= now'
  BY DEF PageInv
<1>2. ASSUME NEW d \in Tasks, d # c PROVE CallInv(d)'
  BY <1>1, <1>2, SameKeeps DEF Only
<1>3. QED
  BY <1>1, <1>2 DEF PageInv, Only

LEMMA OnlyKeepsWhole ==
  ASSUME PageInv, NEW c \in Tasks, Only(c), now' = now, WholeBars(c)',
         \A d \in Tasks : WholeBars(d)
  PROVE  \A d \in Tasks : WholeBars(d)'
<1>1. now \in Nat /\ now' \in Nat /\ now <= now'
  BY DEF PageInv
<1>2. ASSUME NEW d \in Tasks, d # c PROVE WholeBars(d)'
  BY <1>1, <1>2, SameKeeps DEF Only
<1>3. QED
  BY <1>2

\* What a call leaves behind that has returned.
LEMMA ReturnedInv ==
  ASSUME NEW c, at'[c] = "idle", request'[c] = NoRequest, all_bars'[c] = << >>,
         since'[c].now \in Int, since'[c].now <= now'
  PROVE  CallInv(c)'
<1>1. << >> \in Seq(Bars)
  OBVIOUS
<1>2. NoRequest.kind = "none" /\ NoRequest.range = NoRange
  BY DEF NoRequest
<1>3. QED
  BY <1>1, <1>2 DEF CallInv

LEMMA PageInvInit == Init => PageInv
<1>1. SUFFICES ASSUME Init PROVE PageInv
  OBVIOUS
<1>2. now = 0 /\ Each(at) /\ Each(request) /\ Each(current) /\ Each(all_bars) /\ Each(answer) /\ Each(since)
  BY <1>1 DEF Init, Each
<1>3. ASSUME NEW c \in Tasks PROVE CallInv(c)
  <2>1. /\ request[c] = NoRequest /\ all_bars[c] = << >>
        /\ since[c].now = 0
    BY <1>1 DEF Init
  <2>2. NoRequest.kind = "none" /\ NoRequest.range = NoRange
    BY DEF NoRequest
  <2>3. QED
    BY <1>2, <2>1, <2>2 DEF CallInv
<1>4. QED
  BY <1>2, <1>3 DEF PageInv

LEMMA CalledDoes ==
  ASSUME PageInv, NEW c \in Tasks, NEW end, Called(c, end)
  PROVE  /\ now' = now /\ now \in Nat /\ at[c] = "idle" /\ request[c] = NoRequest /\ all_bars[c] = << >>
         /\ Each(since') /\ \A d \in Tasks : d # c => since'[d] = since[d]
         /\ since'[c].now = now /\ since'[c].end = end
<1>1. Each(since) /\ now \in Nat /\ CallInv(c)
  BY DEF PageInv
<1>2. since' = [since EXCEPT ![c] = [now |-> now, end |-> end]] /\ at[c] = "idle" /\ now' = now
  BY DEF Called, clocks
<1>3. SetAt(since', since, c, [now |-> now, end |-> end])
  BY <1>1, <1>2, EachExcept
<1>4. request[c] = NoRequest /\ all_bars[c] = << >>
  <2>1. request[c] = NoRequest /\ NoRequest.kind # "bars"
    BY <1>1, <1>2 DEF CallInv, NoRequest
  <2>2. QED
    BY <1>1, <2>1 DEF CallInv
<1>5. QED
  BY <1>1, <1>2, <1>3, <1>4 DEF SetAt

\* What fetch_ohlcv does when it is called: it returns, or it starts with an empty list.
LEMMA AskedDoes ==
  ASSUME PageInv, NEW c \in Tasks, NEW pair \in Pairs, NEW range \in Ranges, NEW interval \in Intervals,
         NEW raw \in Raws(pair), Asked(c, pair, raw, range, interval)
  PROVE  /\ now' = now /\ Only(c) /\ request[c] = NoRequest /\ all_bars'[c] = << >>
         /\ since'[c].now = now /\ since'[c].end = range.end
         /\ \/ /\ range.start >= range.end
               /\ at'[c] = "idle" /\ request'[c] = NoRequest /\ answer'[c] = Answer("Ok", << >>)
            \/ at'[c] = "idle" /\ request'[c] = NoRequest /\ answer'[c] = Answer("Err", << >>)
            \/ /\ range.start < range.end /\ at'[c] = "acquiring" /\ current'[c] = Millis * range.start
               /\ request'[c].kind = "bars" /\ request'[c].range = range
               /\ answer'[c] = NoAnswer
<1>1. Called(c, range.end)
  BY DEF Asked
<1>2. /\ now' = now /\ request[c] = NoRequest /\ all_bars[c] = << >>
      /\ Each(since') /\ \A d \in Tasks : d # c => since'[d] = since[d]
      /\ since'[c].now = now /\ since'[c].end = range.end
  BY <1>1, CalledDoes
<1>3. CASE range.start >= range.end /\ Return(c, Answer("Ok", << >>))
  BY <1>2, <1>3, ReturnDoes
<1>4. CASE Return(c, Answer("Err", << >>))
  BY <1>2, <1>4, ReturnDoes
<1>5. ASSUME range.start < range.end,
             NEW name, NEW r, r = [kind |-> "bars", name |-> name, range |-> range,
                                   pair |-> Standard(pair.base, pair.quote)],
             Begins(c, r, Millis * range.start)
      PROVE  /\ Only(c) /\ all_bars'[c] = << >> /\ at'[c] = "acquiring"
             /\ current'[c] = Millis * range.start
             /\ request'[c].kind = "bars" /\ request'[c].range = range /\ answer'[c] = NoAnswer
  <2>1. r.kind = "bars" /\ r.range = range
    BY <1>5
  <2>2. /\ Only(c) /\ at'[c] = "acquiring" /\ request'[c] = r /\ current'[c] = Millis * range.start
        /\ all_bars'[c] = all_bars[c] /\ answer'[c] = NoAnswer
    BY <1>2, <1>5, BeginDoes
  <2>3. QED
    BY <1>2, <2>1, <2>2
<1>6. \/ range.start >= range.end /\ Return(c, Answer("Ok", << >>))
      \/ Return(c, Answer("Err", << >>))
      \/ range.start < range.end /\ \E name : Begins(c, [kind |-> "bars", name |-> name, range |-> range,
                                   pair |-> Standard(pair.base, pair.quote)], Millis * range.start)
  BY Zenon DEF Asked
<1>7. CASE range.start < range.end /\ \E name : Begins(c, [kind |-> "bars", name |-> name, range |-> range,
                                   pair |-> Standard(pair.base, pair.quote)], Millis * range.start)
  <2>1. PICK name : Begins(c, [kind |-> "bars", name |-> name, range |-> range,
                               pair |-> Standard(pair.base, pair.quote)], Millis * range.start)
    BY <1>7
  <2>2. PICK r : r = [kind |-> "bars", name |-> name, range |-> range,
                      pair |-> Standard(pair.base, pair.quote)]
    OBVIOUS
  <2>3. Begins(c, r, Millis * range.start)
    BY <2>1, <2>2, Zenon
  <2>4. /\ Only(c) /\ all_bars'[c] = << >> /\ at'[c] = "acquiring"
        /\ current'[c] = Millis * range.start
        /\ request'[c].kind = "bars" /\ request'[c].range = range /\ answer'[c] = NoAnswer
    BY <1>5, <1>7, <2>2, <2>3, Zenon
  <2>5. QED
    BY <1>2, <1>7, <2>4
<1>8. QED
  BY <1>3, <1>4, <1>6, <1>7, Zenon

\* What Receive does: a page more, or the answer.
LEMMA ReceiveDoes ==
  ASSUME PageInv, NEW c \in Tasks, Receive(c)
  PROVE  /\ now' = now /\ since' = since /\ Only(c)
         /\ request[c].kind = "bars" /\ BarsInFlight(c) /\ since[c].end = request[c].range.end
         /\ \/ /\ MorePages(c, FetchPage(c))
               /\ at'[c] = "acquiring" /\ request'[c] = request[c] /\ answer'[c] = answer[c]
               /\ current'[c] = NextStart(Last(FetchPage(c)).timestamp)
               /\ all_bars'[c] = all_bars[c] \o FetchPage(c)
            \/ /\ ~ MorePages(c, FetchPage(c))
               /\ at'[c] = "idle" /\ request'[c] = NoRequest /\ all_bars'[c] = << >>
               /\ answer'[c] = Answer("Ok", all_bars[c] \o FetchPage(c))
<1>1. now' = now /\ since' = since /\ Each(since') /\ CallInv(c) /\ request[c].kind = "bars"
  BY DEF Receive, clocks, PageInv
<1>2. BarsInFlight(c) /\ since[c].end = request[c].range.end
  BY <1>1 DEF CallInv
<1>3. PICK page : page = FetchPage(c)
  OBVIOUS
<1>4. PICK all : all = all_bars[c] \o page
  OBVIOUS
<1>5. \/ /\ MorePages(c, page)
         /\ all_bars' = [all_bars EXCEPT ![c] = all]
         /\ current' = [current EXCEPT ![c] = NextStart(Last(page).timestamp)]
         /\ at' = [at EXCEPT ![c] = "acquiring"]
         /\ UNCHANGED <<request, answer>>
      \/ /\ ~ MorePages(c, page)
         /\ Return(c, Answer("Ok", all))
  BY <1>3, <1>4 DEF Receive
<1>6. ASSUME MorePages(c, page),
             all_bars' = [all_bars EXCEPT ![c] = all],
             current' = [current EXCEPT ![c] = NextStart(Last(page).timestamp)],
             at' = [at EXCEPT ![c] = "acquiring"],
             UNCHANGED <<request, answer>>
      PROVE  /\ Only(c)
             /\ at'[c] = "acquiring" /\ request'[c] = request[c] /\ answer'[c] = answer[c]
             /\ current'[c] = NextStart(Last(page).timestamp)
             /\ all_bars'[c] = all
  <2>1. Each(at) /\ Each(request) /\ Each(current) /\ Each(all_bars) /\ Each(answer)
    BY DEF PageInv
  <2>2. SetAt(at', at, c, "acquiring")
    BY <1>6, <2>1, EachExcept
  <2>3. SetAt(current', current, c, NextStart(Last(page).timestamp))
    BY <1>6, <2>1, EachExcept
  <2>4. SetAt(all_bars', all_bars, c, all)
    BY <1>6, <2>1, EachExcept
  <2>5. Each(request') /\ Each(answer') /\ request' = request /\ answer' = answer
    BY <1>6, <2>1, Zenon
  <2>6. QED
    BY <1>1, <2>2, <2>3, <2>4, <2>5, Zenon DEF Only, Same, SetAt
<1>7. ASSUME Return(c, Answer("Ok", all))
      PROVE  /\ Only(c) /\ at'[c] = "idle" /\ request'[c] = NoRequest /\ all_bars'[c] = << >>
             /\ answer'[c] = Answer("Ok", all)
  BY <1>1, <1>7, ReturnDoes
<1>8. QED
  BY <1>1, <1>2, <1>3, <1>4, <1>5, <1>6, <1>7, Zenon

\* The request goes on behind the last bar of the page.
LEMMA NextPage ==
  ASSUME PageInv, NEW c \in Tasks, BarsInFlight(c), MorePages(c, FetchPage(c)), now' = now,
         request'[c] = request[c], current'[c] = NextStart(Last(FetchPage(c)).timestamp),
         all_bars'[c] = all_bars[c] \o FetchPage(c)
  PROVE  BarsInFlight(c)' /\ all_bars'[c] \in Seq(Bars)
<1>1. PICK last : last = Last(FetchPage(c)).timestamp
  OBVIOUS
<1>2. FetchPage(c) # << >>
  BY DEF MorePages
<1>3. now \in Nat /\ all_bars[c] \in Seq(Bars)
  BY DEF PageInv, CallInv
<1>4. /\ Open(c) # {} /\ last \in Open(c) /\ all_bars'[c] \in Seq(Bars)
      /\ Ascends(Times(all_bars[c] \o FetchPage(c)), DueBefore(c, NextStart(last)))
  BY <1>1, <1>2, <1>3, PageFollows
<1>5. PICK start \in Int, end \in Int :
        /\ start = request[c].range.start /\ end = request[c].range.end
        /\ request[c].range \in Ranges /\ start < end /\ Opens \subseteq Int
  BY ExchangeAssumption DEF BarsInFlight
<1>6. /\ last \in Int /\ last <= now /\ last <= end /\ start <= last
      /\ Millis * last \in Int /\ NextStart(last) = (Millis * last) + 1
  BY <1>3, <1>4, <1>5, Products, OpenIs DEF Open, NextStart
<1>7. Due(c)' = DueBefore(c, NextStart(last))
  BY <1>1 DEF Due, DueBefore
<1>8. Ascends(Times(all_bars[c]), Due(c))'
  <2>1. Times(all_bars'[c]) = Times(all_bars[c] \o FetchPage(c))
    OBVIOUS
  <2>2. Ascends(Times(all_bars'[c]), Due(c)')
    BY <1>4, <1>7, <2>1
  <2>3. QED
    BY <2>2
<1>9. \A t \in DueBefore(c, NextStart(last)) : t <= now /\ t <= end
  <2>1. SUFFICES ASSUME NEW t \in DueBefore(c, NextStart(last)) PROVE t <= now /\ t <= end
    OBVIOUS
  <2>2. t \in Int /\ Millis * t < NextStart(last) /\ Millis * t \in Int
    BY <1>5, Products DEF DueBefore
  <2>3. Millis * t <= Millis * last
    BY <1>6, <2>2
  <2>4. t <= last
    BY <1>6, <2>2, <2>3, Products
  <2>5. QED
    BY <1>3, <1>5, <1>6, <2>2, <2>4
<1>10. Millis * start <= NextStart(last) /\ NextStart(last) \in Int
  <2>1. Millis * start <= Millis * last /\ Millis * start \in Int
    BY <1>5, <1>6, Products
  <2>2. PICK a \in Int, b \in Int : a = Millis * start /\ b = Millis * last
    BY <1>6, <2>1
  <2>3. a <= b /\ NextStart(last) = b + 1
    BY <1>6, <2>1, <2>2
  <2>4. QED
    BY <2>2, <2>3
<1>11. BarsInFlight(c)'
  <2>1. /\ request'[c].range \in Ranges /\ request'[c].range.start < request'[c].range.end
        /\ current'[c] \in Int /\ Millis * request'[c].range.start <= current'[c]
    BY <1>1, <1>5, <1>10
  <2>2. \A t \in Due(c)' : t <= now' /\ t <= request'[c].range.end
    BY <1>5, <1>7, <1>9
  <2>3. QED
    BY <1>8, <2>1, <2>2 DEF BarsInFlight
<1>12. QED
  BY <1>4, <1>11

\* The first page of a range is yet to come.
LEMMA FirstPage ==
  ASSUME NEW c \in Tasks, NEW range \in Ranges, range.start < range.end,
         request'[c].range = range, current'[c] = Millis * range.start,
         all_bars'[c] = << >>
  PROVE  BarsInFlight(c)'
<1>1. PICK start \in Int : start = range.start /\ Opens \subseteq Int
  BY ExchangeAssumption
<1>2. PICK first \in Int : first = Millis * start
  BY <1>1, Products
<1>3. Due(c)' = {}
  <2>1. SUFFICES ASSUME NEW t \in Due(c)' PROVE FALSE
    OBVIOUS
  <2>2. t \in Int /\ start <= t /\ Millis * t < Millis * start
    BY <1>1 DEF Due
  <2>3. t < start
    BY <1>1, <2>2, Products
  <2>4. QED
    BY <1>1, <2>2, <2>3
<1>4. Ascends(Times(all_bars[c]), Due(c))'
  <2>1. Ascends(Times(all_bars'[c]), Due(c)')
    BY <1>3, NoTimes, EmptyAscends
  <2>2. QED
    BY <2>1
<1>5. /\ request'[c].range \in Ranges /\ request'[c].range.start < request'[c].range.end
      /\ current'[c] \in Int /\ Millis * request'[c].range.start <= current'[c]
  BY <1>1, <1>2
<1>6. QED
  BY <1>3, <1>4, <1>5 DEF BarsInFlight

\* The bars of a page that are not whole are of the time of the call or later.
LEMMA PageWhole ==
  ASSUME PageInv, NEW c \in Tasks, BarsInFlight(c), since[c].end = request[c].range.end,
         WholeOf(all_bars[c], c)
  PROVE  WholeOf(all_bars[c] \o FetchPage(c), c)
<1>1. /\ now \in Nat /\ all_bars[c] \in Seq(Bars) /\ since[c].now \in Int /\ since[c].now <= now
      /\ BarLength \in Nat
  BY Lengths DEF PageInv, CallInv
<1>2. PICK end \in Int : end = since[c].end /\ end = request[c].range.end /\ Opens \subseteq Int
  BY ExchangeAssumption DEF BarsInFlight
<1>3. PICK times \in Seq(Int) : times = Page(c) /\ \A i \in DOMAIN times : times[i] \in Open(c)
  <2>1. Page(c) \in Seq(Int)
    BY <1>1, PageIs
  <2>2. Open(c) = {} => Page(c) = << >>
    BY <1>1, PageIs
  <2>3. Open(c) # {} => Ascends(Page(c), {t \in Open(c) : t <= Last(Page(c))})
    BY <1>1, PageIs
  <2>4. Open(c) # {} => \A i \in DOMAIN Page(c) : Page(c)[i] \in {t \in Open(c) : t <= Last(Page(c))}
    BY <2>3, ListedIs
  <2>5. \A i \in DOMAIN Page(c) : Page(c)[i] \in Open(c)
    BY <2>2, <2>4
  <2>6. QED
    BY <2>1, <2>5
<1>4. PICK page \in Seq(Bars) : page = FetchPage(c) /\ page = Parsed(times)
  BY <1>1, <1>3, ParsedIs DEF FetchPage
<1>5. ASSUME NEW i \in DOMAIN page, ~ page[i].whole
      PROVE  since[c].now < since[c].end + BarLength
  <2>1. i \in DOMAIN times /\ now < times[i] + BarLength
    BY <1>1, <1>4, <1>5, ParsedIs
  <2>2. times[i] \in Open(c)
    BY <1>3, <2>1
  <2>3. times[i] \in Int /\ times[i] <= end
    BY <1>2, <2>2 DEF Open
  <2>4. /\ since[c].now <= now /\ since[c].now \in Int /\ since[c].end = end
        /\ now \in Int /\ BarLength \in Int
    BY <1>1, <1>2
  <2>5. QED
    BY <2>1, <2>3, <2>4
<1>6. PICK old \in Seq(Bars) : old = all_bars[c]
  BY <1>1
<1>7. \A i \in DOMAIN (old \o page) :
        \/ i \in DOMAIN old /\ (old \o page)[i] = old[i]
        \/ \E j \in DOMAIN page : (old \o page)[i] = page[j]
  <2>1. PICK all : all = old \o page
    OBVIOUS
  <2>2. /\ Len(old) \in Nat /\ Len(page) \in Nat /\ DOMAIN all = 1 .. Len(old) + Len(page)
        /\ DOMAIN old = 1 .. Len(old) /\ DOMAIN page = 1 .. Len(page)
        /\ \A i \in 1 .. Len(old) + Len(page) : all[i] = IF i <= Len(old) THEN old[i] ELSE page[i - Len(old)]
    BY <2>1, ConcatProperties
  <2>3. SUFFICES ASSUME NEW i \in DOMAIN all
                 PROVE  \/ i \in DOMAIN old /\ all[i] = old[i]
                        \/ \E j \in DOMAIN page : all[i] = page[j]
    BY <2>1
  <2>4. CASE i <= Len(old)
    BY <2>2, <2>4
  <2>5. CASE ~ (i <= Len(old))
    <3>1. i - Len(old) \in DOMAIN page /\ all[i] = page[i - Len(old)]
      BY <2>2, <2>5
    <3>2. QED
      BY <3>1
  <2>6. QED
    BY <2>4, <2>5
<1>8. QED
  BY <1>4, <1>5, <1>6, <1>7 DEF WholeOf

LEMMA PageInvNext == PageInv /\ [Next]_vars => PageInv'
<1>1. SUFFICES ASSUME PageInv, [Next]_vars PROVE PageInv'
  OBVIOUS
<1>2. ASSUME NEW c \in Tasks, NEW pair \in Pairs, NEW range \in Ranges, NEW interval \in Intervals,
             NEW raw \in Raws(pair), Asked(c, pair, raw, range, interval)
      PROVE  PageInv'
  <2>1. /\ now' = now /\ Only(c) /\ all_bars'[c] = << >> /\ now \in Nat
        /\ since'[c].now = now /\ since'[c].end = range.end
    BY <1>1, <1>2, AskedDoes DEF PageInv
  <2>2. CASE at'[c] = "idle" /\ request'[c] = NoRequest
    <3>1. CallInv(c)'
      BY <2>1, <2>2, ReturnedInv
    <3>2. QED
      BY <1>1, <2>1, <3>1, OnlyKeeps
  <2>3. CASE /\ range.start < range.end /\ at'[c] = "acquiring"
             /\ current'[c] = Millis * range.start
             /\ request'[c].kind = "bars" /\ request'[c].range = range
    <3>1. BarsInFlight(c)'
      BY <2>1, <2>3, FirstPage
    <3>2. << >> \in Seq(Bars)
      OBVIOUS
    <3>3. CallInv(c)'
      BY <2>1, <2>3, <3>1, <3>2 DEF CallInv
    <3>4. QED
      BY <1>1, <2>1, <3>3, OnlyKeeps
  <2>4. QED
    BY <1>1, <1>2, <2>2, <2>3, AskedDoes
<1>3. ASSUME NEW c \in Tasks, AskedSymbols(c) PROVE PageInv'
  <2>1. PICK r : r = [NoRequest EXCEPT !.kind = "symbols"]
    OBVIOUS
  <2>2. r.kind = "symbols" /\ r.range = NoRange
    BY <2>1 DEF NoRequest
  <2>3. Called(c, 0) /\ Begins(c, r, 0)
    BY <1>3, <2>1 DEF AskedSymbols
  <2>4. /\ now' = now /\ now \in Nat /\ all_bars[c] = << >> /\ since'[c].now = now
        /\ Each(since') /\ \A d \in Tasks : d # c => since'[d] = since[d]
    BY <1>1, <2>3, CalledDoes
  <2>5. Only(c) /\ at'[c] = "acquiring" /\ request'[c] = r /\ all_bars'[c] = << >>
    BY <1>1, <2>3, <2>4, BeginDoes
  <2>6. << >> \in Seq(Bars)
    OBVIOUS
  <2>7. CallInv(c)'
    BY <2>2, <2>4, <2>5, <2>6 DEF CallInv
  <2>8. QED
    BY <1>1, <2>4, <2>5, <2>7, OnlyKeeps
<1>4. ASSUME NEW c \in Tasks, Acquire(c) PROVE PageInv'
  <2>1. /\ at' = [at EXCEPT ![c] = "sent"] /\ now' = now
        /\ UNCHANGED <<request, current, all_bars, answer, since>>
    BY <1>4 DEF Acquire, clocks
  <2>2. /\ Each(at) /\ Each(request) /\ Each(current) /\ Each(all_bars) /\ Each(answer) /\ Each(since)
        /\ CallInv(c) /\ now \in Nat
    BY <1>1 DEF PageInv
  <2>3. SetAt(at', at, c, "sent")
    BY <2>1, <2>2, EachExcept
  <2>4. Only(c)
    BY <2>1, <2>2, <2>3 DEF Only, Same, SetAt
  <2>5. CallInv(c)'
    <3>1. at'[c] = "sent"
      BY <2>3 DEF SetAt
    <3>2. BarsInFlight(c) <=> BarsInFlight(c)'
      BY <2>1 DEF BarsInFlight, Due, Times
    <3>3. QED
      BY <2>1, <2>2, <3>1, <3>2 DEF CallInv
  <2>6. QED
    BY <1>1, <2>1, <2>4, <2>5, OnlyKeeps
<1>5. ASSUME NEW c \in Tasks, Receive(c) PROVE PageInv'
  <2>1. /\ now' = now /\ since' = since /\ Only(c) /\ CallInv(c)
        /\ request[c].kind = "bars" /\ BarsInFlight(c) /\ since[c].end = request[c].range.end
        /\ since[c].now \in Int /\ since[c].now <= now
    BY <1>1, <1>5, ReceiveDoes DEF PageInv, CallInv
  <2>2. CASE /\ MorePages(c, FetchPage(c))
             /\ at'[c] = "acquiring" /\ request'[c] = request[c] /\ answer'[c] = answer[c]
             /\ current'[c] = NextStart(Last(FetchPage(c)).timestamp)
             /\ all_bars'[c] = all_bars[c] \o FetchPage(c)
    <3>1. BarsInFlight(c)' /\ all_bars'[c] \in Seq(Bars)
      BY <1>1, <2>1, <2>2, NextPage
    <3>2. CallInv(c)'
      BY <2>1, <2>2, <3>1 DEF CallInv
    <3>3. QED
      BY <1>1, <2>1, <3>2, OnlyKeeps
  <2>3. CASE at'[c] = "idle" /\ request'[c] = NoRequest /\ all_bars'[c] = << >>
    <3>1. CallInv(c)'
      BY <2>1, <2>3, ReturnedInv
    <3>2. QED
      BY <1>1, <2>1, <3>1, OnlyKeeps
  <2>4. QED
    BY <1>1, <1>5, <2>2, <2>3, ReceiveDoes
<1>6. ASSUME NEW c \in Tasks, NEW a, Return(c, a), now' = now, since' = since PROVE PageInv'
  <2>1. Each(since') /\ since[c].now \in Int /\ since[c].now <= now
    BY <1>1, <1>6 DEF PageInv, CallInv
  <2>2. Only(c) /\ at'[c] = "idle" /\ request'[c] = NoRequest /\ all_bars'[c] = << >>
    BY <1>1, <1>6, <2>1, ReturnDoes
  <2>3. CallInv(c)'
    BY <1>6, <2>1, <2>2, ReturnedInv
  <2>4. QED
    BY <1>1, <1>6, <2>2, <2>3, OnlyKeeps
<1>7. ASSUME NEW c \in Tasks, Fails(c) PROVE PageInv'
  BY <1>6, <1>7 DEF Fails, clocks
<1>8. ASSUME NEW c \in Tasks, ReceiveSymbols(c) \/ Drop(c) PROVE PageInv'
  BY <1>6, <1>8 DEF ReceiveSymbols, Drop, clocks
<1>9. ASSUME now' \in Nat, now <= now', UNCHANGED call PROVE PageInv'
  <2>1. ASSUME NEW d \in Tasks PROVE CallInv(d)'
    <3>1. Same(d)
      BY <1>9 DEF call, Same
    <3>2. QED
      BY <1>1, <1>9, <3>1, SameKeeps
  <2>2. QED
    BY <1>1, <1>9, <2>1 DEF PageInv, call
<1>10. now \in Nat
  BY <1>1 DEF PageInv
<1>11. CASE Tick
  BY <1>9, <1>10, <1>11 DEF Tick, clocks
<1>12. CASE Pass
  BY <1>9, <1>10, <1>12 DEF Pass
<1>13. CASE UNCHANGED vars
  BY <1>9, <1>10, <1>13 DEF vars, clocks
<1>14. QED
  BY <1>1, <1>2, <1>3, <1>4, <1>5, <1>7, <1>8, <1>11, <1>12, <1>13, Zenon
     DEF Next, Error, Unreadable

\* The calls are between two pages as said, whoever else moves.
LEMMA PagesAreInOrder == Spec => []PageInv
<1>1. Init => PageInv
  BY PageInvInit
<1>2. PageInv /\ [Next]_vars => PageInv'
  BY PageInvNext
<1>3. QED
  BY <1>1, <1>2, PTL DEF Spec

LEMMA WholeIs == WholeUnlessRecent <=> \A c \in Tasks : WholeBars(c)
BY DEF WholeUnlessRecent, WholeBars, WholeOf

LEMMA NoBarsWhole == \A c : WholeOf(<< >>, c) /\ WholeOf(<< >>, c)'
BY DEF WholeOf

LEMMA WholeNext == PageInv /\ WholeUnlessRecent /\ [Next]_vars => WholeUnlessRecent'
<1>1. SUFFICES ASSUME PageInv, WholeUnlessRecent, [Next]_vars PROVE \A c \in Tasks : WholeBars(c)'
  BY WholeIs DEF WholeUnlessRecent, WholeBars, WholeOf
<1>2. \A c \in Tasks : WholeBars(c)
  BY <1>1, WholeIs
<1>3. ASSUME NEW c \in Tasks, Only(c), now' = now, all_bars'[c] = << >>, answer'[c].bars = << >>
      PROVE  \A d \in Tasks : WholeBars(d)'
  <2>1. WholeBars(c)'
    BY <1>3, NoBarsWhole DEF WholeBars, WholeOf
  <2>2. QED
    BY <1>1, <1>2, <1>3, <2>1, OnlyKeepsWhole
<1>4. /\ \A kind : Answer(kind, << >>).bars = << >>
      /\ NoAnswer.bars = << >>
  BY DEF Answer, NoAnswer
<1>5. ASSUME NEW c \in Tasks, NEW pair \in Pairs, NEW range \in Ranges, NEW interval \in Intervals,
             NEW raw \in Raws(pair), Asked(c, pair, raw, range, interval)
      PROVE  \A d \in Tasks : WholeBars(d)'
  <2>1. now' = now /\ Only(c) /\ all_bars'[c] = << >>
    BY <1>1, <1>5, AskedDoes
  <2>2. answer'[c] \in {Answer("Ok", << >>), Answer("Err", << >>), NoAnswer}
    BY <1>1, <1>5, AskedDoes
  <2>3. QED
    BY <1>3, <1>4, <2>1, <2>2
<1>6. ASSUME NEW c \in Tasks, AskedSymbols(c) PROVE \A d \in Tasks : WholeBars(d)'
  <2>1. PICK r : Called(c, 0) /\ Begins(c, r, 0)
    BY <1>6 DEF AskedSymbols
  <2>2. /\ now' = now /\ all_bars[c] = << >>
        /\ Each(since') /\ \A d \in Tasks : d # c => since'[d] = since[d]
    BY <1>1, <2>1, CalledDoes
  <2>3. Only(c) /\ all_bars'[c] = << >> /\ answer'[c] = NoAnswer
    BY <1>1, <2>1, <2>2, BeginDoes
  <2>4. QED
    BY <1>3, <1>4, <2>2, <2>3
<1>7. ASSUME NEW c \in Tasks, NEW kind, Return(c, Answer(kind, << >>)), now' = now, since' = since
      PROVE  \A d \in Tasks : WholeBars(d)'
  <2>1. Each(since')
    BY <1>1, <1>7 DEF PageInv
  <2>2. Only(c) /\ all_bars'[c] = << >> /\ answer'[c] = Answer(kind, << >>)
    BY <1>1, <1>7, <2>1, ReturnDoes
  <2>3. QED
    BY <1>3, <1>4, <1>7, <2>2
<1>8. ASSUME NEW c \in Tasks, Receive(c) PROVE \A d \in Tasks : WholeBars(d)'
  <2>1. /\ now' = now /\ since' = since /\ Only(c)
        /\ BarsInFlight(c) /\ since[c].end = request[c].range.end
    BY <1>1, <1>8, ReceiveDoes
  <2>2. WholeOf(all_bars[c], c) /\ WholeOf(answer[c].bars, c)
    BY <1>2 DEF WholeBars
  <2>3. PICK all : all = all_bars[c] \o FetchPage(c)
    OBVIOUS
  <2>4. WholeOf(all, c)
    BY <1>1, <2>1, <2>2, <2>3, PageWhole
  <2>5. CASE answer'[c] = answer[c] /\ all_bars'[c] = all
    <3>1. WholeBars(c)'
      BY <2>1, <2>2, <2>4, <2>5 DEF WholeBars, WholeOf
    <3>2. QED
      BY <1>1, <1>2, <2>1, <3>1, OnlyKeepsWhole
  <2>6. CASE answer'[c] = Answer("Ok", all) /\ all_bars'[c] = << >>
    <3>1. answer'[c].bars = all
      BY <2>6 DEF Answer
    <3>2. WholeBars(c)'
      BY <2>1, <2>4, <2>6, <3>1 DEF WholeBars, WholeOf
    <3>3. QED
      BY <1>1, <1>2, <2>1, <3>2, OnlyKeepsWhole
  <2>7. QED
    BY <1>1, <1>8, <2>3, <2>5, <2>6, ReceiveDoes
<1>9. ASSUME NEW c \in Tasks, Acquire(c) PROVE \A d \in Tasks : WholeBars(d)'
  BY <1>2, <1>9 DEF Acquire, WholeBars, WholeOf
<1>10. ASSUME NEW c \in Tasks, Fails(c) \/ ReceiveSymbols(c) \/ Drop(c) PROVE \A d \in Tasks : WholeBars(d)'
  <2>1. now' = now /\ since' = since
    BY <1>10 DEF Fails, ReceiveSymbols, Drop, clocks
  <2>2. \E kind : Return(c, Answer(kind, << >>))
    BY <1>10 DEF Fails, ReceiveSymbols, Drop, NoAnswer
  <2>3. QED
    BY <1>7, <2>1, <2>2
<1>11. CASE UNCHANGED call
  BY <1>2, <1>11 DEF call, WholeBars, WholeOf
<1>12. QED
  BY <1>1, <1>5, <1>6, <1>8, <1>9, <1>10, <1>11, Zenon
     DEF Next, Error, Unreadable, Tick, Pass, vars

\* WholeUnlessRecent: only a call for a range that reaches into the bar it was made in
\* brings a bar that was still under way, which the table then keeps as it is.
THEOREM OldBarsAreWhole == Spec => []WholeUnlessRecent
<1>1. Init => WholeUnlessRecent
  BY DEF Init, WholeUnlessRecent, NoAnswer, Answer
<1>2. PageInv /\ WholeUnlessRecent /\ [Next]_vars => WholeUnlessRecent'
  BY WholeNext
<1>3. QED
  BY <1>1, <1>2, PagesAreInOrder, PTL DEF Spec

-----------------------------------------------------------------------------
\* fetch_ohlcv implements the call of one step.

\* What a caller sees of its call.
Asking(asked) == [c \in Tasks |-> asked[c].range]
Answered(answers) ==
  [c \in Tasks |-> [kind |-> answers[c].kind, times |-> Times(answers[c].bars)]]

LEMMA AskingOne ==
  ASSUME NEW f, NEW g, NEW c \in Tasks, \A d \in Tasks : d # c => g[d] = f[d]
  PROVE  /\ Asking(g) = [Asking(f) EXCEPT ![c] = g[c].range]
         /\ g[c].range = f[c].range => Asking(g) = Asking(f)
<1>1. DOMAIN Asking(f) = Tasks /\ \A d \in Tasks : Asking(f)[d] = f[d].range
  BY DEF Asking
<1>2. Asking(g) = [Asking(f) EXCEPT ![c] = g[c].range]
  BY <1>1 DEF Asking
<1>3. g[c].range = f[c].range => Asking(g) = Asking(f)
  <2>1. SUFFICES ASSUME g[c].range = f[c].range PROVE Asking(g) = Asking(f)
    OBVIOUS
  <2>2. \A d \in Tasks : g[d].range = f[d].range
    BY <2>1
  <2>3. QED
    BY <2>2 DEF Asking
<1>4. QED
  BY <1>2, <1>3

LEMMA AnsweredOne ==
  ASSUME NEW f, NEW g, NEW c \in Tasks, \A d \in Tasks : d # c => g[d] = f[d]
  PROVE  /\ Answered(g) = [Answered(f) EXCEPT ![c] =
                             [kind |-> g[c].kind, times |-> Times(g[c].bars)]]
         /\ g[c] = f[c] => Answered(g) = Answered(f)
<1>1. /\ DOMAIN Answered(f) = Tasks
      /\ \A d \in Tasks : Answered(f)[d] = [kind |-> f[d].kind, times |-> Times(f[d].bars)]
  BY DEF Answered
<1>2. Answered(g) = [Answered(f) EXCEPT ![c] = [kind |-> g[c].kind, times |-> Times(g[c].bars)]]
  BY <1>1 DEF Answered
<1>3. g[c] = f[c] => Answered(g) = Answered(f)
  <2>1. SUFFICES ASSUME g[c] = f[c] PROVE Answered(g) = Answered(f)
    OBVIOUS
  <2>2. \A d \in Tasks : g[d] = f[d]
    BY <2>1
  <2>3. QED
    BY <2>2 DEF Answered
<1>4. QED
  BY <1>2, <1>3

\* The moves of the call of one step, in terms of what the caller sees.
Moves(asking, asking2, answered, answered2) ==
  \/ asking2 = asking /\ answered2 = answered
  \/ \E c \in Tasks :
       \/ /\ asking[c] = NoRange
          /\ \E range \in Ranges : asking2 = [asking EXCEPT ![c] = range]
          /\ answered2 = [answered EXCEPT ![c] = [kind |-> "none", times |-> << >>]]
       \/ /\ asking[c] = NoRange /\ \E range \in Ranges : range.start >= range.end
          /\ answered2 = [answered EXCEPT ![c] = [kind |-> "Ok", times |-> << >>]]
          /\ asking2 = asking
       \/ /\ asking[c] = NoRange
          /\ answered2 = [answered EXCEPT ![c] = [kind |-> "Err", times |-> << >>]]
          /\ asking2 = asking
       \/ /\ asking[c] # NoRange
          /\ \/ answered2 = [answered EXCEPT ![c] =
                  [kind |-> "Ok", times |-> Ascending({t \in Opens : /\ asking[c].start <= t /\ t <= asking[c].end
                                                                     /\ t <= now})]]
             \/ answered2 = [answered EXCEPT ![c] = [kind |-> "Err", times |-> << >>]]
          /\ asking2 = [asking EXCEPT ![c] = NoRange]
       \/ /\ asking2 = [asking EXCEPT ![c] = NoRange]
          /\ answered2 = [answered EXCEPT ![c] = [kind |-> "none", times |-> << >>]]

\* They are the steps of OneStepFetch.
LEMMA MovesAre ==
  ASSUME now' = now, Moves(Asking(request), Asking(request'), Answered(answer), Answered(answer'))
  PROVE  [OneStep!FetchNext]_(OneStep!fetchVars)
<1>1. /\ Asking(request) = [c \in Tasks |-> request[c].range]
      /\ Asking(request') = [c \in Tasks |-> request'[c].range]
  BY DEF Asking
<1>2. /\ Answered(answer) = [c \in Tasks |-> [kind |-> answer[c].kind,
                           times |-> [i \in DOMAIN answer[c].bars |-> answer[c].bars[i].timestamp]]]
      /\ Answered(answer') = [c \in Tasks |-> [kind |-> answer'[c].kind,
                           times |-> [i \in DOMAIN answer'[c].bars |-> answer'[c].bars[i].timestamp]]]
  BY DEF Answered, Times
<1>a. ASSUME NEW S PROVE OneStep!Ascending(S) = Ascending(S)
  BY Zenon DEF OneStep!Ascending, Ascending, OneStep!Cardinality, Cardinality
<1>3. CASE Asking(request') = Asking(request) /\ Answered(answer') = Answered(answer)
  BY <1>1, <1>2, <1>3 DEF OneStep!fetchVars
<1>4. ASSUME NEW c \in Tasks, Asking(request)[c] = NoRange,
             \E range \in Ranges : Asking(request') = [Asking(request) EXCEPT ![c] = range],
             Answered(answer') = [Answered(answer) EXCEPT ![c] = [kind |-> "none", times |-> << >>]]
      PROVE  OneStep!Request(c)
  BY <1>1, <1>2, <1>4 DEF OneStep!Request, OneStep!Gives, OneStep!NoRange, NoRange
<1>5. ASSUME NEW c \in Tasks, Asking(request)[c] = NoRange,
             \/ /\ \E range \in Ranges : range.start >= range.end
                /\ Answered(answer') = [Answered(answer) EXCEPT ![c] = [kind |-> "Ok", times |-> << >>]]
             \/ Answered(answer') = [Answered(answer) EXCEPT ![c] = [kind |-> "Err", times |-> << >>]],
             Asking(request') = Asking(request)
      PROVE  OneStep!Request(c)
  BY <1>1, <1>2, <1>5 DEF OneStep!Request, OneStep!Gives, OneStep!NoRange, NoRange
<1>6. ASSUME NEW c \in Tasks, Asking(request)[c] # NoRange,
             \/ Answered(answer') = [Answered(answer) EXCEPT ![c] =
                  [kind |-> "Ok", times |-> Ascending({t \in Opens :
                      /\ Asking(request)[c].start <= t /\ t <= Asking(request)[c].end /\ t <= now})]]
             \/ Answered(answer') = [Answered(answer) EXCEPT ![c] = [kind |-> "Err", times |-> << >>]],
             Asking(request') = [Asking(request) EXCEPT ![c] = NoRange]
      PROVE  OneStep!Reply(c)
  <2>1. PICK S : S = {t \in Opens : /\ Asking(request)[c].start <= t /\ t <= Asking(request)[c].end
                                    /\ t <= now}
    OBVIOUS
  <2>2. PICK times : times = Ascending(S)
    OBVIOUS
  <2>3. OneStep!InOpens(Asking(request)[c], now) = S
    BY <2>1 DEF OneStep!InOpens
  <2>4. times \in {OneStep!Ascending(OneStep!InOpens(Asking(request)[c], now))}
    BY <1>a, <2>2, <2>3, Zenon
  <2>5. Answered(answer') \in {[Answered(answer) EXCEPT ![c] = [kind |-> "Ok", times |-> times]],
                               [Answered(answer) EXCEPT ![c] = [kind |-> "Err", times |-> << >>]]}
    BY <1>6, <2>1, <2>2
  <2>6. QED
    BY <1>1, <1>2, <1>6, <2>4, <2>5 DEF OneStep!Reply, OneStep!Gives, OneStep!NoRange, NoRange
<1>7. ASSUME NEW c \in Tasks,
             Asking(request') = [Asking(request) EXCEPT ![c] = NoRange],
             Answered(answer') = [Answered(answer) EXCEPT ![c] = [kind |-> "none", times |-> << >>]]
      PROVE  OneStep!Forget(c)
  BY <1>1, <1>2, <1>7 DEF OneStep!Forget, OneStep!Gives, OneStep!NoRange, NoRange
<1>8. QED
  BY <1>3, <1>4, <1>5, <1>6, <1>7 DEF Moves, OneStep!FetchNext

\* Pages more and turns at the limiter are no step of it; the last page is its answer.
LEMMA StepIsStep == PageInv /\ [Next]_vars => [OneStep!FetchNext]_(OneStep!fetchVars)
<1>1. SUFFICES ASSUME PageInv, [Next]_vars PROVE [OneStep!FetchNext]_(OneStep!fetchVars)
  OBVIOUS
<1>2. CASE UNCHANGED <<request, answer>>
  <2>1. now' = now => [OneStep!FetchNext]_(OneStep!fetchVars)
    BY <1>2, MovesAre DEF Moves
  <2>2. Pass => OneStep!Pass
    BY <1>1, <1>2 DEF Pass, PageInv, OneStep!Pass
  <2>3. ASSUME NEW c, Acquire(c) \/ Receive(c) \/ ReceiveSymbols(c) \/ Fails(c) \/ Drop(c)
        PROVE  now' = now
    BY <2>3 DEF Acquire, Receive, ReceiveSymbols, Fails, Drop, clocks
  <2>4. ASSUME NEW c, NEW pair, NEW range, NEW interval, NEW raw,
               AskedSymbols(c) \/ Asked(c, pair, raw, range, interval)
        PROVE  now' = now
    <3>1. PICK end : Called(c, end)
      BY <2>4 DEF Asked, AskedSymbols
    <3>2. QED
      BY <3>1 DEF Called, clocks
  <2>5. Tick \/ UNCHANGED vars => now' = now
    BY DEF Tick, vars, clocks
  <2>6. now' = now \/ Pass
    <3>1. ASSUME NEW c \in Tasks, NEW pair \in Pairs, NEW range \in Ranges, NEW interval \in Intervals,
                 NEW raw \in Raws(pair), Asked(c, pair, raw, range, interval)
          PROVE  now' = now
      BY <2>4, <3>1
    <3>2. ASSUME NEW c \in Tasks, \/ AskedSymbols(c) \/ Acquire(c) \/ Receive(c) \/ ReceiveSymbols(c)
                                  \/ Error(c) \/ Unreadable(c) \/ Drop(c)
          PROVE  now' = now
      <4>1. AskedSymbols(c) => now' = now
        BY <2>4, Zenon
      <4>2. Fails(c) => now' = now
        BY <2>3, Zenon
      <4>3. Acquire(c) \/ Receive(c) \/ ReceiveSymbols(c) \/ Drop(c) => now' = now
        BY <2>3, Zenon
      <4>4. QED
        BY <3>2, <4>1, <4>2, <4>3 DEF Error, Unreadable
    <3>3. QED
      BY <1>1, <2>5, <3>1, <3>2, Zenon DEF Next
  <2>7. QED
    BY <2>1, <2>2, <2>6 DEF OneStep!FetchNext
<1>3. ASSUME NEW c \in Tasks, Only(c), now' = now
      PROVE  /\ Asking(request') = [Asking(request) EXCEPT ![c] = request'[c].range]
             /\ request'[c].range = request[c].range => Asking(request') = Asking(request)
             /\ Answered(answer') = [Answered(answer) EXCEPT ![c] =
                  [kind |-> answer'[c].kind, times |-> Times(answer'[c].bars)]]
             /\ answer'[c] = answer[c] => Answered(answer') = Answered(answer)
             /\ Asking(request)[c] = request[c].range
  <2>1. \A d \in Tasks : d # c => request'[d] = request[d] /\ answer'[d] = answer[d]
    BY <1>3 DEF Only, Same
  <2>2. Asking(request)[c] = request[c].range
    BY DEF Asking
  <2>3. /\ Asking(request') = [Asking(request) EXCEPT ![c] = request'[c].range]
        /\ request'[c].range = request[c].range => Asking(request') = Asking(request)
    <3>1. PICK f, g : f = request /\ g = request'
      OBVIOUS
    <3>2. \A d \in Tasks : d # c => g[d] = f[d]
      BY <2>1, <3>1
    <3>3. /\ Asking(g) = [Asking(f) EXCEPT ![c] = g[c].range]
          /\ g[c].range = f[c].range => Asking(g) = Asking(f)
      BY <3>2, AskingOne
    <3>4. QED
      BY <3>1, <3>3
  <2>4. /\ Answered(answer') = [Answered(answer) EXCEPT ![c] =
             [kind |-> answer'[c].kind, times |-> Times(answer'[c].bars)]]
        /\ answer'[c] = answer[c] => Answered(answer') = Answered(answer)
    <3>1. PICK f, g : f = answer /\ g = answer'
      OBVIOUS
    <3>2. \A d \in Tasks : d # c => g[d] = f[d]
      BY <2>1, <3>1
    <3>3. /\ Answered(g) = [Answered(f) EXCEPT ![c] = [kind |-> g[c].kind, times |-> Times(g[c].bars)]]
          /\ g[c] = f[c] => Answered(g) = Answered(f)
      BY <3>2, AnsweredOne
    <3>4. QED
      BY <3>1, <3>3
  <2>5. QED
    BY <2>2, <2>3, <2>4
<1>4. /\ NoRequest.range = NoRange
      /\ \A kind, bars : Answer(kind, bars).kind = kind /\ Answer(kind, bars).bars = bars
      /\ NoAnswer.kind = "none" /\ NoAnswer.bars = << >>
  BY DEF NoRequest, Answer, NoAnswer
<1>5. ASSUME NEW c \in Tasks, NEW pair \in Pairs, NEW range \in Ranges, NEW interval \in Intervals,
             NEW raw \in Raws(pair), Asked(c, pair, raw, range, interval)
      PROVE  [OneStep!FetchNext]_(OneStep!fetchVars)
  <2>1. now' = now /\ Only(c) /\ request[c] = NoRequest
    BY <1>1, <1>5, AskedDoes
  <2>2. CASE range.start >= range.end /\ request'[c] = NoRequest /\ answer'[c] = Answer("Ok", << >>)
    <3>1. /\ Asking(request') = Asking(request) /\ Asking(request)[c] = NoRange
          /\ Answered(answer') = [Answered(answer) EXCEPT ![c] = [kind |-> "Ok", times |-> << >>]]
      BY <1>3, <1>4, <2>1, <2>2, NoTimes
    <3>2. QED
      BY <2>1, <2>2, <3>1, MovesAre DEF Moves
  <2>3. CASE request'[c] = NoRequest /\ answer'[c] = Answer("Err", << >>)
    <3>1. /\ Asking(request') = Asking(request) /\ Asking(request)[c] = NoRange
          /\ Answered(answer') = [Answered(answer) EXCEPT ![c] = [kind |-> "Err", times |-> << >>]]
      BY <1>3, <1>4, <2>1, <2>3, NoTimes
    <3>2. QED
      BY <2>1, <3>1, MovesAre DEF Moves
  <2>4. CASE request'[c].range = range /\ answer'[c] = NoAnswer
    <3>1. /\ Asking(request') = [Asking(request) EXCEPT ![c] = range] /\ Asking(request)[c] = NoRange
          /\ Answered(answer') = [Answered(answer) EXCEPT ![c] = [kind |-> "none", times |-> << >>]]
      BY <1>3, <1>4, <2>1, <2>4, NoTimes
    <3>2. QED
      BY <2>1, <3>1, MovesAre DEF Moves
  <2>5. QED
    BY <1>1, <1>5, <2>2, <2>3, <2>4, AskedDoes
<1>6. ASSUME NEW c \in Tasks, Only(c), now' = now, request'[c].range = NoRange, answer'[c] = NoAnswer
      PROVE  [OneStep!FetchNext]_(OneStep!fetchVars)
  <2>1. /\ Asking(request') = [Asking(request) EXCEPT ![c] = NoRange]
        /\ Answered(answer') = [Answered(answer) EXCEPT ![c] = [kind |-> "none", times |-> << >>]]
    BY <1>3, <1>4, <1>6, NoTimes
  <2>2. QED
    BY <1>6, <2>1, MovesAre DEF Moves
<1>7. ASSUME NEW c \in Tasks, AskedSymbols(c) PROVE [OneStep!FetchNext]_(OneStep!fetchVars)
  <2>1. PICK r : r = [NoRequest EXCEPT !.kind = "symbols"]
    OBVIOUS
  <2>2. r.range = NoRange /\ Called(c, 0) /\ Begins(c, r, 0)
    BY <1>7, <2>1 DEF AskedSymbols, NoRequest
  <2>3. now' = now /\ Each(since') /\ \A d \in Tasks : d # c => since'[d] = since[d]
    BY <1>1, <2>2, CalledDoes
  <2>4. Only(c) /\ request'[c] = r /\ answer'[c] = NoAnswer
    BY <1>1, <2>2, <2>3, BeginDoes
  <2>5. QED
    BY <1>6, <2>2, <2>3, <2>4
<1>8. ASSUME NEW c \in Tasks, NEW a, Return(c, a), now' = now, since' = since
      PROVE  Only(c) /\ request'[c].range = NoRange /\ answer'[c] = a
  <2>1. Each(since')
    BY <1>1, <1>8 DEF PageInv
  <2>2. Only(c) /\ request'[c] = NoRequest /\ answer'[c] = a
    BY <1>1, <1>8, <2>1, ReturnDoes
  <2>3. QED
    BY <1>4, <2>2
<1>9. ASSUME NEW c \in Tasks, ReceiveSymbols(c) \/ Drop(c) PROVE [OneStep!FetchNext]_(OneStep!fetchVars)
  <2>1. Return(c, NoAnswer) /\ now' = now /\ since' = since
    BY <1>9 DEF ReceiveSymbols, Drop, clocks
  <2>2. QED
    BY <1>6, <1>8, <2>1
<1>10. ASSUME NEW c \in Tasks, Fails(c) PROVE [OneStep!FetchNext]_(OneStep!fetchVars)
  <2>1. Return(c, Answer("Err", << >>)) /\ now' = now /\ since' = since
    BY <1>10 DEF Fails, clocks
  <2>2. Only(c) /\ request'[c].range = NoRange /\ answer'[c] = Answer("Err", << >>)
    BY <1>8, <2>1
  <2>3. /\ Asking(request') = [Asking(request) EXCEPT ![c] = NoRange]
        /\ request[c].range = NoRange => Asking(request') = Asking(request)
        /\ Answered(answer') = [Answered(answer) EXCEPT ![c] = [kind |-> "Err", times |-> << >>]]
    BY <1>3, <1>4, <2>1, <2>2, NoTimes
  <2>4. Asking(request)[c] = request[c].range
    BY DEF Asking
  <2>5. QED
    BY <2>1, <2>3, <2>4, MovesAre DEF Moves
<1>11. ASSUME NEW c \in Tasks, Receive(c) PROVE [OneStep!FetchNext]_(OneStep!fetchVars)
  <2>1. now' = now /\ Only(c) /\ BarsInFlight(c) /\ now \in Nat /\ all_bars[c] \in Seq(Bars)
    BY <1>1, <1>11, ReceiveDoes DEF PageInv, CallInv
  <2>2. CASE request'[c] = request[c] /\ answer'[c] = answer[c]
    <3>1. Asking(request') = Asking(request) /\ Answered(answer') = Answered(answer)
      BY <1>3, <2>1, <2>2
    <3>2. QED
      BY <2>1, <3>1, MovesAre DEF Moves
  <2>3. CASE /\ ~ MorePages(c, FetchPage(c)) /\ request'[c] = NoRequest
             /\ answer'[c] = Answer("Ok", all_bars[c] \o FetchPage(c))
    <3>1. Times(all_bars[c] \o FetchPage(c)) = Ascending(InRange(c))
      BY <2>1, <2>3, LastPage
    <3>2. PICK range : range = request[c].range
      OBVIOUS
    <3>3. InRange(c) = {t \in Opens : range.start <= t /\ t <= range.end /\ t <= now}
      BY <3>2 DEF InRange
    <3>4. /\ Asking(request') = [Asking(request) EXCEPT ![c] = NoRange] /\ Asking(request)[c] = range
          /\ Answered(answer') = [Answered(answer) EXCEPT ![c] =
               [kind |-> "Ok", times |-> Ascending({t \in Opens : /\ range.start <= t /\ t <= range.end
                                                                  /\ t <= now})]]
      BY <1>3, <1>4, <2>1, <2>3, <3>1, <3>2, <3>3
    <3>5. range # NoRange
      BY <2>1, <3>2 DEF BarsInFlight, NoRange
    <3>6. QED
      BY <2>1, <3>4, <3>5, MovesAre DEF Moves
  <2>4. QED
    BY <1>1, <1>11, <2>2, <2>3, ReceiveDoes
<1>12. ASSUME NEW c \in Tasks, Acquire(c) PROVE [OneStep!FetchNext]_(OneStep!fetchVars)
  BY <1>2, <1>12 DEF Acquire
<1>13. CASE Tick \/ Pass \/ UNCHANGED vars
  BY <1>2, <1>13 DEF Tick, Pass, vars, call
<1>14. QED
  BY <1>1, <1>5, <1>7, <1>9, <1>10, <1>11, <1>12, <1>13, Zenon
     DEF Next, Error, Unreadable

\* FetchIsOneStep: fetch_with_pagination, whatever the other tasks of the limiter do and
\* however many bars open meanwhile, is a call of OneStepFetch: an error, or every bar of
\* the range as the exchange has them at the end of the call.  A second has two
\* milliseconds at least, or a page would start at the end and miss the bar there.
THEOREM PagesAreOneStep == Spec => FetchIsOneStep
<1>1. Init => OneStep!FetchInit
  <2>1. SUFFICES ASSUME Init PROVE OneStep!FetchInit
    OBVIOUS
  <2>2. NoRequest.range = NoRange /\ NoAnswer.kind = "none" /\ NoAnswer.bars = << >>
    BY DEF NoRequest, NoAnswer, Answer
  <2>3. now = 0 /\ \A c \in Tasks : request[c] = NoRequest /\ answer[c] = NoAnswer
    BY <2>1 DEF Init
  <2>4. [c \in Tasks |-> request[c].range] = [c \in Tasks |-> NoRange]
    BY <2>2, <2>3
  <2>5. Answered(answer) = [c \in Tasks |-> [kind |-> "none", times |-> << >>]]
    BY <2>2, <2>3, NoTimes DEF Answered
  <2>6. QED
    BY <2>3, <2>4, <2>5 DEF OneStep!FetchInit, OneStep!Gives, OneStep!NoRange, NoRange, Answered, Times
<1>2. PageInv /\ [Next]_vars => [OneStep!FetchNext]_(OneStep!fetchVars)
  BY StepIsStep
<1>3. QED
  BY <1>1, <1>2, PagesAreInOrder, PTL DEF Spec, FetchIsOneStep, OneStep!FetchSpec

-----------------------------------------------------------------------------
\* Names.

Marks == {"/", "-"}
Chars == Letters \cup Marks

LEMMA Tokens ==
  /\ \A token \in Bases \cup Quotes : /\ token \in Seq(Letters) /\ token \in Seq(Chars)
                                      /\ Len(token) \in Nat /\ Len(token) > 0
  /\ \A mark \in Marks : mark \notin Letters /\ <<mark>> \in Seq(Chars) /\ Len(<<mark>>) = 1
                         /\ <<mark>>[1] = mark
<1>1. ASSUME NEW token \in Bases \cup Quotes
      PROVE  /\ token \in Seq(Letters) /\ token \in Seq(Chars)
             /\ Len(token) \in Nat /\ Len(token) > 0
  <2>1. token \in Seq(Letters) /\ token # << >>
    BY TokenAssumption
  <2>2. token \in Seq(Chars)
    BY <2>1, SeqMonotonic DEF Chars
  <2>3. Len(token) \in Nat \ {0}
    BY <2>1, EmptySeq
  <2>4. QED
    BY <2>1, <2>2, <2>3
<1>2. ASSUME NEW mark \in Marks
      PROVE  mark \notin Letters /\ <<mark>> \in Seq(Chars) /\ Len(<<mark>>) = 1 /\ <<mark>>[1] = mark
  BY <1>2, TokenAssumption DEF Marks, Chars
<1>3. QED
  BY <1>1, <1>2

LEMMA SuffixIs ==
  ASSUME NEW S, NEW raw \in Seq(S), NEW n \in 0 .. Len(raw)
  PROVE  /\ Suffix(raw, n) \in Seq(S) /\ Len(Suffix(raw, n)) = n
         /\ \A i \in 1 .. n : Suffix(raw, n)[i] = raw[Len(raw) - n + i]
<1>1. Len(raw) \in Nat /\ \A i \in 1 .. Len(raw) : raw[i] \in S
  BY ElementOfSeq, LenProperties
<1>2. PICK m \in Int : m = Len(raw) - n + 1
  BY <1>1
<1>3. m >= 1 /\ \A i \in m .. Len(raw) : raw[i] \in S
  BY <1>1, <1>2
<1>4. /\ SubSeq(raw, m, Len(raw)) \in Seq(S)
      /\ Len(SubSeq(raw, m, Len(raw))) = IF m <= Len(raw) THEN Len(raw) - m + 1 ELSE 0
      /\ \A i \in 1 .. Len(raw) - m + 1 : SubSeq(raw, m, Len(raw))[i] = raw[m + i - 1]
  BY <1>1, <1>3, SubSeqProperties
<1>5. Suffix(raw, n) = SubSeq(raw, m, Len(raw))
  BY <1>2 DEF Suffix
<1>6. QED
  BY <1>1, <1>2, <1>4, <1>5

LEMMA PrefixIs ==
  ASSUME NEW S, NEW raw \in Seq(S), NEW n \in 0 .. Len(raw)
  PROVE  /\ Prefix(raw, n) \in Seq(S) /\ Len(Prefix(raw, n)) = n
         /\ \A i \in 1 .. n : Prefix(raw, n)[i] = raw[i]
<1>1. Len(raw) \in Nat /\ \A i \in 1 .. Len(raw) : raw[i] \in S
  BY ElementOfSeq, LenProperties
<1>2. \A i \in 1 .. n : raw[i] \in S
  BY <1>1
<1>3. /\ SubSeq(raw, 1, n) \in Seq(S)
      /\ Len(SubSeq(raw, 1, n)) = IF 1 <= n THEN n - 1 + 1 ELSE 0
      /\ \A i \in 1 .. n - 1 + 1 : SubSeq(raw, 1, n)[i] = raw[1 + i - 1]
  BY <1>1, <1>2, SubSeqProperties
<1>4. QED
  BY <1>1, <1>3 DEF Prefix

\* A name with a mark in it.
Marked(raw, base, mark, quote) ==
  base \in Bases /\ quote \in Quotes /\ mark \in Marks /\ raw = base \o <<mark>> \o quote

LEMMA MarkedIs ==
  ASSUME NEW base, NEW quote, NEW mark, NEW raw, Marked(raw, base, mark, quote)
  PROVE  /\ base \in Bases /\ quote \in Quotes /\ mark \in Marks
         /\ raw \in Seq(Chars) /\ Len(raw) = Len(base) + 1 + Len(quote)
         /\ raw[Len(base) + 1] = mark
         /\ \A i \in 1 .. Len(base) : raw[i] = base[i]
         /\ \A i \in 1 .. Len(quote) : raw[Len(base) + 1 + i] = quote[i]
<1>1. /\ base \in Seq(Chars) /\ Len(base) \in Nat /\ quote \in Seq(Chars) /\ Len(quote) \in Nat
      /\ <<mark>> \in Seq(Chars) /\ Len(<<mark>>) = 1 /\ <<mark>>[1] = mark
  BY Tokens DEF Marked
<1>2. PICK front : front = base \o <<mark>>
  OBVIOUS
<1>3. /\ front \in Seq(Chars) /\ Len(front) = Len(base) + 1
      /\ \A i \in 1 .. Len(base) + 1 : front[i] = IF i <= Len(base) THEN base[i]
                                                  ELSE <<mark>>[i - Len(base)]
  BY <1>1, <1>2, ConcatProperties
<1>4. /\ raw \in Seq(Chars) /\ Len(raw) = Len(front) + Len(quote)
      /\ \A i \in 1 .. Len(front) + Len(quote) :
           raw[i] = IF i <= Len(front) THEN front[i] ELSE quote[i - Len(front)]
  BY <1>1, <1>2, <1>3, ConcatProperties DEF Marked
<1>5. PICK m, n : m \in Nat /\ n \in Nat /\ m = Len(base) /\ n = Len(quote)
  BY <1>1
<1>6. front[m + 1] = mark /\ \A i \in 1 .. m : front[i] = base[i]
  <2>1. m + 1 - m = 1 /\ m + 1 \in 1 .. m + 1 /\ ~ (m + 1 <= m)
    BY <1>5
  <2>2. front[m + 1] = <<mark>>[1]
    BY <1>3, <1>5, <2>1
  <2>3. QED
    BY <1>1, <1>3, <1>5, <2>2
<1>7. raw[m + 1] = mark /\ \A i \in 1 .. m : raw[i] = base[i]
  BY <1>3, <1>4, <1>5, <1>6
<1>8. ASSUME NEW i \in 1 .. n PROVE raw[m + 1 + i] = quote[i]
  <2>1. m + 1 + i \in 1 .. m + 1 + n /\ ~ (m + 1 + i <= m + 1) /\ m + 1 + i - (m + 1) = i
    BY <1>5
  <2>2. PICK j \in 1 .. m + 1 + n : j = m + 1 + i /\ ~ (j <= m + 1) /\ j - (m + 1) = i
    BY <1>5, <2>1
  <2>3. raw[j] = quote[j - (m + 1)]
    BY <1>3, <1>4, <1>5, <2>2
  <2>4. QED
    BY <2>2, <2>3
<1>9. base \in Bases /\ quote \in Quotes /\ mark \in Marks
  BY DEF Marked
<1>10. QED
  BY <1>9, <1>3, <1>4, <1>5, <1>7, <1>8

\* It has one, and is split there.
LEMMA SplitMarked ==
  ASSUME NEW base, NEW quote, NEW mark, NEW raw, Marked(raw, base, mark, quote)
  PROVE  /\ Separators(raw, mark) # {} /\ Split(raw, mark) = {<<base, quote>>}
         /\ \A other \in Marks : other # mark => Separators(raw, other) = {}
<1>0. base \in Bases /\ quote \in Quotes /\ mark \in Marks
  BY MarkedIs
<1>1. PICK m, n : m \in Nat /\ n \in Nat /\ m = Len(base) /\ n = Len(quote)
  BY <1>0, Tokens
<1>2. /\ raw \in Seq(Chars) /\ Len(raw) = m + 1 + n /\ DOMAIN raw = 1 .. m + 1 + n
      /\ raw[m + 1] = mark
      /\ \A i \in 1 .. m : raw[i] = base[i]
      /\ \A i \in 1 .. n : raw[m + 1 + i] = quote[i]
  <2>1. /\ raw \in Seq(Chars) /\ Len(raw) = Len(base) + 1 + Len(quote)
        /\ raw[Len(base) + 1] = mark
        /\ \A i \in 1 .. Len(base) : raw[i] = base[i]
        /\ \A i \in 1 .. Len(quote) : raw[Len(base) + 1 + i] = quote[i]
    BY MarkedIs
  <2>2. DOMAIN raw = 1 .. Len(raw)
    BY <2>1, LenProperties
  <2>3. QED
    BY <1>1, <2>1, <2>2
<1>3. ASSUME NEW i \in 1 .. m + 1 + n, i # m + 1 PROVE raw[i] \in Letters
  <2>1. (\A j \in 1 .. m : base[j] \in Letters) /\ \A j \in 1 .. n : quote[j] \in Letters
    BY <1>0, <1>1, Tokens, ElementOfSeq
  <2>2. CASE i <= m
    BY <1>1, <1>2, <2>1, <2>2
  <2>3. CASE i > m + 1
    <3>1. PICK j \in 1 .. n : i = m + 1 + j
      <4>1. i - (m + 1) \in 1 .. n /\ i = m + 1 + (i - (m + 1))
        BY <1>1, <2>3
      <4>2. QED
        BY <4>1
    <3>2. QED
      BY <1>2, <2>1, <3>1
  <2>4. QED
    BY <1>1, <1>3, <2>2, <2>3
<1>4. Separators(raw, mark) = {m + 1}
  <2>1. mark \notin Letters
    BY <1>0, Tokens
  <2>2. QED
    BY <1>1, <1>2, <1>3, <2>1 DEF Separators
<1>5. ASSUME NEW other \in Marks, other # mark PROVE Separators(raw, other) = {}
  <2>1. other \notin Letters
    BY <1>0, Tokens
  <2>2. QED
    BY <1>2, <1>3, <1>5, <2>1 DEF Separators
<1>6. Split(raw, mark) = {<<Prefix(raw, m), Suffix(raw, n)>>}
  <2>1. Cardinality({m + 1}) = 1
    BY FS_Singleton
  <2>2. PICK place : place = m + 1 /\ place - 1 = m /\ Len(raw) - place = n
    BY <1>1, <1>2
  <2>3. Split(raw, mark) = {<<Prefix(raw, i - 1), Suffix(raw, Len(raw) - i)>> : i \in {place}}
    BY <1>4, <2>1, <2>2 DEF Split
  <2>4. QED
    BY <2>2, <2>3
<1>7. Prefix(raw, m) = base
  <2>1. m \in 0 .. Len(raw)
    BY <1>1, <1>2
  <2>2. /\ Prefix(raw, m) \in Seq(Chars) /\ Len(Prefix(raw, m)) = m
        /\ \A i \in 1 .. m : Prefix(raw, m)[i] = raw[i]
    BY <1>2, <2>1, PrefixIs
  <2>3. base \in Seq(Chars)
    BY <1>0, Tokens
  <2>4. Len(Prefix(raw, m)) = Len(base) /\ \A i \in 1 .. Len(Prefix(raw, m)) : Prefix(raw, m)[i] = base[i]
    BY <1>1, <1>2, <2>2
  <2>5. QED
    BY <2>2, <2>3, <2>4, SeqEqual
<1>8. Suffix(raw, n) = quote
  <2>1. n \in 0 .. Len(raw) /\ Len(raw) - n = m + 1
    BY <1>1, <1>2
  <2>2. /\ Suffix(raw, n) \in Seq(Chars) /\ Len(Suffix(raw, n)) = n
        /\ \A i \in 1 .. n : Suffix(raw, n)[i] = raw[Len(raw) - n + i]
    <3>1. raw \in Seq(Chars) /\ n \in 0 .. Len(raw)
      BY <1>2, <2>1
    <3>2. QED
      BY <3>1, SuffixIs
  <2>3. quote \in Seq(Chars)
    BY <1>0, Tokens
  <2>4. Len(Suffix(raw, n)) = Len(quote) /\ \A i \in 1 .. Len(Suffix(raw, n)) : Suffix(raw, n)[i] = quote[i]
    BY <1>1, <1>2, <2>1, <2>2
  <2>5. QED
    BY <2>2, <2>3, <2>4, SeqEqual
<1>9. QED
  BY <1>4, <1>5, <1>6, <1>7, <1>8

\* A name without a mark is parsed at the quote it was made with.
LEMMA ParsePlain ==
  ASSUME NEW base \in Bases, NEW quote \in Quotes, NEW raw, raw = base \o quote
  PROVE  /\ \A mark \in Marks : Separators(raw, mark) = {}
         /\ ParseUnseparated(raw) = {<<base, quote>>}
<1>1. PICK m, n : m \in Nat /\ n \in Nat /\ m = Len(base) /\ n = Len(quote) /\ m > 0
  BY Tokens
<1>2. base \in Seq(Letters) /\ quote \in Seq(Letters)
  BY Tokens
<1>3. /\ raw \in Seq(Letters) /\ Len(raw) = m + n
      /\ \A i \in 1 .. m + n : raw[i] = IF i <= m THEN base[i] ELSE quote[i - m]
  BY <1>1, <1>2, ConcatProperties
<1>4. DOMAIN raw = 1 .. m + n /\ \A i \in 1 .. m + n : raw[i] \in Letters
  BY <1>3, LenProperties, ElementOfSeq
<1>5. \A mark \in Marks : Separators(raw, mark) = {}
  BY <1>4, Tokens DEF Separators
<1>6. Suffix(raw, n) = quote
  <2>1. n \in 0 .. Len(raw) /\ Len(raw) - n = m
    BY <1>1, <1>3
  <2>2. /\ Suffix(raw, n) \in Seq(Letters) /\ Len(Suffix(raw, n)) = n
        /\ \A i \in 1 .. n : Suffix(raw, n)[i] = raw[m + i]
    BY <1>3, <2>1, SuffixIs
  <2>3. \A i \in 1 .. n : raw[m + i] = quote[i]
    <3>1. SUFFICES ASSUME NEW i \in 1 .. n PROVE raw[m + i] = quote[i]
      OBVIOUS
    <3>2. PICK j \in 1 .. m + n : j = m + i /\ ~ (j <= m) /\ j - m = i
      BY <1>1
    <3>3. raw[j] = quote[j - m]
      BY <1>3, <3>2
    <3>4. QED
      BY <3>2, <3>3
  <2>4. Len(Suffix(raw, n)) = Len(quote) /\ \A i \in 1 .. Len(Suffix(raw, n)) : Suffix(raw, n)[i] = quote[i]
    BY <1>1, <2>2, <2>3
  <2>5. QED
    BY <1>2, <2>2, <2>4, SeqEqual
<1>7. Prefix(raw, m) = base
  <2>1. m \in 0 .. Len(raw)
    BY <1>1, <1>3
  <2>2. /\ Prefix(raw, m) \in Seq(Letters) /\ Len(Prefix(raw, m)) = m
        /\ \A i \in 1 .. m : Prefix(raw, m)[i] = raw[i]
    BY <1>3, <2>1, PrefixIs
  <2>3. Len(Prefix(raw, m)) = Len(base) /\ \A i \in 1 .. Len(Prefix(raw, m)) : Prefix(raw, m)[i] = base[i]
    BY <1>1, <1>3, <2>2
  <2>4. QED
    BY <1>2, <2>2, <2>3, SeqEqual
<1>8. PICK ends : ends = {q \in Quotes : Len(q) < Len(raw) /\ Suffix(raw, Len(q)) = q}
  OBVIOUS
<1>9. quote \in ends
  BY <1>1, <1>3, <1>6, <1>8
<1>10. ASSUME NEW other \in ends PROVE Len(other) <= Len(quote)
  <2>1. PICK k : k \in Nat /\ k = Len(other) /\ k < m + n /\ other \in Quotes
    BY <1>3, <1>8, Tokens
  <2>2. SUFFICES ASSUME n < k PROVE FALSE
    BY <1>1, <2>1
  <2>3. \A i \in 1 .. k : other[i] = raw[m + n - k + i]
    <3>1. k \in 0 .. Len(raw)
      BY <1>1, <1>3, <2>1
    <3>2. \A i \in 1 .. k : Suffix(raw, k)[i] = raw[Len(raw) - k + i]
      BY <1>3, <3>1, SuffixIs
    <3>3. Suffix(raw, k) = other
      BY <1>8, <2>1
    <3>4. Len(raw) = m + n
      BY <1>3
    <3>5. SUFFICES ASSUME NEW i \in 1 .. k PROVE other[i] = raw[m + n - k + i]
      OBVIOUS
    <3>6. Suffix(raw, k)[i] = raw[Len(raw) - k + i]
      BY <3>2
    <3>7. QED
      BY <1>1, <2>1, <3>3, <3>4, <3>6
  <2>4. /\ Suffix(other, n) \in Seq(Letters) /\ Len(Suffix(other, n)) = n
        /\ \A i \in 1 .. n : Suffix(other, n)[i] = other[k - n + i]
    <3>1. n \in 0 .. Len(other) /\ other \in Seq(Letters)
      BY <1>1, <2>1, <2>2, Tokens
    <3>2. QED
      BY <2>1, <3>1, SuffixIs
  <2>5. ASSUME NEW i \in 1 .. n PROVE Suffix(other, n)[i] = quote[i]
    <3>1. PICK h \in 1 .. k : h = k - n + i /\ m + n - k + h = m + i
      <4>1. k - n + i \in 1 .. k /\ m + n - k + (k - n + i) = m + i
        BY <1>1, <2>1, <2>2
      <4>2. QED
        BY <4>1
    <3>2. PICK j \in 1 .. m + n : j = m + i /\ ~ (j <= m) /\ j - m = i
      BY <1>1
    <3>3. other[h] = raw[m + n - k + h]
      BY <2>3, <3>1
    <3>4. raw[j] = quote[j - m]
      BY <1>3, <3>2
    <3>5. Suffix(other, n)[i] = other[k - n + i]
      BY <2>4
    <3>6. QED
      BY <3>1, <3>2, <3>3, <3>4, <3>5
  <2>6. Suffix(other, n) = quote
    BY <1>1, <1>2, <2>4, <2>5, SeqEqual
  <2>7. QED
    BY <1>1, <2>1, <2>2, <2>6, QuoteAssumption
<1>11. ASSUME NEW other \in ends, \A q \in ends : Len(q) <= Len(other) PROVE other = quote
  <2>1. Len(other) = n
    BY <1>1, <1>9, <1>10, <1>11, <1>8, Tokens
  <2>2. QED
    BY <1>6, <1>8, <2>1
<1>12. {q \in ends : \A other \in ends : Len(other) <= Len(q)} = {quote}
  BY <1>9, <1>10, <1>11
<1>13. ParseUnseparated(raw) = {<<Prefix(raw, Len(raw) - Len(q)), q>> : q \in {quote}}
  BY <1>8, <1>12 DEF ParseUnseparated
<1>14. Len(raw) - Len(quote) = m
  BY <1>1, <1>3
<1>15. QED
  BY <1>5, <1>7, <1>13, <1>14

\* Taken for a name without a mark, one that has a mark is of no known tokens.
LEMMA ParseMarked ==
  ASSUME NEW base, NEW quote, NEW mark, NEW raw, Marked(raw, base, mark, quote)
  PROVE  Valid(ParseUnseparated(raw)) = {}
<1>0. base \in Bases /\ quote \in Quotes /\ mark \in Marks
  BY MarkedIs
<1>1. PICK m, n : m \in Nat /\ n \in Nat /\ m = Len(base) /\ n = Len(quote)
  BY <1>0, Tokens
<1>2. raw \in Seq(Chars) /\ Len(raw) = m + 1 + n /\ raw[m + 1] = mark
  BY <1>1, MarkedIs
<1>3. mark \notin Letters
  BY <1>0, Tokens
<1>4. SUFFICES ASSUME NEW p \in ParseUnseparated(raw), p[1] \in Bases, p[2] \in Quotes PROVE FALSE
  BY DEF Valid
<1>5. PICK q \in Quotes : /\ Len(q) < Len(raw) /\ Suffix(raw, Len(q)) = q
                          /\ p = <<Prefix(raw, Len(raw) - Len(q)), q>>
  BY <1>4 DEF ParseUnseparated
<1>6. PICK k : k \in Nat /\ k = Len(q) /\ k < m + 1 + n
  BY <1>2, <1>5, Tokens
<1>7. PICK rest : rest = Prefix(raw, m + 1 + n - k) /\ rest \in Bases
  <2>1. p[1] = Prefix(raw, Len(raw) - Len(q))
    BY <1>5
  <2>2. Len(raw) - Len(q) = m + 1 + n - k
    BY <1>1, <1>2, <1>6
  <2>3. QED
    BY <1>4, <2>1, <2>2
<1>8. CASE k <= n
  <2>1. m + 1 + n - k \in 0 .. Len(raw) /\ m + 1 \in 1 .. m + 1 + n - k
    BY <1>1, <1>2, <1>6, <1>8
  <2>2. rest[m + 1] = mark /\ Len(rest) = m + 1 + n - k
    BY <1>2, <1>7, <2>1, PrefixIs
  <2>3. rest[m + 1] \in Letters
    BY <1>7, <2>1, <2>2, Tokens, ElementOfSeq
  <2>4. QED
    BY <1>3, <2>2, <2>3
<1>9. CASE n < k
  <2>1. k \in 0 .. Len(raw) /\ k - n \in 1 .. k /\ Len(raw) - k + (k - n) = m + 1
    BY <1>1, <1>2, <1>6, <1>9
  <2>2. q[k - n] = mark
    <3>1. \A i \in 1 .. k : Suffix(raw, k)[i] = raw[Len(raw) - k + i]
      BY <1>2, <2>1, SuffixIs
    <3>2. PICK i \in 1 .. k : i = k - n /\ Len(raw) - k + i = m + 1
      BY <2>1
    <3>3. Suffix(raw, k)[i] = raw[m + 1]
      BY <3>1, <3>2
    <3>4. QED
      BY <1>2, <1>5, <1>6, <3>2, <3>3
  <2>3. q[k - n] \in Letters
    BY <1>6, <2>1, Tokens, ElementOfSeq
  <2>4. QED
    BY <1>3, <2>2, <2>3
<1>10. QED
  BY <1>1, <1>6, <1>8, <1>9

LEMMA Exchanges ==
  /\ DOMAIN Priority = 1 .. 3
  /\ Priority[1] = "binance" /\ Priority[2] = "okx" /\ Priority[3] = "bybit"
  /\ ToSet(Priority) = {"binance", "okx", "bybit"}
<1>1. /\ DOMAIN Priority = 1 .. 3
      /\ Priority[1] = "binance" /\ Priority[2] = "okx" /\ Priority[3] = "bybit"
  BY DEF Priority
<1>2. ToSet(Priority) = {Priority[i] : i \in 1 .. 3}
  BY <1>1 DEF ToSet
<1>3. QED
  BY <1>1, <1>2

LEMMA ValidOne ==
  ASSUME NEW base \in Bases, NEW quote \in Quotes
  PROVE  Valid({<<base, quote>>}) = {<<base, quote>>}
BY DEF Valid

LEMMA StandardOne ==
  ASSUME NEW base, NEW quote, NEW parts, parts = {<<base, quote>>}
  PROVE  {Standard(p[1], p[2]) : p \in parts} = {Standard(base, quote)}
<1>1. PICK p : p = <<base, quote>>
  OBVIOUS
<1>2. p[1] = base /\ p[2] = quote /\ parts = {p}
  BY <1>1
<1>3. QED
  BY <1>2

\* normalize, of the three ways to write a pair.
LEMMA NormalizeStandard ==
  ASSUME NEW base, NEW quote, NEW raw, Marked(raw, base, "/", quote), NEW exchange
  PROVE  Normalize(raw, exchange) = {Standard(base, quote)}
<1>1. base \in Bases /\ quote \in Quotes /\ "/" \in Marks
  BY DEF Marked
<1>2. Separators(raw, "/") # {} /\ Split(raw, "/") = {<<base, quote>>}
  BY SplitMarked
<1>3. Normalize(raw, exchange) = {Standard(p[1], p[2]) : p \in Valid(Split(raw, "/"))}
  BY <1>2 DEF Normalize
<1>4. Valid(Split(raw, "/")) = {<<base, quote>>}
  BY <1>1, <1>2, ValidOne
<1>5. QED
  BY <1>3, <1>4, StandardOne

LEMMA NormalizeOkx ==
  ASSUME NEW base, NEW quote, NEW raw, Marked(raw, base, "-", quote), NEW exchange
  PROVE  Normalize(raw, exchange) =
           IF exchange = "okx" THEN {Standard(base, quote)} ELSE {}
<1>1. base \in Bases /\ quote \in Quotes /\ "/" \in Marks /\ "/" # "-"
  BY DEF Marked, Marks
<1>2. Separators(raw, "/") = {} /\ Split(raw, "-") = {<<base, quote>>}
  BY <1>1, SplitMarked
<1>3. Normalize(raw, exchange) = {Standard(p[1], p[2]) : p \in Valid(Parse(exchange, raw))}
  BY <1>2 DEF Normalize
<1>4. CASE exchange = "okx"
  <2>1. Valid(Parse(exchange, raw)) = {<<base, quote>>}
    BY <1>1, <1>2, <1>4, ValidOne DEF Parse
  <2>2. QED
    BY <1>3, <1>4, <2>1, StandardOne
<1>5. CASE exchange # "okx"
  <2>1. Valid(Parse(exchange, raw)) = {}
    BY <1>5, ParseMarked DEF Parse
  <2>2. QED
    BY <1>3, <1>5, <2>1
<1>6. QED
  BY <1>4, <1>5

LEMMA NormalizePlain ==
  ASSUME NEW base \in Bases, NEW quote \in Quotes, NEW raw, raw = base \o quote,
         NEW exchange, exchange # "okx"
  PROVE  Normalize(raw, exchange) = {Standard(base, quote)}
<1>1. Separators(raw, "/") = {} /\ ParseUnseparated(raw) = {<<base, quote>>}
  BY ParsePlain DEF Marks
<1>2. Normalize(raw, exchange) = {Standard(p[1], p[2]) : p \in Valid(Parse(exchange, raw))}
  BY <1>1 DEF Normalize
<1>3. Valid(Parse(exchange, raw)) = {<<base, quote>>}
  BY <1>1, ValidOne DEF Parse
<1>4. QED
  BY <1>2, <1>3

\* parse_engine_config takes the first exchange whose format fits.
LEMMA FirstFits ==
  ASSUME NEW raw, NEW name, NEW i \in 1 .. 3, Normalize(raw, Priority[i]) = {name},
         \A j \in 1 .. 3 : j < i => Normalize(raw, Priority[j]) = {}
  PROVE  EngineSymbol(raw) = name
<1>1. PICK fits : fits = {j \in DOMAIN Priority : Normalize(raw, Priority[j]) # {}}
  OBVIOUS
<1>2. i \in fits /\ \A j \in fits : j \in 1 .. 3 /\ i <= j
  BY <1>1, Exchanges
<1>3. (CHOOSE k \in fits : \A j \in fits : k <= j) = i
  <2>1. \A k \in fits : (\A j \in fits : k <= j) => k = i
    BY <1>2
  <2>2. QED
    BY <1>2, <2>1
<1>4. EngineSymbol(raw) =
        CHOOSE n \in Normalize(raw, Priority[CHOOSE k \in fits : \A j \in fits : k <= j]) : TRUE
  BY <1>1, <1>2 DEF EngineSymbol
<1>5. EngineSymbol(raw) = CHOOSE n \in {name} : TRUE
  BY <1>3, <1>4
<1>6. QED
  BY <1>5

\* The server takes each way to write a pair for the pair.
LEMMA EngineKnows ==
  ASSUME NEW base \in Bases, NEW quote \in Quotes,
         NEW raw, raw \in {Standard(base, quote), base \o <<"-">> \o quote, base \o quote}
  PROVE  EngineSymbol(raw) = Standard(base, quote)
<1>0. PICK first, second : first = 1 /\ second = 2 /\ first \in 1 .. 3 /\ second \in 1 .. 3
  OBVIOUS
<1>1. CASE raw = Standard(base, quote)
  <2>1. Marked(raw, base, "/", quote)
    BY <1>1 DEF Marked, Marks, Standard
  <2>2. /\ Normalize(raw, Priority[first]) = {Standard(base, quote)}
        /\ \A j \in 1 .. 3 : j < first => Normalize(raw, Priority[j]) = {}
    BY <1>0, <2>1, NormalizeStandard
  <2>3. QED
    BY <1>0, <2>2, FirstFits
<1>2. CASE raw = base \o <<"-">> \o quote
  <2>1. Marked(raw, base, "-", quote)
    BY <1>2 DEF Marked, Marks
  <2>2. /\ \A j \in 1 .. 3 : j < second => Normalize(raw, Priority[j]) = {}
        /\ Normalize(raw, Priority[second]) = {Standard(base, quote)}
    BY <1>0, <2>1, NormalizeOkx, Exchanges
  <2>3. QED
    BY <1>0, <2>2, FirstFits
<1>3. CASE raw = base \o quote
  <2>1. /\ Normalize(raw, Priority[first]) = {Standard(base, quote)}
        /\ \A j \in 1 .. 3 : j < first => Normalize(raw, Priority[j]) = {}
    <3>1. Priority[first] # "okx" /\ \A j \in 1 .. 3 : ~ (j < first)
      BY <1>0, Exchanges
    <3>2. QED
      BY <1>3, <3>1, NormalizePlain
  <2>2. QED
    BY <1>0, <2>1, FirstFits
<1>4. QED
  BY <1>1, <1>2, <1>3

LEMMA DenormalizeStandard ==
  ASSUME NEW base \in Bases, NEW quote \in Quotes, NEW exchange
  PROVE  Denormalize(Standard(base, quote), exchange) = {Format(exchange, base, quote)}
<1>1. PICK standard : standard = Standard(base, quote)
  OBVIOUS
<1>2. Marked(standard, base, "/", quote)
  BY <1>1 DEF Marked, Marks, Standard
<1>3. Valid(Split(standard, "/")) = {<<base, quote>>}
  BY <1>2, SplitMarked, ValidOne
<1>4. Denormalize(standard, exchange) = {Format(exchange, p[1], p[2]) : p \in {<<base, quote>>}}
  BY <1>3 DEF Denormalize
<1>5. QED
  BY <1>1, <1>4

\* The name of a pair at an exchange comes back as the pair.
LEMMA FormatComesBack ==
  ASSUME NEW base \in Bases, NEW quote \in Quotes, NEW exchange
  PROVE  /\ Normalize(Format(exchange, base, quote), exchange) = {Standard(base, quote)}
         /\ EngineSymbol(Format(exchange, base, quote)) = Standard(base, quote)
<1>1. PICK raw : raw = Format(exchange, base, quote)
  OBVIOUS
<1>2. CASE exchange = "okx"
  <2>1. raw = base \o <<"-">> \o quote
    BY <1>1, <1>2 DEF Format
  <2>2. Marked(raw, base, "-", quote)
    BY <2>1 DEF Marked, Marks
  <2>3. QED
    BY <1>1, <1>2, <2>1, <2>2, NormalizeOkx, EngineKnows
<1>3. CASE exchange # "okx"
  <2>1. raw = base \o quote
    BY <1>1, <1>3 DEF Format
  <2>2. Normalize(raw, exchange) = {Standard(base, quote)}
    BY <1>3, <2>1, NormalizePlain
  <2>3. EngineSymbol(raw) = Standard(base, quote)
    BY <2>1, EngineKnows
  <2>4. QED
    BY <1>1, <2>2, <2>3
<1>4. QED
  BY <1>2, <1>3

\* Every known pair, in the format of any exchange, is taken for that pair by the exchange's
\* format and by the server.
LEMMA TripsAreRound == RoundTrips
<1>1. ASSUME NEW e \in ToSet(Priority), NEW pair \in Pair PROVE RoundTrip(e, pair)
  <2>1. pair.base \in Bases /\ pair.quote \in Quotes
    BY DEF Pair
  <2>2. Denormalize(Standard(pair.base, pair.quote), e) = {Format(e, pair.base, pair.quote)}
    BY <2>1, DenormalizeStandard
  <2>3. QED
    BY <2>1, <2>2, FormatComesBack DEF RoundTrip
<1>2. QED
  BY <1>1 DEF RoundTrips

\* A name that no format knows is left as it is, and no exchange has a name for it.
LEMMA UnknownStays ==
  ASSUME NEW raw, \A e \in ToSet(Priority) : Normalize(raw, e) = {}, NEW exchange
  PROVE  Denormalize(EngineSymbol(raw), exchange) = {}
<1>1. EngineSymbol(raw) = raw
  <2>1. {i \in DOMAIN Priority : Normalize(raw, Priority[i]) # {}} = {}
    BY Exchanges
  <2>2. QED
    BY <2>1 DEF EngineSymbol
<1>2. Valid(Split(raw, "/")) = {}
  <2>1. CASE Separators(raw, "/") = {}
    <3>1. Cardinality(Separators(raw, "/")) # 1
      BY <2>1, FS_EmptySet
    <3>2. Split(raw, "/") = {}
      BY <3>1 DEF Split
    <3>3. QED
      BY <3>2 DEF Valid
  <2>2. CASE Separators(raw, "/") # {}
    <3>1. Normalize(raw, "okx") = {} /\
          Normalize(raw, "okx") = {Standard(p[1], p[2]) : p \in Valid(Split(raw, "/"))}
      BY <2>2, Exchanges DEF Normalize
    <3>2. QED
      BY <3>1
  <2>3. QED
    BY <2>1, <2>2
<1>3. QED
  BY <1>1, <1>2 DEF Denormalize

\* Of what a user writes for a pair, an exchange gets its name of that pair.
LEMMA AskedByName ==
  ASSUME NEW pair \in Pairs, NEW raw \in Raws(pair), NEW exchange,
         NEW name \in Denormalize(EngineSymbol(raw), exchange)
  PROVE  name = Format(exchange, pair.base, pair.quote)
<1>1. pair.base \in Bases /\ pair.quote \in Quotes
  BY ExchangeAssumption DEF Pair
<1>2. CASE \A e \in ToSet(Priority) : Normalize(raw, e) = {}
  BY <1>2, UnknownStays
<1>3. CASE \E separator \in {<< >>, <<"/">>, <<"-">>} : raw = pair.base \o separator \o pair.quote
  <2>1. PICK separator \in {<< >>, <<"/">>, <<"-">>} : raw = pair.base \o separator \o pair.quote
    BY <1>3
  <2>2. pair.base \o << >> = pair.base
    BY <1>1, Tokens, ConcatEmptySeq
  <2>3. raw \in {Standard(pair.base, pair.quote), pair.base \o <<"-">> \o pair.quote,
                 pair.base \o pair.quote}
    BY <2>1, <2>2 DEF Standard
  <2>4. EngineSymbol(raw) = Standard(pair.base, pair.quote)
    BY <1>1, <2>3, EngineKnows
  <2>5. QED
    BY <1>1, <2>4, DenormalizeStandard
<1>4. QED
  BY <1>2, <1>3, RawsAssumption

\* A request for bars has the exchange's name of the pair that was meant.
Named(r, exchange) ==
  r.kind = "bars" =>
    \E pair \in Pairs : /\ r.pair = Standard(pair.base, pair.quote)
                        /\ r.name = Format(exchange, pair.base, pair.quote)

NameInv == adapter \in Adapters /\ \A c \in Tasks : Named(request[c], adapter)

LEMMA NoneNamed ==
  \A e : Named(NoRequest, e) /\ Named([NoRequest EXCEPT !.kind = "symbols"], e)
BY DEF Named, NoRequest

LEMMA NameNext == PageInv /\ NameInv /\ [Next]_vars => NameInv'
<1>1. SUFFICES ASSUME PageInv, NameInv, [Next]_vars PROVE NameInv'
  OBVIOUS
<1>2. PICK e : e = adapter
  OBVIOUS
<1>3. e \in Adapters /\ \A c \in Tasks : Named(request[c], e)
  BY <1>1, <1>2 DEF NameInv
<1>4. ASSUME adapter' = adapter, NEW c \in Tasks, Named(request'[c], e),
             \A d \in Tasks : d # c => request'[d] = request[d]
      PROVE  NameInv'
  BY <1>2, <1>3, <1>4 DEF NameInv
<1>5. ASSUME adapter' = adapter, request' = request PROVE NameInv'
  BY <1>2, <1>3, <1>5 DEF NameInv
<1>6. Each(request) /\ Each(since)
  BY <1>1 DEF PageInv
<1>7. ASSUME adapter' = adapter, NEW c \in Tasks, NEW r, Named(r, e), request' = [request EXCEPT ![c] = r]
      PROVE  NameInv'
  <2>1. SetAt(request', request, c, r)
    BY <1>6, <1>7, EachExcept
  <2>2. QED
    BY <1>4, <1>7, <2>1 DEF SetAt
<1>8. ASSUME adapter' = adapter, NEW c \in Tasks, NEW a, Return(c, a) PROVE NameInv'
  BY <1>7, <1>8, NoneNamed DEF Return
<1>9. ASSUME NEW c \in Tasks, NEW pair \in Pairs, NEW range \in Ranges, NEW interval \in Intervals,
             NEW raw \in Raws(pair), Asked(c, pair, raw, range, interval)
      PROVE  NameInv'
  <2>1. adapter' = adapter
    BY <1>9 DEF Asked, Called, clocks
  <2>2. Names[adapter][raw] = Denormalize(EngineSymbol(raw), e)
    BY <1>2, <1>3 DEF Names
  <2>3. ASSUME NEW name \in Denormalize(EngineSymbol(raw), e),
               Begins(c, [kind |-> "bars", name |-> name, range |-> range,
                          pair |-> Standard(pair.base, pair.quote)], Millis * range.start)
        PROVE  NameInv'
    <3>1. PICK r : r = [kind |-> "bars", name |-> name, range |-> range,
                        pair |-> Standard(pair.base, pair.quote)]
      OBVIOUS
    <3>2. r.pair = Standard(pair.base, pair.quote) /\ r.name = Format(e, pair.base, pair.quote)
      BY <2>3, <3>1, AskedByName
    <3>3. Named(r, e)
      BY <3>2 DEF Named
    <3>4. request' = [request EXCEPT ![c] = r]
      BY <2>3, <3>1 DEF Begins
    <3>5. QED
      BY <1>7, <2>1, <3>3, <3>4
  <2>4. \/ Return(c, Answer("Ok", << >>))
        \/ Return(c, Answer("Err", << >>))
        \/ \E name \in Denormalize(EngineSymbol(raw), e) :
             Begins(c, [kind |-> "bars", name |-> name, range |-> range,
                        pair |-> Standard(pair.base, pair.quote)], Millis * range.start)
    BY <1>9, <2>2, Zenon DEF Asked
  <2>5. QED
    BY <1>8, <2>1, <2>3, <2>4
<1>10. ASSUME NEW c \in Tasks, AskedSymbols(c) PROVE NameInv'
  BY <1>7, <1>10, NoneNamed DEF AskedSymbols, Called, Begins, clocks
<1>11. ASSUME NEW c \in Tasks, Acquire(c) PROVE NameInv'
  BY <1>5, <1>11 DEF Acquire, clocks
<1>12. ASSUME NEW c \in Tasks, Receive(c) PROVE NameInv'
  <2>1. adapter' = adapter /\ (request' = request \/ \E a : Return(c, a))
    BY <1>12 DEF Receive, clocks
  <2>2. QED
    BY <1>5, <1>8, <2>1
<1>13. ASSUME NEW c \in Tasks, Fails(c) \/ ReceiveSymbols(c) \/ Drop(c) PROVE NameInv'
  <2>1. adapter' = adapter /\ \E a : Return(c, a)
    BY <1>13 DEF Fails, ReceiveSymbols, Drop, clocks
  <2>2. QED
    BY <1>8, <2>1
<1>14. CASE Tick \/ Pass \/ UNCHANGED vars
  BY <1>5, <1>14 DEF Tick, Pass, vars, clocks, call
<1>15. QED
  BY <1>1, <1>9, <1>10, <1>11, <1>12, <1>13, <1>14, Zenon DEF Next, Error, Unreadable

\* SymbolNormalizer and parse_engine_config: for every list of known tokens in which no quote is
\* the end of another, each pair comes back from the format of each exchange, for the server
\* too; and a request for bars is always of the pair the user meant, however it was written.
THEOREM SymbolsAlwaysComeBack == Spec => []SymbolsComeBack
<1>1. Init => NameInv
  <2>1. SUFFICES ASSUME Init PROVE NameInv
    OBVIOUS
  <2>2. adapter \in Adapters /\ \A c \in Tasks : request[c] = NoRequest
    BY <2>1 DEF Init
  <2>3. QED
    BY <2>2, NoneNamed DEF NameInv
<1>2. NameInv => SymbolsComeBack
  <2>1. SUFFICES ASSUME NameInv, NEW c \in Tasks, request[c].kind = "bars"
                 PROVE  Normalize(request[c].name, adapter) = {request[c].pair}
    BY TripsAreRound DEF SymbolsComeBack
  <2>2. PICK pair \in Pairs : /\ request[c].pair = Standard(pair.base, pair.quote)
                              /\ request[c].name = Format(adapter, pair.base, pair.quote)
    BY <2>1 DEF NameInv, Named
  <2>3. pair.base \in Bases /\ pair.quote \in Quotes
    BY ExchangeAssumption DEF Pair
  <2>4. QED
    BY <2>2, <2>3, FormatComesBack
<1>3. QED
  BY <1>1, <1>2, PageInvInit, PageInvNext, NameNext, PTL DEF Spec

=============================================================================
