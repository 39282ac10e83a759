--------------------------- MODULE FrontendProofs ---------------------------
(***************************************************************************)
(* Theorems about the page: the chart stays in order over connections that *)
(* are lost, replaced and left behind.                                     *)
(*                                                                         *)
(* The invariant says of every connection what may be on its way: only the *)
(* page's own connection, once it is open, carries answers, they are in    *)
(* order, come after what the chart shows, and no request on its way is    *)
(* for a backtest before theirs.                                           *)
(***************************************************************************)
EXTENDS Frontend, FoldTheorems, SequenceTheorems

-----------------------------------------------------------------------------
\* What a connection carries.

Requests == [type : {"subscribe", "play"}, id : Nat, index : Nat, bar : Nat]
Answers == [type : {"snapshot", "bar_update", "complete"}, id : Nat, index : Nat, bar : Nat]
Shown == [id : Nat, bar : Nat]
States == {"connecting", "open", "closing", "closed"}

\* By backtest, and of one backtest by bar.
Before(a, b) == a.id < b.id \/ (a.id = b.id /\ a.bar < b.bar)
NotAfter(a, b) == a.id < b.id \/ (a.id = b.id /\ a.bar <= b.bar)

\* The socket s, while the page's is w: what is on its way is in order, and comes after
\* what the chart shows.  Only the page's own connection, once it is open, carries answers.
Line(s, w, state, up, down, servers, chart) ==
  /\ state \in States /\ up \in Seq(Requests) /\ down \in Seq(Answers)
  /\ ~ (s = w /\ state = "open") => down = << >>
  /\ state = "connecting" \/ (state = "open" /\ s # w) => up = << >>
  /\ \A i \in DOMAIN up : up[i].id \in 1 .. Len(servers)
  /\ \A i, j \in DOMAIN up : i < j => up[i].id <= up[j].id
  /\ \A i \in DOMAIN down : /\ down[i].id \in 1 .. Len(servers)
                            /\ down[i].bar <= servers[down[i].id]
  /\ \A i, j \in DOMAIN down : i < j => NotAfter(down[i], down[j])
  /\ \A i \in DOMAIN chart, j \in DOMAIN down : NotAfter(chart[i], down[j])
  /\ state = "open" =>
       \A i \in DOMAIN up : /\ \A j \in DOMAIN down : down[j].id <= up[i].id
                            /\ \A j \in DOMAIN chart : chart[j].id <= up[i].id

\* The chart is in order, and shows no bar after the ones the servers would show now.
Chart(servers, chart) ==
  /\ servers \in Seq(Nat) /\ chart \in Seq(Shown)
  /\ \A i \in DOMAIN chart : /\ chart[i].id \in 1 .. Len(servers)
                             /\ chart[i].bar <= servers[chart[i].id]
  /\ \A i, j \in DOMAIN chart : i < j => Before(chart[i], chart[j])

LEMMA TailOf ==
  ASSUME NEW T, NEW s \in Seq(T), s # << >>
  PROVE  /\ Tail(s) \in Seq(T) /\ s[1] \in T /\ Head(s) = s[1] /\ 1 \in DOMAIN s
         /\ \A i \in DOMAIN Tail(s) : /\ i + 1 \in DOMAIN s /\ Tail(s)[i] = s[i + 1]
                                       /\ i \in Nat /\ 1 < i + 1
<1>1. PICK n \in Nat : n = Len(s) /\ DOMAIN s = 1 .. n /\ n >= 1
  <2>1. PICK n \in Nat : n = Len(s) /\ DOMAIN s = 1 .. n
    OBVIOUS
  <2>2. n # 0
    BY <2>1
  <2>3. QED
    BY <2>1, <2>2
<1>2. Tail(s) \in Seq(T) /\ Len(Tail(s)) = n - 1 /\ \A i \in 1 .. n - 1 : Tail(s)[i] = s[i + 1]
  BY <1>1, HeadTailProperties
<1>3. DOMAIN Tail(s) = 1 .. n - 1
  BY <1>2
<1>4. QED
  BY <1>1, <1>2, <1>3

LEMMA AppendTo ==
  ASSUME NEW T, NEW s \in Seq(T), NEW x \in T
  PROVE  /\ Append(s, x) \in Seq(T) /\ Len(s) \in Nat
         /\ DOMAIN s = 1 .. Len(s) /\ DOMAIN Append(s, x) = 1 .. Len(s) + 1
         /\ \A i \in 1 .. Len(s) : Append(s, x)[i] = s[i]
         /\ Append(s, x)[Len(s) + 1] = x
  OBVIOUS

\* A connection that is made, opens or ends.
LEMMA NewLine ==
  ASSUME NEW s, NEW w, NEW state \in {"connecting", "closed", "open"}, NEW servers, NEW chart
  PROVE  Line(s, w, state, << >>, << >>, servers, chart)
BY DEF Line, States

LEMMA EndedLine ==
  ASSUME NEW s, NEW w, NEW v, NEW state, NEW up, NEW down, NEW servers, NEW chart,
         Line(s, w, state, up, down, servers, chart), NEW end \in {"closing", "closed"}
  PROVE  Line(s, v, end, up, << >>, servers, chart)
<1>1. /\ end \in States /\ end # "connecting" /\ end # "open"
      /\ << >> \in Seq(Answers) /\ DOMAIN << >> = {}
  BY DEF States
<1>2. QED
  BY <1>1 DEF Line

\* A connection that is not open may be left, or taken.
LEMMA LeftLine ==
  ASSUME NEW s, NEW w, NEW v, NEW state, NEW up, NEW down, NEW servers, NEW chart,
         Line(s, w, state, up, down, servers, chart), state # "open" \/ (s # w /\ s # v)
  PROVE  Line(s, v, state, up, down, servers, chart)
BY DEF Line

\* The chart is cleared.
LEMMA ClearedLine ==
  ASSUME NEW s, NEW w, NEW state, NEW up, NEW down, NEW servers, NEW chart,
         Line(s, w, state, up, down, servers, chart)
  PROVE  Line(s, w, state, up, down, servers, << >>)
BY DEF Line

LEMMA ClearedChart ==
  ASSUME NEW servers, NEW chart, Chart(servers, chart)
  PROVE  Chart(servers, << >>)
BY DEF Chart

\* Engines go on, and there are more of them.
Grows(servers, servers2) ==
  /\ servers \in Seq(Nat) /\ servers2 \in Seq(Nat) /\ Len(servers) <= Len(servers2)
  /\ \A i \in 1 .. Len(servers) : servers[i] <= servers2[i]

LEMMA GrownLine ==
  ASSUME NEW s, NEW w, NEW state, NEW up, NEW down, NEW servers, NEW servers2, NEW chart,
         Line(s, w, state, up, down, servers, chart), Grows(servers, servers2)
  PROVE  Line(s, w, state, up, down, servers2, chart)
<1>1. Len(servers) \in Nat /\ Len(servers2) \in Nat /\ Len(servers) <= Len(servers2)
  BY DEF Grows
<1>2. \A i \in DOMAIN up : up[i].id \in 1 .. Len(servers2)
  BY <1>1 DEF Line
<1>3. ASSUME NEW i \in DOMAIN down
      PROVE  down[i].id \in 1 .. Len(servers2) /\ down[i].bar <= servers2[down[i].id]
  <2>1. PICK id \in 1 .. Len(servers), bar \in Nat :
          down[i].id = id /\ down[i].bar = bar /\ bar <= servers[id]
    <3>1. down[i] \in Answers
      BY DEF Line
    <3>2. QED
      BY <3>1 DEF Line, Answers
  <2>2. servers[id] \in Nat /\ servers2[id] \in Nat /\ servers[id] <= servers2[id]
    BY <1>1, <2>1 DEF Grows
  <2>3. QED
    BY <1>1, <2>1, <2>2
<1>4. QED
  BY <1>2, <1>3, Zenon DEF Line

LEMMA NumberAt ==
  ASSUME NEW s \in Seq(Nat)
  PROVE  Len(s) \in Nat /\ \A i \in 1 .. Len(s) : s[i] \in Nat
OBVIOUS

LEMMA GrownChart ==
  ASSUME NEW servers, NEW servers2, NEW chart, Chart(servers, chart), Grows(servers, servers2)
  PROVE  Chart(servers2, chart)
<1>1. Len(servers) \in Nat /\ Len(servers2) \in Nat /\ Len(servers) <= Len(servers2)
  BY DEF Grows
<1>2. ASSUME NEW i \in DOMAIN chart
      PROVE  chart[i].id \in 1 .. Len(servers2) /\ chart[i].bar <= servers2[chart[i].id]
  <2>1. chart[i] \in Shown
    BY DEF Chart
  <2>2. PICK id \in 1 .. Len(servers), bar \in Nat :
          chart[i].id = id /\ chart[i].bar = bar /\ bar <= servers[id]
    BY <2>1 DEF Chart, Shown
  <2>3. servers[id] \in Nat /\ servers2[id] \in Nat /\ servers[id] <= servers2[id]
    <3>1. servers \in Seq(Nat) /\ servers2 \in Seq(Nat) /\ servers[id] <= servers2[id]
      BY DEF Grows
    <3>2. id \in 1 .. Len(servers2)
      BY <1>1
    <3>3. QED
      BY <3>1, <3>2, NumberAt
  <2>4. QED
    BY <1>1, <2>2, <2>3
<1>3. QED
  BY <1>2 DEF Chart, Grows

\* A request for the newest backtest.
LEMMA SentLine ==
  ASSUME NEW s, NEW w, NEW up, NEW down, NEW servers, NEW chart,
         Line(s, w, "open", up, down, servers, chart), Chart(servers, chart),
         s = w, NEW m \in Requests, m.id = Len(servers), servers # << >>
  PROVE  Line(s, w, "open", Append(up, m), down, servers, chart)
<1> DEFINE up2 == Append(up, m)
<1>1. /\ up2 \in Seq(Requests) /\ Len(up) \in Nat
      /\ DOMAIN up = 1 .. Len(up) /\ DOMAIN up2 = 1 .. Len(up) + 1
      /\ \A i \in 1 .. Len(up) : up2[i] = up[i]
      /\ up2[Len(up) + 1] = m
  BY AppendTo DEF Line
<1>2. Len(servers) \in Nat /\ m.id \in 1 .. Len(servers)
  <2>1. Len(servers) \in Nat /\ Len(servers) # 0
    BY DEF Chart
  <2>2. QED
    BY <2>1
<1>3. \A i \in DOMAIN up2 : (i \in DOMAIN up /\ up2[i] = up[i]) \/ (i = Len(up) + 1 /\ up2[i] = m)
  BY <1>1
<1> HIDE DEF up2
<1>4. \A i \in DOMAIN up2 : up2[i].id \in 1 .. Len(servers)
  BY <1>2, <1>3 DEF Line
<1>5. ASSUME NEW i \in DOMAIN up2, NEW j \in DOMAIN up2, i < j PROVE up2[i].id <= up2[j].id
  <2>1. CASE j \in DOMAIN up
    <3>1. i \in DOMAIN up /\ up2[i] = up[i] /\ up2[j] = up[j]
      BY <1>1, <1>5, <2>1
    <3>2. QED
      BY <1>5, <2>1, <3>1 DEF Line
  <2>2. CASE up2[j] = m
    BY <1>2, <1>4, <2>2
  <2>3. QED
    BY <1>3, <2>1, <2>2
<1>6. ASSUME NEW i \in DOMAIN up2
      PROVE  /\ \A j \in DOMAIN down : down[j].id <= up2[i].id
             /\ \A j \in DOMAIN chart : chart[j].id <= up2[i].id
  <2>1. CASE i \in DOMAIN up /\ up2[i] = up[i]
    BY <2>1 DEF Line
  <2>2. CASE up2[i] = m
    <3>1. \A j \in DOMAIN down : down[j].id \in 1 .. Len(servers)
      BY DEF Line
    <3>2. \A j \in DOMAIN chart : chart[j].id \in 1 .. Len(servers)
      BY DEF Chart
    <3>3. QED
      BY <1>2, <2>2, <3>1, <3>2
  <2>3. QED
    BY <1>3, <2>1, <2>2
<1>7. QED
  BY <1>1, <1>4, <1>5, <1>6 DEF Line, up2

\* The session takes a request.
LEMMA TakenLine ==
  ASSUME NEW s, NEW w, NEW state, NEW up, NEW down, NEW servers, NEW chart,
         Line(s, w, state, up, down, servers, chart), up # << >>
  PROVE  Line(s, w, state, Tail(up), down, servers, chart)
<1> DEFINE up2 == Tail(up)
<1>1. /\ up2 \in Seq(Requests)
      /\ \A i \in DOMAIN up2 : i + 1 \in DOMAIN up /\ up2[i] = up[i + 1] /\ i \in Nat
  BY TailOf DEF Line
<1>2. ~ (state = "connecting" \/ (state = "open" /\ s # w))
  BY DEF Line
<1> HIDE DEF up2
<1>3. \A i \in DOMAIN up2 : up2[i].id \in 1 .. Len(servers)
  BY <1>1 DEF Line
<1>4. \A i, j \in DOMAIN up2 : i < j => up2[i].id <= up2[j].id
  <2>1. SUFFICES ASSUME NEW i \in DOMAIN up2, NEW j \in DOMAIN up2, i < j
                 PROVE  up2[i].id <= up2[j].id
    OBVIOUS
  <2>2. i + 1 < j + 1 /\ i + 1 \in DOMAIN up /\ j + 1 \in DOMAIN up
    BY <1>1, <2>1
  <2>3. up[i + 1].id <= up[j + 1].id
    BY <2>2 DEF Line
  <2>4. QED
    BY <1>1, <2>3
<1>5. state = "open" => \A i \in DOMAIN up2 : /\ \A j \in DOMAIN down : down[j].id <= up2[i].id
                                              /\ \A j \in DOMAIN chart : chart[j].id <= up2[i].id
  BY <1>1 DEF Line
<1>6. QED
  BY <1>1, <1>2, <1>3, <1>4, <1>5 DEF Line, up2

\* A message may be sent after all that is on its way.
Follows(m, up, down, servers, chart) ==
  /\ m \in Answers /\ m.id \in 1 .. Len(servers) /\ m.bar <= servers[m.id]
  /\ \A i \in DOMAIN down : NotAfter(down[i], m)
  /\ \A i \in DOMAIN chart : NotAfter(chart[i], m)
  /\ \A i \in DOMAIN up : m.id <= up[i].id

LEMMA AnsweredLine ==
  ASSUME NEW s, NEW w, NEW up, NEW down, NEW servers, NEW chart, NEW m,
         Line(s, w, "open", up, down, servers, chart), s = w,
         Follows(m, up, down, servers, chart)
  PROVE  Line(s, w, "open", up, Append(down, m), servers, chart)
<1> DEFINE down2 == Append(down, m)
<1>1. /\ down2 \in Seq(Answers) /\ Len(down) \in Nat
      /\ DOMAIN down = 1 .. Len(down) /\ DOMAIN down2 = 1 .. Len(down) + 1
      /\ \A i \in 1 .. Len(down) : down2[i] = down[i]
      /\ down2[Len(down) + 1] = m
  BY AppendTo DEF Line, Follows
<1>2. \A i \in DOMAIN down2 : \/ i \in DOMAIN down /\ down2[i] = down[i]
                              \/ i = Len(down) + 1 /\ down2[i] = m
  BY <1>1
<1> HIDE DEF down2
<1>3. \A i \in DOMAIN down2 : /\ down2[i].id \in 1 .. Len(servers)
                             /\ down2[i].bar <= servers[down2[i].id]
  BY <1>2 DEF Line, Follows
<1>4. \A i, j \in DOMAIN down2 : i < j => NotAfter(down2[i], down2[j])
  <2>1. SUFFICES ASSUME NEW i \in DOMAIN down2, NEW j \in DOMAIN down2, i < j
                 PROVE  NotAfter(down2[i], down2[j])
    OBVIOUS
  <2>2. i \in DOMAIN down /\ down2[i] = down[i]
    BY <1>1, <2>1
  <2>3. CASE j \in DOMAIN down /\ down2[j] = down[j]
    BY <2>1, <2>2, <2>3 DEF Line
  <2>4. CASE down2[j] = m
    BY <2>2, <2>4 DEF Follows
  <2>5. QED
    BY <1>2, <2>3, <2>4
<1>5. \A i \in DOMAIN chart, j \in DOMAIN down2 : NotAfter(chart[i], down2[j])
  BY <1>2 DEF Line, Follows
<1>6. \A i \in DOMAIN up : /\ \A j \in DOMAIN down2 : down2[j].id <= up[i].id
                           /\ \A j \in DOMAIN chart : chart[j].id <= up[i].id
  BY <1>2 DEF Line, Follows
<1>7. QED
  BY <1>1, <1>3, <1>4, <1>5, <1>6 DEF Line, down2

\* The answers to the first request come after all that was said of its backtest before.
LEMMA AnswersFollow ==
  ASSUME NEW s, NEW w, NEW up, NEW down, NEW servers, NEW servers2, NEW chart, NEW m,
         Line(s, w, "open", up, down, servers, chart), Chart(servers, chart),
         up # << >>, Grows(servers, servers2),
         m \in Answers, m.id = Head(up).id, servers[m.id] <= m.bar, m.bar <= servers2[m.id]
  PROVE  Follows(m, Tail(up), down, servers2, chart)
<1>1. /\ up[1] \in Requests /\ Head(up) = up[1] /\ 1 \in DOMAIN up
      /\ \A i \in DOMAIN Tail(up) : /\ i + 1 \in DOMAIN up /\ Tail(up)[i] = up[i + 1]
                                    /\ 1 < i + 1
  BY TailOf DEF Line
<1>2. PICK id \in Nat, bar \in Nat : m.id = id /\ m.bar = bar /\ up[1].id = id
  BY <1>1 DEF Answers
<1>3. id \in 1 .. Len(servers) /\ Len(servers) \in Nat /\ Len(servers2) \in Nat
      /\ Len(servers) <= Len(servers2) /\ servers[id] \in Nat /\ servers[id] <= bar
  <2>1. id \in 1 .. Len(servers)
    BY <1>1, <1>2 DEF Line
  <2>2. /\ servers \in Seq(Nat) /\ servers2 \in Seq(Nat) /\ Len(servers) <= Len(servers2)
    BY DEF Grows
  <2>3. /\ Len(servers) \in Nat /\ Len(servers2) \in Nat /\ servers[id] \in Nat
    BY <2>1, <2>2, NumberAt
  <2>4. QED
    BY <1>2, <2>1, <2>2, <2>3
<1>4. id \in 1 .. Len(servers2)
  BY <1>3
<1>5. ASSUME NEW x, x.id \in 1 .. Len(servers), x.bar \in Nat, x.bar <= servers[x.id], x.id <= id
      PROVE  NotAfter(x, m)
  BY <1>2, <1>3, <1>5 DEF NotAfter
<1>6. ASSUME NEW i \in DOMAIN down PROVE NotAfter(down[i], m)
  <2>1. down[i] \in Answers
    BY DEF Line
  <2>2. /\ down[i].id \in 1 .. Len(servers) /\ down[i].bar <= servers[down[i].id]
        /\ down[i].bar \in Nat /\ down[i].id <= id
    BY <1>1, <1>2, <2>1 DEF Line, Answers
  <2>3. QED
    BY <1>5, <2>2
<1>7. ASSUME NEW i \in DOMAIN chart PROVE NotAfter(chart[i], m)
  <2>1. chart[i] \in Shown
    BY DEF Chart
  <2>2. /\ chart[i].id \in 1 .. Len(servers) /\ chart[i].bar <= servers[chart[i].id]
        /\ chart[i].bar \in Nat
    BY <2>1 DEF Chart, Shown
  <2>3. chart[i].id <= id
    BY <1>1, <1>2 DEF Line
  <2>4. QED
    BY <1>5, <2>2, <2>3
<1>8. ASSUME NEW i \in DOMAIN Tail(up) PROVE m.id <= Tail(up)[i].id
  <2>1. i + 1 \in DOMAIN up /\ 1 < i + 1 /\ Tail(up)[i] = up[i + 1]
    BY <1>1
  <2>2. up[1].id <= up[i + 1].id
    BY <1>1, <2>1 DEF Line
  <2>3. QED
    BY <1>2, <2>1, <2>2
<1>9. QED
  BY <1>2, <1>4, <1>6, <1>7, <1>8 DEF Follows

\* Whatever the chart shows, for a connection without messages for the page.
LEMMA QuietLine ==
  ASSUME NEW s, NEW w, NEW state, NEW up, NEW down, NEW servers, NEW chart, NEW chart2,
         Line(s, w, state, up, down, servers, chart), ~ (s = w /\ state = "open")
  PROVE  Line(s, w, state, up, down, servers, chart2)
<1>1. down = << >> /\ (state = "open" => up = << >>)
  BY DEF Line
<1>2. QED
  BY <1>1 DEF Line

\* appendBar.
WithBar(chart, b) == IF chart # << >> /\ TimeOf(Last(chart)) = TimeOf(b)
                     THEN Append(Front(chart), b) ELSE Append(chart, b)

\* The page takes a message.
LEMMA ReceivedLine ==
  ASSUME NEW s, NEW w, NEW up, NEW down, NEW servers, NEW chart,
         Line(s, w, "open", up, down, servers, chart), Chart(servers, chart), down # << >>,
         s = w, NEW b, b = [id |-> Head(down).id, bar |-> Head(down).bar]
  PROVE  /\ Line(s, w, "open", up, Tail(down), servers, chart)
         /\ Chart(servers, WithBar(chart, b))
         /\ Line(s, w, "open", up, Tail(down), servers, WithBar(chart, b))
<1>1. /\ Tail(down) \in Seq(Answers) /\ down[1] \in Answers /\ Head(down) = down[1]
      /\ 1 \in DOMAIN down
      /\ \A i \in DOMAIN Tail(down) : /\ i + 1 \in DOMAIN down /\ Tail(down)[i] = down[i + 1]
                                      /\ i \in Nat /\ 1 < i + 1
  BY TailOf DEF Line
<1>2. PICK rest \in Seq(Answers) : rest = Tail(down)
  BY <1>1
<1>3. PICK id \in Nat, bar \in Nat :
        /\ down[1].id = id /\ down[1].bar = bar /\ b = [id |-> id, bar |-> bar]
  BY <1>1 DEF Answers
<1>4. Line(s, w, "open", up, rest, servers, chart)
  <2>1. /\ \A i \in DOMAIN rest : /\ rest[i].id \in 1 .. Len(servers)
                                  /\ rest[i].bar <= servers[rest[i].id]
        /\ \A i \in DOMAIN chart, j \in DOMAIN rest : NotAfter(chart[i], rest[j])
        /\ \A i \in DOMAIN up : \A j \in DOMAIN rest : rest[j].id <= up[i].id
    BY <1>1, <1>2 DEF Line
  <2>2. \A i, j \in DOMAIN rest : i < j => NotAfter(rest[i], rest[j])
    <3>1. SUFFICES ASSUME NEW i \in DOMAIN rest, NEW j \in DOMAIN rest, i < j
                   PROVE  NotAfter(rest[i], rest[j])
      OBVIOUS
    <3>2. i + 1 \in DOMAIN down /\ j + 1 \in DOMAIN down /\ i + 1 < j + 1
      BY <1>1, <1>2, <3>1
    <3>3. NotAfter(down[i + 1], down[j + 1])
      BY <3>2 DEF Line
    <3>4. QED
      BY <1>1, <1>2, <3>3
  <2>3. QED
    BY <2>1, <2>2 DEF Line
<1>5. /\ b \in Shown /\ b.id \in 1 .. Len(servers) /\ b.bar <= servers[b.id]
      /\ \A i \in DOMAIN chart : NotAfter(chart[i], b)
      /\ \A j \in DOMAIN rest : NotAfter(b, rest[j])
      /\ \A i \in DOMAIN up : b.id <= up[i].id
  <2>1. b.id = down[1].id /\ b.bar = down[1].bar /\ b \in Shown
    BY <1>3 DEF Shown
  <2>2. \A j \in DOMAIN rest : NotAfter(down[1], rest[j])
    BY <1>1, <1>2 DEF Line
  <2>3. QED
    BY <1>1, <2>1, <2>2 DEF Line, NotAfter
<1>6. PICK n \in Nat : n = Len(chart) /\ DOMAIN chart = 1 .. n /\ (chart # << >> => n > 0)
  <2>1. chart \in Seq(Shown)
    BY DEF Chart
  <2>2. PICK n \in Nat : n = Len(chart) /\ DOMAIN chart = 1 .. n
    BY <2>1
  <2>3. chart # << >> => n # 0
    BY <2>1, <2>2
  <2>4. QED
    BY <2>2, <2>3
<1>7. ASSUME chart # << >>, NEW i \in 1 .. n, i < n \/ chart[n] # b PROVE Before(chart[i], b)
  <2>1. /\ n \in DOMAIN chart /\ i \in DOMAIN chart /\ chart[n] \in Shown /\ chart[i] \in Shown
        /\ NotAfter(chart[n], b)
    BY <1>5, <1>6, <1>7 DEF Chart
  <2>2. CASE i < n
    <3>1. Before(chart[i], chart[n])
      BY <2>1, <2>2 DEF Chart
    <3>2. QED
      BY <1>5, <2>1, <3>1 DEF Before, NotAfter, Shown
  <2>3. CASE i = n
    <3>1. chart[n] = [id |-> chart[n].id, bar |-> chart[n].bar] /\ chart[n] # b
      BY <1>7, <2>1, <2>3 DEF Shown
    <3>2. QED
      BY <1>3, <2>1, <2>3, <3>1 DEF Before, NotAfter, Shown
  <2>4. QED
    BY <1>6, <1>7, <2>2, <2>3
<1>8. PICK base : /\ WithBar(chart, b) = Append(base, b) /\ base \in Seq(Shown)
                  /\ DOMAIN base \subseteq DOMAIN chart
                  /\ \A i \in DOMAIN base : base[i] = chart[i] /\ Before(base[i], b)
  <2>1. CASE chart # << >> /\ TimeOf(Last(chart)) = TimeOf(b)
    <3>1. PICK base : base = SubSeq(chart, 1, n - 1)
      OBVIOUS
    <3>2. /\ base \in Seq(Shown) /\ DOMAIN base = 1 .. n - 1
          /\ \A i \in 1 .. n - 1 : base[i] = chart[i]
      BY <1>6, <2>1, <3>1 DEF Chart
    <3>3. WithBar(chart, b) = Append(base, b)
      BY <1>6, <2>1, <3>1 DEF WithBar, Front
    <3>4. \A i \in 1 .. n - 1 : i \in 1 .. n /\ i < n
      BY <1>6, <2>1
    <3>5. QED
      BY <1>6, <1>7, <2>1, <3>2, <3>3, <3>4
  <2>2. CASE ~ (chart # << >> /\ TimeOf(Last(chart)) = TimeOf(b))
    <3>1. WithBar(chart, b) = Append(chart, b)
      BY <2>2 DEF WithBar
    <3>2. \A i \in DOMAIN chart : Before(chart[i], b)
      <4>1. SUFFICES ASSUME NEW i \in DOMAIN chart PROVE Before(chart[i], b)
        OBVIOUS
      <4>2. chart # << >>
        BY <4>1
      <4>3. chart[n] # b
        BY <1>6, <2>2, <4>2 DEF Last
      <4>4. QED
        BY <1>6, <1>7, <4>1, <4>2, <4>3
    <3>3. QED
      BY <3>1, <3>2 DEF Chart
  <2>3. QED
    BY <2>1, <2>2
<1>9. PICK chart2 : chart2 = WithBar(chart, b)
  OBVIOUS
<1>10. /\ chart2 \in Seq(Shown) /\ Len(base) \in Nat
       /\ DOMAIN base = 1 .. Len(base) /\ DOMAIN chart2 = 1 .. Len(base) + 1
       /\ \A i \in 1 .. Len(base) : chart2[i] = base[i]
       /\ chart2[Len(base) + 1] = b
  BY <1>5, <1>8, <1>9, AppendTo
<1>11. \A i \in DOMAIN chart2 :
         \/ i \in DOMAIN base /\ i \in DOMAIN chart /\ chart2[i] = chart[i]
         \/ i = Len(base) + 1 /\ chart2[i] = b
  BY <1>8, <1>10
<1>12. Chart(servers, chart2)
  <2>1. \A i, j \in DOMAIN chart2 : i < j => Before(chart2[i], chart2[j])
    <3>1. SUFFICES ASSUME NEW i \in DOMAIN chart2, NEW j \in DOMAIN chart2, i < j
                   PROVE  Before(chart2[i], chart2[j])
      OBVIOUS
    <3>2. i \in DOMAIN base /\ i \in DOMAIN chart /\ chart2[i] = chart[i] /\ chart2[i] = base[i]
      BY <1>8, <1>10, <3>1
    <3>3. CASE j \in DOMAIN chart /\ chart2[j] = chart[j]
      BY <3>1, <3>2, <3>3 DEF Chart
    <3>4. CASE chart2[j] = b
      BY <1>8, <3>2, <3>4
    <3>5. QED
      BY <1>11, <3>3, <3>4
  <2>2. \A i \in DOMAIN chart2 : /\ chart2[i].id \in 1 .. Len(servers)
                                /\ chart2[i].bar <= servers[chart2[i].id]
    BY <1>5, <1>11 DEF Chart
  <2>3. QED
    BY <1>10, <2>1, <2>2 DEF Chart
<1>13. Line(s, w, "open", up, rest, servers, chart2)
  <2>1. \A i \in DOMAIN chart2, j \in DOMAIN rest : NotAfter(chart2[i], rest[j])
    BY <1>4, <1>5, <1>11 DEF Line
  <2>2. \A i \in DOMAIN up : \A j \in DOMAIN chart2 : chart2[j].id <= up[i].id
    BY <1>4, <1>5, <1>11 DEF Line
  <2>3. QED
    BY <1>4, <2>1, <2>2 DEF Line
<1>14. QED
  BY <1>2, <1>4, <1>9, <1>12, <1>13

\* A second answer, after the first.
LEMMA NextFollows ==
  ASSUME NEW up, NEW down \in Seq(Answers), NEW servers, NEW chart, NEW m, NEW n,
         Follows(m, up, down, servers, chart), Follows(n, up, down, servers, chart),
         NotAfter(m, n)
  PROVE  Follows(n, up, Append(down, m), servers, chart)
<1> DEFINE down2 == Append(down, m)
<1>1. /\ DOMAIN down = 1 .. Len(down) /\ DOMAIN down2 = 1 .. Len(down) + 1 /\ Len(down) \in Nat
      /\ \A i \in 1 .. Len(down) : down2[i] = down[i]
      /\ down2[Len(down) + 1] = m
  BY AppendTo DEF Follows
<1>2. ASSUME NEW i \in DOMAIN down2 PROVE NotAfter(down2[i], n)
  <2>1. (i \in DOMAIN down /\ down2[i] = down[i]) \/ down2[i] = m
    BY <1>1, <1>2
  <2> HIDE DEF down2
  <2>2. QED
    BY <2>1 DEF Follows
<1>3. QED
  BY <1>2 DEF Follows

-----------------------------------------------------------------------------
\* All connections.

Connections == [state : States, up : Seq(Requests), down : Seq(Answers)]

Lines(sock, w, servers, chart) ==
  /\ sock \in [Sockets -> Connections] /\ w \in Sockets \cup {0} /\ 0 \notin Sockets
  /\ \A s \in Sockets : Line(s, w, sock[s].state, sock[s].up, sock[s].down, servers, chart)

\* One connection is in another state; nothing else changes.
OneSet(sock, sock2, s, state, up, down) ==
  /\ sock2 \in [Sockets -> Connections]
  /\ sock2[s].state = state /\ sock2[s].up = up /\ sock2[s].down = down
  /\ \A r \in Sockets : r # s => sock2[r] = sock[r]

LEMMA OneLine ==
  ASSUME NEW sock, NEW sock2, NEW w, NEW v, NEW servers, NEW servers2, NEW chart, NEW chart2,
         NEW s \in Sockets, NEW state, NEW up, NEW down,
         Lines(sock, w, servers, chart), OneSet(sock, sock2, s, state, up, down),
         v \in Sockets \cup {0}, Line(s, v, state, up, down, servers2, chart2),
         \A r \in Sockets : r # s =>
           Line(r, v, sock[r].state, sock[r].up, sock[r].down, servers2, chart2)
  PROVE  Lines(sock2, v, servers2, chart2)
<1>1. /\ sock2 \in [Sockets -> Connections] /\ v \in Sockets \cup {0} /\ 0 \notin Sockets
      /\ \A r \in Sockets : r # s => sock2[r] = sock[r]
      /\ sock2[s].state = state /\ sock2[s].up = up /\ sock2[s].down = down
  BY DEF OneSet, Lines
<1>2. ASSUME NEW r \in Sockets
      PROVE  Line(r, v, sock2[r].state, sock2[r].up, sock2[r].down, servers2, chart2)
  <2>1. CASE r = s
    BY <1>1, <2>1, Zenon
  <2>2. CASE r # s
    BY <1>1, <2>2, Zenon
  <2>3. QED
    BY <2>1, <2>2
<1>3. QED
  BY <1>1, <1>2, Zenon DEF Lines

\* How an update of the socket's record sets it.
LEMMA RecordSet ==
  ASSUME NEW sock \in [Sockets -> Connections], NEW s \in Sockets,
         NEW state \in States, NEW up \in Seq(Requests), NEW down \in Seq(Answers)
  PROVE  /\ OneSet(sock, [sock EXCEPT ![s] = [state |-> state, up |-> up, down |-> down]],
                   s, state, up, down)
         /\ OneSet(sock, [sock EXCEPT ![s].state = state],
                   s, state, sock[s].up, sock[s].down)
         /\ OneSet(sock, [sock EXCEPT ![s].up = up],
                   s, sock[s].state, up, sock[s].down)
         /\ OneSet(sock, [sock EXCEPT ![s].down = down],
                   s, sock[s].state, sock[s].up, down)
         /\ OneSet(sock, [sock EXCEPT ![s].state = state, ![s].down = down],
                   s, state, sock[s].up, down)
         /\ OneSet(sock, [sock EXCEPT ![s].up = up, ![s].down = down],
                   s, sock[s].state, up, down)
<1>1. \A c \in Connections : /\ c = [state |-> c.state, up |-> c.up, down |-> c.down]
                             /\ c.state \in States /\ c.up \in Seq(Requests)
                             /\ c.down \in Seq(Answers)
  BY DEF Connections
<1>2. OneSet(sock, [sock EXCEPT ![s] = [state |-> state, up |-> up, down |-> down]],
             s, state, up, down)
  BY DEF OneSet, Connections
<1>3. OneSet(sock, [sock EXCEPT ![s].state = state], s, state, sock[s].up, sock[s].down)
  BY <1>1 DEF OneSet, Connections
<1>4. OneSet(sock, [sock EXCEPT ![s].up = up], s, sock[s].state, up, sock[s].down)
  BY <1>1 DEF OneSet, Connections
<1>5. OneSet(sock, [sock EXCEPT ![s].down = down], s, sock[s].state, sock[s].up, down)
  BY <1>1 DEF OneSet, Connections
<1>6. OneSet(sock, [sock EXCEPT ![s].state = state, ![s].down = down],
             s, state, sock[s].up, down)
  BY <1>1 DEF OneSet, Connections
<1>7. OneSet(sock, [sock EXCEPT ![s].up = up, ![s].down = down],
             s, sock[s].state, up, down)
  BY <1>1 DEF OneSet, Connections
<1>8. QED
  BY <1>2, <1>3, <1>4, <1>5, <1>6, <1>7

-----------------------------------------------------------------------------
\* The invariant.

\* The bar that get_state gives, of each backtest.
Current(servers) == [id \in DOMAIN servers |-> StateBar(servers[id])]

PageInv == /\ Lines(socket, ws, Current(engines), bars) /\ Chart(Current(engines), bars)
           /\ engines \in Seq(Nat) /\ backtestId = Len(engines)

LEMMA LeastSocket ==
  ASSUME NEW S, S # {}, S \subseteq Nat
  PROVE  Min(S) \in S
<1>1. PICK least \in S : \A x \in S : <<x, least>> \notin OpToRel(<, Nat)
  BY NatLessThanWellFounded, WFMin, Zenon
<1>2. ASSUME NEW x \in S PROVE least <= x
  <2>1. x \in Nat /\ least \in Nat
    OBVIOUS
  <2>2. <<x, least>> \notin OpToRel(<, Nat)
    BY <1>1, Zenon
  <2>3. ~ (x < least)
    BY <2>1, <2>2 DEF OpToRel
  <2>4. QED
    BY <2>1, <2>3
<1>3. QED
  BY <1>2, Zenon DEF Min

LEMMA CurrentOf ==
  ASSUME NEW servers \in Seq(Nat)
  PROVE  /\ Current(servers) \in Seq(Nat) /\ Len(Current(servers)) = Len(servers)
         /\ Len(servers) \in Nat
         /\ \A i \in 1 .. Len(servers) : Current(servers)[i] = StateBar(servers[i])
<1>1. PICK n \in Nat : n = Len(servers) /\ DOMAIN servers = 1 .. n
  OBVIOUS
<1>2. \A i \in 1 .. n : servers[i] \in Nat /\ StateBar(servers[i]) \in Nat
  BY <1>1 DEF StateBar
<1>3. Current(servers) = [i \in 1 .. n |-> StateBar(servers[i])]
  BY <1>1 DEF Current
<1>4. Current(servers) \in [1 .. n -> Nat]
  BY <1>2, <1>3
<1>5. QED
  BY <1>1, <1>3, <1>4

LEMMA CurrentGrows ==
  ASSUME NEW servers, NEW servers2, Grows(servers, servers2)
  PROVE  Grows(Current(servers), Current(servers2))
<1>1. servers \in Seq(Nat) /\ servers2 \in Seq(Nat) /\ Len(servers) <= Len(servers2)
  BY DEF Grows
<1>2. /\ Current(servers) \in Seq(Nat) /\ Len(Current(servers)) = Len(servers)
      /\ Current(servers2) \in Seq(Nat) /\ Len(Current(servers2)) = Len(servers2)
      /\ Len(servers) \in Nat /\ Len(servers2) \in Nat
  BY <1>1, CurrentOf
<1>3. ASSUME NEW i \in 1 .. Len(servers) PROVE Current(servers)[i] <= Current(servers2)[i]
  <2>1. i \in 1 .. Len(servers2)
    BY <1>1, <1>2
  <2>2. /\ Current(servers)[i] = StateBar(servers[i])
        /\ Current(servers2)[i] = StateBar(servers2[i])
        /\ servers[i] \in Nat /\ servers2[i] \in Nat
    BY <1>1, <2>1, CurrentOf, NumberAt
  <2>3. servers[i] <= servers2[i]
    BY DEF Grows
  <2>4. QED
    BY <2>2, <2>3 DEF StateBar
<1>4. QED
  BY <1>1, <1>2, <1>3 DEF Grows

LEMMA InitPage == Init => PageInv
<1> SUFFICES ASSUME Init PROVE PageInv
  OBVIOUS
<1>1. Min(Sockets) \in Sockets /\ 0 \notin Sockets
  BY LeastSocket, FrontendAssumption
<1>2. PICK first : first = Min(Sockets)
  OBVIOUS
<1>3. /\ first \in Sockets /\ ws = first /\ engines = << >> /\ bars = << >> /\ backtestId = 0
      /\ socket = [s \in Sockets |-> IF s = first THEN Connecting ELSE Closed]
  BY <1>1, <1>2 DEF Init
<1>4. ASSUME NEW s \in Sockets
      PROVE  /\ socket[s] \in Connections
             /\ socket[s].state \in {"connecting", "closed", "open"}
             /\ socket[s].up = << >> /\ socket[s].down = << >>
  <2>1. /\ Closed = [state |-> "closed", up |-> << >>, down |-> << >>]
        /\ Connecting = [state |-> "connecting", up |-> << >>, down |-> << >>]
    BY DEF Closed, Connecting
  <2>2. Closed \in Connections /\ Connecting \in Connections
    BY <2>1 DEF Connections, States
  <2>3. QED
    BY <1>3, <2>1, <2>2
<1>5. Lines(socket, ws, Current(engines), bars)
  <2>1. \A s \in Sockets :
          Line(s, ws, socket[s].state, socket[s].up, socket[s].down, Current(engines), bars)
    <3> TAKE s \in Sockets
    <3>1. PICK state \in {"connecting", "closed", "open"} : state = socket[s].state
      BY <1>4
    <3>2. Line(s, ws, state, << >>, << >>, Current(engines), bars)
      BY NewLine
    <3>3. QED
      BY <1>4, <3>1, <3>2, Zenon
  <2>2. socket \in [Sockets -> Connections]
    BY <1>3, <1>4
  <2>3. QED
    BY <1>1, <1>3, <2>1, <2>2 DEF Lines
<1>6. Chart(Current(engines), bars) /\ engines \in Seq(Nat) /\ Len(engines) = 0
  <2>1. engines \in Seq(Nat) /\ Len(engines) = 0 /\ bars \in Seq(Shown) /\ DOMAIN bars = {}
    BY <1>3
  <2>2. Current(engines) \in Seq(Nat)
    BY <2>1, CurrentOf
  <2>3. QED
    BY <2>1, <2>2 DEF Chart
<1>7. QED
  BY <1>3, <1>5, <1>6 DEF PageInv

\* A request for the newest backtest.
LEMMA NewRequest ==
  ASSUME NEW servers \in Seq(Nat), Len(servers) # 0, NEW type \in {"subscribe", "play"},
         NEW m, m = Message(type, Len(servers), 0)
  PROVE  m \in Requests /\ m.id = Len(Current(servers)) /\ Current(servers) # << >>
<1>1. PICK n \in Nat : n = Len(servers) /\ n = Len(Current(servers)) /\ n # 0
  BY CurrentOf
<1>2. m = [type |-> type, id |-> n, index |-> 0, bar |-> 1]
  BY <1>1 DEF Message, StateBar
<1>3. m \in Requests /\ m.id = n
  BY <1>2 DEF Requests
<1>4. QED
  BY <1>1, <1>3

\* What the invariant says of one connection.
LEMMA LineOf ==
  ASSUME NEW sock, NEW w, NEW servers, NEW chart, Lines(sock, w, servers, chart),
         NEW s \in Sockets
  PROVE  /\ sock \in [Sockets -> Connections] /\ w \in Sockets \cup {0} /\ s # 0
         /\ sock[s].state \in States /\ sock[s].up \in Seq(Requests)
         /\ sock[s].down \in Seq(Answers)
         /\ Line(s, w, sock[s].state, sock[s].up, sock[s].down, servers, chart)
BY DEF Lines, Connections

\* Sending for the newest backtest.
LEMMA SentLines ==
  ASSUME NEW sock, NEW w, NEW servers, NEW chart,
         Lines(sock, w, servers, chart), Chart(servers, chart),
         NEW m \in Requests, m.id = Len(servers), servers # << >>,
         w # 0, sock[w].state = "open"
  PROVE  Lines([sock EXCEPT ![w].up = Append(@, m)], w, servers, chart)
<1>1. /\ w \in Sockets /\ sock \in [Sockets -> Connections]
      /\ sock[w].up \in Seq(Requests) /\ sock[w].down \in Seq(Answers)
      /\ Line(w, w, "open", sock[w].up, sock[w].down, servers, chart)
  <2>1. w \in Sockets
    BY DEF Lines
  <2>2. /\ sock \in [Sockets -> Connections]
        /\ sock[w].up \in Seq(Requests) /\ sock[w].down \in Seq(Answers)
        /\ Line(w, w, sock[w].state, sock[w].up, sock[w].down, servers, chart)
    BY <2>1, LineOf, Zenon
  <2>3. QED
    BY <2>1, <2>2
<1>2. Line(w, w, "open", Append(sock[w].up, m), sock[w].down, servers, chart)
  BY <1>1, SentLine, Zenon
<1>3. PICK up : up = Append(sock[w].up, m)
  OBVIOUS
<1>4. up \in Seq(Requests)
  BY <1>1, <1>3
<1>5. PICK sock2 : sock2 = [sock EXCEPT ![w].up = up]
  OBVIOUS
<1>6. OneSet(sock, sock2, w, "open", up, sock[w].down)
  <2>1. "open" \in States
    BY DEF States
  <2>2. OneSet(sock, [sock EXCEPT ![w].up = up], w, sock[w].state, up, sock[w].down)
    BY <1>1, <1>4, <2>1, RecordSet, Zenon
  <2>3. QED
    BY <1>5, <2>2
<1>7. \A r \in Sockets : r # w =>
        Line(r, w, sock[r].state, sock[r].up, sock[r].down, servers, chart)
  BY DEF Lines
<1>8. Lines(sock2, w, servers, chart)
  <2>1. w \in Sockets \cup {0}
    BY <1>1
  <2>2. Line(w, w, "open", up, sock[w].down, servers, chart)
    BY <1>2, <1>3
  <2>3. QED
    BY <1>1, <1>6, <1>7, <2>1, <2>2, OneLine
<1>9. sock2 = [sock EXCEPT ![w].up = Append(@, m)]
  BY <1>3, <1>5
<1>10. QED
  BY <1>8, <1>9

\* The other connections, when one changes and the chart and the engines do not.
LEMMA OneLineOnly ==
  ASSUME NEW sock, NEW sock2, NEW w, NEW servers, NEW chart,
         NEW s \in Sockets, NEW state, NEW up, NEW down,
         Lines(sock, w, servers, chart), OneSet(sock, sock2, s, state, up, down),
         Line(s, w, state, up, down, servers, chart)
  PROVE  Lines(sock2, w, servers, chart)
<1>1. \A r \in Sockets : r # s =>
        Line(r, w, sock[r].state, sock[r].up, sock[r].down, servers, chart)
  BY DEF Lines
<1>2. w \in Sockets \cup {0}
  BY DEF Lines
<1>3. QED
  BY <1>1, <1>2, OneLine

\* A connection ends: lost, refused, or closed at last.
LEMMA EndedLines ==
  ASSUME NEW sock, NEW w, NEW servers, NEW chart, Lines(sock, w, servers, chart),
         NEW s \in Sockets
  PROVE  Lines([sock EXCEPT ![s].state = "closed", ![s].down = << >>], w, servers, chart)
<1>1. /\ sock \in [Sockets -> Connections]
      /\ Line(s, w, sock[s].state, sock[s].up, sock[s].down, servers, chart)
  BY LineOf, Zenon
<1>2. Line(s, w, "closed", sock[s].up, << >>, servers, chart)
  BY <1>1, EndedLine
<1>3. PICK sock2 : sock2 = [sock EXCEPT ![s].state = "closed", ![s].down = << >>]
  OBVIOUS
<1>4. OneSet(sock, sock2, s, "closed", sock[s].up, << >>)
  <2>1. "closed" \in States /\ << >> \in Seq(Answers) /\ << >> \in Seq(Requests)
    BY DEF States
  <2>2. OneSet(sock, [sock EXCEPT ![s].state = "closed", ![s].down = << >>],
               s, "closed", sock[s].up, << >>)
    BY <1>1, <2>1, RecordSet, Zenon
  <2>3. QED
    BY <1>3, <2>2
<1>5. Lines(sock2, w, servers, chart)
  BY <1>2, <1>4, OneLineOnly
<1>6. QED
  BY <1>3, <1>5

\* connect makes a new connection, of a socket that is free.
LEMMA NewLines ==
  ASSUME NEW sock, NEW w, NEW servers, NEW chart, Lines(sock, w, servers, chart),
         NEW s \in Sockets, sock[s].state = "closed", w # 0 => sock[w].state # "open"
  PROVE  Lines([sock EXCEPT ![s] = Connecting], s, servers, chart)
<1>1. sock \in [Sockets -> Connections]
  BY LineOf, Zenon
<1>2. Line(s, s, "connecting", << >>, << >>, servers, chart)
  BY NewLine
<1>3. PICK sock2 : sock2 = [sock EXCEPT ![s] = Connecting]
  OBVIOUS
<1>4. OneSet(sock, sock2, s, "connecting", << >>, << >>)
  <2>1. "connecting" \in States /\ << >> \in Seq(Answers) /\ << >> \in Seq(Requests)
    BY DEF States
  <2>2. Connecting = [state |-> "connecting", up |-> << >>, down |-> << >>]
    BY DEF Connecting, Closed
  <2>3. OneSet(sock, [sock EXCEPT ![s] =
                        [state |-> "connecting", up |-> << >>, down |-> << >>]],
               s, "connecting", << >>, << >>)
    BY <1>1, <2>1, RecordSet, Zenon
  <2>4. QED
    BY <1>3, <2>2, <2>3
<1>5. ASSUME NEW r \in Sockets, r # s
      PROVE  Line(r, s, sock[r].state, sock[r].up, sock[r].down, servers, chart)
  <2>1. Line(r, w, sock[r].state, sock[r].up, sock[r].down, servers, chart)
    BY LineOf, Zenon
  <2>2. r # 0
    BY LineOf, Zenon
  <2>3. sock[r].state # "open" \/ (r # w /\ r # s)
    BY <1>5, <2>2
  <2>4. QED
    BY <2>1, <2>3, LeftLine
<1>6. Lines(sock2, s, servers, chart)
  <2>1. s \in Sockets \cup {0}
    OBVIOUS
  <2>2. QED
    BY <1>2, <1>4, <1>5, <2>1, OneLine
<1>7. QED
  BY <1>3, <1>6

-----------------------------------------------------------------------------
\* The steps of the page.

\* onopen: the page asks for its backtest, over the connection it has.
LEMMA OpensKeepsPage ==
  ASSUME NEW s \in Sockets, Opens(s), PageInv PROVE PageInv'
<1>1. PICK opened : /\ opened = [socket EXCEPT ![s].state = "open"]
                    /\ socket' = IF backtestId # 0 /\ ws # 0 /\ opened[ws].state = "open"
                                 THEN [opened EXCEPT ![ws].up =
                                         Append(@, Message("subscribe", backtestId, 0))]
                                 ELSE opened
  BY Zenon DEF Opens
<1>2. /\ socket[s].state = "connecting" /\ UNCHANGED <<ws, engines, bars, backtestId>>
  BY DEF Opens, store
<1>3. /\ socket \in [Sockets -> Connections]
      /\ Line(s, ws, socket[s].state, socket[s].up, socket[s].down, Current(engines), bars)
  BY LineOf, Zenon DEF PageInv
<1>4. socket[s].up = << >> /\ socket[s].down = << >>
  BY <1>2, <1>3 DEF Line
<1>5. OneSet(socket, opened, s, "open", << >>, << >>)
  <2>1. "open" \in States /\ << >> \in Seq(Answers) /\ << >> \in Seq(Requests)
    BY DEF States
  <2>2. OneSet(socket, [socket EXCEPT ![s].state = "open"],
               s, "open", socket[s].up, socket[s].down)
    BY <1>3, <2>1, RecordSet, Zenon
  <2>3. QED
    BY <1>1, <1>4, <2>2
<1>6. Lines(opened, ws, Current(engines), bars)
  <2>1. Line(s, ws, "open", << >>, << >>, Current(engines), bars)
    BY NewLine
  <2>2. QED
    BY <1>5, <2>1, OneLineOnly DEF PageInv
<1>7. Lines(socket', ws, Current(engines), bars)
  <2>1. CASE ~ (backtestId # 0 /\ ws # 0 /\ opened[ws].state = "open")
    BY <1>1, <1>6, <2>1, Zenon
  <2>2. CASE backtestId # 0 /\ ws # 0 /\ opened[ws].state = "open"
    <3>1. PICK m : m = Message("subscribe", backtestId, 0)
      OBVIOUS
    <3>2. /\ m \in Requests /\ m.id = Len(Current(engines)) /\ Current(engines) # << >>
          /\ Chart(Current(engines), bars)
      BY <2>2, <3>1, NewRequest DEF PageInv
    <3>3. Lines([opened EXCEPT ![ws].up = Append(@, m)], ws, Current(engines), bars)
      BY <1>6, <2>2, <3>2, SentLines
    <3>4. QED
      BY <1>1, <2>2, <3>1, <3>3, Zenon
  <2>3. QED
    BY <2>1, <2>2
<1>8. QED
  BY <1>2, <1>7, Zenon DEF PageInv

LEMMA EndKeepsPage ==
  ASSUME NEW s \in Sockets, Lost(s) \/ Closes(s), PageInv PROVE PageInv'
<1>1. /\ socket' = [socket EXCEPT ![s].state = "closed", ![s].down = << >>]
      /\ UNCHANGED <<ws, engines, bars, backtestId>>
  BY DEF Lost, Closes, OnClose, store
<1>2. Lines(socket', ws, Current(engines), bars)
  BY <1>1, EndedLines, Zenon DEF PageInv
<1>3. QED
  BY <1>1, <1>2, Zenon DEF PageInv

LEMMA TimerKeepsPage ==
  ASSUME TimerFires, PageInv PROVE PageInv'
<1>1. UNCHANGED <<engines, bars, backtestId>>
  BY DEF TimerFires, Connect, client, store
<1>2. CASE UNCHANGED <<socket, ws>>
  BY <1>1, <1>2, Zenon DEF PageInv
<1>3. CASE /\ ~ IsOpen(ws) /\ Free # {} /\ ws' = Min(Free)
           /\ socket' = [socket EXCEPT ![Min(Free)] = Connecting]
  <2>1. PICK s : s = Min(Free)
    OBVIOUS
  <2>2. s \in Free
    BY <1>3, <2>1, LeastSocket, FrontendAssumption DEF Free
  <2>3. s \in Sockets /\ socket[s].state = "closed"
    BY <2>2 DEF Free, Closed
  <2>4. ws # 0 => socket[ws].state # "open"
    BY <1>3 DEF IsOpen
  <2>5. Lines([socket EXCEPT ![s] = Connecting], s, Current(engines), bars)
    BY <2>3, <2>4, NewLines, Zenon DEF PageInv
  <2>6. QED
    BY <1>1, <1>3, <2>1, <2>5, Zenon DEF PageInv
<1>4. QED
  BY <1>2, <1>3 DEF TimerFires, Connect, client

\* handleMessage: only the page's own connection has a message.
LEMMA ReceiveKeepsPage ==
  ASSUME NEW s \in Sockets, Receive(s), PageInv PROVE PageInv'
<1>1. /\ socket[s].state = "open" /\ socket[s].down # << >>
      /\ socket' = [socket EXCEPT ![s].down = Tail(@)]
      /\ UNCHANGED <<ws, engines, backtestId>>
  BY DEF Receive, client
<1>2. /\ socket \in [Sockets -> Connections] /\ ws \in Sockets \cup {0}
      /\ socket[s].up \in Seq(Requests) /\ socket[s].down \in Seq(Answers)
      /\ Line(s, ws, socket[s].state, socket[s].up, socket[s].down, Current(engines), bars)
  BY LineOf, Zenon DEF PageInv
<1>3. s = ws /\ Line(s, s, "open", socket[s].up, socket[s].down, Current(engines), bars)
  <2>1. s = ws
    BY <1>1, <1>2 DEF Line
  <2>2. QED
    BY <1>1, <1>2, <2>1
<1>4. PICK b : b = [id |-> Head(socket[s].down).id, bar |-> Head(socket[s].down).bar]
  OBVIOUS
<1>5. bars' = bars \/ bars' = WithBar(bars, b)
  BY <1>4 DEF Receive, Appended, WithBar
<1>6. PICK up, rest : up = socket[s].up /\ rest = Tail(socket[s].down)
  OBVIOUS
<1>7. Chart(Current(engines), bars)
  BY DEF PageInv
<1>8. /\ Line(s, s, "open", up, rest, Current(engines), bars)
      /\ Chart(Current(engines), WithBar(bars, b))
      /\ Line(s, s, "open", up, rest, Current(engines), WithBar(bars, b))
  BY <1>1, <1>3, <1>4, <1>6, <1>7, ReceivedLine
<1>9. PICK chart2 : chart2 = bars'
  OBVIOUS
<1>10. Chart(Current(engines), chart2) /\ Line(s, s, "open", up, rest, Current(engines), chart2)
  BY <1>5, <1>7, <1>8, <1>9, Zenon
<1>11. PICK sock2 : sock2 = [socket EXCEPT ![s].down = rest]
  OBVIOUS
<1>12. OneSet(socket, sock2, s, "open", up, rest)
  <2>1. "open" \in States /\ rest \in Seq(Answers) /\ << >> \in Seq(Requests)
    BY <1>1, <1>2, <1>6, HeadTailProperties DEF States
  <2>2. OneSet(socket, [socket EXCEPT ![s].down = rest],
               s, socket[s].state, socket[s].up, rest)
    BY <1>2, <2>1, RecordSet, Zenon
  <2>3. QED
    BY <1>1, <1>6, <1>11, <2>2
<1>13. ASSUME NEW r \in Sockets, r # s
       PROVE  Line(r, s, socket[r].state, socket[r].up, socket[r].down, Current(engines), chart2)
  <2>1. Line(r, s, socket[r].state, socket[r].up, socket[r].down, Current(engines), bars)
    BY <1>3, LineOf, Zenon DEF PageInv
  <2>2. ~ (r = s /\ socket[r].state = "open")
    BY <1>13
  <2>3. QED
    BY <2>1, <2>2, QuietLine
<1>14. Lines(sock2, s, Current(engines), chart2)
  <2>1. Lines(socket, s, Current(engines), bars) /\ s \in Sockets \cup {0}
    BY <1>3 DEF PageInv
  <2>2. QED
    BY <1>10, <1>12, <1>13, <2>1, OneLine
<1>15. socket' = sock2
  BY <1>1, <1>6, <1>11
<1>16. QED
  BY <1>1, <1>3, <1>9, <1>10, <1>14, <1>15, Zenon DEF PageInv

\* handleReset: the page has no connection any more, and no chart.
LEMMA ResetKeepsPage ==
  ASSUME Reset, PageInv PROVE PageInv'
<1>1. /\ ws' = 0 /\ bars' = << >> /\ UNCHANGED <<engines, backtestId>>
      /\ socket' = IF ws # 0 /\ socket[ws].state \in {"connecting", "open"}
                   THEN [socket EXCEPT ![ws].state = "closing", ![ws].down = << >>]
                   ELSE socket
  BY DEF Reset, Disconnect
<1>2. Lines(socket, ws, Current(engines), bars) /\ Chart(Current(engines), << >>)
  BY ClearedChart DEF PageInv
<1>3. ASSUME NEW r \in Sockets, r # ws \/ socket[r].state # "open"
      PROVE  Line(r, 0, socket[r].state, socket[r].up, socket[r].down, Current(engines), << >>)
  <2>1. r # 0 /\ Line(r, ws, socket[r].state, socket[r].up, socket[r].down, Current(engines), bars)
    BY <1>2, LineOf, Zenon
  <2>2. Line(r, ws, socket[r].state, socket[r].up, socket[r].down, Current(engines), << >>)
    BY <2>1, ClearedLine
  <2>3. socket[r].state # "open" \/ (r # ws /\ r # 0)
    BY <1>3, <2>1
  <2>4. QED
    BY <2>2, <2>3, LeftLine
<1>4. Lines(socket', 0, Current(engines), << >>)
  <2>1. CASE ws # 0 /\ socket[ws].state \in {"connecting", "open"}
    <3>1. ws \in Sockets
      BY <1>2, <2>1 DEF Lines
    <3>2. PICK s \in Sockets : s = ws
      BY <3>1
    <3>3. /\ socket \in [Sockets -> Connections]
          /\ Line(s, ws, socket[s].state, socket[s].up, socket[s].down, Current(engines), bars)
      BY <1>2, LineOf, Zenon
    <3>4. PICK up, down, state : up = socket[s].up /\ down = socket[s].down
                                 /\ state = socket[s].state
      OBVIOUS
    <3>5. Line(s, 0, "closing", up, << >>, Current(engines), << >>)
      <4>1. Line(s, ws, state, up, down, Current(engines), bars)
        BY <3>3, <3>4
      <4>2. Line(s, 0, "closing", up, << >>, Current(engines), bars)
        BY <4>1, EndedLine
      <4>3. QED
        BY <4>2, ClearedLine
    <3>6. PICK sock2 : sock2 = [socket EXCEPT ![s].state = "closing", ![s].down = << >>]
      OBVIOUS
    <3>7. OneSet(socket, sock2, s, "closing", up, << >>)
      <4>1. "closing" \in States /\ << >> \in Seq(Answers) /\ << >> \in Seq(Requests)
        BY DEF States
      <4>2. OneSet(socket, [socket EXCEPT ![s].state = "closing", ![s].down = << >>],
                   s, "closing", socket[s].up, << >>)
        BY <3>3, <4>1, RecordSet, Zenon
      <4>3. QED
        BY <3>4, <3>6, <4>2
    <3>8. \A r \in Sockets : r # s =>
            Line(r, 0, socket[r].state, socket[r].up, socket[r].down, Current(engines), << >>)
      BY <1>3, <3>2
    <3>9. 0 \in Sockets \cup {0}
      OBVIOUS
    <3>10. Lines(sock2, 0, Current(engines), << >>)
      BY <1>2, <3>5, <3>7, <3>8, <3>9, OneLine
    <3>11. socket' = sock2
      BY <1>1, <2>1, <3>2, <3>6
    <3>12. QED
      BY <3>10, <3>11
  <2>2. CASE ~ (ws # 0 /\ socket[ws].state \in {"connecting", "open"})
    <3>1. socket' = socket /\ socket \in [Sockets -> Connections] /\ 0 \notin Sockets
      BY <1>1, <1>2, <2>2 DEF Lines
    <3>2. \A r \in Sockets : r # ws \/ socket[r].state # "open"
      BY <2>2, <3>1
    <3>3. \A r \in Sockets :
            Line(r, 0, socket[r].state, socket[r].up, socket[r].down, Current(engines), << >>)
      BY <1>3, <3>2, Zenon
    <3>4. QED
      BY <3>1, <3>3 DEF Lines
  <2>3. QED
    BY <2>1, <2>2
<1>5. QED
  BY <1>1, <1>2, <1>4, Zenon DEF PageInv

\* sendControl, of the backtest the page has.
LEMMA ControlKeepsPage ==
  ASSUME SendControl, UNCHANGED <<ws, engines, bars, backtestId>>, PageInv PROVE PageInv'
<1>1. CASE backtestId = 0 \/ ~ IsOpen(ws)
  <2>1. socket' = socket
    BY <1>1, Zenon DEF SendControl, Sending
  <2>2. QED
    BY <2>1, Zenon DEF PageInv
<1>2. CASE backtestId # 0 /\ IsOpen(ws)
  <2>1. PICK m : m = Message("play", backtestId, 0)
    OBVIOUS
  <2>2. m \in Requests /\ m.id = Len(Current(engines)) /\ Current(engines) # << >>
    BY <1>2, <2>1, NewRequest DEF PageInv
  <2>3. ws # 0 /\ socket[ws].state = "open"
    BY <1>2 DEF IsOpen
  <2>4. Lines([socket EXCEPT ![ws].up = Append(@, m)], ws, Current(engines), bars)
    BY <2>2, <2>3, SentLines DEF PageInv
  <2>5. socket' = [socket EXCEPT ![ws].up = Append(@, m)]
    BY <1>2, <2>1, Zenon DEF SendControl, Sending
  <2>6. QED
    BY <2>4, <2>5, Zenon DEF PageInv
<1>3. QED
  BY <1>1, <1>2

\* The steps that send, or change neither connections nor the chart.
LEMMA QuietKeepsPage ==
  ASSUME Play \/ Tick \/ StepForward \/ Effect \/ Pause \/ Start \/ StartFails
           \/ UNCHANGED vars,
         PageInv
  PROVE  PageInv'
<1>1. UNCHANGED <<ws, engines, bars, backtestId>>
  BY DEF Play, Tick, StepForward, Effect, Pause, Start, StartFails, vars, client, store
<1>2. UNCHANGED socket \/ SendControl
  BY DEF Play, Tick, StepForward, Effect, Pause, Start, StartFails, vars
<1>3. CASE UNCHANGED socket
  BY <1>1, <1>3, Zenon DEF PageInv
<1>4. CASE SendControl
  BY <1>1, <1>4, ControlKeepsPage
<1>5. QED
  BY <1>2, <1>3, <1>4

\* Every connection and the chart, while engines go on.
LEMMA GrownLines ==
  ASSUME NEW sock, NEW w, NEW servers, NEW servers2, NEW chart,
         Lines(sock, w, servers, chart), Grows(servers, servers2)
  PROVE  Lines(sock, w, servers2, chart)
<1>1. ASSUME NEW r \in Sockets
      PROVE  Line(r, w, sock[r].state, sock[r].up, sock[r].down, servers2, chart)
  <2>1. Line(r, w, sock[r].state, sock[r].up, sock[r].down, servers, chart)
    BY LineOf, Zenon
  <2>2. QED
    BY <2>1, GrownLine
<1>2. QED
  BY <1>1, Zenon DEF Lines

\* handleStart has its response: a backtest more, and the page asks for it.
LEMMA StartedKeepsPage ==
  ASSUME Started, PageInv PROVE PageInv'
<1>1. /\ engines' = Append(engines, 0) /\ backtestId' = Len(engines) + 1
      /\ UNCHANGED <<ws, bars>>
      /\ socket' = Sending(Message("subscribe", Len(engines) + 1, 0))
  BY DEF Started
<1>2. PICK engines2 : engines2 = Append(engines, 0)
  OBVIOUS
<1>3. /\ engines \in Seq(Nat) /\ engines2 \in Seq(Nat) /\ Len(engines) \in Nat
      /\ Len(engines2) = Len(engines) + 1
      /\ \A i \in 1 .. Len(engines) : engines2[i] = engines[i] /\ engines[i] \in Nat
  BY <1>2 DEF PageInv
<1>4. PICK servers2 : servers2 = Current(engines2)
  OBVIOUS
<1>5. Lines(socket, ws, servers2, bars) /\ Chart(servers2, bars)
  <2>1. Grows(engines, engines2)
    BY <1>3 DEF Grows
  <2>2. Grows(Current(engines), servers2)
    BY <1>4, <2>1, CurrentGrows
  <2>3. QED
    BY <2>2, GrownLines, GrownChart DEF PageInv
<1>6. PICK m : m = Message("subscribe", Len(engines) + 1, 0)
  OBVIOUS
<1>7. m \in Requests /\ m.id = Len(servers2) /\ servers2 # << >>
  BY <1>3, <1>4, <1>6, NewRequest
<1>8. Lines(socket', ws, servers2, bars)
  <2>1. CASE ~ IsOpen(ws)
    BY <1>1, <1>5, <2>1, Zenon DEF Sending
  <2>2. CASE IsOpen(ws)
    <3>1. ws # 0 /\ socket[ws].state = "open"
      BY <2>2 DEF IsOpen
    <3>2. Lines([socket EXCEPT ![ws].up = Append(@, m)], ws, servers2, bars)
      BY <1>5, <1>7, <3>1, SentLines
    <3>3. socket' = [socket EXCEPT ![ws].up = Append(@, m)]
      BY <1>1, <1>6, <2>2, Zenon DEF Sending
    <3>4. QED
      BY <3>2, <3>3
  <2>3. QED
    BY <2>1, <2>2
<1>9. engines' = engines2 /\ backtestId' = Len(engines2) /\ engines2 \in Seq(Nat)
  BY <1>1, <1>2, <1>3
<1>10. QED
  BY <1>1, <1>4, <1>5, <1>8, <1>9, Zenon DEF PageInv

\* What a session may answer to the request head, when its engine goes from servers to
\* servers2: one message, or two.
Answer(head, servers, servers2, a) ==
  /\ a \in Answers /\ a.id = head.id
  /\ servers[a.id] <= a.bar /\ a.bar <= servers2[a.id]

Reply(head, servers, servers2, messages) ==
  \E a, b : /\ Answer(head, servers, servers2, a) /\ Answer(head, servers, servers2, b)
            /\ NotAfter(a, b)
            /\ messages = << a >> \/ messages = << a, b >>

\* The session of an open connection answers.
LEMMA RepliedLine ==
  ASSUME NEW s, NEW w, NEW up, NEW down, NEW servers, NEW servers2, NEW chart, NEW messages,
         Line(s, w, "open", up, down, servers, chart), Chart(servers, chart),
         up # << >>, Grows(servers, servers2), Reply(Head(up), servers, servers2, messages)
  PROVE  /\ down \o messages \in Seq(Answers)
         /\ Line(s, w, "open", Tail(up), down \o messages, servers2, chart)
<1>1. PICK a, b : /\ Answer(Head(up), servers, servers2, a)
                  /\ Answer(Head(up), servers, servers2, b)
                  /\ NotAfter(a, b)
                  /\ messages = << a >> \/ messages = << a, b >>
  BY Zenon DEF Reply
<1>2. /\ a \in Answers /\ a.id = Head(up).id /\ servers[a.id] <= a.bar
      /\ a.bar <= servers2[a.id]
      /\ b \in Answers /\ b.id = Head(up).id /\ servers[b.id] <= b.bar
      /\ b.bar <= servers2[b.id]
  BY <1>1 DEF Answer
<1>3. s = w /\ down \in Seq(Answers)
  BY DEF Line
<1>4. PICK rest : rest = Tail(up)
  OBVIOUS
<1>5. Follows(a, rest, down, servers2, chart) /\ Follows(b, rest, down, servers2, chart)
  <2>1. Follows(a, Tail(up), down, servers2, chart)
    BY <1>2, AnswersFollow
  <2>2. Follows(b, Tail(up), down, servers2, chart)
    BY <1>2, AnswersFollow
  <2>3. QED
    BY <1>4, <2>1, <2>2
<1>6. Line(s, w, "open", rest, down, servers2, chart)
  <2>1. Line(s, w, "open", rest, down, servers, chart)
    BY <1>4, TakenLine
  <2>2. QED
    BY <2>1, GrownLine
<1>7. PICK down1, down2 : down1 = Append(down, a) /\ down2 = Append(down1, b)
  OBVIOUS
<1>8. Line(s, w, "open", rest, down1, servers2, chart)
  BY <1>3, <1>5, <1>6, <1>7, AnsweredLine
<1>9. Line(s, w, "open", rest, down2, servers2, chart)
  <2>1. Follows(b, rest, down1, servers2, chart)
    BY <1>1, <1>3, <1>5, <1>7, NextFollows
  <2>2. QED
    BY <1>3, <1>7, <1>8, <2>1, AnsweredLine
<1>10. CASE messages = << a >>
  <2>1. down \o messages = down1
    BY <1>2, <1>3, <1>7, <1>10
  <2>2. QED
    BY <1>4, <1>8, <2>1 DEF Line
<1>11. CASE messages = << a, b >>
  <2>1. down \o messages = down2
    BY <1>2, <1>3, <1>7, <1>11
  <2>2. QED
    BY <1>4, <1>9, <2>1 DEF Line
<1>12. QED
  BY <1>1, <1>10, <1>11

LEMMA RepliedLines ==
  ASSUME NEW servers2, NEW s \in Sockets, NEW messages, PageInv, socket[s].up # << >>,
         Grows(Current(engines), servers2),
         Reply(Head(socket[s].up), Current(engines), servers2, messages),
         Answering(s, messages)
  PROVE  Lines(socket', ws, servers2, bars)
<1>1. /\ socket \in [Sockets -> Connections]
      /\ socket[s].up \in Seq(Requests) /\ socket[s].down \in Seq(Answers)
      /\ Line(s, ws, socket[s].state, socket[s].up, socket[s].down, Current(engines), bars)
      /\ Lines(socket, ws, Current(engines), bars) /\ Chart(Current(engines), bars)
  BY LineOf, Zenon DEF PageInv
<1>2. PICK up, rest, down, state :
        /\ up = socket[s].up /\ rest = Tail(up) /\ down = socket[s].down
        /\ state = socket[s].state
  OBVIOUS
<1>3. PICK down2 : down2 = IF state = "open" THEN down \o messages ELSE down
  OBVIOUS
<1>4. Line(s, ws, state, rest, down2, Current(engines), bars) \/ state = "open"
  BY <1>1, <1>2, <1>3, TakenLine
<1>5. down2 \in Seq(Answers) /\ Line(s, ws, state, rest, down2, servers2, bars)
  <2>1. Line(s, ws, state, up, down, Current(engines), bars) /\ up # << >>
    BY <1>1, <1>2
  <2>2. CASE state = "open"
    <3>1. Line(s, ws, "open", up, down, Current(engines), bars)
      BY <2>1, <2>2
    <3>2. Reply(Head(up), Current(engines), servers2, messages)
      BY <1>2
    <3>3. /\ down \o messages \in Seq(Answers)
          /\ Line(s, ws, "open", Tail(up), down \o messages, servers2, bars)
      BY <1>1, <2>1, <3>1, <3>2, RepliedLine
    <3>4. QED
      BY <1>2, <1>3, <2>2, <3>3
  <2>3. CASE state # "open"
    <3>1. Line(s, ws, state, rest, down, servers2, bars)
      BY <1>2, <1>4, <1>3, <2>3, GrownLine
    <3>2. QED
      BY <1>1, <1>2, <1>3, <2>3, <3>1
  <2>4. QED
    BY <2>2, <2>3
<1>6. PICK sock2 : sock2 = [socket EXCEPT ![s].up = rest, ![s].down = down2]
  OBVIOUS
<1>7. socket' = sock2
  BY <1>1, <1>2, <1>3, <1>6 DEF Answering
<1>8. OneSet(socket, sock2, s, state, rest, down2)
  <2>1. rest \in Seq(Requests) /\ "open" \in States
    BY <1>1, <1>2, HeadTailProperties DEF States
  <2>2. OneSet(socket, [socket EXCEPT ![s].up = rest, ![s].down = down2],
               s, socket[s].state, rest, down2)
    BY <1>1, <1>5, <2>1, RecordSet, Zenon
  <2>3. QED
    BY <1>2, <1>6, <2>2
<1>9. Lines(socket, ws, servers2, bars)
  BY <1>1, GrownLines
<1>10. QED
  BY <1>5, <1>7, <1>8, <1>9, OneLineOnly

\* The engine of one backtest consumes a bar.
LEMMA GrowsByOne ==
  ASSUME NEW servers \in Seq(Nat), NEW id \in 1 .. Len(servers), NEW n \in Nat,
         n = servers[id]
  PROVE  /\ Grows(servers, [servers EXCEPT ![id] = n + 1])
         /\ [servers EXCEPT ![id] = n + 1][id] = n + 1
         /\ Len([servers EXCEPT ![id] = n + 1]) = Len(servers)
<1> DEFINE servers2 == [servers EXCEPT ![id] = n + 1]
<1>1. PICK l \in Nat : l = Len(servers) /\ DOMAIN servers = 1 .. l
  OBVIOUS
<1>2. servers \in [1 .. l -> Nat] /\ n + 1 \in Nat
  BY <1>1
<1>3. /\ servers2 \in [1 .. l -> Nat] /\ servers2[id] = n + 1
      /\ \A i \in 1 .. l : i # id => servers2[i] = servers[i]
  BY <1>1, <1>2
<1>4. servers2 \in Seq(Nat) /\ Len(servers2) = l
  BY <1>1, <1>3
<1>5. \A i \in 1 .. l : servers[i] <= servers2[i]
  <2>1. ASSUME NEW i \in 1 .. l PROVE servers[i] <= servers2[i]
    <3>1. servers[i] \in Nat
      BY <1>2
    <3>2. CASE i = id
      BY <1>3, <3>2
    <3>3. CASE i # id
      BY <1>3, <3>1, <3>3
    <3>4. QED
      BY <3>2, <3>3
  <2>2. QED
    BY <2>1
<1>6. QED
  BY <1>1, <1>3, <1>4, <1>5 DEF Grows

\* The server's session takes a request.
LEMMA HandleKeepsPage ==
  ASSUME NEW s \in Sockets, Handle(s), PageInv PROVE PageInv'
<1>1. /\ socket[s].up # << >> /\ UNCHANGED <<ws, bars, backtestId>>
  BY DEF Handle, client, store
<1>2. /\ socket[s].up \in Seq(Requests)
      /\ Line(s, ws, socket[s].state, socket[s].up, socket[s].down, Current(engines), bars)
      /\ engines \in Seq(Nat) /\ Chart(Current(engines), bars) /\ backtestId = Len(engines)
  BY LineOf, Zenon DEF PageInv
<1>3. PICK head : head = Head(socket[s].up)
  OBVIOUS
<1>4. /\ Len(engines) \in Nat /\ Len(Current(engines)) = Len(engines)
      /\ head \in Requests /\ head.id \in 1 .. Len(engines)
  <2>1. head = socket[s].up[1] /\ 1 \in DOMAIN socket[s].up /\ head \in Requests
    BY <1>1, <1>2, <1>3, TailOf
  <2>2. Len(engines) \in Nat /\ Len(Current(engines)) = Len(engines)
    BY <1>2, CurrentOf
  <2>3. QED
    BY <1>2, <2>1, <2>2 DEF Line
<1>5. PICK id \in 1 .. Len(engines), n \in Nat : id = head.id /\ n = engines[id]
  BY <1>2, <1>4
<1>6. id \in Nat /\ n \in Nat
  BY <1>2, <1>4, <1>5
\* What the session says after i bars, while its engine goes from engines to engines2.
<1>7. ASSUME NEW engines2, Grows(engines, engines2), NEW i \in Nat, n <= i, i <= engines2[id],
             NEW type \in {"snapshot", "bar_update", "complete"}, NEW a, a = Message(type, id, i)
      PROVE  /\ Answer(head, Current(engines), Current(engines2), a)
             /\ a.id = id /\ a.bar = StateBar(i) /\ a.bar \in Nat
  <2>1. a = [type |-> type, id |-> id, index |-> i, bar |-> StateBar(i)] /\ StateBar(i) \in Nat
    BY <1>7 DEF Message, StateBar
  <2>2. a \in Answers /\ a.id = id /\ a.bar = StateBar(i)
    BY <1>6, <1>7, <2>1 DEF Answers
  <2>3. /\ engines2 \in Seq(Nat) /\ id \in 1 .. Len(engines2)
    BY <1>4, <1>7, NumberAt DEF Grows
  <2>4. /\ Current(engines)[id] = StateBar(n) /\ Current(engines2)[id] = StateBar(engines2[id])
        /\ engines2[id] \in Nat
    BY <1>2, <1>5, <2>3, CurrentOf, NumberAt
  <2>5. StateBar(n) <= StateBar(i) /\ StateBar(i) <= StateBar(engines2[id])
    BY <1>6, <1>7, <2>4 DEF StateBar
  <2>6. QED
    BY <1>5, <2>1, <2>2, <2>4, <2>5 DEF Answer
<1>8. ASSUME NEW messages, NEW engines2, Grows(engines, engines2), engines' = engines2,
             Len(engines2) = Len(engines), Answering(s, messages),
             Reply(head, Current(engines), Current(engines2), messages)
      PROVE  PageInv'
  <2>1. Grows(Current(engines), Current(engines2))
    BY <1>8, CurrentGrows
  <2>2. Lines(socket', ws, Current(engines2), bars)
    BY <1>1, <1>3, <1>8, <2>1, RepliedLines
  <2>3. Chart(Current(engines2), bars)
    BY <1>2, <2>1, GrownChart
  <2>4. engines2 \in Seq(Nat)
    BY <1>8 DEF Grows
  <2>5. QED
    BY <1>1, <1>2, <1>8, <2>2, <2>3, <2>4, Zenon DEF PageInv
<1>9. ASSUME UNCHANGED engines, NEW type \in {"snapshot", "complete"},
             Answering(s, << Message(type, id, n) >>)
      PROVE  PageInv'
  <2>1. PICK a : a = Message(type, id, n)
    OBVIOUS
  <2>2. Grows(engines, engines)
    BY <1>2, NumberAt DEF Grows
  <2>3. Answer(head, Current(engines), Current(engines), a) /\ NotAfter(a, a)
    <3>1. n <= n /\ n <= engines[id]
      BY <1>5, <1>6
    <3>2. /\ Answer(head, Current(engines), Current(engines), a)
          /\ a.id = id /\ a.bar \in Nat
      BY <1>6, <1>7, <2>1, <2>2, <3>1
    <3>3. QED
      BY <1>6, <3>2 DEF NotAfter
  <2>4. PICK messages : messages = << a >>
    OBVIOUS
  <2>5. Reply(head, Current(engines), Current(engines), messages)
    BY <2>3, <2>4, Zenon DEF Reply
  <2>6. Answering(s, messages)
    BY <1>9, <2>1, <2>4
  <2>7. QED
    BY <1>8, <1>9, <2>2, <2>5, <2>6
<1>10. ASSUME engines' = [engines EXCEPT ![id] = n + 1],
              Answering(s, << Message("snapshot", id, n + 1),
                              Message("bar_update", id, n + 1) >>)
       PROVE  PageInv'
  <2>1. PICK a, b : a = Message("snapshot", id, n + 1) /\ b = Message("bar_update", id, n + 1)
    OBVIOUS
  <2>2. PICK engines2 : engines2 = [engines EXCEPT ![id] = n + 1]
    OBVIOUS
  <2>3. Grows(engines, engines2) /\ engines2[id] = n + 1 /\ Len(engines2) = Len(engines)
    <3>1. /\ Grows(engines, [engines EXCEPT ![id] = n + 1])
          /\ [engines EXCEPT ![id] = n + 1][id] = n + 1
          /\ Len([engines EXCEPT ![id] = n + 1]) = Len(engines)
      <4>1. engines \in Seq(Nat) /\ n = engines[id] /\ n \in Nat /\ id \in 1 .. Len(engines)
        BY <1>2, <1>5
      <4>2. QED
        BY <4>1, GrowsByOne
    <3>2. QED
      BY <2>2, <3>1, Zenon
  <2>4. PICK m \in Nat : m = n + 1 /\ n <= m /\ m <= engines2[id]
    BY <1>6, <2>3
  <2>5. /\ Answer(head, Current(engines), Current(engines2), a)
        /\ a.id = id /\ a.bar = StateBar(m) /\ a.bar \in Nat
    BY <1>7, <2>1, <2>3, <2>4
  <2>6. /\ Answer(head, Current(engines), Current(engines2), b)
        /\ b.id = id /\ b.bar = StateBar(m)
    BY <1>7, <2>1, <2>3, <2>4
  <2>7. NotAfter(a, b)
    BY <1>6, <2>5, <2>6 DEF NotAfter
  <2>8. PICK messages : messages = << a, b >>
    OBVIOUS
  <2>9. Reply(head, Current(engines), Current(engines2), messages)
    BY <2>5, <2>6, <2>7, <2>8, Zenon DEF Reply
  <2>10. Answering(s, messages)
    BY <1>10, <2>1, <2>8
  <2>11. QED
    BY <1>8, <1>10, <2>2, <2>3, <2>9, <2>10
<1>11. \/ /\ UNCHANGED engines
          /\ \E type \in {"snapshot", "complete"} : Answering(s, << Message(type, id, n) >>)
       \/ /\ engines' = [engines EXCEPT ![id] = n + 1]
          /\ Answering(s, << Message("snapshot", id, n + 1),
                             Message("bar_update", id, n + 1) >>)
  BY <1>3, <1>5 DEF Handle
<1>12. QED
  BY <1>9, <1>10, <1>11, Zenon

-----------------------------------------------------------------------------
LEMMA NextKeepsPage == PageInv /\ [Next]_vars => PageInv'
<1> SUFFICES ASSUME PageInv, [Next]_vars PROVE PageInv'
  OBVIOUS
<1>1. ASSUME NEW s \in Sockets, Opens(s) \/ Lost(s) \/ Closes(s) \/ Receive(s) \/ Handle(s)
      PROVE  PageInv'
  BY <1>1, OpensKeepsPage, EndKeepsPage, ReceiveKeepsPage, HandleKeepsPage
<1>2. CASE \/ Play \/ Tick \/ StepForward \/ Effect \/ Pause \/ Start \/ StartFails
           \/ UNCHANGED vars
  BY <1>2, QuietKeepsPage
<1>3. CASE TimerFires \/ Reset \/ Started
  BY <1>3, TimerKeepsPage, ResetKeepsPage, StartedKeepsPage
<1>4. QED
  BY <1>1, <1>2, <1>3, Zenon DEF Next

LEMMA PageAlways == Spec => []PageInv
BY InitPage, NextKeepsPage, PTL DEF Spec

\* handleMessage and appendBar, over connections that are lost, replaced and left behind:
\* of one backtest, the chart never shows a bar a second time or after a later one, the first
\* bar included, which every snapshot before the first step brings.
THEOREM ChartStaysInOrder == Spec => []ChartInOrder
<1>1. ASSUME PageInv PROVE ChartInOrder
  <2>1. Chart(Current(engines), bars)
    BY <1>1 DEF PageInv
  <2>2. SUFFICES ASSUME NEW i \in DOMAIN bars, NEW j \in DOMAIN bars, i < j,
                        bars[i].id = bars[j].id
                 PROVE  bars[i].bar < bars[j].bar
    BY DEF ChartInOrder
  <2>3. bars[i] \in Shown /\ bars[j] \in Shown /\ Before(bars[i], bars[j])
    BY <2>1, <2>2 DEF Chart
  <2>4. QED
    BY <2>2, <2>3 DEF Before, Shown
<1>2. QED
  BY <1>1, PageAlways, PTL

=============================================================================
