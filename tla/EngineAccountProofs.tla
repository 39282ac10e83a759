------------------------ MODULE EngineAccountProofs -------------------------
(***************************************************************************)
(* The account, the book and the equity curve of the engine tell one       *)
(* story, for every course of prices, every strategy and any number of     *)
(* bars; and what the engine does to its book is what the order book does. *)
(***************************************************************************)
EXTENDS EngineProofs, Results, EngineBook, FoldTheorems

-----------------------------------------------------------------------------
\* What the operations of the book do to the totals over its positions.

LEMMA BookIsFinite ==
  ASSUME BookTypeOK
  PROVE  /\ IsFiniteSet(DOMAIN positions)
         /\ \A id \in DOMAIN positions : positions[id] \in PositionType
         /\ IsFiniteSet(DOMAIN closed_positions)
         /\ \A i \in DOMAIN closed_positions :
              closed_positions[i] \in [id : Nat, pos : PositionType]
<1>1. IsFiniteSet(1 .. created)
  <2>1. 1 \in Int /\ created \in Int
    BY DEF BookTypeOK
  <2>2. QED
    BY <2>1, FS_Interval
<1>2. DOMAIN closed_positions = 1 .. Len(closed_positions) /\ Len(closed_positions) \in Int
  BY DEF BookTypeOK
<1>3. IsFiniteSet(DOMAIN closed_positions)
  BY <1>2, FS_Interval
<1>4. \A i \in DOMAIN closed_positions :
        closed_positions[i] \in [id : Nat, pos : PositionType]
  BY ElementOfSeq, <1>2 DEF BookTypeOK
<1>5. IsFiniteSet(DOMAIN positions)
  BY <1>1, FS_Subset DEF BookTypeOK
<1>6. QED
  BY <1>3, <1>4, <1>5 DEF BookTypeOK

\* What the totals add up.
RealizedIn(book)      == [id \in DOMAIN book |-> book[id].realized]
ClosedRealized(list)  == [i \in DOMAIN list |-> list[i].pos.realized]
MarkedIn(book)        == [id \in DOMAIN book |-> book[id].unrealized]
ProfitIn(book, price) == [id \in DOMAIN book |-> Profit(book[id], price, book[id].size)]

LEMMA TotalsAreWhole ==
  ASSUME BookTypeOK
  PROVE  /\ Whole(RealizedIn(positions)) /\ Whole(ClosedRealized(closed_positions))
         /\ Whole(MarkedIn(positions))
         /\ \A price \in Nat : Whole(ProfitIn(positions, price))
<1>1. \A id \in DOMAIN positions :
        /\ positions[id] \in PositionType /\ positions[id].size \in Nat
        /\ positions[id].realized \in Int /\ positions[id].unrealized \in Int
  BY BookIsFinite DEF PositionType
<1>2. \A i \in DOMAIN closed_positions : closed_positions[i].pos.realized \in Int
  BY BookIsFinite DEF PositionType
<1>3. ASSUME NEW price \in Nat PROVE Whole(ProfitIn(positions, price))
  BY <1>1, BookIsFinite, ProfitType DEF Whole, ProfitIn
<1>4. QED
  BY <1>1, <1>2, <1>3, BookIsFinite DEF Whole, RealizedIn, ClosedRealized, MarkedIn

LEMMA MarkIsInt ==
  ASSUME NEW book, IsFiniteSet(DOMAIN book),
         \A id \in DOMAIN book : book[id] \in PositionType
  PROVE  UnrealizedIn(book) \in Int
<1>1. Whole(MarkedIn(book))
  BY DEF Whole, MarkedIn, PositionType
<1>2. QED
  BY <1>1, SumInt DEF UnrealizedIn, MarkedIn

LEMMA TotalsAreInt ==
  ASSUME BookTypeOK
  PROVE  /\ RealizedOpen \in Int /\ RealizedClosed \in Int
         /\ UnrealizedIn(positions) \in Int
         /\ \A price \in Nat : ProfitAt(price) \in Int
<1>1. RealizedOpen \in Int
  BY TotalsAreWhole, SumInt DEF RealizedOpen, RealizedIn
<1>2. RealizedClosed \in Int
  BY TotalsAreWhole, SumInt DEF RealizedClosed, ClosedRealized
<1>3. UnrealizedIn(positions) \in Int
  BY BookIsFinite, MarkIsInt
<1>4. \A price \in Nat : ProfitAt(price) \in Int
  BY TotalsAreWhole, SumInt DEF ProfitAt, ProfitIn
<1>5. QED
  BY <1>1, <1>2, <1>3, <1>4

\* A position that opens has realized nothing.
LEMMA OpenTotals ==
  ASSUME BookTypeOK,
         NEW symbol, NEW direction, NEW price, NEW qty,
         OpenPosition(symbol, direction, price, qty)
  PROVE  RealizedOpen' = RealizedOpen /\ RealizedClosed' = RealizedClosed
<1> PICK new : new = created + 1
  OBVIOUS
<1> PICK f : f = RealizedIn(positions)
  OBVIOUS
<1> PICK g : g = RealizedIn(positions')
  OBVIOUS
<1>1. /\ DOMAIN positions' = DOMAIN positions \cup {new}
      /\ positions'[new].realized = 0
      /\ \A id \in DOMAIN positions : id # new => positions'[id] = positions[id]
      /\ closed_positions' = closed_positions
  BY DEF OpenPosition, NewPosition
<1>2. new \notin DOMAIN positions
  BY DEF BookTypeOK
<1>3. OneMore(f, g, new) /\ g[new] = 0
  BY <1>1, <1>2 DEF RealizedIn, OneMore
<1>4. Whole(f)
  BY TotalsAreWhole
<1>5. SumFunction(g) = SumFunction(f) + g[new] /\ SumFunction(f) \in Int
  BY <1>3, <1>4, SumAdd, SumInt
<1>6. RealizedOpen' = RealizedOpen
  BY <1>3, <1>5 DEF RealizedOpen, RealizedIn
<1>7. QED
  BY <1>1, <1>6 DEF RealizedClosed

\* What a reduction realizes stays with the position, in the map or among the closed ones.
LEMMA ReduceTotals ==
  ASSUME BookTypeOK,
         NEW id \in DOMAIN positions, NEW price \in Nat, NEW qty \in Nat,
         ReducePosition(id, price, qty)
  PROVE  RealizedOpen' + RealizedClosed'
           = RealizedOpen + RealizedClosed + Profit(positions[id], price, qty)
<1> PICK gain : gain = Profit(positions[id], price, qty)
  OBVIOUS
<1> PICK f : f = RealizedIn(positions)
  OBVIOUS
<1> PICK g : g = RealizedIn(positions')
  OBVIOUS
<1> PICK c : c = ClosedRealized(closed_positions)
  OBVIOUS
<1> PICK d : d = ClosedRealized(closed_positions')
  OBVIOUS
<1>1. Whole(f) /\ Whole(c) /\ SumFunction(f) \in Int /\ SumFunction(c) \in Int
  BY TotalsAreWhole, SumInt
<1>2. positions[id] \in PositionType
  BY BookIsFinite
<1>3. /\ Reduced(positions[id], price, qty).realized = f[id] + gain
      /\ gain \in Int /\ f[id] \in Int
  BY <1>2, ProfitType DEF Reduced, PositionType, RealizedIn
<1>4. CASE positions[id].size = qty
  <2>1. /\ positions' = [i \in DOMAIN positions \ {id} |-> positions[i]]
        /\ closed_positions' =
             Append(closed_positions, [id |-> id, pos |-> Reduced(positions[id], price, qty)])
    BY <1>4 DEF ReducePosition
  <2>2. OneMore(g, f, id) /\ Whole(g)
    <3>1. IsFiniteSet(DOMAIN positions \ {id})
      BY BookIsFinite, FS_RemoveElement
    <3>2. /\ DOMAIN f = DOMAIN positions /\ DOMAIN g = DOMAIN positions \ {id}
          /\ \A i \in DOMAIN g : g[i] = f[i]
      BY <2>1 DEF RealizedIn
    <3>3. QED
      BY <1>1, <3>1, <3>2 DEF OneMore, Whole
  <2>3. SumFunction(f) = SumFunction(g) + f[id] /\ SumFunction(g) \in Int
    BY <2>2, SumAdd, SumInt
  <2>4. PICK n \in Nat : n = Len(closed_positions) /\ DOMAIN closed_positions = 1 .. n
    BY DEF BookTypeOK
  <2>5. /\ DOMAIN closed_positions' = (1 .. n) \cup {n + 1}
        /\ closed_positions'[n + 1].pos = Reduced(positions[id], price, qty)
        /\ \A i \in 1 .. n : closed_positions'[i] = closed_positions[i]
    BY <2>1, <2>4 DEF BookTypeOK
  <2>6. OneMore(c, d, n + 1) /\ d[n + 1] = f[id] + gain
    BY <1>3, <2>4, <2>5 DEF ClosedRealized, OneMore
  <2>7. SumFunction(d) = SumFunction(c) + d[n + 1]
    BY <1>1, <2>6, SumAdd
  <2>8. SumFunction(g) + SumFunction(d) = SumFunction(f) + SumFunction(c) + gain
    BY <1>1, <1>3, <2>3, <2>6, <2>7
  <2>9. QED
    BY <2>8 DEF RealizedOpen, RealizedClosed, RealizedIn, ClosedRealized
<1>5. CASE positions[id].size # qty
  <2>1. /\ positions' = [positions EXCEPT ![id] = Reduced(positions[id], price, qty)]
        /\ closed_positions' = closed_positions
    BY <1>5 DEF ReducePosition
  <2>2. OneChanged(f, g, id) /\ g[id] = f[id] + gain
    BY <1>3, <2>1 DEF RealizedIn, OneChanged
  <2>3. SumFunction(g) = SumFunction(f) - f[id] + g[id]
    BY <1>1, <2>2, SumUpdate
  <2>4. SumFunction(g) + SumFunction(c) = SumFunction(f) + SumFunction(c) + gain
    BY <1>1, <1>3, <2>2, <2>3
  <2>5. QED
    BY <2>1, <2>4 DEF RealizedOpen, RealizedClosed, RealizedIn, ClosedRealized
<1>6. QED
  BY <1>4, <1>5

\* Marking realizes nothing, and an engine of one symbol leaves no position at an old mark.
LEMMA MarkTotals ==
  ASSUME BookTypeOK, NEW mark \in Nat,
         positions' = CheckLiquidations(Marked(mark), mark),
         UNCHANGED closed_positions
  PROVE  /\ RealizedOpen' = RealizedOpen /\ RealizedClosed' = RealizedClosed
         /\ Symbols = {Symbol} =>
              UnrealizedIn(positions') =
                SumFunction([id \in DOMAIN positions' |->
                               Profit(positions'[id], mark, positions'[id].size)])
<1>1. DOMAIN positions' = DOMAIN positions
  BY DEF CheckLiquidations, CheckLiquidation, Marked
<1>2. \A id \in DOMAIN positions :
        positions'[id] =
          IF positions[id].symbol = Symbol
          THEN [positions[id] EXCEPT !.unrealized = Profit(positions[id], mark, positions[id].size)]
          ELSE positions[id]
  BY DEF CheckLiquidations, CheckLiquidation, Marked
<1>3. \A id \in DOMAIN positions : positions[id] \in PositionType
  BY BookIsFinite
<1>4. \A id \in DOMAIN positions :
        /\ positions'[id].realized = positions[id].realized
        /\ positions'[id].entry = positions[id].entry
        /\ positions'[id].size = positions[id].size
        /\ positions'[id].direction = positions[id].direction
  BY <1>2, <1>3 DEF PositionType
<1>5. RealizedOpen' = RealizedOpen
  BY <1>1, <1>4 DEF RealizedOpen
<1>6. RealizedClosed' = RealizedClosed
  BY DEF RealizedClosed
<1>7. ASSUME Symbols = {Symbol}, NEW id \in DOMAIN positions
      PROVE  positions'[id].unrealized = Profit(positions'[id], mark, positions'[id].size)
  <2>1. positions[id].symbol = Symbol
    BY <1>3, <1>7 DEF PositionType
  <2>2. positions'[id].unrealized = Profit(positions[id], mark, positions[id].size)
    BY <1>2, <1>3, <2>1 DEF PositionType
  <2>3. QED
    BY <1>4, <2>2 DEF Profit
<1>8. QED
  BY <1>1, <1>5, <1>6, <1>7 DEF UnrealizedIn

-----------------------------------------------------------------------------
\* What a step inside step() realizes: the account, the day, the book and, but for a
\* CloseAll, the recorded fills all gain the same.

Gain(amount) ==
  /\ realized_pnl_total' = realized_pnl_total + Unit * amount
  /\ day_realized_pnl' = day_realized_pnl + Unit * amount
  /\ RealizedOpen' + RealizedClosed' = RealizedOpen + RealizedClosed + amount
  /\ daily_pnl' = daily_pnl /\ last_day' = last_day
  /\ \/ /\ pc = "executing" /\ pc' = "executing"
        /\ \E fill \in FillType : fill.realized = Unit * amount /\ RecordFill(fill)
     \/ /\ amount = 0 /\ orders_history' = orders_history
        /\ pc = "executing"
        /\ pc' = "closing" => closing'.fill.position = NoPosition
     \/ pc = "closing" /\ pc' = "closing" /\ closing'.fill = closing.fill

LEMMA LeaveGains ==
  ASSUME Inv, ExecuteReduce \/ ExecuteClose
  PROVE  \E amount \in Int : Gain(amount)
<1>1. PICK actions : Execute(actions)
  BY DEF ExecuteReduce, ExecuteClose
<1>2. /\ Current \in SignalType /\ pc = "executing"
      /\ FillPrice \in Nat /\ FillQuantity(Current) \in Nat /\ TypeOK /\ BookTypeOK
  BY <1>1, ExecuteFrame, InvParts DEF Inv
<1>3. PICK id \in BySymbol(Current.symbol) :
        \E qty \in {FillQuantity(Current), positions[id].size} :
          /\ ReducePosition(id, FillPrice, qty)
          /\ Settle(Current, Profit(positions[id], FillPrice, qty))
          /\ RecordFill(Fill(id, Current, Unit * Profit(positions[id], FillPrice, qty)))
  BY DEF ExecuteReduce, ExecuteClose, ClosePosition
<1>4. /\ id \in DOMAIN positions /\ id \in Nat
      /\ positions[id] \in PositionType /\ positions[id].size \in Nat
  BY <1>2, <1>3 DEF BySymbol, BookTypeOK, PositionType
<1>5. PICK qty \in Nat :
        /\ ReducePosition(id, FillPrice, qty)
        /\ Settle(Current, Profit(positions[id], FillPrice, qty))
        /\ RecordFill(Fill(id, Current, Unit * Profit(positions[id], FillPrice, qty)))
  BY <1>2, <1>3, <1>4
<1> PICK amount : amount = Profit(positions[id], FillPrice, qty)
  OBVIOUS
<1>6. amount \in Int /\ Unit * amount \in Int
  BY <1>2, <1>4, ProfitType, MoneyAssumption
<1>7. RealizedOpen' + RealizedClosed' = RealizedOpen + RealizedClosed + amount
  BY <1>2, <1>4, <1>5, ReduceTotals
<1>8. /\ realized_pnl_total' = realized_pnl_total + Unit * amount
      /\ day_realized_pnl' = day_realized_pnl + Unit * amount
  BY <1>5 DEF Settle
<1>9. Fill(id, Current, Unit * amount) \in FillType
  BY <1>2, <1>4, <1>6, FillIsFill
<1>10. Fill(id, Current, Unit * amount).realized = Unit * amount
  BY DEF Fill
<1>11. daily_pnl' = daily_pnl /\ last_day' = last_day /\ pc' = pc
  BY <1>1 DEF Execute, dayVars, ExecuteReduce, ExecuteClose
<1>12. Gain(amount)
  BY <1>2, <1>5, <1>7, <1>8, <1>9, <1>10, <1>11 DEF Gain
<1>13. QED
  BY <1>6, <1>12

LEMMA NoGains ==
  ASSUME Inv, ExecuteOpen \/ ExecuteFeeOnly \/ ExecuteCloseAll
  PROVE  \E amount \in Int : Gain(amount)
<1>1. PICK actions : Execute(actions)
  BY DEF ExecuteOpen, ExecuteFeeOnly, ExecuteCloseAll
<1>2. /\ Current \in SignalType /\ pc = "executing" /\ TypeOK /\ BookTypeOK /\ MoneyOK
  BY <1>1, ExecuteFrame, InvParts DEF Inv
<1>3. Settle(Current, 0)
  BY DEF ExecuteOpen, ExecuteFeeOnly, ExecuteCloseAll
<1>4. /\ realized_pnl_total' = realized_pnl_total + Unit * 0
      /\ day_realized_pnl' = day_realized_pnl + Unit * 0
  BY <1>3 DEF Settle
<1>5. daily_pnl' = daily_pnl /\ last_day' = last_day
  BY <1>1 DEF Execute, dayVars
<1>6. RealizedOpen' + RealizedClosed' = RealizedOpen + RealizedClosed + 0
  <2>1. RealizedOpen \in Int /\ RealizedClosed \in Int
    BY <1>2, TotalsAreInt
  <2>2. CASE ExecuteOpen
    <3>1. RealizedOpen' = RealizedOpen /\ RealizedClosed' = RealizedClosed
      BY <1>2, <2>2, OpenTotals DEF ExecuteOpen
    <3>2. QED
      BY <2>1, <3>1
  <2>3. CASE ExecuteFeeOnly \/ ExecuteCloseAll
    <3>1. positions' = positions /\ closed_positions' = closed_positions
      BY <2>3 DEF ExecuteFeeOnly, ExecuteCloseAll, bookVars
    <3>2. RealizedOpen' = RealizedOpen /\ RealizedClosed' = RealizedClosed
      BY <3>1 DEF RealizedOpen, RealizedClosed
    <3>3. QED
      BY <2>1, <3>2
  <2>4. QED
    BY <2>2, <2>3
<1>7. CASE ExecuteOpen
  <2>1. created + 1 \in Nat /\ 0 \in Int /\ Unit * 0 = 0
    BY <1>2, MoneyAssumption DEF BookTypeOK
  <2>2. Fill(created + 1, Current, 0) \in FillType
    BY <1>2, <2>1, FillIsFill
  <2>3. Fill(created + 1, Current, 0).realized = Unit * 0
    BY <2>1 DEF Fill
  <2>4. RecordFill(Fill(created + 1, Current, 0)) /\ pc' = pc
    BY <1>7 DEF ExecuteOpen
  <2>5. \E fill \in FillType : fill.realized = Unit * 0 /\ RecordFill(fill)
    BY <2>2, <2>3, <2>4
  <2>6. QED
    BY <1>2, <1>4, <1>5, <1>6, <2>4, <2>5 DEF Gain
<1>8. CASE ExecuteFeeOnly \/ ExecuteCloseAll
  <2>1. orders_history' = orders_history
    BY <1>8 DEF ExecuteFeeOnly, ExecuteCloseAll, tradeVars
  <2>2. pc' = "closing" => closing'.fill.position = NoPosition
    BY <1>2, <1>8 DEF ExecuteFeeOnly, ExecuteCloseAll, Fill
  <2>3. QED
    BY <1>2, <1>4, <1>5, <1>6, <2>1, <2>2 DEF Gain
<1>9. QED
  BY <1>7, <1>8

LEMMA CloseNextGains ==
  ASSUME Inv, CloseAllNext
  PROVE  \E amount \in Int : Gain(amount)
<1>1. PICK id \in closing.todo : CloseNext(id) /\ closing' = [closing EXCEPT !.todo = @ \ {id}]
  BY DEF CloseAllNext
<1>2. /\ TypeOK /\ BookTypeOK /\ id \in DOMAIN positions /\ pc = "closing" /\ pc' = "closing"
      /\ closing \in [fill : FillType, todo : SUBSET Nat]
  BY <1>1, InvParts DEF Inv, ClosingOK, CloseAllNext
<1>3. positions[id] \in PositionType /\ positions[id].size \in Nat /\ FillPrice \in Nat
  BY <1>2, BarTypes DEF BookTypeOK, PositionType
<1> PICK amount : amount = Profit(positions[id], FillPrice, positions[id].size)
  OBVIOUS
<1>4. amount \in Int
  BY <1>3, ProfitType
<1>5. ReducePosition(id, FillPrice, positions[id].size)
  BY <1>1 DEF CloseNext, ClosePosition
<1>6. RealizedOpen' + RealizedClosed' = RealizedOpen + RealizedClosed + amount
  BY <1>2, <1>3, <1>5, ReduceTotals
<1>7. /\ realized_pnl_total' = realized_pnl_total + Unit * amount
      /\ day_realized_pnl' = day_realized_pnl + Unit * amount
      /\ daily_pnl' = daily_pnl /\ last_day' = last_day
  BY <1>1 DEF CloseNext, CloseAllNext, dayVars
<1>8. closing'.fill = closing.fill
  BY <1>1, <1>2
<1>9. QED
  BY <1>2, <1>4, <1>6, <1>7, <1>8 DEF Gain

Gaining == ExecuteOpen \/ ExecuteReduce \/ ExecuteClose \/ ExecuteFeeOnly
           \/ ExecuteCloseAll \/ CloseAllNext

LEMMA Gains ==
  ASSUME Inv, Gaining
  PROVE  \E amount \in Int : Gain(amount)
BY LeaveGains, NoGains, CloseNextGains DEF Gaining

-----------------------------------------------------------------------------
\* The invariant of the account.

\* The bars whose step is over.
Processed == IF pc = "idle" THEN current_idx ELSE current_idx - 1

\* The last point of the curve is what the account and the marked book are worth.
CurveAgrees ==
  /\ Len(equity_curve) = Processed
  /\ pc = "idle" /\ current_idx > 0 =>
       /\ equity_curve[current_idx] = EquityOf(balance, positions)
       /\ Symbols = {Symbol} => UnrealizedIn(positions) = ProfitAt(CurrentBar.close)
  /\ pc = "idle" /\ current_idx = 0 => positions = << >> /\ balance = InitialBalance

\* The days that are over are in order, and no bar to come belongs to one of them.
DaysInOrder ==
  /\ bars \in BarSeqs
  /\ \A i \in DOMAIN daily_pnl :
       /\ daily_pnl[i].day < last_day
       /\ i > 1 => daily_pnl[i - 1].day < daily_pnl[i].day
  /\ \A j \in DOMAIN bars : j > Processed => last_day <= Day(bars[j].timestamp)

DaysAgree == realized_pnl_total = day_realized_pnl + ClosedDays

NoCloseAll == \A i \in DOMAIN orders_history : orders_history[i].position # NoPosition

\* Without a CloseAll the fills hold everything realized; the one that a CloseAll leaves
\* names no position.
FillsAgree ==
  /\ pc = "closing" => closing.fill.position = NoPosition
  /\ pc # "closing" /\ NoCloseAll => realized_pnl_total = SumFunction(Returns)

-----------------------------------------------------------------------------
\* The totals: of the account, of the book, of the days and of the fills.

LEMMA ReturnsAreWhole ==
  ASSUME TradesOK
  PROVE  Whole(Returns) /\ SumFunction(Returns) \in Int
<1>1. DOMAIN orders_history = 1 .. Len(orders_history) /\ Len(orders_history) \in Int
  BY DEF TradesOK
<1>2. IsFiniteSet(DOMAIN orders_history)
  BY <1>1, FS_Interval
<1>3. \A i \in DOMAIN orders_history : orders_history[i].realized \in Int
  <2>1. \A i \in DOMAIN orders_history : orders_history[i] \in FillType
    BY ElementOfSeq, <1>1 DEF TradesOK
  <2>2. QED
    BY <2>1 DEF FillType
<1>4. Whole(Returns)
  BY <1>2, <1>3 DEF Whole, Returns
<1>5. QED
  BY <1>4, SumInt

LEMMA RecordReturns ==
  ASSUME TradesOK, NEW fill \in FillType, RecordFill(fill)
  PROVE  /\ SumFunction(Returns)' = SumFunction(Returns) + fill.realized
         /\ NoCloseAll' => NoCloseAll /\ fill.position # NoPosition
<1> PICK f : f = Returns
  OBVIOUS
<1> PICK g : g = Returns'
  OBVIOUS
<1>1. PICK n \in Nat : n = Len(orders_history) /\ DOMAIN orders_history = 1 .. n
  BY DEF TradesOK
<1>2. /\ DOMAIN orders_history' = (1 .. n) \cup {n + 1}
      /\ orders_history'[n + 1] = fill
      /\ \A i \in 1 .. n : orders_history'[i] = orders_history[i]
  BY <1>1 DEF RecordFill, TradesOK
<1>3. OneMore(f, g, n + 1) /\ g[n + 1] = fill.realized
  <2>1. fill.realized \in Int
    BY DEF FillType
  <2>2. QED
    BY <1>1, <1>2, <2>1 DEF Returns, OneMore
<1>4. SumFunction(g) = SumFunction(f) + g[n + 1]
  BY <1>3, ReturnsAreWhole, SumAdd
<1>5. NoCloseAll' => NoCloseAll /\ fill.position # NoPosition
  BY <1>1, <1>2 DEF NoCloseAll
<1>6. QED
  BY <1>3, <1>4, <1>5

LEMMA DaysAreWhole ==
  ASSUME DaysOK
  PROVE  Whole([i \in DOMAIN daily_pnl |-> daily_pnl[i].pnl]) /\ ClosedDays \in Int
<1>1. DOMAIN daily_pnl = 1 .. Len(daily_pnl) /\ Len(daily_pnl) \in Int
  BY DEF DaysOK
<1>2. IsFiniteSet(DOMAIN daily_pnl)
  BY <1>1, FS_Interval
<1>3. \A i \in DOMAIN daily_pnl : daily_pnl[i].pnl \in Int
  <2>1. \A i \in DOMAIN daily_pnl : daily_pnl[i] \in [day : Int, pnl : Int]
    BY ElementOfSeq, <1>1 DEF DaysOK
  <2>2. QED
    BY <2>1
<1>4. Whole([i \in DOMAIN daily_pnl |-> daily_pnl[i].pnl])
  BY <1>2, <1>3 DEF Whole
<1>5. QED
  BY <1>4, SumInt DEF ClosedDays

LEMMA GainTotals ==
  ASSUME Inv, RealizedByPositions, DaysAgree, FillsAgree,
         NEW amount \in Int, Gain(amount)
  PROVE  RealizedByPositions' /\ DaysAgree' /\ FillsAgree'
<1>1. /\ BookTypeOK /\ MoneyOK /\ TradesOK /\ DaysOK
  BY InvParts
<1>2. /\ RealizedOpen \in Int /\ RealizedClosed \in Int /\ ClosedDays \in Int
      /\ SumFunction(Returns) \in Int
  BY <1>1, TotalsAreInt, DaysAreWhole, ReturnsAreWhole
<1>3. PICK gain \in Int : gain = Unit * amount
  BY MoneyAssumption
<1>4. RealizedByPositions'
  <2>1. Unit * (RealizedOpen + RealizedClosed + amount) = Unit * (RealizedOpen + RealizedClosed) + gain
    BY <1>2, <1>3, MoneyAssumption
  <2>2. QED
    BY <1>3, <2>1 DEF RealizedByPositions, Gain
<1>5. DaysAgree'
  <2>1. ClosedDays' = ClosedDays
    BY DEF Gain, ClosedDays
  <2>2. QED
    BY <1>1, <1>2, <1>3, <2>1 DEF DaysAgree, Gain, MoneyOK
<1>6. FillsAgree'
  <2>1. CASE pc = "executing" /\ pc' = "executing" /\
             \E fill \in FillType : fill.realized = Unit * amount /\ RecordFill(fill)
    <3>1. PICK fill \in FillType : fill.realized = Unit * amount /\ RecordFill(fill)
      BY <2>1
    <3>2. /\ SumFunction(Returns)' = SumFunction(Returns) + gain
          /\ NoCloseAll' => NoCloseAll
      BY <1>1, <1>3, <3>1, RecordReturns
    <3>3. QED
      BY <1>1, <1>2, <1>3, <2>1, <3>2 DEF FillsAgree, Gain, MoneyOK
  <2>2. CASE amount = 0 /\ orders_history' = orders_history /\ pc = "executing" /\
             (pc' = "closing" => closing'.fill.position = NoPosition)
    <3>1. Returns' = Returns /\ (NoCloseAll' => NoCloseAll)
      BY <2>2 DEF Returns, NoCloseAll
    <3>2. realized_pnl_total' = realized_pnl_total
      BY <1>1, <2>2, MoneyAssumption DEF Gain, MoneyOK
    <3>3. QED
      BY <2>2, <3>1, <3>2 DEF FillsAgree
  <2>3. CASE pc = "closing" /\ pc' = "closing" /\ closing'.fill = closing.fill
    BY <2>3 DEF FillsAgree
  <2>4. QED
    BY <2>1, <2>2, <2>3 DEF Gain
<1>7. QED
  BY <1>4, <1>5, <1>6

\* The fill that a CloseAll records realizes nothing and names no position.
LEMMA DoneTotals ==
  ASSUME Inv, RealizedByPositions, DaysAgree, FillsAgree, CloseAllDone
  PROVE  RealizedByPositions' /\ DaysAgree' /\ FillsAgree'
<1>1. /\ TradesOK /\ pc = "closing" /\ closing.fill.position = NoPosition
      /\ RecordFill(closing.fill) /\ closing.fill \in FillType
  BY InvParts DEF CloseAllDone, FillsAgree, ClosingOK
<1>2. ~NoCloseAll'
  BY <1>1, RecordReturns
<1>3. FillsAgree'
  BY <1>2 DEF FillsAgree, CloseAllDone
<1>4. QED
  BY <1>3 DEF RealizedByPositions, RealizedOpen, RealizedClosed, DaysAgree, ClosedDays,
     CloseAllDone, bookVars, dayVars
-----------------------------------------------------------------------------
\* The days.

LEMMA DaysGoForward ==
  ASSUME Inv, bars \in BarSeqs
  PROVE  /\ \A i \in DOMAIN bars : Day(bars[i].timestamp) \in Nat
         /\ \A i, j \in DOMAIN bars :
              i <= j => Day(bars[i].timestamp) <= Day(bars[j].timestamp)
<1>1. \A i \in DOMAIN bars : bars[i].timestamp \in Nat
  <2>1. bars \in Seq(Bar)
    BY InvParts DEF PlaceOK
  <2>2. \A i \in DOMAIN bars : bars[i] \in Bar
    BY <2>1, ElementOfSeq
  <2>3. QED
    BY <2>2 DEF Bar
<1>2. \A a \in Nat : Day(a) \in Nat
  BY ConfigAssumption DEF Day
<1>3. \A a, b \in Nat : a <= b => Day(a) <= Day(b)
  BY ConfigAssumption DEF Day
<1>4. QED
  BY <1>1, <1>2, <1>3, TimestampsAssumption

\* A day that ends is added to those that are over, and the next one starts from nothing.
LEMMA EndOfDay ==
  ASSUME DaysOK, MoneyOK, DaysAgree, realized_pnl_total' = realized_pnl_total,
         NEW day \in Int, DailyPnl(day)
  PROVE  DaysAgree'
<1>1. CASE day # last_day /\ last_day # 0
  <2> PICK f : f = [i \in DOMAIN daily_pnl |-> daily_pnl[i].pnl]
    OBVIOUS
  <2> PICK g : g = [i \in DOMAIN daily_pnl' |-> daily_pnl'[i].pnl]
    OBVIOUS
  <2>1. PICK n \in Nat : n = Len(daily_pnl) /\ DOMAIN daily_pnl = 1 .. n
    BY DEF DaysOK
  <2>2. /\ daily_pnl' = Append(daily_pnl, [day |-> last_day, pnl |-> day_realized_pnl])
        /\ day_realized_pnl' = 0 /\ day_realized_pnl \in Int
    BY <1>1 DEF DailyPnl, MoneyOK
  <2>3. /\ DOMAIN daily_pnl' = (1 .. n) \cup {n + 1}
        /\ daily_pnl'[n + 1].pnl = day_realized_pnl
        /\ \A i \in 1 .. n : daily_pnl'[i] = daily_pnl[i]
    BY <2>1, <2>2 DEF DaysOK
  <2>4. OneMore(f, g, n + 1) /\ g[n + 1] = day_realized_pnl
    BY <2>1, <2>2, <2>3 DEF OneMore
  <2>5. Whole(f) /\ SumFunction(f) \in Int
    BY DaysAreWhole, SumInt
  <2>6. SumFunction(g) = SumFunction(f) + g[n + 1]
    BY <2>4, <2>5, SumAdd
  <2>7. ClosedDays = SumFunction(f) /\ ClosedDays' = SumFunction(g)
    BY DEF ClosedDays
  <2>8. QED
    BY <2>2, <2>4, <2>5, <2>6, <2>7 DEF DaysAgree
<1>2. CASE day = last_day \/ last_day = 0
  BY <1>2 DEF DailyPnl, DaysAgree, ClosedDays
<1>3. QED
  BY <1>1, <1>2 DEF DailyPnl

LEMMA FinishDays ==
  ASSUME Inv, DaysInOrder, FinishStep
  PROVE  DaysInOrder'
<1> PICK day : day = Day(CurrentBar.timestamp)
  OBVIOUS
<1>1. /\ PlaceOK /\ DaysOK /\ pc = "marking" /\ bars' = bars /\ current_idx' = current_idx
      /\ pc' = "idle" /\ DailyPnl(day) /\ bars \in BarSeqs
  BY InvParts DEF FinishStep, DaysInOrder
<1>2. current_idx \in DOMAIN bars /\ current_idx \in Int
  BY <1>1 DEF PlaceOK
<1>3. /\ Processed = current_idx - 1 /\ Processed' = current_idx
      /\ \A j \in DOMAIN bars : j \in Int
  BY <1>1 DEF Processed, PlaceOK
<1>4. /\ day \in Int /\ last_day <= day /\ last_day \in Int /\ last_day' = day
      /\ \A j \in DOMAIN bars : j > current_idx => day <= Day(bars[j].timestamp)
  <2>1. day = Day(bars[current_idx].timestamp)
    BY DEF CurrentBar
  <2>2. last_day <= day
    BY <1>2, <1>3, <2>1 DEF DaysInOrder
  <2>3. day \in Int /\ \A j \in DOMAIN bars : j > current_idx => day <= Day(bars[j].timestamp)
    BY <1>1, <1>2, <1>3, <2>1, DaysGoForward
  <2>4. last_day \in Int /\ last_day' = day
    BY <1>1 DEF DaysOK, DailyPnl
  <2>5. QED
    BY <2>2, <2>3, <2>4
<1>5. PICK n \in Nat : n = Len(daily_pnl) /\ DOMAIN daily_pnl = 1 .. n
  BY <1>1 DEF DaysOK
<1>6. \A i \in 1 .. n : daily_pnl[i].day \in Int
  <2>1. \A i \in 1 .. n : daily_pnl[i] \in [day : Int, pnl : Int]
    BY <1>1, <1>5, ElementOfSeq DEF DaysOK
  <2>2. QED
    BY <2>1
<1>7. /\ \A i \in DOMAIN daily_pnl' : daily_pnl'[i].day < day
      /\ \A i \in DOMAIN daily_pnl' : i > 1 => daily_pnl'[i - 1].day < daily_pnl'[i].day
  <2>1. CASE day # last_day /\ last_day # 0
    <3>1. daily_pnl' = Append(daily_pnl, [day |-> last_day, pnl |-> day_realized_pnl])
      BY <1>1, <2>1 DEF DailyPnl
    <3>2. /\ DOMAIN daily_pnl' = 1 .. n + 1
          /\ daily_pnl'[n + 1].day = last_day
          /\ \A i \in 1 .. n : daily_pnl'[i] = daily_pnl[i]
      BY <1>1, <1>5, <3>1 DEF DaysOK
    <3>3. last_day < day
      BY <1>4, <2>1
    <3>4. \A i \in 1 .. n + 1 : daily_pnl'[i].day < day
      <4>1. SUFFICES ASSUME NEW i \in 1 .. n + 1 PROVE daily_pnl'[i].day < day
        OBVIOUS
      <4>2. CASE i = n + 1
        BY <3>2, <3>3, <4>2
      <4>3. CASE i \in 1 .. n
        <5>1. daily_pnl'[i] = daily_pnl[i] /\ daily_pnl[i].day \in Int
          BY <1>6, <3>2, <4>3
        <5>2. daily_pnl[i].day < last_day
          BY <1>5, <4>3 DEF DaysInOrder
        <5>3. QED
          BY <1>4, <3>3, <5>1, <5>2
      <4>4. QED
        BY <4>2, <4>3
    <3>5. \A i \in 1 .. n + 1 : i > 1 => daily_pnl'[i - 1].day < daily_pnl'[i].day
      <4>1. SUFFICES ASSUME NEW i \in 1 .. n + 1, i > 1
                     PROVE  daily_pnl'[i - 1].day < daily_pnl'[i].day
        OBVIOUS
      <4>2. i - 1 \in 1 .. n /\ daily_pnl'[i - 1] = daily_pnl[i - 1]
        BY <3>2, <4>1
      <4>3. CASE i = n + 1
        BY <1>5, <3>2, <4>2, <4>3 DEF DaysInOrder
      <4>4. CASE i # n + 1
        <5>1. i \in 1 .. n /\ daily_pnl'[i] = daily_pnl[i]
          BY <3>2, <4>4
        <5>2. QED
          BY <1>5, <4>1, <4>2, <5>1 DEF DaysInOrder
      <4>5. QED
        BY <4>3, <4>4
    <3>6. QED
      BY <3>2, <3>4, <3>5
  <2>2. CASE day = last_day \/ last_day = 0
    <3>1. daily_pnl' = daily_pnl
      BY <1>1, <2>2 DEF DailyPnl
    <3>2. QED
      BY <1>4, <1>5, <1>6, <3>1 DEF DaysInOrder
  <2>3. QED
    BY <2>1, <2>2
<1>8. QED
  BY <1>1, <1>3, <1>4, <1>7 DEF DaysInOrder

-----------------------------------------------------------------------------
\* The equity curve: its peak and its falls.

\* The points of the curve, the opening balance as number 0.
Point(i) == IF i = 0 THEN InitialBalance ELSE equity_curve[i]
CurvePoints == 0 .. Len(equity_curve)

\* The peak is the highest point so far, and the drawdown the largest fall.
Highest ==
  /\ \A i \in CurvePoints : Point(i) <= peak_equity
  /\ \E i \in CurvePoints : Point(i) = peak_equity

LargestFall ==
  /\ \A i, j \in CurvePoints : i <= j => Point(i) - Point(j) <= max_drawdown
  /\ \E i, j \in CurvePoints : i <= j /\ Point(i) - Point(j) = max_drawdown

CurveType ==
  /\ equity_curve \in Seq(Int)
  /\ peak_equity \in Int /\ max_drawdown \in Int

CurveInv == CurveType /\ Highest /\ LargestFall

LEMMA PointTypes ==
  ASSUME CurveType
  PROVE  /\ Len(equity_curve) \in Nat
         /\ \A i \in CurvePoints : Point(i) \in Int
BY MoneyAssumption DEF CurveType, CurvePoints, Point

LEMMA CurveInvImplies == CurveInv => DrawdownIsLargestFall
<1> SUFFICES ASSUME CurveInv PROVE DrawdownIsLargestFall
  OBVIOUS
<1> DEFINE curve == << InitialBalance >> \o equity_curve
           falls == UNION {{curve[i] - curve[j] : j \in i .. Len(curve)} : i \in DOMAIN curve}
<1>1. /\ Len(equity_curve) \in Nat
      /\ \A i \in CurvePoints : Point(i) \in Int
  BY PointTypes DEF CurveInv
<1>2. /\ curve \in Seq(Int) /\ Len(curve) = Len(equity_curve) + 1
      /\ \A i \in 1 .. Len(curve) : curve[i] = Point(i - 1)
  BY <1>1, MoneyAssumption DEF CurveInv, CurveType, Point
<1> HIDE DEF curve
<1>3. \A y \in falls : y \in Int /\ y <= max_drawdown
  <2> SUFFICES ASSUME NEW i \in DOMAIN curve, NEW j \in i .. Len(curve)
               PROVE  curve[i] - curve[j] \in Int /\ curve[i] - curve[j] <= max_drawdown
    OBVIOUS
  <2>1. /\ i - 1 \in CurvePoints /\ j - 1 \in CurvePoints /\ i - 1 <= j - 1
        /\ curve[i] = Point(i - 1) /\ curve[j] = Point(j - 1)
    BY <1>1, <1>2 DEF CurvePoints
  <2>2. QED
    BY <1>1, <2>1 DEF CurveInv, LargestFall
<1>4. max_drawdown \in falls
  <2>1. PICK i \in CurvePoints, j \in CurvePoints : i <= j /\ Point(i) - Point(j) = max_drawdown
    BY DEF CurveInv, LargestFall
  <2>2. /\ i + 1 \in DOMAIN curve /\ j + 1 \in i + 1 .. Len(curve)
        /\ curve[i + 1] = Point(i) /\ curve[j + 1] = Point(j)
    BY <1>1, <1>2, <2>1 DEF CurvePoints
  <2>3. QED
    BY <2>1, <2>2
<1> HIDE DEF falls
<1>5. \A x \in falls : (\A y \in falls : x >= y) => x = max_drawdown
  BY <1>3, <1>4
<1>6. \A y \in falls : max_drawdown >= y
  BY <1>3, <1>4
<1>7. Max(falls) = max_drawdown
  <2>1. \E x \in falls : \A y \in falls : x >= y
    BY <1>4, <1>6
  <2>2. Max(falls) \in falls /\ \A y \in falls : Max(falls) >= y
    BY <2>1, Zenon DEF Max
  <2>3. QED
    BY <1>5, <2>2
<1>8. QED
  BY <1>7 DEF DrawdownIsLargestFall, falls, curve

\* An engine that has seen no bar.
LEMMA NoBarYet ==
  ASSUME equity_curve = << >>, peak_equity = InitialBalance, max_drawdown = 0
  PROVE  CurveInv
<1>1. CurveType
  BY MoneyAssumption DEF CurveType
<1>2. CurvePoints = {0} /\ Point(0) = InitialBalance
  BY DEF CurvePoints, Point
<1>3. QED
  BY <1>1, <1>2, MoneyAssumption DEF CurveInv, Highest, LargestFall

\* One more point: the peak may rise to it, and the fall from the peak to it may be larger
\* than every other fall.
LEMMA OneMorePoint ==
  ASSUME CurveInv, NEW equity \in Int, Drawdown(equity)
  PROVE  CurveInv'
<1> PICK n : n = Len(equity_curve)
  OBVIOUS
<1> DEFINE peak == IF equity > peak_equity THEN equity ELSE peak_equity
           dd == peak - equity
<1>1. /\ n \in Nat /\ equity_curve \in Seq(Int) /\ peak_equity \in Int /\ max_drawdown \in Int
      /\ \A i \in CurvePoints : Point(i) \in Int
  BY PointTypes DEF CurveInv, CurveType
<1>2. /\ equity_curve' = Append(equity_curve, equity)
      /\ peak_equity' = peak
      /\ max_drawdown' = IF dd > max_drawdown THEN dd ELSE max_drawdown
  BY DEF Drawdown
<1>3. CurveType'
  BY <1>1, <1>2 DEF CurveType
<1>4. /\ CurvePoints' = CurvePoints \cup {n + 1} /\ n + 1 \notin CurvePoints
      /\ \A i \in CurvePoints : Point(i)' = Point(i)
      /\ Point(n + 1)' = equity
  <2>1. Len(equity_curve') = n + 1
    BY <1>1, <1>2
  <2>2. CurvePoints' = CurvePoints \cup {n + 1} /\ n + 1 \notin CurvePoints
    BY <1>1, <2>1 DEF CurvePoints
  <2>3. \A i \in 1 .. n : equity_curve'[i] = equity_curve[i]
    BY <1>1, <1>2
  <2>4. equity_curve'[n + 1] = equity
    BY <1>1, <1>2
  <2>5. QED
    BY <1>1, <2>2, <2>3, <2>4 DEF CurvePoints, Point
<1>5. Highest'
  <2>1. \A i \in CurvePoints' : Point(i)' <= peak
    <3> SUFFICES ASSUME NEW i \in CurvePoints' PROVE Point(i)' <= peak
      OBVIOUS
    <3>1. CASE i \in CurvePoints
      BY <1>1, <1>4, <3>1 DEF CurveInv, Highest
    <3>2. CASE i = n + 1
      BY <1>1, <1>2, <1>4, <3>2 DEF Point
    <3>3. QED
      BY <1>4, <3>1, <3>2
  <2>2. CASE equity > peak_equity
    BY <1>2, <1>4, <2>1, <2>2 DEF Highest
  <2>3. CASE ~(equity > peak_equity)
    BY <1>2, <1>4, <2>1, <2>3 DEF CurveInv, Highest
  <2>4. QED
    BY <2>2, <2>3
<1>6. LargestFall'
  <2>1. dd \in Int /\ max_drawdown \in Int /\ max_drawdown' \in Int
        /\ dd <= max_drawdown' /\ max_drawdown <= max_drawdown'
    BY <1>1, <1>2
  <2>2. ASSUME NEW i \in CurvePoints', NEW j \in CurvePoints', i <= j
        PROVE  (Point(i) - Point(j))' <= max_drawdown'
    <3>1. CASE i \in CurvePoints /\ j \in CurvePoints
      <4>1. Point(i) - Point(j) <= max_drawdown
        BY <2>2, <3>1 DEF CurveInv, LargestFall
      <4>2. QED
        BY <1>1, <1>4, <2>1, <3>1, <4>1
    <3>2. CASE i \in CurvePoints /\ j = n + 1
      <4>1. Point(i) <= peak_equity
        BY <3>2 DEF CurveInv, Highest
      <4>2. QED
        BY <1>1, <1>2, <1>4, <2>1, <3>2, <4>1
    <3>3. CASE i = n + 1
      <4>1. j = n + 1
        BY <1>1, <1>4, <2>2, <3>3 DEF CurvePoints
      <4>2. 0 <= max_drawdown
        <5>1. PICK h \in CurvePoints : TRUE
          BY DEF CurveInv, Highest
        <5>2. Point(h) - Point(h) <= max_drawdown /\ Point(h) \in Int
          BY <1>1, <5>1 DEF CurveInv, LargestFall, CurvePoints
        <5>3. QED
          BY <1>1, <5>2
      <4>3. QED
        BY <1>1, <1>4, <2>1, <3>3, <4>1, <4>2
    <3>4. QED
      BY <1>4, <3>1, <3>2, <3>3
  <2>3. \E i, j \in CurvePoints' : i <= j /\ (Point(i) - Point(j))' = max_drawdown'
    <3>1. CASE dd > max_drawdown
      <4>1. PICK h \in CurvePoints' : Point(h)' = peak
        BY <1>2, <1>5 DEF Highest
      <4>2. h <= n + 1 /\ n + 1 \in CurvePoints'
        BY <1>1, <1>4 DEF CurvePoints
      <4>3. QED
        BY <1>1, <1>2, <1>4, <3>1, <4>1, <4>2
    <3>2. CASE ~(dd > max_drawdown)
      <4>1. PICK i \in CurvePoints, j \in CurvePoints : i <= j /\ Point(i) - Point(j) = max_drawdown
        BY DEF CurveInv, LargestFall
      <4>2. QED
        BY <1>2, <1>4, <3>2, <4>1
    <3>3. QED
      BY <3>1, <3>2
  <2>4. QED
    BY <2>2, <2>3 DEF LargestFall
<1>7. QED
  BY <1>3, <1>5, <1>6 DEF CurveInv

-----------------------------------------------------------------------------
\* The end of a step: nothing is realized, a day may end, and the curve gets its point.

LEMMA FinishTotals ==
  ASSUME Inv, RealizedByPositions, DaysAgree, FillsAgree, FinishStep
  PROVE  /\ RealizedByPositions' /\ DaysAgree' /\ FillsAgree'
<1>1. /\ BookTypeOK /\ MoneyOK /\ DaysOK /\ TypeOK /\ pc = "marking" /\ pc' = "idle"
      /\ realized_pnl_total' = realized_pnl_total
      /\ orders_history' = orders_history
  BY InvParts DEF FinishStep, Snapshot, Inv
<1>2. CurrentBar \in Bar /\ CurrentBar.close \in Nat /\ CurrentBar.timestamp \in Nat
  BY <1>1, BarTypes DEF Bar
<1>3. RealizedOpen' = RealizedOpen /\ RealizedClosed' = RealizedClosed
  BY <1>1, <1>2, MarkTotals DEF FinishStep
<1>4. RealizedByPositions'
  BY <1>1, <1>3 DEF RealizedByPositions
<1>5. Day(CurrentBar.timestamp) \in Int
  BY <1>2, ConfigAssumption DEF Day
<1>6. DaysAgree'
  BY <1>1, <1>5, EndOfDay DEF FinishStep
<1>7. FillsAgree'
  <2>1. Returns' = Returns /\ (NoCloseAll' => NoCloseAll)
    BY <1>1 DEF Returns, NoCloseAll
  <2>2. QED
    BY <1>1, <2>1 DEF FillsAgree
<1>8. QED
  BY <1>4, <1>6, <1>7

LEMMA FinishCurve ==
  ASSUME Inv, CurveAgrees, CurveInv, FinishStep
  PROVE  CurveAgrees' /\ EquityOf(balance, positions') \in Int
<1>1. /\ BookTypeOK /\ MoneyOK /\ TypeOK /\ PlaceOK /\ pc = "marking" /\ pc' = "idle"
      /\ current_idx' = current_idx /\ bars' = bars /\ balance' = balance
      /\ positions' = CheckLiquidations(Marked(CurrentBar.close), CurrentBar.close)
      /\ equity_curve' = Append(equity_curve, EquityOf(balance, positions'))
  BY InvParts DEF FinishStep, Drawdown, Inv
<1>2. CurrentBar \in Bar /\ CurrentBar.close \in Nat /\ CurrentBar' = CurrentBar
  BY <1>1, BarTypes DEF Bar, CurrentBar
<1>3. /\ Len(equity_curve) = current_idx - 1 /\ current_idx \in Nat /\ current_idx > 0
      /\ equity_curve \in Seq(Int)
  BY <1>1 DEF CurveAgrees, Processed, PlaceOK, CurveInv, CurveType
<1>4. EquityOf(balance, positions') \in Int
  <2>1. /\ DOMAIN positions' = DOMAIN positions
        /\ \A id \in DOMAIN positions' : positions'[id] \in PositionType
    BY <1>1, <1>2, MarkTypes DEF FinishStep, BookTypeOK
  <2>2. UnrealizedIn(positions') \in Int
    BY <1>1, <2>1, BookIsFinite, MarkIsInt
  <2>3. balance \in Int
    BY <1>1 DEF MoneyOK
  <2>4. QED
    BY <2>2, <2>3, MoneyAssumption DEF EquityOf
<1>5. Len(equity_curve') = current_idx /\ equity_curve'[current_idx] = EquityOf(balance, positions')
  BY <1>1, <1>3, <1>4
<1>6. Symbols = {Symbol} => UnrealizedIn(positions') = ProfitAt(CurrentBar.close)'
  BY <1>1, <1>2, MarkTotals DEF FinishStep, ProfitAt
<1>7. QED
  BY <1>1, <1>3, <1>4, <1>5, <1>6 DEF CurveAgrees, Processed
-----------------------------------------------------------------------------
\* All of it is kept by every step.

AccountInv ==
  /\ Inv /\ BalanceAccountedFor
  /\ RealizedByPositions /\ DaysAgree /\ FillsAgree
  /\ DaysInOrder
  /\ CurveInv /\ CurveAgrees

\* What every action but the end of a step and the reset leaves alone.
LEMMA MeanwhileFrame ==
  ASSUME Inv, [Next]_vars, ~FinishStep, ~Reset
  PROVE  /\ bars' = bars /\ Processed' = Processed
         /\ daily_pnl' = daily_pnl /\ last_day' = last_day
         /\ UNCHANGED <<equity_curve, peak_equity, max_drawdown>>
         /\ pc' = "idle" => /\ pc = "idle" /\ current_idx' = current_idx
                            /\ positions' = positions /\ balance' = balance
<1>1. current_idx \in Int
  BY InvParts DEF PlaceOK
<1>2. CASE BeginStep
  BY <1>1, <1>2 DEF BeginStep, Processed, dayVars, curveVars
<1>3. CASE \E signal \in Signals : SubmitSignal(signal)
  BY <1>3 DEF SubmitSignal, Processed, dayVars, curveVars, bookVars, accountVars
<1>4. CASE InStep
  BY <1>4 DEF InStep, ExecuteOpen, ExecuteReduce, ExecuteClose, ExecuteFeeOnly,
     ExecuteCloseAll, CloseAllNext, CloseAllDone, ExecutedAll, Execute, Processed, dayVars,
     curveVars
<1>5. CASE UNCHANGED vars
  BY <1>5 DEF vars, Processed, dayVars, curveVars, bookVars, accountVars
<1>6. QED
  BY <1>2, <1>3, <1>4, <1>5 DEF Next

LEMMA MeanwhileKeeps ==
  ASSUME AccountInv, [Next]_vars, ~FinishStep, ~Reset
  PROVE  DaysInOrder' /\ CurveInv' /\ CurveAgrees'
<1>1. Inv
  BY DEF AccountInv
<1>2. DaysInOrder'
  BY <1>1, MeanwhileFrame DEF AccountInv, DaysInOrder
<1>3. CurveInv'
  BY <1>1, MeanwhileFrame DEF AccountInv, CurveInv, CurveType, Highest, LargestFall, CurvePoints, Point
<1>4. CurveAgrees'
  BY <1>1, MeanwhileFrame DEF AccountInv, CurveAgrees, CurrentBar, ProfitAt
<1>5. QED
  BY <1>2, <1>3, <1>4

LEMMA MeanwhileTotals ==
  ASSUME AccountInv, [Next]_vars, ~FinishStep, ~Reset
  PROVE  RealizedByPositions' /\ DaysAgree' /\ FillsAgree'
<1>1. /\ Inv /\ RealizedByPositions /\ DaysAgree /\ FillsAgree
  BY DEF AccountInv
<1>2. CASE Gaining
  BY <1>1, <1>2, Gains, GainTotals
<1>3. CASE CloseAllDone
  BY <1>1, <1>3, DoneTotals
<1>4. CASE BeginStep \/ ExecutedAll \/ (\E signal \in Signals : SubmitSignal(signal))
           \/ UNCHANGED vars
  <2>1. /\ positions' = positions /\ closed_positions' = closed_positions
        /\ realized_pnl_total' = realized_pnl_total
        /\ day_realized_pnl' = day_realized_pnl /\ daily_pnl' = daily_pnl
        /\ orders_history' = orders_history /\ closing' = closing
        /\ pc' = "closing" <=> pc = "closing"
    BY <1>4 DEF BeginStep, ExecutedAll, SubmitSignal, vars, bookVars, accountVars, tradeVars,
       dayVars
  <2>2. RealizedByPositions'
    BY <1>1, <2>1 DEF RealizedByPositions, RealizedOpen, RealizedClosed
  <2>3. DaysAgree'
    BY <1>1, <2>1 DEF DaysAgree, ClosedDays
  <2>4. FillsAgree'
    BY <1>1, <2>1 DEF FillsAgree, NoCloseAll, Returns
  <2>5. QED
    BY <2>2, <2>3, <2>4
<1>5. QED
  BY <1>2, <1>3, <1>4 DEF Next, InStep, Gaining

\* A new account.
Fresh ==
  /\ pc = "idle" /\ current_idx = 0 /\ positions = << >> /\ closed_positions = << >>
  /\ balance = InitialBalance
  /\ realized_pnl_total = 0 /\ day_realized_pnl = 0 /\ orders_history = << >>
  /\ equity_curve = << >> /\ peak_equity = InitialBalance /\ max_drawdown = 0
  /\ daily_pnl = << >> /\ last_day = 0 /\ bars \in BarSeqs

LEMMA FreshAccount == Inv /\ BalanceAccountedFor /\ Fresh => AccountInv
<1> SUFFICES ASSUME Inv, BalanceAccountedFor, Fresh PROVE AccountInv
  OBVIOUS
<1>1. CurveInv
  BY NoBarYet DEF Fresh
<1>2. /\ RealizedOpen = 0 /\ RealizedClosed = 0 /\ ClosedDays = 0 /\ SumFunction(Returns) = 0
  BY SumOfNone DEF Fresh, RealizedOpen, RealizedClosed, ClosedDays, Returns
<1>3. RealizedByPositions /\ DaysAgree /\ FillsAgree
  BY <1>2, MoneyAssumption DEF Fresh, RealizedByPositions, DaysAgree, FillsAgree
<1>4. DaysInOrder
  BY DaysGoForward DEF Fresh, DaysInOrder
<1>5. CurveAgrees
  BY DEF Fresh, CurveAgrees, Processed
<1>6. QED
  BY <1>1, <1>3, <1>4, <1>5 DEF AccountInv
LEMMA NewAccount == Init => AccountInv
<1>1. Init => Inv /\ BalanceAccountedFor /\ Fresh
  BY NewInv, MoneyAssumption DEF Init, BalanceAccountedFor, Fresh
<1>2. QED
  BY <1>1, FreshAccount

LEMMA AccountStep == AccountInv /\ [Next]_vars => AccountInv'
<1>1. (Inv /\ BalanceAccountedFor /\ Fresh)' => AccountInv'
  BY FreshAccount, PTL
<1>2. SUFFICES ASSUME AccountInv, [Next]_vars PROVE AccountInv'
  OBVIOUS
<1>3. Inv' /\ BalanceAccountedFor'
  BY <1>2, InvStep, BalanceStep DEF AccountInv
<1>4. CASE Reset
  <2>1. Fresh'
    BY <1>2, <1>4 DEF Reset, Fresh, AccountInv, DaysInOrder
  <2>2. QED
    BY <1>1, <1>3, <2>1
<1>5. CASE FinishStep
  <2>1. /\ Inv /\ RealizedByPositions /\ DaysAgree /\ FillsAgree /\ DaysInOrder /\ CurveInv
        /\ CurveAgrees
    BY <1>2 DEF AccountInv
  <2>2. RealizedByPositions' /\ DaysAgree' /\ FillsAgree'
    BY <1>5, <2>1, FinishTotals
  <2>3. DaysInOrder'
    BY <1>5, <2>1, FinishDays
  <2>4. CurveAgrees' /\ EquityOf(balance, positions') \in Int
    BY <1>5, <2>1, FinishCurve
  <2>5. CurveInv'
    BY <1>5, <2>1, <2>4, OneMorePoint DEF FinishStep
  <2>6. QED
    BY <1>3, <2>2, <2>3, <2>4, <2>5 DEF AccountInv
<1>6. CASE ~FinishStep /\ ~Reset
  <2>1. RealizedByPositions' /\ DaysAgree' /\ FillsAgree'
    BY <1>2, <1>6, MeanwhileTotals
  <2>2. DaysInOrder' /\ CurveInv' /\ CurveAgrees'
    BY <1>2, <1>6, MeanwhileKeeps
  <2>3. QED
    BY <1>3, <2>1, <2>2 DEF AccountInv
<1>7. QED
  BY <1>4, <1>5, <1>6

\* The account, the book, the fills, the days and the curve agree at every moment, in the
\* middle of a step too.
THEOREM AccountInvariance == Spec => []AccountInv
  BY NewAccount, AccountStep, PTL DEF Spec

-----------------------------------------------------------------------------
\* What follows from it.

LEMMA DaysFromAccount == AccountInv => DaysAddUp
  BY DEF AccountInv, DaysAgree, DaysInOrder, DaysAddUp

LEMMA EquityFromAccount == AccountInv => EquityIsFair
<1> SUFFICES ASSUME AccountInv, pc = "idle"
             PROVE  /\ Len(equity_curve) = current_idx
                    /\ current_idx > 0 /\ Symbols = {Symbol} =>
                         equity_curve[current_idx] =
                           InitialBalance + realized_pnl_total - fees_paid
                           + Unit * ProfitAt(CurrentBar.close)
  BY DEF EquityIsFair
<1>1. Len(equity_curve) = current_idx
  BY DEF AccountInv, CurveAgrees, Processed
<1>2. ASSUME current_idx > 0, Symbols = {Symbol}
      PROVE  equity_curve[current_idx] = balance + Unit * ProfitAt(CurrentBar.close)
  BY <1>2 DEF AccountInv, CurveAgrees, EquityOf
<1>3. QED
  BY <1>1, <1>2 DEF AccountInv, BalanceAccountedFor

\* The gross profit less the gross loss is what the fills realized.
LEMMA ProfitLessLoss ==
  ASSUME TradesOK
  PROVE  GrossProfit - GrossLoss = SumFunction(Returns)
<1>1. Whole(Returns) /\ DOMAIN Returns = DOMAIN orders_history
  BY ReturnsAreWhole DEF Returns
<1>2. \A i \in DOMAIN Returns : Returns[i] = orders_history[i].realized /\ Returns[i] \in Int
  BY <1>1 DEF Returns, Whole
<1>3. /\ Winning \cap Losing = {} /\ Winning \subseteq DOMAIN Returns
      /\ Losing \subseteq DOMAIN Returns
      /\ \A i \in DOMAIN Returns : i \notin Winning /\ i \notin Losing => Returns[i] = 0
  BY <1>1, <1>2 DEF Winning, Losing
<1>4. SumFunction(Returns) = SumFunctionOnSet(Returns, DOMAIN Returns \cap Winning)
                               + SumFunctionOnSet(Returns, DOMAIN Returns \cap Losing)
  BY <1>1, <1>3, SumOfParts
<1>5. DOMAIN Returns \cap Winning = Winning /\ DOMAIN Returns \cap Losing = Losing
  BY <1>3
<1>6. SumFunctionOnSet(Returns, Winning) \in Int /\ SumFunctionOnSet(Returns, Losing) \in Int
  <2>1. IsFiniteSet(Winning) /\ IsFiniteSet(Losing)
    BY <1>1, <1>3, FS_Subset DEF Whole
  <2>2. /\ \A i \in Winning : Returns[i] \in Int
        /\ \A i \in Losing : Returns[i] \in Int
    BY <1>2, <1>3
  <2>3. QED
    BY <2>1, <2>2, SumRemove
<1>7. SumFunction(Returns)
        = SumFunctionOnSet(Returns, Winning) + SumFunctionOnSet(Returns, Losing)
  BY <1>4, <1>5, Zenon
<1>8. QED
  BY <1>6, <1>7 DEF GrossProfit, GrossLoss

LEMMA SharpeAddsUp ==
  ASSUME DaysOK, MoneyOK, DaysAgree, NEW sharpe \in Sharpe
  PROVE  sharpe.mean[1] + day_realized_pnl = realized_pnl_total
<1>1. Len(daily_pnl) \in Nat /\ Len(daily_pnl) >= 2
  BY DEF Sharpe, DaysOK
<1>2. sharpe = [mean |-> Ratio(ClosedDays, Len(daily_pnl))]
  BY DEF Sharpe, ClosedDays
<1>3. sharpe.mean[1] = ClosedDays
  BY <1>1, <1>2 DEF Ratio
<1>4. ClosedDays \in Int /\ day_realized_pnl \in Int
  BY DaysAreWhole DEF MoneyOK
<1>5. QED
  BY <1>3, <1>4 DEF DaysAgree

LEMMA ResultFromAccount == AccountInv => ResultAddsUp
<1> SUFFICES ASSUME AccountInv, pc = "idle" PROVE ResultAddsUp
  BY DEF ResultAddsUp
<1>1. /\ BookTypeOK /\ MoneyOK /\ TradesOK /\ DaysOK /\ PlaceOK
      /\ BalanceAccountedFor /\ RealizedByPositions /\ DaysAgree /\ FillsAgree /\ CurveAgrees
  BY InvParts DEF AccountInv
<1>2. UnrealizedIn(positions) \in Int /\ fees_paid \in Int /\ realized_pnl_total \in Int
      /\ day_realized_pnl \in Int
  BY <1>1, TotalsAreInt DEF MoneyOK
<1>3. Unrealized \in Int /\ EquityOf(balance, positions) = balance + Unrealized
  BY <1>2, MoneyAssumption DEF Unrealized, EquityOf
<1>4. BuildResult.final_equity = EquityOf(balance, positions)
  <2>1. CASE current_idx = 0
    <3>1. equity_curve = << >> /\ positions = << >> /\ balance = InitialBalance
      BY <1>1, <2>1 DEF CurveAgrees, Processed, AccountInv, CurveInv, CurveType
    <3>2. UnrealizedIn(positions) = 0
      BY <3>1, SumOfNone DEF UnrealizedIn
    <3>3. BuildResult.final_equity = InitialBalance
      BY <3>1 DEF BuildResult
    <3>4. QED
      BY <3>1, <3>2, <3>3, MoneyAssumption DEF EquityOf
  <2>2. CASE current_idx # 0
    <3>1. /\ Len(equity_curve) = current_idx /\ current_idx > 0 /\ equity_curve # << >>
          /\ equity_curve[current_idx] = EquityOf(balance, positions)
      BY <1>1, <2>2 DEF CurveAgrees, Processed, PlaceOK
    <3>2. BuildResult.final_equity = equity_curve[Len(equity_curve)]
      BY <3>1 DEF BuildResult
    <3>3. QED
      BY <3>1, <3>2
  <2>3. QED
    BY <2>1, <2>2
<1>5. GetState.unrealized_pnl = Unrealized /\ GetState.equity = EquityOf(balance, positions)
  BY DEF GetState, SnapshotOf
<1>6. BuildResult.final_equity =
        InitialBalance + realized_pnl_total + GetState.unrealized_pnl - fees_paid
  BY <1>1, <1>2, <1>3, <1>4, <1>5, MoneyAssumption DEF BalanceAccountedFor
<1>7. NoCloseAll => GrossProfit - GrossLoss = realized_pnl_total
  BY <1>1, ProfitLessLoss DEF FillsAgree
<1>8. BuildResult.sharpe_ratio = Sharpe
  BY DEF BuildResult
<1>9. \A sharpe \in BuildResult.sharpe_ratio :
        sharpe.mean[1] + day_realized_pnl = realized_pnl_total
  BY <1>1, <1>8, SharpeAddsUp
<1>10. QED
  BY <1>1, <1>4, <1>5, <1>6, <1>7, <1>9 DEF ResultAddsUp, NoCloseAll

-----------------------------------------------------------------------------
\* What an order makes of a bar, whatever its price.

LEMMA MinMaxOfTwo ==
  ASSUME NEW a \in Int, NEW b \in Int
  PROVE  /\ Min({a, b}) = IF a <= b THEN a ELSE b
         /\ Max({a, b}) = IF a >= b THEN a ELSE b
<1>1. Min({a, b}) \in {a, b} /\ \A y \in {a, b} : Min({a, b}) <= y
  <2>1. \E x \in {a, b} : \A y \in {a, b} : x <= y
    OBVIOUS
  <2>2. QED
    BY <2>1, Zenon DEF Min
<1>2. Max({a, b}) \in {a, b} /\ \A y \in {a, b} : Max({a, b}) >= y
  <2>1. \E x \in {a, b} : \A y \in {a, b} : x >= y
    OBVIOUS
  <2>2. QED
    BY <2>1, Zenon DEF Max
<1>3. QED
  BY <1>1, <1>2

\* A limit order is touched or it is not, and takes the better of its limit and the close.
LEMMA LimitFact ==
  ASSUME NEW bar \in Bar, NEW side \in Sides, NEW price \in Int, NEW rate
  PROVE  /\ LimitFills(Order("Limit", side, price, 1), bar, rate) = {}
              <=> IF side = "Buy" THEN bar.low > price ELSE bar.high < price
         /\ \A fill \in LimitFills(Order("Limit", side, price, 1), bar, rate) :
              fill.price = IF side = "Buy"
                           THEN IF price <= bar.close THEN price ELSE bar.close
                           ELSE IF price >= bar.close THEN price ELSE bar.close
<1> PICK order : order = Order("Limit", side, price, 1)
  OBVIOUS
<1>1. /\ order.type = "Limit" /\ order.side = side /\ order.price = price
      /\ side = "Buy" \/ side = "Sell"
      /\ bar.low \in Int /\ bar.high \in Int /\ bar.close \in Int
  BY DEF Order, Sides, Bar
<1>2. LimitFills(order, bar, rate) =
        IF side = "Buy"
        THEN IF bar.low > price THEN {} ELSE {Filled(order, Min({price, bar.close}), rate)}
        ELSE IF bar.high < price THEN {} ELSE {Filled(order, Max({price, bar.close}), rate)}
  BY <1>1 DEF LimitFills
<1> PICK lower : lower = Min({price, bar.close})
  OBVIOUS
<1> PICK upper : upper = Max({price, bar.close})
  OBVIOUS
<1>3. /\ lower = IF price <= bar.close THEN price ELSE bar.close
      /\ upper = IF price >= bar.close THEN price ELSE bar.close
  BY <1>1, MinMaxOfTwo
<1>4. \A p : Filled(order, p, rate).price = p
  BY DEF Filled
<1>5. /\ LimitFills(order, bar, rate) = {}
           <=> IF side = "Buy" THEN bar.low > price ELSE bar.high < price
      /\ \A fill \in LimitFills(order, bar, rate) :
           fill.price = IF side = "Buy" THEN lower ELSE upper
  BY <1>2, <1>4
<1>6. QED
  BY <1>3, <1>5

LEMMA StopFact ==
  ASSUME NEW bar \in Bar, NEW side \in Sides, NEW price \in Int, NEW rate
  PROVE  /\ StopFills(Order("StopMarket", side, price, 1), bar, rate) = {}
              <=> IF side = "Buy" THEN bar.high < price ELSE bar.low > price
         /\ \A fill \in StopFills(Order("StopMarket", side, price, 1), bar, rate) :
              fill.price = bar.close
<1> PICK order : order = Order("StopMarket", side, price, 1)
  OBVIOUS
<1>1. /\ order.type = "StopMarket" /\ order.side = side /\ order.price = price
      /\ bar.low \in Int /\ bar.high \in Int
  BY DEF Order, Bar
<1>2. StopFills(order, bar, rate) =
        IF (IF side = "Buy" THEN bar.high >= price ELSE bar.low <= price)
        THEN {Filled(order, bar.close, rate)} ELSE {}
  BY <1>1 DEF StopFills, Triggered, MarketFill
<1>3. Filled(order, bar.close, rate).price = bar.close
  BY DEF Filled
<1>4. QED
  BY <1>1, <1>2, <1>3

\* No other order is a limit order or a stop.
LEMMA OtherOrders ==
  ASSUME NEW bar, NEW side, NEW price, NEW rate, NEW type
  PROVE  /\ type # "Limit" => LimitFills(Order(type, side, price, 1), bar, rate) = {}
         /\ type # "StopMarket" => StopFills(Order(type, side, price, 1), bar, rate) = {}
<1>1. Order(type, side, price, 1).type = type
  BY DEF Order
<1>2. QED
  BY <1>1 DEF LimitFills, StopFills

LEMMA CandlesFill ==
  TypeOK /\ (\A i \in DOMAIN bars : Candle(bars[i])) => OrdersFillWithinBar
<1> SUFFICES ASSUME TypeOK, \A i \in DOMAIN bars : Candle(bars[i]),
                    pc = "idle", current_idx > 0
             PROVE  OrdersFillWithinBar
  BY DEF OrdersFillWithinBar
<1> DEFINE bar == CurrentBar
           Fills(type, side, price) ==
             LimitFills(Order(type, side, price, 1), bar, FeeRate)
               \cup StopFills(Order(type, side, price, 1), bar, FeeRate)
<1>1. /\ bar \in Bar /\ bar.low \in Int /\ bar.high \in Int /\ bar.close \in Int
      /\ bar.low <= bar.close /\ bar.close <= bar.high
  <2>1. bars \in Seq(Bar) /\ current_idx \in 1 .. Len(bars)
    <3>1. bars \in Seq(Bar) /\ current_idx \in 0 .. Len(bars)
      BY DEF TypeOK
    <3>2. Len(bars) \in Nat
      BY <3>1, LenProperties
    <3>3. QED
      BY <3>1, <3>2
  <2>2. bar \in Bar /\ Candle(bar)
    BY <2>1 DEF CurrentBar
  <2>3. QED
    BY <2>2 DEF Bar, Candle
<1> HIDE DEF bar
<1>2. ASSUME NEW side \in Sides, NEW price \in Int
      PROVE  /\ Fills("Limit", side, price) = LimitFills(Order("Limit", side, price, 1), bar, FeeRate)
             /\ Fills("StopMarket", side, price)
                  = StopFills(Order("StopMarket", side, price, 1), bar, FeeRate)
             /\ Fills("Market", side, price) = {}
  BY OtherOrders
<1> HIDE DEF Fills
<1>3. ASSUME NEW side \in Sides, NEW price \in Int
      PROVE  /\ \A type \in OrderTypes : \A fill \in Fills(type, side, price) :
                  bar.low <= fill.price /\ fill.price <= bar.high
             /\ \A fill \in Fills("Limit", side, price) :
                  IF side = "Buy" THEN fill.price <= price ELSE fill.price >= price
             /\ \A farther \in Int :
                  /\ (side = "Buy") = (farther > price) /\ Fills("Limit", side, price) # {} =>
                       Fills("Limit", side, farther) # {}
                  /\ (side = "Buy") = (farther < price) /\ Fills("StopMarket", side, price) # {} =>
                       Fills("StopMarket", side, farther) # {}
             /\ Fills("Limit", side, price) # {} \/ Fills("StopMarket", side, price) # {}
  <2>1. \A p \in Int :
          /\ Fills("Limit", side, p) = {}
               <=> IF side = "Buy" THEN bar.low > p ELSE bar.high < p
          /\ Fills("StopMarket", side, p) = {}
               <=> IF side = "Buy" THEN bar.high < p ELSE bar.low > p
    BY <1>1, <1>2, LimitFact, StopFact
  <2>2. \A fill \in Fills("Limit", side, price) :
          /\ IF side = "Buy" THEN bar.low <= price ELSE bar.high >= price
          /\ fill.price = IF side = "Buy"
                          THEN IF price <= bar.close THEN price ELSE bar.close
                          ELSE IF price >= bar.close THEN price ELSE bar.close
    <3>1. \A fill \in Fills("Limit", side, price) :
            fill.price = IF side = "Buy"
                         THEN IF price <= bar.close THEN price ELSE bar.close
                         ELSE IF price >= bar.close THEN price ELSE bar.close
      BY <1>1, <1>2, LimitFact
    <3>2. QED
      BY <1>1, <2>1, <3>1
  <2>3. \A fill \in Fills("StopMarket", side, price) : fill.price = bar.close
    BY <1>1, <1>2, StopFact
  <2>4. \A type \in OrderTypes : \A fill \in Fills(type, side, price) :
          bar.low <= fill.price /\ fill.price <= bar.high
    <3>1. \A fill \in Fills("Limit", side, price) :
            bar.low <= fill.price /\ fill.price <= bar.high
      BY <1>1, <2>2
    <3>2. \A fill \in Fills("StopMarket", side, price) :
            bar.low <= fill.price /\ fill.price <= bar.high
      BY <1>1, <2>3
    <3>3. QED
      BY <1>2, <3>1, <3>2 DEF OrderTypes
  <2>5. \A fill \in Fills("Limit", side, price) :
          IF side = "Buy" THEN fill.price <= price ELSE fill.price >= price
    BY <1>1, <2>2
  <2>6. ASSUME NEW farther \in Int
        PROVE  /\ (side = "Buy") = (farther > price) /\ Fills("Limit", side, price) # {} =>
                    Fills("Limit", side, farther) # {}
               /\ (side = "Buy") = (farther < price) /\ Fills("StopMarket", side, price) # {} =>
                    Fills("StopMarket", side, farther) # {}
    BY <1>1, <2>1
  <2>7. Fills("Limit", side, price) # {} \/ Fills("StopMarket", side, price) # {}
    BY <1>1, <2>1
  <2>8. QED
    BY <2>4, <2>5, <2>6, <2>7
<1>4. bar.low - 1 \in Int /\ bar.high + 1 \in Int
  BY <1>1
<1> DEFINE prices == {bar.low - 1, bar.low, bar.close, bar.high, bar.high + 1}
<1>5. prices \subseteq Int
  BY <1>1, <1>4
<1> HIDE DEF prices
<1>6. \A side \in Sides, price \in prices :
        /\ \A type \in OrderTypes : \A fill \in Fills(type, side, price) :
             bar.low <= fill.price /\ fill.price <= bar.high
        /\ \A fill \in Fills("Limit", side, price) :
             IF side = "Buy" THEN fill.price <= price ELSE fill.price >= price
        /\ \A farther \in prices :
             /\ (side = "Buy") = (farther > price) /\ Fills("Limit", side, price) # {} =>
                  Fills("Limit", side, farther) # {}
             /\ (side = "Buy") = (farther < price) /\ Fills("StopMarket", side, price) # {} =>
                  Fills("StopMarket", side, farther) # {}
        /\ Fills("Limit", side, price) # {} \/ Fills("StopMarket", side, price) # {}
  BY <1>3, <1>5
<1>7. QED
  BY <1>6, Zenon DEF OrdersFillWithinBar, Fills, bar, prices

-----------------------------------------------------------------------------
\* The theorems.

\* Every realized amount is in exactly one day: the days that are over, which are in
\* order, and the running one add up to the total (step 7 of step()).
THEOREM DaysAddUpAlways == Spec => []DaysAddUp
  BY AccountInvariance, DaysFromAccount, PTL

\* After every step the equity recorded is the opening balance plus everything realized,
\* minus every fee, plus what the open positions would bring in at the bar's close:
\* no position is left at an old mark (update_unrealized_pnl, compute_equity).
THEOREM FairEquity == Spec => []EquityIsFair
  BY AccountInvariance, EquityFromAccount, PTL

\* The result, the state, the trades, the days and the book tell one story
\* (build_result, get_state, record_fill and compute_sharpe).
THEOREM ResultStory == Spec => []ResultAddsUp
  BY AccountInvariance, ResultFromAccount, PTL

\* The drawdown that FinishStep keeps (step 6 of step()), with nothing but the highest
\* equity so far, is the largest fall from any point of the curve to a later one.
THEOREM DrawdownIsTheLargestFall == Spec => []DrawdownIsLargestFall
<1>1. AccountInv => DrawdownIsLargestFall
  BY CurveInvImplies DEF AccountInv
<1>2. QED
  BY <1>1, AccountInvariance, PTL

\* Over bars whose close is between their low and their high, no order fills at a price its
\* bar does not have, no limit order at a worse price than its limit, and no price is
\* passed by unseen (simulate_limit_order and simulate_stop_market in order.rs).
THEOREM FillsWithinBar ==
  Spec => []((\A i \in DOMAIN bars : Candle(bars[i])) => OrdersFillWithinBar)
  BY Typing, CandlesFill, PTL

-----------------------------------------------------------------------------
\* The loop over the legs of a position that has one.

\* The legs of a position of so many units.
Legs(price, qty) ==
  IF qty = 0 THEN << >> ELSE << [entry_price |-> price, quantity |-> qty] >>

\* The equation inside FoldLeft, over one leg.
IsWalk(iter, qty, leg) ==
  iter = [s \in SUBSET DOMAIN << leg >> |->
            IF s = {} THEN Book!Untouched(qty)
            ELSE Book!Consume(iter[s \ {Book!Max(s)}], << leg >>[Book!Max(s)])]

LEMMA WalkExpanded ==
  ASSUME NEW qty, NEW leg
  PROVE  Book!OldestFirst(<< leg >>, qty)
           = (CHOOSE iter : IsWalk(iter, qty, leg))[DOMAIN << leg >>]
BY Zenon DEF Book!OldestFirst, Book!FoldLeft, Book!MapThenFoldSet, IsWalk

LEMMA WalkOfOne ==
  ASSUME NEW qty, NEW leg
  PROVE  Book!OldestFirst(<< leg >>, qty) = Book!Consume(Book!Untouched(qty), leg)
<1>1. DOMAIN << leg >> = {1} /\ << leg >>[1] = leg
  OBVIOUS
<1>2. Book!Max({1}) = 1
  <2>1. Book!Max({1}) \in {1}
    BY DEF Book!Max
  <2>2. QED
    BY <2>1
<1>3. PICK start, end : start = Book!Untouched(qty) /\ end = Book!Consume(start, leg)
  OBVIOUS
<1>4. SUBSET {1} = {{}, {1}} /\ {1} # {} /\ {1} \ {1} = {}
  OBVIOUS
<1>5. PICK it : it = [s \in SUBSET {1} |-> IF s = {} THEN start ELSE end]
  OBVIOUS
<1>6. it[{}] = start /\ it[{1}] = end
  BY <1>4, <1>5
<1>7. ASSUME NEW s \in SUBSET {1}
      PROVE  it[s] = IF s = {} THEN Book!Untouched(qty)
                     ELSE Book!Consume(it[s \ {Book!Max(s)}], << leg >>[Book!Max(s)])
  <2>1. CASE s = {}
    BY <1>3, <1>6, <2>1
  <2>2. CASE s = {1}
    BY <1>1, <1>2, <1>3, <1>4, <1>6, <2>2
  <2>3. QED
    BY <1>4, <2>1, <2>2
<1>8. IsWalk(it, qty, leg)
  BY <1>1, <1>5, <1>7 DEF IsWalk
<1>9. PICK iter : iter = (CHOOSE i : IsWalk(i, qty, leg)) /\ IsWalk(iter, qty, leg)
  BY <1>8, Zenon
<1>10. \A s \in SUBSET {1} :
         iter[s] = IF s = {} THEN Book!Untouched(qty)
                   ELSE Book!Consume(iter[s \ {Book!Max(s)}], << leg >>[Book!Max(s)])
  BY <1>1, <1>9 DEF IsWalk
<1>11. iter[{}] = start
  BY <1>3, <1>4, <1>10
<1>12. iter[{1}] = Book!Consume(iter[{1} \ {Book!Max({1})}], << leg >>[Book!Max({1})])
  BY <1>4, <1>10
<1>13. iter[{1}] = end
  BY <1>1, <1>2, <1>3, <1>4, <1>11, <1>12
<1>14. QED
  BY <1>1, <1>3, <1>9, <1>13, WalkExpanded

LEMMA ReverseOfOne ==
  /\ Book!Reverse(<< >>) = << >>
  /\ \A leg : Book!Reverse(<< leg >>) = << leg >>
<1>1. Book!Reverse(<< >>) = << >>
  BY DEF Book!Reverse
<1>2. ASSUME NEW leg PROVE Book!Reverse(<< leg >>) = << leg >>
  <2>1. Len(<< leg >>) = 1 /\ << leg >>[1] = leg
    OBVIOUS
  <2>2. Book!Reverse(<< leg >>) = [i \in 1 .. 1 |-> << leg >>[(1 - i) + 1]]
    BY <2>1 DEF Book!Reverse
  <2>3. QED
    BY <2>1, <2>2
<1>3. QED
  BY <1>1, <1>2

\* What a reduction consumes and keeps of one leg, whichever end the loop starts from.
Consumed(entries, price, size, qty) ==
  /\ Book!OldestFirst(entries, qty).kept = Legs(price, size - qty)
  /\ Book!OldestFirst(entries, qty).cost_basis = price * qty
  /\ Book!NewestFirst(entries, qty).kept = Legs(price, size - qty)
  /\ Book!NewestFirst(entries, qty).cost_basis = price * qty

LEMMA LegReduced ==
  ASSUME NEW price \in Nat, NEW size \in Nat, NEW qty \in Nat, 0 < qty, qty <= size,
         NEW entries, entries = Legs(price, size)
  PROVE  Consumed(entries, price, size, qty)
<1>1. PICK leg : leg = [entry_price |-> price, quantity |-> size]
  OBVIOUS
<1>2. entries = << leg >> /\ leg.entry_price = price /\ leg.quantity = size
  BY <1>1 DEF Legs
<1>3. PICK start : start = Book!Untouched(qty)
  OBVIOUS
<1>4. start = [remaining |-> qty, cost_basis |-> 0, kept |-> << >>]
  BY <1>3 DEF Book!Untouched
<1>5. PICK paid \in Nat : paid = price * qty
  OBVIOUS
<1>6. PICK walk : walk = Book!Consume(start, leg)
  OBVIOUS
<1>7. walk.kept = Legs(price, size - qty) /\ walk.cost_basis = paid
      /\ walk = [remaining |-> 0, cost_basis |-> paid, kept |-> Legs(price, size - qty)]
  <2>1. start.remaining = qty /\ start.cost_basis = 0 /\ start.kept = << >> /\ qty # 0
    BY <1>4
  <2>2. CASE size = qty
    <3>1. walk = [start EXCEPT !.cost_basis = 0 + price * qty, !.remaining = qty - qty]
      BY <1>2, <1>6, <2>1, <2>2 DEF Book!Consume
    <3>2. walk = [remaining |-> 0, cost_basis |-> paid, kept |-> << >>]
      <4>1. 0 + price * qty = paid /\ qty - qty = 0
        BY <1>5
      <4>2. walk = [start EXCEPT !.cost_basis = paid, !.remaining = 0]
        BY <3>1, <4>1, Zenon
      <4>3. QED
        BY <1>4, <4>2
    <3>3. Legs(price, size - qty) = << >>
      BY <2>2 DEF Legs
    <3>4. QED
      BY <3>2, <3>3
  <2>3. CASE size # qty
    <3>1. ~ (leg.quantity <= start.remaining)
      BY <1>2, <2>1, <2>3
    <3>2. walk = [remaining |-> 0, cost_basis |-> 0 + price * qty,
                  kept |-> Append(<< >>, Book!Leg(price, size - qty))]
      BY <1>2, <1>6, <2>1, <3>1 DEF Book!Consume
    <3>3. Append(<< >>, Book!Leg(price, size - qty)) = Legs(price, size - qty)
      <4>1. size - qty # 0
        BY <2>3
      <4>2. QED
        BY <4>1 DEF Legs, Book!Leg
    <3>4. QED
      BY <1>5, <3>2, <3>3
  <2>4. QED
    BY <2>2, <2>3
<1>8. Book!OldestFirst(<< leg >>, qty) = walk
  BY <1>3, <1>6, WalkOfOne
<1>9. Book!Reverse(walk.kept) = walk.kept
  BY <1>7, ReverseOfOne DEF Legs
<1>10. Book!NewestFirst(<< leg >>, qty) = [walk EXCEPT !.kept = Book!Reverse(walk.kept)]
  <2>1. Book!Reverse(<< leg >>) = << leg >>
    BY ReverseOfOne
  <2>2. Book!NewestFirst(<< leg >>, qty)
          = [Book!OldestFirst(Book!Reverse(<< leg >>), qty)
               EXCEPT !.kept = Book!Reverse(@)]
    BY Zenon DEF Book!NewestFirst, Book!OldestFirst
  <2>3. QED
    BY <1>8, <2>1, <2>2
<1>11. Book!NewestFirst(<< leg >>, qty) = walk
  BY <1>7, <1>9, <1>10
<1>12. QED
  BY <1>2, <1>5, <1>7, <1>8, <1>11 DEF Consumed

\* A position of the book with the fields a reduction writes.
LEMMA Overwritten ==
  ASSUME NEW id, NEW symbol, NEW direction, NEW status, NEW entries, NEW size, NEW entry,
         NEW realized, NEW unrealized, NEW pos,
         pos = [id |-> id, symbol |-> symbol, direction |-> direction, status |-> status,
                entries |-> entries, current_size |-> size, average_entry_price |-> entry,
                realized_pnl |-> realized, unrealized_pnl |-> unrealized],
         NEW status2, NEW entries2, NEW size2, NEW realized2, NEW unrealized2
  PROVE  [pos EXCEPT !.entries = entries2, !.realized_pnl = realized2, !.current_size = size2,
                     !.status = status2, !.unrealized_pnl = unrealized2]
           = [id |-> id, symbol |-> symbol, direction |-> direction, status |-> status2,
              entries |-> entries2, current_size |-> size2, average_entry_price |-> entry,
              realized_pnl |-> realized2, unrealized_pnl |-> unrealized2]
<1>1. PICK a : a = [pos EXCEPT !.entries = entries2, !.realized_pnl = realized2]
  OBVIOUS
<1>2. a = [id |-> id, symbol |-> symbol, direction |-> direction, status |-> status,
                entries |-> entries2, current_size |-> size, average_entry_price |-> entry,
                realized_pnl |-> realized2, unrealized_pnl |-> unrealized]
  BY <1>1
<1>3. PICK b : b = [a EXCEPT !.current_size = size2,
                     !.status = status2, !.unrealized_pnl = unrealized2]
  OBVIOUS
<1>4. b = [id |-> id, symbol |-> symbol, direction |-> direction, status |-> status2,
              entries |-> entries2, current_size |-> size2, average_entry_price |-> entry,
              realized_pnl |-> realized2, unrealized_pnl |-> unrealized2]
  BY <1>2, <1>3
<1>5. [pos EXCEPT !.entries = entries2, !.realized_pnl = realized2, !.current_size = size2,
                     !.status = status2, !.unrealized_pnl = unrealized2] = b
  BY <1>1, <1>3, Zenon
<1>6. QED
  BY <1>4, <1>5, Zenon

\* A position that is reduced in the engine is the position that is reduced in the book.
LEMMA ReducedAs ==
  ASSUME NEW id, NEW pos \in PositionType, NEW price \in Nat, NEW qty \in Nat,
         0 < qty, qty <= pos.size
  PROVE  Book!Reduced(AsPosition(id, pos), price, qty) = AsPosition(id, Reduced(pos, price, qty))
<1>1. PICK entry \in Nat, size \in Nat : entry = pos.entry /\ size = pos.size
  BY DEF PositionType
<1>2. PICK as : as = AsPosition(id, pos)
  OBVIOUS
<1>3. as = [id |-> id, symbol |-> pos.symbol, direction |-> pos.direction,
            status |-> pos.status, entries |-> Legs(entry, size), current_size |-> size,
            average_entry_price |-> entry, realized_pnl |-> pos.realized,
            unrealized_pnl |-> pos.unrealized]
  BY <1>1, <1>2 DEF AsPosition, Legs
<1>4. PICK entries : entries = as.entries
  OBVIOUS
<1>5. entries = Legs(entry, size) /\ as.average_entry_price = entry /\ as.current_size = size
      /\ as.direction = pos.direction
  BY <1>3, <1>4
<1>6. PICK gain : gain = (price * qty - entry * qty) * DirMultiplier(pos.direction)
  OBVIOUS
<1>7. gain = Profit(pos, price, qty)
  BY <1>1, <1>6 DEF Profit, DirMultiplier
<1>8. PICK cut : cut = [entries |-> Legs(entry, size - qty), realized |-> gain]
  OBVIOUS
<1>9. Book!Realize(as, price, qty, entry * qty) = gain
  BY <1>5, <1>6 DEF Book!Realize, Book!DirMultiplier, DirMultiplier
<1>10. Book!Reduction(Method, as, price, qty) = cut
  <2>1. /\ Book!OldestFirst(entries, qty).kept = Legs(entry, size - qty)
        /\ Book!OldestFirst(entries, qty).cost_basis = entry * qty
        /\ Book!NewestFirst(entries, qty).kept = Legs(entry, size - qty)
        /\ Book!NewestFirst(entries, qty).cost_basis = entry * qty
    <3>1. entries = Legs(entry, size) /\ 0 < qty /\ qty <= size
      BY <1>1, <1>5
    <3>2. Consumed(entries, entry, size, qty)
      BY <3>1, LegReduced
    <3>3. QED
      BY <3>2, Zenon DEF Consumed
  <2>2. /\ Book!ReduceFifo(as, price, qty) = cut
        /\ Book!ReduceLifo(as, price, qty) = cut
        /\ Book!ReduceWeightedAverage(as, price, qty) = cut
    BY <1>4, <1>5, <1>8, <1>9, <2>1
       DEF Book!ReduceFifo, Book!ReduceLifo, Book!ReduceWeightedAverage
  <2>3. QED
    BY <2>2, MethodAssumption DEF Book!Reduction
<1>11. PICK after : after = Reduced(pos, price, qty)
  OBVIOUS
<1>12. after = [symbol |-> pos.symbol, direction |-> pos.direction, entry |-> entry,
                size |-> size - qty,
                status |-> IF size = qty THEN "Closed" ELSE "PartiallyClosed",
                realized |-> pos.realized + gain,
                unrealized |-> IF size = qty THEN 0 ELSE pos.unrealized]
  <2>1. pos = [symbol |-> pos.symbol, direction |-> pos.direction, entry |-> entry,
               size |-> size, status |-> pos.status, realized |-> pos.realized,
               unrealized |-> pos.unrealized]
    BY <1>1 DEF PositionType
  <2>2. QED
    BY <1>1, <1>7, <1>11, <2>1 DEF Reduced
<1>13. AsPosition(id, after) =
         [id |-> id, symbol |-> pos.symbol, direction |-> pos.direction,
          status |-> IF size = qty THEN "Closed" ELSE "PartiallyClosed",
          entries |-> Legs(entry, size - qty), current_size |-> size - qty,
          average_entry_price |-> entry, realized_pnl |-> pos.realized + gain,
          unrealized_pnl |-> IF size = qty THEN 0 ELSE pos.unrealized]
  BY <1>12 DEF AsPosition, Legs
<1>14. Book!Reduced(as, price, qty) =
         [id |-> id, symbol |-> pos.symbol, direction |-> pos.direction,
          status |-> IF size = qty THEN "Closed" ELSE "PartiallyClosed",
          entries |-> Legs(entry, size - qty), current_size |-> size - qty,
          average_entry_price |-> entry, realized_pnl |-> pos.realized + gain,
          unrealized_pnl |-> IF size = qty THEN 0 ELSE pos.unrealized]
  <2>1. cut.entries = Legs(entry, size - qty) /\ cut.realized = gain
    BY <1>8
  <2>2. (size - qty = 0) <=> (size = qty)
    OBVIOUS
  <2>3. Book!Reduced(as, price, qty) =
          [as EXCEPT !.entries = Legs(entry, size - qty),
                     !.realized_pnl = pos.realized + gain,
                     !.current_size = size - qty,
                     !.status = IF size = qty THEN "Closed" ELSE "PartiallyClosed",
                     !.unrealized_pnl = IF size = qty THEN 0 ELSE pos.unrealized]
    BY <1>3, <1>10, <2>1, <2>2 DEF Book!Reduced
  <2>4. PICK status : status = IF size = qty THEN "Closed" ELSE "PartiallyClosed"
    OBVIOUS
  <2>5. PICK unrealized : unrealized = IF size = qty THEN 0 ELSE pos.unrealized
    OBVIOUS
  <2>6. PICK legs : legs = Legs(entry, size - qty)
    OBVIOUS
  <2>7. PICK realized : realized = pos.realized + gain
    OBVIOUS
  <2>8. PICK left : left = size - qty
    OBVIOUS
  <2>9. Book!Reduced(as, price, qty) =
          [as EXCEPT !.entries = legs, !.realized_pnl = realized, !.current_size = left,
                     !.status = status, !.unrealized_pnl = unrealized]
    BY <2>3, <2>4, <2>5, <2>6, <2>7, <2>8, Zenon
  <2>10. Book!Reduced(as, price, qty) =
           [id |-> id, symbol |-> pos.symbol, direction |-> pos.direction, status |-> status,
            entries |-> legs, current_size |-> left, average_entry_price |-> entry,
            realized_pnl |-> realized, unrealized_pnl |-> unrealized]
    BY <1>3, <2>9, Overwritten, Zenon
  <2>11. QED
    BY <2>4, <2>5, <2>6, <2>7, <2>8, <2>10, Zenon
<1>15. QED
  BY <1>2, <1>11, <1>13, <1>14

-----------------------------------------------------------------------------
\* The book as a whole, and the operations on it.

AsBook(book)   == [id \in DOMAIN book |-> AsPosition(id, book[id])]
AsClosed(list) == [i \in DOMAIN list |-> AsPosition(list[i].id, list[i].pos)]

LEMMA SameSum ==
  ASSUME NEW f PROVE Book!SumFunction(f) = SumFunction(f)
BY Zenon DEF Book!SumFunction, Book!SumFunctionOnSet, Book!FoldFunctionOnSet,
   Book!MapThenFoldSet, SumFunction, SumFunctionOnSet, FoldFunctionOnSet, MapThenFoldSet

LEMMA SameTotal ==
  ASSUME NEW book PROVE Book!TotalUnrealized(AsBook(book)) = UnrealizedIn(book)
<1>1. PICK as : as = AsBook(book)
  OBVIOUS
<1>2. DOMAIN as = DOMAIN book /\ \A id \in DOMAIN book : as[id].unrealized_pnl = book[id].unrealized
  BY <1>1 DEF AsBook, AsPosition
<1>3. [id \in DOMAIN as |-> as[id].unrealized_pnl] = [id \in DOMAIN book |-> book[id].unrealized]
  BY <1>2
<1>4. Book!TotalUnrealized(as) = SumFunction([id \in DOMAIN as |-> as[id].unrealized_pnl])
  BY SameSum, Zenon DEF Book!TotalUnrealized
<1>5. QED
  BY <1>1, <1>3, <1>4 DEF UnrealizedIn

\* Opening a position leaves the total alone.
LEMMA OpenAs ==
  ASSUME BookTypeOK, NEW symbol, NEW direction, NEW price, NEW qty, qty # 0,
         OpenPosition(symbol, direction, price, qty)
  PROVE  Book!OpenPosition(symbol, direction, price, qty)
<1>1. PICK new : new = created + 1
  OBVIOUS
<1>2. /\ created' = new
      /\ positions' = [id \in DOMAIN positions \cup {new} |->
                         IF id = new THEN NewPosition(symbol, direction, price, qty)
                         ELSE positions[id]]
      /\ closed_positions' = closed_positions
  BY <1>1 DEF OpenPosition
<1>3. AsPosition(new, NewPosition(symbol, direction, price, qty))
        = Book!NewPosition(new, symbol, direction, price, qty)
  BY DEF AsPosition, NewPosition, Book!NewPosition, Book!Leg
<1>4. AsBook(positions') =
        [id \in DOMAIN positions \cup {new} |->
           IF id = new THEN Book!NewPosition(id, symbol, direction, price, qty)
           ELSE AsBook(positions)[id]]
  BY <1>2, <1>3 DEF AsBook
<1>5. UnrealizedIn(positions') = UnrealizedIn(positions)
  <2>1. PICK f, g : f = MarkedIn(positions) /\ g = MarkedIn(positions')
    OBVIOUS
  <2>2. new \notin DOMAIN positions
    BY <1>1 DEF BookTypeOK
  <2>3. OneMore(f, g, new) /\ g[new] = 0
    BY <1>2, <2>1, <2>2 DEF MarkedIn, OneMore, NewPosition
  <2>4. Whole(f)
    BY <2>1, TotalsAreWhole
  <2>5. SumFunction(g) = SumFunction(f)
    BY <2>3, <2>4, SumAdd, SumInt
  <2>6. QED
    BY <2>1, <2>5, Zenon DEF UnrealizedIn, MarkedIn
<1>6. created' = created + 1 /\ Method' = Method
  BY <1>1, <1>2
<1>7. QED
  BY <1>2, <1>4, <1>5, <1>6 DEF Book!OpenPosition, AsBook

LEMMA AppendIs ==
  ASSUME NEW T, NEW s \in Seq(T), NEW e \in T
  PROVE  Append(s, e) = [i \in 1 .. Len(s) + 1 |-> IF i = Len(s) + 1 THEN e ELSE s[i]]
<1>1. /\ Append(s, e) \in Seq(T) /\ Len(Append(s, e)) = Len(s) + 1
      /\ \A i \in 1 .. Len(s) : Append(s, e)[i] = s[i]
      /\ Append(s, e)[Len(s) + 1] = e
  BY AppendProperties
<1>2. Append(s, e) = [i \in 1 .. Len(s) + 1 |-> Append(s, e)[i]]
  <2>1. PICK t \in Seq(T) : t = Append(s, e)
    BY <1>1
  <2>2. t \in [1 .. Len(t) -> T]
    BY LenProperties
  <2>3. t = [i \in 1 .. Len(t) |-> t[i]]
    BY <2>2
  <2>4. QED
    BY <1>1, <2>1, <2>3
<1>3. QED
  BY <1>1, <1>2

LEMMA ReduceAs ==
  ASSUME BookTypeOK, NEW id \in DOMAIN positions, NEW price \in Nat, NEW qty \in Nat,
         0 < qty, ReducePosition(id, price, qty)
  PROVE  Book!ReducePosition(id, price, qty)
<1>1. positions[id] \in PositionType /\ qty <= positions[id].size
  BY BookIsFinite DEF ReducePosition, Sufficient
<1>2. PICK pos, after : pos = AsPosition(id, positions[id])
                        /\ after = AsPosition(id, Reduced(positions[id], price, qty))
  OBVIOUS
<1>3. Book!Reduced(pos, price, qty) = after
  BY <1>1, <1>2, ReducedAs
<1>4. PICK b, c : b = AsBook(positions) /\ c = AsBook(positions')
  OBVIOUS
<1>5. id \in DOMAIN b /\ b[id] = pos /\ pos.current_size = positions[id].size
  BY <1>2, <1>4 DEF AsBook, AsPosition
<1>6. PICK shut, then : shut = AsClosed(closed_positions) /\ then = AsClosed(closed_positions')
  OBVIOUS
<1>7. created' = created /\ Method' = Method
  BY DEF ReducePosition
<1>8. UnrealizedIn(positions') = Book!TotalUnrealized(c)
  BY <1>4, SameTotal
<1>9. \/ /\ after.status = "Closed"
         /\ c = [x \in DOMAIN b \ {id} |-> b[x]]
         /\ then = Append(shut, after)
      \/ /\ after.status # "Closed"
         /\ c = [b EXCEPT ![id] = after]
         /\ then = shut
  <2>1. after.status = IF positions[id].size = qty THEN "Closed" ELSE "PartiallyClosed"
    BY <1>1, <1>2 DEF AsPosition, Reduced, PositionType
  <2>2. CASE positions[id].size = qty
    <3>1. /\ positions' = [other \in DOMAIN positions \ {id} |-> positions[other]]
          /\ closed_positions' =
               Append(closed_positions, [id |-> id, pos |-> Reduced(positions[id], price, qty)])
      BY <2>2 DEF ReducePosition
    <3>2. c = [x \in DOMAIN b \ {id} |-> b[x]]
      BY <1>4, <3>1 DEF AsBook
    <3>3. then = Append(shut, after)
      <4>1. PICK list, item : list = closed_positions
                              /\ item = [id |-> id, pos |-> Reduced(positions[id], price, qty)]
        OBVIOUS
      <4>2. list \in Seq([id : Nat, pos : PositionType])
        BY <4>1 DEF BookTypeOK
      <4>3. Len(Append(list, item)) = Len(list) + 1
            /\ \A i \in 1 .. Len(list) + 1 :
                 Append(list, item)[i] = IF i = Len(list) + 1 THEN item ELSE list[i]
        BY <4>2
      <4>4. DOMAIN list = 1 .. Len(list) /\ Len(list) \in Nat
            /\ DOMAIN Append(list, item) = 1 .. Len(list) + 1
        BY <4>2, <4>3
      <4>5. shut = [i \in 1 .. Len(list) |-> AsPosition(list[i].id, list[i].pos)]
        BY <1>6, <4>1, <4>4 DEF AsClosed
      <4>6. item.id = id /\ item.pos = Reduced(positions[id], price, qty)
        BY <4>1
      <4>7. then = [i \in 1 .. Len(list) + 1 |->
                      AsPosition(Append(list, item)[i].id, Append(list, item)[i].pos)]
        BY <1>6, <3>1, <4>1, <4>4 DEF AsClosed
      <4>8. \A i \in 1 .. Len(list) + 1 :
              AsPosition(Append(list, item)[i].id, Append(list, item)[i].pos)
                = IF i = Len(list) + 1 THEN after ELSE shut[i]
        BY <1>2, <4>3, <4>4, <4>5, <4>6
      <4>9. then = [i \in 1 .. Len(list) + 1 |-> IF i = Len(list) + 1 THEN after ELSE shut[i]]
        BY <4>7, <4>8, Zenon
      <4>10. Len(shut) = Len(list) /\ shut \in Seq({shut[i] : i \in 1 .. Len(list)} \cup {after})
        BY <4>4, <4>5
      <4>11. Append(shut, after) = [i \in 1 .. Len(shut) + 1 |->
                                      IF i = Len(shut) + 1 THEN after ELSE shut[i]]
        <5>1. PICK T : T = {shut[i] : i \in 1 .. Len(list)} \cup {after}
          OBVIOUS
        <5>2. shut \in Seq(T)
          BY <4>10, <5>1, Zenon
        <5>3. after \in T
          BY <5>1
        <5>4. QED
          BY <5>2, <5>3, AppendIs
      <4>12. QED
        BY <4>9, <4>10, <4>11
    <3>4. QED
      BY <2>1, <2>2, <3>2, <3>3
  <2>3. CASE positions[id].size # qty
    <3>1. /\ positions' = [positions EXCEPT ![id] = Reduced(@, price, qty)]
          /\ closed_positions' = closed_positions
      BY <2>3 DEF ReducePosition
    <3>2. c = [b EXCEPT ![id] = after]
      BY <1>2, <1>4, <3>1 DEF AsBook
    <3>3. then = shut
      BY <1>6, <3>1 DEF AsClosed
    <3>4. QED
      BY <2>1, <2>3, <3>2, <3>3
  <2>4. QED
    BY <2>2, <2>3
<1>10. Book!Sufficient(b[id], qty)
  BY <1>1, <1>5 DEF Book!Sufficient
<1>11. \/ /\ after.status = "Closed"
          /\ c = Book!Restrict(b, DOMAIN b \ {id})
          /\ then = Append(shut, after)
       \/ /\ after.status # "Closed"
          /\ c = [b EXCEPT ![id] = after]
          /\ then = shut
  BY <1>9, Zenon DEF Book!Restrict
<1>12. QED
  BY <1>3, <1>4, <1>5, <1>6, <1>7, <1>8, <1>10, <1>11
     DEF Book!ReducePosition, Book!Retire, Book!RecalcUnrealizedPnl, AsBook, AsClosed

LEMMA MarkAs ==
  ASSUME BookTypeOK, NEW mark \in Nat, positions' = Marked(mark),
         closed_positions' = closed_positions, created' = created
  PROVE  Book!UpdateUnrealizedPnl(Symbol, mark)
<1>1. PICK b, c : b = AsBook(positions) /\ c = AsBook(positions')
  OBVIOUS
<1>2. ASSUME NEW id \in DOMAIN positions, positions[id].symbol = Symbol
      PROVE  AsPosition(id, [positions[id] EXCEPT
                               !.unrealized = Profit(positions[id], mark, positions[id].size)])
               = [b[id] EXCEPT !.unrealized_pnl = Book!PnlAtMark(b[id], mark)]
  <2>1. PICK pos \in PositionType : pos = positions[id]
    BY BookIsFinite
  <2>2. PICK gain : gain = Profit(pos, mark, pos.size)
    OBVIOUS
  <2>3. PICK as : as = AsPosition(id, pos)
    OBVIOUS
  <2>4. b[id] = as
    BY <1>1, <2>1, <2>3 DEF AsBook
  <2>5. as.current_size = pos.size /\ as.average_entry_price = pos.entry
        /\ as.direction = pos.direction
    BY <2>3 DEF AsPosition
  <2>6. pos.size * (mark - pos.entry) = (mark - pos.entry) * pos.size
    BY DEF PositionType
  <2>7. Book!PnlAtMark(as, mark) = gain
    <3>1. Book!DirMultiplier(pos.direction) = DirMultiplier(pos.direction)
      BY DEF Book!DirMultiplier, DirMultiplier
    <3>2. Book!PnlAtMark(as, mark)
            = pos.size * (mark - pos.entry) * Book!DirMultiplier(pos.direction)
      BY <2>5, Zenon DEF Book!PnlAtMark
    <3>3. gain = (mark - pos.entry) * pos.size * DirMultiplier(pos.direction)
      BY <2>2, Zenon DEF Profit
    <3>4. QED
      BY <2>6, <3>1, <3>2, <3>3, Zenon
  <2>8. AsPosition(id, [pos EXCEPT !.unrealized = gain]) = [as EXCEPT !.unrealized_pnl = gain]
    BY <2>3 DEF AsPosition, PositionType
  <2>9. QED
    BY <2>1, <2>2, <2>4, <2>7, <2>8
<1>3. \A id \in DOMAIN positions : b[id].symbol = positions[id].symbol
                                  /\ b[id] = AsPosition(id, positions[id])
  BY <1>1 DEF AsBook, AsPosition
<1>4. DOMAIN b = DOMAIN positions /\ DOMAIN positions' = DOMAIN positions
  BY <1>1 DEF AsBook, Marked
<1>5. c = [id \in DOMAIN b |->
             IF b[id].symbol = Symbol
             THEN [b[id] EXCEPT !.unrealized_pnl = Book!PnlAtMark(b[id], mark)]
             ELSE b[id]]
  <2>1. c = [id \in DOMAIN positions |-> AsPosition(id, positions'[id])]
    BY <1>1, <1>4 DEF AsBook
  <2>2. ASSUME NEW id \in DOMAIN positions
        PROVE  AsPosition(id, positions'[id]) =
                 IF b[id].symbol = Symbol
                 THEN [b[id] EXCEPT !.unrealized_pnl = Book!PnlAtMark(b[id], mark)]
                 ELSE b[id]
    <3>1. CASE positions[id].symbol = Symbol
      <4>1. positions'[id] = [positions[id] EXCEPT
                                !.unrealized = Profit(positions[id], mark, positions[id].size)]
        BY <3>1 DEF Marked
      <4>2. QED
        BY <1>2, <1>3, <3>1, <4>1
    <3>2. CASE positions[id].symbol # Symbol
      BY <1>3, <3>2 DEF Marked
    <3>3. QED
      BY <3>1, <3>2
  <2>3. QED
    BY <1>4, <2>1, <2>2
<1>6. UnrealizedIn(positions') = Book!TotalUnrealized(c)
  BY <1>1, SameTotal
<1>7. AsClosed(closed_positions') = AsClosed(closed_positions) /\ Method' = Method
  BY DEF AsClosed
<1>8. QED
  BY <1>1, <1>5, <1>6, <1>7
     DEF Book!UpdateUnrealizedPnl, Book!RecalcUnrealizedPnl, AsBook, AsClosed

-----------------------------------------------------------------------------
\* What the operations are called with.

Waiting == [at : Nat, from : Nat, signal : Signals]

\* Every open position has units left, every signal in the queue is one of Signals.
Held ==
  /\ bars \in BarSeqs
  /\ \A id \in DOMAIN positions : positions[id].size > 0
  /\ pending_signals \in Seq(Waiting)

LEMMA QueuedWaits ==
  ASSUME NEW idx \in Nat, NEW signals \in Seq(Signals)
  PROVE  Queued(idx, signals) \in Seq(Waiting)
<1>1. ExecuteAt(idx) \in Nat
  BY ConfigAssumption DEF ExecuteAt
<1>2. DOMAIN signals = 1 .. Len(signals) /\ Len(signals) \in Nat
      /\ \A i \in 1 .. Len(signals) : signals[i] \in Signals
  OBVIOUS
<1>3. \A i \in 1 .. Len(signals) :
        [at |-> ExecuteAt(idx), from |-> idx, signal |-> signals[i]] \in Waiting
  BY <1>1, <1>2 DEF Waiting
<1>4. Queued(idx, signals) \in [1 .. Len(signals) -> Waiting]
  BY <1>2, <1>3 DEF Queued
<1>5. QED
  BY <1>2, <1>4, SeqDef

\* The signal that is executed, and what it fills at.
LEMMA CurrentFill ==
  ASSUME Inv, Held, pc = "executing", Due
  PROVE  /\ Current \in Signals /\ Current.symbol \in Symbols
         /\ FillQuantity(Current) \in Nat /\ FillQuantity(Current) > 0
<1>1. Head(pending_signals) \in Waiting
  BY HeadTailProperties DEF Held, Due
<1>2. Current \in Signals
  BY <1>1 DEF Waiting, Current
<1>3. Current \in SignalType
  BY <1>2, SignalsAssumption
<1>4. FillQuantity(Current) \in Nat
  BY <1>3, FillTypes DEF Inv
<1>5. QED
  BY <1>2, <1>3, <1>4, BookQuantitiesAssumption DEF SignalType

LEMMA FillPriceIn ==
  ASSUME Inv, Held, pc # "idle"
  PROVE  FillPrice \in BookPrices /\ FillPrice \in Nat
<1>1. current_idx \in DOMAIN bars
  BY DEF Inv, TypeOK
<1>2. QED
  BY <1>1, BookPricesAssumption DEF Held, FillPrice, CurrentBar

LEMMA ReduceHolds ==
  ASSUME BookTypeOK, NEW id \in DOMAIN positions, NEW price \in Nat, NEW qty \in Nat,
         \A x \in DOMAIN positions : positions[x].size > 0,
         ReducePosition(id, price, qty)
  PROVE  \A x \in DOMAIN positions' : positions'[x].size > 0
<1>1. positions[id] \in PositionType /\ qty <= positions[id].size
  BY BookIsFinite DEF ReducePosition, Sufficient
<1>2. Reduced(positions[id], price, qty).size = positions[id].size - qty
  BY <1>1 DEF Reduced, PositionType
<1>3. CASE positions[id].size = qty
  BY <1>3 DEF ReducePosition
<1>4. CASE positions[id].size # qty
  <2>1. positions[id].size - qty > 0
    BY <1>1, <1>4 DEF PositionType
  <2>2. positions' = [positions EXCEPT ![id] = Reduced(positions[id], price, qty)]
    BY <1>4 DEF ReducePosition
  <2>3. QED
    BY <1>2, <2>1, <2>2
<1>5. QED
  BY <1>3, <1>4

-----------------------------------------------------------------------------
\* Every step of the engine is a step of the book, or leaves it alone.

BookSame ==
  positions' = positions /\ closed_positions' = closed_positions /\ created' = created

BookStep == [Book!Next]_(Book!bookVars)

LEMMA SameAs == BookSame => BookStep
<1> SUFFICES ASSUME BookSame PROVE UNCHANGED Book!bookVars
  BY DEF BookStep
<1>1. AsBook(positions') = AsBook(positions) /\ AsClosed(closed_positions') = AsClosed(closed_positions)
      /\ UnrealizedIn(positions') = UnrealizedIn(positions) /\ created' = created
  BY DEF BookSame
<1>2. QED
  BY <1>1, Zenon DEF Book!bookVars, AsBook, AsClosed

\* A position is reduced in the book.
LEMMA ReduceIsStep ==
  ASSUME Inv, Held, NEW id \in DOMAIN positions, NEW price \in BookPrices,
         NEW signal \in Signals, ReducePosition(id, price, FillQuantity(signal)),
         FillQuantity(signal) \in Nat, price \in Nat
  PROVE  BookStep
<1>1. PICK qty \in Nat : qty = FillQuantity(signal)
  OBVIOUS
<1>2. qty > 0 /\ BookTypeOK
  BY <1>1, BookQuantitiesAssumption, InvParts
<1>3. Book!ReducePosition(id, price, qty)
  BY <1>1, <1>2, ReduceAs
<1>4. id \in DOMAIN AsBook(positions)
  BY DEF AsBook
<1>5. qty \in {FillQuantity(s) : s \in Signals}
  BY <1>1
<1>6. QED
  BY <1>3, <1>4, <1>5 DEF BookStep, Book!Next, AsBook

LEMMA CloseIsStep ==
  ASSUME Inv, Held, NEW id \in DOMAIN positions, NEW price \in BookPrices, price \in Nat,
         ClosePosition(id, price)
  PROVE  BookStep
<1>1. PICK qty : qty = positions[id].size
  OBVIOUS
<1>2. qty \in Nat /\ qty > 0 /\ BookTypeOK
  BY <1>1, InvParts, BookIsFinite DEF Held, PositionType
<1>3. Book!ReducePosition(id, price, qty)
  BY <1>1, <1>2, ReduceAs DEF ClosePosition
<1>4. id \in DOMAIN AsBook(positions) /\ AsBook(positions)[id].current_size = qty
  BY <1>1 DEF AsBook, AsPosition
<1>5. Book!ClosePosition(id, price)
  BY <1>3, <1>4 DEF Book!ClosePosition, AsBook
<1>6. QED
  BY <1>4, <1>5 DEF BookStep, Book!Next, AsBook

LEMMA OpenIsStep ==
  ASSUME Inv, Held, ExecuteOpen
  PROVE  BookStep /\ \A x \in DOMAIN positions' : positions'[x].size > 0
<1>1. /\ pc = "executing" /\ Due
      /\ \E direction \in {"Long", "Short"} :
           OpenPosition(Current.symbol, direction, FillPrice, FillQuantity(Current))
  BY DEF ExecuteOpen, Execute
<1>2. PICK direction \in {"Long", "Short"} :
        OpenPosition(Current.symbol, direction, FillPrice, FillQuantity(Current))
  BY <1>1
<1>3. PICK symbol \in Symbols, price \in BookPrices, qty \in {FillQuantity(s) : s \in Signals} :
        symbol = Current.symbol /\ price = FillPrice /\ qty = FillQuantity(Current)
  BY <1>1, CurrentFill, FillPriceIn
<1>4. qty \in Nat /\ qty > 0 /\ BookTypeOK
  BY <1>1, <1>3, CurrentFill, InvParts
<1>5. OpenPosition(symbol, direction, price, qty)
  BY <1>2, <1>3
<1>6. Book!OpenPosition(symbol, direction, price, qty)
  BY <1>4, <1>5, OpenAs
<1>7. direction \in Book!Directions
  BY DEF Book!Directions
<1>8. BookStep
  BY <1>6, <1>7 DEF BookStep, Book!Next
<1>9. \A x \in DOMAIN positions' : positions'[x].size > 0
  BY <1>4, <1>5 DEF OpenPosition, NewPosition, Held
<1>10. QED
  BY <1>8, <1>9

LEMMA LeaveIsStep ==
  ASSUME Inv, Held, ExecuteReduce \/ ExecuteClose \/ CloseAllNext
  PROVE  BookStep /\ \A x \in DOMAIN positions' : positions'[x].size > 0
<1>1. BookTypeOK /\ pc # "idle" /\ \A x \in DOMAIN positions : positions[x].size > 0
  BY InvParts DEF ExecuteReduce, ExecuteClose, CloseAllNext, Execute, Held
<1>2. FillPrice \in BookPrices /\ FillPrice \in Nat
  BY <1>1, FillPriceIn
<1>3. CASE ExecuteReduce
  <2>1. pc = "executing" /\ Due
    BY <1>3 DEF ExecuteReduce, Execute
  <2>2. PICK id \in DOMAIN positions : ReducePosition(id, FillPrice, FillQuantity(Current))
    BY <1>3 DEF ExecuteReduce, BySymbol
  <2>3. Current \in Signals /\ FillQuantity(Current) \in Nat
    BY <2>1, CurrentFill
  <2>4. QED
    BY <1>1, <1>2, <2>2, <2>3, ReduceIsStep, ReduceHolds
<1>4. CASE ExecuteClose \/ CloseAllNext
  <2>1. PICK id \in DOMAIN positions : ClosePosition(id, FillPrice)
    <3>1. CASE ExecuteClose
      BY <3>1 DEF ExecuteClose, BySymbol
    <3>2. CASE CloseAllNext
      BY <3>2 DEF CloseAllNext, CloseNext, Inv, TypeOK
    <3>3. QED
      BY <1>4, <3>1, <3>2
  <2>2. positions[id].size \in Nat
    BY <1>1, BookIsFinite DEF PositionType
  <2>3. ReducePosition(id, FillPrice, positions[id].size)
    BY <2>1 DEF ClosePosition
  <2>4. \A x \in DOMAIN positions' : positions'[x].size > 0
    BY <1>1, <1>2, <2>2, <2>3, ReduceHolds
  <2>5. QED
    BY <1>2, <2>1, <2>4, CloseIsStep
<1>5. QED
  BY <1>3, <1>4

LEMMA FinishIsStep ==
  ASSUME Inv, Held, FinishStep
  PROVE  BookStep /\ \A x \in DOMAIN positions' : positions'[x].size > 0
<1>1. PICK mark \in BookPrices : mark = CurrentBar.close
  BY FillPriceIn DEF FinishStep, FillPrice
<1>2. BookTypeOK /\ mark \in Nat
  BY <1>1, FillPriceIn, InvParts DEF FinishStep, FillPrice
<1>3. CheckLiquidations(Marked(mark), mark) = Marked(mark)
  BY DEF CheckLiquidations, CheckLiquidation, Marked
<1>4. positions' = Marked(mark) /\ closed_positions' = closed_positions /\ created' = created
  BY <1>1, <1>3 DEF FinishStep
<1>5. Book!UpdateUnrealizedPnl(Symbol, mark)
  BY <1>2, <1>4, MarkAs
<1>6. BookStep
  BY <1>5, SymbolAssumption DEF BookStep, Book!Next
<1>7. \A x \in DOMAIN positions : positions[x] \in PositionType
  BY <1>2, BookIsFinite
<1>8. \A x \in DOMAIN positions' : positions'[x].size = positions[x].size /\ x \in DOMAIN positions
  BY <1>4, <1>7 DEF Marked, PositionType
<1>9. QED
  BY <1>6, <1>8 DEF Held

LEMMA EmptyBook ==
  /\ AsBook(<< >>) = << >> /\ AsClosed(<< >>) = << >> /\ UnrealizedIn(<< >>) = 0
<1>1. AsBook(<< >>) = << >> /\ AsClosed(<< >>) = << >>
  BY DEF AsBook, AsClosed
<1>2. UnrealizedIn(<< >>) = 0
  BY SumOfNone DEF UnrealizedIn
<1>3. QED
  BY <1>1, <1>2

LEMMA ResetIsStep == Reset => BookStep
<1> SUFFICES ASSUME Reset PROVE Book!NewBook
  BY DEF BookStep, Book!Next
<1>1. positions' = << >> /\ closed_positions' = << >> /\ created' = 0
  BY DEF Reset
<1>2. AsBook(positions') = << >> /\ AsClosed(closed_positions') = << >>
      /\ UnrealizedIn(positions') = 0
  BY <1>1, EmptyBook
<1>3. QED
  BY <1>1, <1>2 DEF Book!NewBook, AsBook, AsClosed

LEMMA NewIsBook == Init => Book!Init
<1> SUFFICES ASSUME Init PROVE Book!Init
  OBVIOUS
<1>1. positions = << >> /\ closed_positions = << >> /\ created = 0
  BY DEF Init
<1>2. AsBook(positions) = << >> /\ AsClosed(closed_positions) = << >>
      /\ UnrealizedIn(positions) = 0
  BY <1>1, EmptyBook
<1>3. QED
  BY <1>1, <1>2, MethodAssumption DEF Book!Init, Book!CostBasisMethods, AsBook, AsClosed

\* The queue keeps its signals.
LEMMA QueueHolds ==
  ASSUME Inv, Held, [Next]_vars
  PROVE  bars' = bars /\ pending_signals' \in Seq(Waiting)
<1>1. pending_signals \in Seq(Waiting) /\ current_idx \in Nat
  BY DEF Held, Inv, TypeOK
<1>2. CASE BeginStep
  <2>1. PICK batch \in Batches :
          pending_signals' = pending_signals \o Queued(current_idx + 1, batch)
    BY <1>2 DEF BeginStep
  <2>2. Queued(current_idx + 1, batch) \in Seq(Waiting)
    BY <1>1, BatchType, QueuedWaits
  <2>3. QED
    BY <1>1, <1>2, <2>1, <2>2, ConcatProperties DEF BeginStep
<1>3. CASE \E signal \in Signals : SubmitSignal(signal)
  <2>1. PICK signal \in Signals : SubmitSignal(signal)
    BY <1>3
  <2>2. pending_signals' = pending_signals \o Queued(current_idx, << signal >>) /\ bars' = bars
    BY <2>1 DEF SubmitSignal
  <2>3. << signal >> \in Seq(Signals)
    OBVIOUS
  <2>4. Queued(current_idx, << signal >>) \in Seq(Waiting)
    BY <1>1, <2>3, QueuedWaits
  <2>5. QED
    BY <1>1, <2>2, <2>4, ConcatProperties
<1>4. CASE AnyExecution
  <2>1. PICK actions : Execute(actions)
    BY <1>4, ExecutionTakesHead
  <2>2. pending_signals' = Tail(pending_signals) /\ bars' = bars /\ pending_signals # << >>
    BY <2>1 DEF Execute, Due
  <2>3. QED
    BY <1>1, <2>2, HeadTailProperties
<1>5. CASE CloseAllNext \/ CloseAllDone \/ ExecutedAll \/ FinishStep \/ UNCHANGED vars
  BY <1>1, <1>5 DEF CloseAllNext, CloseAllDone, ExecutedAll, FinishStep, vars
<1>6. CASE Reset
  BY <1>6 DEF Reset
<1>7. QED
  BY <1>2, <1>3, <1>4, <1>5, <1>6 DEF Next, InStep, AnyExecution

LEMMA StepAs ==
  ASSUME Inv, Held, [Next]_vars
  PROVE  BookStep /\ Held'
<1>1. CASE ExecuteOpen
  BY <1>1, OpenIsStep, QueueHolds DEF Held
<1>2. CASE ExecuteReduce \/ ExecuteClose \/ CloseAllNext
  BY <1>2, LeaveIsStep, QueueHolds DEF Held
<1>3. CASE FinishStep
  BY <1>3, FinishIsStep, QueueHolds DEF Held
<1>4. CASE Reset
  <2>1. positions' = << >>
    BY <1>4 DEF Reset
  <2>2. \A x \in DOMAIN positions' : positions'[x].size > 0
    BY <2>1
  <2>3. QED
    BY <1>4, <2>2, ResetIsStep, QueueHolds DEF Held
<1>5. CASE \/ BeginStep \/ ExecuteFeeOnly \/ ExecuteCloseAll \/ CloseAllDone \/ ExecutedAll
           \/ (\E signal \in Signals : SubmitSignal(signal)) \/ UNCHANGED vars
  <2>1. BookSame
    BY <1>5 DEF BeginStep, ExecuteFeeOnly, ExecuteCloseAll, CloseAllDone, ExecutedAll,
       SubmitSignal, vars, bookVars, BookSame
  <2>2. QED
    BY <2>1, SameAs, QueueHolds DEF Held, BookSame
<1>6. QED
  BY <1>1, <1>2, <1>3, <1>4, <1>5 DEF Next, InStep

\* The engine implements the order book: whatever the strategy asks for, over any bars,
\* what execute_signal, the marking and the reset do to their single-leg records is what
\* the order book's operations do to its positions, whichever cost basis method it has,
\* one operation at a time.
THEOREM EngineKeepsTheBook == Spec => BookSpec
<1>1. Init => Held /\ Book!Init
  <2>1. Init => Held
    BY DEF Init, Held
  <2>2. QED
    BY <2>1, NewIsBook
<1>2. Inv /\ Held /\ [Next]_vars => Held' /\ [Book!Next]_(Book!bookVars)
  BY StepAs DEF BookStep
<1>3. QED
  BY <1>1, <1>2, Invariance, PTL DEF Spec, BookSpec, Book!Spec
=============================================================================
