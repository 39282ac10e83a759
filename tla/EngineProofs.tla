---------------------------- MODULE EngineProofs ----------------------------
(***************************************************************************)
(* Theorems about the engine, for every set of bars, every signal and      *)
(* every configuration that the assumptions of Engine allow, and about     *)
(* the strategies that run in it.                                          *)
(***************************************************************************)
EXTENDS Strategies, FoldTheorems, SequenceTheorems, TLAPS

\* The invariant the proofs go by: no CloseAll is in progress outside its loop, so an
\* execution cannot take a position that a loop has yet to close.
Inv ==
  /\ TypeOK
  /\ pc # "closing" => closing.todo = {}

-----------------------------------------------------------------------------
\* What the values that a step computes are.

LEMMA BarTypes ==
  ASSUME TypeOK, pc # "idle"
  PROVE  /\ CurrentBar \in Bar
         /\ FillPrice \in Nat
         /\ bars \in Seq(Bar)
<1>1. bars \in Seq(Bar)
  BY DEF TypeOK
<1>2. current_idx \in 1 .. Len(bars)
  BY <1>1 DEF TypeOK
<1>3. CurrentBar \in Bar
  BY <1>1, <1>2 DEF CurrentBar
<1> QED BY <1>1, <1>3 DEF FillPrice, Bar

LEMMA FillTypes ==
  ASSUME TypeOK, pc # "idle", NEW signal \in SignalType
  PROVE  /\ FillQuantity(signal) \in Nat
         /\ FillFee(signal) \in Int
         /\ FillMargin(signal) \in Int
<1>1. FillPrice \in Nat
  BY BarTypes
<1>2. FillQuantity(signal) \in Nat
  BY ConfigAssumption DEF FillQuantity, SignalType, NoQuantity
<1> QED
  BY <1>1, <1>2, MoneyAssumption DEF FillFee, FillMargin

LEMMA ProfitType ==
  ASSUME NEW pos \in PositionType, NEW price \in Nat, NEW qty \in Nat
  PROVE  Profit(pos, price, qty) \in Int
  BY DEF Profit, PositionType, DirMultiplier

\* A reduced position is a position, unless the fill is larger than it.
LEMMA ReducedType ==
  ASSUME NEW pos \in PositionType, NEW price \in Nat, NEW qty \in Nat, Sufficient(pos, qty)
  PROVE  Reduced(pos, price, qty) \in PositionType
<1>1. Profit(pos, price, qty) \in Int
  BY ProfitType
<1>2. pos.size - qty \in Nat
  BY DEF PositionType, Sufficient
<1>3. pos.realized + Profit(pos, price, qty) \in Int
  BY <1>1 DEF PositionType
<1> DEFINE status     == IF pos.size = qty THEN "Closed" ELSE "PartiallyClosed"
           unrealized == IF pos.size = qty THEN 0 ELSE pos.unrealized
<1>4. status \in {"Open", "PartiallyClosed", "Closed"} /\ unrealized \in Int
  BY DEF PositionType
<1> HIDE DEF status, unrealized
<1>5. [pos EXCEPT !.size = pos.size - qty, !.realized = pos.realized + Profit(pos, price, qty),
                  !.status = status, !.unrealized = unrealized] \in PositionType
  BY <1>2, <1>3, <1>4 DEF PositionType
<1> QED
  BY <1>5 DEF Reduced, status, unrealized
-----------------------------------------------------------------------------
\* The operations of the book keep its types.

BookTypeOK ==
  /\ created \in Nat
  /\ DOMAIN positions \subseteq 1 .. created
  /\ positions \in [DOMAIN positions -> PositionType]
  /\ closed_positions \in Seq([id : Nat, pos : PositionType])

LEMMA OpenTypes ==
  ASSUME BookTypeOK,
         NEW symbol \in Symbols, NEW direction \in {"Long", "Short"},
         NEW price \in Nat, NEW qty \in Nat,
         OpenPosition(symbol, direction, price, qty)
  PROVE  BookTypeOK' /\ DOMAIN positions \subseteq DOMAIN positions'
<1>1. NewPosition(symbol, direction, price, qty) \in PositionType
  BY DEF NewPosition, PositionType
<1>2. created' = created + 1 /\ created' \in Nat
  BY DEF BookTypeOK, OpenPosition
<1>3. DOMAIN positions' = DOMAIN positions \cup {created + 1}
  BY DEF OpenPosition
<1>4. \A id \in DOMAIN positions' : positions'[id] \in PositionType
  BY <1>1, <1>3 DEF BookTypeOK, OpenPosition
<1>5. positions' \in [DOMAIN positions' -> PositionType]
  BY <1>4 DEF OpenPosition
<1>6. DOMAIN positions' \subseteq 1 .. created'
  BY <1>2, <1>3 DEF BookTypeOK
<1> QED
  BY <1>2, <1>3, <1>5, <1>6 DEF BookTypeOK, OpenPosition

LEMMA ReduceTypes ==
  ASSUME BookTypeOK,
         NEW id \in DOMAIN positions, NEW price \in Nat, NEW qty \in Nat,
         ReducePosition(id, price, qty)
  PROVE  BookTypeOK' /\ DOMAIN positions \ {id} \subseteq DOMAIN positions'
<1>1. positions[id] \in PositionType
  BY DEF BookTypeOK
<1>2. Sufficient(positions[id], qty) /\ created' = created
  BY DEF ReducePosition
<1>3. Reduced(positions[id], price, qty) \in PositionType
  BY <1>1, <1>2, ReducedType
<1>4. CASE positions[id].size = qty
  <2>1. /\ positions' = [other \in DOMAIN positions \ {id} |-> positions[other]]
        /\ closed_positions' =
             Append(closed_positions, [id |-> id, pos |-> Reduced(positions[id], price, qty)])
    BY <1>4 DEF ReducePosition
  <2>2. DOMAIN positions' = DOMAIN positions \ {id}
    BY <2>1
  <2>3. positions' \in [DOMAIN positions' -> PositionType]
    BY <2>1, <2>2 DEF BookTypeOK
  <2>4. [id |-> id, pos |-> Reduced(positions[id], price, qty)] \in [id : Nat, pos : PositionType]
    BY <1>3 DEF BookTypeOK
  <2>5. closed_positions' \in Seq([id : Nat, pos : PositionType])
    BY <2>1, <2>4, AppendProperties DEF BookTypeOK
  <2> QED
    BY <1>2, <2>2, <2>3, <2>5 DEF BookTypeOK
<1>5. CASE positions[id].size # qty
  <2>1. /\ positions' = [positions EXCEPT ![id] = Reduced(positions[id], price, qty)]
        /\ closed_positions' = closed_positions
    BY <1>5 DEF ReducePosition
  <2>2. DOMAIN positions' = DOMAIN positions
    BY <2>1
  <2>3. positions' \in [DOMAIN positions' -> PositionType]
    BY <1>3, <2>1, <2>2 DEF BookTypeOK
  <2> QED
    BY <1>2, <2>1, <2>2, <2>3 DEF BookTypeOK
<1> QED
  BY <1>4, <1>5

LEMMA CloseTypes ==
  ASSUME BookTypeOK, NEW id \in DOMAIN positions, NEW price \in Nat,
         ClosePosition(id, price)
  PROVE  BookTypeOK' /\ DOMAIN positions \ {id} \subseteq DOMAIN positions'
<1>1. positions[id].size \in Nat
  BY DEF BookTypeOK, PositionType
<1> QED
  BY <1>1, ReduceTypes DEF ClosePosition

\* Marking changes no position but its unrealized profit.
LEMMA MarkTypes ==
  ASSUME BookTypeOK, NEW mark \in Nat,
         positions' = CheckLiquidations(Marked(mark), mark),
         UNCHANGED <<closed_positions, created>>
  PROVE  BookTypeOK' /\ DOMAIN positions' = DOMAIN positions
<1>1. DOMAIN Marked(mark) = DOMAIN positions
  BY DEF Marked
<1>2. ASSUME NEW id \in DOMAIN positions
      PROVE  Marked(mark)[id] \in PositionType
  <2>1. positions[id] \in PositionType /\ positions[id].size \in Nat
    BY DEF BookTypeOK, PositionType
  <2>2. Profit(positions[id], mark, positions[id].size) \in Int
    BY <2>1, ProfitType
  <2>3. [positions[id] EXCEPT !.unrealized = Profit(positions[id], mark, positions[id].size)]
          \in PositionType
    BY <2>1, <2>2 DEF PositionType
  <2> QED
    BY <2>1, <2>3 DEF Marked
<1>3. positions' = [id \in DOMAIN positions |-> Marked(mark)[id]]
  BY <1>1 DEF CheckLiquidations, CheckLiquidation
<1> QED
  BY <1>2, <1>3 DEF BookTypeOK

-----------------------------------------------------------------------------
\* The other parts of a step keep their types.

SignalsOK == pending_signals \in Seq([at : Nat, from : Nat, signal : SignalType])

MoneyOK == balance \in Int /\ fees_paid \in Int /\ realized_pnl_total \in Int /\ day_realized_pnl \in Int

TradesOK == orders_history \in Seq(FillType) /\ last_trades \in Seq(FillType) /\ reported \in Seq(FillType)

LEMMA QueuedType ==
  ASSUME NEW idx \in Nat, NEW signals \in Seq(Signals)
  PROVE  /\ Queued(idx, signals) \in Seq([at : Nat, from : Nat, signal : SignalType])
         /\ Len(Queued(idx, signals)) = Len(signals)
         /\ \A i \in 1 .. Len(signals) :
              Queued(idx, signals)[i] = [at |-> idx + Delay, from |-> idx, signal |-> signals[i]]
<1>1. DOMAIN signals = 1 .. Len(signals) /\ Len(signals) \in Nat
  OBVIOUS
<1>2. \A i \in 1 .. Len(signals) : signals[i] \in SignalType
  BY SignalsAssumption
<1>3. ExecuteAt(idx) \in Nat /\ ExecuteAt(idx) = idx + Delay
  BY ConfigAssumption DEF ExecuteAt
<1>4. Queued(idx, signals)
        = [i \in 1 .. Len(signals) |-> [at |-> idx + Delay, from |-> idx, signal |-> signals[i]]]
  BY <1>1, <1>3 DEF Queued
<1>5. \A i \in 1 .. Len(signals) :
        [at |-> idx + Delay, from |-> idx, signal |-> signals[i]]
          \in [at : Nat, from : Nat, signal : SignalType]
  BY <1>2, <1>3
<1>6. Queued(idx, signals) \in [1 .. Len(signals) -> [at : Nat, from : Nat, signal : SignalType]]
  BY <1>4, <1>5
<1>7. Queued(idx, signals) \in Seq([at : Nat, from : Nat, signal : SignalType])
  <2> DEFINE Entry == [at : Nat, from : Nat, signal : SignalType]
  <2>1. Queued(idx, signals) \in [1 .. Len(signals) -> Entry]
    BY <1>6
  <2> HIDE DEF Entry
  <2>2. Queued(idx, signals) \in Seq(Entry)
    BY <1>1, <2>1, SeqDef
  <2> QED
    BY <2>2 DEF Entry
<1>8. Len(Queued(idx, signals)) = Len(signals)
  BY <1>1, <1>6, LenProperties, <1>7
<1> QED
  BY <1>4, <1>7, <1>8

LEMMA BatchType ==
  ASSUME NEW batch \in Batches
  PROVE  batch \in Seq(Signals)
<1>1. PICK n \in 0 .. MaxPerBar : batch \in [1 .. n -> Signals]
  BY DEF Batches
<1> QED
  BY <1>1, SeqDef, ConfigAssumption

\* A due signal leaves a queue of signals.
LEMMA ExecuteTypes ==
  ASSUME SignalsOK, NEW actions, Execute(actions)
  PROVE  /\ Current \in SignalType
         /\ Current.action \in actions
         /\ pending_signals' \in Seq([at : Nat, from : Nat, signal : SignalType])
         /\ pc = "executing"
<1>1. pending_signals # << >> /\ pending_signals' = Tail(pending_signals)
  BY DEF Execute, Due
<1>2. Head(pending_signals) \in [at : Nat, from : Nat, signal : SignalType]
  BY <1>1, HeadTailProperties DEF SignalsOK
<1>3. Tail(pending_signals) \in Seq([at : Nat, from : Nat, signal : SignalType])
  BY <1>1, HeadTailProperties DEF SignalsOK
<1> QED
  BY <1>1, <1>2, <1>3 DEF Current, Execute

LEMMA SettleTypes ==
  ASSUME TypeOK, pc # "idle", NEW signal \in SignalType, NEW realized \in Int,
         Settle(signal, realized)
  PROVE  MoneyOK'
<1>1. FillFee(signal) \in Int
  BY FillTypes
<1>2. Unit * realized \in Int
  BY MoneyAssumption
<1>3. MoneyOK
  BY DEF MoneyOK, TypeOK
<1> QED
  BY <1>1, <1>2, <1>3 DEF Settle, MoneyOK

LEMMA FillIsFill ==
  ASSUME TypeOK, pc # "idle", NEW id \in Nat, NEW signal \in SignalType, NEW realized \in Int
  PROVE  Fill(id, signal, realized) \in FillType
<1>1. FillFee(signal) \in Int /\ FillQuantity(signal) \in Int
  BY FillTypes
<1> QED
  BY <1>1 DEF Fill, FillType

LEMMA RecordTypes ==
  ASSUME TradesOK, NEW fill \in FillType, RecordFill(fill)
  PROVE  TradesOK'
  BY AppendProperties DEF TradesOK, RecordFill

-----------------------------------------------------------------------------
\* The parts of the invariant that one action can disturb at a time.

PlaceOK ==
  /\ pc \in {"idle", "executing", "closing", "marking"}
  /\ bars \in Seq(Bar)
  /\ current_idx \in 0 .. Len(bars)
  /\ pc # "idle" => current_idx > 0

DaysOK == daily_pnl \in Seq([day : Int, pnl : Int]) /\ last_day \in Int

ClosingOK ==
  /\ closing \in [fill : FillType, todo : SUBSET Nat]
  /\ closing.todo \subseteq DOMAIN positions
  /\ pc # "closing" => closing.todo = {}

LEMMA InvParts ==
  Inv <=> /\ PlaceOK /\ BookTypeOK /\ MoneyOK /\ margin_used \in Int /\ TradesOK
          /\ SignalsOK /\ DaysOK /\ ClosingOK
  BY DEF Inv, TypeOK, PlaceOK, BookTypeOK, MoneyOK, TradesOK, SignalsOK, DaysOK, ClosingOK

LEMMA InvPartsNext ==
  ASSUME PlaceOK', BookTypeOK', MoneyOK', margin_used' \in Int, TradesOK', SignalsOK',
         DaysOK', ClosingOK'
  PROVE  Inv'
  BY DEF Inv, TypeOK, PlaceOK, BookTypeOK, MoneyOK, TradesOK, SignalsOK, DaysOK, ClosingOK

\* What the actions inside a step that execute a signal leave alone.
LEMMA ExecuteFrame ==
  ASSUME Inv, NEW actions, Execute(actions)
  PROVE  /\ bars' = bars /\ current_idx' = current_idx
         /\ DaysOK' /\ SignalsOK'
         /\ Current \in SignalType /\ Current.action \in actions /\ Current.symbol \in Symbols
         /\ pc = "executing" /\ closing.todo = {}
         /\ FillPrice \in Nat /\ FillQuantity(Current) \in Nat /\ FillMargin(Current) \in Int
<1>1. SignalsOK /\ DaysOK /\ TypeOK
  BY InvParts DEF Inv
<1>2. /\ Current \in SignalType /\ Current.action \in actions
      /\ SignalsOK' /\ pc = "executing"
  BY <1>1, ExecuteTypes DEF SignalsOK
<1>3. Current.symbol \in Symbols
  BY <1>2 DEF SignalType
<1>4. closing.todo = {}
  BY <1>2 DEF Inv
<1>5. FillPrice \in Nat /\ FillQuantity(Current) \in Nat /\ FillMargin(Current) \in Int
  BY <1>1, <1>2, BarTypes, FillTypes
<1>6. DaysOK'
  BY <1>1 DEF Execute, dayVars, DaysOK
<1> QED
  BY <1>2, <1>3, <1>4, <1>5, <1>6 DEF Execute

LEMMA OpenInv ==
  ASSUME Inv, ExecuteOpen
  PROVE  Inv'
<1> DEFINE direction == IF Current.action = "OpenLong" THEN "Long" ELSE "Short"
<1>1. Execute({"OpenLong", "OpenShort"})
  BY DEF ExecuteOpen
<1>2. /\ PlaceOK /\ BookTypeOK /\ MoneyOK /\ margin_used \in Int /\ TradesOK /\ ClosingOK
      /\ TypeOK
  BY InvParts DEF Inv
<1>3. /\ bars' = bars /\ current_idx' = current_idx /\ DaysOK' /\ SignalsOK'
      /\ Current \in SignalType /\ Current.symbol \in Symbols
      /\ pc = "executing" /\ closing.todo = {}
      /\ FillPrice \in Nat /\ FillQuantity(Current) \in Nat /\ FillMargin(Current) \in Int
  BY <1>1, ExecuteFrame
<1>4. PlaceOK'
  BY <1>2, <1>3 DEF PlaceOK, ExecuteOpen
<1>5. BookTypeOK' /\ DOMAIN positions \subseteq DOMAIN positions'
  <2>1. direction \in {"Long", "Short"}
    OBVIOUS
  <2>2. OpenPosition(Current.symbol, direction, FillPrice, FillQuantity(Current))
    BY DEF ExecuteOpen
  <2> HIDE DEF direction
  <2> QED
    BY <1>2, <1>3, <2>1, <2>2, OpenTypes
<1>6. MoneyOK'
  BY <1>2, <1>3, SettleTypes DEF ExecuteOpen
<1>7. margin_used' \in Int
  BY <1>2, <1>3 DEF ExecuteOpen
<1>8. TradesOK'
  <2>1. created + 1 \in Nat
    BY <1>2 DEF BookTypeOK
  <2>2. Fill(created + 1, Current, 0) \in FillType
    BY <1>2, <1>3, <2>1, FillIsFill
  <2> QED
    BY <1>2, <2>2, RecordTypes DEF ExecuteOpen
<1>9. ClosingOK'
  BY <1>2, <1>3, <1>5 DEF ClosingOK, ExecuteOpen
<1> QED
  BY <1>3, <1>4, <1>5, <1>6, <1>7, <1>8, <1>9, InvPartsNext

LEMMA ReduceInv ==
  ASSUME Inv, ExecuteReduce
  PROVE  Inv'
<1>1. Execute({"ReduceLong", "ReduceShort"})
  BY DEF ExecuteReduce
<1>2. /\ PlaceOK /\ BookTypeOK /\ MoneyOK /\ margin_used \in Int /\ TradesOK /\ ClosingOK
      /\ TypeOK
  BY InvParts DEF Inv
<1>3. /\ bars' = bars /\ current_idx' = current_idx /\ DaysOK' /\ SignalsOK'
      /\ Current \in SignalType /\ Current.symbol \in Symbols
      /\ pc = "executing" /\ closing.todo = {}
      /\ FillPrice \in Nat /\ FillQuantity(Current) \in Nat /\ FillMargin(Current) \in Int
  BY <1>1, ExecuteFrame
<1>4. PlaceOK'
  BY <1>2, <1>3 DEF PlaceOK, ExecuteReduce
<1>5. PICK id \in BySymbol(Current.symbol) :
        LET realized == Profit(positions[id], FillPrice, FillQuantity(Current))
        IN  /\ ReducePosition(id, FillPrice, FillQuantity(Current))
            /\ Settle(Current, realized)
            /\ RecordFill(Fill(id, Current, Unit * realized))
  BY DEF ExecuteReduce
<1> DEFINE realized == Profit(positions[id], FillPrice, FillQuantity(Current))
<1>6. id \in DOMAIN positions /\ id \in Nat /\ positions[id] \in PositionType
  BY <1>2 DEF BySymbol, BookTypeOK
<1>7. realized \in Int /\ Unit * realized \in Int
  BY <1>3, <1>6, ProfitType, MoneyAssumption
<1>8. BookTypeOK'
  BY <1>2, <1>3, <1>5, <1>6, ReduceTypes
<1>9. MoneyOK' /\ TradesOK'
  <2>1. Settle(Current, realized) /\ RecordFill(Fill(id, Current, Unit * realized))
    BY <1>5
  <2> HIDE DEF realized
  <2>2. Fill(id, Current, Unit * realized) \in FillType
    BY <1>2, <1>3, <1>6, <1>7, FillIsFill
  <2> QED
    BY <1>2, <1>3, <1>7, <2>1, <2>2, SettleTypes, RecordTypes
<1>10. margin_used' \in Int
  BY <1>2, <1>3 DEF ExecuteReduce
<1>11. ClosingOK'
  BY <1>2, <1>3 DEF ClosingOK, ExecuteReduce
<1> QED
  BY <1>3, <1>4, <1>8, <1>9, <1>10, <1>11, InvPartsNext

LEMMA CloseInv ==
  ASSUME Inv, ExecuteClose
  PROVE  Inv'
<1>1. Execute({"CloseLong", "CloseShort"})
  BY DEF ExecuteClose
<1>2. /\ PlaceOK /\ BookTypeOK /\ MoneyOK /\ margin_used \in Int /\ TradesOK /\ ClosingOK
      /\ TypeOK
  BY InvParts DEF Inv
<1>3. /\ bars' = bars /\ current_idx' = current_idx /\ DaysOK' /\ SignalsOK'
      /\ Current \in SignalType /\ Current.symbol \in Symbols
      /\ pc = "executing" /\ closing.todo = {}
      /\ FillPrice \in Nat /\ FillQuantity(Current) \in Nat /\ FillMargin(Current) \in Int
  BY <1>1, ExecuteFrame
<1>4. PlaceOK'
  BY <1>2, <1>3 DEF PlaceOK, ExecuteClose
<1>5. PICK id \in BySymbol(Current.symbol) :
        LET realized == Profit(positions[id], FillPrice, positions[id].size)
        IN  /\ ClosePosition(id, FillPrice)
            /\ Settle(Current, realized)
            /\ RecordFill(Fill(id, Current, Unit * realized))
  BY DEF ExecuteClose
<1> DEFINE realized == Profit(positions[id], FillPrice, positions[id].size)
<1>6. id \in DOMAIN positions /\ id \in Nat /\ positions[id] \in PositionType
  BY <1>2 DEF BySymbol, BookTypeOK
<1>7. realized \in Int /\ Unit * realized \in Int
  BY <1>3, <1>6, ProfitType, MoneyAssumption DEF PositionType
<1>8. BookTypeOK'
  BY <1>2, <1>3, <1>5, <1>6, CloseTypes
<1>9. MoneyOK' /\ TradesOK'
  <2>1. Settle(Current, realized) /\ RecordFill(Fill(id, Current, Unit * realized))
    BY <1>5
  <2> HIDE DEF realized
  <2>2. Fill(id, Current, Unit * realized) \in FillType
    BY <1>2, <1>3, <1>6, <1>7, FillIsFill
  <2> QED
    BY <1>2, <1>3, <1>7, <2>1, <2>2, SettleTypes, RecordTypes
<1>10. margin_used' \in Int
  BY <1>2, <1>3 DEF ExecuteClose
<1>11. ClosingOK'
  BY <1>2, <1>3 DEF ClosingOK, ExecuteClose
<1> QED
  BY <1>3, <1>4, <1>8, <1>9, <1>10, <1>11, InvPartsNext

LEMMA FeeOnlyInv ==
  ASSUME Inv, ExecuteFeeOnly
  PROVE  Inv'
<1>1. Execute({"ReduceLong", "ReduceShort", "CloseLong", "CloseShort"})
  BY DEF ExecuteFeeOnly
<1>2. /\ PlaceOK /\ BookTypeOK /\ MoneyOK /\ margin_used \in Int /\ TradesOK /\ ClosingOK
      /\ TypeOK
  BY InvParts DEF Inv
<1>3. /\ bars' = bars /\ current_idx' = current_idx /\ DaysOK' /\ SignalsOK'
      /\ Current \in SignalType /\ Current.symbol \in Symbols
      /\ pc = "executing" /\ closing.todo = {}
      /\ FillPrice \in Nat /\ FillQuantity(Current) \in Nat /\ FillMargin(Current) \in Int
  BY <1>1, ExecuteFrame
<1>4. PlaceOK'
  BY <1>2, <1>3 DEF PlaceOK, ExecuteFeeOnly
<1>5. MoneyOK'
  BY <1>2, <1>3, SettleTypes DEF ExecuteFeeOnly
<1>6. BookTypeOK' /\ margin_used' \in Int /\ TradesOK' /\ ClosingOK'
  BY <1>2, <1>3 DEF ExecuteFeeOnly, bookVars, tradeVars, BookTypeOK, TradesOK, ClosingOK
<1> QED
  BY <1>3, <1>4, <1>5, <1>6, InvPartsNext

LEMMA CloseAllInv ==
  ASSUME Inv, ExecuteCloseAll
  PROVE  Inv'
<1>1. Execute({"CloseAll"})
  BY DEF ExecuteCloseAll
<1>2. /\ PlaceOK /\ BookTypeOK /\ MoneyOK /\ margin_used \in Int /\ TradesOK /\ ClosingOK
      /\ TypeOK
  BY InvParts DEF Inv
<1>3. /\ bars' = bars /\ current_idx' = current_idx /\ DaysOK' /\ SignalsOK'
      /\ Current \in SignalType /\ Current.symbol \in Symbols
      /\ pc = "executing" /\ closing.todo = {}
      /\ FillPrice \in Nat /\ FillQuantity(Current) \in Nat /\ FillMargin(Current) \in Int
  BY <1>1, ExecuteFrame
<1>4. PlaceOK'
  BY <1>2, <1>3 DEF PlaceOK, ExecuteCloseAll
<1>5. MoneyOK'
  BY <1>2, <1>3, SettleTypes DEF ExecuteCloseAll
<1>6. BookTypeOK' /\ margin_used' \in Int /\ TradesOK' /\ positions' = positions
  BY <1>2 DEF ExecuteCloseAll, bookVars, tradeVars, BookTypeOK, TradesOK
<1>7. ClosingOK'
  <2>1. Fill(NoPosition, Current, 0) \in FillType
    <3>1. NoPosition \in Nat /\ 0 \in Int
      BY DEF NoPosition
    <3> QED
      BY <1>2, <1>3, <3>1, FillIsFill
  <2>2. BySymbol(Current.symbol) \subseteq DOMAIN positions
    BY DEF BySymbol
  <2>3. BySymbol(Current.symbol) \in SUBSET Nat
    BY <1>2, <2>2 DEF BookTypeOK
  <2>4. /\ closing' = [fill |-> Fill(NoPosition, Current, 0), todo |-> BySymbol(Current.symbol)]
        /\ pc' = "closing"
    BY DEF ExecuteCloseAll
  <2> QED
    BY <1>6, <2>1, <2>2, <2>3, <2>4 DEF ClosingOK
<1> QED
  BY <1>3, <1>4, <1>5, <1>6, <1>7, InvPartsNext

LEMMA CloseAllNextInv ==
  ASSUME Inv, CloseAllNext
  PROVE  Inv'
<1>1. /\ PlaceOK /\ BookTypeOK /\ MoneyOK /\ margin_used \in Int /\ TradesOK /\ SignalsOK
      /\ DaysOK /\ ClosingOK /\ TypeOK
  BY InvParts DEF Inv
<1>2. PICK id \in closing.todo :
        CloseNext(id) /\ closing' = [closing EXCEPT !.todo = @ \ {id}]
  BY DEF CloseAllNext
<1>3. id \in DOMAIN positions /\ positions[id] \in PositionType /\ pc = "closing"
  BY <1>1, <1>2 DEF ClosingOK, BookTypeOK, CloseAllNext
<1>4. FillPrice \in Nat
  BY <1>1, <1>3, BarTypes
<1> DEFINE realized == Unit * Profit(positions[id], FillPrice, positions[id].size)
<1>5. realized \in Int
  <2>1. Profit(positions[id], FillPrice, positions[id].size) \in Int
    BY <1>3, <1>4, ProfitType DEF PositionType
  <2> QED
    BY <2>1, MoneyAssumption
<1>6. BookTypeOK' /\ DOMAIN positions \ {id} \subseteq DOMAIN positions'
  BY <1>1, <1>2, <1>3, <1>4, CloseTypes DEF CloseNext
<1>7. MoneyOK'
  <2>1. /\ balance' = balance + realized
        /\ realized_pnl_total' = realized_pnl_total + realized
        /\ day_realized_pnl' = day_realized_pnl + realized
    BY <1>2 DEF CloseNext
  <2> HIDE DEF realized
  <2> QED
    BY <1>1, <1>5, <2>1 DEF MoneyOK, CloseAllNext
<1>8. ClosingOK'
  BY <1>1, <1>2, <1>3, <1>6 DEF ClosingOK, CloseAllNext
<1>9. PlaceOK' /\ margin_used' \in Int /\ TradesOK' /\ SignalsOK' /\ DaysOK'
  BY <1>1 DEF CloseAllNext, tradeVars, dayVars, PlaceOK, TradesOK, SignalsOK, DaysOK
<1> QED
  BY <1>6, <1>7, <1>8, <1>9, InvPartsNext

LEMMA NoClosingType == NoClosing \in [fill : FillType, todo : SUBSET Nat] /\ NoClosing.todo = {}
  BY DEF NoClosing, FillType, NoPosition

LEMMA CloseAllDoneInv ==
  ASSUME Inv, CloseAllDone
  PROVE  Inv'
<1>1. /\ PlaceOK /\ BookTypeOK /\ MoneyOK /\ TradesOK /\ SignalsOK /\ DaysOK /\ ClosingOK
  BY InvParts
<1>2. TradesOK'
  BY <1>1, RecordTypes DEF CloseAllDone, ClosingOK
<1>3. ClosingOK'
  BY <1>1, NoClosingType DEF CloseAllDone, ClosingOK
<1>4. BookTypeOK' /\ PlaceOK' /\ SignalsOK' /\ DaysOK' /\ MoneyOK' /\ margin_used' \in Int
  BY <1>1 DEF CloseAllDone, bookVars, dayVars, BookTypeOK, PlaceOK, SignalsOK, DaysOK, MoneyOK
<1> QED
  BY <1>2, <1>3, <1>4, InvPartsNext

LEMMA ExecutedAllInv ==
  ASSUME Inv, ExecutedAll
  PROVE  Inv'
<1>1. /\ PlaceOK /\ BookTypeOK /\ MoneyOK /\ margin_used \in Int /\ TradesOK /\ SignalsOK
      /\ DaysOK /\ ClosingOK
  BY InvParts
<1>2. BookTypeOK' /\ TradesOK' /\ SignalsOK' /\ DaysOK'
  BY <1>1 DEF ExecutedAll, bookVars, tradeVars, dayVars, BookTypeOK, TradesOK, SignalsOK, DaysOK
<1>3. PlaceOK' /\ MoneyOK' /\ margin_used' \in Int /\ ClosingOK'
  BY <1>1 DEF ExecutedAll, accountVars, bookVars, PlaceOK, MoneyOK, ClosingOK
<1> QED
  BY <1>2, <1>3, InvPartsNext

LEMMA FinishInv ==
  ASSUME Inv, FinishStep
  PROVE  Inv'
<1>1. /\ PlaceOK /\ BookTypeOK /\ MoneyOK /\ margin_used \in Int /\ TradesOK /\ SignalsOK
      /\ DaysOK /\ ClosingOK /\ TypeOK
  BY InvParts DEF Inv
<1>2. pc = "marking" /\ pc' = "idle" /\ bars' = bars /\ current_idx' = current_idx
  BY DEF FinishStep
<1>3. CurrentBar \in Bar /\ CurrentBar.close \in Nat /\ CurrentBar.timestamp \in Nat
  BY <1>1, <1>2, BarTypes DEF Bar
<1>4. BookTypeOK' /\ DOMAIN positions' = DOMAIN positions
  BY <1>1, <1>3, MarkTypes DEF FinishStep
<1>5. TradesOK'
  BY <1>1, ConcatProperties, EmptySeq DEF FinishStep, Snapshot, TradesOK
<1>6. DaysOK' /\ day_realized_pnl' \in Int
  <2> DEFINE day == Day(CurrentBar.timestamp)
  <2>1. day \in Int
    BY <1>3, ConfigAssumption DEF Day
  <2>2. DailyPnl(day)
    BY DEF FinishStep
  <2> HIDE DEF day
  <2>3. [day |-> last_day, pnl |-> day_realized_pnl] \in [day : Int, pnl : Int]
    BY <1>1 DEF DaysOK, MoneyOK
  <2>4. Append(daily_pnl, [day |-> last_day, pnl |-> day_realized_pnl]) \in Seq([day : Int, pnl : Int])
    BY <1>1, <2>3, AppendProperties DEF DaysOK
  <2>5. last_day' \in Int
    BY <2>1, <2>2 DEF DailyPnl
  <2>6. \/ /\ daily_pnl' = Append(daily_pnl, [day |-> last_day, pnl |-> day_realized_pnl])
           /\ day_realized_pnl' = 0
        \/ daily_pnl' = daily_pnl /\ day_realized_pnl' = day_realized_pnl
    BY <2>2 DEF DailyPnl
  <2>7. daily_pnl' \in Seq([day : Int, pnl : Int])
    BY <1>1, <2>4, <2>6 DEF DaysOK
  <2>8. day_realized_pnl' \in Int
    BY <1>1, <2>6 DEF MoneyOK
  <2> QED
    BY <2>5, <2>7, <2>8 DEF DaysOK
<1>7. MoneyOK' /\ margin_used' \in Int
  BY <1>1, <1>6 DEF FinishStep, MoneyOK, AtLeastZero
<1>8. PlaceOK' /\ SignalsOK' /\ ClosingOK'
  BY <1>1, <1>2, <1>4 DEF FinishStep, PlaceOK, SignalsOK, ClosingOK
<1> QED
  BY <1>4, <1>5, <1>6, <1>7, <1>8, InvPartsNext

LEMMA BeginInv ==
  ASSUME Inv, BeginStep
  PROVE  Inv'
<1>1. /\ PlaceOK /\ BookTypeOK /\ MoneyOK /\ margin_used \in Int /\ TradesOK /\ SignalsOK
      /\ DaysOK /\ ClosingOK
  BY InvParts
<1>2. bars \in Seq(Bar) /\ Len(bars) \in Nat
  BY <1>1, BarsAssumption, LenProperties DEF PlaceOK
<1>3. PlaceOK' /\ current_idx + 1 \in Nat
  BY <1>1, <1>2 DEF BeginStep, MoreBars, PlaceOK
<1>4. SignalsOK'
  <2>1. PICK batch \in Batches :
          pending_signals' = pending_signals \o Queued(current_idx + 1, batch)
    BY DEF BeginStep
  <2>2. Queued(current_idx + 1, batch) \in Seq([at : Nat, from : Nat, signal : SignalType])
    BY <1>3, <2>1, BatchType, QueuedType
  <2> QED
    BY <1>1, <2>1, <2>2, ConcatProperties DEF SignalsOK
<1>5. BookTypeOK' /\ MoneyOK' /\ margin_used' \in Int /\ TradesOK' /\ DaysOK' /\ ClosingOK'
  BY <1>1 DEF BeginStep, bookVars, accountVars, tradeVars, dayVars, BookTypeOK, MoneyOK,
              TradesOK, DaysOK, ClosingOK
<1> QED
  BY <1>3, <1>4, <1>5, InvPartsNext

LEMMA SubmitInv ==
  ASSUME Inv, NEW signal \in Signals, SubmitSignal(signal)
  PROVE  Inv'
<1>1. /\ PlaceOK /\ BookTypeOK /\ MoneyOK /\ margin_used \in Int /\ TradesOK /\ SignalsOK
      /\ DaysOK /\ ClosingOK
  BY InvParts
<1>2. current_idx \in Nat
  BY <1>1 DEF PlaceOK
<1>3. SignalsOK'
  <2>1. << signal >> \in Seq(Signals)
    OBVIOUS
  <2>2. Queued(current_idx, << signal >>) \in Seq([at : Nat, from : Nat, signal : SignalType])
    BY <1>2, <2>1, QueuedType
  <2>3. pending_signals' = pending_signals \o Queued(current_idx, << signal >>)
    BY DEF SubmitSignal
  <2> QED
    BY <1>1, <2>2, <2>3, ConcatProperties DEF SignalsOK
<1>4. PlaceOK' /\ BookTypeOK' /\ MoneyOK' /\ margin_used' \in Int /\ TradesOK'
  BY <1>1 DEF SubmitSignal, bookVars, accountVars, tradeVars, PlaceOK, BookTypeOK, MoneyOK,
              TradesOK
<1>5. DaysOK' /\ ClosingOK'
  BY <1>1 DEF SubmitSignal, bookVars, dayVars, DaysOK, ClosingOK
<1> QED
  BY <1>3, <1>4, <1>5, InvPartsNext

\* A new engine, and one that has been reset.
LEMMA NewInv ==
  ASSUME Init
  PROVE  Inv
<1>1. PlaceOK
  <2>1. bars \in Seq(Bar) /\ Len(bars) \in Nat
    BY BarsAssumption, LenProperties DEF Init
  <2> QED
    BY <2>1 DEF Init, PlaceOK
<1>2. DOMAIN positions = {} /\ positions \in [DOMAIN positions -> PositionType]
  BY DEF Init
<1>3. BookTypeOK
  BY <1>2, EmptySeq DEF Init, BookTypeOK
<1>4. MoneyOK /\ margin_used \in Int
  BY MoneyAssumption DEF Init, MoneyOK
<1>5. TradesOK /\ SignalsOK /\ DaysOK
  BY EmptySeq DEF Init, TradesOK, SignalsOK, DaysOK
<1>6. ClosingOK
  BY <1>2, NoClosingType DEF Init, ClosingOK
<1> QED
  BY <1>1, <1>3, <1>4, <1>5, <1>6, InvParts

LEMMA ResetInv ==
  ASSUME Inv, Reset
  PROVE  Inv'
<1>1. bars \in Seq(Bar) /\ Len(bars) \in Nat
  BY InvParts, LenProperties DEF PlaceOK
<1>2. PlaceOK'
  BY <1>1 DEF Reset, PlaceOK
<1>3. DOMAIN positions' = {} /\ positions' \in [DOMAIN positions' -> PositionType]
  BY DEF Reset
<1>4. BookTypeOK'
  BY <1>3, EmptySeq DEF Reset, BookTypeOK
<1>5. MoneyOK' /\ margin_used' \in Int
  BY MoneyAssumption DEF Reset, MoneyOK
<1>6. TradesOK' /\ SignalsOK' /\ DaysOK'
  BY EmptySeq DEF Reset, TradesOK, SignalsOK, DaysOK
<1>7. ClosingOK'
  BY <1>3, NoClosingType DEF Reset, ClosingOK
<1> QED
  BY <1>2, <1>4, <1>5, <1>6, <1>7, InvPartsNext

LEMMA InvStep == Inv /\ [Next]_vars => Inv'
<1> SUFFICES ASSUME Inv, [Next]_vars PROVE Inv'
  OBVIOUS
<1>1. CASE BeginStep
  BY <1>1, BeginInv
<1>2. CASE InStep
  BY <1>2, OpenInv, ReduceInv, CloseInv, FeeOnlyInv, CloseAllInv, CloseAllNextInv,
     CloseAllDoneInv, ExecutedAllInv, FinishInv DEF InStep
<1>3. CASE \E signal \in Signals : SubmitSignal(signal)
  BY <1>3, SubmitInv
<1>4. CASE Reset
  BY <1>4, ResetInv
<1>5. CASE UNCHANGED vars
  BY <1>5 DEF vars, bookVars, accountVars, tradeVars, curveVars, dayVars, Inv, TypeOK
<1> QED
  BY <1>1, <1>2, <1>3, <1>4, <1>5 DEF Next

-----------------------------------------------------------------------------
\* The theorems.

THEOREM Invariance == Spec => []Inv
  BY NewInv, InvStep, PTL DEF Spec

\* The fields of the engine keep their types and the index stays within the bars,
\* whatever the bars, the signals and the configuration.
THEOREM Typing == Spec => []TypeOK
<1>1. Inv => TypeOK
  BY DEF Inv
<1> QED
  BY <1>1, Invariance, PTL

-----------------------------------------------------------------------------
\* The account.

LEMMA SettleBalance ==
  ASSUME TypeOK, pc # "idle", BalanceAccountedFor,
         NEW signal \in SignalType, NEW realized \in Int, Settle(signal, realized)
  PROVE  BalanceAccountedFor'
<1> DEFINE gain == Unit * realized
           fee  == FillFee(signal)
<1>1. gain \in Int /\ fee \in Int /\ InitialBalance \in Int
  BY FillTypes, MoneyAssumption
<1>2. balance \in Int /\ fees_paid \in Int /\ realized_pnl_total \in Int
  BY DEF TypeOK
<1>3. /\ balance' = balance - fee + gain
      /\ fees_paid' = fees_paid + fee
      /\ realized_pnl_total' = realized_pnl_total + gain
  BY DEF Settle
<1> HIDE DEF gain, fee
<1> QED
  BY <1>1, <1>2, <1>3 DEF BalanceAccountedFor

\* The signal that an execution settles, and what it may realize.
LEMMA LeaveBalance ==
  ASSUME Inv, BalanceAccountedFor, ExecuteReduce \/ ExecuteClose
  PROVE  BalanceAccountedFor'
<1>1. TypeOK /\ BookTypeOK
  BY InvParts DEF Inv
<1>2. PICK actions : Execute(actions)
  BY DEF ExecuteReduce, ExecuteClose
<1>3. Current \in SignalType /\ pc = "executing" /\ FillPrice \in Nat /\ FillQuantity(Current) \in Nat
  BY <1>2, ExecuteFrame
<1>4. PICK id \in BySymbol(Current.symbol) :
        \/ Settle(Current, Profit(positions[id], FillPrice, FillQuantity(Current)))
        \/ Settle(Current, Profit(positions[id], FillPrice, positions[id].size))
  BY DEF ExecuteReduce, ExecuteClose
<1>5. positions[id] \in PositionType /\ positions[id].size \in Nat
  BY <1>1, <1>4 DEF BySymbol, BookTypeOK, PositionType
<1>6. /\ Profit(positions[id], FillPrice, FillQuantity(Current)) \in Int
      /\ Profit(positions[id], FillPrice, positions[id].size) \in Int
  BY <1>3, <1>5, ProfitType
<1> QED
  BY <1>1, <1>3, <1>4, <1>6, SettleBalance

LEMMA NoGainBalance ==
  ASSUME Inv, BalanceAccountedFor, ExecuteOpen \/ ExecuteFeeOnly \/ ExecuteCloseAll
  PROVE  BalanceAccountedFor'
<1>1. PICK actions : Execute(actions)
  BY DEF ExecuteOpen, ExecuteFeeOnly, ExecuteCloseAll
<1>2. Current \in SignalType /\ pc = "executing" /\ TypeOK
  BY <1>1, ExecuteFrame DEF Inv
<1>3. Settle(Current, 0)
  BY DEF ExecuteOpen, ExecuteFeeOnly, ExecuteCloseAll
<1> QED
  BY <1>2, <1>3, SettleBalance

LEMMA CloseNextBalance ==
  ASSUME Inv, BalanceAccountedFor, CloseAllNext
  PROVE  BalanceAccountedFor'
<1>1. PICK id \in closing.todo : CloseNext(id)
  BY DEF CloseAllNext
<1>2. TypeOK /\ BookTypeOK /\ MoneyOK /\ id \in DOMAIN positions /\ pc = "closing"
  BY <1>1, InvParts DEF Inv, ClosingOK, CloseAllNext
<1>3. positions[id] \in PositionType /\ positions[id].size \in Nat /\ FillPrice \in Nat
  BY <1>2, BarTypes DEF BookTypeOK, PositionType
<1> DEFINE gain == Unit * Profit(positions[id], FillPrice, positions[id].size)
<1>4. gain \in Int /\ InitialBalance \in Int
  BY <1>3, ProfitType, MoneyAssumption
<1>5. /\ balance' = balance + gain
      /\ realized_pnl_total' = realized_pnl_total + gain
      /\ fees_paid' = fees_paid
  BY <1>1 DEF CloseNext, CloseAllNext
<1> HIDE DEF gain
<1> QED
  BY <1>2, <1>4, <1>5 DEF BalanceAccountedFor, MoneyOK

LEMMA BalanceStep == Inv /\ BalanceAccountedFor /\ [Next]_vars => BalanceAccountedFor'
<1> SUFFICES ASSUME Inv, BalanceAccountedFor, [Next]_vars PROVE BalanceAccountedFor'
  OBVIOUS
<1>1. CASE InStep
  <2>1. CASE CloseAllDone \/ ExecutedAll \/ FinishStep
    BY <2>1 DEF CloseAllDone, ExecutedAll, FinishStep, accountVars, BalanceAccountedFor
  <2> QED
    BY <1>1, <2>1, LeaveBalance, NoGainBalance, CloseNextBalance DEF InStep
<1>2. CASE BeginStep \/ (\E signal \in Signals : SubmitSignal(signal)) \/ UNCHANGED vars
  BY <1>2 DEF BeginStep, SubmitSignal, vars, accountVars, BalanceAccountedFor
<1>3. CASE Reset
  BY <1>3, MoneyAssumption DEF Reset, BalanceAccountedFor
<1> QED
  BY <1>1, <1>2, <1>3 DEF Next

\* At every moment, in the middle of a step too, the balance is the opening balance
\* plus everything realized minus every fee: execute_signal has four branches that
\* update the three, and a CloseAll updates them once for each position it closes.
THEOREM Accounting == Spec => []BalanceAccountedFor
<1>1. Init => BalanceAccountedFor
  BY MoneyAssumption DEF Init, BalanceAccountedFor
<1> QED
  BY <1>1, Invariance, BalanceStep, PTL DEF Spec

-----------------------------------------------------------------------------
\* The queue of pending signals, and the trades the snapshots report.

Entry == [at : Nat, from : Nat, signal : SignalType]

Ordered(queue) == \A i, j \in DOMAIN queue : i < j => queue[i].at <= queue[j].at

\* Every signal of the queue waits for an index from first to last.
Within(queue, first, last) ==
  \A i \in DOMAIN queue : first <= queue[i].at /\ queue[i].at <= last

\* Every signal of the queue waits for as long as the delay.
Delayed(queue) == \A i \in DOMAIN queue : queue[i].at = queue[i].from + Delay

\* An element of a concatenation is one of the first sequence or one of the second.
LEMMA ConcatElement ==
  ASSUME NEW S, NEW s \in Seq(S), NEW t \in Seq(S), NEW i \in DOMAIN (s \o t)
  PROVE  \/ i \in DOMAIN s /\ (s \o t)[i] = s[i]
         \/ /\ i \notin DOMAIN s /\ i > Len(s)
            /\ i - Len(s) \in DOMAIN t /\ (s \o t)[i] = t[i - Len(s)]
<1>1. /\ s \o t \in Seq(S) /\ Len(s \o t) = Len(s) + Len(t)
      /\ (s \o t)[i] = IF i <= Len(s) THEN s[i] ELSE t[i - Len(s)]
  <2>1. s \o t \in Seq(S) /\ Len(s \o t) = Len(s) + Len(t)
    BY ConcatProperties
  <2>2. i \in 1 .. Len(s) + Len(t)
    BY <2>1, LenProperties
  <2> QED
    BY <2>1, <2>2, ConcatProperties
<1>2. /\ Len(s) \in Nat /\ Len(t) \in Nat
      /\ DOMAIN s = 1 .. Len(s) /\ DOMAIN t = 1 .. Len(t) /\ i \in 1 .. Len(s) + Len(t)
  BY <1>1, LenProperties
<1> QED
  BY <1>1, <1>2

\* Signals queued at an index go behind signals that are due no later.
LEMMA AppendedQueue ==
  ASSUME NEW queue \in Seq(Entry), NEW idx \in Nat, NEW signals \in Seq(Signals),
         NEW first \in Nat, first <= idx + Delay,
         Ordered(queue), Delayed(queue), Within(queue, first, idx + Delay)
  PROVE  LET all == queue \o Queued(idx, signals)
         IN  /\ all \in Seq(Entry)
             /\ Ordered(all) /\ Delayed(all) /\ Within(all, first, idx + Delay)
<1> DEFINE new == Queued(idx, signals)
           all == queue \o new
<1>1. new \in Seq(Entry) /\ DOMAIN new = 1 .. Len(signals)
  <2>1. new \in Seq([at : Nat, from : Nat, signal : SignalType]) /\ Len(new) = Len(signals)
    BY QueuedType
  <2> HIDE DEF new
  <2>2. new \in Seq(Entry)
    BY <2>1 DEF Entry
  <2> QED
    BY <2>1, <2>2, LenProperties
<1>2. \A i \in DOMAIN new : new[i].at = idx + Delay /\ new[i].from = idx
  <2>1. \A i \in 1 .. Len(signals) :
          new[i] = [at |-> idx + Delay, from |-> idx, signal |-> signals[i]]
    BY QueuedType
  <2> QED
    BY <1>1, <2>1
<1> HIDE DEF new
<1>3. all \in Seq(Entry)
  BY <1>1, ConcatProperties
<1>4. ASSUME NEW i \in DOMAIN all
      PROVE  \/ i \in DOMAIN queue /\ all[i] = queue[i]
             \/ /\ i \notin DOMAIN queue /\ i > Len(queue)
                /\ all[i].at = idx + Delay /\ all[i].from = idx
  BY <1>1, <1>2, ConcatElement
<1> HIDE DEF all
<1>5. Delayed(all)
  BY <1>4 DEF Delayed
<1>6. idx + Delay \in Nat
  BY ConfigAssumption
<1>7. Within(all, first, idx + Delay)
  BY <1>4, <1>6 DEF Within
<1>8. Ordered(all)
  <2> SUFFICES ASSUME NEW i \in DOMAIN all, NEW j \in DOMAIN all, i < j
               PROVE  all[i].at <= all[j].at
    BY DEF Ordered
  <2>1. CASE j \in DOMAIN queue
    <3>1. i \in DOMAIN queue
      <4>1. i \in Nat /\ j <= Len(queue) /\ j \in Nat
        BY <1>3, <2>1, LenProperties
      <4> QED
        BY <1>4, <4>1
    <3>2. all[i] = queue[i] /\ all[j] = queue[j]
      BY <1>4, <2>1, <3>1
    <3> QED
      BY <2>1, <3>1, <3>2 DEF Ordered
  <2>2. CASE j \notin DOMAIN queue
    <3>1. all[j].at = idx + Delay
      BY <1>4, <2>2
    <3>2. all[i].at <= idx + Delay
      BY <1>7 DEF Within
    <3> QED
      BY <3>1, <3>2
  <2> QED
    BY <2>1, <2>2
<1> QED
  BY <1>3, <1>5, <1>7, <1>8 DEF all, new

\* What is left when the first signal leaves.
LEMMA TailOfQueue ==
  ASSUME NEW queue \in Seq(Entry), queue # << >>, NEW first \in Int, NEW last \in Int,
         Ordered(queue), Delayed(queue), Within(queue, first, last)
  PROVE  /\ Ordered(Tail(queue)) /\ Delayed(Tail(queue)) /\ Within(Tail(queue), first, last)
         /\ first <= Head(queue).at /\ Head(queue).at <= last
         /\ Head(queue).at = Head(queue).from + Delay
<1>1. /\ Len(queue) \in Nat /\ DOMAIN queue = 1 .. Len(queue) /\ Len(queue) > 0
  BY LenProperties, EmptySeq
<1>2. /\ Tail(queue) \in Seq(Entry) /\ Len(Tail(queue)) = Len(queue) - 1
      /\ \A i \in 1 .. Len(Tail(queue)) : Tail(queue)[i] = queue[i + 1]
  BY HeadTailProperties
<1>3. DOMAIN Tail(queue) = 1 .. Len(queue) - 1
  BY <1>2, LenProperties
<1>4. \A i \in DOMAIN Tail(queue) : i + 1 \in DOMAIN queue /\ Tail(queue)[i] = queue[i + 1]
  BY <1>1, <1>2, <1>3
<1>5. Head(queue) = queue[1] /\ 1 \in DOMAIN queue
  BY <1>1
<1>6. Ordered(Tail(queue))
  BY <1>1, <1>3, <1>4 DEF Ordered
<1> QED
  BY <1>4, <1>5, <1>6 DEF Delayed, Within

-----------------------------------------------------------------------------
\* The queue of the engine.

\* Between two steps every signal waits for a later bar; inside a step none is overdue.
Earliest == IF Delay = 0 THEN 0
            ELSE IF pc \in {"idle", "marking"} THEN current_idx + 1 ELSE current_idx

QueueInv ==
  /\ Ordered(pending_signals)
  /\ Delayed(pending_signals)
  /\ Within(pending_signals, Earliest, current_idx + Delay)

LEMMA QueueFacts ==
  ASSUME Inv
  PROVE  /\ pending_signals \in Seq(Entry) /\ current_idx \in Nat /\ Delay \in Nat
         /\ Earliest \in Nat /\ Earliest <= current_idx + Delay
         /\ \A i \in DOMAIN pending_signals : pending_signals[i].at \in Nat
<1>1. pending_signals \in Seq(Entry)
  BY InvParts DEF SignalsOK, Entry
<1>2. current_idx \in Nat /\ Delay \in Nat
  BY InvParts, ConfigAssumption DEF PlaceOK
<1>3. Earliest \in Nat /\ Earliest <= current_idx + Delay
  BY <1>2 DEF Earliest
<1>4. ASSUME NEW i \in DOMAIN pending_signals
      PROVE  pending_signals[i].at \in Nat
  <2>1. pending_signals[i] \in Entry
    BY <1>1, LenProperties
  <2> QED
    BY <2>1 DEF Entry
<1> QED
  BY <1>1, <1>2, <1>3, <1>4

LEMMA QueueBegin ==
  ASSUME Inv, QueueInv, BeginStep
  PROVE  QueueInv'
<1>1. PICK batch \in Batches :
        pending_signals' = pending_signals \o Queued(current_idx + 1, batch)
  BY DEF BeginStep
<1>2. batch \in Seq(Signals)
  BY BatchType
<1>3. pc = "idle" /\ pc' = "executing" /\ current_idx' = current_idx + 1
  BY DEF BeginStep
<1>4. Earliest' = Earliest
  BY <1>3, QueueFacts DEF Earliest
<1>5. /\ current_idx + 1 \in Nat /\ Earliest <= (current_idx + 1) + Delay
      /\ Within(pending_signals, Earliest, (current_idx + 1) + Delay)
  BY QueueFacts DEF QueueInv, Within
<1>6. /\ Ordered(pending_signals') /\ Delayed(pending_signals')
      /\ Within(pending_signals', Earliest, (current_idx + 1) + Delay)
  BY <1>1, <1>2, <1>5, QueueFacts, AppendedQueue DEF QueueInv
<1> QED
  BY <1>3, <1>4, <1>6 DEF QueueInv, Ordered, Delayed, Within

LEMMA QueueSubmit ==
  ASSUME Inv, QueueInv, NEW signal \in Signals, SubmitSignal(signal)
  PROVE  QueueInv'
<1>1. << signal >> \in Seq(Signals)
  OBVIOUS
<1>2. /\ pending_signals' = pending_signals \o Queued(current_idx, << signal >>)
      /\ pc' = pc /\ current_idx' = current_idx
  BY DEF SubmitSignal
<1>3. /\ Ordered(pending_signals') /\ Delayed(pending_signals')
      /\ Within(pending_signals', Earliest, current_idx + Delay)
  BY <1>1, <1>2, QueueFacts, AppendedQueue DEF QueueInv
<1> QED
  BY <1>2, <1>3 DEF QueueInv, Ordered, Delayed, Within, Earliest

\* A signal that is executed has waited for exactly the delay.
LEMMA QueueExecute ==
  ASSUME Inv, QueueInv, NEW actions, Execute(actions), pc' \in {"executing", "closing"}
  PROVE  /\ QueueInv'
         /\ Delay > 0 => current_idx = Head(pending_signals).from + Delay
<1>1. /\ pending_signals # << >> /\ Head(pending_signals).at <= current_idx
      /\ pending_signals' = Tail(pending_signals) /\ current_idx' = current_idx
      /\ pc = "executing"
  BY DEF Execute, Due
<1>2. /\ Ordered(pending_signals') /\ Delayed(pending_signals')
      /\ Within(pending_signals', Earliest, current_idx + Delay)
      /\ Earliest <= Head(pending_signals).at
      /\ Head(pending_signals).at = Head(pending_signals).from + Delay
  BY <1>1, QueueFacts, TailOfQueue DEF QueueInv
<1>3. Earliest' = Earliest
  BY <1>1 DEF Earliest
<1>4. Delay > 0 => Earliest = current_idx
  BY <1>1, QueueFacts DEF Earliest
<1>5. QueueInv'
  BY <1>1, <1>2, <1>3 DEF QueueInv, Ordered, Delayed, Within
<1>6. Head(pending_signals).at \in Nat
  BY <1>1, QueueFacts, HeadTailProperties DEF Entry
<1> QED
  BY <1>1, <1>2, <1>4, <1>5, <1>6, QueueFacts

\* The loop over the due signals ends when the first one is not due: then none is.
LEMMA QueueExecuted ==
  ASSUME Inv, QueueInv, ExecutedAll
  PROVE  QueueInv'
<1>1. /\ pending_signals' = pending_signals /\ current_idx' = current_idx
      /\ pc = "executing" /\ pc' = "marking" /\ ~Due
  BY DEF ExecutedAll
<1>2. ASSUME NEW i \in DOMAIN pending_signals
      PROVE  current_idx + 1 <= pending_signals[i].at
  <2>1. /\ pending_signals # << >> /\ Head(pending_signals) = pending_signals[1]
        /\ 1 \in DOMAIN pending_signals /\ i \in Nat /\ 1 <= i
    BY QueueFacts, LenProperties
  <2>2. pending_signals[1].at > current_idx
    BY <1>1, <2>1, QueueFacts DEF Due
  <2>3. pending_signals[1].at <= pending_signals[i].at
    BY <2>1, QueueFacts DEF QueueInv, Ordered
  <2> QED
    BY <2>1, <2>2, <2>3, QueueFacts
<1>3. Within(pending_signals, Earliest', current_idx + Delay)
  BY <1>1, <1>2, QueueFacts DEF QueueInv, Within, Earliest
<1> QED
  BY <1>1, <1>3 DEF QueueInv, Ordered, Delayed

\* The steps that do not touch the queue and leave the earliest index as it is.
LEMMA QueueRest ==
  ASSUME Inv, QueueInv, CloseAllNext \/ CloseAllDone \/ FinishStep \/ UNCHANGED vars
  PROVE  QueueInv'
<1>1. pending_signals' = pending_signals /\ current_idx' = current_idx
  BY DEF CloseAllNext, CloseAllDone, FinishStep, vars
<1>2. Earliest' = Earliest
  BY <1>1 DEF CloseAllNext, CloseAllDone, FinishStep, vars, Earliest
<1> QED
  BY <1>1, <1>2 DEF QueueInv, Ordered, Delayed, Within

\* The executions, all of which take the first signal from the queue.
AnyExecution ==
  ExecuteOpen \/ ExecuteReduce \/ ExecuteClose \/ ExecuteFeeOnly \/ ExecuteCloseAll

LEMMA ExecutionTakesHead ==
  ASSUME Inv, AnyExecution
  PROVE  \E actions : Execute(actions) /\ pc' \in {"executing", "closing"}
  BY DEF AnyExecution, ExecuteOpen, ExecuteReduce, ExecuteClose, ExecuteFeeOnly,
         ExecuteCloseAll, Execute

LEMMA EmptyQueue ==
  /\ Ordered(<< >>) /\ Delayed(<< >>)
  /\ \A first, last : Within(<< >>, first, last)
  BY DEF Ordered, Delayed, Within

LEMMA QueueStep == Inv /\ QueueInv /\ [Next]_vars => QueueInv'
<1> SUFFICES ASSUME Inv, QueueInv, [Next]_vars PROVE QueueInv'
  OBVIOUS
<1>1. CASE BeginStep
  BY <1>1, QueueBegin
<1>2. CASE AnyExecution
  BY <1>2, ExecutionTakesHead, QueueExecute
<1>3. CASE CloseAllNext \/ CloseAllDone \/ FinishStep \/ UNCHANGED vars
  BY <1>3, QueueRest
<1>4. CASE ExecutedAll
  BY <1>4, QueueExecuted
<1>5. CASE \E signal \in Signals : SubmitSignal(signal)
  BY <1>5, QueueSubmit
<1>6. CASE Reset
  BY <1>6, EmptyQueue DEF Reset, QueueInv
<1> QED
  BY <1>1, <1>2, <1>3, <1>4, <1>5, <1>6 DEF Next, InStep, AnyExecution

THEOREM QueueInvariance == Spec => []QueueInv
<1>1. Init => QueueInv
  BY EmptyQueue DEF Init, QueueInv
<1> QED
  BY <1>1, Invariance, QueueStep, PTL DEF Spec

\* The queue is ordered by execution index at every moment, so stopping at the first
\* signal that is not due never leaves a due one behind it.
THEOREM QueueIsOrdered == Spec => []QueueOrdered
<1>1. Inv /\ QueueInv => QueueOrdered
  BY QueueFacts DEF QueueInv, QueueOrdered, Ordered, Within, Earliest
<1> QED
  BY <1>1, Invariance, QueueInvariance, PTL

\* Every signal is executed at the bar it was produced at plus the delay, for every
\* positive delay, with signals submitted between two steps too.
THEOREM ExecutionDelay == Spec => ExecutedOnTime
<1>1. Inv /\ QueueInv /\ [Next]_vars
        => [pc = "executing" /\ pending_signals' # pending_signals /\ Delay > 0
              => current_idx = Head(pending_signals).from + Delay]_vars
  <2> SUFFICES ASSUME Inv, QueueInv, Next, pc = "executing", Delay > 0,
                      pending_signals' # pending_signals
               PROVE  current_idx = Head(pending_signals).from + Delay
    OBVIOUS
  <2>1. AnyExecution
    BY DEF Next, InStep, AnyExecution, BeginStep, SubmitSignal, Reset, CloseAllNext,
           CloseAllDone, ExecutedAll, FinishStep
  <2> QED
    BY <2>1, ExecutionTakesHead, QueueExecute
<1> QED
  BY <1>1, Invariance, QueueInvariance, PTL DEF Spec, ExecutedOnTime

-----------------------------------------------------------------------------
\* The trades.

LEMMA FillsInARow ==
  ASSUME NEW a \in Seq(FillType), NEW b \in Seq(FillType), NEW c \in Seq(FillType)
  PROVE  (a \o b) \o c = a \o (b \o c)
BY ConcatAssociative

LEMMA RecordReported ==
  ASSUME Inv, TradesReportedOnce, NEW fill \in FillType, RecordFill(fill)
  PROVE  orders_history' = reported' \o last_trades'
<1>1. orders_history \in Seq(FillType) /\ last_trades \in Seq(FillType) /\ reported \in Seq(FillType)
  BY InvParts DEF TradesOK
<1>2. << fill >> \in Seq(FillType)
  OBVIOUS
<1>3. /\ orders_history' = orders_history \o << fill >>
      /\ last_trades' = last_trades \o << fill >>
      /\ reported' = reported
  BY <1>1, AppendIsConcat DEF RecordFill
<1>4. (reported \o last_trades) \o << fill >> = reported \o (last_trades \o << fill >>)
  BY <1>1, <1>2, FillsInARow
<1> QED
  BY <1>3, <1>4 DEF TradesReportedOnce

\* The actions that record a fill.
LEMMA Recording ==
  ASSUME Inv, ExecuteOpen \/ ExecuteReduce \/ ExecuteClose \/ CloseAllDone
  PROVE  \E fill \in FillType : RecordFill(fill)
<1>1. CASE CloseAllDone
  BY <1>1, InvParts DEF CloseAllDone, ClosingOK
<1>2. CASE ExecuteOpen
  <2>1. Current \in SignalType /\ pc = "executing" /\ TypeOK
    BY <1>2, ExecuteFrame DEF ExecuteOpen, Inv
  <2>2. created + 1 \in Nat /\ 0 \in Int
    BY InvParts DEF BookTypeOK
  <2>3. Fill(created + 1, Current, 0) \in FillType
    BY <2>1, <2>2, FillIsFill
  <2> QED
    BY <1>2, <2>3 DEF ExecuteOpen
<1>3. CASE ExecuteReduce \/ ExecuteClose
  <2>1. PICK actions : Execute(actions)
    BY <1>3 DEF ExecuteReduce, ExecuteClose
  <2>2. /\ Current \in SignalType /\ pc = "executing" /\ TypeOK
        /\ FillPrice \in Nat /\ FillQuantity(Current) \in Nat
    BY <2>1, ExecuteFrame DEF Inv
  <2>3. PICK id \in BySymbol(Current.symbol) :
          \E qty \in {FillQuantity(Current), positions[id].size} :
            RecordFill(Fill(id, Current, Unit * Profit(positions[id], FillPrice, qty)))
    BY <1>3 DEF ExecuteReduce, ExecuteClose
  <2>4. id \in Nat /\ positions[id] \in PositionType /\ positions[id].size \in Nat
    BY <2>3, InvParts DEF BySymbol, BookTypeOK, PositionType
  <2>5. PICK qty \in Nat :
          RecordFill(Fill(id, Current, Unit * Profit(positions[id], FillPrice, qty)))
    BY <2>2, <2>3, <2>4
  <2>6. Unit * Profit(positions[id], FillPrice, qty) \in Int
    BY <2>2, <2>4, ProfitType, MoneyAssumption
  <2> QED
    BY <2>2, <2>4, <2>5, <2>6, FillIsFill
<1> QED
  BY <1>1, <1>2, <1>3

LEMMA ReportedStep == Inv /\ TradesReportedOnce /\ [Next]_vars => TradesReportedOnce'
<1> SUFFICES ASSUME Inv, TradesReportedOnce, [Next]_vars PROVE TradesReportedOnce'
  OBVIOUS
<1>1. CASE ExecuteOpen \/ ExecuteReduce \/ ExecuteClose \/ CloseAllDone
  <2>1. orders_history' = reported' \o last_trades'
    BY <1>1, Recording, RecordReported
  <2>2. pc' = "executing"
    BY <1>1 DEF ExecuteOpen, ExecuteReduce, ExecuteClose, CloseAllDone, Execute
  <2> QED
    BY <2>1, <2>2 DEF TradesReportedOnce
<1>2. CASE FinishStep
  <2>1. /\ reported' = reported \o last_trades /\ last_trades' = << >>
        /\ orders_history' = orders_history
    BY <1>2 DEF FinishStep, Snapshot
  <2>2. reported \o last_trades \in Seq(FillType)
    BY InvParts, ConcatProperties DEF TradesOK
  <2>3. (reported \o last_trades) \o << >> = reported \o last_trades
    BY <2>2, ConcatEmptySeq
  <2> QED
    BY <2>1, <2>3 DEF TradesReportedOnce
<1>3. CASE ExecuteFeeOnly \/ ExecuteCloseAll \/ CloseAllNext \/ ExecutedAll
  BY <1>3 DEF ExecuteFeeOnly, ExecuteCloseAll, CloseAllNext, ExecutedAll, Execute, tradeVars,
              TradesReportedOnce
<1>4. CASE BeginStep \/ (\E signal \in Signals : SubmitSignal(signal)) \/ UNCHANGED vars
  BY <1>4 DEF BeginStep, SubmitSignal, vars, tradeVars, TradesReportedOnce
<1>5. CASE Reset
  <2>1. << >> \o << >> = << >>
    BY EmptySeq, ConcatEmptySeq
  <2> QED
    BY <1>5, <2>1 DEF Reset, TradesReportedOnce
<1> QED
  BY <1>1, <1>2, <1>3, <1>4, <1>5 DEF Next, InStep

\* The recent_trades of the snapshots, one after the other, are the recorded fills:
\* none is reported twice, out of order, or in the snapshot of a later step.
THEOREM Reporting == Spec => []TradesReportedOnce
<1>1. Init => TradesReportedOnce
  <2>1. << >> \o << >> = << >>
    BY EmptySeq, ConcatEmptySeq
  <2> QED
    BY <2>1 DEF Init, TradesReportedOnce
<1> QED
  BY <1>1, Invariance, ReportedStep, PTL DEF Spec

-----------------------------------------------------------------------------
\* A bar whose low and high enclose its close.
Candle(bar) == bar.low <= bar.close /\ bar.close <= bar.high

-----------------------------------------------------------------------------
\* The strategies that look before they open.

\* Those that ask is_long first.
Careful == strategy.kind \in {"rsi_macd", "bollinger_bands"}

\* The queue of a strategy that wishes for one thing a bar: every signal opens or closes a
\* long position of its symbol, they are of different bars, and the first waits for an index
\* from first on.
Wishes(queue, first, last) ==
  /\ \A i \in DOMAIN queue :
       /\ queue[i].signal.symbol = Symbol
       /\ queue[i].signal.action \in {"OpenLong", "CloseLong"}
       /\ queue[i].at = queue[i].from + Delay
       /\ queue[i].from <= last /\ first <= queue[i].at
  /\ \A i, j \in DOMAIN queue : i < j => queue[i].from < queue[j].from

\* The bars whose openings still wait.
OpenFroms(queue) ==
  {queue[i].from : i \in {k \in DOMAIN queue : queue[k].signal.action = "OpenLong"}}

\* What a wish adds to them.
OpensAt(action, idx) == IF action = "OpenLong" THEN {idx} ELSE {}

Widened(all, queue, action, first, idx) ==
  /\ Wishes(all, first, idx)
  /\ OpenFroms(all) = OpenFroms(queue) \cup OpensAt(action, idx)

LEMMA WishIs ==
  ASSUME NEW idx \in Nat, NEW action
  PROVE  Queued(idx, Wish(action)) =
           << [at |-> idx + Delay, from |-> idx,
               signal |-> [action |-> action, symbol |-> Symbol, quantity |-> Quantity,
                           amount |-> 0]] >>
<1>1. PICK wish : wish = [action |-> action, symbol |-> Symbol, quantity |-> Quantity,
                          amount |-> 0]
  OBVIOUS
<1>2. DOMAIN << wish >> = {1} /\ << wish >>[1] = wish
  OBVIOUS
<1>3. Queued(idx, << wish >>) = [i \in {1} |-> [at |-> ExecuteAt(idx), from |-> idx, signal |-> wish]]
  BY <1>2 DEF Queued
<1>4. [i \in {1} |-> [at |-> ExecuteAt(idx), from |-> idx, signal |-> wish]]
        = << [at |-> ExecuteAt(idx), from |-> idx, signal |-> wish] >>
  OBVIOUS
<1>5. QED
  BY <1>1, <1>3, <1>4 DEF Wish, ExecuteAt

\* A queue with one entry more, of the next bar.
OneBehind(all, queue, new, n) ==
  /\ DOMAIN queue = 1 .. n /\ DOMAIN all = 1 .. n + 1
  /\ all[n + 1] = new /\ \A i \in 1 .. n : all[i] = queue[i]
  /\ \A i \in 1 .. n : queue[i].from \in Nat

Wished(new, action, idx) ==
  /\ new.at = idx + Delay /\ new.from = idx
  /\ new.signal.action = action /\ new.signal.symbol = Symbol

LEMMA OneWishBehind ==
  ASSUME NEW queue, NEW first \in Nat, NEW last \in Nat, first <= last + 1 + Delay,
         Wishes(queue, first, last), NEW action \in {"OpenLong", "CloseLong"},
         NEW all, NEW new, NEW n \in Nat, OneBehind(all, queue, new, n), Wished(new, action, last + 1)
  PROVE  Widened(all, queue, action, first, last + 1)
<1>1. /\ new.at = last + 1 + Delay /\ new.from = last + 1
      /\ new.signal.action = action /\ new.signal.symbol = Symbol
  BY DEF Wished
<1>2. DOMAIN queue = 1 .. n
  BY DEF OneBehind
<1>3. DOMAIN all = 1 .. n + 1 /\ all[n + 1] = new /\ \A i \in 1 .. n : all[i] = queue[i]
  BY DEF OneBehind
<1>4. \A i \in 1 .. n : queue[i].from \in Nat
  BY DEF OneBehind
<1>5. Delay \in Nat
  BY ConfigAssumption
<1>6. ASSUME NEW i \in DOMAIN all
      PROVE  /\ all[i].signal.symbol = Symbol
             /\ all[i].signal.action \in {"OpenLong", "CloseLong"}
             /\ all[i].at = all[i].from + Delay
             /\ all[i].from <= last + 1 /\ first <= all[i].at
  <2>1. CASE i = n + 1
    <3>1. all[i] = new
      BY <1>3, <2>1
    <3>2. new.at = new.from + Delay /\ new.from <= last + 1 /\ first <= new.at
      BY <1>1, <1>5
    <3>3. QED
      BY <1>1, <3>1, <3>2
  <2>2. CASE i \in 1 .. n
    <3>1. all[i] = queue[i] /\ i \in DOMAIN queue
      BY <1>2, <1>3, <2>2
    <3>2. queue[i].from <= last + 1
      BY <1>4, <2>2, <3>1 DEF Wishes
    <3>3. QED
      BY <3>1, <3>2 DEF Wishes
  <2>3. QED
    BY <1>3, <2>1, <2>2
<1>7. ASSUME NEW i \in DOMAIN all, NEW j \in DOMAIN all, i < j
      PROVE  all[i].from < all[j].from
  <2>1. i \in 1 .. n /\ i \in DOMAIN queue /\ all[i] = queue[i]
    BY <1>2, <1>3, <1>7
  <2>2. CASE j = n + 1
    <3>1. all[j].from = last + 1
      BY <1>1, <1>3, <2>2
    <3>2. queue[i].from <= last /\ queue[i].from \in Nat
      BY <1>4, <2>1 DEF Wishes
    <3>3. QED
      BY <2>1, <3>1, <3>2
  <2>3. CASE j \in 1 .. n
    <3>1. j \in DOMAIN queue /\ all[j] = queue[j]
      BY <1>2, <1>3, <2>3
    <3>2. queue[i].from < queue[j].from
      BY <1>7, <2>1, <3>1 DEF Wishes
    <3>3. QED
      BY <2>1, <3>1, <3>2
  <2>4. j \in 1 .. n \/ j = n + 1
    <3>1. j \in 1 .. n + 1
      BY <1>3
    <3>2. QED
      BY <3>1
  <2>5. QED
    BY <2>2, <2>3, <2>4, Zenon
<1>8. Wishes(all, first, last + 1)
  BY <1>6, <1>7 DEF Wishes
<1>9. OpenFroms(all) = OpenFroms(queue) \cup OpensAt(action, last + 1)
  <2>1. {k \in DOMAIN all : all[k].signal.action = "OpenLong"}
          = {k \in DOMAIN queue : queue[k].signal.action = "OpenLong"}
              \cup (IF action = "OpenLong" THEN {n + 1} ELSE {})
    <3>1. /\ \A k \in 1 .. n : all[k].signal.action = queue[k].signal.action
          /\ all[n + 1].signal.action = action
      BY <1>1, <1>3
    <3>2. DOMAIN all = DOMAIN queue \cup {n + 1} /\ DOMAIN queue = 1 .. n
      BY <1>2, <1>3
    <3>3. CASE action = "OpenLong"
      BY <3>1, <3>2, <3>3
    <3>4. CASE action # "OpenLong"
      <4>1. ASSUME NEW k PROVE (k \in DOMAIN all /\ all[k].signal.action = "OpenLong")
                                 <=> (k \in DOMAIN queue /\ queue[k].signal.action = "OpenLong")
        BY <3>1, <3>2, <3>4
      <4>2. QED
        BY <3>4, <4>1
    <3>5. QED
      BY <3>3, <3>4
  <2>2. PICK K : K = {k \in DOMAIN queue : queue[k].signal.action = "OpenLong"}
    OBVIOUS
  <2>3. {all[k].from : k \in K} = {queue[k].from : k \in K}
    BY <1>2, <1>3, <2>2
  <2>4. all[n + 1].from = last + 1
    BY <1>1, <1>3
  <2>5. PICK H : H = {k \in DOMAIN all : all[k].signal.action = "OpenLong"}
    OBVIOUS
  <2>6. OpenFroms(all) = {all[k].from : k \in H} /\ OpenFroms(queue) = {queue[k].from : k \in K}
    BY <2>2, <2>5 DEF OpenFroms
  <2>7. CASE action = "OpenLong"
    <3>1. H = K \cup {n + 1}
      BY <2>1, <2>2, <2>5, <2>7
    <3>2. {all[k].from : k \in H} = {all[k].from : k \in K} \cup {all[n + 1].from}
      BY <3>1
    <3>3. OpensAt(action, last + 1) = {last + 1}
      BY <2>7 DEF OpensAt
    <3>4. QED
      BY <2>3, <2>4, <2>6, <3>2, <3>3
  <2>8. CASE action # "OpenLong"
    <3>1. H = K
      BY <2>1, <2>2, <2>5, <2>8
    <3>2. OpensAt(action, last + 1) = {}
      BY <2>8 DEF OpensAt
    <3>3. QED
      BY <2>3, <2>6, <3>1, <3>2
  <2>9. QED
    BY <2>7, <2>8
<1>10. QED
  BY <1>8, <1>9, Zenon DEF Widened

\* A wish of the next bar goes behind those of earlier bars.
LEMMA WishQueued ==
  ASSUME NEW queue \in Seq(Entry), NEW first \in Nat, NEW last \in Nat, first <= last + 1 + Delay,
         Wishes(queue, first, last), NEW action \in {"OpenLong", "CloseLong"},
         NEW all, all = queue \o Queued(last + 1, Wish(action)), all \in Seq(Entry)
  PROVE  Widened(all, queue, action, first, last + 1)
<1>1. PICK new : /\ new.at = last + 1 + Delay /\ new.from = last + 1
                 /\ new.signal.action = action /\ new.signal.symbol = Symbol
                 /\ all = queue \o << new >>
  <2>1. PICK wait : wait = [at |-> last + 1 + Delay, from |-> last + 1,
                            signal |-> [action |-> action, symbol |-> Symbol,
                                        quantity |-> Quantity, amount |-> 0]]
    OBVIOUS
  <2>2. last + 1 \in Nat
    OBVIOUS
  <2>3. Queued(last + 1, Wish(action)) = << wait >>
    BY <2>1, <2>2, WishIs, Zenon
  <2>4. /\ wait.at = last + 1 + Delay /\ wait.from = last + 1
        /\ wait.signal.action = action /\ wait.signal.symbol = Symbol
    BY <2>1
  <2>5. QED
    BY <2>3, <2>4
<1>2. PICK n \in Nat : n = Len(queue)
  OBVIOUS
<1>3. DOMAIN queue = 1 .. n
  BY <1>2
<1>4. all = Append(queue, new)
  BY <1>1
<1>5. DOMAIN all = 1 .. n + 1 /\ all[n + 1] = new /\ \A i \in 1 .. n : all[i] = queue[i]
  BY <1>2, <1>4
<1>6. OneBehind(all, queue, new, n)
  <2>1. \A i \in 1 .. n : queue[i] \in Entry
    BY <1>3
  <2>2. \A i \in 1 .. n : queue[i].from \in Nat
    BY <2>1 DEF Entry
  <2>3. QED
    BY <1>3, <1>5, <2>2 DEF OneBehind
<1>7. Wished(new, action, last + 1)
  BY <1>1 DEF Wished
<1>8. QED
  BY <1>6, <1>7, OneWishBehind

\* The wish that is executed is that of the earliest bar.
LEMMA WishTaken ==
  ASSUME NEW queue \in Seq(Entry), queue # << >>, NEW first \in Nat, NEW last \in Nat,
         Wishes(queue, first, last)
  PROVE  /\ Wishes(Tail(queue), first, last)
         /\ Head(queue).signal.symbol = Symbol
         /\ Head(queue).signal.action \in {"OpenLong", "CloseLong"}
         /\ Head(queue).signal.action = "OpenLong"
              => /\ Head(queue).from \in OpenFroms(queue)
                 /\ OpenFroms(Tail(queue)) = OpenFroms(queue) \ {Head(queue).from}
         /\ Head(queue).signal.action # "OpenLong" => OpenFroms(Tail(queue)) = OpenFroms(queue)
<1>1. PICK n \in Nat : n = Len(queue) /\ n > 0 /\ DOMAIN queue = 1 .. n
  BY LenProperties, EmptySeq
<1>2. PICK rest : rest = Tail(queue)
  OBVIOUS
<1>3. DOMAIN rest = 1 .. n - 1 /\ \A i \in 1 .. n - 1 : rest[i] = queue[i + 1]
  <2>1. /\ rest \in Seq(Entry) /\ Len(rest) = n - 1
        /\ \A i \in 1 .. Len(rest) : rest[i] = queue[i + 1]
    BY <1>1, <1>2, HeadTailProperties
  <2>2. QED
    BY <2>1, LenProperties
<1>4. Head(queue) = queue[1] /\ 1 \in DOMAIN queue
  BY <1>1
<1>5. \A i \in DOMAIN rest : i + 1 \in DOMAIN queue /\ rest[i] = queue[i + 1] /\ i \in Nat
  BY <1>1, <1>3
<1>6. Wishes(rest, first, last)
  <2>1. ASSUME NEW i \in DOMAIN rest, NEW j \in DOMAIN rest, i < j
        PROVE  rest[i].from < rest[j].from
    BY <1>5, <2>1 DEF Wishes
  <2>2. QED
    BY <1>5, <2>1 DEF Wishes
<1>7. \A i \in DOMAIN rest : queue[1].from # rest[i].from
  <2>1. ASSUME NEW i \in DOMAIN rest PROVE queue[1].from # rest[i].from
    <3>0. PICK k \in DOMAIN queue : k = i + 1 /\ rest[i] = queue[k] /\ 1 < k
      BY <1>3, <1>5
    <3>1. queue[1].from < queue[k].from
      BY <1>4, <3>0 DEF Wishes
    <3>2. queue[1] \in Entry /\ queue[k] \in Entry
      BY <1>1, <1>4, <3>0
    <3>4. queue[1].from \in Nat /\ queue[k].from \in Nat
      BY <3>2 DEF Entry
    <3>3. QED
      BY <3>0, <3>1, <3>4
  <2>2. QED
    BY <2>1
<1>8. ASSUME NEW x
      PROVE  x \in OpenFroms(queue)
               <=> \/ x \in OpenFroms(rest)
                   \/ queue[1].signal.action = "OpenLong" /\ x = queue[1].from
  <2>1. ASSUME x \in OpenFroms(queue)
        PROVE  \/ x \in OpenFroms(rest)
               \/ queue[1].signal.action = "OpenLong" /\ x = queue[1].from
    <3>1. PICK i \in DOMAIN queue : queue[i].signal.action = "OpenLong" /\ x = queue[i].from
      BY <2>1 DEF OpenFroms
    <3>2. CASE i = 1
      BY <3>1, <3>2
    <3>3. CASE i # 1
      <4>1. i - 1 \in DOMAIN rest /\ rest[i - 1] = queue[(i - 1) + 1] /\ (i - 1) + 1 = i
        BY <1>1, <1>3, <3>3
      <4>2. QED
        BY <3>1, <4>1 DEF OpenFroms
    <3>4. QED
      BY <3>2, <3>3
  <2>2. ASSUME x \in OpenFroms(rest) PROVE x \in OpenFroms(queue)
    <3>1. PICK i \in DOMAIN rest : rest[i].signal.action = "OpenLong" /\ x = rest[i].from
      BY <2>2 DEF OpenFroms
    <3>2. QED
      BY <1>5, <3>1 DEF OpenFroms
  <2>3. ASSUME queue[1].signal.action = "OpenLong", x = queue[1].from
        PROVE  x \in OpenFroms(queue)
    BY <1>4, <2>3 DEF OpenFroms
  <2>4. QED
    BY <2>1, <2>2, <2>3
<1>9. queue[1].from \notin OpenFroms(rest)
  BY <1>7 DEF OpenFroms
<1>10. PICK taken : taken = queue[1] /\ Head(queue) = taken
  BY <1>4
<1>11. /\ taken.signal.symbol = Symbol /\ taken.signal.action \in {"OpenLong", "CloseLong"}
  BY <1>4, <1>10 DEF Wishes
<1>12. taken.signal.action = "OpenLong"
         => taken.from \in OpenFroms(queue) /\ OpenFroms(rest) = OpenFroms(queue) \ {taken.from}
  <2>1. PICK A, B : A = OpenFroms(queue) /\ B = OpenFroms(rest)
    OBVIOUS
  <2>2. \A x : x \in A <=> (x \in B \/ (taken.signal.action = "OpenLong" /\ x = taken.from))
    BY <1>8, <1>10, <2>1, Zenon
  <2>3. taken.from \notin B
    BY <1>9, <1>10, <2>1
  <2>4. QED
    BY <2>1, <2>2, <2>3
<1>13. taken.signal.action # "OpenLong" => OpenFroms(rest) = OpenFroms(queue)
  BY <1>8, <1>10
<1>14. QED
  BY <1>2, <1>6, <1>10, <1>11, <1>12, <1>13

\* What a careful strategy wishes for.
LEMMA CarefulWish ==
  ASSUME Careful, NEW idx
  PROVE  \/ OnBar(idx) = << >>
         \/ OnBar(idx) = Wish("OpenLong") /\ ~IsLong
         \/ OnBar(idx) = Wish("CloseLong") /\ IsLong
<1>1. CASE strategy.kind = "rsi_macd"
  <2>1. OnBar(idx) = OnRsiMacd(idx)
    BY <1>1 DEF OnBar
  <2>2. QED
    BY <2>1, Zenon DEF OnRsiMacd, Choose2
<1>2. CASE strategy.kind = "bollinger_bands"
  <2>1. OnBar(idx) = OnBollinger(idx)
    BY <1>2 DEF OnBar
  <2>2. QED
    BY <2>1, Zenon DEF OnBollinger, Choose2
<1>3. QED
  BY <1>1, <1>2 DEF Careful

-----------------------------------------------------------------------------
\* No more than the delay lets it.

\* The index the first wish waits for: a later one between two steps.
FirstIndex == IF pc \in {"idle", "marking"} THEN current_idx + 1 ELSE current_idx

CarefulInv ==
  /\ pc # "closing"
  /\ \A id \in DOMAIN positions :
       /\ positions[id].symbol = Symbol /\ positions[id].direction = "Long"
       /\ positions[id].status = "Open"
  /\ Wishes(pending_signals, FirstIndex, current_idx)
  /\ Cardinality(DOMAIN positions) + Cardinality(OpenFroms(pending_signals)) <= Delay + 1

\* Openings that wait are of the last few bars.
LEMMA FromsFinite ==
  ASSUME NEW queue \in Seq(Entry), NEW first \in Nat, NEW last \in Nat,
         Wishes(queue, first, last)
  PROVE  /\ IsFiniteSet(OpenFroms(queue)) /\ Cardinality(OpenFroms(queue)) \in Nat
         /\ first = last + 1 => Cardinality(OpenFroms(queue)) <= Delay
<1>1. \A i \in DOMAIN queue : queue[i] \in Entry
  BY LenProperties
<1>2. Delay \in Nat
  BY ConfigAssumption
<1>3. \A x \in OpenFroms(queue) : x \in Nat /\ x <= last /\ first <= x + Delay
  BY <1>1 DEF OpenFroms, Wishes, Entry
<1>4. PICK low \in Int : low = first - Delay
  BY <1>2
<1>5. OpenFroms(queue) \subseteq low .. last
  BY <1>2, <1>3, <1>4
<1>6. /\ IsFiniteSet(low .. last)
      /\ Cardinality(low .. last) = IF low > last THEN 0 ELSE (last - low) + 1
  <2>1. low \in Int /\ last \in Int
    OBVIOUS
  <2>2. /\ IsFiniteSet(low .. last)
        /\ Cardinality(low .. last) = IF low > last THEN 0 ELSE last - low + 1
    BY <2>1, FS_Interval, Zenon
  <2>3. QED
    BY <2>1, <2>2
<1>7. /\ IsFiniteSet(OpenFroms(queue)) /\ Cardinality(OpenFroms(queue)) \in Nat
      /\ Cardinality(OpenFroms(queue)) <= Cardinality(low .. last)
  BY <1>5, <1>6, FS_Subset, FS_CardinalityType
<1>8. first = last + 1 => Cardinality(low .. last) <= Delay
  BY <1>2, <1>4, <1>6
<1>9. Cardinality(low .. last) \in Int
  BY <1>4, <1>6
<1>10. QED
  BY <1>2, <1>7, <1>8, <1>9

LEMMA CarefulFacts ==
  ASSUME Inv, CarefulInv
  PROVE  /\ pending_signals \in Seq(Entry) /\ current_idx \in Nat /\ FirstIndex \in Nat
         /\ Delay \in Nat
         /\ IsFiniteSet(DOMAIN positions) /\ Cardinality(DOMAIN positions) \in Nat
         /\ IsFiniteSet(OpenFroms(pending_signals))
         /\ Cardinality(OpenFroms(pending_signals)) \in Nat
         /\ IsLong <=> DOMAIN positions # {}
<1>1. pending_signals \in Seq(Entry) /\ current_idx \in Nat /\ Delay \in Nat
  BY QueueFacts
<1>2. FirstIndex \in Nat
  BY <1>1 DEF FirstIndex
<1>3. IsFiniteSet(DOMAIN positions) /\ Cardinality(DOMAIN positions) \in Nat
  <2>1. DOMAIN positions \in SUBSET (1 .. created) /\ 1 \in Int /\ created \in Int
    BY InvParts DEF BookTypeOK
  <2>2. IsFiniteSet(1 .. created)
    BY <2>1, FS_Interval
  <2>3. QED
    BY <2>1, <2>2, FS_Subset, FS_CardinalityType
<1>4. IsFiniteSet(OpenFroms(pending_signals)) /\ Cardinality(OpenFroms(pending_signals)) \in Nat
  BY <1>1, <1>2, FromsFinite DEF CarefulInv
<1>5. IsLong <=> DOMAIN positions # {}
  BY DEF CarefulInv, IsLong
<1>6. QED
  BY <1>1, <1>2, <1>3, <1>4, <1>5

LEMMA CarefulBegin ==
  ASSUME Inv, Inv', CarefulInv, Careful, StrategyStep
  PROVE  CarefulInv'
<1>1. /\ pc = "idle" /\ pc' = "executing" /\ current_idx' = current_idx + 1
      /\ positions' = positions
      /\ pending_signals' = pending_signals \o Queued(current_idx + 1, OnBar(current_idx + 1))
  BY DEF StrategyStep, BeginStep, bookVars, Careful
<1>2. FirstIndex = current_idx + 1 /\ FirstIndex' = current_idx + 1
  BY <1>1 DEF FirstIndex
<1>0. PICK idx \in Nat : idx = current_idx
  BY CarefulFacts
<1>3. PICK queue, all : queue = pending_signals /\ all = pending_signals' /\ idx = current_idx
  BY <1>0
<1>4. queue \in Seq(Entry) /\ Wishes(queue, idx + 1, idx) /\ Delay \in Nat
  BY <1>2, <1>3, CarefulFacts DEF CarefulInv
<1>5. all \in Seq(Entry)
  BY <1>3 DEF Inv, TypeOK, Entry
<1>6. PICK F : F = OpenFroms(queue)
  OBVIOUS
<1>7. IsFiniteSet(F) /\ Cardinality(F) \in Nat /\ Cardinality(F) <= Delay
  <2>1. idx + 1 \in Nat
    OBVIOUS
  <2>2. QED
    BY <1>4, <1>6, <2>1, FromsFinite
<1>8. Cardinality(DOMAIN positions) + Cardinality(F) <= Delay + 1
  BY <1>3, <1>6 DEF CarefulInv
<1>9. /\ Wishes(all, idx + 1, idx + 1)
      /\ Cardinality(DOMAIN positions) + Cardinality(OpenFroms(all)) <= Delay + 1
  <2>1. CASE OnBar(idx + 1) = << >>
    <3>1. all = queue
      <4>1. Queued(idx + 1, << >>) = << >>
        BY DEF Queued
      <4>2. QED
        BY <1>1, <1>3, <1>4, <2>1, <4>1, ConcatEmptySeq
    <3>2. Wishes(queue, idx + 1, idx + 1)
      <4>1. \A i \in DOMAIN queue : queue[i] \in Entry
        BY <1>4, LenProperties
      <4>2. \A i \in DOMAIN queue : queue[i].from \in Nat
        BY <4>1 DEF Entry
      <4>3. \A i \in DOMAIN queue : queue[i].from <= idx + 1
        BY <1>4, <4>2 DEF Wishes
      <4>4. QED
        BY <1>4, <4>3 DEF Wishes
    <3>3. QED
      BY <1>6, <1>8, <3>1, <3>2
  <2>2. ASSUME NEW action \in {"OpenLong", "CloseLong"}, OnBar(idx + 1) = Wish(action)
        PROVE  /\ Wishes(all, idx + 1, idx + 1)
               /\ OpenFroms(all) = F \cup OpensAt(action, idx + 1)
    <3>1. all = queue \o Queued(idx + 1, Wish(action))
      BY <1>1, <1>3, <2>2
    <3>2. PICK first \in Nat : first = idx + 1 /\ first <= idx + 1 + Delay
      BY <1>4
    <3>3. Wishes(queue, first, idx) /\ queue \in Seq(Entry) /\ first <= idx + 1 + Delay
      BY <1>4, <3>2
    <3>4. Widened(all, queue, action, first, idx + 1)
      BY <1>5, <3>1, <3>3, WishQueued
    <3>5. Wishes(all, first, idx + 1) /\ OpenFroms(all) = OpenFroms(queue) \cup OpensAt(action, idx + 1)
      BY <3>4, Zenon DEF Widened
    <3>6. QED
      BY <1>6, <3>2, <3>5
  <2>3. CASE OnBar(idx + 1) = Wish("CloseLong")
    <3>1. Wishes(all, idx + 1, idx + 1) /\ OpenFroms(all) = F \cup {}
      BY <2>2, <2>3 DEF OpensAt
    <3>2. F \cup {} = F
      OBVIOUS
    <3>3. QED
      BY <1>8, <3>1, <3>2
  <2>4. CASE OnBar(idx + 1) = Wish("OpenLong") /\ ~IsLong
    <3>1. Wishes(all, idx + 1, idx + 1) /\ OpenFroms(all) = F \cup {idx + 1}
      BY <2>2, <2>4 DEF OpensAt
    <3>2. DOMAIN positions = {}
      BY <2>4, CarefulFacts
    <3>3. Cardinality(F \cup {idx + 1}) <= Cardinality(F) + 1 /\ Cardinality(F \cup {idx + 1}) \in Nat
      <4>1. Cardinality(F \cup {idx + 1})
              = IF idx + 1 \in F THEN Cardinality(F) ELSE Cardinality(F) + 1
        BY <1>7, FS_AddElement, Zenon
      <4>2. QED
        BY <1>7, <4>1
    <3>4. Cardinality(DOMAIN positions) = 0
      BY <3>2, NoneCounted, Zenon
    <3>5. QED
      BY <1>4, <1>7, <3>1, <3>3, <3>4
  <2>5. QED
    BY <1>3, <2>1, <2>3, <2>4, CarefulWish
<1>10. \A id \in DOMAIN positions' : /\ positions'[id].symbol = Symbol
                                     /\ positions'[id].direction = "Long"
                                     /\ positions'[id].status = "Open"
  BY <1>1 DEF CarefulInv
<1>11. QED
  BY <1>1, <1>2, <1>3, <1>9, <1>10 DEF CarefulInv

\* An execution takes the first wish; an opening that waited becomes a position.
LEMMA CarefulExecute ==
  ASSUME Inv, CarefulInv, NEW actions, Execute(actions)
  PROVE  /\ Current.symbol = Symbol /\ Current.action \in {"OpenLong", "CloseLong"}
         /\ pc' = "executing" => Wishes(pending_signals', FirstIndex', current_idx')
         /\ IsFiniteSet(OpenFroms(pending_signals'))
         /\ Cardinality(OpenFroms(pending_signals')) \in Nat
         /\ Cardinality(OpenFroms(pending_signals'))
              = IF Current.action = "OpenLong" THEN Cardinality(OpenFroms(pending_signals)) - 1
                ELSE Cardinality(OpenFroms(pending_signals))
<1>0. PICK idx \in Nat, first \in Nat : idx = current_idx /\ first = FirstIndex
  BY CarefulFacts
<1>1. PICK queue : queue = pending_signals
  OBVIOUS
<1>2. PICK F, G : F = OpenFroms(queue) /\ G = OpenFroms(Tail(queue))
  OBVIOUS
<1>3. /\ queue # << >> /\ pending_signals' = Tail(queue) /\ Current = Head(queue).signal
      /\ current_idx' = idx /\ pc = "executing"
  BY <1>0, <1>1 DEF Execute, Due, Current
<1>4. queue \in Seq(Entry) /\ Wishes(queue, first, idx) /\ IsFiniteSet(F) /\ Cardinality(F) \in Nat
  BY <1>0, <1>1, <1>2, CarefulFacts DEF CarefulInv
<1>5. PICK taken : taken = Head(queue)
  OBVIOUS
<1>6. /\ Wishes(Tail(queue), first, idx)
      /\ taken.signal.symbol = Symbol
      /\ taken.signal.action \in {"OpenLong", "CloseLong"}
      /\ taken.signal.action = "OpenLong" => taken.from \in F /\ G = F \ {taken.from}
      /\ taken.signal.action # "OpenLong" => G = F
  BY <1>2, <1>3, <1>4, <1>5, WishTaken
<1>7. pc' = "executing" => FirstIndex' = first
  BY <1>0, <1>3 DEF FirstIndex
<1>8. IsFiniteSet(G) /\ Cardinality(G) = IF taken.signal.action = "OpenLong"
                                         THEN Cardinality(F) - 1 ELSE Cardinality(F)
  <2>1. CASE taken.signal.action = "OpenLong"
    <3>1. taken.from \in F /\ G = F \ {taken.from}
      BY <1>6, <2>1
    <3>2. IsFiniteSet(G) /\ Cardinality(G) = Cardinality(F) - 1
      BY <1>4, <3>1, FS_RemoveElement
    <3>3. QED
      BY <2>1, <3>2
  <2>2. CASE taken.signal.action # "OpenLong"
    BY <1>4, <1>6, <2>2
  <2>3. QED
    BY <2>1, <2>2
<1>9. Cardinality(G) \in Nat
  BY <1>8, FS_CardinalityType
<1>10. Current = taken.signal
  BY <1>3, <1>5
<1>11. pc' = "executing" => Wishes(pending_signals', FirstIndex', current_idx')
  BY <1>3, <1>6, <1>7
<1>12. QED
  BY <1>1, <1>2, <1>3, <1>6, <1>8, <1>9, <1>10, <1>11

LEMMA CarefulOpen ==
  ASSUME Inv, CarefulInv, ExecuteOpen
  PROVE  CarefulInv'
<1>1. PICK actions : Execute(actions) /\ Current.action \in {"OpenLong", "OpenShort"}
  BY DEF ExecuteOpen, Execute, Current
<1>2. /\ Current.symbol = Symbol /\ Current.action = "OpenLong"
      /\ pc' = "executing" => Wishes(pending_signals', FirstIndex', current_idx')
      /\ Cardinality(OpenFroms(pending_signals')) \in Nat
      /\ Cardinality(OpenFroms(pending_signals')) = Cardinality(OpenFroms(pending_signals)) - 1
  BY <1>1, CarefulExecute
<1>3. pc' = "executing"
  BY DEF ExecuteOpen, Execute
<1>4. PICK price, qty : OpenPosition(Symbol, "Long", price, qty)
  BY <1>2 DEF ExecuteOpen
<1>5. DOMAIN positions' = DOMAIN positions \cup {created + 1}
  BY <1>4 DEF OpenPosition
<1>6. created + 1 \notin DOMAIN positions
  BY InvParts DEF BookTypeOK
<1>7. Cardinality(DOMAIN positions') = Cardinality(DOMAIN positions) + 1
  <2>1. IsFiniteSet(DOMAIN positions)
    BY CarefulFacts
  <2>2. Cardinality(DOMAIN positions \cup {created + 1})
          = IF created + 1 \in DOMAIN positions THEN Cardinality(DOMAIN positions)
            ELSE Cardinality(DOMAIN positions) + 1
    BY <2>1, FS_AddElement, Zenon
  <2>3. QED
    BY <1>5, <1>6, <2>2
<1>8. \A id \in DOMAIN positions' : /\ positions'[id].symbol = Symbol
                                    /\ positions'[id].direction = "Long"
                                    /\ positions'[id].status = "Open"
  BY <1>4 DEF OpenPosition, NewPosition, CarefulInv
<1>9. Cardinality(DOMAIN positions') + Cardinality(OpenFroms(pending_signals')) <= Delay + 1
  BY <1>2, <1>7, CarefulFacts DEF CarefulInv
<1>10. QED
  BY <1>2, <1>3, <1>8, <1>9 DEF CarefulInv

LEMMA CarefulClose ==
  ASSUME Inv, CarefulInv, ExecuteClose
  PROVE  CarefulInv'
<1>1. PICK actions : Execute(actions) /\ Current.action \in {"CloseLong", "CloseShort"}
  BY DEF ExecuteClose, Execute, Current
<1>2. /\ pc' = "executing" => Wishes(pending_signals', FirstIndex', current_idx')
      /\ Cardinality(OpenFroms(pending_signals')) \in Nat
      /\ Cardinality(OpenFroms(pending_signals')) = Cardinality(OpenFroms(pending_signals))
  BY <1>1, CarefulExecute
<1>3. pc' = "executing"
  BY DEF ExecuteClose, Execute
<1>4. PICK id \in DOMAIN positions : positions' = [other \in DOMAIN positions \ {id} |-> positions[other]]
  <2>1. PICK id \in DOMAIN positions : ClosePosition(id, FillPrice)
    BY DEF ExecuteClose, BySymbol
  <2>2. QED
    BY <2>1 DEF ClosePosition, ReducePosition
<1>5. Cardinality(DOMAIN positions') <= Cardinality(DOMAIN positions)
      /\ Cardinality(DOMAIN positions') \in Nat
  <2>1. DOMAIN positions' \in SUBSET DOMAIN positions
    BY <1>4
  <2>2. QED
    BY <2>1, CarefulFacts, FS_Subset, FS_CardinalityType
<1>6. \A x \in DOMAIN positions' : /\ positions'[x].symbol = Symbol
                                   /\ positions'[x].direction = "Long"
                                   /\ positions'[x].status = "Open"
  BY <1>4 DEF CarefulInv
<1>7. Cardinality(DOMAIN positions') + Cardinality(OpenFroms(pending_signals')) <= Delay + 1
  BY <1>2, <1>5, CarefulFacts DEF CarefulInv
<1>8. QED
  BY <1>2, <1>3, <1>6, <1>7 DEF CarefulInv

LEMMA CarefulFeeOnly ==
  ASSUME Inv, CarefulInv, ExecuteFeeOnly
  PROVE  CarefulInv'
<1>1. PICK actions : Execute(actions) /\ Current.action # "OpenLong"
  BY DEF ExecuteFeeOnly, Execute, Current
<1>2. /\ pc' = "executing" => Wishes(pending_signals', FirstIndex', current_idx')
      /\ Cardinality(OpenFroms(pending_signals')) = Cardinality(OpenFroms(pending_signals))
  BY <1>1, CarefulExecute
<1>3. pc' = "executing" /\ positions' = positions
  BY DEF ExecuteFeeOnly, Execute, bookVars
<1>4. QED
  BY <1>2, <1>3 DEF CarefulInv

\* When the loop ends the first wish is not due, so none is.
LEMMA CarefulExecuted ==
  ASSUME Inv, CarefulInv, ExecutedAll
  PROVE  CarefulInv'
<1>0. PICK idx \in Nat : idx = current_idx
  BY CarefulFacts
<1>1. PICK queue : queue = pending_signals
  OBVIOUS
<1>2. /\ pending_signals' = queue /\ current_idx' = idx /\ positions' = positions
      /\ pc = "executing" /\ pc' = "marking" /\ ~Due
  BY <1>0, <1>1 DEF ExecutedAll, bookVars
<1>3. FirstIndex = idx /\ FirstIndex' = idx + 1
  BY <1>0, <1>2 DEF FirstIndex
<1>4. queue \in Seq(Entry) /\ Wishes(queue, idx, idx)
  BY <1>0, <1>1, <1>3, CarefulFacts DEF CarefulInv
<1>5. ASSUME NEW i \in DOMAIN queue PROVE idx + 1 <= queue[i].at
  <2>1. queue # << >> /\ Head(queue) = queue[1] /\ 1 \in DOMAIN queue /\ i \in Nat /\ 1 <= i
    BY <1>4, LenProperties
  <2>2. queue[1] \in Entry /\ queue[i] \in Entry
    BY <1>4, <2>1, LenProperties
  <2>3. /\ queue[1].at \in Nat /\ queue[i].at \in Nat
        /\ queue[1].from \in Nat /\ queue[i].from \in Nat
    BY <2>2 DEF Entry
  <2>4. queue[1].at > idx
    BY <1>0, <1>1, <1>2, <2>1, <2>3 DEF Due
  <2>5. queue[1].from <= queue[i].from
    <3>1. CASE i = 1
      BY <2>3, <3>1
    <3>2. CASE 1 < i
      BY <1>4, <2>1, <2>3, <3>2 DEF Wishes
    <3>3. QED
      BY <2>1, <3>1, <3>2
  <2>6. queue[1].at = queue[1].from + Delay /\ queue[i].at = queue[i].from + Delay
    BY <1>4, <2>1 DEF Wishes
  <2>7. QED
    BY <2>3, <2>4, <2>5, <2>6, ConfigAssumption
<1>6. Wishes(queue, idx + 1, idx)
  BY <1>4, <1>5 DEF Wishes
<1>7. QED
  BY <1>0, <1>1, <1>2, <1>3, <1>6 DEF CarefulInv

LEMMA CarefulFinish ==
  ASSUME Inv, CarefulInv, FinishStep
  PROVE  CarefulInv'
<1>1. /\ pending_signals' = pending_signals /\ current_idx' = current_idx
      /\ pc = "marking" /\ pc' = "idle"
      /\ positions' = CheckLiquidations(Marked(CurrentBar.close), CurrentBar.close)
  BY DEF FinishStep
<1>2. FirstIndex' = FirstIndex
  BY <1>1 DEF FirstIndex
<1>3. positions' = Marked(CurrentBar.close)
  BY <1>1 DEF CheckLiquidations, CheckLiquidation, Marked
<1>4. \A id \in DOMAIN positions : positions[id] \in PositionType
  BY InvParts DEF BookTypeOK
<1>5. DOMAIN positions' = DOMAIN positions
  BY <1>3 DEF Marked
<1>6. \A id \in DOMAIN positions : /\ positions'[id].symbol = positions[id].symbol
                                   /\ positions'[id].direction = positions[id].direction
                                   /\ positions'[id].status = positions[id].status
  BY <1>3, <1>4 DEF Marked, PositionType
<1>7. QED
  BY <1>1, <1>2, <1>5, <1>6 DEF CarefulInv

LEMMA CarefulFresh ==
  ASSUME pc = "idle", positions = << >>, pending_signals = << >>
  PROVE  CarefulInv
<1>1. OpenFroms(<< >>) = {} /\ DOMAIN positions = {}
  BY DEF OpenFroms
<1>2. Cardinality(DOMAIN positions) = 0 /\ Cardinality(OpenFroms(pending_signals)) = 0
  BY <1>1, NoneCounted, Zenon
<1>3. Wishes(<< >>, FirstIndex, current_idx)
  BY DEF Wishes
<1>4. QED
  BY <1>1, <1>2, <1>3, ConfigAssumption DEF CarefulInv

\* What every step of the strategy's engine is a step of.
LEMMA StrategyStepIsStep == [StrategyNext]_stratVars => [Next]_vars
BY DEF StrategyNext, StrategyStep, StrategyReset, Next, stratVars

LEMMA CarefulStep ==
  ASSUME Inv, Inv', CarefulInv, Careful, [StrategyNext]_stratVars
  PROVE  CarefulInv'
<1>1. CASE StrategyStep
  BY <1>1, CarefulBegin
<1>2. CASE ExecuteOpen \/ ExecuteClose \/ ExecuteFeeOnly \/ ExecutedAll \/ FinishStep
  BY <1>2, CarefulOpen, CarefulClose, CarefulFeeOnly, CarefulExecuted, CarefulFinish
<1>3. CASE ExecuteReduce \/ ExecuteCloseAll
  <2>1. PICK actions : Execute(actions) /\ Current.action \notin {"OpenLong", "CloseLong"}
    BY <1>3 DEF ExecuteReduce, ExecuteCloseAll, Execute, Current
  <2>2. QED
    BY <2>1, CarefulExecute
<1>4. CASE CloseAllNext \/ CloseAllDone
  BY <1>4 DEF CloseAllNext, CloseAllDone, CarefulInv
<1>5. CASE Reset
  <2>1. pc' = "idle" /\ positions' = << >> /\ pending_signals' = << >>
    BY <1>5 DEF Reset
  <2>2. (pc = "idle" /\ positions = << >> /\ pending_signals = << >>)' => CarefulInv'
    BY CarefulFresh, PTL
  <2>3. QED
    BY <2>1, <2>2
<1>6. CASE UNCHANGED stratVars
  BY <1>6 DEF stratVars, vars, bookVars, CarefulInv, Wishes, FirstIndex, OpenFroms
<1>7. QED
  BY <1>1, <1>2, <1>3, <1>4, <1>5, <1>6 DEF StrategyNext, StrategyReset, InStep

-----------------------------------------------------------------------------
\* The breakout.

\* Parameters and bars with which start_backtest may run it: a window of at least one bar
\* (an empty one panics), a threshold that is not below zero, bars around their closes.
BreakoutRuns(backtest) ==
  LET params == Create("breakout", backtest.params).params
  IN  /\ params.lookback \in Nat \ {0} /\ params.threshold_pct \in Nat
      /\ \A i \in DOMAIN backtest.bars : Candle(backtest.bars[i])

BreakoutInv ==
  /\ strategy.params.lookback \in Nat \ {0} /\ strategy.params.threshold_pct \in Nat
  /\ \A i \in DOMAIN bars : Candle(bars[i])
  /\ pc # "closing" /\ pending_signals = << >> /\ orders_history = << >>

\* The largest and the smallest value of a function over a finite set.
Between(T, x) ==
  Max(T) \in Int /\ x <= Max(T) /\ Min(T) \in Int /\ Min(T) <= x

LEMMA LargestValue ==
  ASSUME NEW S, IsFiniteSet(S), NEW key \in [S -> Int], NEW i \in S, NEW T,
         T = {key[j] : j \in S}
  PROVE  Between(T, key[i])
<1>1. PICK m \in S : \A j \in S : key[j] <= key[m]
  BY LargestKey
<1>2. \E x \in T : \A y \in T : x >= y
  BY <1>1
<1>3. Max(T) \in T /\ \A y \in T : Max(T) >= y
  BY <1>2, Zenon DEF Max
<1>4. PICK minus : minus = [j \in S |-> 0 - key[j]]
  OBVIOUS
<1>5. minus \in [S -> Int]
  BY <1>4
<1>6. PICK l \in S : \A j \in S : minus[j] <= minus[l]
  BY <1>5, LargestKey
<1>7. \A j \in S : key[l] <= key[j]
  BY <1>4, <1>6
<1>8. \E x \in T : \A y \in T : x <= y
  BY <1>7
<1>9. Min(T) \in T /\ \A y \in T : Min(T) <= y
  BY <1>8, Zenon DEF Min
<1>10. T \subseteq Int /\ key[i] \in T
  OBVIOUS
<1>11. QED
  BY <1>3, <1>9, <1>10 DEF Between

LEMMA BreakoutWaits ==
  ASSUME Inv, BreakoutInv, NEW idx \in Nat, 1 <= idx, idx <= Len(bars)
  PROVE  OnBreakout(idx) = << >>
<1>1. PICK lookback \in Nat \ {0}, pct \in Nat :
        lookback = strategy.params.lookback /\ pct = strategy.params.threshold_pct
  BY DEF BreakoutInv
<1>2. CASE idx <= lookback
  BY <1>1, <1>2 DEF OnBreakout
<1>3. CASE ~ (idx <= lookback)
  <2>1. bars \in Seq(Bar) /\ DOMAIN bars = 1 .. Len(bars) /\ Len(bars) \in Nat
    BY InvParts DEF PlaceOK
  <2>2. PICK D : D = idx - lookback + 1 .. idx
    OBVIOUS
  <2>3. IsFiniteSet(D)
    <3>1. idx - lookback + 1 \in Int /\ idx \in Int
      BY <1>1
    <3>2. QED
      BY <2>2, <3>1, FS_Interval
  <2>4. idx \in D /\ D \subseteq 1 .. idx /\ D \subseteq DOMAIN bars
    BY <1>1, <1>3, <2>1, <2>2
  <2>5. \A i \in D : History(idx)[i] = bars[i]
    BY <2>1, <2>4 DEF History
  <2>6. PICK recent : recent = {History(idx)[i] : i \in idx - lookback + 1 .. idx}
    OBVIOUS
  <2>7. recent = {bars[i] : i \in D}
    BY <2>2, <2>5, <2>6
  <2>8. PICK high, low : high = [i \in D |-> bars[i].high] /\ low = [i \in D |-> bars[i].low]
    OBVIOUS
  <2>9. {bar.high : bar \in recent} = {high[i] : i \in D}
        /\ {bar.low : bar \in recent} = {low[i] : i \in D}
    BY <2>7, <2>8
  <2>10. \A i \in D : bars[i] \in Bar /\ Candle(bars[i])
    BY <2>1, <2>4 DEF BreakoutInv
  <2>11. high \in [D -> Int] /\ low \in [D -> Int]
    BY <2>8, <2>10 DEF Bar
  <2>12. PICK highest, lowest : highest = Max({bar.high : bar \in recent})
                                /\ lowest = Min({bar.low : bar \in recent})
    OBVIOUS
  <2>13. highest \in Int /\ lowest \in Int /\ high[idx] <= highest /\ lowest <= low[idx]
    <3>1. PICK highs, lows : highs = {high[i] : i \in D} /\ lows = {low[i] : i \in D}
      OBVIOUS
    <3>2. Between(highs, high[idx])
      BY <2>3, <2>4, <2>11, <3>1, LargestValue
    <3>3. Between(lows, low[idx])
      BY <2>3, <2>4, <2>11, <3>1, LargestValue
    <3>4. highest = Max(highs) /\ lowest = Min(lows)
      BY <2>9, <2>12, <3>1
    <3>5. QED
      BY <3>2, <3>3, <3>4 DEF Between
  <2>14. PICK close \in Nat : close = bars[idx].close
    BY <2>4, <2>10 DEF Bar
  <2>15. close <= highest /\ lowest <= close
    <3>1. bars[idx].low \in Nat /\ bars[idx].high \in Nat
      BY <2>4, <2>10 DEF Bar
    <3>2. bars[idx].low <= close /\ close <= bars[idx].high
      BY <2>4, <2>10, <2>14 DEF Candle
    <3>3. QED
      BY <2>4, <2>8, <2>13, <3>1, <3>2
  <2>16. PICK range \in Nat : range = highest - lowest
    BY <2>13, <2>15
  <2>17. PICK threshold \in Nat : threshold = range * pct
    OBVIOUS
  <2>18. ~ (100 * (close - highest) > threshold) /\ ~ (100 * (lowest - close) > threshold)
    BY <2>13, <2>15, <2>17
  <2>19. OnBreakout(idx) = Choose2(100 * (bars[idx].close - highest) > (highest - lowest) * pct /\ ~IsLong,
                                   100 * (lowest - bars[idx].close) > (highest - lowest) * pct /\ IsLong)
    BY <1>1, <1>3, <2>6, <2>12, Zenon DEF OnBreakout
  <2>20. QED
    BY <2>14, <2>16, <2>17, <2>18, <2>19 DEF Choose2
<1>4. QED
  BY <1>2, <1>3

LEMMA BreakoutStep ==
  ASSUME Inv, BreakoutInv, strategy.kind = "breakout",
         DOMAIN strategy = {"kind", "params", "has_position"}, [StrategyNext]_stratVars
  PROVE  BreakoutInv'
<1>1. strategy'.params = strategy.params
  BY DEF StrategyNext, StrategyStep, StrategyReset, stratVars
<1>2. bars' = bars
  BY StrategyStepIsStep DEF Next, InStep, BeginStep, SubmitSignal, Reset, ExecuteOpen,
     ExecuteReduce, ExecuteClose, ExecuteFeeOnly, ExecuteCloseAll, CloseAllNext, CloseAllDone,
     ExecutedAll, FinishStep, Execute, vars
<1>3. CASE StrategyStep
  <2>1. PICK idx \in Nat : idx = current_idx + 1 /\ 1 <= idx /\ idx <= Len(bars)
    <3>1. current_idx \in Nat /\ Len(bars) \in Nat /\ current_idx < Len(bars)
      BY <1>3, InvParts DEF PlaceOK, StrategyStep, MoreBars
    <3>2. QED
      BY <3>1
  <2>2. OnBar(idx) = << >>
    <3>1. OnBar(idx) = OnBreakout(idx)
      BY DEF OnBar
    <3>2. QED
      BY <2>1, <3>1, BreakoutWaits
  <2>3. pending_signals' = << >> \o Queued(idx, << >>)
    BY <1>3, <2>1, <2>2 DEF StrategyStep, BreakoutInv
  <2>4. Queued(idx, << >>) = << >>
    BY DEF Queued
  <2>5. pending_signals' = << >>
    BY <2>3, <2>4
  <2>6. pc' = "executing" /\ orders_history' = orders_history
    BY <1>3 DEF StrategyStep, BeginStep, tradeVars
  <2>7. QED
    BY <1>1, <1>2, <2>5, <2>6 DEF BreakoutInv
<1>4. CASE ExecuteOpen \/ ExecuteReduce \/ ExecuteClose \/ ExecuteFeeOnly \/ ExecuteCloseAll
  BY <1>4 DEF ExecuteOpen, ExecuteReduce, ExecuteClose, ExecuteFeeOnly, ExecuteCloseAll,
     Execute, Due, BreakoutInv
<1>5. CASE CloseAllNext \/ CloseAllDone
  BY <1>5 DEF CloseAllNext, CloseAllDone, BreakoutInv
<1>6. CASE ExecutedAll \/ FinishStep \/ Reset \/ UNCHANGED stratVars
  <2>1. /\ pending_signals' = << >> /\ orders_history' = << >> /\ pc' # "closing"
    BY <1>6 DEF ExecutedAll, FinishStep, Reset, Snapshot, stratVars, vars, tradeVars, BreakoutInv
  <2>2. QED
    BY <1>1, <1>2, <2>1 DEF BreakoutInv
<1>7. QED
  BY <1>3, <1>4, <1>5, <1>6 DEF StrategyNext, StrategyReset, InStep

-----------------------------------------------------------------------------

StrategyInv ==
  /\ DOMAIN strategy = {"kind", "params", "has_position"}
  /\ Careful => CarefulInv

LEMMA StrategyStarts == StrategyInit => Inv /\ StrategyInv
<1> SUFFICES ASSUME StrategyInit PROVE Inv /\ StrategyInv
  OBVIOUS
<1>1. Inv /\ pc = "idle" /\ positions = << >> /\ pending_signals = << >>
  BY NewInv DEF StrategyInit, Init
<1>2. PICK backtest \in Backtests : strategy = Create(backtest.id, backtest.params)
  BY DEF StrategyInit
<1>3. DOMAIN strategy = {"kind", "params", "has_position"}
  BY <1>2 DEF Create
<1>4. CarefulInv
  BY <1>1, CarefulFresh
<1>5. QED
  BY <1>1, <1>3, <1>4 DEF StrategyInv

LEMMA StrategyKeeps ==
  ASSUME Inv, StrategyInv, [StrategyNext]_stratVars
  PROVE  Inv' /\ StrategyInv' /\ strategy'.kind = strategy.kind
<1>1. Inv'
  BY StrategyStepIsStep, InvStep
<1>2. DOMAIN strategy' = DOMAIN strategy /\ strategy'.kind = strategy.kind
  BY DEF StrategyInv, StrategyNext, StrategyStep, StrategyReset, stratVars
<1>3. Careful' => CarefulInv'
  BY <1>1, <1>2, CarefulStep DEF StrategyInv, Careful
<1>4. QED
  BY <1>1, <1>2, <1>3 DEF StrategyInv

LEMMA OpeningsFollow == Inv /\ StrategyInv => OpeningsWithinDelay
<1> SUFFICES ASSUME Inv, StrategyInv, Careful
             PROVE  Cardinality({id \in DOMAIN positions : positions[id].direction = "Long"})
                      <= Delay + 1
  BY DEF OpeningsWithinDelay, Careful
<1>1. CarefulInv
  BY DEF StrategyInv
<1>2. {id \in DOMAIN positions : positions[id].direction = "Long"} = DOMAIN positions
  BY <1>1 DEF CarefulInv
<1>3. Cardinality(DOMAIN positions) <= Delay + 1
  BY <1>1, CarefulFacts DEF CarefulInv
<1>4. QED
  BY <1>2, <1>3

\* However long the delay, however the prices go and whatever the periods: the strategies
\* that ask is_long before they open never have more than Delay + 1 long positions, because
\* each opening still waiting is of another bar within the delay.
THEOREM NoMoreThanTheDelay == StrategySpec => []OpeningsWithinDelay
<1>1. Inv /\ StrategyInv /\ [StrategyNext]_stratVars => Inv' /\ StrategyInv'
  BY StrategyKeeps
<1>2. QED
  BY StrategyStarts, <1>1, OpeningsFollow, PTL DEF StrategySpec

\* Nothing was opened, and nothing waits to be.
NeverTrades == strategy.kind = "breakout" => pending_signals = << >> /\ orders_history = << >>

BreakoutToo == strategy.kind = "breakout" => BreakoutInv

LEMMA BreakoutStarts ==
  ASSUME \A backtest \in Backtests : backtest.id = "breakout" => BreakoutRuns(backtest),
         StrategyInit
  PROVE  BreakoutToo
<1> SUFFICES ASSUME strategy.kind = "breakout" PROVE BreakoutInv
  BY DEF BreakoutToo
<1>1. pc = "idle" /\ pending_signals = << >> /\ orders_history = << >>
  BY NewInv DEF StrategyInit, Init
<1>2. PICK backtest \in Backtests :
        bars = backtest.bars /\ strategy = Create(backtest.id, backtest.params)
  BY DEF StrategyInit
<1>3. backtest.id = "breakout"
  BY <1>2 DEF Create
<1>4. BreakoutRuns(backtest)
  BY <1>3
<1>5. QED
  BY <1>1, <1>2, <1>3, <1>4 DEF BreakoutRuns, BreakoutInv

\* A finding, and not what the strategy is for: config.rs:280 describes "A volatility strategy
\* that trades breakouts from price ranges." and breakout.rs:40 "OpenLong when price breaks
\* above resistance".  Over bars around their closes, with a window of at least one bar and a
\* threshold that is not below zero, it never opens anything, whatever the prices do: the
\* range is that of the last bars, of which the current one is one, and no close is outside
\* its own bar.
THEOREM BreakoutNeverOpens ==
  (\A backtest \in Backtests : backtest.id = "breakout" => BreakoutRuns(backtest))
    => (StrategySpec => []NeverTrades)
<1> SUFFICES ASSUME \A backtest \in Backtests :
                      backtest.id = "breakout" => BreakoutRuns(backtest)
             PROVE  StrategySpec => []NeverTrades
  OBVIOUS
<1>1. StrategyInit => Inv /\ StrategyInv /\ BreakoutToo
  BY StrategyStarts, BreakoutStarts
<1>2. Inv /\ StrategyInv /\ BreakoutToo /\ [StrategyNext]_stratVars
        => Inv' /\ StrategyInv' /\ BreakoutToo'
  BY StrategyKeeps, BreakoutStep DEF StrategyInv, BreakoutToo
<1>3. BreakoutToo => NeverTrades
  BY DEF BreakoutToo, NeverTrades, BreakoutInv
<1>4. QED
  BY <1>1, <1>2, <1>3, PTL DEF StrategySpec

-----------------------------------------------------------------------------
\* The points of an indicator that are given by a function of the bar.

Drawn(first, last, f) == PointsFrom(first, last, LAMBDA i : f[i])

\* Joining nothing to a sequence leaves it.
LEMMA NothingBefore ==
  ASSUME NEW m \in Nat, NEW g, g = [i \in 1 .. m |-> g[i]]
  PROVE  << >> \o g = g
<1>1. g \in Seq({g[i] : i \in 1 .. m})
  OBVIOUS
<1>2. QED
  BY <1>1

\* What the points are.
LEMMA DrawnIs ==
  ASSUME NEW first \in Nat \ {0}, NEW last \in Nat, first <= last, NEW f
  PROVE  Drawn(first, last, f) =
           Points([i \in 1 .. last - first + 1 |->
                     [index |-> first + i - 1, value |-> f[first + i - 1]]])
<1> DEFINE g == [i \in 1 .. last - first + 1 |->
                     [index |-> first + i - 1, value |-> f[first + i - 1]]]
<1>1. last - first + 1 \in Nat /\ g = [i \in 1 .. last - first + 1 |-> g[i]]
  OBVIOUS
<1>2. << >> \o g = g
  <2> HIDE DEF g
  <2>1. QED
    BY <1>1, NothingBefore
<1>3. QED
  BY <1>2 DEF Drawn, PointsFrom

\* Only the values at the bars drawn count.
LEMMA DrawnAgrees ==
  ASSUME NEW first \in Nat \ {0}, NEW last \in Nat, first <= last, NEW f, NEW g,
         \A i \in first .. last : f[i] = g[i]
  PROVE  Drawn(first, last, f) = Drawn(first, last, g)
<1>1. \A i \in 1 .. last - first + 1 : first + i - 1 \in first .. last
  OBVIOUS
<1>2. [i \in 1 .. last - first + 1 |-> [index |-> first + i - 1, value |-> f[first + i - 1]]]
      = [i \in 1 .. last - first + 1 |-> [index |-> first + i - 1, value |-> g[first + i - 1]]]
  BY <1>1
<1> DEFINE points(h) == [i \in 1 .. last - first + 1 |->
                           [index |-> first + i - 1, value |-> h[first + i - 1]]]
<1>3. points(f) = points(g)
  BY <1>2
<1>4. Drawn(first, last, f) = Points(points(f)) /\ Drawn(first, last, g) = Points(points(g))
  BY DrawnIs
<1> HIDE DEF points
<1>5. QED
  BY <1>3, <1>4

\* The first n elements of a sequence.
LEMMA PrefixIs ==
  ASSUME NEW S, NEW seq \in Seq(S), NEW n \in 0 .. Len(seq)
  PROVE  /\ SubSeq(seq, 1, n) \in Seq(S) /\ Len(SubSeq(seq, 1, n)) = n
         /\ DOMAIN SubSeq(seq, 1, n) = 1 .. n
         /\ \A i \in 1 .. n : SubSeq(seq, 1, n)[i] = seq[i]
OBVIOUS

\* Only the values summed count.
LEMMA SumSame ==
  ASSUME NEW f, NEW g, NEW a, NEW b, \A j \in a .. b : f[j] = g[j]
  PROVE  SumOver(f, a, b) = SumOver(g, a, b)
<1>1. [j \in a .. b |-> f[j]] = [j \in a .. b |-> g[j]]
  OBVIOUS
<1>2. QED
  BY <1>1 DEF SumOver

\* A sum of integers is one.
LEMMA SumWhole ==
  ASSUME NEW f, NEW a \in Nat, NEW b \in Nat, \A j \in a .. b : f[j] \in Int
  PROVE  SumOver(f, a, b) \in Int
<1>1. IsFiniteSet(a .. b)
  BY FS_Interval
<1>2. Whole([j \in a .. b |-> f[j]])
  BY <1>1 DEF Whole
<1>3. QED
  BY <1>2, SumInt DEF SumOver

-----------------------------------------------------------------------------
\* The moving average.

EmaEquation(g, period, prices, last) ==
  g = [i \in period .. last |->
         IF i = period THEN SumOver(prices, 1, period) \div period
         ELSE (2 * prices[i] + (period - 1) * g[i - 1]) \div (period + 1)]

\* Ema, with its recursive function named by its equation.
LEMMA EmaExpanded ==
  ASSUME NEW period, NEW prices
  PROVE  Ema(period, prices) =
           IF period = 0 \/ Len(prices) < period THEN Failed
           ELSE Drawn(period, Len(prices),
                      CHOOSE g : EmaEquation(g, period, prices, Len(prices)))
BY Zenon DEF Ema, Drawn, PointsFrom, EmaEquation

\* Its points are those of one function, however many prices it is given.
EmaOf(f, period, prices) ==
  /\ \A i \in period .. Len(prices) : f[i] \in Int
  /\ \A n \in 0 .. Len(prices) :
       Ema(period, SubSeq(prices, 1, n)) =
         IF n < period THEN Failed ELSE Drawn(period, n, f)

\* There is one function whose points are the averages of every beginning of the prices.
LEMMA EmaGrows ==
  ASSUME NEW prices \in Seq(Int), NEW period \in Nat \ {0}
  PROVE  \E f : EmaOf(f, period, prices)
<1> DEFINE N == Len(prices)
           base == IF period <= N THEN SumOver(prices, 1, period) \div period ELSE 0
           step == [i \in period .. N |->
                      [v \in Int |-> (2 * prices[i] + (period - 1) * v) \div (period + 1)]]
<1>1. N \in Nat /\ \A i \in 1 .. N : prices[i] \in Int
  OBVIOUS
<1>2. base \in Int
  <2>1. CASE period <= N
    <3>1. SumOver(prices, 1, period) \in Int
      BY <1>1, <2>1, SumWhole
    <3>2. QED
      BY <3>1
  <2>2. CASE ~(period <= N)
    BY <2>2
  <2>3. QED
    BY <2>1, <2>2
<1>3. \A i \in period .. N : step[i] \in [Int -> Int]
  <2>1. SUFFICES ASSUME NEW i \in period .. N PROVE step[i] \in [Int -> Int]
    OBVIOUS
  <2>2. i \in 1 .. N /\ prices[i] \in Int
    BY <1>1
  <2>3. \A v \in Int : (2 * prices[i] + (period - 1) * v) \div (period + 1) \in Int
    <3>1. SUFFICES ASSUME NEW v \in Int
                   PROVE  (2 * prices[i] + (period - 1) * v) \div (period + 1) \in Int
      OBVIOUS
    <3>2. (period - 1) * v \in Int /\ 2 * prices[i] + (period - 1) * v \in Int
      BY <2>2
    <3>3. QED
      BY <3>2
  <2>4. QED
    BY <2>3
<1>4. \A i \in period .. N, v \in Int :
        step[i][v] = (2 * prices[i] + (period - 1) * v) \div (period + 1)
  OBVIOUS
<1> HIDE DEF step, base
<1>5. PICK f \in [period .. N -> Int] : IsCourse(f, period, N, base, step)
  BY <1>1, <1>2, <1>3, CourseExists
<1>6. \A i \in period .. N : f[i] = IF i = period THEN base ELSE step[i][f[i - 1]]
  BY <1>5 DEF IsCourse
<1>7. \A i \in period .. N : f[i] \in Int
  BY <1>5
<1>8. ASSUME NEW n \in 0 .. N, period <= n
      PROVE  Ema(period, SubSeq(prices, 1, n)) = Drawn(period, n, f)
  <2> DEFINE some == SubSeq(prices, 1, n)
             g == CHOOSE h : EmaEquation(h, period, some, n)
  <2>1. some \in Seq(Int) /\ Len(some) = n /\ \A i \in 1 .. n : some[i] = prices[i]
    BY PrefixIs
  <2> HIDE DEF some
  <2>2. SumOver(some, 1, period) \div period = base
    <3>1. SumOver(some, 1, period) = SumOver(prices, 1, period)
      <4>1. \A j \in 1 .. period : some[j] = prices[j]
        BY <1>8, <2>1
      <4>2. QED
        BY <4>1, SumSame
    <3>2. period <= N
      BY <1>1, <1>8
    <3>3. QED
      BY <3>1, <3>2 DEF base
  <2>3. \A i \in period .. n : i # period =>
          (2 * some[i] + (period - 1) * f[i - 1]) \div (period + 1) = f[i]
    <3>1. SUFFICES ASSUME NEW i \in period .. n, i # period
                   PROVE  (2 * some[i] + (period - 1) * f[i - 1]) \div (period + 1) = f[i]
      OBVIOUS
    <3>2. i \in period .. N /\ i - 1 \in period .. N /\ i \in 1 .. n
      BY <1>1, <3>1
    <3>3. f[i - 1] \in Int /\ some[i] = prices[i]
      BY <1>7, <2>1, <3>2
    <3>4. f[i] = step[i][f[i - 1]]
      BY <1>6, <3>1, <3>2
    <3>5. QED
      BY <1>4, <3>2, <3>3, <3>4
  <2>4. \A i \in period .. n :
          f[i] = IF i = period THEN base ELSE (2 * some[i] + (period - 1) * f[i - 1]) \div (period + 1)
    <3>1. period \in period .. N /\ f[period] = base
      BY <1>1, <1>6, <1>8
    <3>2. QED
      BY <2>3, <3>1
  <2>5. EmaEquation(g, period, some, n)
    <3> DEFINE h == [i \in period .. n |-> f[i]]
    <3>1. \A i \in period .. n : i # period => h[i - 1] = f[i - 1]
      <4>1. \A i \in period .. n : i # period => i - 1 \in period .. n
        BY <1>8
      <4>2. QED
        BY <4>1
    <3>2. \A i \in period .. n : h[i] =
            IF i = period THEN base ELSE (2 * some[i] + (period - 1) * h[i - 1]) \div (period + 1)
      BY <2>4, <3>1
    <3>3. h = [i \in period .. n |->
                 IF i = period THEN base
                 ELSE (2 * some[i] + (period - 1) * h[i - 1]) \div (period + 1)]
      <4>1. h = [i \in period .. n |-> h[i]]
        OBVIOUS
      <4> HIDE DEF h
      <4>2. QED
        BY <3>2, <4>1
    <3>4. EmaEquation(h, period, some, n)
      <4> HIDE DEF h
      <4>1. QED
        BY <2>2, <3>3, Zenon DEF EmaEquation
    <3> HIDE DEF h
    <3>5. QED
      BY <3>4, Zenon
  <2> HIDE DEF g
  <2>6. \A i \in period .. n :
          g[i] = IF i = period THEN base ELSE (2 * some[i] + (period - 1) * g[i - 1]) \div (period + 1)
    BY <2>2, <2>5 DEF EmaEquation
  <2>7. \A i \in period .. n : g[i] = f[i]
    <3>1. period <= n => g[period] = f[period]
      BY <2>4, <2>6
    <3>2. \A i \in period .. n : i # period /\ g[i - 1] = f[i - 1] => g[i] = f[i]
      BY <2>4, <2>6
    <3>3. n \in Nat /\ period \in Nat
      BY <1>1
    <3>4. SameSteps(f, g, period, n)
      BY <3>1, <3>2, Zenon DEF SameSteps
    <3>5. QED
      BY <3>3, <3>4, SameCourse
  <2>8. Drawn(period, n, g) = Drawn(period, n, f)
    BY <1>8, <2>7, DrawnAgrees
  <2>9. Ema(period, some) = Drawn(period, n, g)
    <3>1. ~(period = 0 \/ Len(some) < period)
      BY <1>8, <2>1
    <3>2. QED
      BY <2>1, <3>1, EmaExpanded DEF g
  <2>10. QED
    BY <2>8, <2>9 DEF some
<1>9. ASSUME NEW n \in 0 .. N, n < period
      PROVE  Ema(period, SubSeq(prices, 1, n)) = Failed
  <2>1. Len(SubSeq(prices, 1, n)) = n
    BY PrefixIs
  <2>2. QED
    BY <1>9, <2>1, EmaExpanded
<1>10. \A n \in 0 .. N : Ema(period, SubSeq(prices, 1, n)) =
                           IF n < period THEN Failed ELSE Drawn(period, n, f)
  BY <1>1, <1>8, <1>9
<1>11. QED
  BY <1>7, <1>10 DEF EmaOf

-----------------------------------------------------------------------------
\* The relative strength.

GainsIn(prices) ==
  [i \in 1 .. Len(prices) - 1 |->
     IF prices[i + 1] - prices[i] >= 0 THEN prices[i + 1] - prices[i] ELSE 0]
LossesIn(prices) ==
  [i \in 1 .. Len(prices) - 1 |->
     IF prices[i + 1] - prices[i] >= 0 THEN 0 ELSE -(prices[i + 1] - prices[i])]

RsiEquation(g, period, prices) ==
  g = [i \in period .. Len(prices) - 1 |->
         IF i = period
         THEN [gain |-> SumOver(GainsIn(prices), 1, period) \div period,
               loss |-> SumOver(LossesIn(prices), 1, period) \div period]
         ELSE [gain |-> (g[i - 1].gain * (period - 1) + GainsIn(prices)[i]) \div period,
               loss |-> (g[i - 1].loss * (period - 1) + LossesIn(prices)[i]) \div period]]

Shifted(g, first, last) == [i \in first .. last |-> g[i - 1]]

\* Rsi, with its recursive function named by its equation.
LEMMA RsiExpanded ==
  ASSUME NEW period, NEW prices
  PROVE  Rsi(period, prices) =
           IF period = 0 \/ Len(prices) <= period THEN Failed
           ELSE PointsFrom(period + 1, Len(prices),
                           LAMBDA i : (CHOOSE g : RsiEquation(g, period, prices))[i - 1])
BY Zenon DEF Rsi, PointsFrom, RsiEquation, GainsIn, LossesIn

\* A function drawn one bar later.
LEMMA ShiftedDrawn ==
  ASSUME NEW first \in Nat \ {0}, NEW last \in Nat, first <= last, NEW g
  PROVE  PointsFrom(first, last, LAMBDA i : g[i - 1]) = Drawn(first, last, Shifted(g, first, last))
<1>1. \A i \in 1 .. last - first + 1 : first + i - 1 \in first .. last
  OBVIOUS
<1>2. [i \in 1 .. last - first + 1 |->
         [index |-> first + i - 1, value |-> g[(first + i - 1) - 1]]]
      = [i \in 1 .. last - first + 1 |->
         [index |-> first + i - 1, value |-> Shifted(g, first, last)[first + i - 1]]]
  BY <1>1 DEF Shifted
<1>3. QED
  BY <1>2, Zenon DEF PointsFrom, Drawn

\* One function gives the strengths of every beginning of the prices.
LEMMA RsiGrows ==
  ASSUME NEW prices \in Seq(Int), NEW period \in Nat \ {0}
  PROVE  \E f : \A n \in 0 .. Len(prices) :
           Rsi(period, SubSeq(prices, 1, n)) =
             IF n < period + 1 THEN Failed ELSE Drawn(period + 1, n, f)
<1> DEFINE N == Len(prices)
           A == [gain : Int, loss : Int]
           gain == GainsIn(prices)
           loss == LossesIn(prices)
           first == [gain |-> SumOver(gain, 1, period) \div period,
                     loss |-> SumOver(loss, 1, period) \div period]
           base == IF period < N THEN first ELSE [gain |-> 0, loss |-> 0]
           Smooth(i, v) == [gain |-> (v.gain * (period - 1) + gain[i]) \div period,
                           loss |-> (v.loss * (period - 1) + loss[i]) \div period]
           step == [i \in period .. N - 1 |-> [v \in A |-> Smooth(i, v)]]
<1>1. /\ N \in Nat /\ \A i \in 1 .. N : prices[i] \in Int
      /\ \A i \in 1 .. N - 1 : gain[i] \in Int /\ loss[i] \in Int
  <2>1. N \in Nat /\ \A i \in 1 .. N : prices[i] \in Int
    OBVIOUS
  <2>2. ASSUME NEW i \in 1 .. N - 1 PROVE gain[i] \in Int /\ loss[i] \in Int
    <3>1. i \in 1 .. N /\ i + 1 \in 1 .. N
      BY <2>1
    <3>2. prices[i] \in Int /\ prices[i + 1] \in Int
      BY <2>1, <3>1
    <3>3. QED
      BY <3>2 DEF GainsIn, LossesIn
  <2>3. QED
    BY <2>1, <2>2
<1>2. base \in A
  <2>1. CASE period < N
    <3>1. SumOver(gain, 1, period) \in Int /\ SumOver(loss, 1, period) \in Int
      <4>1. \A i \in 1 .. period : gain[i] \in Int /\ loss[i] \in Int
        BY <1>1, <2>1
      <4> HIDE DEF gain, loss
      <4>2. QED
        BY <4>1, SumWhole
    <3> HIDE DEF gain, loss
    <3>2. QED
      BY <3>1, <2>1
  <2>2. CASE ~(period < N)
    BY <2>2
  <2>3. QED
    BY <2>1, <2>2
<1>3. \A i \in period .. N - 1, v \in A : Smooth(i, v) \in A
  <2>1. SUFFICES ASSUME NEW i \in period .. N - 1, NEW v \in A PROVE Smooth(i, v) \in A
    OBVIOUS
  <2>2. gain[i] \in Int /\ loss[i] \in Int
    BY <1>1
  <2>3. v.gain * (period - 1) \in Int /\ v.loss * (period - 1) \in Int
    OBVIOUS
  <2> HIDE DEF gain, loss
  <2>div. \A x, y \in Int : (x + y) \div period \in Int
    OBVIOUS
  <2>4. (v.gain * (period - 1) + gain[i]) \div period \in Int
    BY <2>2, <2>3, <2>div, Zenon
  <2>5. (v.loss * (period - 1) + loss[i]) \div period \in Int
    BY <2>2, <2>3, <2>div, Zenon
  <2>6. QED
    BY <2>4, <2>5
<1> HIDE DEF Smooth, gain, loss
<1>4. \A i \in period .. N - 1 : step[i] \in [A -> A]
  BY <1>3
<1>5. \A i \in period .. N - 1, v \in A : step[i][v] = Smooth(i, v)
  OBVIOUS
<1>6. PICK f \in [period .. N - 1 -> A] : IsCourse(f, period, N - 1, base, step)
  <2> HIDE DEF base, step, A
  <2>1. CASE N = 0
    <3>1. period .. N - 1 = {}
      BY <2>1
    <3>2. [i \in period .. N - 1 |-> base] \in [period .. N - 1 -> A]
      BY <3>1
    <3>3. IsCourse([i \in period .. N - 1 |-> base], period, N - 1, base, step)
      BY <3>1 DEF IsCourse
    <3>4. QED
      BY <3>2, <3>3
  <2>2. CASE N # 0
    <3>1. N - 1 \in Nat
      BY <1>1, <2>2
    <3>2. QED
      BY <1>2, <1>4, <3>1, CourseExists
  <2>3. QED
    BY <2>1, <2>2
<1>7. \A i \in period .. N - 1 :
        f[i] \in A /\ f[i] = IF i = period THEN base ELSE Smooth(i, f[i - 1])
  <2>1. SUFFICES ASSUME NEW i \in period .. N - 1
                 PROVE  f[i] \in A /\ f[i] = IF i = period THEN base ELSE Smooth(i, f[i - 1])
    OBVIOUS
  <2>2. f[i] \in A /\ f[i] = IF i = period THEN base ELSE step[i][f[i - 1]]
    BY <1>6 DEF IsCourse
  <2>3. CASE i # period
    <3>1. i - 1 \in period .. N - 1
      BY <1>1, <2>3
    <3>2. f[i - 1] \in A
      BY <1>6, <3>1
    <3> HIDE DEF step
    <3>3. step[i][f[i - 1]] = Smooth(i, f[i - 1])
      BY <1>5, <3>2
    <3>4. QED
      BY <2>2, <2>3, <3>3
  <2>4. QED
    BY <2>2, <2>3
<1> HIDE DEF step
<1>8. ASSUME NEW n \in 0 .. N, period < n
      PROVE  Rsi(period, SubSeq(prices, 1, n)) = Drawn(period + 1, n, Shifted(f, period + 1, N))
  <2> DEFINE some == SubSeq(prices, 1, n)
             g == CHOOSE h : RsiEquation(h, period, some)
  <2>0. n \in Nat /\ n <= N
    BY <1>1
  <2>1. some \in Seq(Int) /\ Len(some) = n /\ \A i \in 1 .. n : some[i] = prices[i]
    BY PrefixIs
  <2> HIDE DEF some
  <2>2. \A i \in 1 .. n - 1 : GainsIn(some)[i] = gain[i] /\ LossesIn(some)[i] = loss[i]
    <3>1. SUFFICES ASSUME NEW i \in 1 .. n - 1
                   PROVE  GainsIn(some)[i] = gain[i] /\ LossesIn(some)[i] = loss[i]
      OBVIOUS
    <3>2. i \in 1 .. n /\ i + 1 \in 1 .. n /\ i \in 1 .. N - 1
      BY <2>0
    <3>3. some[i] = prices[i] /\ some[i + 1] = prices[i + 1]
      BY <2>1, <3>2
    <3>4. QED
      BY <2>1, <3>2, <3>3 DEF GainsIn, LossesIn, gain, loss
  <2> DEFINE Seed == [gain |-> SumOver(GainsIn(some), 1, period) \div period,
                        loss |-> SumOver(LossesIn(some), 1, period) \div period]
             Later(i, v) == [gain |-> (v.gain * (period - 1) + GainsIn(some)[i]) \div period,
                             loss |-> (v.loss * (period - 1) + LossesIn(some)[i]) \div period]
  <2>3. Seed = base
    <3>1. \A j \in 1 .. period : GainsIn(some)[j] = gain[j] /\ LossesIn(some)[j] = loss[j]
      BY <1>8, <2>0, <2>2
    <3> HIDE DEF gain, loss
    <3>2. /\ SumOver(GainsIn(some), 1, period) = SumOver(gain, 1, period)
          /\ SumOver(LossesIn(some), 1, period) = SumOver(loss, 1, period)
      BY <3>1, SumSame
    <3>3. period < N
      BY <1>8, <2>0, <1>1
    <3>4. QED
      BY <3>2, <3>3
  <2>4. \A i \in period .. n - 1 : \A v : Later(i, v) = Smooth(i, v)
    <3>1. SUFFICES ASSUME NEW i \in period .. n - 1, NEW v PROVE Later(i, v) = Smooth(i, v)
      OBVIOUS
    <3>2. i \in 1 .. n - 1
      BY <2>0
    <3> HIDE DEF gain, loss
    <3>3. QED
      BY <2>2, <3>2 DEF Smooth
  <2>5. \A h : RsiEquation(h, period, some) <=>
                 h = [i \in period .. n - 1 |-> IF i = period THEN Seed ELSE Later(i, h[i - 1])]
    BY <2>1 DEF RsiEquation
  <2> HIDE DEF Seed, Later, base
  <2>6. \A i \in period .. n - 1 :
          f[i] = IF i = period THEN Seed ELSE Later(i, f[i - 1])
    <3>1. \A i \in period .. n - 1 : i \in period .. N - 1
      BY <1>1, <2>0
    <3>2. QED
      BY <1>7, <2>3, <2>4, <3>1
  <2>7. RsiEquation(g, period, some)
    <3> DEFINE h == [i \in period .. n - 1 |-> f[i]]
    <3>1. \A i \in period .. n - 1 : i # period => h[i - 1] = f[i - 1]
      <4>1. \A i \in period .. n - 1 : i # period => i - 1 \in period .. n - 1
        BY <2>0
      <4>2. QED
        BY <4>1
    <3>2. \A i \in period .. n - 1 : h[i] = IF i = period THEN Seed ELSE Later(i, h[i - 1])
      BY <2>6, <3>1
    <3>3. h = [i \in period .. n - 1 |-> h[i]]
      OBVIOUS
    <3> HIDE DEF h
    <3>4. RsiEquation(h, period, some)
      BY <2>5, <3>2, <3>3
    <3>5. QED
      BY <3>4, Zenon
  <2> HIDE DEF g
  <2>8. \A i \in period .. n - 1 : g[i] = IF i = period THEN Seed ELSE Later(i, g[i - 1])
    BY <2>5, <2>7
  <2>9. \A i \in period .. n - 1 : g[i] = f[i]
    <3>1. period <= n - 1 => g[period] = f[period]
      BY <2>6, <2>8
    <3>2. \A i \in period .. n - 1 : i # period /\ g[i - 1] = f[i - 1] => g[i] = f[i]
      BY <2>6, <2>8
    <3>3. n - 1 \in Nat /\ period \in Nat
      BY <1>8, <2>0
    <3>4. SameSteps(f, g, period, n - 1)
      BY <3>1, <3>2, Zenon DEF SameSteps
    <3>5. QED
      BY <3>3, <3>4, SameCourse
  <2>10. Rsi(period, some) = PointsFrom(period + 1, n, LAMBDA i : g[i - 1])
    <3>1. ~(period = 0 \/ Len(some) <= period)
      BY <1>8, <2>1, <2>0
    <3>2. QED
      BY <2>1, <3>1, RsiExpanded DEF g
  <2>11. period + 1 \in Nat \ {0} /\ period + 1 <= n
    BY <1>8, <2>0
  <2>12. PointsFrom(period + 1, n, LAMBDA i : g[i - 1])
           = Drawn(period + 1, n, Shifted(g, period + 1, n))
    BY <2>0, <2>11, ShiftedDrawn
  <2>13. \A i \in period + 1 .. n : Shifted(g, period + 1, n)[i] = Shifted(f, period + 1, N)[i]
    <3>1. SUFFICES ASSUME NEW i \in period + 1 .. n
                   PROVE  Shifted(g, period + 1, n)[i] = Shifted(f, period + 1, N)[i]
      OBVIOUS
    <3>2. i - 1 \in period .. n - 1 /\ i \in period + 1 .. N
      BY <2>0, <1>1
    <3>3. QED
      BY <2>9, <3>2 DEF Shifted
  <2>14. n \in Nat
    OBVIOUS
  <2>15. Drawn(period + 1, n, Shifted(g, period + 1, n))
          = Drawn(period + 1, n, Shifted(f, period + 1, N))
    BY <2>11, <2>13, <2>14, DrawnAgrees
  <2>16. QED
    BY <2>10, <2>12, <2>15, Zenon DEF some
<1>9. ASSUME NEW n \in 0 .. N, n < period + 1
      PROVE  Rsi(period, SubSeq(prices, 1, n)) = Failed
  <2>1. Len(SubSeq(prices, 1, n)) = n
    BY PrefixIs
  <2>2. n <= period
    BY <1>1, <1>9
  <2>3. QED
    BY <2>1, <2>2, RsiExpanded, Zenon
<1>10. \A n \in 0 .. N : Rsi(period, SubSeq(prices, 1, n)) =
          IF n < period + 1 THEN Failed ELSE Drawn(period + 1, n, Shifted(f, period + 1, N))
  BY <1>1, <1>8, <1>9
<1>11. QED
  BY <1>10

-----------------------------------------------------------------------------
\* The other indicators.

\* The points of an average, where there are enough prices.
LEMMA EmaPoints ==
  ASSUME NEW prices, NEW period \in Nat \ {0}, NEW f, EmaOf(f, period, prices),
         NEW n \in 0 .. Len(prices), period <= n, Len(prices) \in Nat
  PROVE  \A i \in 1 .. n - period + 1 :
           Ema(period, SubSeq(prices, 1, n)).points[i].value = f[period + i - 1]
<1>1. Ema(period, SubSeq(prices, 1, n)) = Drawn(period, n, f)
  BY DEF EmaOf
<1>2. QED
  BY <1>1, DrawnIs DEF Points

\* The difference of the two averages of all prices, from the first bar that has both.
LineOf(fast, slow, prices, f, s) ==
  [i \in 1 .. Len(prices) - slow + 1 |-> f[i + slow - 1] - s[i + slow - 1]]

MacdLine(fast, slow, prices) ==
  [i \in 1 .. Len(prices) - slow + 1 |->
     Ema(fast, prices).points[i + slow - fast].value - Ema(slow, prices).points[i].value]

\* Macd, with its line and its signal named.
LEMMA MacdExpanded ==
  ASSUME NEW fast, NEW slow, NEW signal, NEW prices
  PROVE  Macd(fast, slow, signal, prices) =
           IF fast >= slow \/ 0 \in {fast, slow, signal} \/ Len(prices) < slow + signal - 1
           THEN Failed
           ELSE PointsFrom(slow + signal - 1, Len(prices),
                  LAMBDA i : MacdLine(fast, slow, prices)[i - slow + 1]
                    - Ema(signal, MacdLine(fast, slow, prices))
                        .points[i - slow - signal + 2].value)
BY Zenon DEF Macd, MacdLine

\* The histograms of every beginning of the prices are those of one function.
HistogramsOf(h, fast, slow, signal, prices) ==
  \A n \in 0 .. Len(prices) :
    Macd(fast, slow, signal, SubSeq(prices, 1, n)) =
      IF n < slow + signal - 1 THEN Failed ELSE Drawn(slow + signal - 1, n, h)

\* One function gives the histogram of every beginning of the prices: the line over a
\* beginning is the beginning of the line, and the signal is an average of it.
LEMMA MacdGrows ==
  ASSUME NEW prices \in Seq(Int), NEW fast \in Nat \ {0}, NEW slow \in Nat \ {0},
         NEW signal \in Nat \ {0}, fast < slow
  PROVE  \E h : HistogramsOf(h, fast, slow, signal, prices)
<1> DEFINE N == Len(prices)
           first == slow + signal - 1
<1>1. N \in Nat /\ first \in Nat \ {0} /\ slow <= first
  OBVIOUS
<1>2. PICK f : EmaOf(f, fast, prices)
  BY EmaGrows
<1>3. PICK s : EmaOf(s, slow, prices)
  BY EmaGrows
<1>4. ASSUME NEW n \in 0 .. N, n < first
      PROVE  Macd(fast, slow, signal, SubSeq(prices, 1, n)) = Failed
  <2>1. Len(SubSeq(prices, 1, n)) = n
    BY PrefixIs
  <2>2. QED
    BY <1>4, <2>1, MacdExpanded, Zenon
<1>5. CASE N < first
  <2>1. \A n \in 0 .. N : n < first
    BY <1>1, <1>5
  <2>2. HistogramsOf(0, fast, slow, signal, prices)
    BY <1>4, <2>1 DEF HistogramsOf
  <2>3. QED
    BY <2>2
<1>6. CASE first <= N
  <2> DEFINE line == LineOf(fast, slow, prices, f, s)
             M == N - slow + 1
  <2>1. M \in Nat /\ slow <= N
    BY <1>1, <1>6
  <2>2. line \in Seq(Int) /\ Len(line) = M
    <3>1. \A i \in 1 .. M : f[i + slow - 1] \in Int /\ s[i + slow - 1] \in Int
      <4>1. SUFFICES ASSUME NEW i \in 1 .. M
                     PROVE  f[i + slow - 1] \in Int /\ s[i + slow - 1] \in Int
        OBVIOUS
      <4>2. i + slow - 1 \in fast .. N /\ i + slow - 1 \in slow .. N
        BY <1>1
      <4>3. QED
        BY <1>2, <1>3, <4>2 DEF EmaOf
    <3>2. line = [i \in 1 .. M |-> f[i + slow - 1] - s[i + slow - 1]]
      BY DEF LineOf
    <3>3. \A i \in 1 .. M : f[i + slow - 1] - s[i + slow - 1] \in Int
      BY <3>1
    <3>4. QED
      BY <2>1, <3>2, <3>3
  <2>3. \A i \in 1 .. M : line[i] = f[i + slow - 1] - s[i + slow - 1]
    BY DEF LineOf
  <2> HIDE DEF line
  <2>4. PICK g : EmaOf(g, signal, line)
    BY <2>2, EmaGrows
  <2> DEFINE h == [i \in first .. N |-> line[i - slow + 1] - g[i - slow + 1]]
  <2>5. ASSUME NEW n \in 0 .. N, first <= n
        PROVE  Macd(fast, slow, signal, SubSeq(prices, 1, n)) = Drawn(first, n, h)
    <3> DEFINE some == SubSeq(prices, 1, n)
               m == n - slow + 1
               part == MacdLine(fast, slow, some)
    <3>1. n \in Nat /\ n <= N /\ m \in 0 .. M /\ slow <= n /\ fast <= n /\ signal <= m
      BY <1>1, <2>5
    <3>2. Len(some) = n
      BY PrefixIs
    <3>3. part = SubSeq(line, 1, m)
      <4>1. \A i \in 1 .. m : Ema(fast, some).points[i + slow - fast].value = f[i + slow - 1]
        <5>1. SUFFICES ASSUME NEW i \in 1 .. m
                       PROVE  Ema(fast, some).points[i + slow - fast].value = f[i + slow - 1]
          OBVIOUS
        <5>2. i + slow - fast \in 1 .. n - fast + 1
          BY <3>1
        <5>3. Ema(fast, some).points[i + slow - fast].value = f[fast + (i + slow - fast) - 1]
          BY <1>1, <1>2, <3>1, <5>2, EmaPoints
        <5>4. fast + (i + slow - fast) - 1 = i + slow - 1
          BY <3>1
        <5>5. QED
          BY <5>3, <5>4
      <4>2. \A i \in 1 .. m : Ema(slow, some).points[i].value = s[i + slow - 1]
        <5>1. SUFFICES ASSUME NEW i \in 1 .. m
                       PROVE  Ema(slow, some).points[i].value = s[i + slow - 1]
          OBVIOUS
        <5>2. Ema(slow, some).points[i].value = s[slow + i - 1]
          <6>1. i \in 1 .. n - slow + 1 /\ n \in 0 .. N
            BY <3>1
          <6>2. \A k \in 1 .. n - slow + 1 : Ema(slow, some).points[k].value = s[slow + k - 1]
            BY <1>1, <1>3, <3>1, EmaPoints
          <6>3. QED
            BY <6>1, <6>2
        <5>3. slow + i - 1 = i + slow - 1
          BY <3>1
        <5>4. QED
          BY <5>2, <5>3
      <4>3. \A i \in 1 .. m : i \in 1 .. M
        BY <3>1, <2>1
      <4>4. part = [i \in 1 .. m |-> line[i]]
        BY <2>3, <3>2, <4>1, <4>2, <4>3 DEF MacdLine
      <4>5. SubSeq(line, 1, m) = [i \in 1 .. m |-> line[i]]
        BY <2>2, <3>1
      <4>6. QED
        BY <4>4, <4>5
    <3>4. \A i \in first .. n :
            part[i - slow + 1] - Ema(signal, part).points[i - slow - signal + 2].value = h[i]
      <4>1. SUFFICES ASSUME NEW i \in first .. n
                     PROVE  part[i - slow + 1]
                              - Ema(signal, part).points[i - slow - signal + 2].value = h[i]
        OBVIOUS
      <4>2. /\ i - slow + 1 \in 1 .. m /\ i - slow - signal + 2 \in 1 .. m - signal + 1
            /\ i \in first .. N
        BY <1>1, <3>1
      <4>3. part[i - slow + 1] = line[i - slow + 1]
        BY <2>2, <3>1, <3>3, <4>2, PrefixIs
      <4>4. Ema(signal, part).points[i - slow - signal + 2].value
              = g[signal + (i - slow - signal + 2) - 1]
        <5> HIDE DEF part
        <5>1. Len(line) \in Nat /\ m \in 0 .. Len(line)
          BY <2>1, <2>2, <3>1
        <5>2. \A k \in 1 .. m - signal + 1 :
                Ema(signal, SubSeq(line, 1, m)).points[k].value = g[signal + k - 1]
          <6>1. signal <= m
            BY <3>1
          <6> HIDE DEF m
          <6>2. QED
            BY <2>4, <5>1, <6>1, EmaPoints
        <5>3. QED
          BY <3>3, <4>2, <5>2
      <4>5. signal + (i - slow - signal + 2) - 1 = i - slow + 1
        BY <3>1
      <4> HIDE DEF part
      <4>6. QED
        BY <4>2, <4>3, <4>4, <4>5
    <3> HIDE DEF part, h
    <3>5. PointsFrom(first, n, LAMBDA i : part[i - slow + 1]
                      - Ema(signal, part).points[i - slow - signal + 2].value)
            = Drawn(first, n, h)
      <4>1. \A i \in 1 .. n - first + 1 : first + i - 1 \in first .. n
        BY <1>1, <3>1
      <4> DEFINE V(i) == part[i - slow + 1] - Ema(signal, part).points[i - slow - signal + 2].value
      <4>2. \A i \in 1 .. n - first + 1 : V(first + i - 1) = h[first + i - 1]
        BY <3>4, <4>1
      <4> HIDE DEF V
      <4>3. [i \in 1 .. n - first + 1 |-> [index |-> first + i - 1, value |-> V(first + i - 1)]]
            = [i \in 1 .. n - first + 1 |-> [index |-> first + i - 1, value |-> h[first + i - 1]]]
        BY <4>2
      <4>4. QED
        BY <4>3, Zenon DEF PointsFrom, Drawn, V
    <3>6. ~(fast >= slow \/ 0 \in {fast, slow, signal} \/ Len(some) < first)
      BY <2>5, <3>1, <3>2
    <3>7. QED
      BY <3>2, <3>5, <3>6, MacdExpanded, Zenon DEF part
  <2>6. \A n \in 0 .. N : Macd(fast, slow, signal, SubSeq(prices, 1, n)) =
                            IF n < first THEN Failed ELSE Drawn(first, n, h)
    <3> HIDE DEF h
    <3>1. QED
      BY <1>1, <1>4, <2>5
  <2>7. HistogramsOf(h, fast, slow, signal, prices)
    BY <2>6 DEF HistogramsOf
  <2>8. QED
    BY <2>7
<1>7. QED
  BY <1>1, <1>5, <1>6

Squared(prices, m) == [j \in DOMAIN prices |-> (prices[j] - m) * (prices[j] - m)]
Middle(period, prices, i) == SumOver(prices, i - period + 1, i) \div period
Band(period, prices, i) ==
  [middle   |-> Middle(period, prices, i),
   variance |-> SumOver(Squared(prices, Middle(period, prices, i)), i - period + 1, i)
                  \div period]

\* Bollinger, with its windows named.
LEMMA BollingerExpanded ==
  ASSUME NEW period, NEW prices
  PROVE  Bollinger(period, prices) =
           IF period = 0 \/ Len(prices) < period THEN Failed
           ELSE PointsFrom(period, Len(prices), LAMBDA i : Band(period, prices, i))
BY Zenon DEF Bollinger, Band, Middle, Squared

\* The bands of every beginning of the prices are those of one function.
BandsOf(h, period, prices) ==
  \A n \in 0 .. Len(prices) :
    Bollinger(period, SubSeq(prices, 1, n)) =
      IF n < period THEN Failed ELSE Drawn(period, n, h)

\* One function gives the bands of every beginning of the prices.
LEMMA BollingerGrows ==
  ASSUME NEW prices \in Seq(Int), NEW period \in Nat \ {0}
  PROVE  \E h : BandsOf(h, period, prices)
<1> DEFINE N == Len(prices)
           h == [i \in period .. N |-> Band(period, prices, i)]
<1>1. N \in Nat
  OBVIOUS
<1>2. ASSUME NEW n \in 0 .. N, n < period
      PROVE  Bollinger(period, SubSeq(prices, 1, n)) = Failed
  <2>1. Len(SubSeq(prices, 1, n)) = n
    BY PrefixIs
  <2>2. QED
    BY <1>2, <2>1, BollingerExpanded, Zenon
<1>3. ASSUME NEW n \in 0 .. N, period <= n
      PROVE  Bollinger(period, SubSeq(prices, 1, n)) = Drawn(period, n, h)
  <2> DEFINE some == SubSeq(prices, 1, n)
  <2>1. /\ n \in Nat /\ Len(some) = n /\ DOMAIN some = 1 .. n /\ DOMAIN prices = 1 .. N
        /\ \A i \in 1 .. n : some[i] = prices[i]
    BY <1>1, PrefixIs
  <2> HIDE DEF some
  <2>2. ASSUME NEW i \in period .. n PROVE Band(period, some, i) = Band(period, prices, i)
    <3>1. \A j \in i - period + 1 .. i : j \in 1 .. n /\ j \in 1 .. N
      BY <1>1, <1>3
    <3>2. \A j \in i - period + 1 .. i : some[j] = prices[j]
      BY <2>1, <3>1
    <3>3. Middle(period, some, i) = Middle(period, prices, i)
      BY <3>2, SumSame DEF Middle
    <3>4. ASSUME NEW m
          PROVE  SumOver(Squared(some, m), i - period + 1, i)
                   = SumOver(Squared(prices, m), i - period + 1, i)
      <4>1. \A j \in i - period + 1 .. i : Squared(some, m)[j] = Squared(prices, m)[j]
        BY <2>1, <3>1, <3>2 DEF Squared
      <4>2. QED
        BY <4>1, SumSame
    <3>5. QED
      BY <3>3, <3>4 DEF Band
  <2>3. \A i \in 1 .. n - period + 1 : Band(period, some, period + i - 1) = h[period + i - 1]
    <3>1. SUFFICES ASSUME NEW i \in 1 .. n - period + 1
                   PROVE  Band(period, some, period + i - 1) = h[period + i - 1]
      OBVIOUS
    <3>2. period + i - 1 \in period .. n /\ period + i - 1 \in period .. N
      BY <1>1, <2>1
    <3>3. QED
      BY <2>2, <3>2
  <2> HIDE DEF h
  <2>4. [i \in 1 .. n - period + 1 |->
           [index |-> period + i - 1, value |-> Band(period, some, period + i - 1)]]
        = [i \in 1 .. n - period + 1 |-> [index |-> period + i - 1, value |-> h[period + i - 1]]]
    BY <2>3
  <2>5. PointsFrom(period, n, LAMBDA i : Band(period, some, i)) = Drawn(period, n, h)
    BY <2>4, Zenon DEF PointsFrom, Drawn
  <2>6. ~(period = 0 \/ Len(some) < period)
    BY <1>3, <2>1
  <2>7. QED
    BY <2>1, <2>5, <2>6, BollingerExpanded, Zenon DEF some
<1> HIDE DEF h
<1>4. \A n \in 0 .. N : Bollinger(period, SubSeq(prices, 1, n)) =
                          IF n < period THEN Failed ELSE Drawn(period, n, h)
  BY <1>1, <1>2, <1>3
<1>5. QED
  BY <1>4 DEF BandsOf

RangeAt(course, i) ==
  Larger(course[i].high - course[i].low,
         Larger(Distance(course[i].high, course[i - 1].close),
                Distance(course[i].low, course[i - 1].close)))
RangesIn(course) == [i \in 2 .. Len(course) |-> RangeAt(course, i)]

\* Atr, with its true ranges named.
LEMMA AtrExpanded ==
  ASSUME NEW period, NEW course
  PROVE  Atr(period, course) =
           IF period = 0 \/ Len(course) <= period THEN Failed
           ELSE PointsFrom(period + 1, Len(course),
                  LAMBDA i : SumOver(RangesIn(course), i - period + 1, i) \div period)
BY Zenon DEF Atr, RangesIn, RangeAt

\* One function gives the ranges of every beginning of the course.
LEMMA AtrGrows ==
  ASSUME NEW course \in Seq(Bar), NEW period \in Nat \ {0}
  PROVE  \E h : \A n \in 0 .. Len(course) :
           Atr(period, SubSeq(course, 1, n)) =
             IF n < period + 1 THEN Failed ELSE Drawn(period + 1, n, h)
<1> DEFINE N == Len(course)
           first == period + 1
           V(bs, i) == SumOver(RangesIn(bs), i - period + 1, i) \div period
           h == [i \in first .. N |-> V(course, i)]
<1>1. N \in Nat /\ first \in Nat \ {0}
  OBVIOUS
<1>2. ASSUME NEW n \in 0 .. N, n < first
      PROVE  Atr(period, SubSeq(course, 1, n)) = Failed
  <2>1. Len(SubSeq(course, 1, n)) = n /\ n <= period
    BY <1>2, PrefixIs
  <2>2. QED
    BY <2>1, AtrExpanded, Zenon
<1>3. ASSUME NEW n \in 0 .. N, first <= n
      PROVE  Atr(period, SubSeq(course, 1, n)) = Drawn(first, n, h)
  <2> DEFINE some == SubSeq(course, 1, n)
  <2>1. n \in Nat /\ Len(some) = n /\ \A i \in 1 .. n : some[i] = course[i]
    BY <1>1, PrefixIs
  <2> HIDE DEF some
  <2>2. \A i \in 2 .. n : RangesIn(some)[i] = RangesIn(course)[i]
    <3>1. SUFFICES ASSUME NEW i \in 2 .. n PROVE RangesIn(some)[i] = RangesIn(course)[i]
      OBVIOUS
    <3>2. i \in 1 .. n /\ i - 1 \in 1 .. n /\ i \in 2 .. N
      BY <1>1, <2>1
    <3>3. RangeAt(some, i) = RangeAt(course, i)
      BY <2>1, <3>2 DEF RangeAt
    <3>4. QED
      BY <2>1, <3>2, <3>3 DEF RangesIn
  <2>3. ASSUME NEW i \in first .. n PROVE V(some, i) = V(course, i)
    <3>1. \A j \in i - period + 1 .. i : j \in 2 .. n
      BY <2>1
    <3>2. SumOver(RangesIn(some), i - period + 1, i) = SumOver(RangesIn(course), i - period + 1, i)
      BY <2>2, <3>1, SumSame
    <3>3. QED
      BY <3>2
  <2> HIDE DEF V
  <2>4. \A i \in 1 .. n - first + 1 : V(some, first + i - 1) = h[first + i - 1]
    <3>1. SUFFICES ASSUME NEW i \in 1 .. n - first + 1
                   PROVE  V(some, first + i - 1) = h[first + i - 1]
      OBVIOUS
    <3>2. first + i - 1 \in first .. n /\ first + i - 1 \in first .. N
      BY <1>1, <2>1
    <3>3. QED
      BY <2>3, <3>2
  <2> HIDE DEF h
  <2>5. [i \in 1 .. n - first + 1 |->
           [index |-> first + i - 1, value |-> V(some, first + i - 1)]]
        = [i \in 1 .. n - first + 1 |-> [index |-> first + i - 1, value |-> h[first + i - 1]]]
    BY <2>4
  <2>6. PointsFrom(first, n, LAMBDA i : V(some, i)) = Drawn(first, n, h)
    BY <2>5, Zenon DEF PointsFrom, Drawn
  <2>7. ~(period = 0 \/ Len(some) <= period)
    BY <1>3, <2>1
  <2>8. QED
    BY <2>1, <2>6, <2>7, AtrExpanded, Zenon DEF some, V
<1> HIDE DEF h
<1>4. \A n \in 0 .. N : Atr(period, SubSeq(course, 1, n)) =
                          IF n < first THEN Failed ELSE Drawn(first, n, h)
  BY <1>1, <1>2, <1>3
<1>5. QED
  BY <1>4

VolumesOf(course) == [j \in DOMAIN course |-> course[j].volume]
VolumeTo(course, i) == SumOver(VolumesOf(course), 1, i)
PaidTo(course, i) ==
  SumOver([j \in DOMAIN course |-> course[j].close * VolumesOf(course)[j]], 1, i)

\* Vwap, with its sums named.
LEMMA VwapExpanded ==
  ASSUME NEW course
  PROVE  Vwap(course) =
           IF Len(course) = 0 \/ \E i \in DOMAIN course : VolumeTo(course, i) = 0 THEN Failed
           ELSE PointsFrom(1, Len(course),
                           LAMBDA i : PaidTo(course, i) \div VolumeTo(course, i))
BY Zenon DEF Vwap, VolumeTo, PaidTo, VolumesOf

\* The volume so far never shrinks.
LEMMA VolumesGrow ==
  ASSUME NEW course \in Seq(Bar), Len(course) > 0
  PROVE  /\ VolumeTo(course, 1) = course[1].volume
         /\ \A i \in 1 .. Len(course) :
              VolumeTo(course, i) \in Nat /\ VolumeTo(course, i) >= course[1].volume
<1> DEFINE N == Len(course)
           Q == {i \in Nat : VolumeTo(course, i) \in Nat /\ VolumeTo(course, i) >= course[1].volume}
           Part(i) == [j \in 1 .. i |-> VolumesOf(course)[j]]
<1>1. N \in Nat /\ DOMAIN course = 1 .. N /\ \A i \in 1 .. N : VolumesOf(course)[i] \in Nat
  <2>1. N \in Nat /\ DOMAIN course = 1 .. N /\ \A i \in 1 .. N : course[i] \in Bar
    OBVIOUS
  <2>2. QED
    BY <2>1 DEF VolumesOf, Bar
<1>2. VolumesOf(course)[1] = course[1].volume
  BY <1>1 DEF VolumesOf
<1>3. \A i : VolumeTo(course, i) = SumFunction(Part(i))
  BY Zenon DEF VolumeTo, SumOver
<1>4. \A i \in 0 .. N : Whole(Part(i))
  <2>1. SUFFICES ASSUME NEW i \in 0 .. N PROVE Whole(Part(i))
    OBVIOUS
  <2>2. IsFiniteSet(1 .. i)
    BY FS_Interval
  <2>3. \A j \in 1 .. i : VolumesOf(course)[j] \in Int
    BY <1>1
  <2>4. QED
    BY <2>2, <2>3 DEF Whole
<1>5. \A i \in 0 .. N : i < N =>
        SumFunction(Part(i + 1)) = SumFunction(Part(i)) + VolumesOf(course)[i + 1]
  <2>1. SUFFICES ASSUME NEW i \in 0 .. N, i < N
                 PROVE  SumFunction(Part(i + 1)) = SumFunction(Part(i)) + VolumesOf(course)[i + 1]
    OBVIOUS
  <2>2. OneMore(Part(i), Part(i + 1), i + 1)
    <3>1. i + 1 \in 1 .. N /\ i \in Nat
      BY <1>1, <2>1
    <3>2. i + 1 \notin 1 .. i /\ 1 .. i + 1 = (1 .. i) \cup {i + 1}
      BY <3>1
    <3>3. Part(i + 1)[i + 1] \in Int /\ \A y \in 1 .. i : Part(i + 1)[y] = Part(i)[y]
      BY <1>1, <3>1
    <3>4. DOMAIN Part(i) = 1 .. i /\ DOMAIN Part(i + 1) = 1 .. i + 1
      OBVIOUS
    <3> HIDE DEF Part
    <3>5. QED
      BY <3>2, <3>3, <3>4 DEF OneMore
  <2>3. Part(i + 1)[i + 1] = VolumesOf(course)[i + 1]
    OBVIOUS
  <2> HIDE DEF Part
  <2>4. QED
    BY <1>4, <2>2, <2>3, SumAdd
<1>6. SumFunction(Part(0)) = 0
  <2>1. DOMAIN Part(0) = {}
    OBVIOUS
  <2> HIDE DEF Part
  <2>2. QED
    BY <2>1, SumOfNone
<1> HIDE DEF Part
<1>7. VolumeTo(course, 1) = course[1].volume
  <2>1. SumFunction(Part(0 + 1)) = 0 + VolumesOf(course)[0 + 1]
    BY <1>1, <1>5, <1>6
  <2>2. QED
    BY <1>1, <1>2, <1>3, <2>1
<1>8. 1 \in Q
  BY <1>1, <1>2, <1>7
<1>9. ASSUME NEW i \in 1 .. N, i < N, i \in Q PROVE i + 1 \in Q
  <2>1. VolumeTo(course, i + 1) = VolumeTo(course, i) + VolumesOf(course)[i + 1]
    BY <1>1, <1>3, <1>5, <1>9
  <2>2. VolumesOf(course)[i + 1] \in Nat /\ VolumesOf(course)[1] \in Nat
    BY <1>1, <1>9
  <2>3. QED
    BY <1>2, <1>9, <2>1, <2>2
<1>10. \A i \in 1 .. N : i \in Q
  <2> HIDE DEF Q
  <2>1. QED
    BY <1>1, <1>8, <1>9, IntervalInd
<1>11. QED
  BY <1>7, <1>10

\* One function gives the averages of every beginning of the course, unless the first
\* bar has no volume: then every beginning fails.
LEMMA VwapGrows ==
  ASSUME NEW course \in Seq(Bar), Len(course) > 0
  PROVE  \E h : \A n \in 1 .. Len(course) :
           Vwap(SubSeq(course, 1, n)) =
             IF course[1].volume = 0 THEN Failed ELSE Drawn(1, n, h)
<1> DEFINE N == Len(course)
           V(bs, i) == PaidTo(bs, i) \div VolumeTo(bs, i)
           h == [i \in 1 .. N |-> V(course, i)]
<1>1. N \in Nat /\ DOMAIN course = 1 .. N
  OBVIOUS
<1>2. ASSUME NEW n \in 1 .. N
      PROVE  Vwap(SubSeq(course, 1, n)) =
               IF course[1].volume = 0 THEN Failed ELSE Drawn(1, n, h)
  <2> DEFINE some == SubSeq(course, 1, n)
  <2>1. /\ n \in Nat /\ 1 <= n /\ Len(some) = n /\ DOMAIN some = 1 .. n
        /\ \A i \in 1 .. n : some[i] = course[i]
    BY <1>1, PrefixIs
  <2> HIDE DEF some
  <2>2. \A i \in 1 .. n : i \in 1 .. N
    BY <1>1
  <2>3. \A i \in 1 .. n : VolumesOf(some)[i] = VolumesOf(course)[i]
    BY <1>1, <2>1, <2>2 DEF VolumesOf
  <2>4. ASSUME NEW i \in 1 .. n
        PROVE  VolumeTo(some, i) = VolumeTo(course, i) /\ PaidTo(some, i) = PaidTo(course, i)
    <3>1. \A j \in 1 .. i : j \in 1 .. n /\ j \in 1 .. N
      BY <1>1
    <3>2. VolumeTo(some, i) = VolumeTo(course, i)
      BY <2>3, <3>1, SumSame DEF VolumeTo
    <3> DEFINE Paid(bs) == [j \in DOMAIN bs |-> bs[j].close * VolumesOf(bs)[j]]
    <3>3. \A j \in 1 .. i : Paid(some)[j] = Paid(course)[j]
      BY <1>1, <2>1, <2>3, <3>1
    <3> HIDE DEF Paid
    <3>4. SumOver(Paid(some), 1, i) = SumOver(Paid(course), 1, i)
      BY <3>3, SumSame
    <3>5. QED
      BY <3>2, <3>4 DEF PaidTo, Paid
  <2>5. CASE course[1].volume = 0
    <3>1. VolumeTo(some, 1) = 0 /\ 1 \in DOMAIN some
      BY <2>1, <2>4, <2>5, VolumesGrow
    <3>2. QED
      BY <2>5, <3>1, VwapExpanded DEF some
  <2>6. CASE course[1].volume # 0
    <3>1. \A i \in DOMAIN some : VolumeTo(some, i) # 0
      <4>1. course[1] \in Bar
        BY <1>1
      <4>2. course[1].volume \in Nat
        BY <4>1 DEF Bar
      <4>3. \A i \in 1 .. n : VolumeTo(course, i) \in Nat /\ VolumeTo(course, i) >= course[1].volume
        BY <2>2, VolumesGrow
      <4>4. QED
        BY <2>1, <2>4, <2>6, <4>2, <4>3
    <3>2. \A i \in 1 .. n - 1 + 1 : V(some, 1 + i - 1) = h[1 + i - 1]
      <4>1. SUFFICES ASSUME NEW i \in 1 .. n - 1 + 1 PROVE V(some, 1 + i - 1) = h[1 + i - 1]
        OBVIOUS
      <4>2. 1 + i - 1 \in 1 .. n /\ 1 + i - 1 \in 1 .. N
        BY <1>1, <2>1
      <4>3. QED
        BY <2>4, <4>2
    <3> HIDE DEF h, V
    <3>3. [i \in 1 .. n - 1 + 1 |-> [index |-> 1 + i - 1, value |-> V(some, 1 + i - 1)]]
          = [i \in 1 .. n - 1 + 1 |-> [index |-> 1 + i - 1, value |-> h[1 + i - 1]]]
      BY <3>2
    <3>4. PointsFrom(1, n, LAMBDA i : V(some, i)) = Drawn(1, n, h)
      BY <3>3, Zenon DEF PointsFrom, Drawn
    <3>5. ~(Len(some) = 0 \/ \E i \in DOMAIN some : VolumeTo(some, i) = 0)
      BY <2>1, <3>1
    <3>6. Vwap(some) = Drawn(1, n, h)
      BY <2>1, <3>4, <3>5, VwapExpanded, Zenon DEF V
    <3>7. QED
      BY <2>6, <3>6 DEF some
  <2>7. QED
    BY <2>5, <2>6
<1> HIDE DEF h
<1>3. QED
  BY <1>2

-----------------------------------------------------------------------------
\* What every indicator has in common.

\* Its points over a growing history are those of one function from one bar on.
Steady(indicator, course) ==
  \E first \in Nat \ {0} : \E h : \A n \in 1 .. Len(course) :
    Calculate(indicator, SubSeq(course, 1, n)) =
      IF n < first THEN Failed ELSE Drawn(first, n, h)

\* An indicator that fails on every beginning of a course is steady.
LEMMA AlwaysFails ==
  ASSUME NEW indicator, NEW course \in Seq(Bar),
         \A n \in 1 .. Len(course) : Calculate(indicator, SubSeq(course, 1, n)) = Failed
  PROVE  Steady(indicator, course)
<1>1. Len(course) + 1 \in Nat \ {0} /\ \A n \in 1 .. Len(course) : n < Len(course) + 1
  OBVIOUS
<1>2. QED
  BY <1>1 DEF Steady

\* The closes of the first bars are the first closes.
LEMMA ClosesGrow ==
  ASSUME NEW course \in Seq(Bar), NEW n \in 0 .. Len(course)
  PROVE  /\ ClosePrices(course) \in Seq(Int) /\ Len(ClosePrices(course)) = Len(course)
         /\ ClosePrices(SubSeq(course, 1, n)) = SubSeq(ClosePrices(course), 1, n)
<1>1. Len(course) \in Nat /\ DOMAIN course = 1 .. Len(course)
  OBVIOUS
<1>2. \A i \in 1 .. Len(course) : course[i].close \in Int
  <2>1. \A i \in 1 .. Len(course) : course[i] \in Bar
    BY <1>1
  <2>2. QED
    BY <2>1, SMTT(30) DEF Bar
<1>3. ClosePrices(course) \in Seq(Int) /\ Len(ClosePrices(course)) = Len(course)
  BY <1>1, <1>2 DEF ClosePrices
<1>4. \A i \in 1 .. n : i \in 1 .. Len(course)
  BY <1>1
<1>5. ClosePrices(SubSeq(course, 1, n)) = [i \in 1 .. n |-> course[i].close]
  BY <1>1, PrefixIs DEF ClosePrices
<1>6. SubSeq(ClosePrices(course), 1, n) = [i \in 1 .. n |-> course[i].close]
  <2>1. SubSeq(ClosePrices(course), 1, n) = [i \in 1 .. n |-> ClosePrices(course)[i]]
    BY <1>1, <1>3
  <2>2. QED
    BY <1>1, <1>4, <2>1 DEF ClosePrices
<1>7. QED
  BY <1>3, <1>5, <1>6

\* Every indicator is steady over every course.
LEMMA AllSteady ==
  ASSUME NEW course \in Seq(Bar), Len(course) > 0, NEW indicator, IndicatorType(indicator)
  PROVE  Steady(indicator, course)
<1> DEFINE N == Len(course)
           prices == ClosePrices(course)
           Part(n) == SubSeq(course, 1, n)
<1>1. /\ N \in Nat /\ prices \in Seq(Int) /\ Len(prices) = N
      /\ \A n \in 1 .. N : n \in 0 .. N /\ ClosePrices(Part(n)) = SubSeq(prices, 1, n)
  BY ClosesGrow
<1> HIDE DEF prices, Part
<1>2. CASE indicator.name = "ema"
  <2>1. \A n : Calculate(indicator, Part(n)) = Ema(indicator.period, ClosePrices(Part(n)))
    BY <1>2 DEF Calculate
  <2>2. CASE indicator.period = 0
    <3>1. \A n : Calculate(indicator, Part(n)) = Failed
      BY <2>1, <2>2, EmaExpanded
    <3>2. QED
      BY <3>1, AlwaysFails DEF Part
  <2>3. CASE indicator.period # 0
    <3>1. indicator.period \in Nat \ {0}
      BY <1>2, <2>3 DEF IndicatorType
    <3>2. PICK f : EmaOf(f, indicator.period, prices)
      BY <1>1, <3>1, EmaGrows
    <3>3. \A n \in 1 .. N : Calculate(indicator, Part(n)) =
            IF n < indicator.period THEN Failed ELSE Drawn(indicator.period, n, f)
      BY <1>1, <2>1, <3>2 DEF EmaOf
    <3>4. QED
      BY <3>1, <3>3 DEF Steady, Part
  <2>4. QED
    BY <2>2, <2>3
<1>3. CASE indicator.name = "rsi"
  <2>1. \A n : Calculate(indicator, Part(n)) = Rsi(indicator.period, ClosePrices(Part(n)))
    BY <1>3 DEF Calculate
  <2>2. CASE indicator.period = 0
    <3>1. \A n : Calculate(indicator, Part(n)) = Failed
      BY <2>1, <2>2, RsiExpanded
    <3>2. QED
      BY <3>1, AlwaysFails DEF Part
  <2>3. CASE indicator.period # 0
    <3>1. indicator.period \in Nat \ {0} /\ indicator.period + 1 \in Nat \ {0}
      BY <1>3, <2>3 DEF IndicatorType
    <3>2. PICK f : \A n \in 0 .. N : Rsi(indicator.period, SubSeq(prices, 1, n)) =
                     IF n < indicator.period + 1 THEN Failed
                     ELSE Drawn(indicator.period + 1, n, f)
      BY <1>1, <3>1, RsiGrows
    <3>3. \A n \in 1 .. N : Calculate(indicator, Part(n)) =
            IF n < indicator.period + 1 THEN Failed ELSE Drawn(indicator.period + 1, n, f)
      BY <1>1, <2>1, <3>2
    <3>4. QED
      BY <3>1, <3>3 DEF Steady, Part
  <2>4. QED
    BY <2>2, <2>3
<1>4. CASE indicator.name = "macd"
  <2> DEFINE fast == indicator.fast
             slow == indicator.slow
             signal == indicator.signal
  <2>1. \A n : Calculate(indicator, Part(n)) = Macd(fast, slow, signal, ClosePrices(Part(n)))
    BY <1>4 DEF Calculate
  <2>2. fast \in Nat /\ slow \in Nat /\ signal \in Nat
    BY <1>4 DEF IndicatorType
  <2> HIDE DEF fast, slow, signal
  <2>3. CASE fast >= slow \/ 0 \in {fast, slow, signal}
    <3>1. \A n : Calculate(indicator, Part(n)) = Failed
      BY <2>1, <2>3, MacdExpanded
    <3>2. QED
      BY <3>1, AlwaysFails DEF Part
  <2>4. CASE ~(fast >= slow \/ 0 \in {fast, slow, signal})
    <3>1. /\ fast \in Nat \ {0} /\ slow \in Nat \ {0} /\ signal \in Nat \ {0} /\ fast < slow
          /\ slow + signal - 1 \in Nat \ {0}
      BY <2>2, <2>4
    <3>2. PICK f : HistogramsOf(f, fast, slow, signal, prices)
      BY <1>1, <3>1, MacdGrows
    <3>3. \A n \in 1 .. N : Calculate(indicator, Part(n)) =
            IF n < slow + signal - 1 THEN Failed ELSE Drawn(slow + signal - 1, n, f)
      BY <1>1, <2>1, <3>2 DEF HistogramsOf
    <3>4. QED
      BY <3>1, <3>3 DEF Steady, Part
  <2>5. QED
    BY <2>3, <2>4
<1>5. CASE indicator.name = "bollinger"
  <2>1. \A n : Calculate(indicator, Part(n)) = Bollinger(indicator.period, ClosePrices(Part(n)))
    BY <1>5 DEF Calculate
  <2>2. CASE indicator.period = 0
    <3>1. \A n : Calculate(indicator, Part(n)) = Failed
      BY <2>1, <2>2, BollingerExpanded
    <3>2. QED
      BY <3>1, AlwaysFails DEF Part
  <2>3. CASE indicator.period # 0
    <3>1. indicator.period \in Nat \ {0}
      BY <1>5, <2>3 DEF IndicatorType
    <3>2. PICK f : BandsOf(f, indicator.period, prices)
      BY <1>1, <3>1, BollingerGrows
    <3>3. \A n \in 1 .. N : Calculate(indicator, Part(n)) =
            IF n < indicator.period THEN Failed ELSE Drawn(indicator.period, n, f)
      BY <1>1, <2>1, <3>2 DEF BandsOf
    <3>4. QED
      BY <3>1, <3>3 DEF Steady, Part
  <2>4. QED
    BY <2>2, <2>3
<1>6. CASE indicator.name = "atr"
  <2>1. \A n : Calculate(indicator, Part(n)) = Atr(indicator.period, Part(n))
    BY <1>6 DEF Calculate
  <2>2. CASE indicator.period = 0
    <3>1. \A n : Calculate(indicator, Part(n)) = Failed
      BY <2>1, <2>2, AtrExpanded
    <3>2. QED
      BY <3>1, AlwaysFails DEF Part
  <2>3. CASE indicator.period # 0
    <3>1. indicator.period \in Nat \ {0} /\ indicator.period + 1 \in Nat \ {0}
      BY <1>6, <2>3 DEF IndicatorType
    <3>2. PICK f : \A n \in 0 .. N : Atr(indicator.period, Part(n)) =
                     IF n < indicator.period + 1 THEN Failed
                     ELSE Drawn(indicator.period + 1, n, f)
      BY <3>1, AtrGrows DEF Part
    <3>3. \A n \in 1 .. N : Calculate(indicator, Part(n)) =
            IF n < indicator.period + 1 THEN Failed ELSE Drawn(indicator.period + 1, n, f)
      BY <1>1, <2>1, <3>2
    <3>4. QED
      BY <3>1, <3>3 DEF Steady, Part
  <2>4. QED
    BY <2>2, <2>3
<1>7. CASE indicator.name = "vwap"
  <2>1. \A n : Calculate(indicator, Part(n)) = Vwap(Part(n))
    BY <1>7 DEF Calculate
  <2>2. PICK f : \A n \in 1 .. N : Vwap(Part(n)) =
                   IF course[1].volume = 0 THEN Failed ELSE Drawn(1, n, f)
    BY VwapGrows DEF Part
  <2>3. CASE course[1].volume = 0
    <3>1. \A n \in 1 .. N : Calculate(indicator, Part(n)) = Failed
      BY <2>1, <2>2, <2>3
    <3>2. QED
      BY <3>1, AlwaysFails DEF Part
  <2>4. CASE course[1].volume # 0
    <3>1. \A n \in 1 .. N : Calculate(indicator, Part(n)) = IF n < 1 THEN Failed ELSE Drawn(1, n, f)
      BY <2>1, <2>2, <2>4
    <3>2. 1 \in Nat \ {0}
      OBVIOUS
    <3>3. QED
      BY <3>1, <3>2 DEF Steady, Part
  <2>5. QED
    BY <2>3, <2>4
<1>8. CASE indicator.name \notin {"ema", "rsi", "macd", "bollinger", "atr", "vwap"}
  <2>1. \A n : Calculate(indicator, Part(n)) = Failed
    BY <1>8 DEF Calculate
  <2>2. QED
    BY <2>1, AlwaysFails DEF Part
<1>9. QED
  BY <1>2, <1>3, <1>4, <1>5, <1>6, <1>7, <1>8

-----------------------------------------------------------------------------
\* The engine.

\* The points drawn, one by one.
LEMMA DrawnLast ==
  ASSUME NEW first \in Nat \ {0}, NEW n \in Nat, first <= n, NEW h, NEW points,
         points = Drawn(first, n, h)
  PROVE  /\ points.ok /\ Len(points.points) = n - first + 1
         /\ DOMAIN points.points = 1 .. n - first + 1
         /\ \A i \in 1 .. n - first + 1 :
              points.points[i] = [index |-> first + i - 1, value |-> h[first + i - 1]]
<1> DEFINE g == [i \in 1 .. n - first + 1 |->
                     [index |-> first + i - 1, value |-> h[first + i - 1]]]
<1>1. points = [ok |-> TRUE, points |-> g]
  BY DrawnIs DEF Points
<1>2. points.ok /\ points.points = g
  <2> HIDE DEF g
  <2>1. QED
    BY <1>1
<1>3. n - first + 1 \in Nat
  OBVIOUS
<1>4. Len(g) = n - first + 1 /\ DOMAIN g = 1 .. n - first + 1
  BY <1>3
<1>5. \A i \in 1 .. n - first + 1 : g[i] = [index |-> first + i - 1, value |-> h[first + i - 1]]
  OBVIOUS
<1> HIDE DEF g
<1>6. QED
  BY <1>2, <1>4, <1>5

\* GET /indicators for one indicator with full_series: a failed calculation is a 400.
WholeChart(indicator, history) == GetIndicators(<< indicator >>, history, TRUE)

\* Its answers.
LEMMA WholeChartIs ==
  ASSUME NEW indicator, NEW history, history # << >>
  PROVE  /\ Calculate(indicator, history) = Failed => WholeChart(indicator, history).status = 400
         /\ Calculate(indicator, history).ok =>
              /\ WholeChart(indicator, history).status = 200
              /\ WholeChart(indicator, history).values[1] = Series(indicator, history)
<1> DEFINE one == << indicator >>
<1>1. DOMAIN one = {1} /\ one[1] = indicator
  OBVIOUS
<1>2. [i \in DOMAIN one |-> Series(one[i], history)][1] = Series(indicator, history)
  BY <1>1
<1>3. (\E i \in DOMAIN one : ~Calculate(one[i], history).ok) <=> ~Calculate(indicator, history).ok
  BY <1>1
<1> HIDE DEF one
<1>4. GetIndicators(one, history, TRUE) =
        IF \E i \in DOMAIN one : ~Calculate(one[i], history).ok
        THEN [status |-> 400, values |-> << >>]
        ELSE [status |-> 200, values |-> [i \in DOMAIN one |-> Series(one[i], history)]]
  BY Zenon DEF GetIndicators
<1>5. WholeChart(indicator, history) =
        IF \E i \in DOMAIN one : ~Calculate(one[i], history).ok
        THEN [status |-> 400, values |-> << >>]
        ELSE [status |-> 200, values |-> [i \in DOMAIN one |-> Series(one[i], history)]]
  BY <1>4, Zenon DEF WholeChart, one
<1>6. Calculate(indicator, history) = Failed => ~Calculate(indicator, history).ok
  BY DEF Failed
<1>7. QED
  BY <1>2, <1>3, <1>5, <1>6

\* GET /indicators for one indicator without full_series.
NewestPoint(indicator, history) == GetIndicators(<< indicator >>, history, FALSE)

\* Its answers.
LEMMA NewestPointIs ==
  ASSUME NEW indicator, NEW history, history # << >>
  PROVE  /\ Calculate(indicator, history) = Failed => NewestPoint(indicator, history).status = 400
         /\ Calculate(indicator, history).ok =>
              /\ NewestPoint(indicator, history).status = 200
              /\ NewestPoint(indicator, history).values[1] = Latest(indicator, history)
<1> DEFINE one == << indicator >>
<1>1. DOMAIN one = {1} /\ one[1] = indicator
  OBVIOUS
<1>2. [i \in DOMAIN one |-> Latest(one[i], history)][1] = Latest(indicator, history)
  BY <1>1
<1>3. (\E i \in DOMAIN one : ~Calculate(one[i], history).ok) <=> ~Calculate(indicator, history).ok
  BY <1>1
<1> HIDE DEF one
<1>4. GetIndicators(one, history, FALSE) =
        IF \E i \in DOMAIN one : ~Calculate(one[i], history).ok
        THEN [status |-> 400, values |-> << >>]
        ELSE [status |-> 200, values |-> [i \in DOMAIN one |-> Latest(one[i], history)]]
  BY Zenon DEF GetIndicators
<1>5. NewestPoint(indicator, history) =
        IF \E i \in DOMAIN one : ~Calculate(one[i], history).ok
        THEN [status |-> 400, values |-> << >>]
        ELSE [status |-> 200, values |-> [i \in DOMAIN one |-> Latest(one[i], history)]]
  BY <1>4, Zenon DEF NewestPoint, one
<1>6. Calculate(indicator, history) = Failed => ~Calculate(indicator, history).ok
  BY DEF Failed
<1>7. QED
  BY <1>2, <1>3, <1>5, <1>6

\* A failed calculation answers no chart at all.
LEMMA NoChart ==
  ASSUME NEW indicator, NEW history, history # << >>,
         Calculate(indicator, history) = Failed
  PROVE  WholeChart(indicator, history).status = 400 /\ NewestPoint(indicator, history).status = 400
<1>1. WholeChart(indicator, history).status = 400
  BY WholeChartIs
<1>2. NewestPoint(indicator, history).status = 400
  BY NewestPointIs
<1>3. QED
  BY <1>1, <1>2

\* Of two sequences cut from one function the shorter is a prefix of the longer.
LEMMA CutIsPrefix ==
  ASSUME NEW e, NEW m \in Nat, NEW k \in 0 .. m, NEW s, NEW t,
         s = [i \in 1 .. k |-> e[i]], t = [i \in 1 .. m |-> e[i]]
  PROVE  IsPrefix(s, t)
<1> DEFINE S == {e[i] : i \in 1 .. m}
<1>1. s \in Seq(S) /\ t \in Seq(S) /\ Len(s) = k /\ Len(t) = m
  <2>1. \A i \in 1 .. m : e[i] \in S
    OBVIOUS
  <2> HIDE DEF S
  <2>2. QED
    BY <2>1
<1> HIDE DEF S
<1>2. SubSeq(s, 1, k) = [i \in 1 .. k |-> s[i]] /\ SubSeq(t, 1, k) = [i \in 1 .. k |-> t[i]]
  BY <1>1
<1>3. \A i \in 1 .. k : s[i] = t[i]
  OBVIOUS
<1>4. QED
  BY <1>1, <1>2, <1>3 DEF IsPrefix

\* One indicator over the history of a bar and of the bar before it.
Grows(indicator, course, n) ==
  /\ WholeChart(indicator, SubSeq(course, 1, n - 1)).status = 200 =>
       /\ WholeChart(indicator, SubSeq(course, 1, n)).status = 200
       /\ IsPrefix(WholeChart(indicator, SubSeq(course, 1, n - 1)).values[1],
                   WholeChart(indicator, SubSeq(course, 1, n)).values[1])
  /\ NewestPoint(indicator, SubSeq(course, 1, n)).status = WholeChart(indicator, SubSeq(course, 1, n)).status
  /\ WholeChart(indicator, SubSeq(course, 1, n)).status = 200 =>
       \E newest \in {WholeChart(indicator, SubSeq(course, 1, n)).values[1][
                       Len(WholeChart(indicator, SubSeq(course, 1, n)).values[1])]} :
         /\ newest.timestamp = course[n].timestamp
         /\ NewestPoint(indicator, SubSeq(course, 1, n)).values[1].value = newest.value

\* The series over the first n bars.
SeriesTo(course, first, h, n) ==
  [i \in 1 .. n - first + 1 |->
     [timestamp |-> course[first + i - 1].timestamp, value |-> h[first + i - 1]]]

\* The series of an indicator whose points are drawn by a function.
LEMMA SeriesIs ==
  ASSUME NEW course \in Seq(Bar), NEW n \in 1 .. Len(course), NEW indicator,
         NEW first \in Nat \ {0}, first <= n, NEW h,
         Calculate(indicator, SubSeq(course, 1, n)) = Drawn(first, n, h)
  PROVE  Series(indicator, SubSeq(course, 1, n)) = SeriesTo(course, first, h, n)
<1> DEFINE some == SubSeq(course, 1, n)
           points == Calculate(indicator, some).points
<1>1. n \in 0 .. Len(course) /\ n \in Nat
  OBVIOUS
<1>2. \A i \in 1 .. n : some[i] = course[i]
  BY <1>1, PrefixIs
<1>3. /\ DOMAIN points = 1 .. n - first + 1
      /\ \A i \in 1 .. n - first + 1 :
           points[i] = [index |-> first + i - 1, value |-> h[first + i - 1]]
  BY <1>1, DrawnLast
<1> HIDE DEF some, points
<1>4. \A i \in 1 .. n - first + 1 : first + i - 1 \in 1 .. n
  BY <1>1
<1>5. [i \in DOMAIN points |->
         [timestamp |-> some[points[i].index].timestamp, value |-> points[i].value]]
      = SeriesTo(course, first, h, n)
  BY <1>2, <1>3, <1>4 DEF SeriesTo
<1>6. QED
  BY <1>5 DEF Series, points, some

\* The series over n bars ends at bar n.
LEMMA SeriesEnds ==
  ASSUME NEW course, NEW n \in Nat, NEW first \in Nat \ {0}, first <= n, NEW h, NEW series,
         series = SeriesTo(course, first, h, n)
  PROVE  series[Len(series)] = [timestamp |-> course[n].timestamp, value |-> h[n]]
<1> DEFINE e == [i \in Nat |-> [timestamp |-> course[first + i - 1].timestamp,
                                value |-> h[first + i - 1]]]
           m == n - first + 1
<1>1. m \in Nat /\ m \in 1 .. m /\ first + m - 1 = n
  OBVIOUS
<1>2. series = [i \in 1 .. m |-> e[i]]
  BY DEF SeriesTo
<1>3. Len(series) = m /\ series[m] = e[m]
  <2> HIDE DEF e, m
  <2>1. QED
    BY <1>1, <1>2
<1>4. e[m] = [timestamp |-> course[n].timestamp, value |-> h[n]]
  <2>1. e[m] = [timestamp |-> course[first + m - 1].timestamp, value |-> h[first + m - 1]]
    BY <1>1
  <2> HIDE DEF e, m
  <2>2. QED
    BY <1>1, <2>1
<1> HIDE DEF e, m
<1>5. QED
  BY <1>3, <1>4

\* The series over n - 1 bars is a prefix of the series over n.
LEMMA SeriesGrows ==
  ASSUME NEW course, NEW n \in Nat, NEW first \in Nat \ {0}, first <= n - 1, NEW h
  PROVE  IsPrefix(SeriesTo(course, first, h, n - 1), SeriesTo(course, first, h, n))
<1> DEFINE e == [i \in Nat |-> [timestamp |-> course[first + i - 1].timestamp,
                                value |-> h[first + i - 1]]]
<1>1. SeriesTo(course, first, h, n) = [i \in 1 .. n - first + 1 |-> e[i]]
  BY DEF SeriesTo
<1>2. SeriesTo(course, first, h, n - 1) = [i \in 1 .. (n - 1) - first + 1 |-> e[i]]
  BY DEF SeriesTo
<1>3. n - first + 1 \in Nat /\ (n - 1) - first + 1 \in 0 .. n - first + 1
  OBVIOUS
<1> HIDE DEF e
<1>4. QED
  BY <1>1, <1>2, <1>3, CutIsPrefix

\* What Drawn answers.
LEMMA DrawnAnswers ==
  ASSUME NEW first \in Nat \ {0}, NEW n \in Nat, first <= n, NEW h, NEW answer,
         answer = Drawn(first, n, h)
  PROVE  /\ answer.ok
         /\ Len(answer.points) = n - first + 1
         /\ answer.points[Len(answer.points)].value = h[n]
<1>1. /\ answer.ok
      /\ Len(answer.points) = n - first + 1
      /\ \A i \in 1 .. n - first + 1 :
           answer.points[i] = [index |-> first + i - 1, value |-> h[first + i - 1]]
  BY DrawnLast
<1>2. n - first + 1 \in 1 .. n - first + 1 /\ first + (n - first + 1) - 1 = n
  OBVIOUS
<1>3. answer.points[n - first + 1] = [index |-> n, value |-> h[n]]
  BY <1>1, <1>2
<1>4. QED
  BY <1>1, <1>3

\* The newest point of a chart is the value of the newest bar, and a chart over one
\* bar more only adds to it.
LEMMA AllGrow ==
  ASSUME NEW course \in Seq(Bar), NEW n \in 2 .. Len(course), NEW indicator,
         IndicatorType(indicator)
  PROVE  Grows(indicator, course, n)
<1>some. PICK some, less : some = SubSeq(course, 1, n) /\ less = SubSeq(course, 1, n - 1)
  OBVIOUS
<1>1. /\ n \in 1 .. Len(course) /\ n - 1 \in 1 .. Len(course) /\ n \in Nat /\ n - 1 \in Nat
      /\ n \in 0 .. Len(course) /\ n - 1 \in 0 .. Len(course) /\ Len(course) > 0
  OBVIOUS
<1>2. some # << >> /\ less # << >>
  <2>1. Len(some) = n /\ Len(less) = n - 1
    BY <1>some, <1>1, PrefixIs
  <2>2. n # 0 /\ n - 1 # 0
    OBVIOUS
  <2>3. QED
    BY <2>1, <2>2
<1>from. PICK first \in Nat \ {0} : \E h : \A m \in 1 .. Len(course) :
           Calculate(indicator, SubSeq(course, 1, m)) =
             IF m < first THEN Failed ELSE Drawn(first, m, h)
  BY <1>1, AllSteady DEF Steady
<1>3. PICK h : \A m \in 1 .. Len(course) :
        Calculate(indicator, SubSeq(course, 1, m)) =
          IF m < first THEN Failed ELSE Drawn(first, m, h)
  BY <1>from
<1>ans. PICK before, now, last :
      /\ before = WholeChart(indicator, less)
      /\ now    = WholeChart(indicator, some)
      /\ last   = NewestPoint(indicator, some)
  OBVIOUS
<1>4. SUFFICES
        /\ before.status = 200 =>
             now.status = 200 /\ IsPrefix(before.values[1], now.values[1])
        /\ last.status = now.status
        /\ now.status = 200 =>
             /\ now.values[1][Len(now.values[1])].timestamp = course[n].timestamp
             /\ last.values[1].value = now.values[1][Len(now.values[1])].value
  BY <1>some, <1>ans DEF Grows
<1>5a. ASSUME n < first
       PROVE  now.status = 400 /\ last.status = 400
  <2>1. Calculate(indicator, some) = Failed
    BY <1>some, <1>1, <1>3, <1>5a
  <2>2. /\ WholeChart(indicator, some).status = 400
        /\ NewestPoint(indicator, some).status = 400
    BY <1>2, <2>1, NoChart
  <2>3. QED
    BY <2>2, <1>ans
<1>5b. ASSUME n - 1 < first
       PROVE  before.status = 400
  <2>1. Calculate(indicator, less) = Failed
    BY <1>some, <1>1, <1>3, <1>5b
  <2>2. WholeChart(indicator, less).status = 400
    BY <1>2, <2>1, NoChart
  <2>3. QED
    BY <2>2, <1>ans
<1>6. n - 1 < first => before.status = 400
  BY <1>1, <1>2, <1>5b
<1>7. CASE n < first
  <2>1. now.status = 400 /\ last.status = 400
    BY <1>5a, <1>7
  <2>2. before.status = 400
    BY <1>1, <1>6, <1>7
  <2>3. QED
    BY <2>1, <2>2
<1>8. CASE first <= n
  <2>a. PICK answer : answer = Calculate(indicator, some)
    OBVIOUS
  <2>1. answer = Drawn(first, n, h)
    BY <1>1, <1>3, <1>8, <1>some, <2>a
  <2>2. /\ answer.ok
        /\ answer.points[Len(answer.points)].value = h[n]
    BY <1>1, <1>8, <2>1, DrawnAnswers
  <2>s. PICK series : series = SeriesTo(course, first, h, n)
    OBVIOUS
  <2>3. Series(indicator, some) = series
    BY <1>1, <1>8, <1>some, <2>a, <2>s, <2>1, SeriesIs
  <2>4. now.status = 200 /\ now.values[1] = series
    <3>1. /\ WholeChart(indicator, some).status = 200
          /\ WholeChart(indicator, some).values[1] = Series(indicator, some)
      <4>1. Calculate(indicator, some).ok
        BY <2>a, <2>2
      <4>2. QED
        BY <1>2, <4>1, WholeChartIs
    <3>2. QED
      BY <1>ans, <2>3, <3>1
  <2>5. last.status = 200 /\ last.values[1] = Latest(indicator, some)
    <3>1. /\ NewestPoint(indicator, some).status = 200
          /\ NewestPoint(indicator, some).values[1] = Latest(indicator, some)
      <4>1. Calculate(indicator, some).ok
        BY <2>a, <2>2
      <4>2. QED
        BY <1>2, <4>1, NewestPointIs
    <3>2. QED
      BY <1>ans, <3>1
  <2>6. last.values[1].value = h[n]
    <3>1. Latest(indicator, some).value = answer.points[Len(answer.points)].value
      BY <2>a DEF Latest
    <3>2. QED
      BY <2>2, <2>5, <3>1
  <2>7. /\ series[Len(series)].timestamp = course[n].timestamp
        /\ series[Len(series)].value = h[n]
    <3>1. n \in Nat /\ first \in Nat \ {0} /\ first <= n
      BY <1>1, <1>8
    <3>2. QED
      <4>1. series[Len(series)] = [timestamp |-> course[n].timestamp, value |-> h[n]]
        BY <3>1, <2>s, SeriesEnds
      <4>2. QED
        BY <4>1
  <2>8. before.status = 200 => IsPrefix(before.values[1], series)
    <3>1. SUFFICES ASSUME first <= n - 1
                   PROVE  IsPrefix(before.values[1], series)
      BY <1>1, <1>6
    <3>o. PICK old : old = SeriesTo(course, first, h, n - 1)
      OBVIOUS
    <3>2. Calculate(indicator, less) = Drawn(first, n - 1, h)
      BY <1>1, <1>3, <1>some, <3>1
    <3>3. Calculate(indicator, less).ok
      BY <1>1, <3>1, <3>2, DrawnAnswers
    <3>4. Series(indicator, less) = old
      BY <1>1, <1>some, <3>o, <3>1, <3>2, SeriesIs
    <3>5. before.values[1] = old
      <4>1. WholeChart(indicator, less).values[1] = Series(indicator, less)
        BY <1>2, <3>3, WholeChartIs
      <4>2. QED
        BY <1>ans, <3>4, <4>1
    <3>6. IsPrefix(old, series)
      BY <1>1, <2>s, <3>o, <3>1, SeriesGrows
    <3>7. QED
      BY <3>5, <3>6
  <2>9. QED
    BY <2>4, <2>5, <2>6, <2>7, <2>8
<1>9. QED
  BY <1>1, <1>7, <1>8

\* The invariant of the engine is that of every run of a strategy in it.
LEMMA ChartStep == Inv /\ [StrategyNext]_stratVars => Inv'
BY StrategyStepIsStep, InvStep

LEMMA ChartsFollow == Inv => ChartsDoNotRepaint
<1> SUFFICES ASSUME Inv, pc = "idle", current_idx > 1, NEW i \in DOMAIN Watched
             PROVE  \E before \in {GetIndicators(<< Watched[i] >>, History(current_idx - 1), TRUE)},
                       now    \in {GetIndicators(<< Watched[i] >>, History(current_idx), TRUE)},
                       last   \in {GetIndicators(<< Watched[i] >>, History(current_idx), FALSE)} :
                      /\ before.status = 200 =>
                           now.status = 200 /\ IsPrefix(before.values[1], now.values[1])
                      /\ last.status = now.status
                      /\ now.status = 200 =>
                           \E newest \in {now.values[1][Len(now.values[1])]} :
                             newest.timestamp = CurrentBar.timestamp /\ last.values[1].value = newest.value
  BY ZenonT(60) DEF ChartsDoNotRepaint
<1>1. bars \in Seq(Bar) /\ current_idx \in 2 .. Len(bars)
  <2>1. bars \in Seq(Bar) /\ current_idx \in 0 .. Len(bars)
    BY DEF Inv, TypeOK
  <2>2. QED
    BY <2>1
<1>2. IndicatorType(Watched[i])
  BY WatchedAssumption DEF WatchedAssumption
<1>3. Grows(Watched[i], bars, current_idx)
  BY <1>1, <1>2, AllGrow
<1>4. QED
  BY <1>3, Zenon DEF Grows, WholeChart, NewestPoint, History, CurrentBar

\* Whatever the bars, the strategy and the indicators watched, with any periods: what a
\* client was answered at one bar is the beginning of what it is answered at the next, an
\* answer never turns into an error, the last point of a series is that of the bar just
\* processed, and the newest value alone is that point's.
THEOREM ChartsNeverRepaint == StrategySpec => []ChartsDoNotRepaint
<1>1. StrategyInit => Inv
  BY NewInv DEF StrategyInit, Init
<1>2. Inv /\ [StrategyNext]_stratVars => Inv'
  BY ChartStep
<1>3. Inv => ChartsDoNotRepaint
  BY ChartsFollow
<1>4. QED
  BY <1>1, <1>2, <1>3, PTL DEF StrategySpec
=============================================================================
