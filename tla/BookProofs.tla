----------------------------- MODULE BookProofs -----------------------------
(***************************************************************************)
(* No position of the order book is lost, duplicated or changed after it   *)
(* was closed, for every number of positions and fills and every           *)
(* cost-basis method; its legs cover its size, the book's total is the sum *)
(* of the open positions' unrealized profit, what a position realized is   *)
(* what its fills brought in less the cost of the units that left, and     *)
(* under FIFO and LIFO the book implements the unit-lot book of LotBook.   *)
(*                                                                         *)
(* The first part speaks of ids, sizes and states alone.  The second is    *)
(* about the loop over the legs (FoldLeft of Consume): what it keeps and   *)
(* what it consumes make up the legs it was given.  The third carries that *)
(* through the operations of the book.  The fourth flattens the legs into  *)
(* units (LotsOf): the loop takes the first units of its argument, so FIFO *)
(* takes the oldest and LIFO, which turns the legs round, the newest.      *)
(***************************************************************************)
EXTENDS PositionLedger, FoldTheorems, SequenceTheorems

Fields == {"id", "symbol", "direction", "status", "entries", "current_size",
           "average_entry_price", "realized_pnl", "unrealized_pnl"}

OpenPositionOK(id, pos) ==
  /\ DOMAIN pos = Fields
  /\ pos.id = id
  /\ pos.status \in {"Open", "PartiallyClosed"}
  /\ pos.current_size \in Nat \ {0}

ClosedPositionOK(pos) ==
  pos.current_size = 0 /\ pos.status = "Closed" /\ pos.unrealized_pnl = 0

\* A sequence, of whatever the positions' fields hold.
ClosedIsSeq == \E S : closed_positions \in Seq(S)

\* The ids drawn are those of the open positions and those of the closed ones.
Inv ==
  /\ created \in Nat
  /\ DOMAIN positions \subseteq 1 .. created
  /\ \A id \in DOMAIN positions : OpenPositionOK(id, positions[id])
  /\ ClosedIsSeq
  /\ \A i \in DOMAIN closed_positions : ClosedPositionOK(closed_positions[i])
  /\ DOMAIN positions \cup ClosedIds = 1 .. created
  /\ IsFiniteSet(DOMAIN positions)
  /\ Len(closed_positions) + Cardinality(DOMAIN positions) = created

LEMMA InvImplies == Inv => OpenOrClosed
<1> SUFFICES ASSUME Inv PROVE OpenOrClosed
  OBVIOUS
<1>1. DOMAIN Everything = DOMAIN positions \cup ClosedIds
  BY DEF Everything
<1>2. QED
  BY <1>1 DEF Inv, OpenOrClosed, OpenPositionOK, ClosedPositionOK

LEMMA EmptyBook ==
  ASSUME (positions = << >> /\ closed_positions = << >> /\ created = 0)
  PROVE  Inv
<1>1. DOMAIN positions = {} /\ DOMAIN closed_positions = {} /\ Len(closed_positions) = 0
  OBVIOUS
<1>2. closed_positions \in Seq({})
  OBVIOUS
<1>3. IsFiniteSet({}) /\ Cardinality({}) = 0
  BY FS_EmptySet
<1>4. 1 .. created = {}
  OBVIOUS
<1>5. ClosedIds = {}
  BY <1>1 DEF ClosedIds
<1>6. QED
  BY <1>1, <1>2, <1>3, <1>4, <1>5 DEF Inv, ClosedIsSeq

-----------------------------------------------------------------------------
\* Steps of the book

\* The positions keep their ids, sizes and states; nothing is closed.
LEMMA PositionsChange ==
  ASSUME Inv, DOMAIN positions' = DOMAIN positions,
         \A id \in DOMAIN positions : OpenPositionOK(id, positions'[id]),
         UNCHANGED <<closed_positions, created>>
  PROVE  Inv'
BY DEF Inv, ClosedIsSeq, ClosedIds

LEMMA OpenKeeps ==
  ASSUME Inv, NEW s, NEW d, NEW p, NEW q \in Nat \ {0}, OpenPosition(s, d, p, q)
  PROVE  Inv'
<1> PICK new : new = created + 1
  OBVIOUS
<1>1. /\ new \in Nat /\ created' = new /\ new \notin DOMAIN positions
      /\ positions' = [id \in DOMAIN positions \cup {new} |->
                         IF id = new THEN NewPosition(id, s, d, p, q) ELSE positions[id]]
      /\ UNCHANGED closed_positions
  BY DEF OpenPosition, Inv
<1>2. /\ DOMAIN positions' = DOMAIN positions \cup {new}
      /\ \A id \in DOMAIN positions : positions'[id] = positions[id]
      /\ positions'[new] = NewPosition(new, s, d, p, q)
  BY <1>1
<1>3. OpenPositionOK(new, NewPosition(new, s, d, p, q))
  BY DEF OpenPositionOK, NewPosition, Fields
<1>4. \A id \in DOMAIN positions' : OpenPositionOK(id, positions'[id])
  BY <1>2, <1>3 DEF Inv
<1>5. 1 .. created' = (1 .. created) \cup {new} /\ ClosedIds' = ClosedIds
  BY <1>1 DEF Inv, ClosedIds
<1>6. /\ IsFiniteSet(DOMAIN positions')
      /\ Cardinality(DOMAIN positions') = Cardinality(DOMAIN positions) + 1
  BY <1>1, <1>2, FS_AddElement DEF Inv
<1>7. Cardinality(DOMAIN positions) \in Nat /\ Len(closed_positions) \in Nat
  <2>1. PICK S : closed_positions \in Seq(S)
    BY DEF Inv, ClosedIsSeq
  <2>2. QED
    BY <2>1, FS_CardinalityType DEF Inv
<1>8. ClosedIsSeq' /\ \A i \in DOMAIN closed_positions' : ClosedPositionOK(closed_positions'[i])
  BY <1>1 DEF Inv, ClosedIsSeq
<1>9. DOMAIN positions' \cup ClosedIds' = 1 .. created'
  BY <1>2, <1>5 DEF Inv
<1>10. DOMAIN positions' \subseteq 1 .. created'
  BY <1>9
<1>11. Len(closed_positions') + Cardinality(DOMAIN positions') = created'
  BY <1>1, <1>6, <1>7 DEF Inv
<1>12. QED
  BY <1>1, <1>4, <1>6, <1>8, <1>9, <1>10, <1>11 DEF Inv

LEMMA AddKeeps ==
  ASSUME Inv, NEW id, NEW p, NEW q \in Nat \ {0}, AddToPosition(id, p, q)
  PROVE  Inv'
<1> DEFINE pos == positions[id]
           added == [pos EXCEPT !.entries = Append(@, Leg(p, q)),
                                !.current_size = @ + q,
                                !.average_entry_price = Reweighted(pos, p, q)]
<1>1. /\ id \in DOMAIN positions /\ positions' = [positions EXCEPT ![id] = added]
      /\ UNCHANGED <<closed_positions, created>>
  BY DEF AddToPosition
<1>2. OpenPositionOK(id, pos)
  BY <1>1 DEF Inv
<1>3. OpenPositionOK(id, added)
  BY <1>2 DEF OpenPositionOK, Fields
<1>4. DOMAIN positions' = DOMAIN positions
  BY <1>1
<1>5. \A other \in DOMAIN positions : OpenPositionOK(other, positions'[other])
  BY <1>1, <1>3 DEF Inv
<1>6. QED
  BY <1>1, <1>4, <1>5, PositionsChange

LEMMA MarkKeeps ==
  ASSUME Inv, NEW s, NEW p, UpdateUnrealizedPnl(s, p)
  PROVE  Inv'
<1>1. /\ DOMAIN positions' = DOMAIN positions
      /\ UNCHANGED <<closed_positions, created>>
  BY DEF UpdateUnrealizedPnl
<1>2. ASSUME NEW id \in DOMAIN positions PROVE OpenPositionOK(id, positions'[id])
  <2>1. OpenPositionOK(id, positions[id])
    BY DEF Inv
  <2>2. \/ positions'[id] = positions[id]
        \/ positions'[id] = [positions[id] EXCEPT !.unrealized_pnl = PnlAtMark(positions[id], p)]
    BY DEF UpdateUnrealizedPnl
  <2>3. QED
    BY <2>1, <2>2 DEF OpenPositionOK, Fields
<1>3. QED
  BY <1>1, <1>2, PositionsChange

\* What a reduction within the size leaves is open, with units left, or closed.
LEMMA ReducedIs ==
  ASSUME NEW id, NEW pos, OpenPositionOK(id, pos), NEW p, NEW q \in Nat, Sufficient(pos, q)
  PROVE  /\ Reduced(pos, p, q).id = id
         /\ Reduced(pos, p, q).status # "Closed" => OpenPositionOK(id, Reduced(pos, p, q))
         /\ Reduced(pos, p, q).status = "Closed" => ClosedPositionOK(Reduced(pos, p, q))
<1> DEFINE cut == Reduction(method, pos, p, q)
           size == pos.current_size - q
<1>1. size \in Nat
  BY DEF OpenPositionOK, Sufficient
<1> HIDE DEF cut
<1>2. Reduced(pos, p, q) =
        [pos EXCEPT !.entries        = cut.entries,
                    !.realized_pnl   = @ + cut.realized,
                    !.current_size   = size,
                    !.status         = IF size = 0 THEN "Closed" ELSE "PartiallyClosed",
                    !.unrealized_pnl = IF size = 0 THEN 0 ELSE @]
  BY DEF Reduced, cut
<1> HIDE DEF size
<1>3. QED
  BY <1>1, <1>2 DEF OpenPositionOK, ClosedPositionOK, Fields

LEMMA ReduceKeeps ==
  ASSUME Inv, NEW id, NEW p, NEW q \in Nat, ReducePosition(id, p, q)
  PROVE  Inv'
<1> PICK pos : pos = Reduced(positions[id], p, q)
  OBVIOUS
<1>1. /\ id \in DOMAIN positions /\ Sufficient(positions[id], q) /\ UNCHANGED created
      /\ \/ pos.status = "Closed" /\ Retire(id, pos)
         \/ /\ pos.status # "Closed" /\ positions' = [positions EXCEPT ![id] = pos]
            /\ UNCHANGED closed_positions
  BY DEF ReducePosition
<1>2. /\ pos.id = id
      /\ pos.status # "Closed" => OpenPositionOK(id, pos)
      /\ pos.status = "Closed" => ClosedPositionOK(pos)
  BY <1>1, ReducedIs DEF Inv
<1>3. CASE pos.status # "Closed"
  <2>1. DOMAIN positions' = DOMAIN positions
    BY <1>1, <1>3
  <2>2. \A other \in DOMAIN positions : OpenPositionOK(other, positions'[other])
    BY <1>1, <1>2, <1>3 DEF Inv
  <2>3. QED
    BY <1>1, <1>3, <2>1, <2>2, PositionsChange
<1>4. CASE pos.status = "Closed"
  <2>1. /\ positions' = Restrict(positions, DOMAIN positions \ {id})
        /\ closed_positions' = Append(closed_positions, pos)
    BY <1>1, <1>4 DEF Retire
  <2>2. /\ DOMAIN positions' = DOMAIN positions \ {id}
        /\ \A other \in DOMAIN positions' : positions'[other] = positions[other]
    BY <2>1 DEF Restrict
  <2>3. PICK S : closed_positions \in Seq(S)
    BY DEF Inv, ClosedIsSeq
  <2>4. closed_positions \in Seq(S \cup {pos}) /\ pos \in S \cup {pos}
    BY <2>3
  <2>5. /\ closed_positions' \in Seq(S \cup {pos})
        /\ Len(closed_positions') = Len(closed_positions) + 1
        /\ DOMAIN closed_positions' = DOMAIN closed_positions \cup {Len(closed_positions) + 1}
        /\ \A i \in DOMAIN closed_positions : closed_positions'[i] = closed_positions[i]
        /\ closed_positions'[Len(closed_positions) + 1] = pos
    BY <2>1, <2>4
  <2>6. \A i \in DOMAIN closed_positions' : ClosedPositionOK(closed_positions'[i])
    BY <1>2, <1>4, <2>5 DEF Inv
  <2>7. ClosedIds' = ClosedIds \cup {id}
    BY <1>2, <2>5 DEF ClosedIds
  <2>8. /\ IsFiniteSet(DOMAIN positions')
        /\ Cardinality(DOMAIN positions') = Cardinality(DOMAIN positions) - 1
    <3>1. PICK ids : ids = DOMAIN positions
      OBVIOUS
    <3>2. IsFiniteSet(ids) /\ id \in ids
      BY <1>1, <3>1 DEF Inv
    <3>3. IsFiniteSet(ids \ {id}) /\ Cardinality(ids \ {id}) = Cardinality(ids) - 1
      BY <3>2, FS_RemoveElement
    <3>4. QED
      BY <2>2, <3>1, <3>3
  <2>9. Cardinality(DOMAIN positions) \in Nat /\ Len(closed_positions) \in Nat
    BY <2>3, FS_CardinalityType DEF Inv
  <2>10. \A other \in DOMAIN positions' : OpenPositionOK(other, positions'[other])
    BY <2>2 DEF Inv
  <2>11. DOMAIN positions' \cup ClosedIds' = 1 .. created'
    BY <1>1, <2>2, <2>7 DEF Inv
  <2>12. created' \in Nat /\ DOMAIN positions' \subseteq 1 .. created'
    BY <1>1, <2>2 DEF Inv
  <2>13. ClosedIsSeq'
    BY <2>5, Zenon DEF ClosedIsSeq
  <2>14. Len(closed_positions') + Cardinality(DOMAIN positions') = created'
    BY <1>1, <2>5, <2>8, <2>9 DEF Inv
  <2>15. QED
    BY <2>6, <2>8, <2>10, <2>11, <2>12, <2>13, <2>14, Zenon DEF Inv
<1>5. QED
  BY <1>3, <1>4

-----------------------------------------------------------------------------
\* Every step keeps the invariant; a step of the ledger is one of the book.
LEMMA InvNext == Inv /\ [LedgerNext]_vars => Inv'
<1> SUFFICES ASSUME Inv, [LedgerNext]_vars PROVE Inv'
  OBVIOUS
<1>1. CASE LedgerOpen
  BY <1>1, QuantitiesAssumption, OpenKeeps DEF LedgerOpen
<1>2. CASE LedgerAdd
  BY <1>2, QuantitiesAssumption, AddKeeps DEF LedgerAdd
<1>3. CASE LedgerReduce
  BY <1>3, QuantitiesAssumption, ReduceKeeps DEF LedgerReduce
<1>4. CASE LedgerClose
  <2>1. PICK id \in DOMAIN positions, p \in Prices : ClosePosition(id, p)
    BY <1>4 DEF LedgerClose
  <2>2. positions[id].current_size \in Nat
    BY DEF Inv, OpenPositionOK
  <2>3. QED
    BY <2>1, <2>2, ReduceKeeps DEF ClosePosition
<1>5. CASE LedgerMark
  BY <1>5, MarkKeeps DEF LedgerMark
<1>6. CASE LedgerNewBook
  <2>1. positions' = << >> /\ closed_positions' = << >> /\ created' = 0
    BY <1>6 DEF LedgerNewBook, NewBook
  <2>2. /\ DOMAIN positions' = {} /\ DOMAIN closed_positions' = {} /\ Len(closed_positions') = 0
        /\ 1 .. created' = {} /\ closed_positions' \in Seq({})
    BY <2>1
  <2>3. ClosedIds' = {}
    BY <2>2 DEF ClosedIds
  <2>4. IsFiniteSet({}) /\ Cardinality({}) = 0
    BY FS_EmptySet
  <2>5. QED
    BY <2>1, <2>2, <2>3, <2>4 DEF Inv, ClosedIsSeq
<1>7. CASE UNCHANGED vars
  BY <1>7 DEF Inv, ClosedIsSeq, ClosedIds, vars, bookVars
<1>8. QED
  BY <1>1, <1>2, <1>3, <1>4, <1>5, <1>6, <1>7 DEF LedgerNext

\* open_position, add_to_position, reduce_position, close_position and
\* update_unrealized_pnl in any order: every id ever drawn is that of one open position
\* with units left or of one closed position with none.
THEOREM NoPositionIsLost == LedgerSpec => []OpenOrClosed
<1>1. LedgerInit => Inv
  BY EmptyBook DEF LedgerInit, Init
<1>2. Inv => OpenOrClosed
  BY InvImplies
<1>3. QED
  BY <1>1, <1>2, InvNext, PTL DEF LedgerSpec

\* A step appends to the closed positions or leaves them, unless the book is replaced.
LEMMA ClosedGrows ==
  ASSUME Inv, [LedgerNext]_vars, ~(created' < created)
  PROVE  IsPrefix(closed_positions, closed_positions')
<1>1. PICK S : closed_positions \in Seq(S)
  BY DEF Inv, ClosedIsSeq
<1>2. CASE UNCHANGED closed_positions
  BY <1>1, <1>2 DEF IsPrefix
<1>3. CASE \E pos : closed_positions' = Append(closed_positions, pos)
  <2>1. PICK pos : closed_positions' = Append(closed_positions, pos)
    BY <1>3
  <2>2. closed_positions \in Seq(S \cup {pos}) /\ pos \in S \cup {pos}
    BY <1>1
  <2>3. /\ Len(closed_positions') = Len(closed_positions) + 1
        /\ Len(closed_positions) \in Nat
        /\ \A i \in 1 .. Len(closed_positions) : closed_positions'[i] = closed_positions[i]
    BY <2>1, <2>2
  <2>4. SubSeq(closed_positions', 1, Len(closed_positions)) = closed_positions
    BY <1>1, <2>1, <2>2
  <2>5. QED
    BY <2>3, <2>4 DEF IsPrefix
<1>4. CASE LedgerNewBook
  <2>1. created = 0 /\ closed_positions' = << >>
    BY <1>4 DEF LedgerNewBook, NewBook, Inv
  <2>2. Len(closed_positions) = 0
    BY <1>1, <2>1, FS_CardinalityType DEF Inv
  <2>3. UNCHANGED closed_positions
    BY <1>1, <2>1, <2>2
  <2>4. QED
    BY <1>2, <2>3
<1>5. QED
  BY <1>2, <1>3, <1>4 DEF LedgerNext, LedgerOpen, LedgerAdd, LedgerReduce, LedgerClose, LedgerMark,
     OpenPosition, AddToPosition, ReducePosition, ClosePosition, Retire, UpdateUnrealizedPnl, vars,
     bookVars

\* What reduce_position moved to closed_positions stays there as it is and where it is.
THEOREM ClosedStaysClosed == LedgerSpec => ClosedIsFinal
<1>1. LedgerInit => Inv
  BY EmptyBook DEF LedgerInit, Init
<1>2. Inv /\ [LedgerNext]_vars =>
        [created' < created \/ IsPrefix(closed_positions, closed_positions')]_vars
  BY ClosedGrows
<1>3. QED
  BY <1>1, <1>2, InvNext, PTL DEF LedgerSpec, ClosedIsFinal

-----------------------------------------------------------------------------
\* The units and the cost of legs.

Legs == Seq(LegType)

LEMMA LegIs ==
  ASSUME NEW leg \in LegType
  PROVE  /\ leg.entry_price \in Nat /\ leg.quantity \in Nat /\ leg.quantity > 0
         /\ leg.entry_price * leg.quantity \in Nat
<1>1. leg.entry_price \in Prices /\ leg.quantity \in Nat \ {0}
  BY DEF LegType
<1> PICK price \in Nat : price = leg.entry_price
  BY <1>1, PricesAssumption
<1> PICK units \in Nat \ {0} : units = leg.quantity
  BY <1>1
<1>2. price * units \in Nat
  OBVIOUS
<1>3. QED
  BY <1>2

UnitsIn(entries) == [i \in DOMAIN entries |-> entries[i].quantity]
CostIn(entries)  == [i \in DOMAIN entries |-> entries[i].entry_price * entries[i].quantity]

LEMMA LegsAreWhole ==
  ASSUME NEW entries \in Legs
  PROVE  /\ Whole(UnitsIn(entries)) /\ Whole(CostIn(entries))
         /\ LegUnits(entries) \in Int /\ LegCost(entries) \in Int
<1>1. DOMAIN entries = 1 .. Len(entries) /\ Len(entries) \in Int
  BY DEF Legs
<1>2. IsFiniteSet(DOMAIN entries)
  BY <1>1, FS_Interval
<1>3. \A i \in DOMAIN entries : entries[i] \in LegType
  BY <1>1, ElementOfSeq DEF Legs
<1>4. \A i \in DOMAIN entries :
        entries[i].quantity \in Int /\ entries[i].entry_price * entries[i].quantity \in Int
  BY <1>3, LegIs
<1>5. Whole(UnitsIn(entries)) /\ Whole(CostIn(entries))
  BY <1>2, <1>4 DEF Whole, UnitsIn, CostIn
<1>6. QED
  BY <1>5, SumInt DEF LegUnits, LegCost, UnitsIn, CostIn

LEMMA NoLegs == LegUnits(<< >>) = 0 /\ LegCost(<< >>) = 0 /\ << >> \in Legs
  BY SumOfNone DEF LegUnits, LegCost, Legs

LEMMA LegsAppend ==
  ASSUME NEW entries \in Legs, NEW leg \in LegType
  PROVE  /\ Append(entries, leg) \in Legs
         /\ LegUnits(Append(entries, leg)) = LegUnits(entries) + leg.quantity
         /\ LegCost(Append(entries, leg)) = LegCost(entries) + leg.entry_price * leg.quantity
<1> PICK n \in Nat : n = Len(entries)
  BY DEF Legs
<1> PICK more : more = Append(entries, leg)
  OBVIOUS
<1> PICK cost \in Int : cost = leg.entry_price * leg.quantity
  BY LegIs
<1>1. /\ DOMAIN entries = 1 .. n /\ DOMAIN more = (1 .. n) \cup {n + 1}
      /\ more[n + 1] = leg /\ (\A i \in 1 .. n : more[i] = entries[i]) /\ more \in Legs
  BY DEF Legs
<1>2. leg.quantity \in Int
  BY LegIs
<1>3. OneMore(UnitsIn(entries), UnitsIn(more), n + 1) /\ UnitsIn(more)[n + 1] = leg.quantity
  BY <1>1, <1>2 DEF OneMore, UnitsIn
<1>4. OneMore(CostIn(entries), CostIn(more), n + 1) /\ CostIn(more)[n + 1] = cost
  BY <1>1 DEF OneMore, CostIn
<1>5. SumFunction(UnitsIn(more)) = SumFunction(UnitsIn(entries)) + leg.quantity
  BY <1>3, LegsAreWhole, SumAdd
<1>6. SumFunction(CostIn(more)) = SumFunction(CostIn(entries)) + cost
  BY <1>4, LegsAreWhole, SumAdd
<1>7. QED
  BY <1>1, <1>5, <1>6 DEF LegUnits, LegCost, UnitsIn, CostIn

LEMMA LegsReversed ==
  ASSUME NEW entries \in Legs
  PROVE  /\ Reverse(entries) \in Legs
         /\ LegUnits(Reverse(entries)) = LegUnits(entries)
         /\ LegCost(Reverse(entries)) = LegCost(entries)
<1> PICK n \in Nat : n = Len(entries)
  BY DEF Legs
<1> PICK back : back = Reverse(entries)
  OBVIOUS
<1>0. PICK p : p = [i \in 1 .. n |-> n - i + 1]
  OBVIOUS
<1>1. DOMAIN entries = 1 .. n /\ \A i \in 1 .. n : entries[i] \in LegType
  BY DEF Legs
<1>2. back = [i \in 1 .. n |-> entries[n - i + 1]]
  BY DEF Reverse
<1>3. /\ p \in [1 .. n -> 1 .. n] /\ (\A i \in 1 .. n : p[i] = n - i + 1)
      /\ \A i \in 1 .. n : p[n - i + 1] = i /\ n - i + 1 \in 1 .. n
  BY <1>0
<1>4. back \in Legs
  <2>1. back \in [1 .. n -> LegType]
    BY <1>1, <1>2, <1>3
  <2>2. QED
    BY <2>1, SeqDef DEF Legs
<1>5. /\ \A x, y \in 1 .. n : p[x] = p[y] => x = y
      /\ \A y \in 1 .. n : \E x \in 1 .. n : p[x] = y
  BY <1>3
<1>6. DOMAIN back = 1 .. n /\ \A i \in 1 .. n : p[i] \in 1 .. n /\ back[i] = entries[p[i]]
  BY <1>2, <1>3
<1>7. Reordered(UnitsIn(entries), UnitsIn(back), p)
  <2>1. /\ DOMAIN UnitsIn(entries) = 1 .. n /\ DOMAIN UnitsIn(back) = 1 .. n
        /\ \A i \in 1 .. n : UnitsIn(back)[i] = UnitsIn(entries)[p[i]]
    BY <1>1, <1>6 DEF UnitsIn
  <2>2. QED
    BY <1>3, <1>5, <2>1, ReorderedBy, Zenon
<1>8. Reordered(CostIn(entries), CostIn(back), p)
  <2>1. /\ DOMAIN CostIn(entries) = 1 .. n /\ DOMAIN CostIn(back) = 1 .. n
        /\ \A i \in 1 .. n : CostIn(back)[i] = CostIn(entries)[p[i]]
    BY <1>1, <1>6 DEF CostIn
  <2>2. QED
    BY <1>3, <1>5, <2>1, ReorderedBy, Zenon
<1>9. SumFunction(UnitsIn(back)) = SumFunction(UnitsIn(entries))
  BY <1>7, LegsAreWhole, SumReordered
<1>10. SumFunction(CostIn(back)) = SumFunction(CostIn(entries))
  BY <1>8, LegsAreWhole, SumReordered
<1>11. QED
  BY <1>4, <1>9, <1>10 DEF LegUnits, LegCost, UnitsIn, CostIn

-----------------------------------------------------------------------------
\* The loop over the legs.

Walks == [remaining : Nat, cost_basis : Nat, kept : Legs]

LEMMA WalkIs ==
  ASSUME NEW r \in Nat, NEW c \in Nat, NEW k \in Legs,
         NEW w, w = [remaining |-> r, cost_basis |-> c, kept |-> k]
  PROVE  w \in Walks /\ w.remaining = r /\ w.cost_basis = c /\ w.kept = k
<1>1. w.remaining = r /\ w.cost_basis = c /\ w.kept = k
  OBVIOUS
<1>2. w \in Walks
  BY DEF Walks
<1>3. QED
  BY <1>1, <1>2

LEMMA UntouchedIs ==
  ASSUME NEW qty \in Nat, NEW w, w = Untouched(qty)
  PROVE  w \in Walks /\ w.remaining = qty /\ w.cost_basis = 0 /\ w.kept = << >>
<1>1. << >> \in Legs /\ 0 \in Nat
  BY NoLegs
<1>2. w = [remaining |-> qty, cost_basis |-> 0, kept |-> << >>]
  BY DEF Untouched
<1>3. QED
  BY <1>1, <1>2, WalkIs

\* A leg split in two costs what its parts cost.
LEMMA CostOfParts ==
  ASSUME NEW price \in Nat, NEW units \in Nat, NEW rest \in Nat, units > rest
  PROVE  /\ price * rest \in Nat /\ price * units \in Nat
         /\ price * (units - rest) = price * units - price * rest
<1>1. price * (units - rest) = price * units - price * rest
  OBVIOUS
<1>2. price * rest \in Nat /\ price * units \in Nat
  OBVIOUS
<1>3. QED
  BY <1>1, <1>2

\* What one iteration does: the leg is consumed, kept, or split.
LEMMA ConsumeIs ==
  ASSUME NEW acc \in Walks, NEW leg \in LegType, NEW next, next = Consume(acc, leg)
  PROVE  /\ next \in Walks
         /\ LegUnits(next.kept) - next.remaining
              = LegUnits(acc.kept) - acc.remaining + leg.quantity
         /\ LegCost(next.kept) + next.cost_basis
              = LegCost(acc.kept) + acc.cost_basis + leg.entry_price * leg.quantity
         /\ next.remaining > 0 => next.kept = acc.kept /\ acc.remaining > 0
<1>1. PICK rest \in Nat : rest = acc.remaining
  BY DEF Walks
<1>2. PICK cost \in Nat : cost = acc.cost_basis
  BY DEF Walks
<1>3. PICK kept \in Legs : kept = acc.kept
  BY DEF Walks
<1>4. PICK price \in Nat : price = leg.entry_price
  BY LegIs
<1>5. PICK units \in Nat : units = leg.quantity /\ units > 0
  BY LegIs
<1>6. PICK whole \in Nat : whole = leg.entry_price * leg.quantity
  BY LegIs
<1>7. acc = [remaining |-> rest, cost_basis |-> cost, kept |-> kept]
  BY <1>1, <1>2, <1>3 DEF Walks
<1>8. LegUnits(kept) \in Int /\ LegCost(kept) \in Int
  BY LegsAreWhole
<1>9. SUFFICES /\ next \in Walks
               /\ LegUnits(next.kept) - next.remaining = LegUnits(kept) - rest + units
               /\ LegCost(next.kept) + next.cost_basis = LegCost(kept) + cost + whole
               /\ next.remaining > 0 => next.kept = kept /\ rest > 0
  BY <1>1, <1>2, <1>3, <1>5, <1>6
<1>10. CASE rest = 0
  <2>1. PICK more : more = Append(kept, leg)
    OBVIOUS
  <2>2. next = [acc EXCEPT !.kept = more]
    BY <1>1, <1>3, <1>10, <2>1 DEF Consume
  <2>3. next = [remaining |-> rest, cost_basis |-> cost, kept |-> more]
    BY <1>7, <2>2
  <2>4. more \in Legs /\ LegUnits(more) = LegUnits(kept) + units /\ LegCost(more) = LegCost(kept) + whole
    BY <1>5, <1>6, <2>1, LegsAppend
  <2>5. next.remaining = rest /\ next.cost_basis = cost /\ next.kept = more /\ next \in Walks
    BY <2>3, <2>4, WalkIs
  <2>6. QED
    BY <1>8, <1>10, <2>4, <2>5
<1>11. CASE rest > 0 /\ units <= rest
  <2>1. next = [acc EXCEPT !.cost_basis = acc.cost_basis + leg.entry_price * leg.quantity,
                           !.remaining = acc.remaining - leg.quantity]
    <3>1. ~(acc.remaining = 0) /\ acc.remaining > 0 /\ leg.quantity <= acc.remaining
      BY <1>1, <1>5, <1>11
    <3>2. QED
      BY <3>1, Zenon DEF Consume
  <2>2. next = [acc EXCEPT !.cost_basis = cost + whole, !.remaining = rest - units]
    BY <1>1, <1>2, <1>5, <1>6, <2>1
  <2>3. next = [remaining |-> rest - units, cost_basis |-> cost + whole, kept |-> kept]
    BY <1>7, <2>2
  <2>4. rest - units \in Nat /\ cost + whole \in Nat
    BY <1>11
  <2>5. /\ next.remaining = rest - units /\ next.cost_basis = cost + whole /\ next.kept = kept
        /\ next \in Walks
    BY <2>3, <2>4, WalkIs
  <2>6. QED
    BY <1>5, <1>8, <1>11, <2>5
<1>12. CASE rest > 0 /\ units > rest
  <2>1. PICK part : part = Leg(leg.entry_price, units - rest)
    OBVIOUS
  <2>2. PICK gone \in Nat : gone = leg.entry_price * rest
    BY <1>4, <1>12, CostOfParts
  <2>3. PICK more : more = Append(kept, part)
    OBVIOUS
  <2>4. next = [remaining  |-> 0, cost_basis |-> acc.cost_basis + leg.entry_price * acc.remaining,
                kept |-> Append(acc.kept, Leg(leg.entry_price, leg.quantity - acc.remaining))]
    BY <1>1, <1>5, <1>12 DEF Consume
  <2>5. next = [remaining |-> 0, cost_basis |-> cost + gone, kept |-> more]
    BY <1>1, <1>2, <1>3, <1>5, <2>1, <2>2, <2>3, <2>4
  <2>6. leg.entry_price \in Prices /\ units - rest \in Nat \ {0}
    <3>1. leg.entry_price \in Prices
      BY DEF LegType
    <3>2. QED
      BY <1>12, <3>1
  <2>7. part \in LegType /\ part.entry_price = leg.entry_price /\ part.quantity = units - rest
    BY <2>1, <2>6 DEF Leg, LegType
  <2>8. leg.entry_price * (units - rest) = whole - gone
    BY <1>4, <1>5, <1>6, <1>12, <2>2, CostOfParts
  <2>9. /\ more \in Legs /\ LegUnits(more) = LegUnits(kept) + (units - rest)
        /\ LegCost(more) = LegCost(kept) + (whole - gone)
    BY <2>3, <2>7, <2>8, LegsAppend
  <2>10. cost + gone \in Nat
    OBVIOUS
  <2>11. /\ next.remaining = 0 /\ next.cost_basis = cost + gone /\ next.kept = more
         /\ next \in Walks
    BY <2>5, <2>9, <2>10, WalkIs
  <2>12. QED
    BY <1>8, <1>12, <2>9, <2>11
<1>13. QED
  BY <1>10, <1>11, <1>12

\* The equation inside FoldLeft.
IsWalk(iter, entries, qty) ==
  iter = [s \in SUBSET DOMAIN entries |->
            IF s = {} THEN Untouched(qty) ELSE Consume(iter[s \ {Max(s)}], entries[Max(s)])]

LEMMA WalkExpanded ==
  ASSUME NEW entries, NEW qty
  PROVE  FoldLeft(Consume, Untouched(qty), entries)
           = (CHOOSE iter : IsWalk(iter, entries, qty))[DOMAIN entries]
BY Zenon DEF FoldLeft, MapThenFoldSet, IsWalk

\* The loop over the legs has a value after every iteration.
LEMMA WalkExists ==
  ASSUME NEW entries \in Legs, NEW qty \in Nat
  PROVE  \E iter : IsWalk(iter, entries, qty)
<1>1. PICK n \in Nat : n = Len(entries) /\ DOMAIN entries = 1 .. n
  BY DEF Legs
<1>2. \A i \in 1 .. n : entries[i] \in LegType
  BY <1>1 DEF Legs
<1>3. PICK base \in Walks : base = Untouched(qty)
  BY UntouchedIs
<1>4. PICK step : step = [k \in 1 .. n |-> [acc \in Walks |-> Consume(acc, entries[k])]]
  OBVIOUS
<1>5. step \in [1 .. n -> [Walks -> Walks]]
  <2>1. \A k \in 1 .. n : \A acc \in Walks : Consume(acc, entries[k]) \in Walks
    BY <1>2, ConsumeIs
  <2>2. QED
    BY <1>4, <2>1
<1>6. PICK iter \in [SUBSET (1 .. n) -> Walks] : IsFold(iter, n, base, step)
  BY <1>5, FoldExists
<1>7. ASSUME NEW s \in SUBSET (1 .. n), s # {}
      PROVE  step[Max(s)][iter[s \ {Max(s)}]] = Consume(iter[s \ {Max(s)}], entries[Max(s)])
  <2>1. Max(s) \in 1 .. n
    BY <1>7, MaxIs
  <2>2. iter[s \ {Max(s)}] \in Walks
    BY <1>6
  <2>3. QED
    BY <1>4, <2>1, <2>2
<1>8. iter = [s \in SUBSET (1 .. n) |->
                IF s = {} THEN base ELSE step[Max(s)][iter[s \ {Max(s)}]]]
  BY <1>6, Zenon DEF IsFold
<1>9. iter = [s \in SUBSET (1 .. n) |->
                IF s = {} THEN base ELSE Consume(iter[s \ {Max(s)}], entries[Max(s)])]
  BY <1>7, <1>8
<1>10. IsWalk(iter, entries, qty)
  BY <1>1, <1>3, <1>9, Zenon DEF IsWalk
<1>11. QED
  BY <1>10, Zenon

\* The value after k iterations, and the value of the loop.
LEMMA WalkSteps ==
  ASSUME NEW entries \in Legs, NEW qty \in Nat, NEW n \in Nat, n = Len(entries)
  PROVE  \E w : /\ w[0] = Untouched(qty)
                /\ \A k \in 1 .. n : w[k] = Consume(w[k - 1], entries[k])
                /\ FoldLeft(Consume, Untouched(qty), entries) = w[n]
<1>1. DOMAIN entries = 1 .. n
  BY DEF Legs
<1>2. PICK iter : IsWalk(iter, entries, qty) /\ iter = CHOOSE it : IsWalk(it, entries, qty)
  BY WalkExists, Zenon
<1>3. iter = [s \in SUBSET (1 .. n) |->
                IF s = {} THEN Untouched(qty) ELSE Consume(iter[s \ {Max(s)}], entries[Max(s)])]
  BY <1>1, <1>2, Zenon DEF IsWalk
<1>4. PICK w : w = [k \in 0 .. n |-> iter[1 .. k]]
  OBVIOUS
<1>5. w[0] = Untouched(qty)
  <2>1. 1 .. 0 = {} /\ {} \in SUBSET (1 .. n) /\ 0 \in 0 .. n
    OBVIOUS
  <2>2. iter[{}] = Untouched(qty)
    BY <1>3, <2>1
  <2>3. QED
    BY <1>4, <2>1, <2>2
<1>6. ASSUME NEW k \in 1 .. n PROVE w[k] = Consume(w[k - 1], entries[k])
  <2>1. /\ k \in 0 .. n /\ k - 1 \in 0 .. n /\ 1 .. k \in SUBSET (1 .. n) /\ 1 .. k # {}
        /\ k \in Nat \ {0}
    <3>1. k \in Nat \ {0} /\ k <= n
      BY <1>6
    <3>2. 1 \in 1 .. k /\ \A x \in 1 .. k : x \in 1 .. n
      BY <3>1
    <3>3. 1 .. k \in SUBSET (1 .. n) /\ 1 .. k # {}
      BY <3>2, Zenon
    <3>4. k \in 0 .. n /\ k - 1 \in 0 .. n
      BY <3>1
    <3>5. QED
      BY <3>1, <3>3, <3>4
  <2>2. Max(1 .. k) = k /\ (1 .. k) \ {k} = 1 .. (k - 1)
    BY <2>1, MaxOfPrefix
  <2>3. PICK s \in SUBSET (1 .. n) : s = 1 .. k /\ s # {}
    BY <2>1
  <2>4. iter[s] = Consume(iter[s \ {Max(s)}], entries[Max(s)])
    BY <1>3, <2>3
  <2>5. iter[1 .. k] = Consume(iter[1 .. (k - 1)], entries[k])
    BY <2>2, <2>3, <2>4
  <2>6. w[k] = iter[1 .. k] /\ w[k - 1] = iter[1 .. (k - 1)]
    BY <1>4, <2>1
  <2>7. QED
    BY <2>5, <2>6
<1>7. FoldLeft(Consume, Untouched(qty), entries) = w[n]
  <2>1. FoldLeft(Consume, Untouched(qty), entries) = iter[1 .. n]
    BY <1>1, <1>2, WalkExpanded
  <2>2. w[n] = iter[1 .. n]
    BY <1>4
  <2>3. QED
    BY <2>1, <2>2
<1>8. QED
  BY <1>5, <1>6, <1>7

\* What the loop kept and what it consumed make up the legs it was given.
LEMMA WalkTotals ==
  ASSUME NEW entries \in Legs, NEW qty \in Nat, qty <= LegUnits(entries),
         NEW walk, walk = FoldLeft(Consume, Untouched(qty), entries)
  PROVE  /\ walk \in Walks
         /\ LegUnits(walk.kept) = LegUnits(entries) - qty
         /\ LegCost(walk.kept) + walk.cost_basis = LegCost(entries)
<1>1. PICK n \in Nat : n = Len(entries) /\ \A k \in 1 .. n : entries[k] \in LegType
  BY DEF Legs
<1>2. PICK w : /\ w[0] = Untouched(qty)
               /\ \A k \in 1 .. n : w[k] = Consume(w[k - 1], entries[k])
               /\ FoldLeft(Consume, Untouched(qty), entries) = w[n]
  <2>1. n = Len(entries)
    BY <1>1
  <2>2. QED
    BY <2>1, WalkSteps, Zenon
<1>3. \A k \in 0 .. n : SubSeq(entries, 1, k) \in Legs
  BY <1>1 DEF Legs
<1> DEFINE Good(k) ==
      /\ w[k] \in Walks
      /\ LegUnits(w[k].kept) - w[k].remaining = LegUnits(SubSeq(entries, 1, k)) - qty
      /\ LegCost(w[k].kept) + w[k].cost_basis = LegCost(SubSeq(entries, 1, k))
      /\ w[k].remaining > 0 => w[k].kept = << >>
           T == {k \in Nat : k <= n => Good(k)}
<1> HIDE DEF Good, T
<1>4. Good(0)
  <2>1. PICK w0 \in Walks : w0 = w[0] /\ w0.remaining = qty /\ w0.cost_basis = 0 /\ w0.kept = << >>
    BY <1>2, UntouchedIs
  <2>2. SubSeq(entries, 1, 0) = << >>
    BY DEF Legs
  <2>3. /\ LegUnits(w0.kept) - w0.remaining = LegUnits(SubSeq(entries, 1, 0)) - qty
        /\ LegCost(w0.kept) + w0.cost_basis = LegCost(SubSeq(entries, 1, 0))
    <3>1. /\ LegUnits(w0.kept) = 0 /\ LegUnits(SubSeq(entries, 1, 0)) = 0
          /\ LegCost(w0.kept) = 0 /\ LegCost(SubSeq(entries, 1, 0)) = 0
      BY <2>1, <2>2, NoLegs
    <3>2. QED
      BY <2>1, <3>1
  <2>4. QED
    BY <2>1, <2>3 DEF Good
<1>5. ASSUME NEW k \in Nat, k + 1 <= n, Good(k) PROVE Good(k + 1)
  <2>0. k \in 0 .. n /\ k + 1 \in 1 .. n /\ (k + 1) - 1 = k
    BY <1>5
  <2>1. PICK leg \in LegType : leg = entries[k + 1]
    BY <1>1, <2>0
  <2>2. PICK next : next = w[k + 1] /\ next = Consume(w[k], leg)
    BY <1>2, <2>0, <2>1
  <2>3. PICK acc \in Walks : acc = w[k]
    BY <1>5 DEF Good
  <2>4. PICK sub \in Legs : sub = SubSeq(entries, 1, k)
    BY <1>3, <2>0
  <2>5. SubSeq(entries, 1, k + 1) = Append(sub, leg)
    BY <1>1, <1>5, <2>1, <2>4 DEF Legs
  <2>6. /\ LegUnits(Append(sub, leg)) = LegUnits(sub) + leg.quantity
        /\ LegCost(Append(sub, leg)) = LegCost(sub) + leg.entry_price * leg.quantity
        /\ LegUnits(sub) \in Int /\ LegCost(sub) \in Int
    BY LegsAppend, LegsAreWhole
  <2>7. /\ next \in Walks
        /\ LegUnits(next.kept) - next.remaining
             = LegUnits(acc.kept) - acc.remaining + leg.quantity
        /\ LegCost(next.kept) + next.cost_basis
             = LegCost(acc.kept) + acc.cost_basis + leg.entry_price * leg.quantity
        /\ next.remaining > 0 => next.kept = acc.kept /\ acc.remaining > 0
    BY <2>2, <2>3, ConsumeIs
  <2>8. /\ LegUnits(acc.kept) - acc.remaining = LegUnits(sub) - qty
        /\ LegCost(acc.kept) + acc.cost_basis = LegCost(sub)
        /\ acc.remaining > 0 => acc.kept = << >>
    BY <1>5, <2>3, <2>4 DEF Good
  <2>9. leg.quantity \in Int /\ leg.entry_price * leg.quantity \in Int
    BY LegIs
  <2>10. /\ LegUnits(next.kept) - next.remaining = LegUnits(Append(sub, leg)) - qty
         /\ LegCost(next.kept) + next.cost_basis = LegCost(Append(sub, leg))
         /\ next.remaining > 0 => next.kept = << >>
    BY <2>6, <2>7, <2>8, <2>9
  <2>11. QED
    BY <2>2, <2>5, <2>7, <2>10 DEF Good
<1>6. T = Nat
  <2>1. T \in SUBSET Nat /\ 0 \in T
    BY <1>4 DEF T
  <2>2. ASSUME NEW k \in T PROVE k + 1 \in T
    <3>1. k \in Nat /\ (k <= n => Good(k))
      BY DEF T
    <3>2. k + 1 <= n => Good(k + 1)
      BY <1>5, <3>1
    <3>3. QED
      BY <3>1, <3>2 DEF T
  <2>3. QED
    BY <2>1, <2>2, NatInd
<1>7. Good(n)
  <2>1. n \in T
    BY <1>6
  <2>2. QED
    BY <2>1 DEF T
<1>8. SubSeq(entries, 1, n) = entries
  BY <1>1 DEF Legs
<1>9. /\ walk \in Walks /\ LegUnits(walk.kept) - walk.remaining = LegUnits(entries) - qty
      /\ LegCost(walk.kept) + walk.cost_basis = LegCost(entries)
      /\ walk.remaining > 0 => walk.kept = << >>
  BY <1>2, <1>7, <1>8 DEF Good
<1>10. walk.remaining \in Nat /\ walk.kept \in Legs
  BY <1>9 DEF Walks
<1>11. LegUnits(walk.kept) \in Int /\ LegUnits(entries) \in Int
  BY <1>10, LegsAreWhole
<1>12. walk.remaining = 0
  BY <1>9, <1>10, <1>11, NoLegs
<1>13. QED
  BY <1>9, <1>11, <1>12

\* What a reduction leaves of the legs and what it realizes, whatever the method: the
\* legs lose the units, and the gain is over what those units cost.
LEMMA ReductionIs ==
  ASSUME method \in CostBasisMethods,
         NEW pos, pos.entries \in Legs, pos.direction \in Directions,
         NEW p, NEW q \in Nat, q <= LegUnits(pos.entries),
         NEW cut, cut = Reduction(method, pos, p, q)
  PROVE  /\ cut.entries \in Legs
         /\ LegUnits(cut.entries) = LegUnits(pos.entries) - q
         /\ cut.realized = Realize(pos, p, q,
              IF method = "WeightedAverage" THEN pos.average_entry_price * q
              ELSE LegCost(pos.entries) - LegCost(cut.entries))
<1>1. PICK legs \in Legs : legs = pos.entries
  OBVIOUS
<1>2. PICK walk : walk = FoldLeft(Consume, Untouched(q), legs)
  OBVIOUS
<1>3. PICK back : back = FoldLeft(Consume, Untouched(q), Reverse(legs))
  OBVIOUS
<1>4. /\ Reverse(legs) \in Legs /\ LegUnits(Reverse(legs)) = LegUnits(legs)
      /\ LegCost(Reverse(legs)) = LegCost(legs)
  BY LegsReversed
<1>5. /\ walk \in Walks /\ LegUnits(walk.kept) = LegUnits(legs) - q
      /\ LegCost(walk.kept) + walk.cost_basis = LegCost(legs)
  BY <1>1, <1>2, WalkTotals
<1>6. /\ back \in Walks /\ LegUnits(back.kept) = LegUnits(legs) - q
      /\ LegCost(back.kept) + back.cost_basis = LegCost(legs)
  BY <1>1, <1>3, <1>4, WalkTotals
<1>7. /\ walk.kept \in Legs /\ walk.cost_basis \in Int
      /\ back.kept \in Legs /\ back.cost_basis \in Int
  BY <1>5, <1>6 DEF Walks
<1>8. /\ Reverse(back.kept) \in Legs /\ LegUnits(Reverse(back.kept)) = LegUnits(legs) - q
      /\ LegCost(Reverse(back.kept)) = LegCost(back.kept)
  BY <1>6, <1>7, LegsReversed
<1>9. /\ LegCost(walk.kept) \in Int /\ LegCost(back.kept) \in Int /\ LegCost(legs) \in Int
  BY <1>7, LegsAreWhole
<1>10. /\ walk.cost_basis = LegCost(legs) - LegCost(walk.kept)
       /\ back.cost_basis = LegCost(legs) - LegCost(Reverse(back.kept))
  BY <1>5, <1>6, <1>7, <1>8, <1>9
<1>11. OldestFirst(pos.entries, q) = walk
  BY <1>1, <1>2 DEF OldestFirst
<1>12. /\ NewestFirst(pos.entries, q).kept = Reverse(back.kept)
       /\ NewestFirst(pos.entries, q).cost_basis = back.cost_basis
  <2>1. NewestFirst(pos.entries, q) = [back EXCEPT !.kept = Reverse(back.kept)]
    BY <1>1, <1>3 DEF NewestFirst
  <2>2. QED
    BY <1>6, <2>1 DEF Walks
<1>13. CASE method = "FIFO"
  <2>1. cut = [entries |-> walk.kept, realized |-> Realize(pos, p, q, walk.cost_basis)]
    BY <1>11, <1>13 DEF Reduction, ReduceFifo
  <2>2. QED
    BY <1>1, <1>5, <1>7, <1>10, <1>13, <2>1
<1>14. CASE method = "LIFO"
  <2>1. cut = [entries |-> Reverse(back.kept), realized |-> Realize(pos, p, q, back.cost_basis)]
    BY <1>12, <1>14 DEF Reduction, ReduceLifo
  <2>2. QED
    BY <1>1, <1>8, <1>10, <1>14, <2>1
<1>15. CASE method = "WeightedAverage"
  <2>1. cut = [entries |-> walk.kept, realized |-> Realize(pos, p, q, pos.average_entry_price * q)]
    BY <1>11, <1>15 DEF Reduction, ReduceWeightedAverage
  <2>2. QED
    BY <1>1, <1>5, <1>7, <1>15, <2>1
<1>16. QED
  BY <1>13, <1>14, <1>15 DEF CostBasisMethods

-----------------------------------------------------------------------------
\* The figures of the positions.

\* A position's figures are numbers and its legs hold as many units as it has.
Figures(pos) ==
  /\ pos.direction \in Directions
  /\ pos.entries \in Legs
  /\ pos.current_size \in Nat /\ LegUnits(pos.entries) = pos.current_size
  /\ pos.average_entry_price \in Nat
  /\ pos.realized_pnl \in Int /\ pos.unrealized_pnl \in Int

\* The open and the closed positions have their figures, a closed one is not open too,
\* and the book's total is the sum over the open ones.
FiguresInv ==
  /\ method \in CostBasisMethods
  /\ \A id \in DOMAIN positions : Figures(positions[id])
  /\ \A i \in DOMAIN closed_positions :
       Figures(closed_positions[i]) /\ closed_positions[i].id \notin DOMAIN positions
  /\ unrealized_pnl = TotalUnrealized(positions)

\* What the units that remain were paid for.
Held(by, pos) ==
  IF by = "WeightedAverage" THEN pos.average_entry_price * pos.current_size
  ELSE LegCost(pos.entries)

Cash(by, pos, entered, left) ==
  pos.realized_pnl = DirMultiplier(pos.direction) * (left - (entered - Held(by, pos)))

\* The history has an account for every id, and every position agrees with its own.
CashInv ==
  /\ paid \in [1 .. created -> Int] /\ received \in [1 .. created -> Int]
  /\ \A id \in DOMAIN positions : Cash(method, positions[id], paid[id], received[id])
  /\ \A i \in DOMAIN closed_positions :
       LET id == closed_positions[i].id
       IN  Cash(method, closed_positions[i], paid[id], received[id])

\* The total over the map, as one position comes or changes.

UnrealizedOf(book) == [id \in DOMAIN book |-> book[id].unrealized_pnl]

LEMMA TotalSame ==
  ASSUME NEW book, NEW next, DOMAIN next = DOMAIN book,
         \A id \in DOMAIN book : next[id].unrealized_pnl = book[id].unrealized_pnl
  PROVE  TotalUnrealized(next) = TotalUnrealized(book)
<1>1. UnrealizedOf(next) = UnrealizedOf(book)
  BY DEF UnrealizedOf
<1>2. QED
  BY <1>1 DEF TotalUnrealized, UnrealizedOf

LEMMA TotalOneMore ==
  ASSUME NEW book, IsFiniteSet(DOMAIN book), \A id \in DOMAIN book : book[id].unrealized_pnl \in Int,
         NEW next, NEW new, new \notin DOMAIN book, DOMAIN next = DOMAIN book \cup {new},
         \A id \in DOMAIN book : next[id] = book[id], next[new].unrealized_pnl = 0
  PROVE  TotalUnrealized(next) = TotalUnrealized(book)
<1>1. Whole(UnrealizedOf(book))
  BY DEF Whole, UnrealizedOf
<1>2. OneMore(UnrealizedOf(book), UnrealizedOf(next), new) /\ UnrealizedOf(next)[new] = 0
  BY DEF OneMore, UnrealizedOf
<1>3. /\ SumFunction(UnrealizedOf(next)) = SumFunction(UnrealizedOf(book)) + UnrealizedOf(next)[new]
      /\ SumFunction(UnrealizedOf(book)) \in Int
  BY <1>1, <1>2, SumAdd, SumInt
<1>4. QED
  BY <1>2, <1>3 DEF TotalUnrealized, UnrealizedOf

\* A leg of a fill.
LEMMA LegOf ==
  ASSUME NEW p \in Prices, NEW q \in Nat \ {0}, NEW leg, leg = Leg(p, q)
  PROVE  leg \in LegType /\ leg.entry_price = p /\ leg.quantity = q
BY DEF Leg, LegType

LEMMA WholeProduct ==
  ASSUME NEW m \in Int, NEW n \in Int
  PROVE  m * n \in Int /\ (m \in Nat /\ n \in Nat => m * n \in Nat)
OBVIOUS

\* A new position holds what its first fill paid.
LEMMA NewFigures ==
  ASSUME NEW id, NEW s, NEW d \in Directions, NEW p \in Prices, NEW q \in Nat \ {0}, NEW by,
         NEW pos, pos = NewPosition(id, s, d, p, q)
  PROVE  Figures(pos) /\ pos.unrealized_pnl = 0 /\ pos.id = id /\ Cash(by, pos, p * q, 0)
<1>1. PICK leg \in LegType : leg = Leg(p, q) /\ leg.entry_price = p /\ leg.quantity = q
  BY LegOf
<1>2. PICK legs : legs = << leg >>
  OBVIOUS
<1>3. legs = Append(<< >>, leg)
  BY <1>2
<1>4. p \in Nat /\ p * q \in Nat
  BY PricesAssumption, WholeProduct
<1>5. legs \in Legs /\ LegUnits(legs) = q /\ LegCost(legs) = p * q
  <2>1. /\ legs \in Legs /\ LegUnits(legs) = 0 + leg.quantity
        /\ LegCost(legs) = 0 + leg.entry_price * leg.quantity
    BY <1>3, NoLegs, LegsAppend
  <2>2. QED
    BY <1>1, <1>4, <2>1
<1>6. /\ pos.direction = d /\ pos.entries = legs /\ pos.current_size = q /\ pos.id = id
      /\ pos.average_entry_price = p /\ pos.realized_pnl = 0 /\ pos.unrealized_pnl = 0
  BY <1>1, <1>2 DEF NewPosition
<1>7. Figures(pos)
  BY <1>4, <1>5, <1>6 DEF Figures
<1>8. Held(by, pos) = p * q
  BY <1>5, <1>6 DEF Held
<1>9. DirMultiplier(d) \in Int /\ 0 - (p * q - p * q) = 0
  BY <1>4 DEF DirMultiplier
<1>10. Cash(by, pos, p * q, 0)
  BY <1>6, <1>8, <1>9 DEF Cash
<1>11. QED
  BY <1>6, <1>7, <1>10

\* No unit is lost to the rounding of a reweighted average.
WholeAverage(pos, p, q) ==
  Reweighted(pos, p, q) * (pos.current_size + q) = pos.average_entry_price * pos.current_size + p * q

\* The position with a leg more.
Added(pos, p, q) == [pos EXCEPT !.entries = Append(@, Leg(p, q)),
                                !.current_size = @ + q,
                                !.average_entry_price = Reweighted(pos, p, q)]

AddedIs(by, pos, p, q, added) ==
  /\ Figures(added) /\ added.unrealized_pnl = pos.unrealized_pnl
  /\ \A entered, left \in Int :
       Cash(by, pos, entered, left) /\ (by = "WeightedAverage" => WholeAverage(pos, p, q))
         => Cash(by, added, entered + p * q, left)

LEMMA AddedFigures ==
  ASSUME NEW id, NEW pos, OpenPositionOK(id, pos), Figures(pos),
         NEW p \in Prices, NEW q \in Nat \ {0}, NEW by,
         NEW added, added = Added(pos, p, q)
  PROVE  AddedIs(by, pos, p, q, added)
<1>1. PICK leg \in LegType : leg = Leg(p, q) /\ leg.entry_price = p /\ leg.quantity = q
  BY LegOf
<1>2. PICK legs \in Legs : legs = pos.entries
  BY DEF Figures
<1>3. /\ Append(legs, leg) \in Legs /\ LegUnits(Append(legs, leg)) = LegUnits(legs) + q
      /\ LegCost(Append(legs, leg)) = LegCost(legs) + p * q
  BY <1>1, LegsAppend
<1>4. /\ added.entries = Append(legs, leg) /\ added.current_size = pos.current_size + q
      /\ added.average_entry_price = Reweighted(pos, p, q)
      /\ added.direction = pos.direction /\ added.realized_pnl = pos.realized_pnl
      /\ added.unrealized_pnl = pos.unrealized_pnl
  BY <1>1, <1>2 DEF OpenPositionOK, Fields, Added
<1>5. Reweighted(pos, p, q) \in Nat
  <2>1. PICK size \in Nat : size = pos.current_size
    BY DEF Figures
  <2>2. PICK avg \in Nat : avg = pos.average_entry_price
    BY DEF Figures
  <2>3. p \in Nat
    BY PricesAssumption
  <2>4. PICK num \in Nat : num = avg * size + p * q
    BY <2>3, WholeProduct
  <2>5. PICK den \in Nat \ {0} : den = size + q
    OBVIOUS
  <2>6. num \div den \in Nat
    OBVIOUS
  <2>7. QED
    BY <2>1, <2>2, <2>4, <2>5, <2>6 DEF Reweighted
<1>6. Figures(added)
  <2>1. PICK size \in Nat : size = pos.current_size /\ size = LegUnits(legs)
    BY <1>2 DEF Figures
  <2>2. PICK more \in Nat : more = size + q
    OBVIOUS
  <2>3. added.current_size = more /\ LegUnits(added.entries) = more
    BY <1>3, <1>4, <2>1, <2>2, Zenon
  <2>4. QED
    BY <1>3, <1>4, <1>5, <2>3 DEF Figures
<1>7. SUFFICES ASSUME NEW entered \in Int, NEW left \in Int, Cash(by, pos, entered, left),
                      by = "WeightedAverage" => WholeAverage(pos, p, q)
               PROVE  Cash(by, added, entered + p * q, left)
  BY <1>4, <1>6, Zenon DEF AddedIs
<1>8. PICK spent \in Int : spent = p * q
  BY PricesAssumption, WholeProduct
<1>9. PICK held \in Int : held = Held(by, pos)
  <2>1. LegCost(pos.entries) \in Int
    BY LegsAreWhole DEF Figures
  <2>2. pos.average_entry_price * pos.current_size \in Int
    BY WholeProduct DEF Figures
  <2>3. QED
    BY <2>1, <2>2 DEF Held
<1>10. Held(by, added) = held + spent
  <2>1. CASE by = "WeightedAverage"
    BY <1>4, <1>7, <1>8, <1>9, <2>1 DEF Held, WholeAverage
  <2>2. CASE by # "WeightedAverage"
    BY <1>2, <1>3, <1>4, <1>8, <1>9, <2>2 DEF Held
  <2>3. QED
    BY <2>1, <2>2
<1>11. left - ((entered + spent) - (held + spent)) = left - (entered - held)
  OBVIOUS
<1>12. QED
  BY <1>4, <1>7, <1>8, <1>9, <1>10, <1>11 DEF Cash

LessIs(by, pos, p, q, less) ==
  /\ Figures(less)
  /\ \A entered, left \in Int :
       Cash(by, pos, entered, left) => Cash(by, less, entered, left + p * q)

LEMMA ReducedFigures ==
  ASSUME method \in CostBasisMethods,
         NEW id, NEW pos, OpenPositionOK(id, pos), Figures(pos),
         NEW p \in Prices, NEW q \in Nat, Sufficient(pos, q),
         NEW less, less = Reduced(pos, p, q)
  PROVE  LessIs(method, pos, p, q, less)
<1>1. PICK size \in Nat : size = pos.current_size /\ LegUnits(pos.entries) = size /\ q <= size
  BY DEF Figures, Sufficient
<1>2. PICK cut : cut = Reduction(method, pos, p, q)
  OBVIOUS
<1>3. PICK gone : gone = IF method = "WeightedAverage" THEN pos.average_entry_price * q
                         ELSE LegCost(pos.entries) - LegCost(cut.entries)
  OBVIOUS
<1>4. /\ cut.entries \in Legs /\ LegUnits(cut.entries) = size - q
      /\ cut.realized = Realize(pos, p, q, gone)
  BY <1>1, <1>2, <1>3, ReductionIs DEF Figures
<1>5. PICK avg \in Nat : avg = pos.average_entry_price
  BY DEF Figures
<1>6. LegCost(pos.entries) \in Int /\ LegCost(cut.entries) \in Int
  BY <1>4, LegsAreWhole DEF Figures
<1>7. avg * q \in Int /\ avg * size \in Int /\ avg * (size - q) = avg * size - avg * q
  <2>1. avg * (size - q) = avg * size - avg * q
    OBVIOUS
  <2>2. QED
    BY <2>1, WholeProduct
<1>8. gone \in Int
  BY <1>3, <1>5, <1>6, <1>7
<1>9. PICK brought \in Int : brought = p * q
  BY PricesAssumption, WholeProduct
<1>10. PICK dir \in Int : dir = DirMultiplier(pos.direction) /\ (dir = 1 \/ dir = -1)
  BY DEF DirMultiplier
<1>11. cut.realized = (brought - gone) * dir /\ cut.realized \in Int
  <2>1. cut.realized = (brought - gone) * dir
    BY <1>4, <1>9, <1>10 DEF Realize
  <2>2. QED
    BY <1>8, <1>10, <2>1
<1>12. /\ less.entries = cut.entries /\ less.realized_pnl = pos.realized_pnl + cut.realized
       /\ less.current_size = size - q /\ less.average_entry_price = avg
       /\ less.direction = pos.direction /\ less.unrealized_pnl \in {0, pos.unrealized_pnl}
  <2>1. less = [pos EXCEPT !.entries        = cut.entries,
                           !.realized_pnl   = @ + cut.realized,
                           !.current_size   = size - q,
                           !.status         = IF size - q = 0 THEN "Closed" ELSE "PartiallyClosed",
                           !.unrealized_pnl = IF size - q = 0 THEN 0 ELSE @]
    BY <1>1, <1>2 DEF Reduced
  <2>2. QED
    BY <1>5, <2>1 DEF OpenPositionOK, Fields
<1>13. size - q \in Nat
  BY <1>1
<1>14. Figures(less)
  <2>1. pos.realized_pnl \in Int /\ pos.unrealized_pnl \in Int /\ pos.direction \in Directions
    BY DEF Figures
  <2>2. less.realized_pnl \in Int /\ less.unrealized_pnl \in Int
    BY <1>11, <1>12, <2>1
  <2>3. QED
    BY <1>4, <1>12, <1>13, <2>1, <2>2 DEF Figures
<1>15. PICK held \in Int : held = Held(method, pos)
  BY <1>1, <1>5, <1>6, <1>7 DEF Held
<1>16. Held(method, less) = held - gone
  <2>1. CASE method = "WeightedAverage"
    BY <1>1, <1>3, <1>5, <1>7, <1>12, <1>15, <2>1 DEF Held
  <2>2. CASE method # "WeightedAverage"
    BY <1>3, <1>6, <1>12, <1>15, <2>2 DEF Held
  <2>3. QED
    BY <2>1, <2>2
<1>17. ASSUME NEW entered \in Int, NEW left \in Int, Cash(method, pos, entered, left)
       PROVE  Cash(method, less, entered, left + p * q)
  <2>1. pos.realized_pnl = dir * (left - (entered - held))
    BY <1>10, <1>15, <1>17 DEF Cash
  <2>2. pos.realized_pnl + cut.realized = dir * ((left + brought) - (entered - (held - gone)))
    BY <1>8, <1>10, <1>11, <2>1
  <2>3. QED
    BY <1>9, <1>10, <1>12, <1>16, <2>2 DEF Cash
<1>18. QED
  BY <1>14, <1>17, Zenon DEF LessIs

\* A position marked to market, or left alone for its symbol.
Marked(pos, p, marked) ==
  marked \in {pos, [pos EXCEPT !.unrealized_pnl = PnlAtMark(pos, p)]}

LEMMA MarkedFigures ==
  ASSUME NEW id, NEW pos, OpenPositionOK(id, pos), Figures(pos), NEW p \in Prices,
         NEW marked, Marked(pos, p, marked)
  PROVE  /\ Figures(marked)
         /\ \A by, entered, left : Cash(by, pos, entered, left) => Cash(by, marked, entered, left)
<1>1. PICK size \in Nat : size = pos.current_size
  BY DEF Figures
<1>2. PICK gap \in Int : gap = p - pos.average_entry_price
  BY PricesAssumption DEF Figures
<1>3. PICK dir \in Int : dir = DirMultiplier(pos.direction)
  BY DEF DirMultiplier
<1>4. PnlAtMark(pos, p) \in Int
  <2>1. size * gap \in Int
    BY WholeProduct
  <2>2. (size * gap) * dir \in Int
    BY <2>1, WholeProduct
  <2>3. QED
    BY <1>1, <1>2, <1>3, <2>2 DEF PnlAtMark
<1>5. /\ marked.direction = pos.direction /\ marked.entries = pos.entries
      /\ marked.current_size = pos.current_size
      /\ marked.average_entry_price = pos.average_entry_price
      /\ marked.realized_pnl = pos.realized_pnl
      /\ marked.unrealized_pnl \in {pos.unrealized_pnl, PnlAtMark(pos, p)}
  BY DEF Marked, OpenPositionOK, Fields
<1>6. QED
  BY <1>4, <1>5 DEF Figures, Cash, Held

-----------------------------------------------------------------------------
\* Steps of the book on the figures and the cash.

LEMMA EmptyFigures ==
  ASSUME (/\ positions = << >> /\ closed_positions = << >> /\ unrealized_pnl = 0
          /\ created = 0 /\ method \in CostBasisMethods)
  PROVE  FiguresInv
<1>1. DOMAIN positions = {} /\ DOMAIN closed_positions = {}
  OBVIOUS
<1>2. TotalUnrealized(positions) = 0
  BY <1>1, SumOfNone DEF TotalUnrealized
<1>3. QED
  BY <1>1, <1>2 DEF FiguresInv

LEMMA EmptyCash ==
  ASSUME (/\ positions = << >> /\ closed_positions = << >> /\ created = 0
          /\ paid = << >> /\ received = << >>)
  PROVE  CashInv
<1>1. DOMAIN positions = {} /\ DOMAIN closed_positions = {} /\ 1 .. created = {}
  OBVIOUS
<1>2. paid \in [{} -> Int] /\ received \in [{} -> Int]
  OBVIOUS
<1>3. QED
  BY <1>1, <1>2 DEF CashInv

\* The ledger after the account n + 1 has been opened with the amount.
OneMoreEntry(ledger2, n, ledger, amount) ==
  /\ ledger2 \in [1 .. n + 1 -> Int]
  /\ ledger2[n + 1] = amount
  /\ \A other \in 1 .. n : ledger2[other] = ledger[other]

\* The account of a new id starts with the amount; that of an old one gains it.
LEMMA TallyOfNew ==
  ASSUME NEW n \in Nat, NEW ledger \in [1 .. n -> Int], NEW amount \in Int
  PROVE  OneMoreEntry(Tally(ledger, n + 1, amount), n, ledger, amount)
<1>1. PICK tally : tally = Tally(ledger, n + 1, amount)
  OBVIOUS
<1>2. /\ DOMAIN ledger = 1 .. n /\ (1 .. n) \cup {n + 1} = 1 .. n + 1 /\ n + 1 \notin 1 .. n
      /\ n + 1 \in 1 .. n + 1 /\ \A other \in 1 .. n : other # n + 1 /\ other \in 1 .. n + 1
  OBVIOUS
<1>3. tally = [other \in 1 .. n + 1 |->
                 (IF other \in 1 .. n THEN ledger[other] ELSE 0)
                 + (IF other = n + 1 THEN amount ELSE 0)]
  BY <1>1, <1>2 DEF Tally
<1>4. \A other \in 1 .. n : ledger[other] \in Int
  OBVIOUS
<1>5. /\ \A other \in 1 .. n : tally[other] = ledger[other] + 0
      /\ tally[n + 1] = 0 + amount
  BY <1>2, <1>3
<1>6. tally \in [1 .. n + 1 -> Int]
  BY <1>3, <1>4
<1>7. OneMoreEntry(tally, n, ledger, amount)
  BY <1>4, <1>5, <1>6 DEF OneMoreEntry
<1>8. QED
  BY <1>1, <1>7

LEMMA TallyOfOld ==
  ASSUME NEW n \in Nat, NEW ledger \in [1 .. n -> Int], NEW id \in 1 .. n, NEW amount \in Int
  PROVE  /\ Tally(ledger, id, amount) \in [1 .. n -> Int]
         /\ Tally(ledger, id, amount)[id] = ledger[id] + amount
         /\ \A other \in 1 .. n : other # id => Tally(ledger, id, amount)[other] = ledger[other]
<1>1. PICK tally : tally = Tally(ledger, id, amount)
  OBVIOUS
<1>2. DOMAIN ledger = 1 .. n /\ (1 .. n) \cup {id} = 1 .. n
  OBVIOUS
<1>3. tally = [other \in 1 .. n |->
                 (IF other \in 1 .. n THEN ledger[other] ELSE 0)
                 + (IF other = id THEN amount ELSE 0)]
  BY <1>1, <1>2 DEF Tally
<1>4. \A other \in 1 .. n : ledger[other] \in Int
  OBVIOUS
<1>5. /\ \A other \in 1 .. n : other # id => tally[other] = ledger[other] + 0
      /\ tally[id] = ledger[id] + amount
  BY <1>3
<1>6. tally \in [1 .. n -> Int]
  BY <1>3, <1>4
<1>7. QED
  BY <1>1, <1>4, <1>5, <1>6

\* A fill that enters or leaves a position changes one account.
LEMMA EnterIs ==
  ASSUME created \in Nat, paid \in [1 .. created -> Int], received \in [1 .. created -> Int],
         NEW x \in 1 .. created, NEW amount \in Int, Enter(x, amount)
  PROVE  /\ paid' \in [1 .. created -> Int] /\ received' = received
         /\ paid'[x] = paid[x] + amount
         /\ \A other \in 1 .. created : other # x => paid'[other] = paid[other]
<1>1. paid' = Tally(paid, x, amount) /\ received' = Tally(received, x, 0)
  BY DEF Enter
<1>2. /\ Tally(paid, x, amount) \in [1 .. created -> Int]
      /\ Tally(paid, x, amount)[x] = paid[x] + amount
      /\ \A other \in 1 .. created : other # x => Tally(paid, x, amount)[other] = paid[other]
  BY TallyOfOld, Zenon
<1>3. received' = received
  <2>1. 0 \in Int
    OBVIOUS
  <2>2. /\ Tally(received, x, 0) \in [1 .. created -> Int]
        /\ Tally(received, x, 0)[x] = received[x] + 0
        /\ \A other \in 1 .. created : other # x => Tally(received, x, 0)[other] = received[other]
    BY <2>1, TallyOfOld, Zenon
  <2>3. received[x] + 0 = received[x]
    OBVIOUS
  <2>4. \A other \in 1 .. created : received'[other] = received[other]
    BY <1>1, <2>2, <2>3
  <2>5. QED
    BY <1>1, <2>2, <2>4
<1>4. QED
  BY <1>1, <1>2, <1>3

LEMMA ExitIs ==
  ASSUME created \in Nat, paid \in [1 .. created -> Int], received \in [1 .. created -> Int],
         NEW x \in 1 .. created, NEW amount \in Int, Exit(x, amount)
  PROVE  /\ received' \in [1 .. created -> Int] /\ paid' = paid
         /\ received'[x] = received[x] + amount
         /\ \A other \in 1 .. created : other # x => received'[other] = received[other]
<1>1. received' = Tally(received, x, amount) /\ paid' = paid
  BY DEF Exit
<1>2. /\ Tally(received, x, amount) \in [1 .. created -> Int]
      /\ Tally(received, x, amount)[x] = received[x] + amount
      /\ \A other \in 1 .. created : other # x => Tally(received, x, amount)[other] = received[other]
  BY TallyOfOld, Zenon
<1>3. QED
  BY <1>1, <1>2

\* Every id of an open or a closed position has been drawn.
LEMMA DrawnIds ==
  ASSUME Inv
  PROVE  /\ \A id \in DOMAIN positions : id \in 1 .. created
         /\ \A i \in DOMAIN closed_positions : closed_positions[i].id \in 1 .. created
BY DEF Inv, ClosedIds

LEMMA OpenBalances ==
  ASSUME Inv, FiguresInv, NEW s, NEW d \in Directions, NEW p \in Prices, NEW q \in Nat \ {0},
         OpenPosition(s, d, p, q)
  PROVE  FiguresInv' /\ (CashInv /\ Enter(created + 1, p * q) => CashInv')
<1>1. PICK new : new = created + 1
  OBVIOUS
<1>2. /\ new \in Nat /\ created' = new /\ new \notin 1 .. created /\ new \in 1 .. created + 1
      /\ UNCHANGED <<closed_positions, unrealized_pnl, method>>
  BY <1>1 DEF OpenPosition, Inv
<1>3. PICK pos : pos = NewPosition(new, s, d, p, q)
  OBVIOUS
<1>4. /\ DOMAIN positions' = DOMAIN positions \cup {new} /\ positions'[new] = pos
      /\ \A id \in DOMAIN positions : positions'[id] = positions[id]
      /\ new \notin DOMAIN positions
  BY <1>1, <1>2, <1>3, DrawnIds DEF OpenPosition
<1>5. Figures(pos) /\ pos.unrealized_pnl = 0 /\ Cash(method, pos, p * q, 0)
  BY <1>3, NewFigures
<1>6. TotalUnrealized(positions') = TotalUnrealized(positions)
  <2>1. /\ IsFiniteSet(DOMAIN positions)
        /\ \A id \in DOMAIN positions : positions[id].unrealized_pnl \in Int
    BY DEF Inv, FiguresInv, Figures
  <2>2. QED
    BY <1>4, <1>5, <2>1, TotalOneMore
<1>7. \A i \in DOMAIN closed_positions : closed_positions[i].id \notin DOMAIN positions'
  BY <1>2, <1>4, DrawnIds DEF FiguresInv
<1>8. FiguresInv'
  BY <1>2, <1>4, <1>5, <1>6, <1>7 DEF FiguresInv
<1>9. ASSUME CashInv, Enter(created + 1, p * q) PROVE CashInv'
  <2>1. PICK spent \in Int : spent = p * q
    BY PricesAssumption, WholeProduct
  <2>2. paid' = Tally(paid, created + 1, spent) /\ received' = Tally(received, created + 1, 0)
    BY <1>9, <2>1 DEF Enter
  <2>3. /\ created \in Nat /\ 0 \in Int
        /\ paid \in [1 .. created -> Int] /\ received \in [1 .. created -> Int]
    BY <1>9 DEF CashInv, Inv
  <2>4. /\ paid' \in [1 .. created + 1 -> Int] /\ paid'[created + 1] = spent
        /\ \A other \in 1 .. created : paid'[other] = paid[other]
    <3>1. OneMoreEntry(Tally(paid, created + 1, spent), created, paid, spent)
      BY <2>3, TallyOfNew
    <3>2. OneMoreEntry(paid', created, paid, spent)
      BY <2>2, <3>1
    <3>3. QED
      BY <3>2, Zenon DEF OneMoreEntry
  <2>5. /\ received' \in [1 .. created + 1 -> Int] /\ received'[created + 1] = 0
        /\ \A other \in 1 .. created : received'[other] = received[other]
    <3>1. OneMoreEntry(Tally(received, created + 1, 0), created, received, 0)
      BY <2>3, TallyOfNew
    <3>2. OneMoreEntry(received', created, received, 0)
      BY <2>2, <3>1
    <3>3. QED
      BY <3>2, Zenon DEF OneMoreEntry
  <2>6. paid' \in [1 .. new -> Int] /\ received' \in [1 .. new -> Int]
    BY <1>1, <2>4, <2>5
  <2>7. paid'[new] = p * q /\ received'[new] = 0
    BY <1>1, <2>1, <2>4, <2>5
  <2>8. \A id \in DOMAIN positions : paid'[id] = paid[id] /\ received'[id] = received[id]
    BY <2>4, <2>5, DrawnIds
  <2>9. \A i \in DOMAIN closed_positions :
          LET id == closed_positions[i].id
          IN  paid'[id] = paid[id] /\ received'[id] = received[id]
    BY <2>4, <2>5, DrawnIds
  <2>10. \A id \in DOMAIN positions' : Cash(method, positions'[id], paid'[id], received'[id])
    BY <1>4, <1>5, <1>9, <2>7, <2>8 DEF CashInv
  <2>11. QED
    BY <1>2, <1>9, <2>6, <2>9, <2>10 DEF CashInv
<1>10. QED
  BY <1>8, <1>9

LEMMA AddBalances ==
  ASSUME Inv, FiguresInv, NEW id, NEW p \in Prices, NEW q \in Nat \ {0}, AddToPosition(id, p, q)
  PROVE  /\ FiguresInv'
         /\ (/\ CashInv /\ Enter(id, p * q)
             /\ method = "WeightedAverage" => WholeAverage(positions[id], p, q)) => CashInv'
<1>1. PICK pos : pos = positions[id]
  OBVIOUS
<1>2. PICK added : added = [pos EXCEPT !.entries = Append(@, Leg(p, q)),
                                       !.current_size = @ + q,
                                       !.average_entry_price = Reweighted(pos, p, q)]
  OBVIOUS
<1>3. /\ id \in DOMAIN positions /\ positions' = [positions EXCEPT ![id] = added]
      /\ UNCHANGED <<closed_positions, unrealized_pnl, created, method>>
  BY <1>1, <1>2 DEF AddToPosition
<1>4. OpenPositionOK(id, pos) /\ Figures(pos)
  BY <1>1, <1>3 DEF Inv, FiguresInv
<1>5. /\ Figures(added) /\ added.unrealized_pnl = pos.unrealized_pnl
      /\ \A entered, left \in Int :
           Cash(method, pos, entered, left) /\ (method = "WeightedAverage" => WholeAverage(pos, p, q))
             => Cash(method, added, entered + p * q, left)
  <2>1. added = Added(pos, p, q)
    BY <1>2, Zenon DEF Added
  <2>2. AddedIs(method, pos, p, q, added)
    BY <1>4, <2>1, AddedFigures
  <2>3. QED
    BY <2>2, Zenon DEF AddedIs
<1>6. /\ DOMAIN positions' = DOMAIN positions /\ positions'[id] = added
      /\ \A other \in DOMAIN positions : other # id => positions'[other] = positions[other]
  BY <1>3
<1>7. TotalUnrealized(positions') = TotalUnrealized(positions)
  <2>1. \A other \in DOMAIN positions :
          positions'[other].unrealized_pnl = positions[other].unrealized_pnl
    BY <1>1, <1>5, <1>6
  <2>2. QED
    BY <1>6, <2>1, TotalSame
<1>8. FiguresInv'
  <2>1. \A other \in DOMAIN positions' : Figures(positions'[other])
    BY <1>5, <1>6 DEF FiguresInv
  <2>2. QED
    BY <1>3, <1>6, <1>7, <2>1 DEF FiguresInv
<1>9. ASSUME CashInv, Enter(id, p * q), method = "WeightedAverage" => WholeAverage(pos, p, q)
      PROVE  CashInv'
  <2>1. PICK spent \in Int : spent = p * q
    BY PricesAssumption, WholeProduct
  <2>2. Enter(id, spent) /\ id \in 1 .. created /\ created \in Nat
    BY <1>3, <1>9, <2>1, DrawnIds DEF Inv
  <2>3. paid \in [1 .. created -> Int] /\ received \in [1 .. created -> Int]
    BY <1>9 DEF CashInv
  <2>5. /\ paid' \in [1 .. created -> Int] /\ received' = received
        /\ paid'[id] = paid[id] + spent
        /\ \A other \in 1 .. created : other # id => paid'[other] = paid[other]
    BY <2>2, <2>3, EnterIs
  <2>7. received[id] \in Int /\ paid[id] \in Int
    BY <2>2, <2>3
  <2>8. Cash(method, added, paid'[id], received'[id])
    <3>1. Cash(method, pos, paid[id], received[id])
      BY <1>1, <1>3, <1>9 DEF CashInv
    <3>2. QED
      BY <1>5, <1>9, <2>1, <2>5, <2>7, <3>1
  <2>9. \A other \in DOMAIN positions' :
          Cash(method, positions'[other], paid'[other], received'[other])
    BY <1>6, <1>9, <2>5, <2>8, DrawnIds DEF CashInv
  <2>10. \A i \in DOMAIN closed_positions :
           LET other == closed_positions[i].id
           IN  paid'[other] = paid[other] /\ received'[other] = received[other]
    BY <1>3, <2>5, DrawnIds DEF FiguresInv
  <2>11. QED
    BY <1>3, <1>9, <2>3, <2>5, <2>9, <2>10 DEF CashInv
<1>10. QED
  BY <1>1, <1>8, <1>9

\* A reduction, whether it leaves the position open or closes it.
LEMMA ReduceBalances ==
  ASSUME Inv, FiguresInv, NEW id, NEW p \in Prices, NEW q \in Nat, ReducePosition(id, p, q)
  PROVE  FiguresInv' /\ (CashInv /\ Exit(id, p * q) => CashInv')
<1>1. PICK pos : pos = positions[id]
  OBVIOUS
<1>2. PICK less : less = Reduced(pos, p, q)
  OBVIOUS
<1>3. /\ id \in DOMAIN positions /\ Sufficient(pos, q)
      /\ \/ less.status = "Closed" /\ Retire(id, less)
         \/ /\ less.status # "Closed" /\ positions' = [positions EXCEPT ![id] = less]
            /\ UNCHANGED closed_positions
      /\ unrealized_pnl' = TotalUnrealized(positions')
      /\ UNCHANGED <<created, method>>
  BY <1>1, <1>2 DEF ReducePosition, RecalcUnrealizedPnl
<1>4. OpenPositionOK(id, pos) /\ Figures(pos) /\ method \in CostBasisMethods
  BY <1>1, <1>3 DEF Inv, FiguresInv
<1>5. less.id = id
  BY <1>2, <1>3, <1>4, ReducedIs
<1>6. /\ Figures(less)
      /\ \A entered, left \in Int :
           Cash(method, pos, entered, left) => Cash(method, less, entered, left + p * q)
  <2>1. LessIs(method, pos, p, q, less)
    BY <1>2, <1>3, <1>4, ReducedFigures
  <2>2. QED
    BY <2>1, Zenon DEF LessIs
<1>7. id \in 1 .. created /\ created \in Nat
  BY <1>3, DrawnIds DEF Inv
<1>8. ASSUME CashInv, Exit(id, p * q)
      PROVE  /\ paid' \in [1 .. created -> Int] /\ received' \in [1 .. created -> Int]
             /\ Cash(method, less, paid'[id], received'[id])
             /\ \A other \in 1 .. created : other # id =>
                  paid'[other] = paid[other] /\ received'[other] = received[other]
  <2>1. PICK brought \in Int : brought = p * q
    BY PricesAssumption, WholeProduct
  <2>2. paid \in [1 .. created -> Int] /\ received \in [1 .. created -> Int] /\ Exit(id, brought)
    BY <1>8, <2>1 DEF CashInv
  <2>3. /\ received' \in [1 .. created -> Int] /\ paid' = paid
        /\ received'[id] = received[id] + brought
        /\ \A other \in 1 .. created : other # id => received'[other] = received[other]
    BY <1>7, <2>2, ExitIs
  <2>4. paid[id] \in Int /\ received[id] \in Int /\ Cash(method, pos, paid[id], received[id])
    BY <1>1, <1>3, <1>7, <1>8, <2>2 DEF CashInv
  <2>5. Cash(method, less, paid[id], received[id] + brought)
    BY <1>6, <2>1, <2>4
  <2>6. QED
    BY <2>2, <2>3, <2>5
<1>9. CASE less.status # "Closed"
  <2>1. /\ DOMAIN positions' = DOMAIN positions /\ positions'[id] = less
        /\ \A other \in DOMAIN positions : other # id => positions'[other] = positions[other]
        /\ UNCHANGED closed_positions
    BY <1>3, <1>9
  <2>2. \A other \in DOMAIN positions' : Figures(positions'[other])
    BY <1>6, <2>1 DEF FiguresInv
  <2>3. FiguresInv'
    BY <1>3, <2>1, <2>2 DEF FiguresInv
  <2>4. ASSUME CashInv, Exit(id, p * q) PROVE CashInv'
    <3>1. \A other \in DOMAIN positions' :
            Cash(method, positions'[other], paid'[other], received'[other])
      BY <1>8, <2>1, <2>4, DrawnIds DEF CashInv
    <3>2. \A i \in DOMAIN closed_positions :
            LET other == closed_positions[i].id
            IN  paid'[other] = paid[other] /\ received'[other] = received[other]
      BY <1>3, <1>8, <2>4, DrawnIds DEF FiguresInv
    <3>3. QED
      BY <1>3, <1>8, <2>1, <2>4, <3>1, <3>2 DEF CashInv
  <2>5. QED
    BY <2>3, <2>4
<1>10. CASE less.status = "Closed"
  <2>1. /\ positions' = Restrict(positions, DOMAIN positions \ {id})
        /\ closed_positions' = Append(closed_positions, less)
    BY <1>3, <1>10 DEF Retire
  <2>2. /\ DOMAIN positions' = DOMAIN positions \ {id}
        /\ \A other \in DOMAIN positions' : positions'[other] = positions[other]
    BY <2>1 DEF Restrict
  <2>3. PICK S : closed_positions \in Seq(S)
    BY DEF Inv, ClosedIsSeq
  <2>4. closed_positions \in Seq(S \cup {less}) /\ less \in S \cup {less}
    BY <2>3
  <2>5. PICK n \in Nat : n = Len(closed_positions) /\ DOMAIN closed_positions = 1 .. n
    BY <2>3
  <2>6. /\ DOMAIN closed_positions' = (1 .. n) \cup {n + 1}
        /\ \A i \in 1 .. n : closed_positions'[i] = closed_positions[i]
        /\ closed_positions'[n + 1] = less
    BY <2>1, <2>4, <2>5
  <2>7. FiguresInv'
    <3>1. \A other \in DOMAIN positions' : Figures(positions'[other])
      BY <2>2 DEF FiguresInv
    <3>2. \A i \in DOMAIN closed_positions' :
            /\ Figures(closed_positions'[i])
            /\ closed_positions'[i].id \notin DOMAIN positions'
      BY <1>5, <1>6, <2>2, <2>5, <2>6 DEF FiguresInv
    <3>3. QED
      BY <1>3, <1>4, <3>1, <3>2 DEF FiguresInv
  <2>8. ASSUME CashInv, Exit(id, p * q) PROVE CashInv'
    <3>1. \A other \in DOMAIN positions' :
            Cash(method, positions'[other], paid'[other], received'[other])
      BY <1>8, <2>2, <2>8, DrawnIds DEF CashInv
    <3>2. \A i \in 1 .. n :
            LET other == closed_positions[i].id
            IN  paid'[other] = paid[other] /\ received'[other] = received[other]
      BY <1>3, <1>8, <2>5, <2>8, DrawnIds DEF FiguresInv
    <3>3. \A i \in DOMAIN closed_positions' :
            LET other == closed_positions'[i].id
            IN  Cash(method, closed_positions'[i], paid'[other], received'[other])
      BY <1>5, <1>8, <2>5, <2>6, <2>8, <3>2 DEF CashInv
    <3>4. QED
      BY <1>3, <1>8, <2>8, <3>1, <3>3 DEF CashInv
  <2>9. QED
    BY <2>7, <2>8
<1>11. QED
  BY <1>9, <1>10

LEMMA MarkBalances ==
  ASSUME Inv, FiguresInv, NEW s, NEW p \in Prices, UpdateUnrealizedPnl(s, p)
  PROVE  FiguresInv' /\ (CashInv /\ UNCHANGED <<paid, received>> => CashInv')
<1>1. /\ DOMAIN positions' = DOMAIN positions
      /\ unrealized_pnl' = TotalUnrealized(positions')
      /\ UNCHANGED <<closed_positions, created, method>>
  BY DEF UpdateUnrealizedPnl, RecalcUnrealizedPnl
<1>2. ASSUME NEW id \in DOMAIN positions
      PROVE  /\ Figures(positions'[id])
             /\ \A by, entered, left :
                  Cash(by, positions[id], entered, left) => Cash(by, positions'[id], entered, left)
  <2>1. OpenPositionOK(id, positions[id]) /\ Figures(positions[id])
    BY DEF Inv, FiguresInv
  <2>2. positions'[id] \in {positions[id],
                            [positions[id] EXCEPT !.unrealized_pnl = PnlAtMark(positions[id], p)]}
    BY DEF UpdateUnrealizedPnl
  <2>3. PICK pos : pos = positions[id]
    OBVIOUS
  <2>4. PICK marked : marked = positions'[id]
    OBVIOUS
  <2>5. /\ OpenPositionOK(id, pos) /\ Figures(pos)
        /\ Marked(pos, p, marked)
    BY <2>1, <2>2, <2>3, <2>4 DEF Marked
  <2>6. /\ Figures(marked)
        /\ \A by, entered, left : Cash(by, pos, entered, left) => Cash(by, marked, entered, left)
    BY <2>5, MarkedFigures, Zenon
  <2>7. QED
    BY <2>3, <2>4, <2>6
<1>3. FiguresInv'
  BY <1>1, <1>2 DEF FiguresInv
<1>4. ASSUME CashInv, UNCHANGED <<paid, received>> PROVE CashInv'
  BY <1>1, <1>2, <1>4 DEF CashInv
<1>5. QED
  BY <1>3, <1>4

-----------------------------------------------------------------------------
\* No addition of the step rounds its average under the weighted average.
WholeAverages ==
  method = "WeightedAverage" =>
    \A id \in DOMAIN positions, p \in Prices, q \in Quantities :
      AddToPosition(id, p, q) => WholeAverage(positions[id], p, q)
LEMMA BalancesNext ==
  Inv /\ FiguresInv /\ [LedgerNext]_vars =>
    FiguresInv' /\ (CashInv /\ [WholeAverages]_vars => CashInv')
<1> SUFFICES ASSUME Inv, FiguresInv, [LedgerNext]_vars
             PROVE  FiguresInv' /\ (CashInv /\ [WholeAverages]_vars => CashInv')
  OBVIOUS
<1>1. CASE UNCHANGED vars
  BY <1>1 DEF vars, bookVars, FiguresInv, CashInv
<1>2. CASE LedgerOpen
  <2>1. PICK s \in Symbols, d \in Directions, p \in Prices, q \in Quantities :
          OpenPosition(s, d, p, q) /\ Enter(created + 1, p * q)
    BY <1>2 DEF LedgerOpen
  <2>2. q \in Nat \ {0}
    BY QuantitiesAssumption
  <2>3. QED
    BY <2>1, <2>2, OpenBalances
<1>3. CASE LedgerAdd /\ ~ UNCHANGED vars
  <2>1. PICK id \in DOMAIN positions, p \in Prices, q \in Quantities :
          AddToPosition(id, p, q) /\ Enter(id, p * q)
    BY <1>3 DEF LedgerAdd
  <2>2. q \in Nat \ {0}
    BY QuantitiesAssumption
  <2>3. [WholeAverages]_vars /\ method = "WeightedAverage" => WholeAverage(positions[id], p, q)
    BY <1>3, <2>1 DEF WholeAverages
  <2>4. QED
    BY <2>1, <2>2, <2>3, AddBalances
<1>4. CASE LedgerReduce
  <2>1. PICK id \in DOMAIN positions, p \in Prices, q \in Quantities :
          ReducePosition(id, p, q) /\ Exit(id, p * q)
    BY <1>4 DEF LedgerReduce
  <2>2. q \in Nat
    BY QuantitiesAssumption
  <2>3. QED
    BY <2>1, <2>2, ReduceBalances
<1>5. CASE LedgerClose
  <2>1. PICK id \in DOMAIN positions, p \in Prices :
          ClosePosition(id, p) /\ Exit(id, p * positions[id].current_size)
    BY <1>5 DEF LedgerClose
  <2>2. PICK q \in Nat : q = positions[id].current_size
    BY DEF FiguresInv, Figures
  <2>3. ReducePosition(id, p, q) /\ Exit(id, p * q)
    BY <2>1, <2>2 DEF ClosePosition
  <2>4. QED
    BY <2>3, ReduceBalances
<1>6. CASE LedgerMark
  <2>1. PICK s \in Symbols, p \in Prices : UpdateUnrealizedPnl(s, p)
    BY <1>6 DEF LedgerMark
  <2>2. UNCHANGED <<paid, received>>
    BY <1>6 DEF LedgerMark
  <2>3. QED
    BY <2>1, <2>2, MarkBalances
<1>7. CASE LedgerNewBook
  <2>1. /\ positions' = << >> /\ closed_positions' = << >> /\ unrealized_pnl' = 0 /\ created' = 0
        /\ method' \in CostBasisMethods /\ paid' = << >> /\ received' = << >>
    BY <1>7 DEF LedgerNewBook, NewBook, FiguresInv
  <2>2. /\ DOMAIN positions' = {} /\ DOMAIN closed_positions' = {} /\ 1 .. created' = {}
        /\ paid' \in [{} -> Int] /\ received' \in [{} -> Int]
    BY <2>1
  <2>3. TotalUnrealized(positions') = 0
    BY <2>2, SumOfNone DEF TotalUnrealized
  <2>4. QED
    BY <2>1, <2>2, <2>3 DEF FiguresInv, CashInv
<1>8. QED
  BY <1>1, <1>2, <1>3, <1>4, <1>5, <1>6, <1>7 DEF LedgerNext

LEMMA BalancesInit == LedgerInit => FiguresInv /\ CashInv
<1> SUFFICES ASSUME LedgerInit PROVE FiguresInv /\ CashInv
  OBVIOUS
<1>1. /\ positions = << >> /\ closed_positions = << >> /\ unrealized_pnl = 0 /\ created = 0
      /\ method \in CostBasisMethods /\ paid = << >> /\ received = << >>
  BY DEF LedgerInit, Init
<1>2. QED
  BY <1>1, EmptyFigures, EmptyCash

\* Every position ever opened is one of the map or one of the closed ones.
LEMMA EverythingIs ==
  Inv => \A id \in DOMAIN Everything :
           \/ id \in DOMAIN positions /\ Everything[id] = positions[id]
           \/ \E i \in DOMAIN closed_positions :
                /\ closed_positions[i].id = id /\ Everything[id] = closed_positions[i]
<1> SUFFICES ASSUME Inv, NEW id \in DOMAIN Everything
             PROVE  \/ id \in DOMAIN positions /\ Everything[id] = positions[id]
                    \/ \E i \in DOMAIN closed_positions :
                         /\ closed_positions[i].id = id /\ Everything[id] = closed_positions[i]
  OBVIOUS
<1>1. id \in DOMAIN positions \/ id \in ClosedIds
  BY DEF Everything
<1>2. CASE id \in DOMAIN positions
  BY <1>2 DEF Everything
<1>3. CASE id \notin DOMAIN positions
  <2>1. Everything[id] = CHOOSE pos \in ToSet(closed_positions) : pos.id = id
    BY <1>1, <1>3 DEF Everything
  <2>2. \E pos \in ToSet(closed_positions) : pos.id = id
    BY <1>1, <1>3 DEF ClosedIds, ToSet
  <2>3. Everything[id] \in ToSet(closed_positions) /\ Everything[id].id = id
    BY <2>1, <2>2
  <2>4. QED
    BY <2>3 DEF ToSet
<1>4. QED
  BY <1>2, <1>3

LEMMA FiguresImply == Inv /\ FiguresInv => LegsCoverSize /\ BookTotalIsSum
<1> SUFFICES ASSUME Inv, FiguresInv PROVE LegsCoverSize /\ BookTotalIsSum
  OBVIOUS
<1>1. ASSUME NEW id \in DOMAIN Everything
      PROVE  LegUnits(Everything[id].entries) = Everything[id].current_size
  BY EverythingIs DEF FiguresInv, Figures
<1>2. QED
  BY <1>1 DEF LegsCoverSize, BookTotalIsSum, FiguresInv

LEMMA CashImplies == Inv /\ CashInv => RealizedMatchesCash
<1> SUFFICES ASSUME Inv, CashInv, NEW id \in DOMAIN Everything
             PROVE  Everything[id].realized_pnl
                      = DirMultiplier(Everything[id].direction)
                        * (received[id] - (paid[id] - Held(method, Everything[id])))
  BY DEF RealizedMatchesCash, Held
<1>1. CASE id \in DOMAIN positions /\ Everything[id] = positions[id]
  BY <1>1 DEF CashInv, Cash
<1>2. CASE \E i \in DOMAIN closed_positions :
             closed_positions[i].id = id /\ Everything[id] = closed_positions[i]
  BY <1>2 DEF CashInv, Cash
<1>3. QED
  BY <1>1, <1>2, EverythingIs

\* Whatever fills opened, pyramided, reduced and closed it, a position's legs hold as many
\* units as its size says (reduce_fifo, reduce_lifo and reduce_weighted_average drop and
\* split the legs; reduce_position subtracts from current_size).
THEOREM LegsAlwaysCoverSize == LedgerSpec => []LegsCoverSize
<1>1. LedgerInit => Inv
  BY EmptyBook DEF LedgerInit, Init
<1>2. Inv /\ FiguresInv => LegsCoverSize
  BY FiguresImply
<1>3. Inv /\ FiguresInv /\ [LedgerNext]_vars => FiguresInv'
  BY BalancesNext
<1>4. QED
  BY <1>1, <1>2, <1>3, BalancesInit, InvNext, PTL DEF LedgerSpec

\* The total that open_position and add_to_position leave as it is, and the other
\* operations recompute, is always the sum of the open positions' unrealized profit.
THEOREM TotalIsAlwaysSum == LedgerSpec => []BookTotalIsSum
<1>1. LedgerInit => Inv
  BY EmptyBook DEF LedgerInit, Init
<1>2. Inv /\ FiguresInv => BookTotalIsSum
  BY FiguresImply
<1>3. Inv /\ FiguresInv /\ [LedgerNext]_vars => FiguresInv'
  BY BalancesNext
<1>4. QED
  BY <1>1, <1>2, <1>3, BalancesInit, InvNext, PTL DEF LedgerSpec

\* What a position realized is what its fills brought in less the cost of the units that
\* left, under the weighted average as long as no average is rounded (the model divides
\* integers, the code decimals of 28 digits); the premise says nothing of FIFO and LIFO.
THEOREM CashAddsUp == LedgerSpec /\ [][WholeAverages]_vars => []RealizedMatchesCash
<1>1. LedgerInit => Inv
  BY EmptyBook DEF LedgerInit, Init
<1>2. Inv /\ CashInv => RealizedMatchesCash
  BY CashImplies
<1>3. Inv /\ FiguresInv /\ [LedgerNext]_vars => FiguresInv'
  BY BalancesNext
<1>4. Inv /\ FiguresInv /\ CashInv /\ [LedgerNext]_vars /\ [WholeAverages]_vars => CashInv'
  BY BalancesNext
<1>5. QED
  BY <1>1, <1>2, <1>3, <1>4, BalancesInit, InvNext, PTL DEF LedgerSpec

\* Under FIFO and LIFO it is so whatever the prices and quantities.
THEOREM CashAddsUpByLegs ==
  LedgerSpec /\ method # "WeightedAverage" => []RealizedMatchesCash
<1>1. method # "WeightedAverage" /\ [LedgerNext]_vars => (method # "WeightedAverage")'
  BY DEF LedgerNext, LedgerOpen, LedgerAdd, LedgerReduce, LedgerClose, LedgerMark, LedgerNewBook,
         OpenPosition, AddToPosition, ReducePosition, ClosePosition, UpdateUnrealizedPnl, NewBook,
         vars, bookVars
<1>2. method # "WeightedAverage" => [WholeAverages]_vars
  BY DEF WholeAverages
<1>3. LedgerSpec /\ method # "WeightedAverage" => [][WholeAverages]_vars
  BY <1>1, <1>2, PTL DEF LedgerSpec
<1>4. QED
  BY <1>3, CashAddsUp, PTL

-----------------------------------------------------------------------------
\* Sequences of numbers.

\* Induction along a sequence: Q holds the empty one and, with a sequence, those of one
\* element more.
LEMMA SeqInd ==
  ASSUME NEW S, NEW Q, << >> \in Q,
         \A s \in Seq(S) : s \in Q => \A x \in S : Append(s, x) \in Q
  PROVE  \A s \in Seq(S) : s \in Q
<1> DEFINE T == {n \in Nat : \A s \in Seq(S) : Len(s) = n => s \in Q}
<1> HIDE DEF T
<1>1. 0 \in T
  <2>1. \A s \in Seq(S) : Len(s) = 0 => s = << >>
    BY EmptySeq
  <2>2. QED
    BY <2>1 DEF T
<1>2. ASSUME NEW n \in T PROVE n + 1 \in T
  <2>1. n \in Nat /\ \A s \in Seq(S) : Len(s) = n => s \in Q
    BY DEF T
  <2>2. ASSUME NEW s \in Seq(S), Len(s) = n + 1 PROVE s \in Q
    <3>1. s # << >>
      BY <2>1, <2>2
    <3>2. PICK r \in Seq(S), x \in S : s = Append(r, x)
      BY <3>1, SequenceEmptyOrAppend
    <3>3. Len(r) \in Nat /\ Len(s) = Len(r) + 1
      BY <3>2, AppendProperties, LenProperties
    <3>4. r \in Q
      BY <2>1, <2>2, <3>3
    <3>5. QED
      BY <3>2, <3>4
  <2>3. QED
    BY <2>1, <2>2 DEF T
<1>3. T = Nat
  <2>1. T \in SUBSET Nat
    BY DEF T
  <2>2. QED
    BY <1>1, <1>2, <2>1, NatInd
<1>4. QED
  BY <1>3, LenProperties DEF T

LEMMA SeqSum ==
  ASSUME NEW s \in Seq(Int)
  PROVE  /\ Whole(s) /\ SumFunction(s) \in Int
         /\ \A x \in Int : SumFunction(Append(s, x)) = SumFunction(s) + x
<1>1. PICK n \in Nat : n = Len(s) /\ DOMAIN s = 1 .. n /\ \A i \in 1 .. n : s[i] \in Int
  BY LenProperties
<1>2. IsFiniteSet(1 .. n)
  BY FS_Interval
<1>3. Whole(s) /\ SumFunction(s) \in Int
  BY <1>1, <1>2, SumInt DEF Whole
<1>4. ASSUME NEW x \in Int PROVE SumFunction(Append(s, x)) = SumFunction(s) + x
  <2>1. PICK more : more = Append(s, x)
    OBVIOUS
  <2>2. /\ DOMAIN more = (1 .. n) \cup {n + 1} /\ more[n + 1] = x
        /\ \A i \in 1 .. n : more[i] = s[i]
    BY <1>1, <2>1
  <2>3. OneMore(s, more, n + 1)
    BY <1>1, <2>2 DEF OneMore
  <2>4. SumFunction(more) = SumFunction(s) + more[n + 1]
    BY <1>3, <2>3, SumAdd
  <2>5. QED
    BY <2>1, <2>2, <2>4
<1>5. QED
  BY <1>3, <1>4

LEMMA EmptySum == SumFunction(<< >>) = 0
BY SumOfNone

\* What two sequences in a row add up to.
LEMMA SumConcat ==
  ASSUME NEW a \in Seq(Int), NEW b \in Seq(Int)
  PROVE  SumFunction(a \o b) = SumFunction(a) + SumFunction(b)
<1> DEFINE Q == {s \in Seq(Int) : SumFunction(a \o s) = SumFunction(a) + SumFunction(s)}
<1>1. << >> \in Q
  <2>1. a \o << >> = a /\ << >> \in Seq(Int)
    BY ConcatEmptySeq
  <2>2. QED
    BY <2>1, EmptySum, SeqSum
<1>2. ASSUME NEW s \in Seq(Int), s \in Q, NEW x \in Int PROVE Append(s, x) \in Q
  <2>1. a \o Append(s, x) = Append(a \o s, x)
    OBVIOUS
  <2>2. a \o s \in Seq(Int) /\ Append(s, x) \in Seq(Int)
    OBVIOUS
  <2>3. SumFunction(Append(a \o s, x)) = SumFunction(a \o s) + x
    BY <2>2, SeqSum
  <2>4. SumFunction(Append(s, x)) = SumFunction(s) + x
    BY SeqSum
  <2>5. SumFunction(a) \in Int /\ SumFunction(s) \in Int
    BY SeqSum
  <2>6. SumFunction(a \o s) = SumFunction(a) + SumFunction(s)
    BY <1>2
  <2>7. SumFunction(a \o Append(s, x)) = SumFunction(a) + SumFunction(Append(s, x))
    BY <2>1, <2>3, <2>4, <2>5, <2>6
  <2>8. QED
    BY <2>2, <2>7
<1>3. b \in Q
  <2> HIDE DEF Q
  <2>1. QED
    BY <1>1, <1>2, SeqInd
<1>4. QED
  BY <1>3

\* n units of one price.
Copies(price, n) == [i \in 1 .. n |-> price]

LEMMA CopiesAre ==
  ASSUME NEW price \in Int, NEW n \in Nat
  PROVE  /\ Copies(price, n) \in Seq(Int) /\ Len(Copies(price, n)) = n
         /\ \A i \in 1 .. n : Copies(price, n)[i] = price
BY DEF Copies

LEMMA CopiesOfParts ==
  ASSUME NEW price \in Int, NEW m \in Nat, NEW n \in Nat
  PROVE  Copies(price, m + n) = Copies(price, m) \o Copies(price, n)
<1> PICK a \in Seq(Int) : a = Copies(price, m) /\ Len(a) = m /\ \A i \in 1 .. m : a[i] = price
  BY CopiesAre
<1> PICK b \in Seq(Int) : b = Copies(price, n) /\ Len(b) = n /\ \A i \in 1 .. n : b[i] = price
  BY CopiesAre
<1> PICK c \in Seq(Int) : c = Copies(price, m + n) /\ Len(c) = m + n
                          /\ \A i \in 1 .. m + n : c[i] = price
  <2>1. m + n \in Nat
    OBVIOUS
  <2>2. QED
    BY <2>1, CopiesAre
<1>1. a \o b \in Seq(Int) /\ Len(a \o b) = m + n
  OBVIOUS
<1>2. \A i \in 1 .. m + n : (a \o b)[i] = price
  OBVIOUS
<1>3. QED
  BY <1>1, <1>2, SeqEqual

LEMMA SumOfCopies ==
  ASSUME NEW price \in Int, NEW n \in Nat
  PROVE  SumFunction(Copies(price, n)) = price * n
<1> DEFINE T == {k \in Nat : SumFunction(Copies(price, k)) = price * k}
<1> HIDE DEF T
<1>1. 0 \in T
  <2>1. Copies(price, 0) = << >>
    BY CopiesAre, EmptySeq
  <2>2. QED
    BY <2>1, EmptySum DEF T
<1>2. ASSUME NEW k \in T PROVE k + 1 \in T
  <2>1. k \in Nat /\ SumFunction(Copies(price, k)) = price * k
    BY DEF T
  <2>2. Copies(price, k + 1) = Append(Copies(price, k), price)
    BY <2>1 DEF Copies
  <2>3. SumFunction(Copies(price, k + 1)) = SumFunction(Copies(price, k)) + price
    BY <2>1, <2>2, CopiesAre, SeqSum
  <2>4. price * (k + 1) = price * k + price
    BY <2>1
  <2>5. QED
    BY <2>1, <2>3, <2>4 DEF T
<1>3. T = Nat
  <2>1. T \in SUBSET Nat
    BY DEF T
  <2>2. QED
    BY <1>1, <1>2, <2>1, NatInd
<1>4. QED
  BY <1>3 DEF T

LEMMA ConcatThree ==
  ASSUME NEW f \in Seq(Int), NEW g \in Seq(Int), NEW h \in Seq(Int)
  PROVE  (f \o g) \o h = f \o (g \o h)
OBVIOUS

LEMMA ConcatIs ==
  ASSUME NEW f \in Seq(Int), NEW g \in Seq(Int)
  PROVE  /\ f \o g \in Seq(Int) /\ Len(f \o g) = Len(f) + Len(g)
         /\ f \o << >> = f /\ << >> \o f = f
BY ConcatProperties, ConcatEmptySeq

\* The other way round.
LEMMA ReverseIs ==
  ASSUME NEW S, NEW a \in Seq(S)
  PROVE  /\ Reverse(a) \in Seq(S) /\ Len(Reverse(a)) = Len(a)
         /\ \A i \in 1 .. Len(a) : Reverse(a)[i] = a[Len(a) - i + 1]
         /\ Reverse(Reverse(a)) = a
<1>1. PICK n \in Nat : n = Len(a)
  BY LenProperties
<1>2. PICK x : x = Reverse(a)
  OBVIOUS
<1>3. x \in Seq(S) /\ Len(x) = n /\ \A i \in 1 .. n : x[i] = a[n - i + 1]
  BY <1>1, <1>2 DEF Reverse
<1>4. PICK y : y = Reverse(x)
  OBVIOUS
<1>5. y \in Seq(S) /\ Len(y) = n /\ \A i \in 1 .. n : y[i] = x[n - i + 1]
  BY <1>3, <1>4 DEF Reverse
<1>6. \A i \in 1 .. n : n - i + 1 \in 1 .. n /\ n - (n - i + 1) + 1 = i
  OBVIOUS
<1>7. \A i \in 1 .. n : y[i] = a[i]
  BY <1>3, <1>5, <1>6
<1>8. y = a
  BY <1>1, <1>5, <1>7, SeqEqual
<1>9. /\ Len(x) = Len(a) /\ \A i \in 1 .. Len(a) : x[i] = a[Len(a) - i + 1]
  BY <1>1, <1>3
<1>10. QED
  BY <1>2, <1>3, <1>4, <1>8, <1>9, Zenon

LEMMA ReverseConcat ==
  ASSUME NEW S, NEW a \in Seq(S), NEW b \in Seq(S)
  PROVE  Reverse(a \o b) = Reverse(b) \o Reverse(a)
<1>1. PICK m \in Nat : m = Len(a)
  BY LenProperties
<1>2. PICK n \in Nat : n = Len(b)
  BY LenProperties
<1>3. PICK x \in Seq(S) : x = Reverse(a)
  BY ReverseIs, Zenon
<1>4. PICK y \in Seq(S) : y = Reverse(b)
  BY ReverseIs, Zenon
<1>5. Len(x) = m /\ \A i \in 1 .. m : x[i] = a[m - i + 1]
  BY <1>1, <1>3, ReverseIs, Zenon
<1>6. Len(y) = n /\ \A i \in 1 .. n : y[i] = b[n - i + 1]
  BY <1>2, <1>4, ReverseIs, Zenon
<1>7. PICK c : c = a \o b
  OBVIOUS
<1>8. PICK z : z = Reverse(c)
  OBVIOUS
<1>9. PICK w : w = y \o x
  OBVIOUS
<1>10. /\ c \in Seq(S) /\ Len(c) = m + n
      /\ \A i \in 1 .. m + n : c[i] = IF i <= m THEN a[i] ELSE b[i - m]
  BY <1>1, <1>2, <1>7
<1>11. /\ w \in Seq(S) /\ Len(w) = n + m
      /\ \A i \in 1 .. n + m : w[i] = IF i <= n THEN y[i] ELSE x[i - n]
  <2>1. Len(x) = m /\ Len(y) = n
    BY <1>5, <1>6
  <2>2. /\ w \in Seq(S) /\ Len(w) = Len(y) + Len(x)
        /\ \A i \in 1 .. Len(y) + Len(x) : w[i] = IF i <= Len(y) THEN y[i] ELSE x[i - Len(y)]
    BY <1>9, ConcatProperties, Zenon
  <2>3. QED
    BY <2>1, <2>2
<1>12. z \in Seq(S) /\ Len(z) = m + n /\ \A i \in 1 .. m + n : z[i] = c[(m + n) - i + 1]
  BY <1>8, <1>10 DEF Reverse
<1>13. ASSUME NEW i \in 1 .. m + n PROVE z[i] = w[i]
  <2>1. CASE i <= n
    <3>1. PICK j \in 1 .. m + n : j = (m + n) - i + 1 /\ ~(j <= m) /\ j - m = n - i + 1
      BY <2>1
    <3>2. z[i] = b[n - i + 1]
      BY <1>10, <1>12, <3>1
    <3>3. w[i] = b[n - i + 1]
      <4>1. i \in 1 .. n /\ i \in 1 .. n + m
        BY <2>1
      <4>2. QED
        BY <1>6, <1>11, <2>1, <4>1
    <3>4. QED
      BY <3>2, <3>3
  <2>2. CASE ~(i <= n)
    <3>1. PICK j \in 1 .. m + n : j = (m + n) - i + 1 /\ j <= m
      BY <2>2
    <3>2. z[i] = a[j]
      BY <1>10, <1>12, <3>1
    <3>3. PICK k \in 1 .. m : k = i - n /\ m - k + 1 = j
      BY <2>2, <3>1
    <3>4. w[i] = x[k]
      BY <1>11, <2>2, <3>3
    <3>5. QED
      BY <1>5, <3>2, <3>3, <3>4
  <2>3. QED
    BY <2>1, <2>2
<1>14. z = w
  <2>1. Len(z) = Len(w) /\ \A i \in 1 .. Len(z) : z[i] = w[i]
    BY <1>12, <1>11, <1>13
  <2>2. QED
    BY <1>12, <1>11, <2>1, SeqEqual
<1>15. QED
  BY <1>3, <1>4, <1>7, <1>8, <1>9, <1>14

-----------------------------------------------------------------------------
\* The units of a holding: what LotsOf makes of its legs.

UnitsOf(leg) == Copies(leg.entry_price, leg.quantity)

LEMMA UnitsOfLeg ==
  ASSUME NEW leg \in LegType
  PROVE  /\ UnitsOf(leg) \in Seq(Int) /\ Len(UnitsOf(leg)) = leg.quantity
         /\ SumFunction(UnitsOf(leg)) = leg.entry_price * leg.quantity
<1>1. PICK price \in Nat : price = leg.entry_price
  BY LegIs
<1>2. PICK units \in Nat : units = leg.quantity
  BY LegIs
<1>3. /\ Copies(price, units) \in Seq(Int) /\ Len(Copies(price, units)) = units
      /\ SumFunction(Copies(price, units)) = price * units
  BY CopiesAre, SumOfCopies
<1>4. QED
  BY <1>1, <1>2, <1>3 DEF UnitsOf

\* The equation inside the fold of LotsOf.
IsLots(iter, entries) ==
  iter = [s \in SUBSET DOMAIN entries |->
            IF s = {} THEN << >> ELSE iter[s \ {Max(s)}] \o UnitsOf(entries[Max(s)])]

LEMMA LotsExpanded ==
  ASSUME NEW entries
  PROVE  LotsOf(entries) = (CHOOSE iter : IsLots(iter, entries))[DOMAIN entries]
BY Zenon DEF LotsOf, FoldLeft, MapThenFoldSet, IsLots, UnitsOf, Copies

LEMMA LotsExist ==
  ASSUME NEW entries \in Legs
  PROVE  \E iter : IsLots(iter, entries)
<1>1. PICK n \in Nat : n = Len(entries) /\ DOMAIN entries = 1 .. n
  BY DEF Legs
<1>2. \A i \in 1 .. n : UnitsOf(entries[i]) \in Seq(Int)
  <2>1. \A i \in 1 .. n : entries[i] \in LegType
    BY <1>1 DEF Legs
  <2>2. QED
    BY <2>1, UnitsOfLeg
<1>3. PICK step : step = [k \in 1 .. n |-> [acc \in Seq(Int) |-> acc \o UnitsOf(entries[k])]]
  OBVIOUS
<1>4. step \in [1 .. n -> [Seq(Int) -> Seq(Int)]]
  <2>1. \A k \in 1 .. n : \A acc \in Seq(Int) : acc \o UnitsOf(entries[k]) \in Seq(Int)
    BY <1>2, ConcatProperties
  <2>2. QED
    BY <1>3, <2>1
<1>5. PICK base \in Seq(Int) : base = << >>
  BY EmptySeq
<1>6. PICK iter \in [SUBSET (1 .. n) -> Seq(Int)] : IsFold(iter, n, base, step)
  BY <1>4, FoldExists
<1>7. ASSUME NEW s \in SUBSET (1 .. n), s # {}
      PROVE  step[Max(s)][iter[s \ {Max(s)}]] = iter[s \ {Max(s)}] \o UnitsOf(entries[Max(s)])
  <2>1. Max(s) \in 1 .. n
    BY <1>7, MaxIs
  <2>2. iter[s \ {Max(s)}] \in Seq(Int)
    BY <1>6
  <2>3. QED
    BY <1>3, <2>1, <2>2
<1>8. iter = [s \in SUBSET (1 .. n) |->
                IF s = {} THEN base ELSE step[Max(s)][iter[s \ {Max(s)}]]]
  BY <1>6, Zenon DEF IsFold
<1>9. iter = [s \in SUBSET (1 .. n) |->
                IF s = {} THEN base ELSE iter[s \ {Max(s)}] \o UnitsOf(entries[Max(s)])]
  BY <1>7, <1>8
<1>10. IsLots(iter, entries)
  BY <1>1, <1>5, <1>9, Zenon DEF IsLots
<1>11. QED
  BY <1>10, Zenon

\* The values of the fold after each leg.
LotSteps(w, entries) ==
  w[0] = << >> /\ \A k \in 1 .. Len(entries) : w[k] = w[k - 1] \o UnitsOf(entries[k])

LEMMA LotsSteps ==
  ASSUME NEW entries \in Legs
  PROVE  \E w : LotSteps(w, entries) /\ LotsOf(entries) = w[Len(entries)]
<1>1. PICK n \in Nat : n = Len(entries) /\ DOMAIN entries = 1 .. n
  BY DEF Legs
<1>2. PICK iter : IsLots(iter, entries) /\ iter = CHOOSE it : IsLots(it, entries)
  BY LotsExist, Zenon
<1>3. iter = [s \in SUBSET (1 .. n) |->
                IF s = {} THEN << >> ELSE iter[s \ {Max(s)}] \o UnitsOf(entries[Max(s)])]
  BY <1>1, <1>2, Zenon DEF IsLots
<1>4. PICK w : w = [k \in 0 .. n |-> iter[1 .. k]]
  OBVIOUS
<1>5. w[0] = << >>
  <2>1. 1 .. 0 = {} /\ {} \in SUBSET (1 .. n) /\ 0 \in 0 .. n
    OBVIOUS
  <2>2. iter[{}] = << >>
    BY <1>3, <2>1
  <2>3. QED
    BY <1>4, <2>1, <2>2
<1>6. ASSUME NEW k \in 1 .. n PROVE w[k] = w[k - 1] \o UnitsOf(entries[k])
  <2>1. k \in Nat \ {0} /\ k \in 0 .. n /\ k - 1 \in 0 .. n
    OBVIOUS
  <2>2. 1 \in 1 .. k /\ \A x \in 1 .. k : x \in 1 .. n
    BY <2>1
  <2>3. Max(1 .. k) = k /\ (1 .. k) \ {k} = 1 .. (k - 1)
    BY <2>1, MaxOfPrefix
  <2>4. PICK s \in SUBSET (1 .. n) : s = 1 .. k /\ s # {}
    BY <2>2
  <2>5. iter[s] = iter[s \ {Max(s)}] \o UnitsOf(entries[Max(s)])
    BY <1>3, <2>4
  <2>6. iter[1 .. k] = iter[1 .. (k - 1)] \o UnitsOf(entries[k])
    BY <2>3, <2>4, <2>5
  <2>7. w[k] = iter[1 .. k] /\ w[k - 1] = iter[1 .. (k - 1)]
    BY <1>4, <2>1
  <2>8. QED
    BY <2>6, <2>7
<1>7. LotsOf(entries) = w[n]
  <2>1. LotsOf(entries) = iter[1 .. n]
    BY <1>1, <1>2, LotsExpanded
  <2>2. w[n] = iter[1 .. n]
    BY <1>4
  <2>3. QED
    BY <2>1, <2>2
<1>8. QED
  BY <1>1, <1>5, <1>6, <1>7 DEF LotSteps

LEMMA LotsOfNone == LotsOf(<< >>) = << >>
<1>1. << >> \in Legs /\ Len(<< >>) = 0
  BY DEF Legs
<1>2. QED
  BY <1>1, LotsSteps DEF LotSteps

\* A leg more adds its units at the end.
LEMMA LotsAppend ==
  ASSUME NEW entries \in Legs, NEW leg \in LegType
  PROVE  LotsOf(Append(entries, leg)) = LotsOf(entries) \o UnitsOf(leg)
<1>1. PICK n \in Nat : n = Len(entries)
  BY DEF Legs
<1>2. PICK more \in Legs : more = Append(entries, leg)
  BY LegsAppend
<1>3. /\ Len(more) = n + 1 /\ more[n + 1] = leg
      /\ \A k \in 1 .. n : more[k] = entries[k]
  BY <1>1, <1>2 DEF Legs
<1>4. PICK w : LotSteps(w, entries) /\ LotsOf(entries) = w[n]
  BY <1>1, LotsSteps
<1>5. PICK v : LotSteps(v, more) /\ LotsOf(more) = v[n + 1]
  BY <1>3, LotsSteps
<1> DEFINE T == {k \in Nat : k <= n => v[k] = w[k]}
<1> HIDE DEF T
<1>6. 0 \in T
  BY <1>4, <1>5 DEF T, LotSteps
<1>7. ASSUME NEW k \in T PROVE k + 1 \in T
  <2>1. k \in Nat /\ (k <= n => v[k] = w[k])
    BY DEF T
  <2>2. ASSUME k + 1 <= n PROVE v[k + 1] = w[k + 1]
    <3>1. k + 1 \in 1 .. n /\ k + 1 \in 1 .. n + 1 /\ (k + 1) - 1 = k
      BY <2>1, <2>2
    <3>2. v[k + 1] = v[k] \o UnitsOf(more[k + 1])
      BY <1>3, <1>5, <3>1 DEF LotSteps
    <3>3. w[k + 1] = w[k] \o UnitsOf(entries[k + 1])
      BY <1>1, <1>4, <3>1 DEF LotSteps
    <3>4. more[k + 1] = entries[k + 1] /\ v[k] = w[k]
      BY <1>3, <2>1, <2>2, <3>1
    <3>5. QED
      BY <3>2, <3>3, <3>4, Zenon
  <2>3. QED
    BY <2>1, <2>2 DEF T
<1>8. T = Nat
  <2>1. T \in SUBSET Nat
    BY DEF T
  <2>2. QED
    BY <1>6, <1>7, <2>1, NatInd
<1>9. v[n] = w[n]
  BY <1>8 DEF T
<1>10. v[n + 1] = v[n] \o UnitsOf(more[n + 1])
  <2>1. n + 1 \in 1 .. Len(more) /\ (n + 1) - 1 = n
    BY <1>3
  <2>2. v[n + 1] = v[(n + 1) - 1] \o UnitsOf(more[n + 1])
    BY <1>5, <2>1, Zenon DEF LotSteps
  <2>3. QED
    BY <2>1, <2>2
<1>11. QED
  BY <1>2, <1>3, <1>4, <1>5, <1>9, <1>10

\* There are as many units as the legs hold, and they cost what the legs cost.
LotsAre(entries) ==
  /\ LotsOf(entries) \in Seq(Int)
  /\ Len(LotsOf(entries)) = LegUnits(entries)
  /\ SumFunction(LotsOf(entries)) = LegCost(entries)

LEMMA LotsOfLegs ==
  ASSUME NEW entries \in Legs
  PROVE  LotsAre(entries)
<1> DEFINE Q == {e \in Legs : LotsAre(e)}
<1> HIDE DEF Q
<1>1. << >> \in Q
  BY LotsOfNone, NoLegs, EmptySum, EmptySeq DEF Q, LotsAre
<1>2. ASSUME NEW e \in Seq(LegType), e \in Q, NEW leg \in LegType PROVE Append(e, leg) \in Q
  <2>1. PICK u \in Seq(Int) : u = LotsOf(e) /\ Len(u) = LegUnits(e) /\ SumFunction(u) = LegCost(e)
    BY <1>2 DEF Q, LotsAre
  <2>2. PICK a \in Seq(Int) : a = UnitsOf(leg) /\ Len(a) = leg.quantity
                              /\ SumFunction(a) = leg.entry_price * leg.quantity
    BY UnitsOfLeg
  <2>3. e \in Legs
    BY DEF Legs
  <2>4. LotsOf(Append(e, leg)) = u \o a
    BY <2>1, <2>2, <2>3, LotsAppend
  <2>5. u \o a \in Seq(Int) /\ Len(u \o a) = Len(u) + Len(a)
        /\ SumFunction(u \o a) = SumFunction(u) + SumFunction(a)
    BY ConcatProperties, SumConcat
  <2>6. /\ Append(e, leg) \in Legs
        /\ LegUnits(Append(e, leg)) = LegUnits(e) + leg.quantity
        /\ LegCost(Append(e, leg)) = LegCost(e) + leg.entry_price * leg.quantity
    BY <2>3, LegsAppend
  <2>7. LotsAre(Append(e, leg))
    BY <2>1, <2>2, <2>4, <2>5, <2>6 DEF LotsAre
  <2>8. QED
    BY <2>6, <2>7 DEF Q
<1>3. \A s \in Seq(LegType) : s \in Q
  BY <1>1, <1>2, SeqInd
<1>4. QED
  BY <1>3, Zenon DEF Q, Legs

\* The units of legs in a row.
LEMMA LotsConcat ==
  ASSUME NEW front \in Legs, NEW back \in Legs
  PROVE  LotsOf(front \o back) = LotsOf(front) \o LotsOf(back)
<1> DEFINE Q == {e \in Legs : LotsOf(front \o e) = LotsOf(front) \o LotsOf(e)}
<1> HIDE DEF Q
<1>0. PICK f \in Seq(Int) : f = LotsOf(front)
  BY LotsOfLegs DEF LotsAre
<1>1. << >> \in Q
  <2>1. front \o << >> = front /\ f \o << >> = f
    BY ConcatEmptySeq DEF Legs
  <2>2. QED
    BY <1>0, <2>1, LotsOfNone, NoLegs DEF Q
<1>2. ASSUME NEW e \in Seq(LegType), e \in Q, NEW leg \in LegType PROVE Append(e, leg) \in Q
  <2>1. e \in Legs /\ Append(e, leg) \in Legs
    BY LegsAppend DEF Legs
  <2>2. front \o e \in Legs /\ front \o Append(e, leg) = Append(front \o e, leg)
    BY DEF Legs
  <2>3. PICK u \in Seq(Int) : u = LotsOf(e)
    BY <2>1, LotsOfLegs DEF LotsAre
  <2>4. PICK a \in Seq(Int) : a = UnitsOf(leg)
    BY UnitsOfLeg
  <2>5. LotsOf(front \o e) = f \o u
    BY <1>0, <1>2, <2>3 DEF Q
  <2>6. LotsOf(Append(front \o e, leg)) = (f \o u) \o a
    BY <2>2, <2>4, <2>5, LotsAppend
  <2>7. LotsOf(Append(e, leg)) = u \o a
    BY <2>1, <2>3, <2>4, LotsAppend
  <2>8. (f \o u) \o a = f \o (u \o a)
    BY ConcatThree
  <2>9. LotsOf(front \o Append(e, leg)) = LotsOf(front) \o LotsOf(Append(e, leg))
    BY <1>0, <2>2, <2>6, <2>7, <2>8
  <2>10. QED
    BY <2>1, <2>9 DEF Q
<1>3. \A s \in Seq(LegType) : s \in Q
  BY <1>1, <1>2, SeqInd
<1>4. QED
  BY <1>3, Zenon DEF Q, Legs

LEMMA LotsOfOne ==
  ASSUME NEW leg \in LegType
  PROVE  << leg >> \in Legs /\ LotsOf(<< leg >>) = UnitsOf(leg)
<1>1. << leg >> = Append(<< >>, leg) /\ << leg >> \in Legs
  BY DEF Legs
<1>2. UnitsOf(leg) \in Seq(Int)
  BY UnitsOfLeg
<1>3. << >> \o UnitsOf(leg) = UnitsOf(leg)
  BY <1>2, ConcatEmptySeq
<1>4. QED
  BY <1>1, <1>3, LotsAppend, LotsOfNone, NoLegs

\* Turning the legs round turns their units round: those of a leg are all alike.
LEMMA LotsReversed ==
  ASSUME NEW entries \in Legs
  PROVE  LotsOf(Reverse(entries)) = Reverse(LotsOf(entries))
<1> DEFINE Q == {e \in Legs : LotsOf(Reverse(e)) = Reverse(LotsOf(e))}
<1> HIDE DEF Q
<1>1. << >> \in Q
  <2>1. Reverse(<< >>) = << >>
    BY DEF Reverse
  <2>2. QED
    BY <2>1, LotsOfNone, NoLegs DEF Q
<1>2. ASSUME NEW e \in Seq(LegType), e \in Q, NEW leg \in LegType PROVE Append(e, leg) \in Q
  <2>1. e \in Legs /\ Append(e, leg) \in Legs /\ Reverse(e) \in Legs
    BY LegsAppend, LegsReversed DEF Legs
  <2>2. << leg >> \in Legs /\ << leg >> \in Seq(LegType) /\ LotsOf(<< leg >>) = UnitsOf(leg)
    BY LotsOfOne DEF Legs
  <2>3. Reverse(Append(e, leg)) = << leg >> \o Reverse(e)
    <3>1. Append(e, leg) = e \o << leg >>
      BY AppendIsConcat
    <3>2. Reverse(<< leg >>) = << leg >>
      BY DEF Reverse
    <3>3. QED
      BY <2>2, <3>1, <3>2, ReverseConcat
  <2>4. PICK u \in Seq(Int) : u = LotsOf(e)
    BY <2>1, LotsOfLegs DEF LotsAre
  <2>5. PICK a \in Seq(Int) : a = UnitsOf(leg)
    BY UnitsOfLeg
  <2>6. Reverse(a) = a
    <3>1. PICK price \in Int, n \in Nat : price = leg.entry_price /\ n = leg.quantity
      BY LegIs
    <3>2. a = Copies(price, n)
      BY <2>5, <3>1 DEF UnitsOf
    <3>3. Len(a) = n /\ \A i \in 1 .. n : a[i] = price
      BY <3>2, CopiesAre, Zenon
    <3>4. PICK r \in Seq(Int) : r = Reverse(a) /\ Len(r) = n
      BY <3>3, ReverseIs, Zenon
    <3>5. \A i \in 1 .. n : r[i] = a[n - i + 1]
      BY <3>3, <3>4, ReverseIs, Zenon
    <3>6. \A i \in 1 .. n : n - i + 1 \in 1 .. n
      BY <3>1
    <3>7. \A i \in 1 .. n : r[i] = a[i]
      BY <3>3, <3>5, <3>6
    <3>8. QED
      BY <3>3, <3>4, <3>7, SeqEqual
  <2>7. LotsOf(Append(e, leg)) = u \o a
    BY <2>1, <2>4, <2>5, LotsAppend
  <2>8. Reverse(u \o a) = a \o Reverse(u)
    BY <2>6, ReverseConcat
  <2>9. LotsOf(<< leg >> \o Reverse(e)) = a \o LotsOf(Reverse(e))
    BY <2>1, <2>2, <2>5, LotsConcat
  <2>10. LotsOf(Reverse(e)) = Reverse(u)
    BY <1>2, <2>4 DEF Q
  <2>11. QED
    BY <2>1, <2>3, <2>7, <2>8, <2>9, <2>10 DEF Q
<1>3. \A s \in Seq(LegType) : s \in Q
  BY <1>1, <1>2, SeqInd
<1>4. QED
  BY <1>3, Zenon DEF Q, Legs

-----------------------------------------------------------------------------
\* What a reduction takes from the units.

\* The units of the legs passed are those that left and those of the legs kept.
Parted(units, gone, kept) ==
  gone \in Seq(Int) /\ units = gone \o LotsOf(kept)

LEMMA PartMoves ==
  ASSUME NEW g \in Seq(Int), NEW b \in Seq(Int), NEW c \in Seq(Int)
  PROVE  \E m \in Seq(Int) : g \o (b \o c) = m \o c /\ Len(m) = Len(g) + Len(b)
<1>1. g \o (b \o c) = (g \o b) \o c
  BY ConcatThree
<1>2. g \o b \in Seq(Int) /\ Len(g \o b) = Len(g) + Len(b)
  BY ConcatIs
<1>3. QED
  BY <1>1, <1>2

\* One iteration takes its leg's units, keeps them, or splits them.
LEMMA ConsumeParts ==
  ASSUME NEW acc \in Walks, NEW leg \in LegType, NEW next, next = Consume(acc, leg),
         NEW units, NEW gone, Parted(units, gone, acc.kept),
         acc.remaining > 0 => acc.kept = << >>
  PROVE  \E more : /\ Parted(units \o UnitsOf(leg), more, next.kept)
                   /\ Len(more) + next.remaining = Len(gone) + acc.remaining
<1>1. PICK rest \in Nat : rest = acc.remaining
  BY DEF Walks
<1>2. PICK kept \in Legs : kept = acc.kept
  BY DEF Walks
<1>3. PICK price \in Nat, size \in Nat : price = leg.entry_price /\ size = leg.quantity /\ size > 0
  BY LegIs
<1>4. PICK g \in Seq(Int) : g = gone
  BY DEF Parted
<1>5. PICK a \in Seq(Int) : a = UnitsOf(leg) /\ Len(a) = size
  BY <1>3, UnitsOfLeg
<1>6. PICK k \in Seq(Int) : k = LotsOf(kept)
  BY LotsOfLegs DEF LotsAre
<1>7. units = g \o k /\ DOMAIN acc = {"remaining", "cost_basis", "kept"}
  BY <1>2, <1>4, <1>6 DEF Parted, Walks
<1>8. CASE rest = 0
  <2>1. next.kept = Append(kept, leg) /\ next.remaining = 0
    <3>1. next = [acc EXCEPT !.kept = Append(acc.kept, leg)]
      BY <1>1, <1>8 DEF Consume
    <3>2. QED
      BY <1>1, <1>2, <1>7, <1>8, <3>1
  <2>2. LotsOf(next.kept) = k \o a
    BY <1>5, <1>6, <2>1, LotsAppend
  <2>3. (g \o k) \o a = g \o (k \o a)
    BY ConcatThree
  <2>4. Parted(units \o UnitsOf(leg), g, next.kept)
    BY <1>5, <1>7, <2>2, <2>3 DEF Parted
  <2>5. Len(g) + next.remaining = Len(gone) + acc.remaining
    BY <1>1, <1>4, <1>8, <2>1
  <2>6. QED
    BY <2>4, <2>5
<1>9. CASE rest > 0
  <2>1. kept = << >> /\ k = << >> /\ units = g
    <3>1. kept = << >> /\ k = << >>
      BY <1>1, <1>2, <1>6, <1>9, LotsOfNone
    <3>2. g \o << >> = g
      BY ConcatIs
    <3>3. QED
      BY <1>7, <3>1, <3>2
  <2>2. CASE size <= rest
    <3>1. next = [acc EXCEPT !.cost_basis = acc.cost_basis + leg.entry_price * leg.quantity,
                             !.remaining = acc.remaining - leg.quantity]
      <4>1. ~(acc.remaining = 0) /\ acc.remaining > 0 /\ leg.quantity <= acc.remaining
        BY <1>1, <1>3, <1>9, <2>2
      <4>2. QED
        BY <4>1, Zenon DEF Consume
    <3>2. next.kept = << >> /\ next.remaining = rest - size
      BY <1>1, <1>2, <1>3, <1>7, <2>1, <3>1
    <3>3. PICK m \in Seq(Int) : m = g \o a /\ Len(m) = Len(g) + size
      BY <1>5, ConcatIs
    <3>4. m \o << >> = m
      BY ConcatIs
    <3>5. Parted(units \o UnitsOf(leg), m, next.kept)
      BY <1>5, <2>1, <3>2, <3>3, <3>4, LotsOfNone DEF Parted
    <3>6. Len(m) + next.remaining = Len(gone) + acc.remaining
      <4>1. Len(g) \in Nat
        BY LenProperties
      <4>2. QED
        BY <1>1, <1>3, <1>4, <3>2, <3>3, <4>1
    <3>7. QED
      BY <3>5, <3>6
  <2>3. CASE size > rest
    <3>1. PICK left \in Nat : left = size - rest /\ left > 0 /\ rest + left = size
      BY <1>3, <2>3
    <3>2. PICK part : part = Leg(price, left)
      OBVIOUS
    <3>3. part \in LegType /\ part.entry_price = price /\ part.quantity = left
      <4>1. price \in Prices
        BY <1>3 DEF LegType
      <4>2. QED
        BY <3>1, <3>2, <4>1, LegOf
    <3>4. next.kept = << part >> /\ next.remaining = 0
      <4>1. next = [remaining  |-> 0,
                    cost_basis |-> acc.cost_basis + leg.entry_price * acc.remaining,
                    kept |-> Append(acc.kept, Leg(leg.entry_price, leg.quantity - acc.remaining))]
        BY <1>1, <1>3, <1>9, <2>3 DEF Consume
      <4>2. leg.quantity - acc.remaining = left
        BY <1>1, <1>3, <3>1
      <4>3. Leg(leg.entry_price, leg.quantity - acc.remaining) = part
        BY <1>3, <3>2, <4>2
      <4>4. next.kept = Append(kept, part) /\ next.remaining = 0
        BY <1>2, <4>1, <4>3
      <4>5. QED
        BY <2>1, <4>4
    <3>5. PICK b \in Seq(Int) : b = Copies(price, rest) /\ Len(b) = rest
      <4>1. price \in Int
        OBVIOUS
      <4>2. QED
        BY <4>1, CopiesAre, Zenon
    <3>6. PICK c \in Seq(Int) : c = Copies(price, left)
      <4>1. price \in Int
        OBVIOUS
      <4>2. QED
        BY <4>1, CopiesAre, Zenon
    <3>7. a = b \o c
      <4>1. Copies(price, rest + left) = Copies(price, rest) \o Copies(price, left)
        <5>1. price \in Int
          OBVIOUS
        <5>2. QED
          BY <5>1, CopiesOfParts, Zenon
      <4>2. QED
        BY <1>3, <1>5, <3>1, <3>5, <3>6, <4>1 DEF UnitsOf
    <3>8. LotsOf(next.kept) = c
      BY <3>3, <3>4, <3>6, LotsOfOne DEF UnitsOf
    <3>9. PICK m \in Seq(Int) : g \o (b \o c) = m \o c /\ Len(m) = Len(g) + Len(b)
      BY PartMoves, Zenon
    <3>10. Parted(units \o UnitsOf(leg), m, next.kept)
      BY <1>5, <2>1, <3>7, <3>8, <3>9 DEF Parted
    <3>11. Len(m) + next.remaining = Len(gone) + acc.remaining
      <4>1. Len(g) \in Nat
        BY LenProperties
      <4>2. QED
        BY <1>1, <1>4, <3>4, <3>5, <3>9, <4>1
    <3>12. QED
      BY <3>10, <3>11
  <2>4. QED
    BY <1>3, <2>2, <2>3
<1>10. QED
  BY <1>8, <1>9

\* The loop takes the first units.
LEMMA WalkParts ==
  ASSUME NEW entries \in Legs, NEW qty \in Nat, qty <= LegUnits(entries),
         NEW walk, walk = FoldLeft(Consume, Untouched(qty), entries)
  PROVE  \E gone : Parted(LotsOf(entries), gone, walk.kept) /\ Len(gone) = qty
<1>1. PICK n \in Nat : n = Len(entries) /\ \A k \in 1 .. n : entries[k] \in LegType
  BY DEF Legs
<1>2. PICK w : /\ w[0] = Untouched(qty)
               /\ \A k \in 1 .. n : w[k] = Consume(w[k - 1], entries[k])
               /\ FoldLeft(Consume, Untouched(qty), entries) = w[n]
  <2>1. n = Len(entries)
    BY <1>1
  <2>2. QED
    BY <2>1, WalkSteps, Zenon
<1>3. \A k \in 0 .. n : SubSeq(entries, 1, k) \in Legs
  BY <1>1 DEF Legs
<1> DEFINE Good(k) ==
      /\ w[k] \in Walks
      /\ w[k].remaining > 0 => w[k].kept = << >>
      /\ \E gone : /\ Parted(LotsOf(SubSeq(entries, 1, k)), gone, w[k].kept)
                   /\ Len(gone) + w[k].remaining = qty
           T == {k \in Nat : k <= n => Good(k)}
<1> HIDE DEF Good, T
<1>4. Good(0)
  <2>1. PICK w0 \in Walks : w0 = w[0] /\ w0.remaining = qty /\ w0.kept = << >>
    BY <1>2, UntouchedIs
  <2>2. SubSeq(entries, 1, 0) = << >>
    BY DEF Legs
  <2>3. << >> \o << >> = << >> /\ << >> \in Seq(Int) /\ Len(<< >>) = 0
    OBVIOUS
  <2>4. Parted(LotsOf(SubSeq(entries, 1, 0)), << >>, w0.kept)
    BY <2>1, <2>2, <2>3, LotsOfNone DEF Parted
  <2>5. Len(<< >>) + w0.remaining = qty
    BY <2>1, <2>3
  <2>6. QED
    BY <2>1, <2>4, <2>5 DEF Good
<1>5. ASSUME NEW k \in Nat, k + 1 <= n, Good(k) PROVE Good(k + 1)
  <2>0. k \in 0 .. n /\ k + 1 \in 1 .. n /\ (k + 1) - 1 = k
    BY <1>5
  <2>1. PICK leg \in LegType : leg = entries[k + 1]
    BY <1>1, <2>0
  <2>2. PICK next : next = w[k + 1] /\ next = Consume(w[k], leg)
    BY <1>2, <2>0, <2>1
  <2>3. PICK acc \in Walks : acc = w[k]
    BY <1>5 DEF Good
  <2>4. PICK sub \in Legs : sub = SubSeq(entries, 1, k)
    BY <1>3, <2>0
  <2>5. SubSeq(entries, 1, k + 1) = Append(sub, leg)
    BY <1>1, <1>5, <2>1, <2>4 DEF Legs
  <2>6. acc.remaining > 0 => acc.kept = << >>
    BY <1>5, <2>3 DEF Good
  <2>7. PICK gone : Parted(LotsOf(sub), gone, acc.kept) /\ Len(gone) + acc.remaining = qty
    BY <1>5, <2>3, <2>4 DEF Good
  <2>8. next \in Walks /\ (next.remaining > 0 => next.kept = acc.kept /\ acc.remaining > 0)
    BY <2>2, <2>3, ConsumeIs
  <2>9. \E more : /\ Parted(LotsOf(sub) \o UnitsOf(leg), more, next.kept)
                  /\ Len(more) + next.remaining = Len(gone) + acc.remaining
    <3>1. next = Consume(acc, leg)
      BY <2>2, <2>3
    <3>2. PICK units : units = LotsOf(sub)
      OBVIOUS
    <3>3. Parted(units, gone, acc.kept)
      BY <2>7, <3>2
    <3>4. QED
      BY <2>6, <3>1, <3>2, <3>3, ConsumeParts
  <2>10. LotsOf(SubSeq(entries, 1, k + 1)) = LotsOf(sub) \o UnitsOf(leg)
    BY <2>5, LotsAppend
  <2>11. \E more : /\ Parted(LotsOf(SubSeq(entries, 1, k + 1)), more, next.kept)
                   /\ Len(more) + next.remaining = qty
    BY <2>7, <2>9, <2>10, Zenon
  <2>12. next.remaining > 0 => next.kept = << >>
    BY <2>6, <2>8
  <2>13. QED
    BY <2>2, <2>8, <2>11, <2>12, Zenon DEF Good
<1>6. T = Nat
  <2>1. T \in SUBSET Nat /\ 0 \in T
    BY <1>4 DEF T
  <2>2. ASSUME NEW k \in T PROVE k + 1 \in T
    <3>1. k \in Nat /\ (k <= n => Good(k))
      BY DEF T
    <3>2. k + 1 <= n => Good(k + 1)
      BY <1>5, <3>1
    <3>3. QED
      BY <3>1, <3>2 DEF T
  <2>3. QED
    BY <2>1, <2>2, NatInd
<1>7. Good(n)
  <2>1. n \in T
    BY <1>6
  <2>2. QED
    BY <2>1 DEF T
<1>8. SubSeq(entries, 1, n) = entries
  BY <1>1 DEF Legs
<1>9. PICK gone : Parted(LotsOf(entries), gone, walk.kept) /\ Len(gone) + walk.remaining = qty
  BY <1>2, <1>7, <1>8, Zenon DEF Good
<1>10. walk \in Walks /\ (walk.remaining > 0 => walk.kept = << >>)
  BY <1>2, <1>7 DEF Good
<1>11. walk.remaining = 0
  <2>1. PICK g \in Seq(Int) : g = gone /\ LotsOf(entries) = g \o LotsOf(walk.kept)
    BY <1>9 DEF Parted
  <2>2. walk.remaining \in Nat /\ Len(g) \in Nat
    BY <1>10, LenProperties DEF Walks
  <2>3. SUFFICES ASSUME walk.remaining > 0 PROVE FALSE
    BY <2>2
  <2>4. LotsOf(walk.kept) = << >>
    BY <1>10, <2>3, LotsOfNone
  <2>5. g \o << >> = g
    BY ConcatIs
  <2>6. LotsOf(entries) = g
    BY <2>1, <2>4, <2>5
  <2>7. Len(g) = LegUnits(entries)
    BY <2>6, LotsOfLegs DEF LotsAre
  <2>8. QED
    BY <1>9, <2>1, <2>2, <2>3, <2>7
<1>12. Len(gone) = qty
  <2>1. Len(gone) \in Nat
    BY <1>9, LenProperties DEF Parted
  <2>2. QED
    BY <1>9, <1>11, <2>1
<1>13. QED
  BY <1>9, <1>12

\* A reduction takes the first units under FIFO, the last ones under LIFO, and realizes the
\* exit price less the entry price of each.
Taken(by, pos, p, q, cut, gone) ==
  /\ gone \in Seq(Int) /\ Len(gone) = q
  /\ by = "FIFO" => LotsOf(pos.entries) = gone \o LotsOf(cut.entries)
  /\ by = "LIFO" => LotsOf(pos.entries) = LotsOf(cut.entries) \o gone
  /\ cut.realized = Realize(pos, p, q, SumFunction(gone))

LEMMA ReductionTakes ==
  ASSUME method \in {"FIFO", "LIFO"},
         NEW pos, pos.entries \in Legs, pos.direction \in Directions,
         NEW p, NEW q \in Nat, q <= LegUnits(pos.entries),
         NEW cut, cut = Reduction(method, pos, p, q)
  PROVE  cut.entries \in Legs /\ \E gone : Taken(method, pos, p, q, cut, gone)
<1>1. PICK legs \in Legs : legs = pos.entries
  OBVIOUS
<1>2. /\ cut.entries \in Legs
      /\ cut.realized = Realize(pos, p, q, LegCost(pos.entries) - LegCost(cut.entries))
  <2>1. method \in CostBasisMethods /\ method # "WeightedAverage"
    BY DEF CostBasisMethods
  <2>2. /\ cut.entries \in Legs
        /\ cut.realized = Realize(pos, p, q,
             IF method = "WeightedAverage" THEN pos.average_entry_price * q
             ELSE LegCost(pos.entries) - LegCost(cut.entries))
    BY <2>1, ReductionIs
  <2>3. QED
    BY <2>1, <2>2
<1>3. PICK u \in Seq(Int) : u = LotsOf(legs) /\ SumFunction(u) = LegCost(legs)
  BY LotsOfLegs DEF LotsAre
<1>4. PICK k \in Seq(Int) : k = LotsOf(cut.entries) /\ SumFunction(k) = LegCost(cut.entries)
  BY <1>2, LotsOfLegs DEF LotsAre
<1>5. SUFFICES ASSUME NEW gone \in Seq(Int), Len(gone) = q,
                      method = "FIFO" => u = gone \o k, method = "LIFO" => u = k \o gone
               PROVE  Taken(method, pos, p, q, cut, gone)
  <2>1. SUFFICES \E gone \in Seq(Int) : /\ Len(gone) = q
                                        /\ method = "FIFO" => u = gone \o k
                                        /\ method = "LIFO" => u = k \o gone
    BY <1>2
  <2>2. CASE method = "FIFO"
    <3>1. PICK walk : walk = FoldLeft(Consume, Untouched(q), legs)
      OBVIOUS
    <3>2. cut.entries = walk.kept
      BY <1>1, <2>2, <3>1 DEF Reduction, ReduceFifo, OldestFirst
    <3>3. PICK gone : Parted(LotsOf(legs), gone, walk.kept) /\ Len(gone) = q
      BY <1>1, <3>1, WalkParts
    <3>4. gone \in Seq(Int) /\ u = gone \o k
      BY <1>3, <1>4, <3>2, <3>3 DEF Parted
    <3>5. QED
      BY <2>2, <3>3, <3>4
  <2>3. CASE method = "LIFO"
    <3>1. PICK back \in Legs : back = Reverse(legs) /\ LegUnits(back) = LegUnits(legs)
      BY LegsReversed
    <3>2. PICK walk : walk = FoldLeft(Consume, Untouched(q), back)
      OBVIOUS
    <3>3. walk \in Walks /\ walk.kept \in Legs
      <4>1. walk \in Walks
        BY <1>1, <3>1, <3>2, WalkTotals
      <4>2. QED
        BY <4>1 DEF Walks
    <3>4. cut.entries = Reverse(walk.kept)
      <4>1. NewestFirst(pos.entries, q) = [walk EXCEPT !.kept = Reverse(walk.kept)]
        BY <1>1, <3>1, <3>2 DEF NewestFirst
      <4>2. NewestFirst(pos.entries, q).kept = Reverse(walk.kept)
        BY <3>3, <4>1 DEF Walks
      <4>3. QED
        BY <2>3, <4>2 DEF Reduction, ReduceLifo
    <3>5. PICK front : Parted(LotsOf(back), front, walk.kept) /\ Len(front) = q
      BY <1>1, <3>1, <3>2, WalkParts
    <3>6. PICK f \in Seq(Int) : f = front /\ Len(f) = q
      BY <3>5 DEF Parted
    <3>7. PICK r \in Seq(Int) : r = LotsOf(walk.kept)
      BY <3>3, LotsOfLegs DEF LotsAre
    <3>8. Reverse(u) = f \o r
      BY <1>3, <3>1, <3>5, <3>6, <3>7, LotsReversed DEF Parted
    <3>9. k = Reverse(r)
      BY <1>4, <3>3, <3>4, <3>7, LotsReversed
    <3>10. Reverse(Reverse(u)) = u
      BY ReverseIs, Zenon
    <3>11. Reverse(f \o r) = Reverse(r) \o Reverse(f)
      BY ReverseConcat
    <3>12. u = k \o Reverse(f)
      BY <3>8, <3>9, <3>10, <3>11
    <3>13. Reverse(f) \in Seq(Int) /\ Len(Reverse(f)) = Len(f)
      BY ReverseIs, Zenon
    <3>14. QED
      BY <2>3, <3>6, <3>12, <3>13
  <2>4. QED
    BY <2>2, <2>3
<1>6. SumFunction(u) = SumFunction(k) + SumFunction(gone)
  <2>1. /\ SumFunction(gone \o k) = SumFunction(gone) + SumFunction(k)
        /\ SumFunction(k \o gone) = SumFunction(k) + SumFunction(gone)
    BY SumConcat
  <2>2. PICK sg \in Int : sg = SumFunction(gone)
    BY SeqSum
  <2>3. PICK sk \in Int : sk = SumFunction(k)
    BY SeqSum
  <2>4. sg + sk = sk + sg
    OBVIOUS
  <2>5. u = gone \o k \/ u = k \o gone
    BY <1>5
  <2>6. QED
    BY <2>1, <2>2, <2>3, <2>4, <2>5, Zenon
<1>7. LegCost(legs) - LegCost(cut.entries) = SumFunction(gone)
  BY <1>3, <1>4, <1>6, SeqSum
<1>8. QED
  BY <1>1, <1>2, <1>3, <1>4, <1>5, <1>7 DEF Taken

\* A sequence cut in two.
LEMMA CutsAre ==
  ASSUME NEW f \in Seq(Int), NEW g \in Seq(Int), NEW u, u = f \o g
  PROVE  /\ SubSeq(u, 1, Len(f)) = f /\ SubSeq(u, Len(f) + 1, Len(u)) = g
         /\ SubSeq(u, 1, Len(u) - Len(g)) = f
         /\ SubSeq(u, Len(u) - Len(g) + 1, Len(u)) = g
<1>1. PICK m \in Nat : m = Len(f)
  BY LenProperties
<1>2. PICK n \in Nat : n = Len(g)
  BY LenProperties
<1>3. /\ u \in Seq(Int) /\ Len(u) = m + n
      /\ \A i \in 1 .. m + n : u[i] = IF i <= m THEN f[i] ELSE g[i - m]
  BY <1>1, <1>2, ConcatProperties
<1>4. PICK a : a = SubSeq(u, 1, m)
  OBVIOUS
<1>5. PICK b : b = SubSeq(u, m + 1, m + n)
  OBVIOUS
<1>6. /\ a \in Seq(Int) /\ Len(a) = m /\ \A i \in 1 .. m : a[i] = u[i]
  BY <1>3, <1>4
<1>7. /\ b \in Seq(Int) /\ Len(b) = n /\ \A i \in 1 .. n : b[i] = u[m + i]
  BY <1>3, <1>5
<1>8. \A i \in 1 .. m : a[i] = f[i]
  <2>1. \A i \in 1 .. m : i \in 1 .. m + n /\ i <= m
    OBVIOUS
  <2>2. \A i \in 1 .. m : u[i] = f[i]
    BY <1>3, <2>1
  <2>3. QED
    BY <1>6, <2>2
<1>9. \A i \in 1 .. n : b[i] = g[i]
  <2>1. ASSUME NEW i \in 1 .. n PROVE b[i] = g[i]
    <3>1. m + i \in 1 .. m + n /\ ~(m + i <= m) /\ (m + i) - m = i
      OBVIOUS
    <3>2. u[m + i] = g[(m + i) - m]
      BY <1>3, <3>1
    <3>3. QED
      BY <1>7, <3>1, <3>2
  <2>2. QED
    BY <2>1
<1>10. a = f
  BY <1>1, <1>6, <1>8, SeqEqual
<1>11. b = g
  BY <1>2, <1>7, <1>9, SeqEqual
<1>12. (m + n) - n = m
  OBVIOUS
<1>13. QED
  BY <1>1, <1>2, <1>3, <1>4, <1>5, <1>10, <1>11, <1>12

\* What the units that leave at a price earn, as the fold of Earnings adds it up.
IsEarned(iter, units, price) ==
  iter = [s \in SUBSET DOMAIN units |->
            IF s = {} THEN 0 ELSE iter[s \ {Max(s)}] + price - units[Max(s)]]

LEMMA EarnedExpanded ==
  ASSUME NEW id, NEW units, NEW price
  PROVE  Lots!Earnings(id, units, price)
           = [x \in DOMAIN Everything |-> DirMultiplier(Everything[x].direction)][id]
             * (CHOOSE iter : IsEarned(iter, units, price))[DOMAIN units]
BY Zenon DEF Lots!Earnings, Lots!FoldLeft, Lots!MapThenFoldSet, IsEarned, Lots!Max, Max

LEMMA EarnedExist ==
  ASSUME NEW units \in Seq(Int), NEW price \in Int
  PROVE  \E iter : IsEarned(iter, units, price)
<1>1. PICK n \in Nat : n = Len(units) /\ DOMAIN units = 1 .. n
  BY LenProperties
<1>2. \A i \in 1 .. n : units[i] \in Int
  BY <1>1, LenProperties
<1>3. PICK step : step = [k \in 1 .. n |-> [acc \in Int |-> acc + price - units[k]]]
  OBVIOUS
<1>4. step \in [1 .. n -> [Int -> Int]]
  BY <1>2, <1>3
<1>5. 0 \in Int
  OBVIOUS
<1>6. PICK iter \in [SUBSET (1 .. n) -> Int] : IsFold(iter, n, 0, step)
  BY <1>4, <1>5, FoldExists
<1>7. ASSUME NEW s \in SUBSET (1 .. n), s # {}
      PROVE  step[Max(s)][iter[s \ {Max(s)}]] = iter[s \ {Max(s)}] + price - units[Max(s)]
  <2>1. Max(s) \in 1 .. n
    BY <1>7, MaxIs
  <2>2. iter[s \ {Max(s)}] \in Int
    BY <1>6
  <2>3. QED
    BY <1>3, <2>1, <2>2
<1>8. iter = [s \in SUBSET (1 .. n) |->
                IF s = {} THEN 0 ELSE step[Max(s)][iter[s \ {Max(s)}]]]
  BY <1>6, Zenon DEF IsFold
<1>9. iter = [s \in SUBSET (1 .. n) |->
                IF s = {} THEN 0 ELSE iter[s \ {Max(s)}] + price - units[Max(s)]]
  BY <1>7, <1>8
<1>10. IsEarned(iter, units, price)
  BY <1>1, <1>9, Zenon DEF IsEarned
<1>11. QED
  BY <1>10, Zenon

\* Each unit earns the exit price less its own entry price.
LEMMA EarnedIs ==
  ASSUME NEW units \in Seq(Int), NEW price \in Int, NEW n \in Nat, n = Len(units)
  PROVE  (CHOOSE iter : IsEarned(iter, units, price))[DOMAIN units]
           = price * n - SumFunction(units)
<1>1. DOMAIN units = 1 .. n /\ \A i \in 1 .. n : units[i] \in Int
  BY LenProperties
<1>2. PICK iter : IsEarned(iter, units, price) /\ iter = CHOOSE it : IsEarned(it, units, price)
  BY EarnedExist, Zenon
<1>3. iter = [s \in SUBSET (1 .. n) |->
                IF s = {} THEN 0 ELSE iter[s \ {Max(s)}] + price - units[Max(s)]]
  BY <1>1, <1>2, Zenon DEF IsEarned
<1> DEFINE T == {k \in Nat : k <= n =>
                   iter[1 .. k] = price * k - SumFunction(SubSeq(units, 1, k))}
<1> HIDE DEF T
<1>4. 0 \in T
  <2>1. 1 .. 0 = {} /\ {} \in SUBSET (1 .. n)
    OBVIOUS
  <2>2. iter[{}] = 0
    BY <1>3, <2>1
  <2>3. SubSeq(units, 1, 0) = << >>
    BY SubSeqEmpty
  <2>4. SumFunction(SubSeq(units, 1, 0)) = 0
    BY <2>3, EmptySum
  <2>5. QED
    BY <2>1, <2>2, <2>4 DEF T
<1>5. ASSUME NEW k \in T PROVE k + 1 \in T
  <2>1. k \in Nat /\ (k <= n => iter[1 .. k] = price * k - SumFunction(SubSeq(units, 1, k)))
    BY DEF T
  <2>2. ASSUME k + 1 <= n
        PROVE  iter[1 .. k + 1] = price * (k + 1) - SumFunction(SubSeq(units, 1, k + 1))
    <3>1. k + 1 \in Nat \ {0} /\ k + 1 \in 1 .. n /\ (k + 1) - 1 = k /\ k <= n
      BY <2>1, <2>2
    <3>2. 1 \in 1 .. k + 1 /\ \A x \in 1 .. k + 1 : x \in 1 .. n
      BY <3>1
    <3>3. Max(1 .. k + 1) = k + 1 /\ (1 .. k + 1) \ {k + 1} = 1 .. k
      BY <3>1, MaxOfPrefix
    <3>4. PICK s \in SUBSET (1 .. n) : s = 1 .. k + 1 /\ s # {}
      BY <3>2
    <3>5. iter[s] = iter[s \ {Max(s)}] + price - units[Max(s)]
      BY <1>3, <3>4
    <3>6. iter[1 .. k + 1] = iter[1 .. k] + price - units[k + 1]
      BY <3>3, <3>4, <3>5
    <3>7. PICK sub \in Seq(Int) : sub = SubSeq(units, 1, k)
      <4>1. \A i \in 1 .. k : units[i] \in Int
        BY <1>1, <3>1
      <4>2. SubSeq(units, 1, k) \in Seq(Int)
        BY <2>1, <4>1, SubSeqProperties
      <4>3. QED
        BY <4>2
    <3>8. SubSeq(units, 1, k + 1) = Append(sub, units[k + 1])
      BY <1>1, <3>1, <3>7
    <3>9. PICK x \in Int : x = units[k + 1]
      BY <1>1, <3>1
    <3>10. PICK sum \in Int : sum = SumFunction(sub)
      BY SeqSum
    <3>11. SumFunction(SubSeq(units, 1, k + 1)) = sum + x
      BY <3>8, <3>9, <3>10, SeqSum
    <3>12. iter[1 .. k] = price * k - sum
      BY <2>1, <3>1, <3>7, <3>10
    <3>13. price * (k + 1) = price * k + price /\ price * k \in Int
      BY <3>1
    <3>14. QED
      BY <3>6, <3>9, <3>11, <3>12, <3>13
  <2>3. QED
    BY <2>1, <2>2 DEF T
<1>6. T = Nat
  <2>1. T \in SUBSET Nat
    BY DEF T
  <2>2. QED
    BY <1>4, <1>5, <2>1, NatInd
<1>7. iter[1 .. n] = price * n - SumFunction(SubSeq(units, 1, n))
  <2>1. n \in T
    BY <1>6
  <2>2. QED
    BY <2>1 DEF T
<1>8. SubSeq(units, 1, n) = units
  BY SubSeqFull
<1>9. QED
  BY <1>1, <1>2, <1>7, <1>8

-----------------------------------------------------------------------------
\* The book as a book of units.

\* No id was closed twice.
ClosedOnce ==
  \A i, j \in DOMAIN closed_positions : closed_positions[i].id = closed_positions[j].id => i = j

BookInv == Inv /\ FiguresInv /\ ClosedOnce

LEMMA EverythingAt ==
  BookInv => /\ DOMAIN Everything = 1 .. created
             /\ \A id \in DOMAIN positions : Everything[id] = positions[id]
             /\ \A i \in DOMAIN closed_positions :
                  Everything[closed_positions[i].id] = closed_positions[i]
<1> SUFFICES ASSUME BookInv
             PROVE  /\ DOMAIN Everything = 1 .. created
                    /\ \A id \in DOMAIN positions : Everything[id] = positions[id]
                    /\ \A i \in DOMAIN closed_positions :
                         Everything[closed_positions[i].id] = closed_positions[i]
  OBVIOUS
<1>1. DOMAIN Everything = 1 .. created
  BY DEF BookInv, Inv, Everything
<1>2. \A id \in DOMAIN positions : Everything[id] = positions[id]
  BY DEF Everything
<1>3. ASSUME NEW i \in DOMAIN closed_positions
      PROVE  Everything[closed_positions[i].id] = closed_positions[i]
  <2>1. /\ closed_positions[i].id \in DOMAIN Everything
        /\ closed_positions[i].id \notin DOMAIN positions
    BY DEF BookInv, FiguresInv, Everything, ClosedIds
  <2>2. PICK j \in DOMAIN closed_positions :
          /\ closed_positions[j].id = closed_positions[i].id
          /\ Everything[closed_positions[i].id] = closed_positions[j]
    BY <2>1, EverythingIs DEF BookInv
  <2>3. j = i
    BY <2>2 DEF BookInv, ClosedOnce
  <2>4. QED
    BY <2>2, <2>3
<1>4. QED
  BY <1>1, <1>2, <1>3

\* An id drawn is that of an open or of a closed position.
LEMMA Drawn ==
  ASSUME BookInv, NEW id \in 1 .. created
  PROVE  id \in DOMAIN positions \/ \E i \in DOMAIN closed_positions : closed_positions[i].id = id
BY DEF BookInv, Inv, ClosedIds

\* The record of one position changes, or appears.
Shows(id, pos) ==
  /\ DOMAIN Everything' = DOMAIN Everything \cup {id}
  /\ Everything'[id] = pos
  /\ \A other \in DOMAIN Everything : other # id => Everything'[other] = Everything[other]

LEMMA OpenShows ==
  ASSUME BookInv, BookInv', NEW s, NEW d, NEW p, NEW q, OpenPosition(s, d, p, q)
  PROVE  /\ Shows(created + 1, NewPosition(created + 1, s, d, p, q))
         /\ created + 1 \notin DOMAIN Everything
<1>1. PICK new \in Nat : new = created + 1 /\ new \notin 1 .. created /\ 1 .. new = (1 .. created) \cup {new}
  BY DEF BookInv, Inv
<1>2. /\ created' = new /\ UNCHANGED closed_positions
      /\ positions' = [id \in DOMAIN positions \cup {new} |->
                         IF id = new THEN NewPosition(id, s, d, p, q) ELSE positions[id]]
  BY <1>1 DEF OpenPosition
<1>3. /\ DOMAIN positions' = DOMAIN positions \cup {new}
      /\ positions'[new] = NewPosition(new, s, d, p, q)
      /\ \A id \in DOMAIN positions : id # new => positions'[id] = positions[id]
  BY <1>2
<1>4. /\ DOMAIN Everything = 1 .. created
      /\ \A id \in DOMAIN positions : Everything[id] = positions[id]
      /\ \A i \in DOMAIN closed_positions : Everything[closed_positions[i].id] = closed_positions[i]
  BY EverythingAt
<1>5. (BookInv => /\ DOMAIN Everything = 1 .. created
                  /\ \A id \in DOMAIN positions : Everything[id] = positions[id]
                  /\ \A i \in DOMAIN closed_positions :
                       Everything[closed_positions[i].id] = closed_positions[i])'
  BY EverythingAt, PTL
<1>6. /\ DOMAIN Everything' = 1 .. created'
      /\ \A id \in DOMAIN positions' : Everything'[id] = positions'[id]
      /\ \A i \in DOMAIN closed_positions' : Everything'[closed_positions'[i].id] = closed_positions'[i]
  BY <1>5
<1>7. ASSUME NEW other \in 1 .. created, other # new PROVE Everything'[other] = Everything[other]
  <2>1. CASE other \in DOMAIN positions
    BY <1>3, <1>4, <1>6, <1>7, <2>1
  <2>2. CASE \E i \in DOMAIN closed_positions : closed_positions[i].id = other
    BY <1>2, <1>4, <1>6, <2>2
  <2>3. QED
    BY <2>1, <2>2, Drawn
<1>8. Everything'[new] = NewPosition(new, s, d, p, q)
  BY <1>3, <1>6
<1>9. DOMAIN Everything' = DOMAIN Everything \cup {new}
  BY <1>1, <1>2, <1>4, <1>6
<1>10. QED
  BY <1>1, <1>4, <1>7, <1>8, <1>9 DEF Shows

\* What the next state shows of a position that no longer changes.
LEMMA EverythingAtNext ==
  BookInv' => /\ DOMAIN Everything' = 1 .. created'
              /\ \A id \in DOMAIN positions' : Everything'[id] = positions'[id]
              /\ \A i \in DOMAIN closed_positions' :
                   Everything'[closed_positions'[i].id] = closed_positions'[i]
<1>1. (BookInv => /\ DOMAIN Everything = 1 .. created
                  /\ \A id \in DOMAIN positions : Everything[id] = positions[id]
                  /\ \A i \in DOMAIN closed_positions :
                       Everything[closed_positions[i].id] = closed_positions[i])'
  BY EverythingAt, PTL
<1>2. QED
  BY <1>1

LEMMA AddShows ==
  ASSUME BookInv, BookInv', NEW id, NEW p, NEW q, AddToPosition(id, p, q)
  PROVE  /\ id \in DOMAIN positions /\ Everything[id] = positions[id]
         /\ Shows(id, [positions[id] EXCEPT !.entries = Append(@, Leg(p, q)),
                                            !.current_size = @ + q,
                                            !.average_entry_price = Reweighted(positions[id], p, q)])
<1>1. PICK added : added = [positions[id] EXCEPT !.entries = Append(@, Leg(p, q)),
                                                 !.current_size = @ + q,
                                                 !.average_entry_price = Reweighted(positions[id], p, q)]
  OBVIOUS
<1>2. /\ id \in DOMAIN positions /\ positions' = [positions EXCEPT ![id] = added]
      /\ UNCHANGED <<closed_positions, created>>
  BY <1>1 DEF AddToPosition
<1>3. /\ DOMAIN positions' = DOMAIN positions /\ positions'[id] = added
      /\ \A other \in DOMAIN positions : other # id => positions'[other] = positions[other]
  BY <1>2
<1>4. /\ DOMAIN Everything = 1 .. created
      /\ \A x \in DOMAIN positions : Everything[x] = positions[x]
      /\ \A i \in DOMAIN closed_positions : Everything[closed_positions[i].id] = closed_positions[i]
  BY EverythingAt
<1>5. /\ DOMAIN Everything' = 1 .. created'
      /\ \A x \in DOMAIN positions' : Everything'[x] = positions'[x]
      /\ \A i \in DOMAIN closed_positions' : Everything'[closed_positions'[i].id] = closed_positions'[i]
  BY EverythingAtNext
<1>6. ASSUME NEW other \in 1 .. created, other # id PROVE Everything'[other] = Everything[other]
  <2>1. CASE other \in DOMAIN positions
    BY <1>3, <1>4, <1>5, <1>6, <2>1
  <2>2. CASE \E i \in DOMAIN closed_positions : closed_positions[i].id = other
    BY <1>2, <1>4, <1>5, <2>2
  <2>3. QED
    BY <2>1, <2>2, Drawn
<1>7. id \in 1 .. created
  BY <1>2, DrawnIds DEF BookInv
<1>8. QED
  BY <1>1, <1>2, <1>3, <1>4, <1>5, <1>6, <1>7 DEF Shows

\* A reduction that closes the position does not hide it.
LEMMA ReduceShows ==
  ASSUME BookInv, BookInv', NEW id, NEW p, NEW q \in Nat, ReducePosition(id, p, q)
  PROVE  /\ id \in DOMAIN positions /\ Everything[id] = positions[id]
         /\ Shows(id, Reduced(positions[id], p, q))
<1>1. PICK less : less = Reduced(positions[id], p, q)
  OBVIOUS
<1>2. /\ id \in DOMAIN positions /\ Sufficient(positions[id], q) /\ UNCHANGED created
      /\ \/ less.status = "Closed" /\ Retire(id, less)
         \/ /\ less.status # "Closed" /\ positions' = [positions EXCEPT ![id] = less]
            /\ UNCHANGED closed_positions
  BY <1>1 DEF ReducePosition
<1>3. less.id = id
  BY <1>1, <1>2, ReducedIs DEF BookInv, Inv
<1>4. /\ DOMAIN Everything = 1 .. created
      /\ \A x \in DOMAIN positions : Everything[x] = positions[x]
      /\ \A i \in DOMAIN closed_positions : Everything[closed_positions[i].id] = closed_positions[i]
  BY EverythingAt
<1>5. /\ DOMAIN Everything' = 1 .. created'
      /\ \A x \in DOMAIN positions' : Everything'[x] = positions'[x]
      /\ \A i \in DOMAIN closed_positions' : Everything'[closed_positions'[i].id] = closed_positions'[i]
  BY EverythingAtNext
<1>6. id \in 1 .. created
  BY <1>2, DrawnIds DEF BookInv
<1>7. SUFFICES /\ \A x \in DOMAIN positions : x # id => x \in DOMAIN positions' /\ positions'[x] = positions[x]
               /\ \A i \in DOMAIN closed_positions :
                    i \in DOMAIN closed_positions' /\ closed_positions'[i] = closed_positions[i]
               /\ Everything'[id] = less
  <2>1. ASSUME NEW other \in 1 .. created, other # id PROVE Everything'[other] = Everything[other]
    <3>1. CASE other \in DOMAIN positions
      BY <1>4, <1>5, <1>7, <2>1, <3>1
    <3>2. CASE \E i \in DOMAIN closed_positions : closed_positions[i].id = other
      <4>1. PICK i \in DOMAIN closed_positions : closed_positions[i].id = other
        BY <3>2
      <4>2. i \in DOMAIN closed_positions' /\ closed_positions'[i] = closed_positions[i]
        BY <1>7
      <4>3. QED
        BY <1>4, <1>5, <4>1, <4>2
    <3>3. QED
      BY <3>1, <3>2, Drawn
  <2>2. QED
    BY <1>1, <1>2, <1>4, <1>5, <1>6, <1>7, <2>1 DEF Shows
<1>8. CASE less.status # "Closed"
  BY <1>2, <1>5, <1>8
<1>9. CASE less.status = "Closed"
  <2>1. /\ positions' = Restrict(positions, DOMAIN positions \ {id})
        /\ closed_positions' = Append(closed_positions, less)
    BY <1>2, <1>9 DEF Retire
  <2>2. \A x \in DOMAIN positions : x # id => x \in DOMAIN positions' /\ positions'[x] = positions[x]
    BY <2>1 DEF Restrict
  <2>3. PICK S : closed_positions \in Seq(S)
    BY DEF BookInv, Inv, ClosedIsSeq
  <2>4. closed_positions \in Seq(S \cup {less}) /\ less \in S \cup {less}
    BY <2>3
  <2>5. PICK n \in Nat : n = Len(closed_positions) /\ DOMAIN closed_positions = 1 .. n
    BY <2>3
  <2>6. /\ DOMAIN closed_positions' = (1 .. n) \cup {n + 1}
        /\ \A i \in 1 .. n : closed_positions'[i] = closed_positions[i]
        /\ closed_positions'[n + 1] = less
    BY <2>1, <2>4, <2>5
  <2>7. Everything'[id] = less
    BY <1>3, <1>5, <2>6
  <2>8. QED
    BY <2>2, <2>5, <2>6, <2>7
<1>10. QED
  BY <1>8, <1>9

\* What the units of a position are drawn from.
Lot(pos) == << pos.entries, pos.direction, pos.realized_pnl >>

\* A mark changes nothing of it.
LEMMA MarkShows ==
  ASSUME BookInv, BookInv', NEW s, NEW p, UpdateUnrealizedPnl(s, p)
  PROVE  /\ DOMAIN Everything' = DOMAIN Everything
         /\ \A id \in DOMAIN Everything : Lot(Everything'[id]) = Lot(Everything[id])
<1>1. /\ DOMAIN positions' = DOMAIN positions
      /\ UNCHANGED <<closed_positions, created>>
  BY DEF UpdateUnrealizedPnl
<1>2. ASSUME NEW id \in DOMAIN positions PROVE Lot(positions'[id]) = Lot(positions[id])
  <2>1. DOMAIN positions[id] = Fields
    BY DEF BookInv, Inv, OpenPositionOK
  <2>2. \/ positions'[id] = positions[id]
        \/ positions'[id] = [positions[id] EXCEPT !.unrealized_pnl = PnlAtMark(positions[id], p)]
    BY DEF UpdateUnrealizedPnl
  <2>3. QED
    BY <2>1, <2>2 DEF Lot, Fields
<1>3. /\ DOMAIN Everything = 1 .. created
      /\ \A x \in DOMAIN positions : Everything[x] = positions[x]
      /\ \A i \in DOMAIN closed_positions : Everything[closed_positions[i].id] = closed_positions[i]
  BY EverythingAt
<1>4. /\ DOMAIN Everything' = 1 .. created'
      /\ \A x \in DOMAIN positions' : Everything'[x] = positions'[x]
      /\ \A i \in DOMAIN closed_positions' : Everything'[closed_positions'[i].id] = closed_positions'[i]
  BY EverythingAtNext
<1>5. ASSUME NEW id \in 1 .. created PROVE Lot(Everything'[id]) = Lot(Everything[id])
  <2>1. CASE id \in DOMAIN positions
    BY <1>1, <1>2, <1>3, <1>4, <2>1
  <2>2. CASE \E i \in DOMAIN closed_positions : closed_positions[i].id = id
    BY <1>1, <1>3, <1>4, <2>2
  <2>3. QED
    BY <2>1, <2>2, Drawn
<1>6. QED
  BY <1>1, <1>3, <1>4, <1>5

LEMMA ClosedOnceNext == BookInv /\ [LedgerNext]_vars => ClosedOnce'
<1> SUFFICES ASSUME BookInv, [LedgerNext]_vars PROVE ClosedOnce'
  OBVIOUS
<1>1. CASE UNCHANGED closed_positions
  BY <1>1 DEF BookInv, ClosedOnce
<1>2. ASSUME NEW id, NEW p, NEW q \in Nat, ReducePosition(id, p, q) PROVE ClosedOnce'
  <2>1. PICK less : less = Reduced(positions[id], p, q)
    OBVIOUS
  <2>2. /\ id \in DOMAIN positions /\ Sufficient(positions[id], q)
        /\ closed_positions' = Append(closed_positions, less) \/ UNCHANGED closed_positions
    BY <1>2, <2>1 DEF ReducePosition, Retire
  <2>3. less.id = id
    BY <2>1, <2>2, ReducedIs DEF BookInv, Inv
  <2>4. CASE closed_positions' = Append(closed_positions, less)
    <3>1. PICK S : closed_positions \in Seq(S)
      BY DEF BookInv, Inv, ClosedIsSeq
    <3>2. closed_positions \in Seq(S \cup {less}) /\ less \in S \cup {less}
      BY <3>1
    <3>3. PICK n \in Nat : n = Len(closed_positions) /\ DOMAIN closed_positions = 1 .. n
      BY <3>1
    <3>4. /\ DOMAIN closed_positions' = (1 .. n) \cup {n + 1}
          /\ \A i \in 1 .. n : closed_positions'[i] = closed_positions[i]
          /\ closed_positions'[n + 1] = less
      BY <2>4, <3>2, <3>3
    <3>5. \A i \in 1 .. n : closed_positions[i].id # id
      BY <2>2, <3>3 DEF BookInv, FiguresInv
    <3>6. \A i, j \in 1 .. n : closed_positions[i].id = closed_positions[j].id => i = j
      BY <3>3 DEF BookInv, ClosedOnce
    <3>7. QED
      BY <2>3, <3>4, <3>5, <3>6 DEF ClosedOnce
  <2>5. QED
    BY <1>1, <2>2, <2>4
<1>3. CASE LedgerReduce
  <2>1. PICK id \in DOMAIN positions, p \in Prices, q \in Quantities : ReducePosition(id, p, q)
    BY <1>3 DEF LedgerReduce
  <2>2. QED
    BY <1>2, <2>1, QuantitiesAssumption
<1>4. CASE LedgerClose
  <2>1. PICK id \in DOMAIN positions, p \in Prices : ClosePosition(id, p)
    BY <1>4 DEF LedgerClose
  <2>2. positions[id].current_size \in Nat
    BY DEF BookInv, FiguresInv, Figures
  <2>3. QED
    BY <1>2, <2>1, <2>2 DEF ClosePosition
<1>5. CASE LedgerNewBook
  <2>1. closed_positions' = << >>
    BY <1>5 DEF LedgerNewBook, NewBook
  <2>2. DOMAIN closed_positions' = {}
    BY <2>1
  <2>3. QED
    BY <2>2 DEF ClosedOnce
<1>6. QED
  BY <1>1, <1>3, <1>4, <1>5 DEF LedgerNext, LedgerOpen, LedgerAdd, LedgerMark, OpenPosition,
     AddToPosition, UpdateUnrealizedPnl, vars, bookVars

LEMMA BookInvNext == BookInv /\ [LedgerNext]_vars => BookInv'
  BY InvNext, BalancesNext, ClosedOnceNext DEF BookInv

LEMMA BookInvInit == LedgerInit => BookInv
<1> SUFFICES ASSUME LedgerInit PROVE BookInv
  OBVIOUS
<1>1. Inv
  BY EmptyBook DEF LedgerInit, Init
<1>2. FiguresInv
  BY BalancesInit
<1>3. closed_positions = << >>
  BY DEF LedgerInit, Init
<1>4. DOMAIN closed_positions = {}
  BY <1>3
<1>5. QED
  BY <1>1, <1>2, <1>4 DEF BookInv, ClosedOnce

\* The two sides of the refinement mapping, by name.
LotsNow == [id \in DOMAIN Everything |-> LotsOf(Everything[id].entries)]
SidesNow == [id \in DOMAIN Everything |-> DirMultiplier(Everything[id].direction)]
EarnedNow == [id \in DOMAIN Everything |-> Everything[id].realized_pnl]

\* Cardinality, as the instance has it.
LEMMA LotsCounted == ASSUME NEW S PROVE Lots!Cardinality(S) = Cardinality(S)
  BY Zenon DEF Lots!Cardinality, Cardinality

LEMMA ShownNow ==
  ASSUME NEW id, NEW pos, Shows(id, pos)
  PROVE  /\ LotsNow' = Lots!With(LotsNow, id, LotsOf(pos.entries))
         /\ SidesNow' = Lots!With(SidesNow, id, DirMultiplier(pos.direction))
         /\ EarnedNow' = Lots!With(EarnedNow, id, pos.realized_pnl)
<1>1. PICK now : now = Everything
  OBVIOUS
<1>2. PICK next : next = Everything'
  OBVIOUS
<1>3. /\ DOMAIN next = DOMAIN now \cup {id} /\ next[id] = pos
      /\ \A other \in DOMAIN now : other # id => next[other] = now[other]
  BY <1>1, <1>2 DEF Shows
<1>4. /\ LotsNow = [x \in DOMAIN now |-> LotsOf(now[x].entries)]
      /\ LotsNow' = [x \in DOMAIN next |-> LotsOf(next[x].entries)]
  BY <1>1, <1>2 DEF LotsNow
<1>5. /\ SidesNow = [x \in DOMAIN now |-> DirMultiplier(now[x].direction)]
      /\ SidesNow' = [x \in DOMAIN next |-> DirMultiplier(next[x].direction)]
  BY <1>1, <1>2 DEF SidesNow
<1>6. /\ EarnedNow = [x \in DOMAIN now |-> now[x].realized_pnl]
      /\ EarnedNow' = [x \in DOMAIN next |-> next[x].realized_pnl]
  BY <1>1, <1>2 DEF EarnedNow
<1>7. LotsNow' = Lots!With(LotsNow, id, LotsOf(pos.entries))
  BY <1>3, <1>4 DEF Lots!With
<1>8. SidesNow' = Lots!With(SidesNow, id, DirMultiplier(pos.direction))
  BY <1>3, <1>5 DEF Lots!With
<1>9. EarnedNow' = Lots!With(EarnedNow, id, pos.realized_pnl)
  BY <1>3, <1>6 DEF Lots!With
<1>10. QED
  BY <1>7, <1>8, <1>9

LEMMA NowAt ==
  ASSUME NEW id \in DOMAIN Everything
  PROVE  /\ DOMAIN LotsNow = DOMAIN Everything /\ LotsNow[id] = LotsOf(Everything[id].entries)
         /\ SidesNow[id] = DirMultiplier(Everything[id].direction)
         /\ EarnedNow[id] = Everything[id].realized_pnl
BY DEF LotsNow, SidesNow, EarnedNow

\* Of a holding that is there already, With is EXCEPT.
LEMMA ShownOld ==
  ASSUME NEW id \in DOMAIN Everything, NEW pos, Shows(id, pos)
  PROVE  /\ LotsNow' = [LotsNow EXCEPT ![id] = LotsOf(pos.entries)]
         /\ pos.direction = Everything[id].direction => SidesNow' = SidesNow
         /\ EarnedNow' = [EarnedNow EXCEPT ![id] = pos.realized_pnl]
<1>1. /\ LotsNow' = Lots!With(LotsNow, id, LotsOf(pos.entries))
      /\ SidesNow' = Lots!With(SidesNow, id, DirMultiplier(pos.direction))
      /\ EarnedNow' = Lots!With(EarnedNow, id, pos.realized_pnl)
  BY ShownNow
<1>2. \A v : /\ Lots!With(LotsNow, id, v) = [LotsNow EXCEPT ![id] = v]
             /\ Lots!With(EarnedNow, id, v) = [EarnedNow EXCEPT ![id] = v]
  BY DEF LotsNow, EarnedNow, Lots!With
<1>3. Lots!With(SidesNow, id, SidesNow[id]) = SidesNow
  BY DEF SidesNow, Lots!With
<1>4. SidesNow[id] = DirMultiplier(Everything[id].direction)
  BY NowAt
<1>5. QED
  BY <1>1, <1>2, <1>3, <1>4, Zenon

\* The steps of the lot book, of the mapped state.
StartIs(d, p, n) ==
  LET id == Cardinality(DOMAIN LotsNow) + 1
  IN  /\ LotsNow' = Lots!With(LotsNow, id, Copies(p, n))
      /\ SidesNow' = Lots!With(SidesNow, id, d)
      /\ EarnedNow' = Lots!With(EarnedNow, id, 0)
      /\ UNCHANGED method

LEMMA StartHolds == ASSUME NEW d, NEW p, NEW n, StartIs(d, p, n) PROVE Lots!Start(d, p, n)
<1>1. Lots!Cardinality(DOMAIN LotsNow) = Cardinality(DOMAIN LotsNow)
  BY LotsCounted
<1>2. QED
  BY <1>1, Zenon DEF StartIs, Lots!Start, LotsNow, SidesNow, EarnedNow, Copies, Lots!Units

ExtendIs(id, p, n) ==
  /\ LotsNow[id] # << >>
  /\ LotsNow' = [LotsNow EXCEPT ![id] = LotsNow[id] \o Copies(p, n)]
  /\ SidesNow' = SidesNow /\ EarnedNow' = EarnedNow
  /\ UNCHANGED method

LEMMA ExtendHolds == ASSUME NEW id, NEW p, NEW n, ExtendIs(id, p, n) PROVE Lots!Extend(id, p, n)
BY Zenon DEF ExtendIs, Lots!Extend, LotsNow, SidesNow, EarnedNow, Copies, Lots!Units

LeaveIs(id, p, n) ==
  /\ n \in 1 .. Len(LotsNow[id])
  /\ LotsNow' = [LotsNow EXCEPT ![id] = Lots!Staying(LotsNow[id], n)]
  /\ EarnedNow' = [EarnedNow EXCEPT ![id] =
                     EarnedNow[id] + Lots!Earnings(id, Lots!Leaving(LotsNow[id], n), p)]
  /\ SidesNow' = SidesNow
  /\ UNCHANGED method

LEMMA LeaveHolds == ASSUME NEW id, NEW p, NEW n, LeaveIs(id, p, n) PROVE Lots!Leave(id, p, n)
BY Zenon DEF LeaveIs, Lots!Leave, LotsNow, SidesNow, EarnedNow

LEMMA LotsStart ==
  ASSUME BookInv, BookInv', NEW s, NEW d, NEW p \in Prices, NEW q \in Nat \ {0},
         OpenPosition(s, d, p, q)
  PROVE  Lots!Start(DirMultiplier(d), p, q)
<1>1. PICK new : new = created + 1
  OBVIOUS
<1>2. PICK pos : pos = NewPosition(new, s, d, p, q)
  OBVIOUS
<1>3. Shows(new, pos)
  BY <1>1, <1>2, OpenShows
<1>4. /\ LotsNow' = Lots!With(LotsNow, new, LotsOf(pos.entries))
      /\ SidesNow' = Lots!With(SidesNow, new, DirMultiplier(pos.direction))
      /\ EarnedNow' = Lots!With(EarnedNow, new, pos.realized_pnl)
  BY <1>3, ShownNow
<1>5. Cardinality(DOMAIN LotsNow) + 1 = new
  <2>1. PICK n \in Nat : n = created
    BY DEF BookInv, Inv
  <2>2. DOMAIN LotsNow = 1 .. n
    BY <2>1, EverythingAt DEF LotsNow
  <2>3. 1 \in Int /\ n \in Int
    OBVIOUS
  <2>4. Cardinality(1 .. n) = n
    <3>1. Cardinality(1 .. n) = IF 1 > n THEN 0 ELSE n - 1 + 1
      BY <2>3, FS_Interval, Zenon
    <3>2. QED
      BY <3>1
  <2>5. QED
    BY <1>1, <2>1, <2>2, <2>4
<1>6. LotsOf(pos.entries) = Copies(p, q)
  <2>1. PICK leg \in LegType : leg = Leg(p, q) /\ leg.entry_price = p /\ leg.quantity = q
    BY LegOf
  <2>2. pos.entries = << leg >>
    BY <1>2, <2>1 DEF NewPosition
  <2>3. QED
    BY <2>1, <2>2, LotsOfOne DEF UnitsOf
<1>7. pos.direction = d /\ pos.realized_pnl = 0
  BY <1>2 DEF NewPosition
<1>8. UNCHANGED method
  BY DEF OpenPosition
<1>9. StartIs(DirMultiplier(d), p, q)
  BY <1>4, <1>5, <1>6, <1>7, <1>8, Zenon DEF StartIs
<1>10. QED
  BY <1>9, StartHolds

LEMMA LotsExtend ==
  ASSUME BookInv, BookInv', NEW id, NEW p \in Prices, NEW q \in Nat \ {0}, AddToPosition(id, p, q)
  PROVE  Lots!Extend(id, p, q)
<1>1. PICK pos : pos = positions[id]
  OBVIOUS
<1>2. PICK added : added = [pos EXCEPT !.entries = Append(@, Leg(p, q)),
                                       !.current_size = @ + q,
                                       !.average_entry_price = Reweighted(pos, p, q)]
  OBVIOUS
<1>3. id \in DOMAIN positions /\ Everything[id] = pos /\ Shows(id, added)
  BY <1>1, <1>2, AddShows
<1>4. id \in DOMAIN Everything
  BY <1>3, EverythingAt, DrawnIds DEF BookInv
<1>5. /\ DOMAIN pos = Fields /\ pos.current_size \in Nat \ {0} /\ pos.entries \in Legs
      /\ LegUnits(pos.entries) = pos.current_size
  BY <1>1, <1>3 DEF BookInv, Inv, FiguresInv, OpenPositionOK, Figures
<1>6. PICK leg \in LegType : leg = Leg(p, q) /\ leg.entry_price = p /\ leg.quantity = q
  BY LegOf
<1>7. /\ added.entries = Append(pos.entries, leg) /\ added.direction = pos.direction
      /\ added.realized_pnl = pos.realized_pnl
  BY <1>2, <1>5, <1>6 DEF Fields
<1>8. LotsOf(added.entries) = LotsOf(pos.entries) \o Copies(p, q)
  <2>1. UnitsOf(leg) = Copies(p, q)
    BY <1>6 DEF UnitsOf
  <2>2. QED
    BY <1>5, <1>7, <2>1, LotsAppend
<1>9. LotsOf(pos.entries) # << >>
  <2>1. Len(LotsOf(pos.entries)) = pos.current_size
    BY <1>5, LotsOfLegs DEF LotsAre
  <2>2. Len(<< >>) = 0
    OBVIOUS
  <2>3. QED
    BY <1>5, <2>1, <2>2
<1>10. /\ LotsNow[id] = LotsOf(pos.entries)
       /\ SidesNow[id] = DirMultiplier(pos.direction) /\ EarnedNow[id] = pos.realized_pnl
  BY <1>3, <1>4, NowAt
<1>11. /\ LotsNow' = [LotsNow EXCEPT ![id] = LotsOf(added.entries)]
       /\ SidesNow' = SidesNow
       /\ EarnedNow' = [EarnedNow EXCEPT ![id] = EarnedNow[id]]
  <2>1. /\ LotsNow' = [LotsNow EXCEPT ![id] = LotsOf(added.entries)]
        /\ added.direction = Everything[id].direction => SidesNow' = SidesNow
        /\ EarnedNow' = [EarnedNow EXCEPT ![id] = added.realized_pnl]
    BY <1>3, <1>4, ShownOld
  <2>2. QED
    BY <1>3, <1>7, <1>10, <2>1, Zenon
<1>12. [EarnedNow EXCEPT ![id] = EarnedNow[id]] = EarnedNow
  BY DEF EarnedNow
<1>13. UNCHANGED method
  BY DEF AddToPosition
<1>14. ExtendIs(id, p, q)
  BY <1>8, <1>9, <1>10, <1>11, <1>12, <1>13, Zenon DEF ExtendIs
<1>15. QED
  BY <1>14, ExtendHolds

\* What stays and what leaves, of units that are cut at the right place.
IsCut(u, f, g) ==
  /\ SubSeq(u, 1, Len(f)) = f /\ SubSeq(u, Len(f) + 1, Len(u)) = g
  /\ SubSeq(u, 1, Len(u) - Len(g)) = f
  /\ SubSeq(u, Len(u) - Len(g) + 1, Len(u)) = g

LEMMA CutsAt ==
  ASSUME NEW f \in Seq(Int), NEW g \in Seq(Int)
  PROVE  IsCut(f \o g, f, g)
<1>1. PICK u : u = f \o g
  OBVIOUS
<1>2. IsCut(u, f, g)
  BY <1>1, CutsAre DEF IsCut
<1>3. QED
  BY <1>1, <1>2

IsSplit(u, k, gone) ==
  /\ method \in {"FIFO", "LIFO"}
  /\ method = "FIFO" => u = gone \o k
  /\ method = "LIFO" => u = k \o gone

LEMMA CutUnits ==
  ASSUME NEW u, NEW k \in Seq(Int), NEW gone \in Seq(Int), IsSplit(u, k, gone)
  PROVE  Lots!Staying(u, Len(gone)) = k /\ Lots!Leaving(u, Len(gone)) = gone
<1>1. CASE method = "FIFO"
  <2>1. IsCut(u, gone, k)
    BY <1>1, CutsAt DEF IsSplit
  <2>2. QED
    BY <1>1, <2>1, Zenon DEF Lots!Staying, Lots!Leaving, IsCut
<1>2. CASE method = "LIFO"
  <2>1. IsCut(u, k, gone)
    BY <1>2, CutsAt DEF IsSplit
  <2>2. method # "FIFO"
    BY <1>2
  <2>3. QED
    BY <2>1, <2>2, Zenon DEF Lots!Staying, Lots!Leaving, IsCut
<1>3. QED
  BY <1>1, <1>2 DEF IsSplit

LEMMA LotsLeave ==
  ASSUME BookInv, BookInv', method \in {"FIFO", "LIFO"},
         NEW id, NEW p \in Prices, NEW q \in Nat \ {0}, ReducePosition(id, p, q)
  PROVE  /\ id \in DOMAIN LotsNow /\ q \in 1 .. Len(LotsNow[id])
         /\ Lots!Leave(id, p, q)
<1>1. PICK pos : pos = positions[id]
  OBVIOUS
<1>2. PICK less : less = Reduced(pos, p, q)
  OBVIOUS
<1>3. id \in DOMAIN positions /\ Everything[id] = pos /\ Shows(id, less)
  BY <1>1, <1>2, ReduceShows
<1>4. id \in DOMAIN Everything
  BY <1>3, EverythingAt, DrawnIds DEF BookInv
<1>5. /\ DOMAIN pos = Fields /\ pos.current_size \in Nat \ {0} /\ pos.entries \in Legs
      /\ LegUnits(pos.entries) = pos.current_size /\ pos.direction \in Directions
      /\ pos.realized_pnl \in Int
  BY <1>1, <1>3 DEF BookInv, Inv, FiguresInv, OpenPositionOK, Figures
<1>6. q <= LegUnits(pos.entries)
  BY <1>1, <1>5 DEF ReducePosition, Sufficient
<1>7. PICK cut : cut = Reduction(method, pos, p, q)
  OBVIOUS
<1>8. cut.entries \in Legs /\ \E gone : Taken(method, pos, p, q, cut, gone)
  BY <1>5, <1>6, <1>7, ReductionTakes
<1>9. PICK gone : Taken(method, pos, p, q, cut, gone)
  BY <1>8
<1>10. /\ less.entries = cut.entries /\ less.direction = pos.direction
       /\ less.realized_pnl = pos.realized_pnl + cut.realized
  BY <1>2, <1>5, <1>7, Zenon DEF Reduced, Fields
<1>11. PICK u \in Seq(Int) : u = LotsOf(pos.entries) /\ Len(u) = pos.current_size
  BY <1>5, LotsOfLegs DEF LotsAre
<1>12. PICK k \in Seq(Int) : k = LotsOf(cut.entries)
  BY <1>8, LotsOfLegs DEF LotsAre
<1>13. /\ gone \in Seq(Int) /\ q = Len(gone)
       /\ method = "FIFO" => u = gone \o k
       /\ method = "LIFO" => u = k \o gone
       /\ cut.realized = Realize(pos, p, q, SumFunction(gone))
  BY <1>9, <1>11, <1>12 DEF Taken
<1>14. Lots!Staying(u, q) = k /\ Lots!Leaving(u, q) = gone
  <2>1. gone \in Seq(Int) /\ IsSplit(u, k, gone)
    BY <1>13 DEF IsSplit
  <2>2. QED
    BY <1>13, <2>1, CutUnits, Zenon
<1>15. Lots!Earnings(id, gone, p) = cut.realized
  <2>1. PICK sum \in Int : sum = SumFunction(gone)
    BY <1>13, SeqSum
  <2>2. PICK dir \in Int : dir = DirMultiplier(pos.direction)
    BY DEF DirMultiplier
  <2>3. p \in Int
    BY PricesAssumption
  <2>4. PICK whole \in Int : whole = p * q
    BY <2>3
  <2>5. (CHOOSE iter : IsEarned(iter, gone, p))[DOMAIN gone] = whole - sum
    <3>1. gone \in Seq(Int) /\ q = Len(gone)
      BY <1>13
    <3>2. (CHOOSE iter : IsEarned(iter, gone, p))[DOMAIN gone] = p * q - SumFunction(gone)
      BY <2>3, <3>1, EarnedIs, Zenon
    <3>3. QED
      BY <2>1, <2>4, <3>2, Zenon
  <2>6. [x \in DOMAIN Everything |-> DirMultiplier(Everything[x].direction)][id] = dir
    BY <1>3, <1>4, <2>2
  <2>7. Lots!Earnings(id, gone, p) = dir * (whole - sum)
    BY <2>5, <2>6, EarnedExpanded, Zenon
  <2>8. cut.realized = (whole - sum) * dir
    BY <1>13, <2>1, <2>2, <2>4, Zenon DEF Realize
  <2>9. dir * (whole - sum) = (whole - sum) * dir
    OBVIOUS
  <2>10. QED
    BY <2>7, <2>8, <2>9, Zenon
<1>16. /\ DOMAIN LotsNow = DOMAIN Everything /\ LotsNow[id] = u
       /\ SidesNow[id] = DirMultiplier(pos.direction) /\ EarnedNow[id] = pos.realized_pnl
  BY <1>3, <1>4, <1>11, NowAt
<1>17. /\ LotsNow' = [LotsNow EXCEPT ![id] = k]
       /\ SidesNow' = SidesNow
       /\ EarnedNow' = [EarnedNow EXCEPT ![id] = pos.realized_pnl + cut.realized]
  <2>1. /\ LotsNow' = [LotsNow EXCEPT ![id] = LotsOf(less.entries)]
        /\ less.direction = Everything[id].direction => SidesNow' = SidesNow
        /\ EarnedNow' = [EarnedNow EXCEPT ![id] = less.realized_pnl]
    BY <1>3, <1>4, ShownOld
  <2>2. QED
    BY <1>3, <1>10, <1>12, <2>1, Zenon
<1>18. UNCHANGED method
  BY DEF ReducePosition
<1>19. q \in 1 .. Len(LotsNow[id])
  BY <1>5, <1>6, <1>11, <1>16
<1>20. LeaveIs(id, p, q)
  BY <1>14, <1>15, <1>16, <1>17, <1>18, <1>19, Zenon DEF LeaveIs
<1>21. QED
  BY <1>4, <1>16, <1>19, <1>20, LeaveHolds

LEMMA LotsStutter ==
  ASSUME UNCHANGED <<LotsNow, SidesNow, EarnedNow, method>>
  PROVE  UNCHANGED Lots!lotVars
BY Zenon DEF Lots!lotVars, LotsNow, SidesNow, EarnedNow

LEMMA LotsMarked ==
  ASSUME BookInv, BookInv', NEW s, NEW p, UpdateUnrealizedPnl(s, p)
  PROVE  UNCHANGED Lots!lotVars
<1>1. PICK now : now = Everything
  OBVIOUS
<1>2. PICK next : next = Everything'
  OBVIOUS
<1>3. DOMAIN next = DOMAIN now /\ \A id \in DOMAIN now : Lot(next[id]) = Lot(now[id])
  BY <1>1, <1>2, MarkShows
<1>4. \A id \in DOMAIN now : /\ next[id].entries = now[id].entries
                             /\ next[id].direction = now[id].direction
                             /\ next[id].realized_pnl = now[id].realized_pnl
  BY <1>3 DEF Lot
<1>5. LotsNow' = LotsNow
  <2>1. [x \in DOMAIN next |-> LotsOf(next[x].entries)] = [x \in DOMAIN now |-> LotsOf(now[x].entries)]
    BY <1>3, <1>4
  <2>2. QED
    BY <1>1, <1>2, <2>1 DEF LotsNow
<1>6. SidesNow' = SidesNow
  <2>1. [x \in DOMAIN next |-> DirMultiplier(next[x].direction)]
          = [x \in DOMAIN now |-> DirMultiplier(now[x].direction)]
    BY <1>3, <1>4
  <2>2. QED
    BY <1>1, <1>2, <2>1 DEF SidesNow
<1>7. EarnedNow' = EarnedNow
  <2>1. [x \in DOMAIN next |-> next[x].realized_pnl] = [x \in DOMAIN now |-> now[x].realized_pnl]
    BY <1>3, <1>4
  <2>2. QED
    BY <1>1, <1>2, <2>1 DEF EarnedNow
<1>8. UNCHANGED method
  BY DEF UpdateUnrealizedPnl
<1>9. QED
  BY <1>5, <1>6, <1>7, <1>8, LotsStutter

\* Of an empty book nothing is held.
NothingNow == LotsNow = << >> /\ SidesNow = << >> /\ EarnedNow = << >>

LEMMA NothingHeld ==
  ASSUME (positions = << >> /\ closed_positions = << >>)
  PROVE  NothingNow
<1>1. DOMAIN positions = {} /\ DOMAIN closed_positions = {}
  OBVIOUS
<1>2. DOMAIN Everything = {}
  BY <1>1 DEF Everything, ClosedIds
<1>3. QED
  BY <1>2 DEF NothingNow, LotsNow, SidesNow, EarnedNow

LEMMA LotsInit == LedgerInit => Lots!LotInit
<1> SUFFICES ASSUME LedgerInit PROVE Lots!LotInit
  OBVIOUS
<1>1. NothingNow
  BY NothingHeld DEF LedgerInit, Init
<1>2. (method = "FIFO") \in BOOLEAN
  OBVIOUS
<1>3. QED
  BY <1>1, <1>2, Zenon DEF Lots!LotInit, NothingNow, LotsNow, SidesNow, EarnedNow

LEMMA LotsForgotten == LedgerNewBook => Lots!Forget
<1> SUFFICES ASSUME LedgerNewBook PROVE Lots!Forget
  OBVIOUS
<1>1. (positions = << >> /\ closed_positions = << >> => NothingNow)'
  BY NothingHeld, PTL
<1>2. NothingNow' /\ UNCHANGED method
  BY <1>1 DEF LedgerNewBook, NewBook
<1>3. QED
  BY <1>2, Zenon DEF Lots!Forget, NothingNow, LotsNow, SidesNow, EarnedNow

LEMMA LotsUnchanged == UNCHANGED vars => UNCHANGED Lots!lotVars
<1> SUFFICES ASSUME UNCHANGED vars PROVE UNCHANGED Lots!lotVars
  OBVIOUS
<1>1. UNCHANGED <<positions, closed_positions, method>>
  BY DEF vars, bookVars
<1>2. Everything' = Everything
  BY <1>1 DEF Everything, ClosedIds
<1>3. QED
  BY <1>1, <1>2, LotsStutter DEF LotsNow, SidesNow, EarnedNow

LEMMA LotsNext ==
  ASSUME BookInv, BookInv', method # "WeightedAverage", [LedgerNext]_vars
  PROVE  [Lots!LotNext]_(Lots!lotVars)
<1>0. method \in {"FIFO", "LIFO"}
  BY DEF BookInv, FiguresInv, CostBasisMethods
<1>1. CASE LedgerOpen
  <2>1. PICK s \in Symbols, d \in Directions, p \in Prices, q \in Quantities : OpenPosition(s, d, p, q)
    BY <1>1 DEF LedgerOpen
  <2>2. Lots!Start(DirMultiplier(d), p, q)
    BY <2>1, LotsStart, QuantitiesAssumption
  <2>3. DirMultiplier(d) \in {1, -1}
    BY DEF DirMultiplier
  <2>4. QED
    BY <2>2, <2>3, Zenon DEF Lots!LotNext
<1>2. CASE LedgerAdd
  <2>1. PICK id \in DOMAIN positions, p \in Prices, q \in Quantities : AddToPosition(id, p, q)
    BY <1>2 DEF LedgerAdd
  <2>2. Lots!Extend(id, p, q)
    BY <2>1, LotsExtend, QuantitiesAssumption
  <2>3. id \in DOMAIN LotsNow
    BY EverythingAt, DrawnIds DEF BookInv, LotsNow
  <2>4. QED
    BY <2>2, <2>3, Zenon DEF Lots!LotNext, LotsNow
<1>3. ASSUME NEW id, NEW p \in Prices, NEW q \in Nat \ {0}, ReducePosition(id, p, q)
      PROVE  Lots!LotNext
  <2>1. id \in DOMAIN LotsNow /\ q \in 1 .. Len(LotsNow[id]) /\ Lots!Leave(id, p, q)
    BY <1>0, <1>3, LotsLeave
  <2>2. QED
    BY <2>1, Zenon DEF Lots!LotNext, LotsNow
<1>4. CASE LedgerReduce
  <2>1. PICK id \in DOMAIN positions, p \in Prices, q \in Quantities : ReducePosition(id, p, q)
    BY <1>4 DEF LedgerReduce
  <2>2. QED
    BY <1>3, <2>1, QuantitiesAssumption
<1>5. CASE LedgerClose
  <2>1. PICK id \in DOMAIN positions, p \in Prices : ClosePosition(id, p)
    BY <1>5 DEF LedgerClose
  <2>2. positions[id].current_size \in Nat \ {0}
    BY DEF BookInv, Inv, OpenPositionOK
  <2>3. QED
    BY <1>3, <2>1, <2>2 DEF ClosePosition
<1>6. CASE LedgerMark
  <2>1. PICK s \in Symbols, p \in Prices : UpdateUnrealizedPnl(s, p)
    BY <1>6 DEF LedgerMark
  <2>2. QED
    BY <2>1, LotsMarked
<1>7. CASE LedgerNewBook
  BY <1>7, LotsForgotten, Zenon DEF Lots!LotNext
<1>8. CASE UNCHANGED vars
  BY <1>8, LotsUnchanged
<1>9. QED
  BY <1>1, <1>2, <1>4, <1>5, <1>6, <1>7, <1>8 DEF LedgerNext

\* The method is the caller's, and no operation changes it.
LEMMA MethodStays == [LedgerNext]_vars => method' = method
<1> SUFFICES ASSUME [LedgerNext]_vars PROVE method' = method
  OBVIOUS
<1>1. ASSUME NEW id, NEW p, NEW q, ReducePosition(id, p, q) PROVE method' = method
  BY <1>1 DEF ReducePosition
<1>2. QED
  BY <1>1 DEF LedgerNext, LedgerOpen, LedgerAdd, LedgerReduce, LedgerClose, LedgerMark,
     LedgerNewBook, OpenPosition, AddToPosition, ClosePosition, UpdateUnrealizedPnl, NewBook,
     vars, bookVars

\* Under FIFO and LIFO the book implements the lot book: whatever legs the fills made
\* and however the reductions drained and split them, a reduction takes the oldest
\* (or the newest) units and each earns its exit price less its own entry price.
THEOREM LegsAreLots == LedgerSpec /\ method # "WeightedAverage" => LotBookSpec
<1>1. BookInv /\ method # "WeightedAverage" /\ [LedgerNext]_vars
        => BookInv' /\ (method # "WeightedAverage")'
  BY BookInvNext, MethodStays
<1>2. BookInv /\ BookInv' /\ method # "WeightedAverage" /\ [LedgerNext]_vars
        => [Lots!LotNext]_(Lots!lotVars)
  BY LotsNext
<1>3. QED
  BY <1>1, <1>2, BookInvInit, LotsInit, PTL DEF LedgerSpec, LotBookSpec, Lots!LotSpec
=============================================================================
