--------------------------- MODULE PositionLedger ---------------------------
(***************************************************************************)
(* The order book with a history of the money that went through every      *)
(* position, the properties of the book that need it, and the lot book it  *)
(* implements.  The history variables change nothing of the book's own     *)
(* behaviour; MaxFills, MaxAdds and MaxPositions bound it.  With MaxAdds   *)
(* additions the weighted averages of the configurations' prices (and of   *)
(* the quantities 1 and 2) are whole numbers.                              *)
(***************************************************************************)
EXTENDS PositionBook

CONSTANTS Methods,        \* the cost-basis methods explored
          MaxFills,       \* fills in a behaviour
          MaxAdds,        \* of which additions to an open position
          MaxPositions    \* positions opened in a behaviour

VARIABLES paid,       \* id -> total of price * quantity of the fills that entered
          received,   \* id -> total of price * quantity of the fills that left
          fills,      \* how many fills there were
          adds        \* how many of them were additions

vars == <<bookVars, paid, received, fills, adds>>

\* A ledger in which the account of id, of nothing when it is new, gains an amount.
Tally(ledger, id, amount) ==
  [other \in DOMAIN ledger \cup {id} |->
     (IF other \in DOMAIN ledger THEN ledger[other] ELSE 0)
     + (IF other = id THEN amount ELSE 0)]

\* The notional of a fill that enters a position, and of one that leaves it.
Enter(id, notional) ==
  /\ paid' = Tally(paid, id, notional)
  /\ received' = Tally(received, id, 0)

Exit(id, notional) ==
  /\ received' = Tally(received, id, notional)
  /\ UNCHANGED paid

AnyFill == fills < MaxFills /\ fills' = fills + 1 /\ UNCHANGED adds
AddFill == fills < MaxFills /\ fills' = fills + 1 /\ adds < MaxAdds /\ adds' = adds + 1

LedgerInit ==
  /\ Init
  /\ method \in Methods
  /\ paid = << >> /\ received = << >> /\ fills = 0 /\ adds = 0

LedgerOpen ==
  \E s \in Symbols, d \in Directions, p \in Prices, q \in Quantities :
    /\ AnyFill
    /\ created < MaxPositions
    /\ OpenPosition(s, d, p, q)
    /\ Enter(created + 1, p * q)

LedgerAdd ==
  \E id \in DOMAIN positions, p \in Prices, q \in Quantities :
    AddFill /\ AddToPosition(id, p, q) /\ Enter(id, p * q)

LedgerReduce ==
  \E id \in DOMAIN positions, p \in Prices, q \in Quantities :
    AnyFill /\ ReducePosition(id, p, q) /\ Exit(id, p * q)

LedgerClose ==
  \E id \in DOMAIN positions, p \in Prices :
    AnyFill /\ ClosePosition(id, p) /\ Exit(id, p * positions[id].current_size)

LedgerMark ==
  /\ \E s \in Symbols, p \in Prices : UpdateUnrealizedPnl(s, p)
  /\ UNCHANGED <<paid, received, fills, adds>>

LedgerNewBook ==
  /\ NewBook
  /\ paid' = << >> /\ received' = << >> /\ fills' = 0 /\ adds' = 0

LedgerNext ==
  LedgerOpen \/ LedgerAdd \/ LedgerReduce \/ LedgerClose \/ LedgerMark \/ LedgerNewBook

LedgerSpec == LedgerInit /\ [][LedgerNext]_vars

-----------------------------------------------------------------------------
LegUnits(entries) == SumFunction([i \in DOMAIN entries |-> entries[i].quantity])
LegCost(entries) ==
  SumFunction([i \in DOMAIN entries |-> entries[i].entry_price * entries[i].quantity])

\* Every position ever opened, open or closed: id -> record.
ClosedIds == {closed_positions[i].id : i \in DOMAIN closed_positions}
Everything ==
  [id \in DOMAIN positions \cup ClosedIds |->
     IF id \in DOMAIN positions THEN positions[id]
     ELSE CHOOSE pos \in ToSet(closed_positions) : pos.id = id]

\* A leg that holds units.
LegType == [entry_price : Prices, quantity : Nat \ {0}]

\* Types of the book's variables.
TypeOK ==
  /\ DOMAIN positions \subseteq 1 .. created
  /\ \A id \in DOMAIN Everything :
       LET pos == Everything[id]
       IN  /\ pos.id = id
           /\ pos.symbol \in Symbols
           /\ pos.direction \in Directions
           /\ pos.status \in Statuses
           /\ pos.entries \in Seq(LegType)
           /\ pos.current_size \in Nat /\ pos.average_entry_price \in Nat
           /\ pos.realized_pnl \in Int /\ pos.unrealized_pnl \in Int
  /\ unrealized_pnl \in Int
  /\ method \in CostBasisMethods

\* The legs of a position and its current_size are maintained apart (the reduce_*
\* helpers drop and split legs, reduce_position subtracts): whatever sequence of
\* additions, partial and full reductions, the legs' quantities add up to the size.
LegsCoverSize ==
  \A id \in DOMAIN Everything :
    LegUnits(Everything[id].entries) = Everything[id].current_size

\* No position is lost, duplicated or left behind: every id ever drawn is either in
\* the map, with units left, or exactly once in closed_positions, with none, nothing
\* unrealized and status Closed.
OpenOrClosed ==
  /\ \A id \in DOMAIN positions :
       positions[id].current_size > 0 /\ positions[id].status # "Closed"
  /\ \A i \in DOMAIN closed_positions :
       LET pos == closed_positions[i]
       IN  pos.current_size = 0 /\ pos.status = "Closed" /\ pos.unrealized_pnl = 0
  /\ Len(closed_positions) + Cardinality(DOMAIN positions) = created
  /\ DOMAIN Everything = 1 .. created

\* The book's total, which open_position and add_to_position do not recompute, is
\* always the sum of the open positions' unrealized profit.
BookTotalIsSum == unrealized_pnl = TotalUnrealized(positions)

\* What a position realized is what its fills brought in minus the cost of the units
\* that left; the units that remain are worth their legs under FIFO and LIFO, and
\* the average price under the weighted average.  Of a closed position none remains, and
\* whatever the method it realized exactly what left it less what entered.
RealizedMatchesCash ==
  \A id \in DOMAIN Everything :
    LET pos  == Everything[id]
        held == IF method = "WeightedAverage"
                THEN pos.average_entry_price * pos.current_size
                ELSE LegCost(pos.entries)
    IN  pos.realized_pnl = DirMultiplier(pos.direction) * (received[id] - (paid[id] - held))

\* A position that left the map is final: no later operation changes, removes or
\* reorders what closed_positions holds, unless the whole book is replaced.
ClosedIsFinal ==
  [][created' < created \/ IsPrefix(closed_positions, closed_positions')]_vars

\* Under FIFO and LIFO the book implements the unit-lot book: flatten every
\* position's legs into the entry prices of its units.
LotsOf(entries) ==
  FoldLeft(LAMBDA units, leg : units \o [i \in 1 .. leg.quantity |-> leg.entry_price],
           << >>, entries)

Lots == INSTANCE LotBook WITH
  lots <- [id \in DOMAIN Everything |-> LotsOf(Everything[id].entries)],
  side <- [id \in DOMAIN Everything |-> DirMultiplier(Everything[id].direction)],
  earned <- [id \in DOMAIN Everything |-> Everything[id].realized_pnl],
  oldestFirst <- (method = "FIFO")

\* position.rs: "FIFO: remove oldest legs first", "LIFO: remove newest legs first".
LotBookSpec == Lots!LotSpec
=============================================================================
