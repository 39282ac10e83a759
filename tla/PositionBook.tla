---------------------------- MODULE PositionBook ----------------------------
(***************************************************************************)
(* The in-memory order book (InMemoryOrderBook of                          *)
(* rust_core/crates/orderbook/src/position.rs): positions made of entry    *)
(* legs that are opened, added to, reduced, closed and marked to market.   *)
(*                                                                         *)
(* The HashMap of open positions is a function from position ids to        *)
(* records; ids (random UUIDs in the code) are numbered in the order in    *)
(* which they are drawn.  The weighted average is an integer division:     *)
(* the instances use prices on which it is exact, as it is in the code up  *)
(* to the 28 digits of a Decimal.                                          *)
(***************************************************************************)
EXTENDS CostBasis, FiniteSets

CONSTANTS Symbols,      \* the trading pairs
          Prices,       \* the prices a fill or a mark may have
          Quantities    \* the quantities a fill may have

ASSUME PricesAssumption == Prices \subseteq Nat \ {0}
ASSUME QuantitiesAssumption == Quantities \subseteq Nat \ {0}

VARIABLES positions,          \* book.positions: id -> open position
          closed_positions,   \* book.closed_positions
          unrealized_pnl,     \* book.unrealized_pnl
          created,            \* how many ids have been drawn
          method              \* config.cost_basis_method of the caller

bookVars == <<positions, closed_positions, unrealized_pnl, created, method>>

Statuses == {"Open", "PartiallyClosed", "Closed"}

\* recalc_unrealized_pnl: the total over a map of positions.
TotalUnrealized(book) == SumFunction([id \in DOMAIN book |-> book[id].unrealized_pnl])

\* struct Position, as open_position builds it from a fill.
NewPosition(id, symbol, direction, price, qty) ==
  [id                  |-> id,
   symbol              |-> symbol,
   direction           |-> direction,
   status              |-> "Open",
   entries             |-> << Leg(price, qty) >>,
   current_size        |-> qty,
   average_entry_price |-> price,
   realized_pnl        |-> 0,
   unrealized_pnl      |-> 0]

\* Value of a position against a mark price, with its blended entry price.
PnlAtMark(pos, mark) ==
  pos.current_size * (mark - pos.average_entry_price) * DirMultiplier(pos.direction)

-----------------------------------------------------------------------------

OpenPosition(symbol, direction, price, qty) ==
  /\ created' = created + 1
  /\ positions' = [id \in DOMAIN positions \cup {created'} |->
                     IF id = created' THEN NewPosition(id, symbol, direction, price, qty)
                     ELSE positions[id]]
  /\ UNCHANGED <<closed_positions, unrealized_pnl, method>>

\* The average entry price, reweighted by the fill that is added.
Reweighted(pos, price, qty) ==
  (pos.average_entry_price * pos.current_size + price * qty) \div (pos.current_size + qty)

\* Pyramiding.  Members of the map are never Closed, so the code's
\* "Cannot add to closed position" cannot be returned.
AddToPosition(id, price, qty) ==
  /\ id \in DOMAIN positions
  /\ positions[id].status # "Closed"
  /\ LET pos == positions[id]
     IN  positions' = [positions EXCEPT
           ![id] = [pos EXCEPT !.entries = Append(@, Leg(price, qty)),
                               !.current_size = @ + qty,
                               !.average_entry_price = Reweighted(pos, price, qty)]]
  /\ UNCHANGED <<closed_positions, unrealized_pnl, created, method>>

\* The position after a reduction (its status and figures).
Reduced(pos, price, qty) ==
  LET cut  == Reduction(method, pos, price, qty)
      size == pos.current_size - qty
  IN  [pos EXCEPT !.entries        = cut.entries,
                  !.realized_pnl   = @ + cut.realized,
                  !.current_size   = size,
                  !.status         = IF size = 0 THEN "Closed" ELSE "PartiallyClosed",
                  !.unrealized_pnl = IF size = 0 THEN 0 ELSE @]

\* Slips a reduction could have, for the mutants: an emptied position that stays in
\* the map, or goes to the front of closed_positions; a total that is not refreshed.
RetireNot(id, pos) ==
  positions' = [positions EXCEPT ![id] = pos] /\ UNCHANGED closed_positions
RetireInFront(id, pos) ==
  /\ positions' = Restrict(positions, DOMAIN positions \ {id})
  /\ closed_positions' = << pos >> \o closed_positions
RecalcNot == UNCHANGED unrealized_pnl

\* A position that is fully closed moves from the map to closed_positions.
Retire(id, pos) ==
  /\ positions' = Restrict(positions, DOMAIN positions \ {id})
  /\ closed_positions' = Append(closed_positions, pos)

RecalcUnrealizedPnl == unrealized_pnl' = TotalUnrealized(positions')

\* The negation of the InsufficientSize check.
Sufficient(pos, qty) == qty <= pos.current_size

\* Reduce by at most the position's size.  A larger fill is refused
\* (InsufficientSize), and so is an unknown id (PositionNotFound); neither refusal
\* changes the book.
ReducePosition(id, price, qty) ==
  /\ id \in DOMAIN positions
  /\ Sufficient(positions[id], qty)
  /\ LET pos == Reduced(positions[id], price, qty)
     IN  \/ /\ pos.status = "Closed"
            /\ Retire(id, pos)
         \/ /\ pos.status # "Closed"
            /\ positions' = [positions EXCEPT ![id] = pos]
            /\ UNCHANGED closed_positions
  /\ RecalcUnrealizedPnl
  /\ UNCHANGED <<created, method>>

\* Whatever quantity the fill names, close_position reduces by the whole size.
ClosePosition(id, price) ==
  /\ id \in DOMAIN positions
  /\ ReducePosition(id, price, positions[id].current_size)

UpdateUnrealizedPnl(symbol, mark) ==
  /\ positions' = [id \in DOMAIN positions |->
                     IF positions[id].symbol = symbol
                     THEN [positions[id] EXCEPT !.unrealized_pnl = PnlAtMark(positions[id], mark)]
                     ELSE positions[id]]
  /\ RecalcUnrealizedPnl
  /\ UNCHANGED <<closed_positions, created, method>>

\* The owner drops the book and makes a new one (InMemoryOrderBook::new).
NewBook ==
  /\ positions' = << >>
  /\ closed_positions' = << >>
  /\ unrealized_pnl' = 0
  /\ created' = 0
  /\ UNCHANGED method

-----------------------------------------------------------------------------

Init ==
  /\ positions = << >>
  /\ closed_positions = << >>
  /\ unrealized_pnl = 0
  /\ created = 0
  /\ method \in CostBasisMethods

Next ==
  \/ \E s \in Symbols, d \in Directions, p \in Prices, q \in Quantities :
       OpenPosition(s, d, p, q)
  \/ \E id \in DOMAIN positions, p \in Prices, q \in Quantities :
       AddToPosition(id, p, q) \/ ReducePosition(id, p, q)
  \/ \E id \in DOMAIN positions, p \in Prices : ClosePosition(id, p)
  \/ \E s \in Symbols, p \in Prices : UpdateUnrealizedPnl(s, p)
  \/ NewBook

Spec == Init /\ [][Next]_bookVars
=============================================================================
