---------------------------- MODULE EngineBook -----------------------------
(***************************************************************************)
(* The engine implements the order book: every step of Engine is, under    *)
(* the mapping below, a step of PositionBook or leaves the book alone.     *)
(* PositionBook is checked on its own over every sequence of operations;   *)
(* this says that the engine's simpler, single-leg records stand for its   *)
(* positions.                                                              *)
(***************************************************************************)
EXTENDS Engine

CONSTANTS Method,       \* config.cost_basis_method
          BookPrices    \* the prices the book may see

ASSUME MethodAssumption == Method \in {"FIFO", "LIFO", "WeightedAverage"}
ASSUME BookPricesAssumption ==
  /\ BookPrices \subseteq Nat \ {0}
  /\ \A course \in BarSeqs : \A i \in DOMAIN course : course[i].close \in BookPrices
\* The book is modelled with quantities above zero.
ASSUME BookQuantitiesAssumption == \A signal \in Signals : FillQuantity(signal) > 0

\* A position of the engine as a position of the book: its one leg, if it has units.
AsPosition(id, pos) ==
  [id                  |-> id,
   symbol              |-> pos.symbol,
   direction           |-> pos.direction,
   status              |-> pos.status,
   entries             |-> IF pos.size = 0 THEN << >>
                           ELSE << [entry_price |-> pos.entry, quantity |-> pos.size] >>,
   current_size        |-> pos.size,
   average_entry_price |-> pos.entry,
   realized_pnl        |-> pos.realized,
   unrealized_pnl      |-> pos.unrealized]

Book == INSTANCE PositionBook WITH
  Prices           <- BookPrices,
  Quantities       <- {FillQuantity(signal) : signal \in Signals},
  positions        <- [id \in DOMAIN positions |-> AsPosition(id, positions[id])],
  closed_positions <- [i \in DOMAIN closed_positions |->
                         AsPosition(closed_positions[i].id, closed_positions[i].pos)],
  unrealized_pnl   <- UnrealizedIn(positions),
  method           <- Method

\* What execute_signal, the marking and the reset do to the book is what the order
\* book's operations do, one operation at a time.
BookSpec == Book!Spec
=============================================================================
