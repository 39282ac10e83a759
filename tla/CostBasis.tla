----------------------------- MODULE CostBasis -----------------------------
(***************************************************************************)
(* The cost-basis algorithms of the order book: how a fill that reduces a  *)
(* position consumes its entry legs, and the profit it realizes            *)
(* (rust_core/crates/orderbook/src/position.rs, the three reduce_* helpers *)
(* at the end of the implementation).                                      *)
(*                                                                         *)
(* Prices and quantities are integers.  A leg keeps its entry price and    *)
(* its quantity; its timestamp and order id take part in no decision.      *)
(***************************************************************************)
EXTENDS Integers, SequencesExt

\* enum CostBasisMethod
CostBasisMethods == {"FIFO", "LIFO", "WeightedAverage"}

\* enum Direction
Directions == {"Long", "Short"}

\* The sign of a price move for a holder of the given direction.
DirMultiplier(direction) == IF direction = "Long" THEN 1 ELSE -1

\* struct PositionLeg
Leg(price, qty) == [entry_price |-> price, quantity |-> qty]

\* The locals of a reduction loop before its first iteration: the quantity still
\* to consume, the cost of what was consumed, and the legs kept.
Untouched(qty) == [remaining |-> qty, cost_basis |-> 0, kept |-> << >>]

\* A slip for the mutants: the leg that covers what remains is kept whole.
ConsumeKeepsLeg(acc, leg) ==
  IF acc.remaining > 0 /\ leg.quantity <= acc.remaining
  THEN [acc EXCEPT !.cost_basis = @ + leg.entry_price * leg.quantity,
                   !.remaining  = @ - leg.quantity]
  ELSE [remaining  |-> 0,
        cost_basis |-> acc.cost_basis + leg.entry_price * acc.remaining,
        kept       |-> Append(acc.kept, leg)]

\* One iteration of a reduction loop on the next leg.
Consume(acc, leg) ==
  CASE acc.remaining = 0 ->
         [acc EXCEPT !.kept = Append(@, leg)]
    [] acc.remaining > 0 /\ leg.quantity <= acc.remaining ->
         [acc EXCEPT !.cost_basis = @ + leg.entry_price * leg.quantity,
                     !.remaining  = @ - leg.quantity]
    [] OTHER ->
         [remaining  |-> 0,
          cost_basis |-> acc.cost_basis + leg.entry_price * acc.remaining,
          kept       |-> Append(acc.kept,
                                Leg(leg.entry_price, leg.quantity - acc.remaining))]

\* The loop that drains the legs from the oldest on.
OldestFirst(entries, qty) == FoldLeft(Consume, Untouched(qty), entries)

\* The loop that pops the legs from the newest on; the legs it keeps come out
\* newest first and are reversed before they are put back.
NewestFirst(entries, qty) ==
  LET walk == FoldLeft(Consume, Untouched(qty), Reverse(entries))
  IN  [walk EXCEPT !.kept = Reverse(@)]

\* The profit of leaving qty at price when it was entered at a total of cost.
Realize(pos, price, qty, cost) ==
  (price * qty - cost) * DirMultiplier(pos.direction)

ReduceFifo(pos, price, qty) ==
  LET walk == OldestFirst(pos.entries, qty)
  IN  [entries  |-> walk.kept,
       realized |-> Realize(pos, price, qty, walk.cost_basis)]

\* Slips reduce_lifo could have, for the mutants: the kept legs are put back in the
\* order they were popped in; the cost is that of the newest legs but the oldest go.
ReduceLifoUnreversed(pos, price, qty) ==
  LET walk == NewestFirst(pos.entries, qty)
  IN  [entries  |-> Reverse(walk.kept),
       realized |-> Realize(pos, price, qty, walk.cost_basis)]
ReduceLifoDropsOldest(pos, price, qty) ==
  [entries  |-> OldestFirst(pos.entries, qty).kept,
   realized |-> Realize(pos, price, qty, NewestFirst(pos.entries, qty).cost_basis)]

ReduceLifo(pos, price, qty) ==
  LET walk == NewestFirst(pos.entries, qty)
  IN  [entries  |-> walk.kept,
       realized |-> Realize(pos, price, qty, walk.cost_basis)]

\* Realizes at the average entry price, and drops the oldest legs.
ReduceWeightedAverage(pos, price, qty) ==
  [entries  |-> OldestFirst(pos.entries, qty).kept,
   realized |-> Realize(pos, price, qty, pos.average_entry_price * qty)]

\* The dispatch on config.cost_basis_method: what a fill of qty at price leaves
\* of the legs and what it realizes.
Reduction(method, pos, price, qty) ==
  CASE method = "FIFO"            -> ReduceFifo(pos, price, qty)
    [] method = "LIFO"            -> ReduceLifo(pos, price, qty)
    [] method = "WeightedAverage" -> ReduceWeightedAverage(pos, price, qty)
=============================================================================
