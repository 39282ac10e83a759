------------------------------ MODULE LotBook ------------------------------
(***************************************************************************)
(* What the order book promises of FIFO and LIFO, without legs: a holding  *)
(* is the queue of the entry prices of its units, one element per unit, in *)
(* the order in which they were entered.  Leaving units under FIFO takes   *)
(* them from the front, under LIFO from the back, and each unit that       *)
(* leaves earns its own exit price minus its own entry price (the          *)
(* contrary for a short holding).  "FIFO: remove oldest legs first" and    *)
(* "LIFO: remove newest legs first" of position.rs say no more than this.  *)
(***************************************************************************)
EXTENDS Integers, SequencesExt

CONSTANTS Prices, Quantities

VARIABLES lots,      \* id -> the entry prices of the units held
          side,      \* id -> 1 for a long holding, -1 for a short one
          earned,    \* id -> profit of the units that left
          oldestFirst   \* whether units leave from the front

lotVars == <<lots, side, earned, oldestFirst>>

Units(price, n) == [i \in 1 .. n |-> price]

\* The units that stay when n leave, and those that leave.
Staying(q, n) == IF oldestFirst THEN SubSeq(q, n + 1, Len(q)) ELSE SubSeq(q, 1, Len(q) - n)
Leaving(q, n) == IF oldestFirst THEN SubSeq(q, 1, n) ELSE SubSeq(q, Len(q) - n + 1, Len(q))

Earnings(id, units, price) ==
  side[id] * FoldLeft(LAMBDA total, entry : total + price - entry, 0, units)

\* The holdings' entries with one of a new holding.
With(entries, id, entry) ==
  [other \in DOMAIN entries \cup {id} |-> IF other = id THEN entry ELSE entries[other]]

\* A new holding of n units.
Start(d, price, n) ==
  LET id == Cardinality(DOMAIN lots) + 1
  IN  /\ lots' = With(lots, id, Units(price, n))
      /\ side' = With(side, id, d)
      /\ earned' = With(earned, id, 0)
      /\ UNCHANGED oldestFirst

Extend(id, price, n) ==
  /\ lots[id] # << >>
  /\ lots' = [lots EXCEPT ![id] = @ \o Units(price, n)]
  /\ UNCHANGED <<side, earned, oldestFirst>>

\* A holding that has become empty stays empty: Leave and Extend need units.
Leave(id, price, n) ==
  /\ n \in 1 .. Len(lots[id])
  /\ lots' = [lots EXCEPT ![id] = Staying(@, n)]
  /\ earned' = [earned EXCEPT ![id] = @ + Earnings(id, Leaving(lots[id], n), price)]
  /\ UNCHANGED <<side, oldestFirst>>

Forget ==
  /\ lots' = << >>
  /\ side' = << >>
  /\ earned' = << >>
  /\ UNCHANGED oldestFirst

LotInit ==
  /\ lots = << >>
  /\ side = << >>
  /\ earned = << >>
  /\ oldestFirst \in BOOLEAN

LotNext ==
  \/ \E d \in {1, -1}, p \in Prices, n \in Quantities : Start(d, p, n)
  \/ \E id \in DOMAIN lots, p \in Prices, n \in Quantities : Extend(id, p, n)
  \/ \E id \in DOMAIN lots, p \in Prices : \E n \in 1 .. Len(lots[id]) : Leave(id, p, n)
  \/ Forget

LotSpec == LotInit /\ [][LotNext]_lotVars
=============================================================================
