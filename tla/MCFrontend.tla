---------------------------- MODULE MCFrontend -----------------------------
(***************************************************************************)
(* A page for TLC.                                                         *)
(***************************************************************************)
EXTENDS Frontend

MCSockets == 1 .. 4

\* Both backtests are of the same data.
MCTime == [id \in 1 .. MaxStarts, bar \in 1 .. NumBars |-> bar]
=============================================================================
