------------------------------- MODULE MCApi -------------------------------
(***************************************************************************)
(* The server for TLC: what the clients send over their connections.       *)
(***************************************************************************)
EXTENDS ApiServer

\* Messages for the first backtest, with and without its id, and two that change nothing.
MCMessages ==
  {Subscribe(1), Control("play", 1), Control("play", NoId), Control("pause", 1), Invalid}
=============================================================================
