----------------------------- MODULE MCExitStack -----------------------------
(***************************************************************************)
(* Model-checking instance of ExitStack with the shipped thresholds of     *)
(* config/settings.py, in twentieths of an ATR, and a position of four     *)
(* volume steps, of which three fall short, as 0.3 lots do with a step of  *)
(* 0.1.  The prices: barely in profit, and everything armed; the stages in *)
(* between are reached where the broker rejects a part of a list.          *)
(***************************************************************************)
EXTENDS ExitStack

MCPrices == {4, 44}
=============================================================================
