-------------------------- MODULE MCOrderPlacement --------------------------
(* Four symbols: small steps, large steps below the smallest order, a size that *)
(* hits the notional cap, and one whose contract size is not told.              *)
EXTENDS OrderPlacement

Symbol(loss, value, min, max) == [loss |-> loss, value |-> value, min |-> min, max |-> max]

MCPrices == {-7, 0, 3, 7}
MCSpecs ==
    { Symbol(90000, 30000, 1, 12), Symbol(300000, 20000, 3, 9),
      Symbol(20000, 15000, 2, 50), Symbol(70000, 0, 1, 5) }
=============================================================================
