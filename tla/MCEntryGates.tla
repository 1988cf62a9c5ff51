---------------------------- MODULE MCEntryGates ----------------------------
(* Two pairs that share a currency. *)
EXTENDS EntryGates

MCPerfBlockR == -2
MCDists == {-1}
MCPairOf == [EURUSD |-> <<"EUR", "USD">>, USDJPY |-> <<"USD", "JPY">>, US500 |-> <<>>]
=============================================================================
