---------------------------- MODULE MCCaseMemory ----------------------------
(* Two symbols, eight hours with the market closed in one of them.            *)
EXTENDS CaseMemory

MCSymbols == <<"EURUSD", "XAUUSD">>
MCMarket == 0..7 \ {6}
=============================================================================
