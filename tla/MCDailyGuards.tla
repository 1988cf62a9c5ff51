--------------------------- MODULE MCDailyGuards ----------------------------
(***************************************************************************)
(* Model-checking instance of DailyGuards: one unit is $100, so the live   *)
(* account starts with $10000 and the other with $4000, on which the       *)
(* percentage guards bite before the dollar guards do.                     *)
(***************************************************************************)
EXTENDS DailyGuards

CONSTANTS live, demo

MCStartBalance == [l \in Logins |-> IF l = live THEN 100 ELSE 40]
=============================================================================
