----------------------------- MODULE MCBacktest ------------------------------
(***************************************************************************)
(* Model-checking instance of Backtest with the shipped exit thresholds,   *)
(* in twentieths of an ATR, shortened limits in bars and hours, and two    *)
(* calendars: one that never closes, around a Sunday midnight, and a       *)
(* Friday evening followed by a Monday, for a pair with an Asian currency. *)
(***************************************************************************)
EXTENDS Backtest

MCCalendar ==
    [c \in Classes |-> IF c = "crypto" THEN <<158, 159, 160, 161, 162, 163, 164, 165, 166, 167, 168, 169, 170>>
                       ELSE <<113, 114, 115, 116, 117, 118, 119, 168, 169, 170, 171>>]

MCThinHours == [c \in Classes |-> IF c = "crypto" THEN {0} ELSE {}]

\* All clean, every third bar without, and a hole.
MCCleanSets == {0..13, {b \in 0..13 : b % 3 # 1}, 0..13 \ 2..6}

Bar(lo, hi, close) == [lo |-> lo, hi |-> hi, close |-> close]

\* Quiet, over the first and second rung, all armed, a spike that fades, a
\* crash, and the target.
MCShapes ==
    { Bar(-4, 4, 0), Bar(4, 32, 20), Bar(25, 44, 40), Bar(16, 36, 19),
      Bar(-45, -30, -40), Bar(20, 62, 50) }
=============================================================================
