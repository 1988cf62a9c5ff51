------------------------------ MODULE TradeSim ------------------------------
(***************************************************************************)
(* The simulated life of one backtest trade:                               *)
(* src/backtester/trade_sim.py simulate_trade and the fill rules of        *)
(* src/backtester/costs.py.  The walk starts on the bar after the one it   *)
(* was filled on and judges one bar at a time, in the code's order.        *)
(*                                                                         *)
(* Prices are profits, s * (price - entry), in twentieths of the ATR at    *)
(* entry, so LONG and SHORT share every rule but the spread's.  The        *)
(* position is counted in 1/Whole of its size.  A bar's data is chosen     *)
(* when the walk reads it.                                                 *)
(***************************************************************************)
EXTENDS Integers, FiniteSets, FiniteSetsExt

CONSTANTS
    Shapes,     \* the bars a walk may see: [lo, hi, close] as profits
    Whole,      \* units in a full position
    ScaleUnits, \* SCALE_OUT_PCT of a full position
    StopAtr, TakeAtr,
    ScaleOut1, ScaleOut2,
    LockArm, LockPlus,
    RatchetArm, RatchetLock, Ratchet2Arm, Ratchet2Lock,
    TrailArm, TrailDistance,
    RetraceArm, RetraceKeepPct,
    PartialBars, PartialProfit, TimeLimit,
    FlattenHour, RolloverHour

ASSUME SimAssumption ==
    /\ Shapes \subseteq [lo : Int, hi : Int, close : Int]
    /\ \A b \in Shapes : b.lo <= b.close /\ b.close <= b.hi
    /\ {Whole, ScaleUnits, StopAtr, TakeAtr, ScaleOut1, ScaleOut2, LockArm, LockPlus,
        RatchetArm, RatchetLock, Ratchet2Arm, Ratchet2Lock, TrailArm, TrailDistance,
        RetraceArm, PartialBars, PartialProfit, TimeLimit,
        FlattenHour, RolloverHour} \subseteq Nat
    /\ RetraceKeepPct \in 0..100

\* Hours since a Monday 00:00.
Hour(t) == t % 24
Date(t) == t \div 24
Weekday(t) == Date(t) % 7
Friday == 4
Sunday == 6

Higher(x, y) == IF x > y THEN x ELSE y
Lower(x, y) == IF x < y THEN x ELSE y

-----------------------------------------------------------------------------
(* Costs *)

\* Slip: an exit pays the spread whatever the side.
SpreadAlways(side, action, units) ==
    IF (side = "LONG" /\ action = "entry") \/ action = "exit" THEN units ELSE 0

\* fill_price: who crosses the spread.  The bars are bid bars: a LONG pays it
\* at entry, a SHORT at every exit.
Spread(side, action, units) ==
    IF (side = "LONG") = (action = "entry") THEN units ELSE 0

-----------------------------------------------------------------------------
(* The state of a walk, and what one bar makes of it *)

Reasons == {"none", "stop_loss", "take_profit", "retracement", "time_stop",
            "friday_flatten", "end_of_data"}

Walk == [entry : Nat, side : {"LONG", "SHORT"}, j : Nat, sl : Int, peak : Int,
         frac : Int, scaled : 0..2, halved : BOOLEAN, spread : Int,
         swaps : Nat, rolled : Int, reason : Reasons, level : Int, best : Int]

\* simulate_trade up to its loop.
Filled(entry, side) ==
    [entry |-> entry, side |-> side, j |-> entry, sl |-> -StopAtr, peak |-> 0,
     frac |-> Whole, scaled |-> 0, halved |-> FALSE,
     spread |-> Spread(side, "entry", Whole), swaps |-> 0, rolled |-> -1,
     reason |-> "none", level |-> 0, best |-> 0]

\* units of the position are sold at an exit fill.
Sell(w, units) ==
    [w EXCEPT !.frac = @ - units, !.spread = @ + Spread(w.side, "exit", units)]

\* The rest is sold and the walk ends.  best is the best price of the bar.
Exit(w, reason, level, best) ==
    [Sell(w, w.frac) EXCEPT !.reason = reason, !.level = level, !.best = best]

\* Slip: charged on every bar from the rollover hour on.
RolloverEachBar(w, t) ==
    IF Hour(t) >= RolloverHour
    THEN [w EXCEPT !.swaps = @ + 1, !.rolled = Date(t)] ELSE w

\* Swap, once per date.
Rollover(w, t) ==
    IF Hour(t) >= RolloverHour /\ Date(t) # w.rolled
    THEN [w EXCEPT !.swaps = @ + 1, !.rolled = Date(t)] ELSE w

\* Slip: the second rung sells a full third of whatever is left.
ScaleOutsUncapped(w) ==
    LET one == IF w.scaled = 0 /\ w.peak >= ScaleOut1
               THEN [Sell(w, ScaleUnits) EXCEPT !.scaled = 1] ELSE w
    IN  IF one.scaled = 1 /\ w.peak >= ScaleOut2
        THEN [Sell(one, ScaleUnits) EXCEPT !.scaled = 2] ELSE one

\* Both rungs may fire on one bar.
ScaleOuts(w) ==
    LET one == IF w.scaled = 0 /\ w.peak >= ScaleOut1
               THEN [Sell(w, ScaleUnits) EXCEPT !.scaled = 1] ELSE w
    IN  IF one.scaled = 1 /\ w.peak >= ScaleOut2
        THEN [Sell(one, Lower(ScaleUnits, one.frac)) EXCEPT !.scaled = 2] ELSE one

\* The stops that a peak asks for: breakeven lock, one rung of the ratchet
\* ladder, and trailing.
Asked(peak) ==
    (IF peak >= LockArm THEN {LockPlus} ELSE {})
    \cup (IF peak >= Ratchet2Arm THEN {Ratchet2Lock}
          ELSE IF peak >= RatchetArm THEN {RatchetLock} ELSE {})
    \cup (IF peak >= TrailArm THEN {peak - TrailDistance} ELSE {})

\* Slip: the last stop asked for replaces the others.
LockedLast(w) ==
    [w EXCEPT !.sl = IF w.peak >= TrailArm THEN w.peak - TrailDistance
                     ELSE IF w.peak >= LockArm THEN LockPlus ELSE @]

Locked(w) == [w EXCEPT !.sl = Max({@} \cup Asked(w.peak))]

Retraced(w, bar) ==
    w.peak >= RetraceArm /\ 100 * bar.close < RetraceKeepPct * w.peak

TimePartial(w, bar) ==
    IF ~w.halved /\ w.j - w.entry >= PartialBars /\ bar.close < PartialProfit
    THEN [Sell(w, w.frac \div 2) EXCEPT !.halved = TRUE] ELSE w

\* Slip: one bar too many.
TimedOutLate(w) == w.j - w.entry > TimeLimit

TimedOut(w) == w.j - w.entry >= TimeLimit

Flattens(cls, t) ==
    cls \in {"forex", "metal"} /\ Weekday(t) = Friday /\ Hour(t) >= FlattenHour

\* One bar of the loop, for the bar after w.j, opened at t.  The stop is judged
\* before the target, and both before the stop is moved by this bar's peak.
NextBar(w, bar, t, cls) ==
    LET seen == Rollover([w EXCEPT !.j = @ + 1, !.peak = Higher(@, bar.hi)], t)
        kept == Locked(ScaleOuts(seen))
        late == TimePartial(kept, bar)
    IN  IF bar.lo <= w.sl THEN Exit(seen, "stop_loss", w.sl, bar.hi)
        ELSE IF bar.hi >= TakeAtr THEN Exit(seen, "take_profit", TakeAtr, bar.hi)
        ELSE IF Retraced(kept, bar) THEN Exit(kept, "retracement", bar.close, bar.hi)
        ELSE IF TimedOut(late) THEN Exit(late, "time_stop", bar.close, bar.hi)
        ELSE IF Flattens(cls, t) THEN Exit(late, "friday_flatten", bar.close, bar.hi)
        ELSE late

\* The data ends: the rest is sold at the last close.
EndOfData(w, bar) == Exit(w, "end_of_data", bar.close, bar.hi)
=============================================================================
