------------------------------ MODULE Backtest ------------------------------
(***************************************************************************)
(* The walk-forward backtest of one symbol: src/backtester/engine.py       *)
(* SymbolBacktester.run with its verdict windows, its cooldowns and the    *)
(* look-ahead guard of the memory it asks, around the trades of TradeSim.  *)
(*                                                                         *)
(* A bar is a position 0..n-1 and Calendar gives the hour it opens at; a   *)
(* forex calendar has weekends.  Which bars have clean data is fixed from  *)
(* the start, what the brain and the later gates say is chosen when a bar  *)
(* is judged, and its prices when a walk reads it.                         *)
(***************************************************************************)
EXTENDS TradeSim, Sequences

CONSTANTS
    Classes,            \* asset classes of this instance
    Calendar,           \* class -> opening hours of its bars
    CleanSets,          \* the sets of bars that may have an ATR and a normal spread
    Chunk,              \* bars per verdict window
    LabelBars,          \* bars the active label looks ahead
    CooldownBars,       \* COOLDOWN_AFTER_CLOSE_BARS
    LossCooldown,       \* hours
    RepeatWindow,       \* days
    RepeatCooldown,     \* hours
    DeadHours,          \* hours of the day without entries
    ThinHours,          \* class -> more of them, for a symbol without an Asian currency
    FridayNoEntryHour,
    SundayOpenHour      \* first hour of a Sunday with entries

ASSUME EngineAssumption ==
    /\ Classes \subseteq {"forex", "metal", "crypto", "index"}
    /\ Calendar \in [Classes -> Seq(Nat)]
    /\ \A c \in Classes : \A a, b \in 1..Len(Calendar[c]) :
           a < b => Calendar[c][a] < Calendar[c][b]
    /\ CleanSets \subseteq SUBSET Nat
    /\ Chunk \in Nat \ {0}
    /\ {LabelBars, CooldownBars, LossCooldown, RepeatWindow, RepeatCooldown,
        FridayNoEntryHour, SundayOpenHour} \subseteq Nat
    /\ DeadHours \subseteq 0..23
    /\ ThinHours \in [Classes -> SUBSET (0..23)]

VARIABLES
    cls,           \* asset class of the symbol
    pc,
    i,             \* bar being judged
    chunkHi,       \* the verdicts cover the bars below
    usable,        \* bars with an ATR and a normal spread
    asked,         \* bars of the window the brain was asked about
    flatUntil,     \* first bar after the pause that follows a trade
    noEntryUntil,  \* hour the loss ban ends
    stopTimes,     \* hours of the stop-outs
    walk,          \* the trade being simulated
    trades         \* [decided, entry, exit, stopped] of the trades so far

scanVars == <<chunkHi, asked>>
banVars == <<flatUntil, noEntryUntil, stopTimes>>
vars == <<cls, usable, pc, i, scanVars, banVars, walk, trades>>

n == Len(Calendar[cls])
Bars == 0..(n - 1)
At(b) == Calendar[cls][b + 1]

Trade == [decided : Nat, entry : Nat, exit : Nat, stopped : BOOLEAN]

\* Each variable has the type the code gives it.
TypeOK ==
    /\ cls \in Classes
    /\ pc \in {"scan", "walk", "book", "done"}
    /\ i \in Nat
    /\ chunkHi \in Int
    /\ usable \subseteq Nat
    /\ asked \subseteq Nat
    /\ flatUntil \in Nat
    /\ noEntryUntil \in Nat
    /\ stopTimes \in Seq(Nat)
    /\ walk \in Walk
    /\ trades \in Seq(Trade)

Init ==
    /\ cls \in Classes
    /\ pc = "scan"
    /\ i = 0
    /\ chunkHi = -1
    /\ usable \in CleanSets
    /\ asked = {}
    /\ flatUntil = 0
    /\ noEntryUntil = 0
    /\ stopTimes = <<>>
    /\ walk = Filled(0, "LONG")
    /\ trades = <<>>

-----------------------------------------------------------------------------
(* Gates *)

\* _session_ok, for bars that open on the hour: the rollover blackout is
\* shorter than a bar and touches none.
SessionOk(t) ==
    /\ Hour(t) \notin DeadHours \cup ThinHours[cls]
    /\ ~(Weekday(t) = Friday /\ Hour(t) >= FridayNoEntryHour)
    /\ ~(Weekday(t) = Sunday /\ Hour(t) < SundayOpenHour)

Candidate(b) == b \in usable /\ SessionOk(At(b))

\* candidate_positions over the window that starts at lo.
Candidates(lo) == {b \in lo..(Lower(lo + Chunk, n - 1) - 1) : Candidate(b)}

\* The memory points a decision on bar b may recall: the guard of
\* _batch_verdicts, in hours.
Neighbours(b) == {k \in Bars : At(k) <= At(b) - (LabelBars + 1)}

-----------------------------------------------------------------------------
(* The loop of run *)

\* Slip: the window is taken to be one bar longer than it is.
RefillLong ==
    /\ pc = "scan"
    /\ i < n - 1
    /\ i >= chunkHi
    /\ asked' = Candidates(i)
    /\ chunkHi' = i + Chunk + 1
    /\ UNCHANGED <<cls, usable, pc, i, banVars, walk, trades>>

Refill ==
    /\ pc = "scan"
    /\ i < n - 1
    /\ i >= chunkHi
    /\ asked' = Candidates(i)
    /\ chunkHi' = i + Chunk
    /\ UNCHANGED <<cls, usable, pc, i, banVars, walk, trades>>

Judging == pc = "scan" /\ i < n - 1 /\ i < chunkHi

Pausing == i < flatUntil \/ At(i) < noEntryUntil

\* Inside the pause or the ban, outside the session, no verdict, or one of the
\* later gates says no.
Skip ==
    /\ Judging
    /\ i' = i + 1
    /\ UNCHANGED <<cls, usable, pc, scanVars, banVars, walk, trades>>

\* The verdict of bar i passes every gate: filled at the open of the next bar.
Enter(side) ==
    /\ Judging
    /\ ~Pausing
    /\ Candidate(i)
    /\ i \in asked
    /\ walk' = Filled(i + 1, side)
    /\ pc' = "walk"
    /\ UNCHANGED <<cls, usable, i, scanVars, banVars, trades>>

WalkBar(bar) ==
    /\ pc = "walk"
    /\ walk.j + 1 < n
    /\ walk' = NextBar(walk, bar, At(walk.j + 1), cls)
    /\ pc' = IF walk'.reason = "none" THEN "walk" ELSE "book"
    /\ UNCHANGED <<cls, usable, i, scanVars, banVars, trades>>

WalkEnd(bar) ==
    /\ pc = "walk"
    /\ walk.j + 1 = n
    /\ walk' = EndOfData(walk, bar)
    /\ pc' = "book"
    /\ UNCHANGED <<cls, usable, i, scanVars, banVars, trades>>

Recent(times, t) == {k \in DOMAIN times : times[k] >= t - 24 * RepeatWindow}

\* Slip: the ban of the last stop-out replaces a longer one.
BanLatest(times, t) == t + LossCooldown

\* A stop-out at t bans the symbol, a second one in the window for longer, and
\* no ban shortens another.
Ban(times, t) ==
    Max({noEntryUntil, t + LossCooldown}
        \cup IF Cardinality(Recent(times, t)) >= 2 THEN {t + RepeatCooldown} ELSE {})

\* Slip: the exit bar counts as the first bar of the pause.
PausedShort(exit) == exit + CooldownBars

PausedUntil(exit) == exit + 1 + CooldownBars

\* Cooldown bookkeeping; the scan goes on behind the exit bar.
Book ==
    /\ pc = "book"
    /\ LET t == At(walk.j)
           stopped == walk.reason = "stop_loss"
       IN  /\ trades' = Append(trades, [decided |-> i, entry |-> walk.entry,
                                        exit |-> walk.j, stopped |-> stopped])
           /\ stopTimes' = IF stopped THEN Append(stopTimes, t) ELSE stopTimes
           /\ noEntryUntil' = IF stopped THEN Ban(stopTimes', t) ELSE noEntryUntil
    /\ flatUntil' = PausedUntil(walk.j)
    /\ i' = walk.j + 1
    /\ pc' = "scan"
    /\ UNCHANGED <<cls, usable, scanVars, walk>>

Finish ==
    /\ pc = "scan"
    /\ i >= n - 1
    /\ pc' = "done"
    /\ UNCHANGED <<cls, usable, i, scanVars, banVars, walk, trades>>

Next ==
    \/ Refill
    \/ Skip
    \/ \E side \in {"LONG", "SHORT"} : Enter(side)
    \/ \E bar \in Shapes : WalkBar(bar) \/ WalkEnd(bar)
    \/ Book
    \/ Finish

Spec == Init /\ [][Next]_vars

-----------------------------------------------------------------------------
(* Properties *)

Simulating == pc \in {"walk", "book"}

\* What the ladder of config/settings.py promises for a peak: a trade that was
\* meaningfully right does not come back to a full loss.
Promised(peak) ==
    IF peak >= Ratchet2Arm THEN Ratchet2Lock
    ELSE IF peak >= RatchetArm THEN RatchetLock
    ELSE IF peak >= LockArm THEN LockPlus
    ELSE -StopAtr

\* A trade never ends below what the ladder promised for the peak of its earlier
\* bars, whichever of simulate_trade's exits ends it.  (Before costs; the data
\* running out is nobody's exit.)
LocksHold ==
    [][pc = "walk" /\ walk'.reason \notin {"none", "end_of_data"}
           => walk'.level >= Promised(walk.peak)]_vars

\* However a trade is sold piece by piece - time partial and scale-outs may come in
\* any order - it never sells more than is left, a booked trade is flat, every unit
\* has crossed the spread exactly once (at entry for a LONG, at exit for a SHORT),
\* and swap is charged once for every date with a bar at or after the rollover hour
\* that the trade was held on.
TradeAddsUp ==
    /\ walk.frac >= 0
    /\ pc = "book" => walk.frac = 0 /\ walk.spread = Whole
    /\ Simulating =>
           walk.swaps = Cardinality({Date(At(k)) : k \in
               {k \in (walk.entry + 1)..walk.j : Hour(At(k)) >= RolloverHour}})

\* No trade outlives the time limit, and no forex or metal trade is carried past
\* a bar at the Friday flatten hour.
EndsInTime ==
    /\ Simulating => walk.j - walk.entry <= TimeLimit
    /\ pc = "walk" => \A k \in (walk.entry + 1)..walk.j : ~Flattens(cls, At(k))

\* Trades do not overlap, every fill is on the bar after its decision, and at
\* least CooldownBars bars lie between an exit and the next decision.
TradesKeepApart ==
    /\ \A k \in DOMAIN trades : trades[k].entry = trades[k].decided + 1
    /\ \A k \in DOMAIN trades \ {1} :
           trades[k].decided > trades[k - 1].exit + CooldownBars

\* Nothing is decided within the loss ban of any earlier stop-out, and after two
\* stop-outs within the window nothing within the longer ban of the second.
StopBansHold ==
    \A a, b \in DOMAIN trades : a < b /\ trades[a].stopped =>
        LET t == At(trades[a].exit)
            twice == \E z \in 1..(a - 1) : /\ trades[z].stopped
                                           /\ At(trades[z].exit) >= t - 24 * RepeatWindow
        IN  At(trades[b].decided) >= t + IF twice THEN Higher(LossCooldown, RepeatCooldown)
                                                  ELSE LossCooldown

\* The verdict windows leave no hole: a bar that passes the cheap gates when it
\* is judged is one the brain was asked about.
NoVerdictMissed == Judging /\ ~Pausing /\ Candidate(i) => i \in asked

\* The outcome of bar k is known when bar k + LabelBars closes: a decision at
\* the close of a bar recalls only outcomes known by then.
LabelsWereKnown ==
    Judging /\ i \in asked => \A k \in Neighbours(i) : k + LabelBars <= i

\* A stop is filled at a price its bar has traded.
StopFillsAreReachable ==
    pc = "book" /\ walk.reason = "stop_loss" => walk.level <= walk.best

\* A walk goes on with something left to sell.
RunnerLeft == pc = "walk" => walk.frac > 0
=============================================================================
