----------------------------- MODULE EntryGates -----------------------------
(***************************************************************************)
(* What keeps the hourly entry cycle of the live trader from adding risk:  *)
(* the portfolio caps of RiskEngine (src/live/risk_engine.py), and the     *)
(* cooldowns, loss bans and performance pauses that finalize_close of      *)
(* src/live/reconciler.py books.  The brain, the bar gates, the sizing and *)
(* the broker's answer are one choice: a candidate is placed or it is not. *)
(*                                                                         *)
(* Risk is counted in units.  A position's stop lies `dist` units from its *)
(* entry: on the losing side when positive, in profit when negative, and   *)
(* 0 also stands for an adopted position without stop and ATR.             *)
(* Times are hours; the broker's deals carry its own clock, Offset ahead.  *)
(***************************************************************************)
EXTENDS Integers, FiniteSets, FiniteSetsExt

CONSTANTS
    Universe,         \* tradable symbols
    PairOf,           \* split_pair: symbol -> <<base, quote>>, <<>> for an index
    MaxTicket,        \* bound on the tickets, handed out in order
    Equities,         \* account equity, in units of risk
    MaxPositions,
    TotalPct, CcyPct, \* risk units allowed per unit of equity
    NewRisks,         \* risk of a sized candidate
    Dists,            \* distances a stop may have
    CooldownBars, LossCooldown, RepeatWindow, RepeatCooldown,
    PerfWindow, PerfMinTrades, PerfBlockR,
    Offset,           \* broker clock minus UTC
    HistoryFails,     \* may deal history be missing?
    MaxHour           \* bound on the clock

ASSUME GateAssumption ==
    /\ MaxTicket \in Nat
    /\ Equities \subseteq Nat /\ NewRisks \subseteq Nat
    /\ {MaxPositions, TotalPct, CcyPct, Offset, MaxHour} \subseteq Nat /\ Dists \subseteq Int
    /\ {CooldownBars, LossCooldown, RepeatWindow, RepeatCooldown} \subseteq Nat
    /\ {PerfWindow, PerfMinTrades} \subseteq Nat /\ PerfBlockR \in Int
    /\ HistoryFails \in BOOLEAN
ASSUME WindowAssumption == RepeatCooldown <= RepeatWindow

\* The performance window is days, the offset hours.
ASSUME OffsetAssumption == Offset <= PerfWindow

VARIABLES
    now,
    equity,
    book,         \* state["positions"]: ticket -> [sym, side, dist]
    gone,         \* positions the broker has closed: ticket -> [won, at]
    used,         \* tickets handed out
    engine,       \* this cycle's RiskEngine: [eq, seen: ticket -> [sym, side, risk]]
    held,         \* open_symbols of this cycle, and the symbols it entered
    pc,
    noEntryUntil, \* symbol -> hour
    stopTimes,    \* symbol -> {<<ticket, hour>>} of recent stop-outs
    perf,         \* symbol -> {<<ticket, hour, R>>}
    closes,       \* ghost: every close that was booked
    stale         \* ghost: the re-judgement has changed what the engine was built from

cycleVars == <<engine, held, stale>>
banVars == <<noEntryUntil, stopTimes, perf, closes>>
vars == <<now, equity, book, gone, used, cycleVars, pc, banVars>>

Sides == {"LONG", "SHORT"}
Tickets == 1..MaxTicket
Position == [sym : Universe, side : Sides, dist : Dists \cup NewRisks]

TypeOK ==
    /\ now \in 0..MaxHour
    /\ equity \in Equities
    /\ DOMAIN book \subseteq Tickets /\ \A t \in DOMAIN book : book[t] \in Position
    /\ DOMAIN gone \subseteq DOMAIN book
    /\ \A t \in DOMAIN gone : gone[t] \in [won : BOOLEAN, at : 0..MaxHour]
    /\ used \in 0..MaxTicket
    /\ engine.eq \in Equities /\ DOMAIN engine.seen \subseteq Tickets
    /\ \A t \in DOMAIN engine.seen :
           engine.seen[t] \in [sym : Universe, side : Sides, risk : Nat]
    /\ held \subseteq Universe
    /\ pc \in {"idle", "flips", "enter"}
    /\ noEntryUntil \in [Universe -> Nat]
    /\ stopTimes \in [Universe -> SUBSET (Tickets \X Nat)]
    /\ perf \in [Universe -> SUBSET (Tickets \X Nat \X Int)]
    /\ closes \subseteq [ticket : Tickets, sym : Universe, at : Nat, r : Int, stop : BOOLEAN]
    /\ stale \in BOOLEAN

NoPosition == [t \in {} |-> 0]

Init ==
    /\ now = 0
    /\ equity \in Equities
    /\ book = NoPosition
    /\ gone = NoPosition
    /\ used = 0
    /\ engine = [eq |-> equity, seen |-> NoPosition]
    /\ held = {}
    /\ pc = "idle"
    /\ noEntryUntil = [s \in Universe |-> 0]
    /\ stopTimes = [s \in Universe |-> {}]
    /\ perf = [s \in Universe |-> {}]
    /\ closes = {}
    /\ stale = FALSE

-----------------------------------------------------------------------------
(* RiskEngine *)

Abs(x) == IF x < 0 THEN -x ELSE x
With(f, t, v) == [x \in DOMAIN f \cup {t} |-> IF x = t THEN v ELSE f[x]]
Without(f, T) == [x \in DOMAIN f \ T |-> f[x]]

\* position_risk_usd with stop_distance_for: the distance, whatever its side.
RiskInfo(p) == [sym |-> p.sym, side |-> p.side, risk |-> Abs(p.dist)]

Total(infos) == MapThenSumSet(LAMBDA t : infos[t].risk, DOMAIN infos)

\* Share of a currency in a position: long the base, short the quote.
Share(s, side, c) ==
    LET long == IF PairOf[s] = <<>> THEN 0
                ELSE IF PairOf[s][1] = c THEN 1
                ELSE IF PairOf[s][2] = c THEN -1 ELSE 0
    IN  IF side = "LONG" THEN long ELSE -long

Currencies(s) == {PairOf[s][k] : k \in DOMAIN PairOf[s]}

\* currency_exposure.
Exposure(infos, c) ==
    MapThenSumSet(LAMBDA t : Share(infos[t].sym, infos[t].side, c) * infos[t].risk,
                  DOMAIN infos)

WithinTotals(risk) ==
    /\ engine.eq > 0
    /\ Cardinality(DOMAIN engine.seen) < MaxPositions
    /\ risk > 0
    /\ Total(engine.seen) + risk <= TotalPct * engine.eq

WithinCcy(s, side, risk, c) ==
    Abs(Exposure(engine.seen, c) + Share(s, side, c) * risk) <= CcyPct * engine.eq

\* Slip: only the base currency is looked at.
CheckEntryBase(s, side, risk) ==
    WithinTotals(risk) /\ (PairOf[s] # <<>> => WithinCcy(s, side, risk, PairOf[s][1]))

CheckEntry(s, side, risk) ==
    WithinTotals(risk) /\ \A c \in Currencies(s) : WithinCcy(s, side, risk, c)

-----------------------------------------------------------------------------
(* The record of a symbol *)

\* symbol_perf_verdict.
Paused(rows, at) ==
    LET recent == {row \in rows : row[2] >= at - PerfWindow}
    IN  /\ Cardinality(recent) >= PerfMinTrades
        /\ MapThenSumSet(LAMBDA row : row[3], recent) <= PerfBlockR

Recent(t, at) == {x \in stopTimes[book[t].sym] \cup {<<t, at>>} : x[2] >= at - RepeatWindow}

BanUntil(t, at, stop) ==
    Max({at + CooldownBars}
        \cup (IF stop THEN {at + LossCooldown} ELSE {})
        \cup (IF stop /\ Cardinality(Recent(t, at)) >= 2 THEN {at + RepeatCooldown} ELSE {}))

\* Slip: the newest close decides.
ProlongedLast(prev, until) == until

\* A ban is never shortened.
Prolonged(prev, until) == IF until > prev THEN until ELSE prev

\* finalize_close, as far as it concerns the symbol; the position leaves the
\* book.  stop: the reason is "stop_loss".
FinalizeClose(t, at, stop, r) ==
    LET s == book[t].sym
    IN  /\ noEntryUntil' = [noEntryUntil EXCEPT ![s] = Prolonged(@, BanUntil(t, at, stop))]
        /\ stopTimes' = IF stop THEN [stopTimes EXCEPT ![s] = Recent(t, at)] ELSE stopTimes
        /\ perf' = [perf EXCEPT ![s] = {row \in @ \cup {<<t, at, r>>} :
                                            row[2] >= at - 2 * PerfWindow}]
        /\ closes' = closes \cup {[ticket |-> t, sym |-> s, at |-> at, r |-> r, stop |-> stop]}
        /\ book' = Without(book, {t})
        /\ gone' = Without(gone, {t})

\* reconcile finds a position the broker has closed and takes it for stopped out
\* or for a winner, whichever of stop and target the exit is nearer to - or for
\* neither when one of them is not set.  Without its deals the exit is put at the
\* stop and at this moment.  A stop that was in profit loses nothing.
Reconcile(t) ==
    /\ pc = "idle"
    /\ t \in DOMAIN gone
    /\ LET atStop == IF book[t].dist > 0 THEN -1 ELSE 0
       IN  \E bracket \in BOOLEAN :
           \/ IF gone[t].won THEN FinalizeClose(t, gone[t].at + Offset, FALSE, 1)
                             ELSE FinalizeClose(t, gone[t].at + Offset, bracket, atStop)
           \/ HistoryFails /\ FinalizeClose(t, now, bracket, atStop)
    /\ UNCHANGED <<now, equity, used, cycleVars, pc>>

\* What a close of the trader's own is dated: by its deal, or by the loop's clock.
ExitTimes == {now + Offset} \cup IF HistoryFails THEN {now} ELSE {}

\* An exit of the trader's own, in the management cycle.
OwnExit(t) ==
    /\ pc = "idle"
    /\ t \in DOMAIN book \ DOMAIN gone
    /\ \E at \in ExitTimes, r \in {-1, 0} : FinalizeClose(t, at, FALSE, r)
    /\ UNCHANGED <<now, equity, used, cycleVars, pc>>

\* A broker position the state does not know.
Adopt(s, side, dist) ==
    /\ pc = "idle"
    /\ used < MaxTicket
    /\ used' = used + 1
    /\ book' = With(book, used', [sym |-> s, side |-> side, dist |-> dist])
    /\ UNCHANGED <<now, equity, gone, cycleVars, pc, banVars>>

\* The management cycle, or the operator, moves a stop.
MoveStop(t, dist) ==
    /\ pc = "idle"
    /\ t \in DOMAIN book \ DOMAIN gone
    /\ book' = [book EXCEPT ![t].dist = dist]
    /\ UNCHANGED <<now, equity, gone, used, cycleVars, pc, banVars>>

-----------------------------------------------------------------------------
(* The entry cycle, once an hour *)

\* The engine and the open symbols are taken from the book at its top, right
\* after the management cycle has reconciled it.
BeginCycle ==
    /\ pc = "idle"
    /\ gone = NoPosition
    /\ engine' = [eq |-> equity, seen |-> [t \in DOMAIN book |-> RiskInfo(book[t])]]
    /\ held' = {book[t].sym : t \in DOMAIN book}
    /\ stale' = FALSE
    /\ pc' = "flips"
    /\ UNCHANGED <<now, equity, book, gone, used, banVars>>

\* A strong verdict against an open position closes it.
FlipExit(t) ==
    /\ pc = "flips"
    /\ t \in DOMAIN book \ DOMAIN gone
    /\ \E at \in ExitTimes : FinalizeClose(t, at, FALSE, 0)
    /\ stale' = TRUE
    /\ UNCHANGED <<now, equity, used, engine, held, pc>>

\* The rest of the exit stack runs with it: a stop is raised, a part is sold.
FlipTighten(t, dist) ==
    /\ pc = "flips"
    /\ t \in DOMAIN book \ DOMAIN gone
    /\ dist < book[t].dist
    /\ book' = [book EXCEPT ![t].dist = dist]
    /\ stale' = TRUE
    /\ UNCHANGED <<now, equity, gone, used, engine, held, pc, banVars>>

FlipsDone ==
    /\ pc = "flips"
    /\ pc' = "enter"
    /\ UNCHANGED <<now, equity, book, gone, used, cycleVars, banVars>>

Admitted(s) ==
    /\ s \notin held
    /\ now >= noEntryUntil[s]
    /\ ~Paused(perf[s], now)

\* Slip: the engine is not told.
ToldNothing(t, info) == engine

\* "the book changed: later entries this cycle must see it"
Told(t, info) == [engine EXCEPT !.seen = With(@, t, info)]

Enter(s, side, risk) ==
    /\ pc = "enter"
    /\ Admitted(s)
    /\ CheckEntry(s, side, risk)
    /\ used < MaxTicket
    /\ used' = used + 1
    /\ LET p == [sym |-> s, side |-> side, dist |-> risk]
       IN  /\ book' = With(book, used', p)
           /\ engine' = Told(used', RiskInfo(p))
    /\ held' = held \cup {s}
    /\ UNCHANGED <<now, equity, gone, pc, banVars, stale>>

\* The symbols that are left are vetoed, rejected or not wanted.
EndCycle ==
    /\ pc = "enter"
    /\ pc' = "idle"
    /\ engine' = [eq |-> equity, seen |-> NoPosition]
    /\ held' = {}
    /\ stale' = FALSE
    /\ UNCHANGED <<now, equity, book, gone, used, banVars>>

-----------------------------------------------------------------------------
(* The broker and the clock *)

\* A close during an entry cycle is booked after it, like one that follows it.
CloseAway(t, won) ==
    /\ pc = "idle"
    /\ t \in DOMAIN book \ DOMAIN gone
    /\ gone' = With(gone, t, [won |-> won, at |-> now])
    /\ UNCHANGED <<now, equity, book, used, cycleVars, pc, banVars>>

Tick ==
    /\ pc = "idle"
    /\ now < MaxHour
    /\ now' = now + 1
    /\ equity' \in Equities
    /\ UNCHANGED <<book, gone, used, cycleVars, pc, banVars>>

Next ==
    \/ \E t \in Tickets : Reconcile(t) \/ OwnExit(t) \/ FlipExit(t)
    \/ \E s \in Universe, side \in Sides, dist \in Dists : Adopt(s, side, dist)
    \/ \E t \in Tickets, dist \in Dists : MoveStop(t, dist) \/ FlipTighten(t, dist)
    \/ BeginCycle \/ FlipsDone \/ EndCycle
    \/ \E s \in Universe, side \in Sides, risk \in NewRisks : Enter(s, side, risk)
    \/ \E t \in Tickets, won \in BOOLEAN : CloseAway(t, won)
    \/ Tick

Spec == Init /\ [][Next]_vars

-----------------------------------------------------------------------------
(* Properties *)

\* The step places an order for position t.
Entered(t) == pc = "enter" /\ t = used' /\ used' # used

\* What position p loses when its stop fills.
AtRisk(p) == IF p.dist > 0 THEN p.dist ELSE 0

\* However many entries one cycle makes, and whatever flip exits and stop moves
\* came before, each leaves the book within the number of positions and the total
\* risk that the equity of the cycle allows.
EntriesWithinCaps ==
    [][\A t \in Tickets : Entered(t) =>
           /\ Cardinality(DOMAIN book') <= MaxPositions
           /\ MapThenSumSet(LAMBDA x : AtRisk(book'[x]), DOMAIN book') <= TotalPct * engine.eq]_vars

NetWithin(s) ==
    \A c \in Currencies(s) :
        Abs(Exposure([x \in DOMAIN book' |-> RiskInfo(book'[x])], c)) <= CcyPct * engine.eq

\* An entry leaves the net risk of both its currencies within the cap, over all
\* the positions that are open, in a cycle whose re-judgement changed none.
CurrencyCapOnFreshBook ==
    [][\A t \in Tickets : Entered(t) /\ ~stale => NetWithin(book'[t].sym)]_vars

\* The same in every cycle: "net risk per single CURRENCY".
CurrencyCapAtEntry == [][\A t \in Tickets : Entered(t) => NetWithin(book'[t].sym)]_vars

\* No entry goes against the symbol's record, taken from all its closes: closes of
\* two positions in one symbol booked in either order, late, with or without deal
\* history, and lists that are pruned as they grow, never let one in too early.
NoEntryAgainstRecord ==
    [][\A t \in Tickets : Entered(t) =>
           LET s == book'[t].sym
               mine == {x \in closes : x.sym = s}
               stops == {x \in mine : x.stop}
           IN  /\ \A x \in mine : now >= x.at + CooldownBars
               /\ \A x \in stops : now >= x.at + LossCooldown
               /\ \A x, y \in stops :
                      x # y /\ x.at <= y.at /\ y.at - x.at <= RepeatWindow
                          => now >= x.at + RepeatCooldown
               /\ ~Paused({<<x.ticket, x.at, x.r>> : x \in mine}, now)]_vars
=============================================================================
