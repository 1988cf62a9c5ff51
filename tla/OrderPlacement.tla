--------------------------- MODULE OrderPlacement ---------------------------
(***************************************************************************)
(* The way of one symbol's orders to the broker: sizing and placement in   *)
(* src/live/live_trader.py _execute_entry, and the connector's             *)
(* volume_for_risk, place_market_order, close_position and _filling_mode   *)
(* (src/mt5_client/connector.py).                                          *)
(*                                                                         *)
(* Prices are moves from the close of the signal bar in the direction of   *)
(* the trade, so LONG and SHORT are one model; the market moves at any     *)
(* time, so a price is what a read of it returns.  Volumes are in volume   *)
(* steps.  An order whose reply is lost, and one that is filled in part,   *)
(* are in PositionBook.                                                    *)
(***************************************************************************)
EXTENDS Integers, Sequences, FiniteSets, FiniteSetsExt

CONSTANTS
    Prices,           \* what a read of the market can return
    Specs,            \* symbols: [loss, value, min, max] of a volume step
    Equities,
    Tiers,            \* shares of the slice risked, in 1/1000
    SlicePct,         \* SLICE_PCT_OF_EQUITY
    SymbolCapital,    \* CAPITAL_PER_SYMBOL
    CeilingPerMille,  \* MAX_TRADE_RISK_PCT_OF_EQUITY
    NotionalFactor,   \* NOTIONAL_CAP_PCT
    NotionalAbs,      \* NOTIONAL_CAP_ABS
    MaxDrift,         \* ENTRY_MAX_SIGNAL_DRIFT_ATR
    StopDist,         \* distance of the stop
    MinDist,          \* the broker's stops level and a point
    Retries           \* ORDER_FILL_RETRIES

Modes == {"ioc", "fok", "return"}

\* loss: what a step loses at the stop.  value: its notional, 0 when the terminal does
\* not tell the contract size.
SymbolSpecs == [loss : Nat \ {0}, value : Nat, min : Nat \ {0}, max : Nat]

ASSUME OrderAssumption ==
    /\ Prices \subseteq Int
    /\ Specs \subseteq SymbolSpecs /\ Equities \subseteq Nat /\ Tiers \subseteq Nat
    /\ {SlicePct, SymbolCapital, CeilingPerMille, NotionalFactor, NotionalAbs, MaxDrift,
        StopDist, MinDist} \subseteq Nat
    /\ Retries \in Nat /\ Retries >= 3

VARIABLES
    takes,      \* filling modes the broker accepts for the symbol
    announced,  \* the mode its filling_mode mask asks for
    cache,      \* _filling_cache of the process
    pc,
    cand,       \* the order being sized or sent, as a set
    mode,       \* filling of the order being sent
    answers,    \* refusals of the last order
    pos,        \* the position at the broker, as a set
    learnt      \* ghost: an order of this process has been filled

brokerVars == <<takes, announced>>
vars == <<brokerVars, cache, pc, cand, mode, answers, pos, learnt>>

Candidate == [lots : Nat, ref : Int, spec : Specs, risk : Nat, cap : Nat]
Position == [lots : Nat, fill : Int, sl : Int, spec : Specs, risk : Nat]

TypeOK ==
    /\ takes \in (SUBSET Modes) \ {{}}
    /\ announced \in Modes
    /\ cache \in Modes \cup {"none"}
    /\ pc \in {"idle", "sized", "sending"}
    /\ cand \subseteq Candidate
    /\ mode \in Modes
    /\ answers \in Seq({"refused", "unsupported"})
    /\ pos \subseteq Position
    /\ learnt \in BOOLEAN

\* A new process on a symbol that is flat.
Init ==
    /\ takes \in (SUBSET Modes) \ {{}}
    /\ announced \in Modes
    /\ cache = "none"
    /\ pc = "idle"
    /\ cand = {}
    /\ mode = announced
    /\ answers = <<>>
    /\ pos = {}
    /\ learnt = FALSE

-----------------------------------------------------------------------------
(* Sizing *)

Lower(x, y) == IF x < y THEN x ELSE y

\* The slice of the account, in 1/100.
Slice(equity) == Lower(100 * SymbolCapital, SlicePct * equity)

\* The money at risk, in 1/100000: the tier's share of the slice, below the ceiling.
RiskMoney(equity, tier) == Lower(tier * Slice(equity), 100 * CeilingPerMille * equity)

NotionalCap(equity) == Lower(NotionalFactor * Slice(equity), 100 * NotionalAbs)

\* Slip: a size below the smallest one is raised to it.
RoundedUp(spec, lots) == IF lots < spec.min THEN spec.min ELSE Lower(lots, spec.max)

\* _round_volume, for whole steps.
Rounded(spec, lots) ==
    IF Lower(lots, spec.max) < spec.min THEN 0 ELSE Lower(lots, spec.max)

\* volume_for_risk, cut to the notional cap.
Sized(spec, risk, cap) ==
    LET lots == Rounded(spec, risk \div spec.loss)
    IN  IF spec.value > 0 /\ lots * spec.value > cap
        THEN Rounded(spec, cap \div spec.value) ELSE lots

\* Placement gates and sizing, on one tick.  (A wide spread or a missing tick ends
\* it.)
Propose(tick, spec, equity, tier) ==
    /\ pc = "idle"
    /\ pos = {}
    /\ tick <= MaxDrift /\ -tick <= MaxDrift
    /\ LET risk == RiskMoney(equity, tier)
           cap == NotionalCap(equity)
       IN  cand' = {[lots |-> Sized(spec, risk, cap), ref |-> tick, spec |-> spec,
                     risk |-> risk, cap |-> cap]}
    /\ pc' = "sized"
    /\ answers' = <<>>
    /\ UNCHANGED <<brokerVars, cache, mode, pos, learnt>>

\* Nothing to buy, a veto of the risk engine, or no symbol, specs or tick.
Drop ==
    /\ pc \in {"sized", "sending"}
    /\ cand' = {}
    /\ pc' = "idle"
    /\ UNCHANGED <<brokerVars, cache, mode, answers, pos, learnt>>

-----------------------------------------------------------------------------
(* place_market_order *)

Filling == IF cache = "none" THEN announced ELSE cache

Send ==
    /\ pc = "sized"
    /\ \E c \in cand : c.lots > 0
    /\ mode' = Filling
    /\ cache' = Filling
    /\ pc' = "sending"
    /\ UNCHANGED <<brokerVars, cand, answers, pos, learnt>>

\* _enforce_stops_level.
Nudged(sl, price) == Lower(sl, price - MinDist)

\* Each attempt reads a new tick, and keeps size and stop.
Fill(tick) ==
    /\ pc = "sending"
    /\ Len(answers) < Retries
    /\ mode \in takes
    /\ pos' = {[lots |-> c.lots, fill |-> tick, sl |-> Nudged(c.ref - StopDist, tick),
                spec |-> c.spec, risk |-> c.risk] : c \in cand}
    /\ learnt' = TRUE
    /\ cand' = {}
    /\ pc' = "idle"
    /\ UNCHANGED <<brokerVars, cache, mode, answers>>

\* Slip: two modes take turns.
RotatedTwo(m) == IF m = "ioc" THEN "fok" ELSE "ioc"

Rotation == [ioc |-> "fok", fok |-> "return", return |-> "ioc"]
Rotated(m) == Rotation[m]

\* Slip: the rotation is not kept for the next order.
LearntNothing(m) == cache

Learnt(m) == m

\* A refusal: the mode does not fit, and the next one is tried; or anything else that
\* is worth a retry.  The last refusal ends it.
Refused(answer) ==
    /\ pc = "sending"
    /\ Len(answers) < Retries
    /\ IF answer = "unsupported"
       THEN mode \notin takes /\ mode' = Rotated(mode) /\ cache' = Learnt(mode')
       ELSE UNCHANGED <<mode, cache>>
    /\ answers' = Append(answers, answer)
    /\ IF Len(answers') = Retries THEN pc' = "idle" /\ cand' = {} ELSE UNCHANGED <<pc, cand>>
    /\ UNCHANGED <<brokerVars, pos, learnt>>

-----------------------------------------------------------------------------
(* close_position, and the world *)

\* One attempt, with no rotation.
Close ==
    /\ pc = "idle"
    /\ pos # {}
    /\ cache' = Filling
    /\ \/ Filling \in takes /\ pos' = {}
       \/ UNCHANGED pos
    /\ UNCHANGED <<brokerVars, pc, cand, mode, answers, learnt>>

BracketFill ==
    /\ pos # {}
    /\ pos' = {}
    /\ UNCHANGED <<brokerVars, cache, pc, cand, mode, answers, learnt>>

Restart ==
    /\ cache' = "none"
    /\ pc' = "idle"
    /\ cand' = {}
    /\ mode' = announced
    /\ answers' = <<>>
    /\ learnt' = FALSE
    /\ UNCHANGED <<brokerVars, pos>>

Next ==
    \/ \E tick \in Prices, spec \in Specs, equity \in Equities, tier \in Tiers :
          Propose(tick, spec, equity, tier)
    \/ Drop
    \/ Send
    \/ \E tick \in Prices : Fill(tick)
    \/ \E answer \in {"refused", "unsupported"} : Refused(answer)
    \/ Close
    \/ BracketFill
    \/ Restart

Spec == Init /\ [][Next]_vars

-----------------------------------------------------------------------------
(* Properties *)

\* The whole steps that the symbol, the risk and the notional cap allow.
Allowed(spec, risk, cap) ==
    {k \in spec.min..spec.max :
        /\ k * spec.loss <= risk
        /\ spec.value > 0 => k * spec.value <= cap}

\* The size is the largest that symbol, risk and notional cap allow together, or
\* nothing when they allow none, although it is rounded, cut and rounded again in
\* turn.  (live_trader.py _execute_entry; connector.py volume_for_risk "Lots such
\* that (stop hit) loses ~risk_amount")
SizeIsLargestAllowed ==
    \A c \in cand : c.lots = Max({0} \cup Allowed(c.spec, c.risk, c.cap))

\* No order is given up because of its filling mode alone: whatever the terminal
\* announces and earlier orders have left in the cache, the retries reach every
\* mode.  (connector.py place_market_order "filling not supported: rotate mode")
NoModeLeftUntried ==
    Len(answers) = Retries => \E k \in 1..Retries : answers[k] = "refused"

\* Once an order was filled the process knows a mode the broker takes, for its
\* later orders and for the close, which does not rotate.
\* (connector.py _filling_cache)
LearntModeHolds == learnt => cache \in takes

\* A position can always be closed: the mode a close would use is one the broker
\* takes.
HeldCanBeClosed == pos # {} => Filling \in takes

\* No position is filled beyond the drift at which the signal is not chased.
NoChasing == \A p \in pos : p.fill <= MaxDrift /\ -p.fill <= MaxDrift

\* At its stop a position loses no more than it was sized for.
LossWithinRisk ==
    \A p \in pos : p.lots * p.spec.loss * (p.fill - p.sl) <= p.risk * StopDist
=============================================================================
