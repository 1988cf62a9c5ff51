----------------------------- MODULE DailyGuards -----------------------------
(***************************************************************************)
(* The account-wide guards: daily loss limit, daily profit target with its *)
(* close-out and recheck, drawdown breaker, and what they allow the entry  *)
(* cycle to do.  src/live/risk_engine.py refresh_daily_guards and          *)
(* entries_allowed; src/live/live_trader.py run, _close_all_for_day,       *)
(* _recheck_target_lock.                                                   *)
(*                                                                         *)
(* Money is an integer.  The broker holds the positions in `open`, whose   *)
(* floating profit is `flo` in total; the trader knows the ones in `book`, *)
(* which lags behind when the broker closes one.  The loop reads the       *)
(* account once at its top and works with that reading to its end, while   *)
(* prices move, closes are rejected, midnight passes and the operator logs *)
(* the terminal in to another account.                                     *)
(* Config as shipped: DAILY_LOSS_CLOSE_ALL, DAILY_TARGET_CLOSE_ALL and     *)
(* DAILY_TARGET_RECHECK_AFTER_CLOSE are on.                                *)
(***************************************************************************)
EXTENDS Integers

CONSTANTS
    Slots,         \* position slots, MAX_POSITIONS of them
    Logins,        \* MT5 accounts of this machine
    NoLogin,       \* the login of a state file that was never anchored
    StartBalance,  \* balance of each account before the first trade
    LossUsd, LossPct, TargetUsd, TargetPct, DrawdownPct,   \* settings.py
    AccountFails,  \* may connector.account() return None?
    MaxMove,       \* bound on floating profit, and on what one close realizes
    MaxTrades,     \* bound on the orders of a behaviour
    MaxDay         \* bound on the days of a behaviour

ASSUME MoneyAssumption ==
    /\ StartBalance \in [Logins -> Nat \ {0}]
    /\ LossUsd \in Nat /\ TargetUsd \in Nat
    /\ LossPct \in 1..100 /\ TargetPct \in 0..100 /\ DrawdownPct \in 1..99
ASSUME BoundAssumption ==
    /\ MaxMove \in Nat /\ MaxTrades \in Nat /\ MaxDay \in Nat \ {0}
    /\ AccountFails \in BOOLEAN
    /\ NoLogin \notin Logins

VARIABLES
    date,    \* the UTC day
    login,   \* account the terminal is logged in to
    bal,     \* balance of each account
    open,    \* positions at the broker
    flo,     \* their floating profit
    orders,  \* orders placed so far
    traded,  \* accounts on which one was placed
    guard,   \* state["day"], halted_drawdown and peak_equity
    book,    \* state["positions"]
    seen,    \* equity this cycle's account reading showed, 0 for none
    pc,
    todo     \* positions this cycle still tries to close for the day

brokerVars == <<date, login, bal, open, flo, orders, traded>>
vars == <<brokerVars, guard, book, seen, pc, todo>>

Equity == bal[login] + flo

\* What connector.account() reports.
Account == [login |-> login, bal |-> bal[login], eq |-> Equity]

\* date 0: never anchored.
Guard == [date : 0..MaxDay, login : Logins \cup {NoLogin}, sb : Int, se : Int,
          loss : BOOLEAN, lock : BOOLEAN, dd : BOOLEAN, peak : Int]

TypeOK ==
    /\ date \in 1..MaxDay
    /\ login \in Logins
    /\ bal \in [Logins -> Int]
    /\ open \subseteq Slots
    /\ flo \in Int
    /\ orders \in 0..MaxTrades
    /\ traded \subseteq Logins
    /\ guard \in Guard
    /\ book \subseteq Slots
    /\ seen \in Int
    /\ pc \in {"top", "closing", "recheck", "manage", "entry"}
    /\ todo \subseteq Slots

Init ==
    /\ date = 1
    /\ login \in Logins
    /\ bal = StartBalance
    /\ open = {}
    /\ flo = 0
    /\ orders = 0
    /\ traded = {}
    /\ guard = [date |-> 0, login |-> NoLogin, sb |-> 0, se |-> 0,
                loss |-> FALSE, lock |-> FALSE, dd |-> FALSE, peak |-> 0]
    /\ book = {}
    /\ seen = 0
    /\ pc = "top"
    /\ todo = {}

-----------------------------------------------------------------------------
(* Outside the trader *)

Move(d) ==
    /\ open # {}
    /\ flo + d \in -MaxMove..MaxMove
    /\ flo' = flo + d
    /\ UNCHANGED <<date, login, bal, open, orders, traded, guard, book, seen, pc, todo>>

\* A close realizes the position's share of the floating profit: all of it for
\* the last one.  The fill may slip against the price the share was seen at.
Realize(p) ==
    \E share \in -MaxMove..MaxMove, slip \in {0, 1} :
        /\ flo - share \in -MaxMove..MaxMove
        /\ open = {p} => share = flo
        /\ open' = open \ {p}
        /\ flo' = flo - share
        /\ bal' = [bal EXCEPT ![login] = @ + share - slip]

\* A stop, a target, or an exit rule of the trader.
BrokerClose(p) ==
    /\ p \in open
    /\ Realize(p)
    /\ UNCHANGED <<date, login, orders, traded, guard, book, seen, pc, todo>>

Midnight ==
    /\ date < MaxDay
    /\ date' = date + 1
    /\ UNCHANGED <<login, bal, open, flo, orders, traded, guard, book, seen, pc, todo>>

\* The operator logs in to another account, with no position left behind.
SwitchAccount(l) ==
    /\ l # login
    /\ open = {}
    /\ login' = l
    /\ UNCHANGED <<date, bal, open, flo, orders, traded, guard, book, seen, pc, todo>>

-----------------------------------------------------------------------------
(* refresh_daily_guards *)

\* Slip: only the date rolls, as before the incident of 2026-09-12.
RolledByDate(g, a) ==
    IF g.date # date
    THEN [date |-> date, login |-> a.login, sb |-> a.bal, se |-> a.eq,
          loss |-> FALSE, lock |-> FALSE, dd |-> FALSE, peak |-> a.eq]
    ELSE [g EXCEPT !.login = a.login, !.peak = IF a.eq > @ THEN a.eq ELSE @]

\* Slip: anchors to the local date of a clock ahead of UTC.
RolledAhead(g, a) ==
    [date |-> date + 1, login |-> a.login, sb |-> a.bal, se |-> a.eq,
     loss |-> FALSE, lock |-> FALSE, dd |-> FALSE, peak |-> a.eq]

\* A new UTC day, or another account, re-anchors everything; otherwise only
\* the peak follows the equity.
Rolled(g, a) ==
    IF g.date # date \/ g.login # a.login
    THEN [date |-> date, login |-> a.login, sb |-> a.bal, se |-> a.eq,
          loss |-> FALSE, lock |-> FALSE, dd |-> FALSE, peak |-> a.eq]
    ELSE [g EXCEPT !.peak = IF a.eq > @ THEN a.eq ELSE @]

LossHit(g, a) ==
    /\ g.sb > 0
    /\ \/ 100 * (a.eq - g.sb) <= -(LossPct * g.sb)
       \/ LossUsd > 0 /\ g.se > 0 /\ g.se - a.eq >= LossUsd

TargetHit(g, a) ==
    /\ g.sb > 0
    /\ \/ TargetPct > 0 /\ 100 * (a.eq - g.sb) >= TargetPct * g.sb
       \/ TargetUsd > 0 /\ g.se > 0 /\ a.eq - g.se >= TargetUsd

DrawdownHit(g, a) == 100 * a.eq < g.peak * (100 - DrawdownPct)

Judged(g, a) ==
    [g EXCEPT !.loss = @ \/ LossHit(g, a),
              !.lock = @ \/ TargetHit(g, a),
              !.dd = @ \/ DrawdownHit(g, a)]

Refreshed(g, a) == IF a.eq <= 0 THEN g ELSE Judged(Rolled(g, a), a)

\* Slip: the loss halt is not asked for.
EntriesAllowedAfterLoss(g) == ~g.dd /\ ~g.lock

EntriesAllowed(g) == ~g.dd /\ ~g.loss /\ ~g.lock

-----------------------------------------------------------------------------
(* The loop *)

\* Slip: positions are closed on the event only.
WantedOnEvent(old, new) ==
    IF (new.lock /\ ~old.lock) \/ (new.loss /\ ~old.loss) THEN book ELSE {}

\* The positions a guard wants closed: on its event and, while the flag stands,
\* on every later cycle.
Wanted(old, new) == IF new.lock \/ new.loss THEN book ELSE {}

\* Read the account, refresh the guards, and go for the wanted closes.
GuardPass ==
    /\ pc = "top"
    /\ \/ /\ guard' = Refreshed(guard, Account)
          /\ seen' = Equity
       \/ /\ AccountFails
          /\ seen' = 0
          /\ UNCHANGED guard
    /\ todo' = Wanted(guard, guard')
    /\ pc' = "closing"
    /\ UNCHANGED <<brokerVars, book>>

CloseFilled(p) ==
    /\ pc = "closing"
    /\ p \in todo \cap open
    /\ Realize(p)
    /\ book' = book \ {p}
    /\ todo' = todo \ {p}
    /\ UNCHANGED <<date, login, orders, traded, guard, seen, pc>>

\* Rejected, or nothing left to close at the broker: the position stays in the
\* book.  On the event's own cycle the list is gone through twice, and a first
\* rejection is then a stuttering step.
CloseFailed(p) ==
    /\ pc = "closing"
    /\ p \in todo
    /\ todo' = todo \ {p}
    /\ UNCHANGED <<brokerVars, guard, book, seen, pc>>

EndClosing ==
    /\ pc = "closing"
    /\ todo = {}
    /\ pc' = "recheck"
    /\ UNCHANGED <<brokerVars, guard, book, seen, todo>>

\* Slip: the comparison turned round.
ReleaseLockBanked ==
    /\ guard.lock
    /\ book = {}
    /\ guard.se > 0
    /\ TargetUsd > 0
    /\ seen - guard.se >= TargetUsd

\* _recheck_target_lock: flat after a close-out that landed short.
ReleaseLock ==
    /\ guard.lock
    /\ book = {}
    /\ guard.se > 0
    /\ TargetUsd > 0
    /\ seen - guard.se < TargetUsd

Recheck(next) ==
    /\ pc = "recheck"
    /\ guard' = [guard EXCEPT !.lock = @ /\ ~ReleaseLock]
    /\ seen' = 0
    /\ pc' = next
    /\ UNCHANGED <<brokerVars, book, todo>>

FastPath == Recheck("top")
ManageDue == Recheck("manage")

\* reconcile brings the book up to date.  The entry cycle, when one is due and
\* the account can be read, starts only if the guards allow entries.
Manage ==
    /\ pc = "manage"
    /\ book' = open
    /\ \/ pc' = "top"
       \/ EntriesAllowed(guard) /\ pc' = "entry"
    /\ UNCHANGED <<brokerVars, guard, seen, todo>>

Enter(p) ==
    /\ pc = "entry"
    /\ p \in Slots \ book
    /\ orders < MaxTrades
    /\ orders' = orders + 1
    /\ traded' = traded \cup {login}
    /\ open' = open \cup {p}
    /\ book' = book \cup {p}
    /\ UNCHANGED <<date, login, bal, flo, guard, seen, pc, todo>>

EndEntry ==
    /\ pc = "entry"
    /\ pc' = "top"
    /\ UNCHANGED <<brokerVars, guard, book, seen, todo>>

\* run's except clause: the database, the vector store or the models raise in
\* the middle of a manage pass or an entry cycle.
CycleError ==
    /\ pc \in {"manage", "entry"}
    /\ pc' = "top"
    /\ UNCHANGED <<brokerVars, guard, book, seen, todo>>

Market ==
    \/ \E d \in {-1, 1} : Move(d)
    \/ \E p \in Slots : BrokerClose(p)
    \/ Midnight
    \/ \E l \in Logins : SwitchAccount(l)

Loop ==
    \/ GuardPass
    \/ \E p \in Slots : CloseFilled(p) \/ CloseFailed(p) \/ Enter(p)
    \/ EndClosing \/ FastPath \/ ManageDue \/ Manage \/ EndEntry

Next == Market \/ Loop \/ CycleError

Spec == Init /\ [][Next]_vars

\* The loop does not stop, a manage pass is due every 60 s, not every one of
\* them raises, and a broker that is asked for ever to close a position does so
\* at some time.
Fairness ==
    /\ WF_vars(Loop)
    /\ SF_vars(ManageDue)
    /\ SF_vars(Manage)
    /\ \A p \in Slots : SF_vars(CloseFilled(p))

FairSpec == Spec /\ Fairness

-----------------------------------------------------------------------------
(* What the guards must guarantee *)

SameDay == guard'.date = guard.date /\ guard'.login = guard.login

\* Once the loss limit has fired and the account is flat, the day is over: no
\* order, and nothing that changes the account, until the guard is anchored
\* anew.  (settings.py DAILY_LOSS_CLOSE_ALL "the day is capped at the limit")
LossDayIsOver ==
    [][guard.loss /\ book = {} /\ open = {} /\ SameDay
           => guard'.loss /\ book' = {} /\ open' = {} /\ bal' = bal]_vars

\* After the drawdown breaker has fired no order is sent until the guard is
\* anchored anew, whatever the readings and the entry cycle under way.
\* (state.py "halted_drawdown", latched until the next UTC day)
BreakerHolds == [][guard.dd /\ SameDay => guard'.dd /\ orders' = orders]_vars

\* No guard fires on phantom profit or loss: an account on which nothing was
\* ever traded is never halted, whatever another account did that day.
\* (risk_engine.py refresh_daily_guards, the incident of 2026-09-12)
NoPhantomHalt ==
    \A l \in Logins :
        guard.login = l /\ (guard.loss \/ guard.lock \/ guard.dd) => l \in traded

\* A halt that wants the book closed gets it closed, however many closes are
\* rejected, unless the guard lets go of the day before.
\* (live_trader.py _close_all_for_day "the main loop retries them each cycle
\* until flat")
HaltedGetsFlat ==
    guard.loss /\ book # {} ~> book = {} \/ ~guard.loss

\* A target close-out that landed short does not end the day: with the book flat
\* and the banked money short of the dollar target and of the percentage target,
\* the lock goes, whatever readings are missing.  Between the two targets
\* nothing is claimed: the recheck asks for the dollars only, and a lock set for
\* the percentage is released and set again on every cycle.
\* (live_trader.py _recheck_target_lock "release the lock and go earn the rest")
ShortfallResumes ==
    guard.lock /\ book = {} /\ ~TargetHit(guard, Account)
        ~> ~guard.lock \/ guard.login # login

\* The lock is only released when the money really banked is short of the dollar
\* target.  It does not hold: the recheck works with the reading from before the
\* fills, or with none.  (live_trader.py _recheck_target_lock "Only evaluated
\* when flat (equity == balance = truly banked)")
ReleasedOnlyShort ==
    [][guard.lock /\ ~guard'.lock /\ SameDay
           => bal[guard.login] - guard.se < TargetUsd]_vars

\* The same for the percentage target.  It does not hold.
\* (settings.py DAILY_PROFIT_TARGET_PCT "+2% day -> stop opening new trades")
ReleasedBelowPercent ==
    [][guard.lock /\ ~guard'.lock /\ SameDay
           => 100 * (bal[guard.login] - guard.sb) < TargetPct * guard.sb]_vars
=============================================================================
