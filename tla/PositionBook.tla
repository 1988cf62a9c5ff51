---------------------------- MODULE PositionBook ----------------------------
(***************************************************************************)
(* The position book of the live trader with real orders (DRY_RUN off):    *)
(* the broker's positions and deal history, the in-memory state, its file, *)
(* the trades table, and the loop that keeps the four together.            *)
(*                                                                         *)
(*   broker     deals, symOf     src/mt5_client/connector.py (external)    *)
(*   state      mem, disk        src/live/state.py                         *)
(*   journal    journal          src/live/journal.py                       *)
(*   loop       pc, ret, snap, todo, cur                                   *)
(*                               src/live/live_trader.py run, _manage,     *)
(*                               _entry_cycle; src/live/reconciler.py      *)
(*                                                                         *)
(* One action is one stretch of the loop between two calls whose order     *)
(* with the broker, or with a crash, matters.  The broker closes positions *)
(* at any moment, also while the process is down.                          *)
(***************************************************************************)
EXTENDS Naturals, FiniteSets

CONSTANTS
    Tickets,     \* position tickets the broker can hand out
    Symbols,     \* the trading universe
    None,        \* neither a ticket nor a symbol
    FaultKinds,  \* which failures this instance allows
    MaxFaults    \* bound on the number of failures

AllFaults ==
    { "crash",      \* the process dies
      "save",       \* save_state returns False, the file is as before
      "journal",    \* the database is unreachable for one journal call
      "history",    \* deal history unreachable, or without the exit deal yet
      "reply",      \* order_send executed the order but returned None
      "partial",    \* retcode 10010: a part was filled, the call retries
      "raise",      \* an exception ends the cycle early
      "readraise",  \* reconcile's positions() raises
      "blind" }     \* positions_get() returns None, read as "no positions"

ASSUME NoneAssumption == None \notin Tickets \cup Symbols
ASSUME FaultAssumption == FaultKinds \subseteq AllFaults /\ MaxFaults \in Nat

VARIABLES
    deals,    \* deal history: "none", "in" (open) or "out" (closed)
    symOf,    \* symbol a ticket was opened in
    journal,  \* the ticket's row: "absent", "open", or closed from a source
    mem,      \* state dict of the running process
    disk,     \* state/live_state.json
    pc,       \* where the loop is
    ret,      \* who called reconcile: "boot" (setup) or "manage"
    snap,     \* tickets in reconcile's snapshot of the broker
    todo,     \* symbols the entry cycle may still enter
    cur,      \* ticket of the order being recorded
    faults    \* failures so far

brokerVars == <<deals, symOf>>
loopVars == <<pc, ret, snap, todo, cur>>
vars == <<deals, symOf, journal, mem, disk, loopVars, faults>>

ClosedRow == {"truth", "estimate", "entrydeal"}

\* pos: the keys of state["positions"].  booked: how often finalize_close ran
\* for a ticket, i.e. its share of closed_count, realized_pnl and perf.
StateRecord == [pos : SUBSET Tickets, booked : [Tickets -> Nat]]

TypeOK ==
    /\ deals \in [Tickets -> {"none", "in", "out"}]
    /\ symOf \in [Tickets -> Symbols \cup {None}]
    /\ journal \in [Tickets -> {"absent", "open"} \cup ClosedRow]
    /\ mem \in StateRecord
    /\ disk \in StateRecord
    /\ pc \in {"down", "reconcile", "settle", "adopt", "manage", "rejudge",
               "entry", "record", "journal", "save", "guards"}
    /\ ret \in {"boot", "manage"}
    /\ snap \subseteq Tickets
    /\ todo \subseteq Symbols
    /\ cur \in Tickets \cup {None}
    /\ faults \in 0..MaxFaults

DefaultState == [pos |-> {}, booked |-> [t \in Tickets |-> 0]]

Init ==
    /\ deals = [t \in Tickets |-> "none"]
    /\ symOf = [t \in Tickets |-> None]
    /\ journal = [t \in Tickets |-> "absent"]
    /\ mem = DefaultState
    /\ disk = DefaultState
    /\ pc = "down"
    /\ ret = "boot"
    /\ snap = {}
    /\ todo = {}
    /\ cur = None
    /\ faults = 0

-----------------------------------------------------------------------------
(* Failures *)

NoFault == UNCHANGED faults

Fault(kind) ==
    /\ kind \in FaultKinds
    /\ faults < MaxFaults
    /\ faults' = faults + 1

-----------------------------------------------------------------------------
(* The broker *)

Broker == {t \in Tickets : deals[t] = "in"}
Unissued == {t \in Tickets : deals[t] = "none"}

\* A stop, a target or a manual close.
BrokerClose(t) ==
    /\ t \in Broker
    /\ deals' = [deals EXCEPT ![t] = "out"]
    /\ UNCHANGED <<symOf, journal, mem, disk, loopVars, faults>>

\* Slip: takes the last deal's direction for the summary.
SummaryOfDirection(t) == deals[t]

\* What closed_position_summary reports: the sum of the ticket's deals, which
\* is the closing truth only if the exit deal is among them.
Summary(t) == IF deals[t] = "out" THEN "truth" ELSE "entrydeal"

-----------------------------------------------------------------------------
(* Journal and the single close workflow *)

\* Slip: the update is never committed.
CloseRowUncommitted(t, source) == UNCHANGED journal

\* UPDATE ... WHERE exit_time IS NULL AND notes LIKE 'ticket:<t>%'
CloseRow(t, source) ==
    journal' = IF journal[t] = "open" THEN [journal EXCEPT ![t] = source]
                                      ELSE journal

\* Slip: finalize_close without its last step, the removal from the state.
FinalizedKept(m, t) == [m EXCEPT !.booked[t] = @ + 1]

\* finalize_close: the bookkeeping runs whether or not the row was updated.
Finalized(m, t) ==
    [pos |-> m.pos \ {t}, booked |-> [m.booked EXCEPT ![t] = @ + 1]]

FinalizeClose(t, source) ==
    /\ mem' = Finalized(mem, t)
    /\ \/ NoFault /\ CloseRow(t, source)
       \/ Fault("history")
          /\ \E other \in {"estimate", "entrydeal"} : CloseRow(t, other)
       \/ Fault("journal") /\ UNCHANGED journal

\* save_state: all or nothing.
SaveState(m) ==
    \/ NoFault /\ disk' = m
    \/ Fault("save") /\ UNCHANGED disk

-----------------------------------------------------------------------------
(* Start and reconcile *)

\* Slip: starts from default_state() instead of the file.
BootFresh ==
    /\ pc = "down"
    /\ mem' = DefaultState
    /\ pc' = "reconcile"
    /\ ret' = "boot"
    /\ UNCHANGED <<brokerVars, journal, disk, snap, todo, cur, faults>>

Boot ==
    /\ pc = "down"
    /\ mem' = disk
    /\ pc' = "reconcile"
    /\ ret' = "boot"
    /\ UNCHANGED <<brokerVars, journal, disk, snap, todo, cur, faults>>

AfterReconcile == IF ret = "boot" THEN "save" ELSE "manage"

ReadPositions ==
    /\ pc = "reconcile"
    /\ \/ NoFault /\ snap' = Broker /\ pc' = "settle"
       \/ Fault("blind") /\ snap' = {} /\ pc' = "settle"
       \/ Fault("readraise") /\ snap' = {} /\ pc' = AfterReconcile
    /\ UNCHANGED <<brokerVars, journal, mem, disk, ret, todo, cur>>

\* Slip: the test that skips virtual tickets skips the real ones.
MissingVirtual == {}

\* A tracked ticket the snapshot does not hold is taken for closed away.
Missing == mem.pos \ snap

Settle(t) ==
    /\ pc = "settle"
    /\ t \in Missing
    /\ FinalizeClose(t, Summary(t))
    /\ UNCHANGED <<brokerVars, disk, loopVars>>

SettleDone ==
    /\ pc = "settle"
    /\ Missing = {}
    /\ pc' = "adopt"
    /\ UNCHANGED <<brokerVars, journal, mem, disk, ret, snap, todo, cur, faults>>

\* Slip: unknown broker positions are only reported, as in DRY_RUN.
AdoptReportOnly ==
    /\ pc = "adopt"
    /\ snap' = {}
    /\ pc' = AfterReconcile
    /\ UNCHANGED <<brokerVars, journal, mem, disk, ret, todo, cur, faults>>

Adopt ==
    /\ pc = "adopt"
    /\ mem' = [mem EXCEPT !.pos = @ \cup snap]
    /\ snap' = {}
    /\ pc' = AfterReconcile
    /\ UNCHANGED <<brokerVars, journal, disk, ret, todo, cur, faults>>

-----------------------------------------------------------------------------
(* Managing open positions *)

\* Slip: finalizes although the broker rejected the close.
CloseAllUnchecked(t) ==
    /\ pc \in {"guards", "manage", "rejudge"}
    /\ t \in mem.pos \cap Broker
    /\ FinalizeClose(t, "truth")
    /\ UNCHANGED <<brokerVars, disk, loopVars>>

\* _apply_actions with CLOSE_ALL: an exit rule in the manage pass, a flip exit
\* in the entry cycle, a daily guard at the top of the loop.  A rejected close
\* changes nothing.
CloseAll(t) ==
    /\ pc \in {"guards", "manage", "rejudge"}
    /\ t \in mem.pos \cap Broker
    /\ deals' = [deals EXCEPT ![t] = "out"]
    /\ FinalizeClose(t, "truth")
    /\ UNCHANGED <<symOf, disk, loopVars>>

\* Slip: reads the open symbols from the saved file, not from memory.
EnterableOnDisk == Symbols \ {symOf[t] : t \in disk.pos}

\* universe without open_symbols: "one open position per symbol".
Enterable == Symbols \ {symOf[t] : t \in mem.pos}

\* Either no entry cycle is due (or entries are halted, or the account cannot
\* be read), or the cycle fixes the symbols it may enter.
EndManage ==
    /\ pc = "manage"
    /\ \/ pc' = "save" /\ todo' = {}
       \/ pc' = "rejudge" /\ todo' = Enterable
    /\ UNCHANGED <<brokerVars, journal, mem, disk, ret, snap, cur, faults>>

EndRejudge ==
    /\ pc = "rejudge"
    /\ pc' = "entry"
    /\ UNCHANGED <<brokerVars, journal, mem, disk, ret, snap, todo, cur, faults>>

-----------------------------------------------------------------------------
(* Entering *)

\* A gate, the sizing, the risk engine or the broker says no.
Skip(s) ==
    /\ pc = "entry"
    /\ s \in todo
    /\ todo' = todo \ {s}
    /\ UNCHANGED <<brokerVars, journal, mem, disk, pc, ret, snap, cur, faults>>

\* order_send executes: the caller learns it, or the reply is lost and the
\* symbol is given up, or the fill is partial and the same symbol is retried.
\* TRADE_RETCODE_PLACED, which the code takes for a fill, is one here too.
Order(s, t) ==
    /\ pc = "entry"
    /\ s \in todo
    /\ t \in Unissued
    /\ deals' = [deals EXCEPT ![t] = "in"]
    /\ symOf' = [symOf EXCEPT ![t] = s]
    /\ \/ NoFault /\ cur' = t /\ pc' = "record" /\ todo' = todo \ {s}
       \/ Fault("reply") /\ todo' = todo \ {s} /\ UNCHANGED <<pc, cur>>
       \/ Fault("partial") /\ UNCHANGED <<pc, cur, todo>>
    /\ UNCHANGED <<journal, mem, disk, ret, snap>>

\* Slip: leaves the save to the end of the cycle.
RecordUnsaved ==
    /\ pc = "record"
    /\ mem' = [mem EXCEPT !.pos = @ \cup {cur}]
    /\ pc' = "journal"
    /\ UNCHANGED <<brokerVars, journal, disk, ret, snap, todo, cur, faults>>

Record ==
    /\ pc = "record"
    /\ mem' = [mem EXCEPT !.pos = @ \cup {cur}]
    /\ SaveState(mem')
    /\ pc' = "journal"
    /\ UNCHANGED <<brokerVars, journal, ret, snap, todo, cur>>

JournalOpen ==
    /\ pc = "journal"
    /\ \/ NoFault /\ journal' = [journal EXCEPT ![cur] = "open"]
       \/ Fault("journal") /\ UNCHANGED journal
    /\ cur' = None
    /\ pc' = "entry"
    /\ UNCHANGED <<brokerVars, mem, disk, ret, snap, todo>>

EndEntry ==
    /\ pc = "entry"
    /\ todo = {}
    /\ pc' = "save"
    /\ UNCHANGED <<brokerVars, journal, mem, disk, ret, snap, todo, cur, faults>>

-----------------------------------------------------------------------------
(* Saving, the guard cycles between two manage passes, stop and crash *)

Save ==
    /\ pc \in {"save", "guards"}
    /\ SaveState(mem)
    /\ pc' = "guards"
    /\ UNCHANGED <<brokerVars, journal, mem, ret, snap, todo, cur>>

ManageDue ==
    /\ pc = "guards"
    /\ pc' = "reconcile"
    /\ ret' = "manage"
    /\ UNCHANGED <<brokerVars, journal, mem, disk, snap, todo, cur, faults>>

\* run's except clause: the cycle ends without its save, the loop goes on.
CycleError ==
    /\ pc \in {"manage", "rejudge", "entry"}
    /\ Fault("raise")
    /\ pc' = "guards"
    /\ todo' = {}
    /\ UNCHANGED <<brokerVars, journal, mem, disk, ret, snap, cur>>

\* SIGINT or SIGTERM, seen between two cycles.
Stop ==
    /\ pc = "guards"
    /\ SaveState(mem)
    /\ pc' = "down"
    /\ UNCHANGED <<brokerVars, journal, mem, ret, snap, todo, cur>>

\* mem is left as it was: nothing reads it before Boot loads the file.
Crash ==
    /\ pc # "down"
    /\ Fault("crash")
    /\ pc' = "down"
    /\ snap' = {}
    /\ todo' = {}
    /\ cur' = None
    /\ UNCHANGED <<brokerVars, journal, mem, disk, ret>>

-----------------------------------------------------------------------------
Reconcile == ReadPositions \/ (\E t \in Tickets : Settle(t)) \/ SettleDone \/ Adopt
Manage == (\E t \in Tickets : CloseAll(t)) \/ EndManage \/ EndRejudge
Enter ==
    \/ \E s \in Symbols : Skip(s) \/ \E t \in Tickets : Order(s, t)
    \/ Record \/ JournalOpen \/ EndEntry
Outage == CycleError \/ Crash

Next ==
    \/ \E t \in Tickets : BrokerClose(t)
    \/ Boot \/ Reconcile \/ Manage \/ Enter \/ Save \/ ManageDue \/ Stop \/ Outage

Spec == Init /\ [][Next]_vars

\* The loop runs, and whoever runs it starts it again when it is down.
Fairness ==
    /\ WF_vars(Boot)
    /\ WF_vars(Reconcile)
    /\ WF_vars(EndManage)
    /\ WF_vars(EndRejudge)
    /\ WF_vars(Enter)
    /\ WF_vars(pc = "save" /\ Save)
    /\ WF_vars(ManageDue)

FairSpec == Spec /\ Fairness
-----------------------------------------------------------------------------
(* What the book must guarantee *)

Closed == {t \in Tickets : deals[t] = "out"}

\* finalize_close runs at most once for a ticket in any one history of the
\* state dict, only for a position the broker really closed, and the ticket is
\* then no longer managed: neither a crash between reconcile and save_state,
\* nor a stop filling while the trader closes, books a trade twice.
\* (src/live/reconciler.py finalize_close, reconcile; src/live/state.py)
CountedOnce ==
    \A m \in {mem, disk} : \A t \in Tickets :
        m.booked[t] > 0 => m.booked[t] = 1 /\ t \in Closed /\ t \notin m.pos

\* Whatever goes wrong, one failure books a trade at most one time too often.
\* (src/live/reconciler.py reconcile, which finalizes on one snapshot)
OvercountBounded ==
    \A m \in {mem, disk} : \A t \in Tickets : m.booked[t] <= 1 + faults

\* The trader never holds two positions in one symbol, although the entry
\* cycle looks at its own book, not at the broker, and an order may have been
\* executed without the trader learning of it, or just before a crash.
\* (src/live/live_trader.py _entry_cycle "one open position per symbol")
OnePerSymbol ==
    \A t, u \in Broker : symOf[t] = symOf[u] => t = u

\* A closed row of the trades table stands for a position the broker closed: no
\* open position is journaled as closed.  Of the figures in the row it says
\* nothing, see RowsTellTruth.  (src/live/journal.py journal_close)
ClosedRowIsClosed ==
    \A t \in Tickets : journal[t] \in ClosedRow => t \in Closed

\* The trades whose row is not the record src/live/journal.py promises, "every
\* exit updates that row with the broker's truth (exit price / time / pnl from
\* deal history, never our estimates)": no row although an order was executed
\* and nothing is about to write one, a row closed with other figures, or a row
\* still open although the bookkeeping of mem or disk has finished with it.
Untold ==
    {t \in Tickets :
        \/ deals[t] # "none" /\ journal[t] = "absent" /\ t # cur
        \/ journal[t] \in ClosedRow \ {"truth"}
        \/ journal[t] = "open" /\ mem.booked[t] + disk.booked[t] > 0}

\* One failure spoils the row of at most one trade: a lost reply or a crash
\* before the row is written, a database that is down when it is written or
\* closed, a deal history that is.  No failure costs a second trade its row and
\* without a failure every row tells the broker's truth.
\* (src/live/live_trader.py _execute_entry; src/live/reconciler.py
\* finalize_close, reconcile; src/live/journal.py journal_open, journal_close)
RowsTellTruth == Cardinality(Untold) <= faults

\* What src/live/journal.py says, "never our estimates".  It does not hold:
\* reconcile and _apply_actions fall back to an estimate when deal history is
\* unreachable, and take the entry deal for the close when the exit deal is late.
NeverEstimates ==
    \A t \in Tickets : journal[t] \in ClosedRow => journal[t] = "truth"

\* A trade with a journal row survives a restart: the state file manages it,
\* or has counted its close.  _execute_entry saves before it journals, and this
\* is why that order matters.  A save that failed before the row was written
\* is the one excuse.
\* (src/live/live_trader.py _execute_entry; src/live/state.py save_state)
JournaledIsDurable ==
    \A t \in Tickets :
        journal[t] # "absent" =>
            t \in disk.pos \/ disk.booked[t] > 0 \/ "save" \in FaultKinds

\* The bookkeeping in the state file goes through the history that TradeLedger
\* promises: counted after the close, once, and never taken back by a restart.
Ledger == INSTANCE TradeLedger WITH
              open <- Broker, closed <- Closed, counted <- disk.booked

ImplementsLedger == Ledger!Spec

\* Every position at the broker comes under management or is closed: an order
\* whose reply was lost, or that a crash cut off before it was recorded, is
\* adopted by a later reconcile.  (src/live/reconciler.py adopt_position)
EventuallyManaged ==
    \A t \in Tickets : t \in Broker ~> t \in mem.pos \/ t \in Closed

\* A position the state file manages and the broker has closed is counted in
\* the state file in the end, whenever the process dies in between.
\* (src/live/live_trader.py "positions that closed while we were down are
\* journaled from deal history")
EventuallyCounted ==
    \A t \in Tickets :
        t \in disk.pos /\ t \in Closed ~> disk.booked[t] > 0

\* What src/live/journal.py says of a failed close write, "the next reconcile
\* pass re-attempts the close write".  It does not hold: finalize_close ignores
\* the result and drops the position, so no later pass knows of the row.
RowEventuallyClosed ==
    \A t \in Tickets :
        journal[t] = "open" /\ t \in Closed ~> journal[t] \in ClosedRow
=============================================================================
