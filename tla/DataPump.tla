------------------------------ MODULE DataPump ------------------------------
(***************************************************************************)
(* The way of a bar from the terminal into PostgreSQL:                     *)
(* src/ingestion/run_pump.py (top-up, full recompute, one transaction for  *)
(* all symbols), src/ingestion/backfill_history.py, the queries of         *)
(* src/ingestion/loader.py, src/storage/db.py, and the bar readers of the  *)
(* connector.                                                              *)
(*                                                                         *)
(* now is the true UTC hour; the terminal labels bars with the broker's    *)
(* hour, Offset hours later, and its newest bar is still forming.  A table *)
(* of bars is two sets: the hours held, and those among them whose row was *)
(* written while the bar was forming.  Feature rows are computed from the  *)
(* whole table, so they are the table they were computed from.             *)
(***************************************************************************)
EXTENDS Integers, Sequences, FiniteSets, FiniteSetsExt

CONSTANTS
    Symbols,      \* the universe, in the order of the pools
    Market,       \* broker hours that have a bar
    Offset,       \* broker time minus UTC, in hours
    History,      \* hours of a first backfill
    ChunkHours,   \* hours of one backfill request
    RangeCap,     \* largest gap fetched by count (500 in the code)
    FaultKinds,
    MaxFaults,    \* bound on the number of failures
    MaxHour       \* bound on the clock

AllFaults ==
    { "nobars",   \* the terminal returns nothing for a request
      "raise",    \* an exception that is not the database's
      "sql",      \* a statement fails and aborts the transaction
      "kill" }    \* the process dies

ASSUME PumpAssumption ==
    /\ Symbols \in Seq(STRING) /\ Market \subseteq Nat
    /\ {Offset, History, MaxFaults, MaxHour} \subseteq Nat
    /\ {ChunkHours, RangeCap} \subseteq Nat \ {0}
    /\ FaultKinds \subseteq AllFaults

VARIABLES
    now,
    bars,      \* market_data_1h, committed
    rows,      \* feature_cache_1h, committed: the bars each row set came from
    proc,      \* the job that is running
    until,     \* the hour it was started
    todo,      \* symbols it still has to do
    tx,        \* what its transaction sees
    aborted,   \* a statement of the transaction has failed
    failed,    \* symbols it reports as failed
    skipped,   \* ghost: bars of backfill requests that returned nothing
    faults

dbVars == <<bars, rows>>
jobVars == <<proc, until, todo, tx, aborted, failed>>
pumpVars == <<now, dbVars, jobVars, skipped, faults>>

Universe == {Symbols[k] : k \in DOMAIN Symbols}
Table == [held : SUBSET Market, part : SUBSET Market]
Empty == [held |-> {}, part |-> {}]

\* Bars that follow a stored one by less than what the offset exceeds the headroom
\* of a top-up: none at UTC+2, the next one at UTC+3.
Outrun(table, b) == \E x \in table.held : x < b /\ b <= x + Offset - 2

\* What a new transaction sees.
Committed == [bars |-> bars, rows |-> rows, skip |-> skipped]

PumpTypeOK ==
    /\ now \in 0..MaxHour
    /\ bars \in [Universe -> Table]
    /\ rows \in [Universe -> Table]
    /\ proc \in {"none", "pump", "backfill"}
    /\ until \in 0..MaxHour
    /\ todo \in Seq(Universe)
    /\ tx \in [bars : [Universe -> Table], rows : [Universe -> Table],
               skip : [Universe -> SUBSET Market]]
    /\ aborted \in BOOLEAN
    /\ failed \subseteq Universe
    /\ skipped \in [Universe -> SUBSET Market]
    /\ faults \in 0..MaxFaults

PumpInit ==
    /\ now = 0
    /\ bars = [s \in Universe |-> Empty]
    /\ rows = [s \in Universe |-> Empty]
    /\ proc = "none"
    /\ until = 0
    /\ todo = <<>>
    /\ skipped = [s \in Universe |-> {}]
    /\ tx = Committed
    /\ aborted = FALSE
    /\ failed = {}
    /\ faults = 0

Fault(kind) ==
    /\ kind \in FaultKinds
    /\ faults < MaxFaults
    /\ faults' = faults + 1

-----------------------------------------------------------------------------
(* The terminal *)

Forming == now + Offset
Feed == {b \in Market : b <= Forming}

\* get_bars: the newest count bars, the forming one included.
GetBars(count) == {b \in Feed : Cardinality({x \in Feed : x > b}) < count}

\* Slip: hours without a bar are filled in.
GetBarsRangeFilled(from, to) == {b \in 0..Forming : from <= b /\ b <= to}

\* get_bars_range: both ends included.
GetBarsRange(from, to) == {b \in Feed : from <= b /\ b <= to}

-----------------------------------------------------------------------------
(* The tables *)

\* Slip: a row that is there is left alone.
UpsertNothing(table, got) ==
    [held |-> table.held \cup got,
     part |-> table.part \cup ((got \ table.held) \cap {Forming})]

\* execute_values_upsert: new rows are inserted, rows that are there replaced.
Upsert(table, got) ==
    [held |-> table.held \cup got,
     part |-> (table.part \ got) \cup (got \cap {Forming})]

\* _chunk_ranges, as bars per request.
Chunks(from, to) ==
    IF from >= to THEN {}
    ELSE {GetBarsRange(from + k * ChunkHours, Min({from + (k + 1) * ChunkHours, to})) :
              k \in 0..((to - from - 1) \div ChunkHours)}

\* Slip: the bar after the last one is taken for the first new one.
TopUpLate(table, last, gap) ==
    Upsert(table, {b \in GetBars(gap + 1) : b > last})

\* The top-up by count, with its headroom of two.
TopUpByCount(table, last, gap) ==
    Upsert(table, {b \in GetBars(gap + 2) : b > last})

\* The top-up of a longer gap asks for hours, up to the UTC one.
TopUpByRange(table, last) ==
    Upsert(table, {b \in GetBarsRange(last, now) : b > last})

\* Slip: an hour is enough to be up to date.
UpToDateSoon(gap) == gap <= 1

UpToDate(gap) == gap <= 0

\* top_up_symbol for a symbol that has bars.
ToppedUp(table) ==
    LET last == Max(table.held)
        gap == now - last
    IN  IF UpToDate(gap) THEN table
        ELSE IF gap <= RangeCap THEN TopUpByCount(table, last, gap)
        ELSE TopUpByRange(table, last)

-----------------------------------------------------------------------------
(* The jobs *)

Start(job) ==
    /\ proc = "none"
    /\ proc' = job
    /\ until' = now
    /\ todo' = Symbols
    /\ tx' = Committed
    /\ aborted' = FALSE
    /\ failed' = {}
    /\ UNCHANGED <<now, dbVars, skipped, faults>>

SymbolDone(s, table, feat, skip) ==
    /\ tx' = [tx EXCEPT !.bars[s] = table, !.rows[s] = feat, !.skip[s] = skip]
    /\ todo' = Tail(todo)
    /\ UNCHANGED <<now, dbVars, skipped, proc, until>>

\* Slip: only the bars after the newest row get a row.
RefreshedNew(s, table) ==
    IF proc = "pump"
    THEN LET new == {b \in table.held : \A x \in tx.rows[s].held : x < b}
         IN  [held |-> tx.rows[s].held \cup new,
              part |-> tx.rows[s].part \cup (table.part \cap new)]
    ELSE tx.rows[s]

\* refresh_features, over the whole table, is part of the pump and not of the
\* backfill.
Refreshed(s, table) == IF proc = "pump" THEN table ELSE tx.rows[s]

Busy == proc # "none" /\ todo # <<>>

\* A symbol with bars, on a pump run.
TopUp ==
    /\ Busy
    /\ proc = "pump"
    /\ ~aborted
    /\ LET s == Head(todo)
           table == ToppedUp(tx.bars[s])
       IN  /\ tx.bars[s].held # {}
           /\ \/ SymbolDone(s, table, Refreshed(s, table), tx.skip[s]) /\ UNCHANGED <<failed, faults>>
              \/ /\ Fault("nobars")
                 /\ SymbolDone(s, tx.bars[s], Refreshed(s, tx.bars[s]), tx.skip[s])
                 /\ UNCHANGED failed
              \/ /\ Fault("raise")   \* in the indicators: the bars are in
                 /\ SymbolDone(s, table, tx.rows[s], tx.skip[s])
                 /\ failed' = failed \cup {s}
    /\ UNCHANGED aborted

\* Where an exception may end a backfill: before one of its requests or, on a pump
\* run, in the indicators after the last one.
Stops(from, to) ==
    {h \in from..to : IF h = to THEN proc = "pump" ELSE (h - from) % ChunkHours = 0}

\* backfill_symbol, as the backfill job or as the pump's first run for a
\* symbol.  The job's window is that of its start, the pump's ends now.  A
\* request that returns nothing is passed over; an exception leaves what the
\* earlier requests brought in the transaction.
Backfill ==
    /\ Busy
    /\ ~aborted
    /\ LET s == Head(todo)
           end == IF proc = "pump" THEN now ELSE until
           chunks == Chunks(end - History, end)
       IN  /\ proc = "backfill" \/ tx.bars[s].held = {}
           /\ \/ \E missing \in chunks \cup {{}} :
                  /\ IF missing = {} THEN UNCHANGED faults ELSE Fault("nobars")
                  /\ LET got == UNION (chunks \ {missing})
                         table == Upsert(tx.bars[s], got)
                     IN  SymbolDone(s, table, Refreshed(s, table),
                                    (tx.skip[s] \cup missing) \ got)
                  /\ UNCHANGED failed
              \/ \E stop \in Stops(end - History, end) :
                  /\ Fault("raise")
                  /\ LET got == UNION Chunks(end - History, stop)
                     IN  SymbolDone(s, Upsert(tx.bars[s], got), tx.rows[s], tx.skip[s] \ got)
                  /\ failed' = failed \cup {s}
    /\ UNCHANGED aborted

\* An exception is caught and the symbol passed over.  When it came from the
\* database every later statement of the transaction fails as well.
SymbolFails ==
    /\ Busy
    /\ LET s == Head(todo)
       IN  /\ \/ aborted /\ UNCHANGED <<aborted, faults>>
              \/ ~aborted /\ Fault("raise") /\ UNCHANGED aborted
              \/ ~aborted /\ Fault("sql") /\ aborted' = TRUE
           /\ failed' = failed \cup {s}
           /\ SymbolDone(s, tx.bars[s], tx.rows[s], tx.skip[s])

Save ==
    /\ bars' = tx.bars
    /\ rows' = tx.rows
    /\ skipped' = tx.skip

\* The commit of get_conn; for an aborted transaction it is a rollback.
Commit == IF aborted THEN UNCHANGED <<bars, rows, skipped>> ELSE Save

\* The process is gone, and with it its transaction and its report.
Ended ==
    /\ proc' = "none"
    /\ until' = 0
    /\ tx' = Committed'
    /\ aborted' = FALSE
    /\ failed' = {}

Finish ==
    /\ proc # "none"
    /\ todo = <<>>
    /\ Commit
    /\ Ended
    /\ UNCHANGED <<now, todo, faults>>

Kill ==
    /\ proc # "none"
    /\ Fault("kill")
    /\ todo' = <<>>
    /\ UNCHANGED <<now, dbVars, skipped>>
    /\ Ended

Tick ==
    /\ now < MaxHour
    /\ now' = now + 1
    /\ UNCHANGED <<dbVars, jobVars, skipped, faults>>

Job == TopUp \/ Backfill \/ SymbolFails \/ Finish

PumpNext ==
    \/ \E job \in {"pump", "backfill"} : Start(job)
    \/ Job
    \/ Kill
    \/ Tick

-----------------------------------------------------------------------------
(* Properties of the tables *)

Holes(s) == {b \in Market : /\ b \notin bars[s].held
                            /\ \E x, y \in bars[s].held : x < b /\ b < y}

\* The stored history is continuous but for requests of a backfill that returned
\* nothing and for what the broker's clock leads: a top-up asks for as many bars as
\* UTC hours have passed since the label of the newest one, and two more, while
\* labels are Offset hours ahead.  So no hole is wider than Offset - 2 hours, and
\* there is none on a broker at UTC+2, whatever fails and however jobs follow each
\* other.
HolesAccountedFor ==
    \A s \in Universe : \A b \in Holes(s) : b \in skipped[s] \/ Outrun(bars[s], b)

\* The same without the clock: "TOP UP raw bars since the newest stored bar".  It is
\* violated from UTC+3 on, where a top-up leaves the first new bar out for good.
HolesOnlyFromSkips == \A s \in Universe : Holes(s) \subseteq skipped[s]

\* The table holds no half-formed bar but the newest.
OnlyNewestIsPartial ==
    \A s \in Universe : \A b \in bars[s].part : \A x \in bars[s].held : x <= b

\* The pump runs to its end.
PumpEnds == proc = "pump" /\ proc' = "none" /\ faults' = faults

\* A pump whose transaction holds leaves every symbol it does not report as
\* failed with the features of exactly the bars that are stored, those a backfill
\* added or replaced behind its back included.
RowsKeepUp ==
    [][PumpEnds /\ ~aborted
           => \A s \in Universe \ failed : rows'[s] = bars'[s]]_pumpVars

\* The same whatever becomes of the transaction: what a pump does not report as
\* failed is stored.
ReportedMeansStored ==
    [][PumpEnds => \A s \in Universe \ failed : bars'[s] = tx.bars[s]]_pumpVars

\* A backfill leaves its whole window stored, but for requests that returned nothing,
\* and nothing half formed in it but a bar that was still forming when it started.
\* It owes that to DO UPDATE: a repeat replaces rows that are there, where
\* backfill_history.py:6-7 says that "the ON CONFLICT clause makes repeats a no-op"
\* and SETUP.md:174 that it "ignores dupes".
BackfillRepairs ==
    [][proc = "backfill" /\ proc' = "none" /\ dbVars' # dbVars
           => \A s \in Universe \ failed :
                  LET window == {b \in Market : until - History <= b /\ b <= until} \ skipped'[s]
                  IN  /\ window \subseteq bars'[s].held
                      /\ \A b \in window \cap bars'[s].part : b >= until + Offset]_pumpVars

\* Every hour of the market that has passed is stored in the end, was skipped by a
\* backfill, or is one of the holes a broker clock beyond UTC+2 leaves, whatever
\* fails in between.
PumpCatchesUp ==
    \A s \in Universe :
        <>[](\A b \in Market : MaxHour - History <= b /\ b <= MaxHour
                 => \/ b \in bars[s].held \cup skipped[s]
                    \/ b \in Holes(s) /\ Outrun(bars[s], b))
=============================================================================
