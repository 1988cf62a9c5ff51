----------------------------- MODULE TraderLoop -----------------------------
(***************************************************************************)
(* The live trader's loop with DRY_RUN on: when run() of                   *)
(* src/live/live_trader.py starts an entry cycle, a retry and the daily    *)
(* maintenance, the state file it lives from (src/live/state.py), and the  *)
(* virtual positions, whose only record besides that file is the trades    *)
(* table (src/live/journal.py).                                            *)
(*                                                                         *)
(* An hour has three slots: before LIVE_ENTRY_DELAY_SECONDS, inside the    *)
(* ENTRY_RETRY_WINDOW_MINUTES, and after it.  An iteration happens in one  *)
(* slot.  Iterations on the fast path change nothing here.  Virtual ticket *)
(* t stands for -t, written in base Base (10 in the code).                 *)
(***************************************************************************)
EXTENDS Integers, Sequences, FiniteSets

CONSTANTS
    Symbols,
    Torn,          \* a file that does not parse
    Base,
    HoursPerDay, MaintHour,
    FaultKinds,
    MaxFaults,     \* bound on the number of failures
    MaxPositions,  \* bound on the positions of a behaviour
    MaxClock       \* bound on the slots

AllFaults ==
    { "crash",     \* the process dies
      "account",   \* account() returns None at an entry cycle
      "bars",      \* the bars of a symbol cannot be read in a cycle
      "raise",     \* an exception ends the iteration
      "save",      \* save_state returns False
      "torn",      \* the process dies in the direct write of save_state
      "journal",   \* the database is unreachable for one call
      "popen" }    \* the maintenance process cannot be started

ASSUME LoopAssumption ==
    /\ Base \in Nat \ {0, 1}
    /\ HoursPerDay \in Nat \ {0} /\ MaintHour \in 0..(HoursPerDay - 1)
    /\ FaultKinds \subseteq AllFaults
    /\ {MaxFaults, MaxPositions, MaxClock} \subseteq Nat

VARIABLES
    clock,    \* slots since the start
    pub,      \* symbols whose bar of the last hour is published
    pc,
    mem,      \* state dict of the process
    disk,     \* state/live_state.json
    rows,     \* the trades table, in order of entry time
    retry,    \* _retry_symbols
    scope,    \* symbols the running entry cycle looks at, and has bars of
    todo,     \* symbols it may still enter
    cur,      \* the position being recorded, as a set
    child,    \* is a maintenance process of this process running?
    judged,   \* ghost: symbols whose bar this hour's cycles looked at
    skipped,  \* ghost: symbols whose bar this hour's cycles gave up on
    starts,   \* ghost: maintenance processes started today
    born,     \* ghost: positions so far
    faults

fileVars == <<mem, disk>>
cycleVars == <<retry, scope, todo, cur>>
ghostVars == <<judged, skipped, starts, born>>
vars == <<clock, pub, pc, fileVars, rows, cycleVars, child, ghostVars, faults>>

Slot == clock % 3
Hour == clock \div 3
Day == Hour \div HoursPerDay

\* id tells apart positions that got the same ticket.
Position == [ticket : Nat \ {0}, sym : Symbols, id : 1..MaxPositions]
Row == [ticket : Nat \ {0}, sym : Symbols, id : 1..MaxPositions, open : BOOLEAN]
State == [pos : SUBSET Position, seq : Nat \ {0},
          hour : {-1} \cup 0..MaxClock, maint : {-1} \cup 0..MaxClock]

ASSUME TornAssumption == Torn \notin State

TypeOK ==
    /\ clock \in 0..MaxClock
    /\ pub \subseteq Symbols
    /\ pc \in {"down", "sleep", "manage", "entry", "flip", "blocked", "enter", "record",
              "sched", "save"}
    /\ mem \in State
    /\ disk \in State \cup {Torn}
    /\ rows \in Seq(Row)
    /\ retry \subseteq Symbols /\ scope \subseteq Symbols /\ todo \subseteq Symbols
    /\ cur \subseteq Position
    /\ child \in BOOLEAN
    /\ judged \subseteq Symbols
    /\ skipped \subseteq Symbols
    /\ starts \in Nat
    /\ born \in 0..MaxPositions
    /\ faults \in 0..MaxFaults

DefaultState == [pos |-> {}, seq |-> 1, hour |-> -1, maint |-> -1]

Init ==
    /\ clock = 0
    /\ pub = {}
    /\ pc = "down"
    /\ mem = DefaultState
    /\ disk = DefaultState
    /\ rows = <<>>
    /\ retry = {} /\ scope = {} /\ todo = {} /\ cur = {}
    /\ child = FALSE
    /\ judged = {} /\ skipped = {} /\ starts = 0 /\ born = 0
    /\ faults = 0

Fault(kind) ==
    /\ kind \in FaultKinds
    /\ faults < MaxFaults
    /\ faults' = faults + 1

Held == {p.sym : p \in mem.pos}

-----------------------------------------------------------------------------
(* state.py *)

LoadState == IF disk = Torn THEN DefaultState ELSE disk

\* save_state, when the process lives: the file is replaced, or it is left as it
\* was or as far as the direct write came.
SaveState(state) ==
    \/ disk' = state /\ UNCHANGED faults
    \/ Fault("save") /\ disk' \in {disk, Torn}

\* os.replace has failed five times and the process dies in the direct write.
TornSave ==
    /\ \/ pc = "save"
       \/ pc = "enter" /\ todo # {} /\ born < MaxPositions
    /\ Fault("torn")
    /\ disk' = Torn
    /\ pc' = "down"
    /\ child' = FALSE
    /\ UNCHANGED <<clock, pub, mem, rows, cycleVars, ghostVars>>

-----------------------------------------------------------------------------
(* journal.py *)

\* notes LIKE 'ticket:<t>%'
Prefixes == [u \in 1..MaxPositions |->
                {u} \cup {t \in 1..u : t = u \div Base \/ t = u \div (Base * Base)}]
Matches(p) == {k \in DOMAIN rows : /\ rows[k].sym = p.sym
                                   /\ rows[k].open
                                   /\ p.ticket \in Prefixes[rows[k].ticket]}

\* Slip: the oldest of the rows that match.
RowsOldest(p) == {k \in Matches(p) : \A m \in Matches(p) : k <= m}

\* ORDER BY entry_time DESC LIMIT 1
RowToClose(p) == {k \in Matches(p) : \A m \in Matches(p) : m <= k}

JournalOpen(p) ==
    \/ /\ rows' = Append(rows, [ticket |-> p.ticket, sym |-> p.sym, id |-> p.id, open |-> TRUE])
       /\ UNCHANGED faults
    \/ Fault("journal") /\ UNCHANGED rows

JournalClose(p) ==
    \/ /\ rows' = [k \in DOMAIN rows |->
                      IF k \in RowToClose(p) THEN [rows[k] EXCEPT !.open = FALSE] ELSE rows[k]]
       /\ UNCHANGED faults
    \/ Fault("journal") /\ UNCHANGED rows

-----------------------------------------------------------------------------
(* run *)

\* setup: load, reconcile (which does nothing here) and save.  The symbols to
\* retry were known to the old process only.
Boot ==
    /\ pc = "down"
    /\ mem' = LoadState
    /\ SaveState(mem')
    /\ retry' = {} /\ scope' = {} /\ todo' = {} /\ cur' = {}
    /\ skipped' = IF mem'.hour = Hour THEN skipped \cup retry ELSE skipped
    /\ pc' = "sleep"
    /\ UNCHANGED <<clock, pub, rows, child, judged, starts, born>>

Wake ==
    /\ pc = "sleep"
    /\ pc' = "manage"
    /\ UNCHANGED <<clock, pub, fileVars, rows, cycleVars, child, ghostVars, faults>>

\* An exit of the management cycle, or a flip exit of the entry cycle, which
\* needs the bar: journal_close, then the position is forgotten, whatever the
\* journal said.
Close(p) ==
    /\ \/ pc = "manage"
       \/ pc \in {"flip", "blocked"} /\ p.sym \in scope \cap pub
    /\ p \in mem.pos
    /\ JournalClose(p)
    /\ mem' = [mem EXCEPT !.pos = @ \ {p}]
    /\ UNCHANGED <<clock, pub, pc, disk, cycleVars, child, ghostVars>>

Managed ==
    /\ pc = "manage"
    /\ pc' = "entry"
    /\ UNCHANGED <<clock, pub, fileVars, rows, cycleVars, child, ghostVars, faults>>

FullDue == Slot >= 1 /\ mem.hour < Hour
RetryDue == retry # {} /\ Slot = 1

Marked == IF FullDue THEN [mem EXCEPT !.hour = Hour] ELSE mem

NoCycle ==
    /\ pc = "entry"
    /\ ~FullDue /\ ~RetryDue
    /\ pc' = "sched"
    /\ UNCHANGED <<clock, pub, fileVars, rows, cycleVars, child, ghostVars, faults>>

\* The symbols the cycle is for: all, or the ones to retry.
Scope == IF FullDue THEN Symbols ELSE retry

\* The cycle returns at once, and the hour counts as done.
NoAccount ==
    /\ pc = "entry"
    /\ FullDue \/ RetryDue
    /\ Fault("account")
    /\ mem' = Marked
    /\ skipped' = skipped \cup Scope
    /\ pc' = "sched"
    /\ UNCHANGED <<clock, pub, disk, rows, cycleVars, child, judged, starts, born>>

\* _fresh_frame may have nothing for a symbol, which is then passed over.
ReadBars ==
    \/ scope' = Scope /\ UNCHANGED <<skipped, faults>>
    \/ /\ Fault("bars")
       /\ \E s \in Scope : scope' = Scope \ {s} /\ skipped' = skipped \cup {s}

\* A guard forbids entries: only the flip exits are left to do.
Blocked ==
    /\ pc = "entry"
    /\ FullDue \/ RetryDue
    /\ ReadBars
    /\ pc' = "blocked"
    /\ UNCHANGED <<clock, pub, fileVars, rows, retry, todo, cur, child, judged, starts, born>>

\* open_symbols is taken before the flip exits.
BeginCycle ==
    /\ pc = "entry"
    /\ FullDue \/ RetryDue
    /\ ReadBars
    /\ todo' = (scope' \cap pub) \ Held
    /\ pc' = "flip"
    /\ UNCHANGED <<clock, pub, fileVars, rows, retry, cur, child, judged, starts, born>>

FlipsDone ==
    /\ pc = "flip"
    /\ pc' = "enter"
    /\ UNCHANGED <<clock, pub, fileVars, rows, cycleVars, child, ghostVars, faults>>

\* A virtual fill: the position is in the state and the state is saved ...
Enter(s) ==
    /\ pc = "enter"
    /\ s \in todo
    /\ born < MaxPositions
    /\ LET p == [ticket |-> mem.seq, sym |-> s, id |-> born + 1]
       IN  /\ mem' = [mem EXCEPT !.pos = @ \cup {p}, !.seq = @ + 1]
           /\ cur' = {p}
    /\ SaveState(mem')
    /\ born' = born + 1
    /\ todo' = todo \ {s}
    /\ pc' = "record"
    /\ UNCHANGED <<clock, pub, rows, retry, scope, child, judged, skipped, starts>>

\* ... before it is journaled.
Record ==
    /\ pc = "record"
    /\ \E p \in cur : JournalOpen(p)
    /\ cur' = {}
    /\ pc' = "enter"
    /\ UNCHANGED <<clock, pub, fileVars, retry, scope, todo, child, ghostVars>>

\* Slip: one retry has to do.
NotReadyOnce == IF FullDue THEN scope \ (pub \cup Held) ELSE {}

\* Neither held nor published: left for the next iteration.  The late bar of a
\* held symbol is left for nobody.
NotReady == scope \ (pub \cup Held)

\* The cycle is over.  A blocked one has looked at the open positions only, and
\* leaves nothing to retry.
EndCycle ==
    /\ \/ /\ pc = "enter"
          /\ retry' = NotReady
          /\ judged' = judged \cup (scope \cap pub)
          /\ skipped' = skipped \cup ((scope \cap Held) \ pub)
       \/ /\ pc = "blocked"
          /\ retry' = {}
          /\ judged' = judged \cup (scope \cap pub \cap Held)
          /\ skipped' = skipped \cup scope
    /\ mem' = Marked
    /\ scope' = {} /\ todo' = {}
    /\ pc' = "sched"
    /\ UNCHANGED <<clock, pub, disk, rows, cur, child, starts, born, faults>>

\* Slip: the date is not kept.
MaintainedUndated(state) == state

\* The date is set before the process is started.
Maintained(state) == [state EXCEPT !.maint = Day]

Schedulers ==
    /\ pc = "sched"
    /\ IF Hour % HoursPerDay = MaintHour /\ mem.maint # Day
       THEN /\ mem' = Maintained(mem)
            /\ IF child
               THEN UNCHANGED <<child, starts, faults>>
               ELSE \/ child' = TRUE /\ starts' = starts + 1 /\ UNCHANGED faults
                    \/ Fault("popen") /\ UNCHANGED <<child, starts>>
       ELSE UNCHANGED <<mem, child, starts, faults>>
    /\ pc' = "save"
    /\ UNCHANGED <<clock, pub, disk, rows, cycleVars, judged, skipped, born>>

\* Slip: only positions are worth a save.
ToSaveIfTraded == IF disk # Torn /\ disk.pos = mem.pos THEN disk ELSE mem

ToSave == mem

Save ==
    /\ pc = "save"
    /\ SaveState(ToSave)
    /\ pc' = "sleep"
    /\ UNCHANGED <<clock, pub, mem, rows, cycleVars, child, ghostVars>>

Raise ==
    /\ pc \in {"manage", "entry", "flip", "blocked", "enter", "sched"}
    /\ Fault("raise")
    /\ pc' = "sleep"
    /\ scope' = {} /\ todo' = {}
    /\ UNCHANGED <<clock, pub, fileVars, rows, retry, cur, child, ghostVars>>

Crash ==
    /\ pc # "down"
    /\ Fault("crash")
    /\ pc' = "down"
    /\ child' = FALSE
    /\ UNCHANGED <<clock, pub, fileVars, rows, cycleVars, ghostVars>>

\* SIGINT or SIGTERM: the loop ends after its iteration, with a last save.
Stop ==
    /\ pc = "sleep"
    /\ SaveState(mem)
    /\ pc' = "down"
    /\ child' = FALSE
    /\ UNCHANGED <<clock, pub, mem, rows, cycleVars, ghostVars>>

-----------------------------------------------------------------------------
(* The world *)

Tick ==
    /\ pc \in {"down", "sleep"}
    /\ clock < MaxClock
    /\ clock' = clock + 1
    /\ LET hour == (clock + 1) \div 3
       IN  IF hour = Hour
           THEN UNCHANGED <<pub, judged, skipped, starts>>
           ELSE /\ pub' = {} /\ judged' = {} /\ skipped' = {}
                /\ starts' = IF hour \div HoursPerDay = Day THEN starts ELSE 0
    /\ UNCHANGED <<pc, fileVars, rows, cycleVars, child, born, faults>>

Publish(s) ==
    /\ pc \in {"down", "sleep"}
    /\ s \notin pub
    /\ pub' = pub \cup {s}
    /\ UNCHANGED <<clock, pc, fileVars, rows, cycleVars, child, ghostVars, faults>>

ChildEnds ==
    /\ child
    /\ pc = "sleep"
    /\ child' = FALSE
    /\ UNCHANGED <<clock, pub, pc, fileVars, rows, cycleVars, ghostVars, faults>>

Iteration ==
    \/ Boot \/ Wake \/ Managed \/ NoCycle \/ Blocked \/ BeginCycle \/ FlipsDone
    \/ Record \/ EndCycle \/ Schedulers \/ Save

Next ==
    \/ Iteration
    \/ \E p \in mem.pos : Close(p)
    \/ \E s \in Symbols : Enter(s) \/ Publish(s)
    \/ NoAccount \/ Raise \/ Crash \/ TornSave \/ Stop
    \/ Tick \/ ChildEnds

\* The loop never stops for good: a process that died is started again.
Spec == Init /\ [][Next]_vars /\ WF_vars(Iteration)

-----------------------------------------------------------------------------
(* Properties *)

\* Inside the retry window no published bar is forgotten: a bar that comes late, or
\* whose cycle an exception, a crash or a torn file ended, is looked at by a later
\* iteration.  Given up are only: the bars of a cycle that has no account reading,
\* a symbol whose bars cannot be read, all but the open positions while a guard
\* forbids entries, what is to be retried when the process dies, and the late bar
\* of a symbol that is held.  (live_trader.py run, _entry_cycle "broker hasn't
\* published it yet")
NoBarMissed == pc = "sched" /\ Slot = 1 => pub \subseteq judged \cup skipped

\* As long as nothing fails, every open position is judged with the bar of the hour.
\* It does not hold: only a symbol that is not held is retried when its bar is late.
\* (settings.py "the brain re-judges every open position each cycle")
HeldRejudged == pc = "sched" /\ Slot = 1 /\ faults = 0 => pub \cap Held \subseteq judged

\* A close never closes the journal row of another position, although tickets are
\* matched by their leading digits, rows may be left open by a journal that was
\* down, and a state file that was lost starts the tickets again from the first.
\* (Both failures together do break it.)
ClosesOwnRow ==
    [][\A k \in DOMAIN rows :
           rows[k].open /\ ~rows'[k].open => \E p \in mem.pos \ mem'.pos : p.id = rows[k].id]_vars

\* The maintenance runs once a day, except that a crash or a failed save may have
\* it run again.
MaintainedOnceADay == starts <= 1 + faults

\* The file catches up with the state, whatever failed before.
FileCatchesUp == []<>(disk = mem)
=============================================================================
