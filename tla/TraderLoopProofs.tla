-------------------------- MODULE TraderLoopProofs --------------------------
(***************************************************************************)
(* Proofs about TraderLoop, for all symbols, any base of the tickets, any  *)
(* length of the day, and any failures and any bound on them.              *)
(***************************************************************************)
EXTENDS TraderLoop, TLAPS

USE LoopAssumption

(***************************************************************************)
(* Quotients.  No step needs more of a quotient than its range and that an *)
(* hour does not run backwards.                                            *)
(***************************************************************************)
LEMMA SlotAndHour ==
    ASSUME NEW c \in Nat
    PROVE  /\ c % 3 \in 0..2
           /\ c \div 3 \in 0..c /\ c \div 3 \in Nat
           /\ c \div 3 <= (c + 1) \div 3
BY SMT

LEMMA QuotientRange ==
    ASSUME NEW a \in Nat, NEW b \in Nat \ {0}
    PROVE  a \div b \in 0..a
BY SMTT(30)

LEMMA BoundTypes == MaxFaults \in Nat /\ MaxPositions \in Nat /\ MaxClock \in Nat
OBVIOUS

LEMMA ClockTypes ==
    ASSUME TypeOK
    PROVE  Slot \in 0..2 /\ Hour \in 0..MaxClock /\ Day \in 0..MaxClock
<1>1. clock \in Nat /\ clock \in 0..MaxClock /\ MaxClock \in Nat /\ HoursPerDay \in Nat \ {0}
    BY DEF TypeOK
<1>2. Slot \in 0..2 /\ Hour \in 0..clock
    BY <1>1, SlotAndHour DEF Slot, Hour
<1>3. Hour \in Nat
    BY <1>1, <1>2
<1>4. Day \in 0..Hour
    BY <1>1, <1>3, QuotientRange DEF Day
<1> QED  BY <1>1, <1>2, <1>3, <1>4

(***************************************************************************)
(* Type correctness.                                                       *)
(***************************************************************************)
LEMMA FaultType ==
    ASSUME TypeOK, NEW kind, Fault(kind)
    PROVE  faults' \in 0..MaxFaults
<1>1. faults \in Int /\ 0 <= faults /\ MaxFaults \in Int
    BY DEF TypeOK
<1> QED  BY <1>1 DEF Fault

LEMMA SaveType ==
    ASSUME TypeOK, NEW state \in State, SaveState(state)
    PROVE  disk' \in State \cup {Torn} /\ faults' \in 0..MaxFaults
BY FaultType DEF TypeOK, SaveState

LEMMA JournalOpenType ==
    ASSUME TypeOK, NEW p \in Position, JournalOpen(p)
    PROVE  rows' \in Seq(Row) /\ faults' \in 0..MaxFaults
<1>1. [ticket |-> p.ticket, sym |-> p.sym, id |-> p.id, open |-> TRUE] \in Row
    BY DEF Position, Row
<1>2. rows' \in Seq(Row)
    BY <1>1 DEF JournalOpen, TypeOK
<1>3. faults' \in 0..MaxFaults
    BY FaultType DEF JournalOpen, TypeOK
<1> QED  BY <1>2, <1>3

LEMMA JournalCloseType ==
    ASSUME TypeOK, NEW p \in Position, JournalClose(p)
    PROVE  rows' \in Seq(Row) /\ faults' \in 0..MaxFaults
<1> DEFINE shut == [k \in DOMAIN rows |->
                       IF k \in RowToClose(p) THEN [rows[k] EXCEPT !.open = FALSE] ELSE rows[k]]
<1>1. DOMAIN rows = 1..Len(rows) /\ Len(rows) \in Nat
    BY DEF TypeOK
<1>2. \A k \in DOMAIN rows : rows[k] \in Row
    BY DEF TypeOK
<1>3. \A k \in DOMAIN rows : [rows[k] EXCEPT !.open = FALSE] \in Row
    BY <1>2 DEF Row
<1>4. shut \in [1..Len(rows) -> Row]
    BY <1>1, <1>2, <1>3
<1>5. shut \in Seq(Row)
    BY <1>1, <1>4
<1>6. rows' \in Seq(Row)
    BY <1>5 DEF JournalClose, TypeOK
<1>7. faults' \in 0..MaxFaults
    BY FaultType DEF JournalClose, TypeOK
<1> QED  BY <1>6, <1>7

LEMMA DefaultType == DefaultState \in State
BY DEF DefaultState, State

LEMMA LoadType == ASSUME TypeOK PROVE LoadState \in State
BY DefaultType DEF TypeOK, LoadState

LEMMA MarkedType == ASSUME TypeOK PROVE Marked \in State
<1>1. Hour \in 0..MaxClock
    BY ClockTypes
<1> QED  BY <1>1 DEF TypeOK, Marked, State

LEMMA ReadBarsType ==
    ASSUME TypeOK, ReadBars
    PROVE  scope' \subseteq Symbols /\ skipped' \subseteq Symbols /\ faults' \in 0..MaxFaults
<1>1. scope' \subseteq Symbols
    BY DEF TypeOK, ReadBars, Scope
<1>2. skipped' \subseteq Symbols
    BY DEF TypeOK, ReadBars, Scope
<1>3. faults' \in 0..MaxFaults
    BY FaultType DEF TypeOK, ReadBars
<1> QED  BY <1>1, <1>2, <1>3

LEMMA TypeInit == Init => TypeOK
<1>1. 0 \in 0..MaxClock /\ 0 \in 0..MaxPositions /\ 0 \in 0..MaxFaults
    BY BoundTypes
<1>2. <<>> \in Seq(Row)
    OBVIOUS
<1>3. ASSUME Init
      PROVE  /\ clock \in 0..MaxClock /\ born \in 0..MaxPositions /\ faults \in 0..MaxFaults
             /\ mem \in State /\ disk \in State /\ rows \in Seq(Row) /\ starts \in Nat
             /\ pc = "down"
    BY <1>1, <1>2, <1>3, DefaultType DEF Init
<1>4. ASSUME Init
      PROVE  /\ pub = {} /\ retry = {} /\ scope = {} /\ todo = {} /\ cur = {} /\ judged = {}
             /\ child = FALSE /\ skipped = {}
    BY <1>4 DEF Init
<1> QED  BY <1>3, <1>4 DEF TypeOK

LEMMA TypeStep == TypeOK /\ [Next]_vars => TypeOK'
<1> SUFFICES ASSUME TypeOK, [Next]_vars
             PROVE  TypeOK'
    OBVIOUS
<1> USE DEF fileVars, cycleVars, ghostVars
<1>1. CASE Boot
  <2>1. mem' \in State
      BY <1>1, LoadType DEF Boot
  <2>2. disk' \in State \cup {Torn} /\ faults' \in 0..MaxFaults
      BY <1>1, <2>1, SaveType DEF Boot
  <2>3. skipped' \subseteq Symbols
      BY <1>1 DEF Boot, TypeOK
  <2> QED  BY <1>1, <2>1, <2>2, <2>3 DEF Boot, TypeOK
<1>2. CASE Wake
    BY <1>2 DEF Wake, TypeOK
<1>3. CASE Managed
    BY <1>3 DEF Managed, TypeOK
<1>4. CASE NoCycle
    BY <1>4 DEF NoCycle, TypeOK
<1>5. CASE Blocked
    BY <1>5, ReadBarsType DEF Blocked, TypeOK
<1>6. CASE BeginCycle
    BY <1>6, ReadBarsType DEF BeginCycle, TypeOK
<1>7. CASE FlipsDone
    BY <1>7 DEF FlipsDone, TypeOK
<1>8. CASE Record
  <2>1. PICK p \in cur : JournalOpen(p)
      BY <1>8 DEF Record
  <2>2. p \in Position
      BY DEF TypeOK
  <2>3. rows' \in Seq(Row) /\ faults' \in 0..MaxFaults
      BY <2>1, <2>2, JournalOpenType
  <2> QED  BY <1>8, <2>3 DEF Record, TypeOK
<1>9. CASE EndCycle
    BY <1>9, MarkedType DEF EndCycle, TypeOK, NotReady
<1>10. CASE Schedulers
  <2>1. Day \in 0..MaxClock
      BY ClockTypes
  <2>2. Maintained(mem) \in State
      BY <2>1 DEF Maintained, TypeOK, State
  <2>3. mem' \in State
      BY <1>10, <2>2 DEF Schedulers, TypeOK
  <2>4. child' \in BOOLEAN /\ starts' \in Nat
    <3>1. UNCHANGED <<child, starts>> \/ (child' = TRUE /\ starts' = starts + 1)
        BY <1>10 DEF Schedulers
    <3>2. child' \in BOOLEAN
        BY <3>1, Zenon DEF TypeOK
    <3>3. starts' \in Nat
        BY <3>1 DEF TypeOK
    <3> QED  BY <3>2, <3>3
  <2>5. UNCHANGED faults \/ Fault("popen")
      BY <1>10 DEF Schedulers
  <2>6. faults' \in 0..MaxFaults
      BY <2>5, FaultType DEF TypeOK
  <2> QED  BY <1>10, <2>3, <2>4, <2>6 DEF Schedulers, TypeOK
<1>11. CASE Save
  <2>1. disk' \in State \cup {Torn} /\ faults' \in 0..MaxFaults
      BY <1>11, SaveType DEF Save, ToSave, TypeOK
  <2> QED  BY <1>11, <2>1 DEF Save, TypeOK
<1>12. ASSUME NEW p \in mem.pos, Close(p)
       PROVE  TypeOK'
  <2>1. p \in Position
      BY DEF TypeOK, State
  <2>2. rows' \in Seq(Row) /\ faults' \in 0..MaxFaults
      BY <1>12, <2>1, JournalCloseType DEF Close
  <2>3. mem' \in State
      BY <1>12 DEF Close, TypeOK, State
  <2> QED  BY <1>12, <2>2, <2>3 DEF Close, TypeOK
<1>13. ASSUME NEW s \in Symbols, Enter(s)
       PROVE  TypeOK'
  <2> DEFINE p == [ticket |-> mem.seq, sym |-> s, id |-> born + 1]
  <2>1. born \in 0..MaxPositions /\ born < MaxPositions
      BY <1>13 DEF TypeOK, Enter
  <2>2. p \in Position /\ born + 1 \in 0..MaxPositions
      BY <2>1 DEF TypeOK, State, Position
  <2>3. mem' = [mem EXCEPT !.pos = @ \cup {p}, !.seq = @ + 1] /\ cur' = {p}
      BY <1>13 DEF Enter
  <2>4. mem' \in State
    <3>1. mem.pos \cup {p} \subseteq Position /\ mem.seq + 1 \in Nat \ {0}
        BY <2>2 DEF TypeOK, State
    <3> QED  BY <2>3, <3>1 DEF TypeOK, State
  <2>5. disk' \in State \cup {Torn} /\ faults' \in 0..MaxFaults
      BY <1>13, <2>4, SaveType DEF Enter
  <2> HIDE DEF p
  <2> QED  BY <1>13, <2>2, <2>3, <2>4, <2>5 DEF Enter, TypeOK
<1>14. ASSUME NEW s \in Symbols, Publish(s)
       PROVE  TypeOK'
    BY <1>14 DEF Publish, TypeOK
<1>15. CASE NoAccount
    BY <1>15, MarkedType, FaultType DEF NoAccount, TypeOK, Scope
<1>16. CASE Raise
    BY <1>16, FaultType DEF Raise, TypeOK
<1>17. CASE Crash
    BY <1>17, FaultType DEF Crash, TypeOK
<1>18. CASE TornSave
    BY <1>18, FaultType DEF TornSave, TypeOK
<1>19. CASE Tick
  <2>1. clock' \in 0..MaxClock
    <3>1. clock \in Int /\ 0 <= clock /\ MaxClock \in Int /\ clock < MaxClock
        BY <1>19 DEF Tick, TypeOK
    <3> QED  BY <1>19, <3>1 DEF Tick
  <2>2. CASE (clock + 1) \div 3 = Hour
      BY <1>19, <2>1, <2>2 DEF Tick, TypeOK
  <2>3. CASE (clock + 1) \div 3 # Hour
    <3>1. pub' = {} /\ judged' = {} /\ skipped' = {} /\ starts' \in {starts, 0}
        BY <1>19, <2>3 DEF Tick
    <3>2. pub' \subseteq Symbols /\ judged' \subseteq Symbols /\ skipped' \subseteq Symbols
        BY <3>1
    <3>3. starts' \in Nat
        BY <3>1 DEF TypeOK
    <3> HIDE <3>1
    <3> QED  BY <1>19, <2>1, <3>2, <3>3 DEF Tick, TypeOK
  <2> QED  BY <2>2, <2>3
<1>20. CASE ChildEnds
    BY <1>20 DEF ChildEnds, TypeOK
<1>21. CASE Stop
  <2>1. disk' \in State \cup {Torn} /\ faults' \in 0..MaxFaults
      BY <1>21, SaveType DEF Stop, TypeOK
  <2> QED  BY <1>21, <2>1 DEF Stop, TypeOK
<1>22. CASE UNCHANGED vars
    BY <1>22 DEF vars, TypeOK
<1> QED
    BY <1>1, <1>2, <1>3, <1>4, <1>5, <1>6, <1>7, <1>8, <1>9, <1>10, <1>11, <1>12, <1>13,
       <1>14, <1>15, <1>16, <1>17, <1>18, <1>19, <1>20, <1>21, <1>22
    DEF Next, Iteration

\* Every variable of the loop keeps its type: hours and dates stay in range, the file
\* holds a state or is torn, rows and tickets are well formed.  (live_trader.py run,
\* state.py, journal.py)
THEOREM TypeCorrect == Spec => []TypeOK
BY TypeInit, TypeStep, PTL DEF Spec


(***************************************************************************)
(* The maintenance.  A second start on one day needs a date that was lost, *)
(* and the date is lost only by a process that died before the file had    *)
(* it, or by a file that was torn: each has used up a failure.             *)
(***************************************************************************)
Dated(state) == state.maint = Day

MaintInv ==
    /\ TypeOK
    /\ starts <= 1 + faults
    /\ pc # "down" /\ ~Dated(mem) => starts <= faults
    /\ pc = "down" /\ (disk = Torn \/ ~Dated(disk)) => starts <= faults

LEMMA Slack ==
    ASSUME NEW a \in Nat, NEW b \in Nat, NEW c \in Nat, b <= c
    PROVE  /\ a <= b => a <= 1 + c /\ a <= c
           /\ a <= 1 + b => a <= 1 + c
           /\ a <= b => a + 1 <= 1 + c
           /\ a <= 1 + b /\ c = b + 1 => a <= c
           /\ 0 <= c /\ 0 <= 1 + c
OBVIOUS

LEMMA FaultsNeverForgotten ==
    ASSUME TypeOK, [Next]_vars
    PROVE  faults' \in Nat /\ faults <= faults'
<1>0. faults \in Nat
    BY BoundTypes DEF TypeOK
<1>1. UNCHANGED faults \/ faults' = faults + 1
    BY DEF Next, Iteration, Boot, Wake, Managed, NoCycle, Blocked, BeginCycle, FlipsDone, Record,
           EndCycle, Schedulers, Save, Close, Enter, Publish, NoAccount, Raise, Crash, TornSave,
           Stop, Tick, ChildEnds, ReadBars, SaveState, JournalOpen, JournalClose, Fault, vars
<1> QED  BY <1>0, <1>1

\* A step that neither starts a maintenance nor touches its date, the process or the
\* clock.
LEMMA MaintQuiet ==
    ASSUME MaintInv, [Next]_vars,
           clock' = clock, starts' = starts,
           pc # "down", pc' # "down", mem'.maint = mem.maint
    PROVE  starts' <= 1 + faults' /\ (~Dated(mem)' => starts' <= faults')
<1>1. faults' \in Nat /\ faults <= faults' /\ starts \in Nat /\ faults \in Nat
    BY FaultsNeverForgotten, BoundTypes DEF MaintInv, TypeOK
<1>2. Day' = Day
    BY DEF Day, Hour
<1>3. starts' <= 1 + faults'
    BY <1>1, Slack DEF MaintInv
<1>4. ASSUME ~Dated(mem)'
      PROVE  starts' <= faults'
  <2>1. starts <= faults
      BY <1>2, <1>4 DEF MaintInv, Dated
  <2> QED  BY <1>1, <2>1, Slack
<1> QED  BY <1>3, <1>4

LEMMA MaintStep == MaintInv /\ [Next]_vars => MaintInv'
<1> SUFFICES ASSUME MaintInv, [Next]_vars
             PROVE  MaintInv'
    OBVIOUS
<1> USE DEF fileVars, cycleVars, ghostVars
<1>t. TypeOK'
    BY TypeStep DEF MaintInv
<1>n. /\ faults \in Nat /\ faults' \in Nat /\ faults <= faults'
      /\ starts \in Nat /\ starts' \in Nat
    BY <1>t, FaultsNeverForgotten, BoundTypes DEF MaintInv, TypeOK
<1>d. clock' = clock => Day' = Day
    BY DEF Day, Hour
<1>q. ASSUME clock' = clock, starts' = starts, pc # "down", pc' # "down",
             mem'.maint = mem.maint
      PROVE  MaintInv'
    BY <1>q, <1>t, MaintQuiet DEF MaintInv
<1>1. CASE Boot
  <2>1. clock' = clock /\ starts' = starts /\ pc = "down" /\ pc' = "sleep" /\ mem' = LoadState
      BY <1>1 DEF Boot
  <2>2. CASE disk = Torn
    <3>1. starts <= faults
        BY <2>1, <2>2 DEF MaintInv
    <3>2. starts' <= 1 + faults' /\ starts' <= faults'
        BY <1>n, <2>1, <3>1, Slack
    <3> QED  BY <1>t, <3>2 DEF MaintInv
  <2>3. CASE disk # Torn
    <3>1. mem' = disk
        BY <2>1, <2>3 DEF LoadState
    <3>2. starts' <= 1 + faults'
        BY <1>n, <2>1, Slack DEF MaintInv
    <3>3. ASSUME ~Dated(mem)'
          PROVE  starts' <= faults'
      <4>1. starts <= faults
          BY <1>d, <2>1, <3>1, <3>3 DEF MaintInv, Dated
      <4> QED  BY <1>n, <2>1, <4>1, Slack
    <3> QED  BY <1>t, <2>1, <3>2, <3>3 DEF MaintInv
  <2> QED  BY <2>2, <2>3
<1>2. CASE Wake \/ Managed \/ NoCycle \/ Blocked \/ BeginCycle \/ FlipsDone \/ Record
    BY <1>2, <1>q DEF Wake, Managed, NoCycle, Blocked, BeginCycle, FlipsDone, Record
<1>3. CASE EndCycle
  <2>1. mem'.maint = mem.maint
      BY <1>3 DEF EndCycle, Marked, MaintInv, TypeOK, State
  <2> QED  BY <1>3, <1>q, <2>1 DEF EndCycle
<1>4. CASE Schedulers
  <2>1. clock' = clock /\ pc = "sched" /\ pc' = "save"
      BY <1>4 DEF Schedulers
  <2>2. CASE mem' = mem /\ starts' = starts
      BY <1>q, <2>1, <2>2
  <2>3. CASE mem' = Maintained(mem) /\ mem.maint # Day
    <3>1. starts <= faults
        BY <2>1, <2>3 DEF MaintInv, Dated
    <3>2. starts' \in {starts, starts + 1}
        BY <1>4 DEF Schedulers
    <3>3. mem'.maint = Day
        BY <2>3 DEF Maintained, MaintInv, TypeOK, State
    <3>4. starts' <= 1 + faults'
      <4>1. starts <= 1 + faults' /\ starts + 1 <= 1 + faults'
          BY <1>n, <3>1, Slack
      <4> QED  BY <3>2, <4>1, Zenon
    <3>5. Dated(mem)'
        BY <1>d, <2>1, <3>3 DEF Dated
    <3> QED  BY <1>t, <2>1, <3>4, <3>5 DEF MaintInv
  <2> QED  BY <1>4, <2>2, <2>3 DEF Schedulers
<1>5. CASE Save
    BY <1>5, <1>q DEF Save
<1>6. ASSUME NEW p \in mem.pos, Close(p)
      PROVE  MaintInv'
  <2>1. mem'.maint = mem.maint
      BY <1>6 DEF Close, MaintInv, TypeOK, State
  <2> QED  BY <1>6, <1>q, <2>1 DEF Close
<1>7. ASSUME NEW s \in Symbols, Enter(s)
      PROVE  MaintInv'
  <2>1. mem'.maint = mem.maint
      BY <1>7 DEF Enter, MaintInv, TypeOK, State
  <2> QED  BY <1>7, <1>q, <2>1 DEF Enter
<1>8. CASE (\E s \in Symbols : Publish(s)) \/ ChildEnds
  <2>1. UNCHANGED <<clock, pc, mem, disk, starts, faults>>
      BY <1>8 DEF Publish, ChildEnds
  <2> QED  BY <1>t, <1>d, <2>1 DEF MaintInv, Dated
<1>9. CASE NoAccount
  <2>1. mem'.maint = mem.maint
      BY <1>9 DEF NoAccount, Marked, MaintInv, TypeOK, State
  <2> QED  BY <1>9, <1>q, <2>1 DEF NoAccount
<1>10. CASE Raise
    BY <1>10, <1>q DEF Raise
<1>11. CASE Crash \/ TornSave
  <2>1. starts' = starts /\ faults' = faults + 1 /\ pc' = "down"
      BY <1>11 DEF Crash, TornSave, Fault
  <2>2. starts' <= faults' /\ starts' <= 1 + faults'
      BY <1>n, <2>1, Slack DEF MaintInv
  <2> QED  BY <1>t, <2>2 DEF MaintInv
<1>12. CASE Tick
  <2>1. /\ UNCHANGED <<pc, mem, disk, faults>>
        /\ clock' = clock + 1
        /\ starts' = starts \/ starts' = 0
      BY <1>12 DEF Tick
  <2>2. CASE starts' = 0
    <3>1. 0 <= faults' /\ 0 <= 1 + faults'
        BY <1>n, Slack, Zenon
    <3> QED  BY <1>t, <2>2, <3>1 DEF MaintInv
  <2>3. CASE starts' # 0
    <3>1. Day' = Day
        BY <1>12, <2>3 DEF Tick, Day, Hour
    <3> QED  BY <1>t, <2>1, <2>3, <3>1 DEF MaintInv, Dated
  <2> QED  BY <2>2, <2>3
<1>13. CASE Stop
  <2>1. UNCHANGED <<clock, mem, starts>> /\ pc = "sleep" /\ pc' = "down" /\ SaveState(mem)
      BY <1>13 DEF Stop
  <2>2. starts' <= 1 + faults'
      BY <1>n, <2>1, Slack DEF MaintInv
  <2>3. CASE disk' = mem
    <3>1. ASSUME ~Dated(mem)
          PROVE  starts' <= faults'
      <4>1. starts <= faults
          BY <2>1, <3>1 DEF MaintInv
      <4> QED  BY <1>n, <2>1, <4>1, Slack
    <3>2. disk' = Torn \/ ~Dated(disk)' => starts' <= faults'
      <4>1. CASE ~Dated(mem)
          BY <3>1, <4>1
      <4>2. CASE Dated(mem)
        <5>1. disk' # Torn
            BY <2>3, TornAssumption DEF MaintInv, TypeOK
        <5> QED  BY <1>d, <2>1, <2>3, <4>2, <5>1 DEF Dated
      <4> QED  BY <4>1, <4>2
    <3> QED  BY <1>t, <2>1, <2>2, <3>2 DEF MaintInv
  <2>4. CASE Fault("save")
    <3>1. faults' = faults + 1
        BY <2>4 DEF Fault
    <3>2. starts' <= faults'
        BY <1>n, <2>1, <3>1, Slack DEF MaintInv
    <3> QED  BY <1>t, <2>1, <2>2, <3>2 DEF MaintInv
  <2> QED  BY <2>1, <2>3, <2>4 DEF SaveState
<1>14. CASE UNCHANGED vars
  <2>1. UNCHANGED <<clock, pc, mem, disk, starts, faults>>
      BY <1>14 DEF vars
  <2> QED  BY <1>t, <1>d, <2>1 DEF MaintInv, Dated
<1> QED
    BY <1>1, <1>2, <1>3, <1>4, <1>5, <1>6, <1>7, <1>8, <1>9, <1>10, <1>11, <1>12, <1>13, <1>14
    DEF Next, Iteration

LEMMA MaintInit == Init => MaintInv
<1> SUFFICES ASSUME Init PROVE MaintInv
    OBVIOUS
<1>1. TypeOK
    BY TypeInit
<1>2. starts = 0 /\ faults = 0
    BY DEF Init
<1> QED  BY <1>1, <1>2 DEF MaintInv

\* Whatever fails, and in whatever order, the maintenance of a day is started once
\* more than something failed at most.  (live_trader.py _schedulers)
THEOREM MaintenanceIsRare == Spec => []MaintainedOnceADay
<1>1. MaintInv => MaintainedOnceADay
    BY DEF MaintInv, MaintainedOnceADay
<1> QED  BY <1>1, MaintInit, MaintStep, PTL DEF Spec

(***************************************************************************)
(* The entry cycles.  Once the hour is marked every symbol is judged, still *)
(* to be retried or given up, for the process and for one started from the *)
(* file; and a cycle works through all the symbols it is for.              *)
(***************************************************************************)
InCycle == pc \in {"flip", "blocked", "enter", "record"}

Known(state) == state.hour = Hour => Symbols \subseteq judged \cup retry \cup skipped

BarInv ==
    /\ TypeOK
    /\ mem.hour <= Hour /\ Known(mem)
    /\ disk # Torn => disk.hour <= Hour /\ Known(disk)
    /\ InCycle => Scope \subseteq scope \cup skipped /\ (FullDue \/ RetryDue)
    /\ NoBarMissed

LEMMA StateHour == ASSUME NEW state \in State PROVE state.hour \in Int
<1>1. state.hour \in {-1} \cup 0..MaxClock
    BY DEF State
<1>2. \A x \in 0..MaxClock : x \in Int
    BY BoundTypes
<1> QED  BY <1>1, <1>2

LEMMA BarInit == Init => BarInv
<1> SUFFICES ASSUME Init PROVE BarInv
    OBVIOUS
<1>1. TypeOK
    BY TypeInit
<1>2. Hour \in Nat
    BY <1>1, ClockTypes, BoundTypes
<1>3. /\ mem = DefaultState /\ disk = DefaultState /\ pc = "down"
      /\ DefaultState.hour = -1
    BY DEF Init, DefaultState
<1>4. -1 # Hour /\ -1 <= Hour
    BY <1>2
<1> QED  BY <1>1, <1>3, <1>4 DEF BarInv, InCycle, NoBarMissed, Known

\* The file a save leaves is the state that was saved, the old file or torn.
LEMMA SavedHour ==
    ASSUME NEW state, SaveState(state), state.hour <= Hour, Known(state),
           disk # Torn => disk.hour <= Hour /\ Known(disk)
    PROVE  disk' # Torn => disk'.hour <= Hour /\ Known(disk')
BY DEF SaveState

LEMMA MarkedHour ==
    ASSUME TypeOK, mem.hour <= Hour
    PROVE  /\ Marked.hour <= Hour
           /\ FullDue => Marked.hour = Hour
           /\ ~FullDue => Marked = mem
<1>1. Hour \in Int
    BY ClockTypes, BoundTypes
<1> QED  BY <1>1 DEF Marked, TypeOK, State

LEMMA BarStep == BarInv /\ [Next]_vars => BarInv'
<1> SUFFICES ASSUME BarInv, [Next]_vars
             PROVE  BarInv'
    OBVIOUS
<1> USE DEF fileVars, cycleVars, ghostVars
<1>t. TypeOK /\ TypeOK'
    BY TypeStep DEF BarInv
<1>h. /\ Hour \in Nat /\ Hour' \in Nat /\ mem.hour \in Int /\ mem'.hour \in Int
      /\ mem.hour <= Hour
  <2>1. Hour \in 0..MaxClock
      BY <1>t, ClockTypes
  <2>2. clock' \in Nat
      BY <1>t, BoundTypes DEF TypeOK
  <2>3. Hour' \in Nat
      BY <2>2, SlotAndHour DEF Hour
  <2>4. mem.hour \in Int /\ mem'.hour \in Int
      BY <1>t, StateHour DEF TypeOK
  <2>5. Hour \in Nat
      BY <2>1, BoundTypes
  <2> QED  BY <2>3, <2>4, <2>5 DEF BarInv
<1>s. clock' = clock => Hour' = Hour /\ Slot' = Slot
    BY DEF Hour, Slot
<1>q. ASSUME UNCHANGED <<clock, disk, judged, retry, skipped>>, mem'.hour = mem.hour,
             pc' # "sched",
             InCycle' => Scope \subseteq scope' \cup skipped /\ (FullDue \/ RetryDue)
      PROVE  BarInv'
  <2>1. Hour' = Hour /\ Slot' = Slot
      BY <1>q, <1>s
  <2>2. (FullDue <=> FullDue') /\ (RetryDue <=> RetryDue') /\ Scope' = Scope
      BY <1>q, <2>1 DEF FullDue, RetryDue, Scope
  <2>3. Known(mem)' /\ (disk' # Torn => Known(disk)')
      BY <1>q, <2>1 DEF BarInv, Known
  <2> QED  BY <1>q, <1>t, <2>1, <2>2, <2>3 DEF BarInv, NoBarMissed
<1>1. CASE Boot
  <2>1. /\ UNCHANGED <<clock, pub, judged>>
        /\ pc = "down" /\ pc' = "sleep" /\ mem' = LoadState /\ SaveState(mem')
        /\ skipped' = IF mem'.hour = Hour THEN skipped \cup retry ELSE skipped
      BY <1>1 DEF Boot
  <2>2. mem'.hour <= Hour /\ Known(mem')
    <3>1. CASE disk = Torn
        BY <1>h, <2>1, <3>1 DEF LoadState, DefaultState, Known
    <3>2. CASE disk # Torn
        BY <2>1, <3>2 DEF LoadState, BarInv
    <3> QED  BY <3>1, <3>2
  <2>3. disk' # Torn => disk'.hour <= Hour /\ disk'.hour \in {mem'.hour, -1}
      BY <2>1, <2>2 DEF SaveState, LoadState, BarInv
  <2>4. Hour' = Hour
      BY <1>s, <2>1
  <2>5. mem'.hour = Hour => Symbols \subseteq judged' \cup retry' \cup skipped'
      BY <2>1, <2>2 DEF Known
  <2>6. Known(mem)' /\ (disk' # Torn => Known(disk)')
      BY <1>h, <2>3, <2>4, <2>5 DEF Known
  <2> QED  BY <1>t, <2>1, <2>2, <2>3, <2>4, <2>6 DEF BarInv, InCycle, NoBarMissed
<1>2. CASE Wake \/ Managed
    BY <1>2, <1>q DEF Wake, Managed, InCycle
<1>3. CASE NoCycle
  <2>1. /\ UNCHANGED <<clock, pub, mem, disk, judged, retry, skipped>>
        /\ pc = "entry" /\ pc' = "sched" /\ ~FullDue /\ ~RetryDue
      BY <1>3 DEF NoCycle
  <2>2. Hour' = Hour /\ Slot' = Slot
      BY <1>s, <2>1
  <2>3. ASSUME Slot = 1
        PROVE  pub \subseteq judged \cup skipped
    <3>1. mem.hour = Hour /\ retry = {}
        BY <1>h, <2>1, <2>3 DEF FullDue, RetryDue
    <3> QED  BY <1>t, <3>1 DEF BarInv, Known, TypeOK
  <2>4. Known(mem)' /\ (disk' # Torn => Known(disk)')
      BY <2>1, <2>2 DEF BarInv, Known
  <2> QED  BY <1>t, <2>1, <2>2, <2>3, <2>4 DEF BarInv, NoBarMissed, InCycle
<1>4. CASE Blocked \/ BeginCycle
  <2>1. /\ UNCHANGED <<clock, disk, mem, judged, retry>> /\ pc = "entry"
        /\ pc' \in {"blocked", "flip"} /\ (FullDue \/ RetryDue)
      BY <1>4 DEF Blocked, BeginCycle
  <2>2. Scope \subseteq scope' \cup skipped' /\ skipped \subseteq skipped'
      BY <1>4 DEF Blocked, BeginCycle, ReadBars
  <2>3. /\ Hour' = Hour /\ Slot' = Slot
        /\ (FullDue \/ RetryDue)' /\ Scope' = Scope
      BY <1>s, <2>1 DEF FullDue, RetryDue, Scope
  <2>4. Known(mem)' /\ (disk' # Torn => Known(disk)')
      BY <2>1, <2>2, <2>3 DEF BarInv, Known
  <2> QED  BY <1>t, <2>1, <2>2, <2>3, <2>4 DEF BarInv, NoBarMissed
<1>5. CASE FlipsDone \/ Record
    BY <1>5, <1>q DEF FlipsDone, Record, BarInv, InCycle
<1>6. CASE EndCycle
  <2>1. /\ UNCHANGED <<clock, pub, disk>> /\ mem' = Marked
        /\ pc \in {"enter", "blocked"} /\ pc' = "sched"
      BY <1>6 DEF EndCycle
  <2>2. Scope \subseteq scope \cup skipped /\ (FullDue \/ RetryDue)
      BY <2>1 DEF BarInv, InCycle
  <2>3. /\ scope \subseteq judged' \cup retry' \cup skipped' /\ pub \cap retry' = {}
        /\ judged \subseteq judged' /\ skipped \subseteq skipped'
      BY <1>6 DEF EndCycle, NotReady
  <2>4. Symbols \subseteq judged' \cup retry' \cup skipped'
    <3>1. CASE FullDue
        BY <2>2, <2>3, <3>1 DEF Scope
    <3>2. CASE ~FullDue
      <4>1. RetryDue /\ retry = Scope
          BY <2>2, <3>2 DEF Scope
      <4>2. mem.hour = Hour
          BY <1>h, <3>2, <4>1 DEF FullDue, RetryDue
      <4>3. Symbols \subseteq judged \cup retry \cup skipped
          BY <4>2 DEF BarInv, Known
      <4> QED  BY <2>2, <2>3, <4>1, <4>3
    <3> QED  BY <3>1, <3>2
  <2>5. Marked.hour <= Hour /\ Hour' = Hour
      BY <1>t, <1>h, <1>s, <2>1, MarkedHour
  <2>6. pub \subseteq judged' \cup skipped'
      BY <1>t, <2>3, <2>4 DEF TypeOK
  <2> QED  BY <1>t, <2>1, <2>4, <2>5, <2>6 DEF BarInv, Known, NoBarMissed, InCycle
<1>7. CASE Schedulers
  <2>1. mem'.hour = mem.hour
      BY <1>7, <1>t DEF Schedulers, Maintained, TypeOK, State
  <2> QED  BY <1>7, <1>q, <2>1 DEF Schedulers, InCycle
<1>8. CASE Save
  <2>1. /\ UNCHANGED <<clock, pub, mem, ghostVars, retry>> /\ SaveState(mem)
        /\ pc = "save" /\ pc' = "sleep"
      BY <1>8 DEF Save, ToSave
  <2>2. disk' # Torn => disk'.hour <= Hour /\ Known(disk')
      BY <1>h, <2>1, SavedHour DEF BarInv
  <2>3. Known(mem)' /\ (disk' # Torn => Known(disk)') /\ Hour' = Hour
      BY <1>s, <2>1, <2>2 DEF BarInv, Known
  <2> QED  BY <1>t, <1>h, <2>1, <2>2, <2>3 DEF BarInv, InCycle, NoBarMissed
<1>9. ASSUME NEW p \in mem.pos, Close(p)
      PROVE  BarInv'
  <2>1. mem'.hour = mem.hour
      BY <1>9, <1>t DEF Close, TypeOK, State
  <2>2. UNCHANGED <<clock, disk, judged, retry, skipped, pc, scope>>
        /\ pc \in {"manage", "flip", "blocked"}
      BY <1>9 DEF Close
  <2> QED  BY <1>q, <2>1, <2>2 DEF BarInv, InCycle
<1>10. ASSUME NEW s \in Symbols, Enter(s)
       PROVE  BarInv'
  <2>1. mem'.hour = mem.hour
      BY <1>10, <1>t DEF Enter, TypeOK, State
  <2>2. /\ UNCHANGED <<clock, judged, retry, skipped, scope>>
        /\ pc = "enter" /\ pc' = "record" /\ SaveState(mem')
      BY <1>10 DEF Enter
  <2>3. disk' # Torn => disk'.hour <= Hour /\ Known(disk')
    <3>1. mem'.hour <= Hour /\ Known(mem')
        BY <1>h, <2>1 DEF BarInv, Known
    <3> QED  BY <2>2, <3>1, SavedHour DEF BarInv
  <2>4. Hour' = Hour /\ Slot' = Slot
      BY <1>s, <2>2
  <2>5. (FullDue <=> FullDue') /\ (RetryDue <=> RetryDue') /\ Scope' = Scope
      BY <2>1, <2>2, <2>4 DEF FullDue, RetryDue, Scope
  <2>6. Known(mem)' /\ (disk' # Torn => Known(disk)')
      BY <2>1, <2>2, <2>3, <2>4 DEF BarInv, Known
  <2>7. (Scope \subseteq scope \cup skipped) /\ (FullDue \/ RetryDue)
      BY <2>2 DEF BarInv, InCycle
  <2> QED  BY <1>t, <1>h, <2>1, <2>2, <2>3, <2>4, <2>5, <2>6, <2>7
           DEF BarInv, InCycle, NoBarMissed
<1>11. CASE (\E s \in Symbols : Publish(s)) \/ ChildEnds
    BY <1>11, <1>q DEF Publish, ChildEnds, InCycle
<1>12. CASE NoAccount
  <2>1. /\ UNCHANGED <<clock, disk, pub, judged, retry>> /\ mem' = Marked
        /\ skipped' = skipped \cup Scope
        /\ pc' = "sched" /\ (FullDue \/ RetryDue)
      BY <1>12 DEF NoAccount
  <2>2. Marked.hour <= Hour /\ Hour' = Hour
      BY <1>t, <1>h, <1>s, <2>1, MarkedHour
  <2>3. /\ Symbols \subseteq judged \cup retry \cup skipped'
        /\ Symbols \subseteq judged \cup skipped'
    <3>1. CASE FullDue
        BY <2>1, <3>1 DEF Scope
    <3>2. CASE ~FullDue
      <4>1. RetryDue /\ retry = Scope
          BY <2>1, <3>2 DEF Scope
      <4>2. mem.hour = Hour
          BY <1>h, <3>2, <4>1 DEF FullDue, RetryDue
      <4> QED  BY <2>1, <4>1, <4>2 DEF BarInv, Known
    <3> QED  BY <3>1, <3>2
  <2> QED  BY <1>t, <2>1, <2>2, <2>3 DEF BarInv, InCycle, NoBarMissed, Known, TypeOK
<1>13. CASE Raise
    BY <1>13, <1>q DEF Raise, InCycle
<1>14. CASE Crash \/ TornSave
  <2>1. /\ UNCHANGED <<clock, mem, judged, retry, skipped>> /\ pc' = "down"
        /\ disk' \in {disk, Torn}
      BY <1>14 DEF Crash, TornSave
  <2>2. Known(mem)' /\ (disk' # Torn => Known(disk)') /\ Hour' = Hour
      BY <1>s, <2>1 DEF BarInv, Known
  <2> QED  BY <1>t, <2>1, <2>2 DEF BarInv, InCycle, NoBarMissed
<1>15. CASE Tick
  <2>1. UNCHANGED <<pc, mem, disk, retry>> /\ pc \in {"down", "sleep"} /\ clock' = clock + 1
      BY <1>15 DEF Tick
  <2>2. CASE Hour' = Hour
    <3>1. UNCHANGED <<judged, skipped>>
        BY <1>15, <2>2 DEF Tick, Hour
    <3>2. Known(mem)' /\ (disk' # Torn => Known(disk)')
        BY <2>1, <2>2, <3>1 DEF BarInv, Known
    <3> QED  BY <1>t, <2>1, <2>2, <3>1, <3>2 DEF BarInv, InCycle, NoBarMissed
  <2>3. CASE Hour' # Hour
    <3>1. Hour < Hour'
      <4>1. clock \in Nat
          BY <1>t, BoundTypes DEF TypeOK
      <4>2. Hour <= Hour'
          BY <2>1, <4>1, SlotAndHour DEF Hour
      <4> QED  BY <1>h, <2>3, <4>2
    <3>2. mem'.hour # Hour' /\ mem'.hour <= Hour'
        BY <1>h, <2>1, <3>1
    <3>3. disk' # Torn => disk'.hour # Hour' /\ disk'.hour <= Hour'
      <4> SUFFICES ASSUME disk # Torn PROVE disk.hour # Hour' /\ disk.hour <= Hour'
          BY <2>1
      <4>1. disk.hour \in Int /\ disk.hour <= Hour
          BY <1>t, StateHour DEF BarInv, TypeOK
      <4> QED  BY <1>h, <3>1, <4>1
    <3> QED  BY <1>t, <2>1, <3>2, <3>3 DEF BarInv, Known, InCycle, NoBarMissed
  <2> QED  BY <2>2, <2>3
<1>16. CASE Stop
  <2>1. UNCHANGED <<clock, mem, judged, retry, skipped>> /\ pc' = "down" /\ SaveState(mem)
      BY <1>16 DEF Stop
  <2>2. disk' # Torn => disk'.hour <= Hour /\ Known(disk')
      BY <1>h, <2>1, SavedHour DEF BarInv
  <2>3. Known(mem)' /\ (disk' # Torn => Known(disk)') /\ Hour' = Hour
      BY <1>s, <2>1, <2>2 DEF BarInv, Known
  <2> QED  BY <1>t, <1>h, <2>1, <2>2, <2>3 DEF BarInv, InCycle, NoBarMissed
<1>17. CASE UNCHANGED vars
  <2>1. UNCHANGED <<clock, pc, pub, mem, disk, judged, retry, skipped, scope>>
      BY <1>17 DEF vars
  <2>2. /\ (InCycle' <=> InCycle) /\ Hour' = Hour /\ Slot' = Slot
        /\ (FullDue <=> FullDue') /\ (RetryDue <=> RetryDue') /\ Scope' = Scope
      BY <1>s, <2>1 DEF InCycle, FullDue, RetryDue, Scope
  <2>3. Known(mem)' /\ (disk' # Torn => Known(disk)')
      BY <2>1, <2>2 DEF BarInv, Known
  <2> QED  BY <1>t, <2>1, <2>2, <2>3 DEF BarInv, NoBarMissed
<1> QED
    BY <1>1, <1>2, <1>3, <1>4, <1>5, <1>6, <1>7, <1>8, <1>9, <1>10, <1>11, <1>12, <1>13,
       <1>14, <1>15, <1>16, <1>17
    DEF Next, Iteration

\* Inside the retry window no published bar is forgotten, with any number of
\* exceptions, crashes, torn files and unreachable databases: each is looked at, or is
\* one of those the cycles give up on knowingly, the late bar of a held symbol among
\* them.  (live_trader.py run, _entry_cycle)
THEOREM EveryBarIsJudged == Spec => []NoBarMissed
<1>1. BarInv => NoBarMissed
    BY DEF BarInv
<1> QED  BY <1>1, BarInit, BarStep, PTL DEF Spec

(***************************************************************************)
(* Journal rows.  As long as no state file is lost, a ticket is used once, *)
(* and while a position is remembered no later one is opened in its        *)
(* symbol: so the rows its ticket is a prefix of are its own.              *)
(***************************************************************************)
FilesKept == {"save", "torn"} \cap FaultKinds = {}

RowInv ==
    /\ TypeOK
    /\ disk # Torn
    /\ mem.pos \subseteq disk.pos /\ mem.seq = disk.seq /\ disk.seq = born + 1
    /\ \A p, q \in disk.pos : p.sym = q.sym \/ p.ticket = q.ticket => p = q
    /\ \A p \in disk.pos : p.ticket < disk.seq
    /\ \A k \in DOMAIN rows : rows[k].ticket < disk.seq
    /\ \A p \in disk.pos, k \in DOMAIN rows :
           /\ rows[k].ticket = p.ticket => rows[k].id = p.id
           /\ rows[k].sym = p.sym => rows[k].ticket <= p.ticket
    /\ pc \in {"flip", "enter", "record"} => todo \cap Held = {}
    /\ pc = "record" => cur \subseteq disk.pos

LEMMA RowInit == FilesKept /\ Init => RowInv
<1> SUFFICES ASSUME FilesKept, Init PROVE RowInv
    OBVIOUS
<1>1. TypeOK
    BY TypeInit
<1>2. /\ mem = DefaultState /\ disk = DefaultState /\ rows = <<>> /\ pc = "down" /\ born = 0
      /\ DefaultState.pos = {} /\ DefaultState.seq = 1
    BY DEF Init, DefaultState
<1>3. disk # Torn
    BY <1>2, DefaultType, TornAssumption
<1> QED  BY <1>1, <1>2, <1>3 DEF RowInv

\* What the invariant says of the rows and positions alone.
RowsApart(pos, seq, table) ==
    /\ \A p, q \in pos : p.sym = q.sym \/ p.ticket = q.ticket => p = q
    /\ \A p \in pos : p.ticket < seq
    /\ \A k \in DOMAIN table : table[k].ticket < seq
    /\ \A p \in pos, k \in DOMAIN table :
           /\ table[k].ticket = p.ticket => table[k].id = p.id
           /\ table[k].sym = p.sym => table[k].ticket <= p.ticket

LEMMA RowInvParts ==
    RowInv <=> /\ TypeOK
               /\ disk # Torn
               /\ mem.pos \subseteq disk.pos /\ mem.seq = disk.seq /\ disk.seq = born + 1
               /\ RowsApart(disk.pos, disk.seq, rows)
               /\ pc \in {"flip", "enter", "record"} => todo \cap Held = {}
               /\ pc = "record" => cur \subseteq disk.pos
BY DEF RowInv, RowsApart

\* Fewer positions are still apart.
LEMMA FewerApart ==
    ASSUME NEW pos, NEW less, less \subseteq pos, NEW seq, NEW table, RowsApart(pos, seq, table)
    PROVE  RowsApart(less, seq, table)
BY DEF RowsApart

\* A save that works makes the file the state.
LEMMA SaveKept ==
    ASSUME FilesKept, NEW state, SaveState(state)
    PROVE  disk' = state
BY DEF FilesKept, SaveState, Fault

\* The matching by leading digits finds only the position's own row.
LEMMA OwnRowOnly ==
    ASSUME RowInv, NEW p \in disk.pos, NEW k \in Matches(p)
    PROVE  rows[k].id = p.id
<1>1. /\ k \in DOMAIN rows /\ rows[k].sym = p.sym /\ p.ticket \in Prefixes[rows[k].ticket]
    BY DEF Matches
<1>2. rows[k] \in Row /\ p \in Position
    BY <1>1 DEF RowInv, TypeOK, State
<1>3. rows[k].ticket \in Nat \ {0} /\ p.ticket \in Nat \ {0}
    BY <1>2 DEF Row, Position
<1>4. rows[k].ticket < born + 1 /\ born \in Nat /\ born <= MaxPositions /\ MaxPositions \in Nat
    BY <1>1, BoundTypes DEF RowInv, TypeOK
<1>5. rows[k].ticket \in 1..MaxPositions
    BY <1>3, <1>4
<1>6. p.ticket \in {rows[k].ticket} \cup (1..rows[k].ticket)
    BY <1>1, <1>5 DEF Prefixes
<1>7. p.ticket <= rows[k].ticket
    BY <1>3, <1>6
<1>8. rows[k].ticket <= p.ticket
    BY <1>1 DEF RowInv
<1>9. rows[k].ticket = p.ticket
    BY <1>3, <1>7, <1>8
<1> QED  BY <1>1, <1>9 DEF RowInv

\* A close changes no row but its own, and only its being open.
LEMMA ClosedRows ==
    ASSUME TypeOK, NEW p, JournalClose(p)
    PROVE  /\ DOMAIN rows' = DOMAIN rows
           /\ \A k \in DOMAIN rows : /\ rows'[k].ticket = rows[k].ticket
                                     /\ rows'[k].id = rows[k].id /\ rows'[k].sym = rows[k].sym
                                     /\ k \notin Matches(p) => rows'[k] = rows[k]
<1>1. \A k \in DOMAIN rows : rows[k] \in Row
    BY DEF TypeOK
<1>2. CASE rows' = rows
    BY <1>2
<1>3. CASE rows' = [k \in DOMAIN rows |->
                      IF k \in RowToClose(p) THEN [rows[k] EXCEPT !.open = FALSE] ELSE rows[k]]
  <2>1. DOMAIN rows' = DOMAIN rows
      BY <1>3
  <2>2. ASSUME NEW k \in DOMAIN rows
        PROVE  /\ rows'[k].ticket = rows[k].ticket
               /\ rows'[k].id = rows[k].id /\ rows'[k].sym = rows[k].sym
               /\ k \notin Matches(p) => rows'[k] = rows[k]
    <3>1. rows'[k] = IF k \in RowToClose(p) THEN [rows[k] EXCEPT !.open = FALSE] ELSE rows[k]
        BY <1>3
    <3>2. RowToClose(p) \subseteq Matches(p)
        BY DEF RowToClose
    <3> QED  BY <1>1, <3>1, <3>2 DEF Row
  <2> QED  BY <2>1, <2>2
<1> QED  BY <1>2, <1>3 DEF JournalClose

\* A new row is the last one.
LEMMA OpenedRows ==
    ASSUME TypeOK, NEW p, JournalOpen(p)
    PROVE  \/ rows' = rows
           \/ /\ DOMAIN rows' = DOMAIN rows \cup {Len(rows) + 1}
              /\ Len(rows) + 1 \notin DOMAIN rows
              /\ \A k \in DOMAIN rows : rows'[k] = rows[k]
              /\ rows'[Len(rows) + 1].ticket = p.ticket /\ rows'[Len(rows) + 1].sym = p.sym
              /\ rows'[Len(rows) + 1].id = p.id
<1> DEFINE row == [ticket |-> p.ticket, sym |-> p.sym, id |-> p.id, open |-> TRUE]
<1>1. rows \in Seq(Row)
    BY DEF TypeOK
<1>2. CASE rows' = Append(rows, row)
  <2>1. Len(rows) \in Nat /\ DOMAIN rows = 1..Len(rows)
      BY <1>1
  <2>2. DOMAIN rows' = 1..(Len(rows) + 1) /\ rows'[Len(rows) + 1] = row
        /\ \A k \in 1..Len(rows) : rows'[k] = rows[k]
      BY <1>1, <1>2
  <2>3. 1..(Len(rows) + 1) = (1..Len(rows)) \cup {Len(rows) + 1}
        /\ Len(rows) + 1 \notin 1..Len(rows)
      BY <2>1
  <2>4. row.ticket = p.ticket /\ row.sym = p.sym /\ row.id = p.id
      OBVIOUS
  <2> HIDE DEF row
  <2> QED  BY <2>1, <2>2, <2>3, <2>4
<1> QED  BY <1>2 DEF JournalOpen

LEMMA RowStep == FilesKept /\ RowInv /\ [Next]_vars => RowInv'
<1> SUFFICES ASSUME FilesKept, RowInv, [Next]_vars
             PROVE  RowInv'
    OBVIOUS
<1> USE DEF fileVars, cycleVars, ghostVars
<1>t. TypeOK /\ TypeOK'
    BY TypeStep DEF RowInv
<1>p. /\ disk # Torn /\ disk \in State /\ mem \in State
      /\ mem.pos \subseteq disk.pos /\ mem.seq = disk.seq /\ disk.seq = born + 1
      /\ RowsApart(disk.pos, disk.seq, rows)
      /\ pc \in {"flip", "enter", "record"} => todo \cap Held = {}
      /\ pc = "record" => cur \subseteq disk.pos
    BY <1>t, RowInvParts DEF TypeOK
\* A step that leaves the positions, the tickets and the rows alone.
<1>q. ASSUME UNCHANGED <<disk, rows, born>>, mem'.pos = mem.pos, mem'.seq = mem.seq,
             pc' \in {"flip", "enter"} => \/ pc = pc' /\ todo' = todo
                                          \/ pc = "flip" /\ todo' = todo
                                          \/ todo' \cap Held = {},
             pc' = "record" => pc = "record" /\ UNCHANGED <<cur, todo>>
      PROVE  RowInv'
  <2>1. Held' = Held
      BY <1>q DEF Held
  <2>2. pc' \in {"flip", "enter", "record"} => todo' \cap Held' = {}
      BY <1>p, <1>q, <2>1
  <2>3. (RowsApart(disk.pos, disk.seq, rows))'
      BY <1>p, <1>q
  <2> QED  BY <1>t, <1>p, <1>q, <2>2, <2>3 DEF RowInv, RowsApart
\* A step after which file and state are the same.
<1>s. ASSUME UNCHANGED <<rows, born>>, disk' = mem', mem' \in {mem, disk},
             pc' \notin {"flip", "enter", "record"}
      PROVE  RowInv'
  <2>1. disk'.pos \subseteq disk.pos /\ disk'.seq = disk.seq /\ disk' # Torn
      BY <1>p, <1>s, TornAssumption
  <2>2. RowsApart(disk'.pos, disk'.seq, rows)
      BY <1>p, <2>1, FewerApart
  <2>3. (RowsApart(disk.pos, disk.seq, rows))'
      BY <1>s, <2>2
  <2>4. mem'.pos \subseteq disk'.pos /\ mem'.seq = disk'.seq /\ disk'.seq = born' + 1
      BY <1>p, <1>s, <2>1
  <2> QED  BY <1>t, <1>s, <2>1, <2>3, <2>4 DEF RowInv, RowsApart
<1>1. CASE Boot
  <2>1. mem' = disk /\ SaveState(mem') /\ pc' = "sleep" /\ UNCHANGED <<rows, born>>
      BY <1>1, <1>p DEF Boot, LoadState
  <2> QED  BY <1>s, <2>1, SaveKept
<1>2. CASE Save \/ Stop
  <2>1. mem' = mem /\ SaveState(mem) /\ pc' \in {"sleep", "down"} /\ UNCHANGED <<rows, born>>
      BY <1>2 DEF Save, ToSave, Stop
  <2> QED  BY <1>s, <2>1, SaveKept
<1>3. CASE \/ Wake \/ Managed \/ NoCycle \/ Blocked \/ FlipsDone \/ Raise \/ Crash \/ Tick
           \/ (\E s \in Symbols : Publish(s)) \/ ChildEnds
  <2>1. UNCHANGED <<mem, disk, rows, born>> /\ pc' # "record" /\ pc' # "flip"
        /\ (pc' = "enter" => pc = "flip" /\ todo' = todo)
      BY <1>3 DEF Wake, Managed, NoCycle, Blocked, FlipsDone, Raise, Crash, Tick, Publish, ChildEnds
  <2> QED  BY <1>q, <2>1
<1>4. CASE BeginCycle
  <2>1. UNCHANGED <<mem, disk, rows, born>> /\ pc' = "flip" /\ todo' = (scope' \cap pub) \ Held
      BY <1>4 DEF BeginCycle
  <2> QED  BY <1>q, <2>1
<1>5. CASE NoAccount \/ EndCycle
  <2>1. Marked.pos = mem.pos /\ Marked.seq = mem.seq
      BY <1>p DEF Marked, State
  <2>2. UNCHANGED <<disk, rows, born>> /\ mem' = Marked /\ pc' = "sched"
      BY <1>5 DEF NoAccount, EndCycle
  <2> QED  BY <1>q, <2>1, <2>2
<1>6. CASE Schedulers
  <2>1. mem'.pos = mem.pos /\ mem'.seq = mem.seq
      BY <1>6, <1>p DEF Schedulers, Maintained, State
  <2>2. UNCHANGED <<disk, rows, born>> /\ pc' = "save"
      BY <1>6 DEF Schedulers
  <2> QED  BY <1>q, <2>1, <2>2
<1>7. CASE Record
  <2>1. PICK p \in cur : JournalOpen(p)
      BY <1>7 DEF Record
  <2>2. /\ UNCHANGED <<mem, disk, born, todo>> /\ pc = "record" /\ pc' = "enter"
      BY <1>7 DEF Record
  <2>3. p \in disk.pos
      BY <1>p, <2>1, <2>2
  <2>4. RowsApart(disk.pos, disk.seq, rows')
    <3>1. CASE rows' = rows
        BY <1>p, <3>1
    <3>2. CASE rows' # rows
      <4>1. /\ DOMAIN rows' = DOMAIN rows \cup {Len(rows) + 1}
            /\ \A k \in DOMAIN rows : rows'[k] = rows[k]
            /\ rows'[Len(rows) + 1].ticket = p.ticket /\ rows'[Len(rows) + 1].sym = p.sym
            /\ rows'[Len(rows) + 1].id = p.id
          BY <1>t, <2>1, <3>2, OpenedRows
      <4>2. \A q \in disk.pos : q.sym = p.sym \/ q.ticket = p.ticket => q = p
          BY <1>p, <2>3 DEF RowsApart
      <4>3. p.ticket < disk.seq /\ p.ticket <= p.ticket
        <5>1. p.ticket \in Nat
            BY <1>p, <2>3 DEF State, Position
        <5> QED  BY <1>p, <2>3, <5>1 DEF RowsApart
      <4> QED  BY <1>p, <2>3, <4>1, <4>2, <4>3 DEF RowsApart
    <3> QED  BY <3>1, <3>2
  <2>5. (RowsApart(disk.pos, disk.seq, rows))'
      BY <2>2, <2>4
  <2>6. Held' = Held
      BY <2>2 DEF Held
  <2> QED  BY <1>t, <1>p, <2>2, <2>5, <2>6 DEF RowInv, RowsApart
<1>8. ASSUME NEW p \in mem.pos, Close(p)
      PROVE  RowInv'
  <2>1. /\ mem'.pos = mem.pos \ {p} /\ mem'.seq = mem.seq /\ UNCHANGED <<disk, born, pc, todo, cur>>
        /\ JournalClose(p) /\ pc # "record"
      BY <1>8, <1>p DEF Close, State
  <2>2. /\ DOMAIN rows' = DOMAIN rows
        /\ \A k \in DOMAIN rows : /\ rows'[k].ticket = rows[k].ticket
                                  /\ rows'[k].id = rows[k].id /\ rows'[k].sym = rows[k].sym
      BY <1>t, <2>1, ClosedRows
  <2>3. RowsApart(disk.pos, disk.seq, rows')
      BY <1>p, <2>2 DEF RowsApart
  <2>4. (RowsApart(disk.pos, disk.seq, rows))'
      BY <2>1, <2>3
  <2>5. Held' \subseteq Held
      BY <2>1 DEF Held
  <2> QED  BY <1>t, <1>p, <2>1, <2>4, <2>5 DEF RowInv, RowsApart
<1>9. ASSUME NEW s \in Symbols, Enter(s)
      PROVE  RowInv'
  <2> DEFINE p == [ticket |-> mem.seq, sym |-> s, id |-> born + 1]
  <2>1. /\ mem' = [mem EXCEPT !.pos = @ \cup {p}, !.seq = @ + 1] /\ cur' = {p}
        /\ SaveState(mem') /\ born' = born + 1 /\ todo' = todo \ {s} /\ s \in todo
        /\ pc = "enter" /\ pc' = "record" /\ rows' = rows
      BY <1>9 DEF Enter
  <2>2. p.ticket = mem.seq /\ p.sym = s /\ p.id = born + 1
      OBVIOUS
  <2> HIDE DEF p
  <2>3. mem'.pos = mem.pos \cup {p} /\ mem'.seq = mem.seq + 1 /\ disk' = mem'
      BY <1>p, <2>1, SaveKept DEF State
  <2>4. mem.seq \in Nat /\ born \in Nat /\ \A q \in disk.pos : q.ticket \in Nat
      BY <1>p, <1>t, BoundTypes DEF TypeOK, State, Position
  <2>5. \A k \in DOMAIN rows : rows[k].ticket \in Nat
    <3>1. \A k \in DOMAIN rows : rows[k] \in Row
        BY <1>t DEF TypeOK
    <3> QED  BY <3>1 DEF Row
  <2>6. RowsApart(mem.pos, mem.seq, rows)
      BY <1>p, FewerApart
  <2>7. \A q \in mem.pos : q.sym # s
      BY <1>p, <2>1 DEF Held
  <2>8. RowsApart(mem.pos \cup {p}, mem.seq + 1, rows)
    <3>1. \A q \in mem.pos : q.ticket < mem.seq /\ q.ticket \in Nat
        BY <1>p, <2>4, <2>6 DEF RowsApart
    <3>2. \A k \in DOMAIN rows : rows[k].ticket < mem.seq
        BY <2>6 DEF RowsApart
    <3>3. \A a, b \in mem.pos \cup {p} : a.sym = b.sym \/ a.ticket = b.ticket => a = b
        BY <2>2, <2>4, <2>6, <2>7, <3>1 DEF RowsApart
    <3>4. \A a \in mem.pos \cup {p} : a.ticket < mem.seq + 1
        BY <2>2, <2>4, <3>1
    <3>5. \A k \in DOMAIN rows : rows[k].ticket < mem.seq + 1
        BY <2>4, <2>5, <3>2
    <3>6. \A k \in DOMAIN rows : /\ rows[k].ticket = p.ticket => rows[k].id = p.id
                                 /\ rows[k].sym = p.sym => rows[k].ticket <= p.ticket
        BY <2>2, <2>4, <2>5, <3>2
    <3> QED  BY <2>6, <3>3, <3>4, <3>5, <3>6 DEF RowsApart
  <2>9. (RowsApart(disk.pos, disk.seq, rows))'
      BY <2>1, <2>3, <2>8
  <2>10. todo' \cap Held' = {}
    <3>1. Held' = Held \cup {s}
        BY <2>2, <2>3 DEF Held
    <3> QED  BY <1>p, <2>1, <3>1
  <2>11. disk' # Torn
      BY <1>t, <2>3, TornAssumption DEF TypeOK
  <2>12. disk'.seq = born' + 1
      BY <1>p, <2>1, <2>3
  <2> QED  BY <1>t, <2>1, <2>3, <2>9, <2>10, <2>11, <2>12 DEF RowInv, RowsApart
<1>10. CASE TornSave
    BY <1>10 DEF TornSave, FilesKept, Fault
<1>11. CASE UNCHANGED vars
  <2>1. UNCHANGED <<mem, disk, rows, born, pc, todo, cur>>
      BY <1>11 DEF vars
  <2> QED  BY <1>q, <2>1
<1> QED
    BY <1>1, <1>2, <1>3, <1>4, <1>5, <1>6, <1>7, <1>8, <1>9, <1>10, <1>11
    DEF Next, Iteration

\* Only a close shuts rows, and then its own.
LEMMA RowShut ==
    ASSUME RowInv, [Next]_vars, NEW k \in DOMAIN rows, rows[k].open, ~rows'[k].open
    PROVE  \E p \in mem.pos \ mem'.pos : p.id = rows[k].id
<1> USE DEF fileVars, cycleVars, ghostVars
<1>t. TypeOK
    BY DEF RowInv
<1>1. ASSUME NEW p \in mem.pos, Close(p)
      PROVE  \E q \in mem.pos \ mem'.pos : q.id = rows[k].id
  <2>1. JournalClose(p) /\ mem'.pos = mem.pos \ {p}
      BY <1>t, <1>1 DEF Close, TypeOK, State
  <2>2. k \in Matches(p)
    <3>1. rows'[k] # rows[k]
        OBVIOUS
    <3> QED  BY <1>t, <2>1, <3>1, ClosedRows
  <2>3. p \in disk.pos
      BY DEF RowInv
  <2> QED  BY <2>1, <2>2, <2>3, OwnRowOnly
<1>2. CASE Record
  <2>1. PICK p \in cur : JournalOpen(p)
      BY <1>2 DEF Record
  <2>2. rows'[k] = rows[k]
      BY <1>t, <2>1, OpenedRows
  <2> QED  BY <2>2
<1>3. CASE UNCHANGED rows
    BY <1>3
<1>4. \/ \E p \in mem.pos : Close(p)
      \/ Record
      \/ UNCHANGED rows
    BY DEF Next, Iteration, Boot, Wake, Managed, NoCycle, Blocked, BeginCycle, FlipsDone,
           EndCycle, Schedulers, Save, Enter, Publish, NoAccount, Raise, Crash, TornSave,
           Stop, Tick, ChildEnds, vars
<1> QED  BY <1>1, <1>2, <1>3, <1>4

\* A close never shuts the row of another position, with any number of crashes,
\* exceptions and lost journal writes, as long as every save of the state file works.
\* The run shows that one failed save is no danger either; a lost file and a lost
\* journal write together are.  (journal.py close_trade, state.py save_state)
THEOREM ClosesAreOwn == ASSUME FilesKept PROVE Spec => ClosesOwnRow
<1> DEFINE OwnStep == \A k \in DOMAIN rows :
               rows[k].open /\ ~rows'[k].open => \E p \in mem.pos \ mem'.pos : p.id = rows[k].id
<1>1. RowInv /\ [Next]_vars => [OwnStep]_vars
    BY RowShut
<1>2. RowInv /\ [Next]_vars => RowInv'
    BY RowStep
<1>3. Init => RowInv
    BY RowInit
<1> QED  BY <1>1, <1>2, <1>3, PTL DEF Spec, ClosesOwnRow
=============================================================================
