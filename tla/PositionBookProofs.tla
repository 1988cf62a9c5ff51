------------------------- MODULE PositionBookProofs -------------------------
(***************************************************************************)
(* Proofs about PositionBook, for every set of tickets and symbols and any *)
(* number of failures.  Layout: a type invariant, then one inductive       *)
(* invariant per argument, each proved action by action.                   *)
(***************************************************************************)
EXTENDS PositionBook, FiniteSetTheorems, TLAPS

(***************************************************************************)
(* 1. Type correctness.                                                    *)
(***************************************************************************)
TypeInv ==
    /\ TypeOK
    /\ pc \in {"record", "journal"} => cur \in Tickets

\* finalize_close and the state file's records stay well typed.
LEMMA FinalizedType ==
    ASSUME NEW m \in StateRecord, NEW t \in Tickets
    PROVE  Finalized(m, t) \in StateRecord
  BY DEF Finalized, StateRecord

LEMMA InitType == Init => TypeInv
  BY FaultAssumption DEF Init, TypeInv, TypeOK, DefaultState, StateRecord

LEMMA NextType == TypeInv /\ [Next]_vars => TypeInv'
<1> SUFFICES ASSUME TypeInv, [Next]_vars PROVE TypeInv'
  OBVIOUS
<1> USE FaultAssumption DEF TypeInv, TypeOK, ClosedRow, NoFault, Fault, brokerVars, loopVars
<1>1. ASSUME NEW t \in Tickets, BrokerClose(t) PROVE TypeInv'
  BY <1>1 DEF BrokerClose, Broker
<1>2. CASE Boot
  BY <1>2 DEF Boot
<1>3. CASE ReadPositions
  BY <1>3 DEF ReadPositions, Broker, AfterReconcile
<1>4. ASSUME NEW t \in Tickets, Settle(t) PROVE TypeInv'
  BY <1>4, FinalizedType DEF Settle, FinalizeClose, CloseRow, Summary
<1>5. CASE SettleDone
  BY <1>5 DEF SettleDone
<1>6. CASE Adopt
  BY <1>6 DEF Adopt, AfterReconcile, StateRecord
<1>7. ASSUME NEW t \in Tickets, CloseAll(t) PROVE TypeInv'
  <2>1. mem' \in StateRecord
    BY <1>7, FinalizedType DEF CloseAll, FinalizeClose
  <2>2. journal' \in [Tickets -> {"absent", "open"} \cup ClosedRow] /\ faults' \in 0..MaxFaults
    BY <1>7 DEF CloseAll, FinalizeClose, CloseRow
  <2> QED
    BY <1>7, <2>1, <2>2 DEF CloseAll
<1>8. CASE EndManage \/ EndRejudge \/ EndEntry \/ ManageDue
  BY <1>8 DEF EndManage, EndRejudge, EndEntry, ManageDue, Enterable
<1>9. ASSUME NEW s \in Symbols, Skip(s) PROVE TypeInv'
  BY <1>9 DEF Skip
<1>10. ASSUME NEW s \in Symbols, NEW t \in Tickets, Order(s, t) PROVE TypeInv'
  BY <1>10 DEF Order
<1>11. CASE Record
  BY <1>11 DEF Record, SaveState, StateRecord
<1>12. CASE JournalOpen
  BY <1>12 DEF JournalOpen
<1>13. CASE Save \/ Stop
  BY <1>13 DEF Save, Stop, SaveState
<1>14. CASE CycleError \/ Crash
  BY <1>14 DEF CycleError, Crash
<1>15. CASE UNCHANGED vars
  BY <1>15 DEF vars
<1> QED
  BY <1>1, <1>2, <1>3, <1>4, <1>5, <1>6, <1>7, <1>8, <1>9, <1>10, <1>11,
     <1>12, <1>13, <1>14, <1>15
     DEF Next, Reconcile, Manage, Enter, Outage

\* Every variable keeps its type, whatever fails.
THEOREM TypeCorrect == Spec => []TypeOK
<1>1. TypeInv => TypeOK
  BY DEF TypeInv
<1> QED
  BY <1>1, InitType, NextType, PTL DEF Spec

(***************************************************************************)
(* 2. A close is booked at most once.  The invariant follows a ticket      *)
(* through the loop: nothing in reconcile's snapshot is booked yet, what   *)
(* reconcile takes for closed away is closed, and memory is never behind   *)
(* the file.                                                               *)
(***************************************************************************)
NoBlindReads == "blind" \notin FaultKinds

BookedRight(m) ==
    \A t \in Tickets : m.booked[t] > 0 =>
        m.booked[t] = 1 /\ deals[t] = "out" /\ t \notin m.pos

Held == mem.pos \cup disk.pos \cup snap

CountInv ==
    /\ BookedRight(mem)
    /\ BookedRight(disk)
    /\ \A t \in Tickets : disk.booked[t] > 0 => mem.booked[t] > 0
    /\ \A t \in Held : deals[t] # "none"
    /\ pc \in {"settle", "adopt"} => \A t \in snap : mem.booked[t] = 0
    /\ pc = "settle" => \A t \in mem.pos \ snap : deals[t] = "out"
    /\ pc = "record" => deals[cur] # "none" /\ mem.booked[cur] = 0
    /\ \A t \in Tickets : journal[t] \in ClosedRow => deals[t] = "out"

\* finalize_close adds one to one ticket and drops it from the book.
LEMMA FinalizedFacts ==
    ASSUME NEW m \in StateRecord, NEW t \in Tickets
    PROVE  /\ Finalized(m, t).pos = m.pos \ {t}
           /\ Finalized(m, t).booked[t] = m.booked[t] + 1
           /\ \A u \in Tickets \ {t} : Finalized(m, t).booked[u] = m.booked[u]
  BY DEF Finalized, StateRecord

LEMMA InitCount == Init => CountInv
  BY DEF Init, CountInv, BookedRight, Held, DefaultState, ClosedRow

\* Finalizing a tracked ticket that is closed afterwards keeps the invariant.
LEMMA FinalizeCount ==
    ASSUME TypeInv, CountInv, NEW t \in mem.pos, NEW src \in ClosedRow,
           FinalizeClose(t, src), deals' \in [Tickets -> {"none", "in", "out"}],
           deals'[t] = "out",
           \A u \in Tickets : deals[u] # "none" => deals'[u] # "none",
           \A u \in Tickets : deals[u] = "out" => deals'[u] = "out",
           UNCHANGED <<disk, loopVars>>,
           pc \in {"settle", "adopt"} => t \notin snap,
           pc # "record"
    PROVE  CountInv'
<1> USE DEF TypeInv, TypeOK, CountInv, FinalizeClose, loopVars
<1>1. t \in Tickets /\ mem \in StateRecord /\ disk \in StateRecord
  BY DEF StateRecord
<1>2. /\ mem'.pos = mem.pos \ {t}
      /\ mem'.booked[t] = mem.booked[t] + 1
      /\ \A u \in Tickets \ {t} : mem'.booked[u] = mem.booked[u]
  BY <1>1, FinalizedFacts
<1>3. mem.booked \in [Tickets -> Nat] /\ disk.booked \in [Tickets -> Nat]
      /\ mem.pos \subseteq Tickets /\ disk.pos \subseteq Tickets
  BY <1>1 DEF StateRecord
<1>4. mem.booked[t] = 0
  BY <1>1, <1>3 DEF BookedRight
<1>5. BookedRight(mem)' /\ BookedRight(disk)'
  BY <1>1, <1>2, <1>3, <1>4 DEF BookedRight
<1>6. \A u \in Tickets : disk'.booked[u] > 0 => mem'.booked[u] > 0
  BY <1>1, <1>2, <1>3
<1>7. \A u \in Held' : deals'[u] # "none"
  BY <1>2, <1>3 DEF Held
<1>8. pc' \in {"settle", "adopt"} => \A u \in snap' : mem'.booked[u] = 0
  BY <1>2
<1>9. pc' = "settle" => \A u \in mem'.pos \ snap' : deals'[u] = "out"
  BY <1>2, <1>3
<1>10. \A u \in Tickets : journal'[u] \in ClosedRow => deals'[u] = "out"
  BY <1>1 DEF CloseRow
<1> QED
  BY <1>5, <1>6, <1>7, <1>8, <1>9, <1>10

\* A saved state is the state in memory, so the file inherits its facts.
LEMMA SaveCount ==
    ASSUME TypeInv, CountInv, SaveState(mem),
           pc' \notin {"settle", "adopt", "record"},
           UNCHANGED <<brokerVars, journal, mem, snap>>
    PROVE  CountInv'
  BY DEF TypeInv, TypeOK, CountInv, SaveState, BookedRight, Held, brokerVars

LEMMA NextCount == NoBlindReads /\ TypeInv /\ CountInv /\ [Next]_vars => CountInv'
<1> SUFFICES ASSUME NoBlindReads, TypeInv, CountInv, [Next]_vars PROVE CountInv'
  OBVIOUS
<1>0. /\ mem.booked \in [Tickets -> Nat] /\ disk.booked \in [Tickets -> Nat]
      /\ mem.pos \subseteq Tickets /\ disk.pos \subseteq Tickets
  BY DEF TypeInv, TypeOK, StateRecord
<1>1. ASSUME NEW t \in Tickets, BrokerClose(t) PROVE CountInv'
  BY <1>0, <1>1 DEF TypeInv, TypeOK, CountInv, BrokerClose, BookedRight, Held, loopVars
<1>2. CASE Boot
  BY <1>0, <1>2 DEF CountInv, Boot, BookedRight, Held, brokerVars
<1>3. CASE ReadPositions
  BY <1>0, <1>3 DEF TypeInv, TypeOK, CountInv, ReadPositions, NoBlindReads, Fault,
     Broker, AfterReconcile, BookedRight, Held, brokerVars
<1>4. ASSUME NEW t \in Tickets, Settle(t) PROVE CountInv'
  <2>1. t \in mem.pos /\ t \notin snap /\ deals[t] = "out" /\ pc = "settle"
    BY <1>4 DEF Settle, Missing, CountInv
  <2>2. Summary(t) \in ClosedRow
    BY DEF Summary, ClosedRow
  <2> QED
    BY <1>4, <2>1, <2>2, FinalizeCount DEF Settle, brokerVars, TypeInv, TypeOK
<1>5. CASE SettleDone
  BY <1>5 DEF CountInv, SettleDone, BookedRight, Held, brokerVars
<1>6. CASE Adopt
  <2>1. mem'.booked = mem.booked /\ mem'.pos = mem.pos \cup snap
    BY <1>6 DEF Adopt, TypeInv, TypeOK, StateRecord
  <2> QED
    BY <1>0, <1>6, <2>1 DEF CountInv, Adopt, AfterReconcile, BookedRight, Held, brokerVars
<1>7. ASSUME NEW t \in Tickets, CloseAll(t) PROVE CountInv'
  <2>1. t \in mem.pos /\ pc \notin {"settle", "adopt", "record"}
    BY <1>7 DEF CloseAll
  <2>2. /\ deals' \in [Tickets -> {"none", "in", "out"}] /\ deals'[t] = "out"
        /\ \A u \in Tickets : deals[u] # "none" => deals'[u] # "none"
        /\ \A u \in Tickets : deals[u] = "out" => deals'[u] = "out"
    BY <1>7 DEF CloseAll, TypeInv, TypeOK
  <2>3. "truth" \in ClosedRow
    BY DEF ClosedRow
  <2> QED
    BY <1>7, <2>1, <2>2, <2>3, FinalizeCount DEF CloseAll
<1>8. CASE EndManage \/ EndRejudge \/ EndEntry \/ ManageDue
  BY <1>8 DEF CountInv, EndManage, EndRejudge, EndEntry, ManageDue, BookedRight, Held,
     brokerVars
<1>9. ASSUME NEW s \in Symbols, Skip(s) PROVE CountInv'
  BY <1>9 DEF CountInv, Skip, BookedRight, Held, brokerVars
<1>10. ASSUME NEW s \in Symbols, NEW t \in Tickets, Order(s, t) PROVE CountInv'
  BY <1>0, <1>10 DEF TypeInv, TypeOK, CountInv, Order, Unissued, BookedRight, Held,
     ClosedRow
<1>11. CASE Record
  <2>1. mem'.booked = mem.booked /\ mem'.pos = mem.pos \cup {cur} /\ cur \in Tickets
    BY <1>11 DEF Record, TypeInv, TypeOK, StateRecord
  <2>2. disk' = mem' \/ disk' = disk
    BY <1>11 DEF Record, SaveState
  <2>3. deals' = deals /\ journal' = journal /\ snap' = snap /\ pc' = "journal"
    BY <1>11 DEF Record, brokerVars
  <2>4. deals[cur] # "none" /\ mem.booked[cur] = 0
    BY <1>11 DEF Record, CountInv
  <2>5. BookedRight(mem)'
    BY <1>0, <2>1, <2>3, <2>4 DEF CountInv, BookedRight
  <2>6. BookedRight(disk)'
    BY <1>0, <2>2, <2>3, <2>5 DEF CountInv, BookedRight
  <2>7. \A t \in Tickets : disk'.booked[t] > 0 => mem'.booked[t] > 0
    BY <1>0, <2>1, <2>2 DEF CountInv
  <2>8. \A t \in Held' : deals'[t] # "none"
    BY <1>0, <2>1, <2>2, <2>3, <2>4 DEF CountInv, Held
  <2> QED
    BY <2>3, <2>5, <2>6, <2>7, <2>8 DEF CountInv
<1>12. CASE JournalOpen
  BY <1>12 DEF CountInv, JournalOpen, BookedRight, Held, ClosedRow, brokerVars, TypeInv, TypeOK
<1>13. CASE Save \/ Stop
  BY <1>13, SaveCount DEF Save, Stop
<1>14. CASE CycleError \/ Crash
  BY <1>14 DEF CountInv, CycleError, Crash, BookedRight, Held, brokerVars
<1>15. CASE UNCHANGED vars
  BY <1>15 DEF CountInv, BookedRight, Held, vars, loopVars
<1> QED
  BY <1>1, <1>2, <1>3, <1>4, <1>5, <1>6, <1>7, <1>8, <1>9, <1>10, <1>11,
     <1>12, <1>13, <1>14, <1>15
     DEF Next, Reconcile, Manage, Enter, Outage

LEMMA CountInvariant ==
    ASSUME NoBlindReads
    PROVE  Spec => [](TypeInv /\ CountInv)
<1>1. (TypeInv /\ CountInv) /\ [Next]_vars => (TypeInv /\ CountInv)'
  BY NextType, NextCount
<1> QED
  BY <1>1, InitType, InitCount, PTL DEF Spec

\* As long as a failed read of the broker is not taken for an empty broker,
\* no close is booked twice, none is booked before it happened, and a booked
\* ticket is no longer managed: for every order of crashes, failed saves, lost
\* replies and closes.
THEOREM BookedAtMostOnce ==
    ASSUME NoBlindReads
    PROVE  Spec => []CountedOnce
<1>1. TypeInv /\ CountInv => CountedOnce
  BY DEF CountInv, CountedOnce, BookedRight, Closed
<1> QED
  BY <1>1, CountInvariant, PTL

\* Under the same condition, a closed row stands for a closed position.
THEOREM ClosedRowsAreTrue ==
    ASSUME NoBlindReads
    PROVE  Spec => []ClosedRowIsClosed
<1>1. TypeInv /\ CountInv => ClosedRowIsClosed
  BY DEF CountInv, ClosedRowIsClosed, Closed
<1> QED
  BY <1>1, CountInvariant, PTL

(***************************************************************************)
(* 3. The bookkeeping in the state file implements TradeLedger.            *)
(***************************************************************************)
\* Steps that leave deal history and state file alone leave the ledger alone.
LEMMA QuietStep ==
    ASSUME UNCHANGED <<deals, disk>> PROVE UNCHANGED Ledger!vars
  BY DEF Ledger!vars, Broker, Closed

\* A close at the broker is the ledger's Close.
LEMMA CloseStep ==
    ASSUME TypeInv, NEW t \in Broker,
           deals' = [deals EXCEPT ![t] = "out"], UNCHANGED disk
    PROVE  Ledger!Close(t)
<1>1. t \in Tickets /\ deals[t] = "in" /\ deals \in [Tickets -> {"none", "in", "out"}]
  BY DEF Broker, TypeInv, TypeOK
<1>2. Broker' = Broker \ {t}
  BY <1>1 DEF Broker
<1>3. Closed' = Closed \cup {t}
  BY <1>1 DEF Closed
<1> QED
  BY <1>2, <1>3 DEF Ledger!Close

\* A save of a state dict that has the bookkeeping of mem is a Count step, or
\* nothing.
LEMMA SaveStep ==
    ASSUME TypeInv, CountInv, NEW m, m.booked = mem.booked,
           SaveState(m), UNCHANGED deals
    PROVE  (\E S \in SUBSET Tickets : Ledger!Count(S)) \/ UNCHANGED Ledger!vars
<1> DEFINE S == {t \in Tickets : mem.booked[t] > 0 /\ disk.booked[t] = 0}
<1>1. mem.booked \in [Tickets -> Nat] /\ disk.booked \in [Tickets -> Nat]
  BY DEF TypeInv, TypeOK, StateRecord
<1>2. UNCHANGED <<Broker, Closed>>
  BY DEF Broker, Closed
<1>3. CASE disk' = m
  <2>1. S \subseteq {t \in Closed : disk.booked[t] = 0}
    BY <1>1 DEF CountInv, BookedRight, Closed
  <2>2. ASSUME NEW t \in Tickets
        PROVE  mem.booked[t] = IF t \in S THEN 1 ELSE disk.booked[t]
    BY <1>1, <2>2 DEF CountInv, BookedRight
  <2>3. disk'.booked = [t \in Tickets |-> IF t \in S THEN 1 ELSE disk.booked[t]]
    BY <1>1, <1>3, <2>2
  <2>4. Ledger!Count(S)
    BY <1>2, <2>1, <2>3 DEF Ledger!Count
  <2>5. S \in SUBSET Tickets
    OBVIOUS
  <2> QED
    BY <2>4, <2>5
<1>4. CASE disk' = disk
  BY <1>2, <1>4 DEF Ledger!vars
<1> QED
  BY <1>3, <1>4 DEF SaveState

LEMMA InitLedger == Init => Ledger!Init
  BY DEF Init, Ledger!Init, Broker, Closed, DefaultState

LEMMA NextLedger ==
    NoBlindReads /\ TypeInv /\ CountInv /\ [Next]_vars => [Ledger!Next]_(Ledger!vars)
<1> SUFFICES ASSUME NoBlindReads, TypeInv, CountInv, [Next]_vars
             PROVE  Ledger!Next \/ UNCHANGED Ledger!vars
  OBVIOUS
<1>1. ASSUME NEW t \in Tickets, BrokerClose(t) PROVE Ledger!Next
  BY <1>1, CloseStep DEF BrokerClose, Ledger!Next
<1>2. ASSUME NEW t \in Tickets, CloseAll(t) PROVE Ledger!Next
  BY <1>2, CloseStep DEF CloseAll, Ledger!Next
<1>3. ASSUME NEW s \in Symbols, NEW t \in Tickets, Order(s, t) PROVE Ledger!Next
  <2>1. /\ deals \in [Tickets -> {"none", "in", "out"}] /\ deals[t] = "none"
        /\ deals' = [deals EXCEPT ![t] = "in"] /\ disk' = disk
    BY <1>3 DEF Order, Unissued, TypeInv, TypeOK
  <2>2. Broker' = Broker \cup {t} /\ t \notin Broker \cup Closed
    BY <2>1 DEF Broker, Closed
  <2>3. Closed' = Closed
    BY <2>1 DEF Closed
  <2>4. Ledger!Open(t)
    BY <2>1, <2>2, <2>3 DEF Ledger!Open
  <2> QED
    BY <2>4 DEF Ledger!Next
<1>4. CASE Record
  <2>1. mem'.booked = mem.booked
    BY <1>4 DEF Record, TypeInv, TypeOK, StateRecord
  <2>2. SaveState(mem') /\ UNCHANGED deals
    BY <1>4 DEF Record, brokerVars
  <2> QED
    BY <2>1, <2>2, SaveStep DEF Ledger!Next
<1>5. CASE Save \/ Stop
  BY <1>5, SaveStep DEF Save, Stop, brokerVars, Ledger!Next
<1>6. ASSUME NEW t \in Tickets, Settle(t) PROVE UNCHANGED Ledger!vars
  BY <1>6, QuietStep DEF Settle, brokerVars
<1>7. CASE \/ Boot \/ ReadPositions \/ SettleDone \/ Adopt \/ EndManage \/ EndRejudge
           \/ JournalOpen \/ EndEntry \/ ManageDue \/ CycleError \/ Crash
  BY <1>7, QuietStep DEF Boot, ReadPositions, SettleDone, Adopt, EndManage, EndRejudge,
     JournalOpen, EndEntry, ManageDue, CycleError, Crash, brokerVars
<1>8. ASSUME NEW s \in Symbols, Skip(s) PROVE UNCHANGED Ledger!vars
  BY <1>8, QuietStep DEF Skip, brokerVars
<1>9. CASE UNCHANGED vars
  BY <1>9, QuietStep DEF vars
<1> QED
  BY <1>1, <1>2, <1>3, <1>4, <1>5, <1>6, <1>7, <1>8, <1>9
     DEF Next, Reconcile, Manage, Enter, Outage

\* With no misread broker, the state file's bookkeeping implements TradeLedger:
\* crashes, failed saves and restarts are invisible in it.
THEOREM BookImplementsLedger ==
    ASSUME NoBlindReads
    PROVE  Spec => ImplementsLedger
<1>1. TypeInv /\ CountInv /\ [Next]_vars => [Ledger!Next]_(Ledger!vars)
  BY NextLedger
<1> QED
  BY <1>1, InitLedger, CountInvariant, PTL DEF Spec, ImplementsLedger, Ledger!Spec

(***************************************************************************)
(* 4. One position per symbol.  After a reconcile that could read the      *)
(* broker the book covers the broker, so the entry cycle's list of free    *)
(* symbols is right, and every order takes its symbol off the list.        *)
(***************************************************************************)
HonestReads == FaultKinds \cap {"blind", "readraise", "partial"} = {}

CoverInv ==
    /\ OnePerSymbol
    /\ pc \in {"settle", "adopt"} => Broker \subseteq snap
    /\ pc = "manage" => Broker \subseteq mem.pos
    /\ \A t \in Broker : symOf[t] \notin todo
    /\ pc \notin {"rejudge", "entry", "record", "journal"} => todo = {}

\* The broker's book only shrinks in a step that opens nothing.
LEMMA FewerOpen ==
    ASSUME TypeInv, CoverInv, deals' \in [Tickets -> {"none", "in", "out"}],
           \A t \in Tickets : deals'[t] = "in" => deals[t] = "in",
           UNCHANGED <<symOf, loopVars>>,
           pc = "manage" => Broker' \subseteq mem'.pos
    PROVE  CoverInv'
<1>1. Broker' \subseteq Broker
  BY DEF Broker
<1> QED
  BY <1>1 DEF CoverInv, OnePerSymbol, loopVars

LEMMA InitCover == Init => CoverInv
  BY DEF Init, CoverInv, OnePerSymbol, Broker

LEMMA NextCover == HonestReads /\ TypeInv /\ CoverInv /\ [Next]_vars => CoverInv'
<1> SUFFICES ASSUME HonestReads, TypeInv, CoverInv, [Next]_vars PROVE CoverInv'
  OBVIOUS
<1>1. ASSUME NEW t \in Tickets, BrokerClose(t) PROVE CoverInv'
  <2>1. Broker' \subseteq Broker
    BY <1>1 DEF BrokerClose, Broker, TypeInv, TypeOK
  <2> QED
    BY <1>1, <2>1 DEF BrokerClose, CoverInv, OnePerSymbol, loopVars
<1>2. CASE Boot
  BY <1>2 DEF CoverInv, Boot, OnePerSymbol, Broker, brokerVars
<1>3. CASE ReadPositions
  <2>1. /\ deals' = deals /\ symOf' = symOf /\ todo' = todo /\ mem' = mem
        /\ pc = "reconcile" /\ snap' = Broker /\ pc' = "settle"
    BY <1>3 DEF ReadPositions, HonestReads, Fault, brokerVars
  <2>2. Broker' = Broker
    BY <2>1 DEF Broker
  <2> QED
    BY <2>1, <2>2 DEF CoverInv, OnePerSymbol
<1>4. ASSUME NEW t \in Tickets, Settle(t) PROVE CoverInv'
  BY <1>4 DEF CoverInv, Settle, OnePerSymbol, Broker, brokerVars, loopVars
<1>5. CASE SettleDone
  BY <1>5 DEF CoverInv, SettleDone, OnePerSymbol, Broker, brokerVars
<1>6. CASE Adopt
  <2>1. mem'.pos = mem.pos \cup snap
    BY <1>6 DEF Adopt, TypeInv, TypeOK, StateRecord
  <2>2. Broker' = Broker /\ pc' \in {"save", "manage"}
    BY <1>6 DEF Adopt, Broker, AfterReconcile, brokerVars
  <2> QED
    BY <1>6, <2>1, <2>2 DEF CoverInv, Adopt, OnePerSymbol, brokerVars
<1>7. ASSUME NEW t \in Tickets, CloseAll(t) PROVE CoverInv'
  <2>1. Broker' = Broker \ {t}
    BY <1>7 DEF CloseAll, Broker, TypeInv, TypeOK
  <2>2. mem'.pos = mem.pos \ {t}
    BY <1>7, FinalizedFacts DEF CloseAll, FinalizeClose, TypeInv, TypeOK
  <2> QED
    BY <1>7, <2>1, <2>2 DEF CloseAll, CoverInv, OnePerSymbol, loopVars
<1>8. CASE EndManage
  <2>1. Broker' = Broker /\ pc = "manage" /\ pc' \in {"save", "rejudge"}
    BY <1>8 DEF EndManage, Broker, brokerVars
  <2>2. \A t \in Broker : symOf[t] \notin todo'
    BY <1>8, <2>1 DEF EndManage, CoverInv, Enterable
  <2> QED
    BY <1>8, <2>1, <2>2 DEF EndManage, CoverInv, OnePerSymbol, brokerVars
<1>9. CASE EndRejudge \/ EndEntry
  BY <1>9 DEF CoverInv, EndRejudge, EndEntry, OnePerSymbol, Broker, brokerVars
<1>10. ASSUME NEW s \in Symbols, Skip(s) PROVE CoverInv'
  BY <1>10 DEF CoverInv, Skip, OnePerSymbol, Broker, brokerVars
<1>11. ASSUME NEW s \in Symbols, NEW t \in Tickets, Order(s, t) PROVE CoverInv'
  <2>1. /\ deals \in [Tickets -> {"none", "in", "out"}] /\ t \in Tickets
        /\ symOf \in [Tickets -> Symbols \cup {None}]
        /\ deals' = [deals EXCEPT ![t] = "in"] /\ symOf' = [symOf EXCEPT ![t] = s]
    BY <1>11 DEF Order, TypeInv, TypeOK
  <2>2. s \in todo /\ todo' = todo \ {s} /\ pc' \in {"entry", "record"}
    BY <1>11 DEF Order, HonestReads, Fault
  <2>3. Broker' = Broker \cup {t} /\ t \notin Broker
    BY <1>11, <2>1 DEF Broker, Order, Unissued
  <2>4. symOf'[t] = s /\ \A u \in Broker : symOf'[u] = symOf[u] /\ symOf[u] # s
    BY <2>1, <2>2, <2>3 DEF CoverInv, Broker
  <2>5. OnePerSymbol'
    BY <2>3, <2>4 DEF CoverInv, OnePerSymbol
  <2> QED
    BY <2>2, <2>3, <2>4, <2>5 DEF CoverInv
<1>12. CASE Record \/ JournalOpen
  BY <1>12 DEF CoverInv, Record, JournalOpen, OnePerSymbol, Broker, brokerVars
<1>13. CASE pc = "save" /\ Save
  BY <1>13 DEF CoverInv, Save, OnePerSymbol, Broker, brokerVars
<1>14. CASE pc = "guards" /\ (Save \/ Stop \/ ManageDue)
  BY <1>14 DEF CoverInv, Save, Stop, ManageDue, OnePerSymbol, Broker, brokerVars
<1>15. CASE CycleError \/ Crash
  BY <1>15 DEF CoverInv, CycleError, Crash, OnePerSymbol, Broker, brokerVars
<1>16. CASE UNCHANGED vars
  BY <1>16 DEF CoverInv, OnePerSymbol, Broker, vars, loopVars
<1> QED
  BY <1>1, <1>2, <1>3, <1>4, <1>5, <1>6, <1>7, <1>8, <1>9, <1>10, <1>11,
     <1>12, <1>13, <1>14, <1>15, <1>16
     DEF Next, Reconcile, Manage, Enter, Outage, Save, Stop, ManageDue

\* If the broker can be read and fills orders whole, the account never holds
\* two of the trader's positions in one symbol, although replies get lost and
\* the process dies between an order and its record.
THEOREM OnePositionPerSymbol ==
    ASSUME HonestReads
    PROVE  Spec => []OnePerSymbol
<1>1. (TypeInv /\ CoverInv) /\ [Next]_vars => (TypeInv /\ CoverInv)'
  BY NextType, NextCover
<1>2. CoverInv => OnePerSymbol
  BY DEF CoverInv
<1> QED
  BY <1>1, <1>2, InitType, InitCover, PTL DEF Spec

(***************************************************************************)
(* 5. The state file knows every journaled trade.                          *)
(***************************************************************************)
Known(m) == {t \in Tickets : t \in m.pos \/ m.booked[t] > 0}

SavesWork == "save" \notin FaultKinds

DurableInv ==
    /\ Known(disk) \subseteq Known(mem)
    /\ pc = "journal" => cur \in Known(disk)
    /\ \A t \in Tickets : journal[t] # "absent" => t \in Known(disk)

\* Finalizing does not make the state forget a ticket.
LEMMA FinalizedKnown ==
    ASSUME NEW m \in StateRecord, NEW t \in m.pos
    PROVE  Known(Finalized(m, t)) = Known(m)
<1>1. t \in Tickets /\ m.booked \in [Tickets -> Nat]
  BY DEF StateRecord
<1> QED
  BY <1>1, FinalizedFacts DEF Known

LEMMA InitDurable == Init => DurableInv
  BY DEF Init, DurableInv, Known, DefaultState

LEMMA NextDurable == SavesWork /\ TypeInv /\ DurableInv /\ [Next]_vars => DurableInv'
<1> SUFFICES ASSUME SavesWork, TypeInv, DurableInv, [Next]_vars PROVE DurableInv'
  OBVIOUS
<1>0. mem \in StateRecord /\ disk \in StateRecord
  BY DEF TypeInv, TypeOK
<1>1. ASSUME NEW t \in mem.pos, NEW src, FinalizeClose(t, src), UNCHANGED <<disk, loopVars>>
      PROVE  DurableInv'
  <2>1. Known(mem') = Known(mem) /\ Known(disk') = Known(disk)
    BY <1>0, <1>1, FinalizedKnown DEF FinalizeClose
  <2>2. \A u \in Tickets : journal'[u] # "absent" => journal[u] # "absent"
    BY <1>1 DEF FinalizeClose, CloseRow, TypeInv, TypeOK
  <2> QED
    BY <1>1, <2>1, <2>2 DEF DurableInv, loopVars
<1>2. CASE \E t \in Tickets : Settle(t) \/ CloseAll(t)
  BY <1>1, <1>2 DEF Settle, CloseAll, Missing
<1>3. CASE Boot
  BY <1>3 DEF DurableInv, Boot
<1>4. CASE Adopt
  <2>1. Known(mem) \subseteq Known(mem') /\ Known(disk') = Known(disk)
    BY <1>0, <1>4 DEF Adopt, Known, StateRecord
  <2> QED
    BY <1>4, <2>1 DEF DurableInv, Adopt, AfterReconcile
<1>5. CASE Record
  <2>1. disk' = mem' /\ cur' = cur /\ journal' = journal
    BY <1>5 DEF Record, SaveState, SavesWork, Fault
  <2>2. mem'.pos = mem.pos \cup {cur} /\ mem'.booked = mem.booked /\ cur \in Tickets
    BY <1>5 DEF Record, TypeInv, TypeOK, StateRecord
  <2>3. Known(mem) \subseteq Known(disk') /\ cur \in Known(disk')
    BY <2>1, <2>2 DEF Known
  <2>4. Known(disk') = Known(mem')
    BY <2>1
  <2> QED
    BY <2>1, <2>3, <2>4 DEF DurableInv
<1>6. CASE JournalOpen
  BY <1>6 DEF JournalOpen, DurableInv, TypeInv, TypeOK
<1>7. CASE Save \/ Stop
  <2>1. disk' = mem /\ mem' = mem /\ journal' = journal /\ pc' \in {"guards", "down"}
    BY <1>7 DEF Save, Stop, SaveState, SavesWork, Fault
  <2> QED
    BY <2>1 DEF DurableInv
<1>8. CASE \/ ReadPositions \/ SettleDone \/ EndManage \/ EndRejudge \/ EndEntry
           \/ ManageDue \/ CycleError \/ Crash
           \/ \E t \in Tickets : BrokerClose(t) \/ \E s \in Symbols : Skip(s) \/ Order(s, t)
           \/ \E s \in Symbols : Skip(s)
           \/ UNCHANGED vars
  <2>1. mem' = mem /\ disk' = disk /\ journal' = journal
    BY <1>8 DEF ReadPositions, SettleDone, EndManage, EndRejudge, EndEntry, ManageDue,
       CycleError, Crash, BrokerClose, Skip, Order, vars
  <2>2. pc' = "journal" => pc = "journal" /\ cur' = cur
    BY <1>8 DEF ReadPositions, SettleDone, EndManage, EndRejudge, EndEntry, ManageDue,
       CycleError, Crash, BrokerClose, Skip, Order, vars, loopVars, AfterReconcile
  <2> QED
    BY <2>1, <2>2 DEF DurableInv
<1> QED
  BY <1>2, <1>3, <1>4, <1>5, <1>6, <1>7, <1>8
     DEF Next, Reconcile, Manage, Enter, Outage

\* A trade with a journal row is managed or counted in the state file, whatever
\* crashes, because the entry saves before it journals.
THEOREM JournaledTradesAreDurable == Spec => []JournaledIsDurable
<1>1. CASE SavesWork
  <2>1. (TypeInv /\ DurableInv) /\ [Next]_vars => (TypeInv /\ DurableInv)'
    BY <1>1, NextType, NextDurable
  <2>2. DurableInv => JournaledIsDurable
    BY DEF DurableInv, JournaledIsDurable, Known
  <2> QED
    BY <2>1, <2>2, InitType, InitDurable, PTL DEF Spec
<1>2. CASE ~SavesWork
  <2>1. JournaledIsDurable
    BY <1>2 DEF SavesWork, JournaledIsDurable
  <2> QED
    BY <2>1, PTL
<1> QED
  BY <1>1, <1>2

(***************************************************************************)
(* 6. With every failure allowed, blind reads among them, one failure      *)
(* books a trade at most one time too often.  A ticket the trader may      *)
(* still finalize, because the book or the snapshot holds it or because    *)
(* it is open at the broker, has at most one booking per failure so far;   *)
(* and reconcile takes an open ticket for closed away only when a failure  *)
(* (the blind read) is left over to pay for it.                            *)
(***************************************************************************)
Paid(m) ==
    \A t \in Tickets :
        /\ m.booked[t] <= 1 + faults
        /\ t \in m.pos \/ deals[t] = "in" => m.booked[t] <= faults
        /\ t \in m.pos \/ m.booked[t] > 0 => deals[t] # "none"

OvercountInv ==
    /\ Paid(mem)
    /\ Paid(disk)
    /\ \A t \in snap : deals[t] # "none"
    /\ pc \in {"settle", "adopt"} => \A t \in snap : mem.booked[t] <= faults
    /\ pc = "settle" => \A t \in Missing : deals[t] = "in" => mem.booked[t] + 1 <= faults
    /\ pc = "record" => deals[cur] # "none" /\ mem.booked[cur] = 0

LEMMA InitOvercount == Init => OvercountInv
  BY DEF Init, OvercountInv, Paid, DefaultState, Missing

\* The facts a finalize needs: it leaves at most one booking per failure on a
\* ticket that is still open.
LEMMA FinalizeOvercount ==
    ASSUME TypeInv, OvercountInv, NEW t \in mem.pos, NEW src \in ClosedRow,
           FinalizeClose(t, src),
           \A u \in Tickets : /\ deals[u] # "none" => deals'[u] # "none"
                              /\ deals'[u] = "in" => deals[u] = "in",
           deals'[t] = "in" => mem.booked[t] + 1 <= faults,
           UNCHANGED <<disk, loopVars>>, pc # "record",
           pc \in {"settle", "adopt"} => t \notin snap
    PROVE  OvercountInv'
<1> USE DEF OvercountInv
<1>1. /\ mem.booked \in [Tickets -> Nat] /\ disk.booked \in [Tickets -> Nat]
      /\ mem.pos \subseteq Tickets /\ disk.pos \subseteq Tickets /\ t \in Tickets
      /\ faults \in Nat /\ faults' \in Nat /\ faults <= faults'
      /\ deals \in [Tickets -> {"none", "in", "out"}] /\ snap \subseteq Tickets
  BY FaultAssumption DEF TypeInv, TypeOK, StateRecord, FinalizeClose, NoFault, Fault
<1>2. /\ mem'.pos = mem.pos \ {t}
      /\ mem'.booked[t] = mem.booked[t] + 1
      /\ \A u \in Tickets \ {t} : mem'.booked[u] = mem.booked[u]
  BY <1>1, FinalizedFacts DEF FinalizeClose, TypeInv, TypeOK
<1>3. pc' = pc /\ snap' = snap /\ cur' = cur /\ disk' = disk
  BY DEF loopVars
<1>4. deals[t] # "none" /\ mem.booked[t] <= faults
  BY <1>1 DEF Paid
<1>5. Paid(mem)'
  <2> SUFFICES ASSUME NEW u \in Tickets
               PROVE  /\ mem'.booked[u] <= 1 + faults'
                      /\ u \in mem'.pos \/ deals'[u] = "in" => mem'.booked[u] <= faults'
                      /\ u \in mem'.pos \/ mem'.booked[u] > 0 => deals'[u] # "none"
    BY DEF Paid
  <2>1. CASE u = t
    BY <1>1, <1>2, <1>4, <2>1
  <2>2. CASE u # t
    BY <1>1, <1>2, <2>2 DEF Paid
  <2> QED
    BY <2>1, <2>2
<1>6. Paid(disk)'
  BY <1>1, <1>3 DEF Paid
<1>7. pc' \in {"settle", "adopt"} => \A u \in snap' : mem'.booked[u] <= faults'
  BY <1>1, <1>2, <1>3
<1>8. pc' = "settle" => \A u \in Missing' : deals'[u] = "in" => mem'.booked[u] + 1 <= faults'
  BY <1>1, <1>2, <1>3 DEF Missing
<1> QED
  BY <1>1, <1>3, <1>5, <1>6, <1>7, <1>8

\* A step that touches neither the book nor the reconcile pass keeps the bound:
\* failures only add to it.
LEMMA QuietOvercount ==
    ASSUME TypeInv, OvercountInv, faults' \in Nat, faults <= faults',
           UNCHANGED <<mem, disk, deals>>, snap' \subseteq snap,
           (pc' = pc /\ cur' = cur /\ snap' = snap) \/ pc' \notin {"settle", "adopt", "record"}
    PROVE  OvercountInv'
<1>1. /\ mem.booked \in [Tickets -> Nat] /\ disk.booked \in [Tickets -> Nat]
      /\ mem.pos \subseteq Tickets /\ faults \in Nat /\ snap \subseteq Tickets
  BY FaultAssumption DEF TypeInv, TypeOK, StateRecord
<1>2. Paid(mem)' /\ Paid(disk)'
  BY <1>1 DEF OvercountInv, Paid
<1> QED
  BY <1>1, <1>2 DEF OvercountInv, Missing

\* A save copies the bookkeeping of memory, with its bound, to the file.
LEMMA SaveOvercount ==
    ASSUME TypeInv, OvercountInv, SaveState(mem), UNCHANGED <<deals, mem, snap>>,
           pc' \notin {"settle", "adopt", "record"}
    PROVE  OvercountInv'
<1>1. /\ mem.booked \in [Tickets -> Nat] /\ disk.booked \in [Tickets -> Nat]
      /\ faults \in Nat /\ faults' \in Nat /\ faults <= faults'
  BY FaultAssumption DEF TypeInv, TypeOK, StateRecord, SaveState, NoFault, Fault
<1>2. disk' = mem \/ disk' = disk
  BY DEF SaveState
<1>3. Paid(mem)' /\ Paid(disk)'
  BY <1>1, <1>2 DEF OvercountInv, Paid
<1> QED
  BY <1>3 DEF OvercountInv

LEMMA NextOvercount == TypeInv /\ OvercountInv /\ [Next]_vars => OvercountInv'
<1> SUFFICES ASSUME TypeInv, OvercountInv, [Next]_vars PROVE OvercountInv'
  OBVIOUS
<1>0. /\ mem.booked \in [Tickets -> Nat] /\ disk.booked \in [Tickets -> Nat]
      /\ mem.pos \subseteq Tickets /\ disk.pos \subseteq Tickets
      /\ faults \in Nat /\ snap \subseteq Tickets
      /\ deals \in [Tickets -> {"none", "in", "out"}]
  BY FaultAssumption DEF TypeInv, TypeOK, StateRecord
<1>1. ASSUME NEW t \in Tickets, BrokerClose(t) PROVE OvercountInv'
  <2>1. /\ mem' = mem /\ disk' = disk /\ faults' = faults /\ pc' = pc /\ snap' = snap
        /\ cur' = cur
        /\ \A u \in Tickets : /\ deals[u] # "none" => deals'[u] # "none"
                              /\ deals'[u] = "in" => deals[u] = "in"
    BY <1>0, <1>1 DEF BrokerClose, loopVars
  <2>2. Paid(mem)' /\ Paid(disk)'
    BY <1>0, <2>1 DEF OvercountInv, Paid
  <2>3. pc = "record" => cur \in Tickets
    BY DEF TypeInv
  <2> QED
    BY <1>0, <2>1, <2>2, <2>3 DEF OvercountInv, Missing
<1>2. CASE Boot
  BY <1>0, <1>2 DEF Boot, OvercountInv, Paid, brokerVars
<1>3. CASE ReadPositions
  <2>1. mem' = mem /\ disk' = disk /\ deals' = deals /\ faults' \in Nat /\ faults <= faults'
    BY <1>0, <1>3 DEF ReadPositions, brokerVars, NoFault, Fault
  <2>2. Paid(mem)' /\ Paid(disk)'
    BY <1>0, <2>1 DEF OvercountInv, Paid
  <2>3. snap' \subseteq Broker /\ pc' # "record"
    BY <1>3 DEF ReadPositions, AfterReconcile
  <2>4. \A t \in snap' : deals'[t] # "none" /\ mem'.booked[t] <= faults'
    BY <1>0, <2>1, <2>3 DEF Broker, OvercountInv, Paid
  <2>5. ASSUME pc' = "settle", NEW t \in Missing', deals'[t] = "in"
        PROVE  mem'.booked[t] + 1 <= faults'
    <3>1. t \in Tickets /\ t \in Broker /\ t \notin snap'
      BY <1>0, <2>1, <2>5 DEF Missing, Broker
    <3>2. faults' = faults + 1
      BY <1>3, <2>5, <3>1 DEF ReadPositions, Fault, AfterReconcile
    <3> QED
      BY <1>0, <2>1, <2>5, <3>1, <3>2 DEF OvercountInv, Paid
  <2> QED
    BY <2>2, <2>3, <2>4, <2>5 DEF OvercountInv
<1>4. ASSUME NEW t \in Tickets, Settle(t) PROVE OvercountInv'
  <2>1. t \in mem.pos /\ t \in Missing /\ t \notin snap /\ pc = "settle" /\ deals' = deals
    BY <1>4 DEF Settle, Missing, brokerVars
  <2>2. deals'[t] = "in" => mem.booked[t] + 1 <= faults
    BY <2>1 DEF OvercountInv
  <2>3. Summary(t) \in ClosedRow
    BY DEF Summary, ClosedRow
  <2> QED
    BY <1>0, <1>4, <2>1, <2>2, <2>3, FinalizeOvercount DEF Settle
<1>5. CASE SettleDone
  BY <1>0, <1>5 DEF SettleDone, OvercountInv, Paid, brokerVars
<1>6. CASE Adopt
  <2>1. /\ mem'.booked = mem.booked /\ mem'.pos = mem.pos \cup snap /\ pc = "adopt"
        /\ disk' = disk /\ deals' = deals /\ faults' = faults /\ snap' = {}
        /\ pc' \notin {"settle", "adopt", "record"}
    BY <1>6 DEF Adopt, AfterReconcile, brokerVars, TypeInv, TypeOK, StateRecord
  <2>2. Paid(mem)' /\ Paid(disk)'
    BY <1>0, <2>1 DEF OvercountInv, Paid
  <2> QED
    BY <2>1, <2>2 DEF OvercountInv
<1>7. ASSUME NEW t \in Tickets, CloseAll(t) PROVE OvercountInv'
  <2>1. t \in mem.pos /\ pc \notin {"settle", "adopt", "record"}
    BY <1>7 DEF CloseAll
  <2>2. /\ deals'[t] = "out"
        /\ \A u \in Tickets : /\ deals[u] # "none" => deals'[u] # "none"
                              /\ deals'[u] = "in" => deals[u] = "in"
    BY <1>0, <1>7 DEF CloseAll
  <2>3. "truth" \in ClosedRow
    BY DEF ClosedRow
  <2> QED
    BY <1>7, <2>1, <2>2, <2>3, FinalizeOvercount DEF CloseAll
<1>8. CASE \/ EndManage \/ EndRejudge \/ EndEntry \/ ManageDue \/ JournalOpen
           \/ CycleError \/ Crash \/ \E s \in Symbols : Skip(s)
  <2>1. mem' = mem /\ disk' = disk /\ deals' = deals /\ snap' \subseteq snap
    BY <1>8 DEF EndManage, EndRejudge, EndEntry, ManageDue, JournalOpen, CycleError, Crash,
       Skip, brokerVars
  <2>2. faults' \in Nat /\ faults <= faults'
    BY <1>0, <1>8 DEF EndManage, EndRejudge, EndEntry, ManageDue, JournalOpen, CycleError,
       Crash, Skip, NoFault, Fault
  <2>3. pc' \notin {"settle", "adopt", "record"}
    BY <1>8 DEF EndManage, EndRejudge, EndEntry, ManageDue, JournalOpen, CycleError, Crash, Skip
  <2> QED
    BY <2>1, <2>2, <2>3, QuietOvercount
<1>9. ASSUME NEW s \in Symbols, NEW t \in Tickets, Order(s, t) PROVE OvercountInv'
  <2>1. /\ mem' = mem /\ disk' = disk /\ snap' = snap /\ pc' \in {"entry", "record"}
        /\ deals' = [deals EXCEPT ![t] = "in"] /\ deals[t] = "none" /\ pc = "entry"
        /\ pc' = "record" => cur' = t
    BY <1>9 DEF Order, Unissued
  <2>2. faults' \in Nat /\ faults <= faults'
    BY <1>0, <1>9 DEF Order, NoFault, Fault
  <2>3. t \notin mem.pos /\ t \notin disk.pos /\ mem.booked[t] = 0 /\ disk.booked[t] = 0
    BY <1>0, <2>1 DEF OvercountInv, Paid
  <2>4. \A u \in Tickets : deals'[u] = IF u = t THEN "in" ELSE deals[u]
    BY <1>0, <2>1
  <2>5. Paid(mem)' /\ Paid(disk)'
    BY <1>0, <2>1, <2>2, <2>3, <2>4 DEF OvercountInv, Paid
  <2> QED
    BY <1>0, <2>1, <2>3, <2>4, <2>5 DEF OvercountInv
<1>10. CASE Record
  <2>1. /\ mem'.booked = mem.booked /\ mem'.pos = mem.pos \cup {cur} /\ cur \in Tickets
    BY <1>10 DEF Record, TypeInv, TypeOK, StateRecord
  <2>2. /\ deals' = deals /\ snap' = snap /\ pc' = "journal"
        /\ faults' \in Nat /\ faults <= faults' /\ (disk' = mem' \/ disk' = disk)
    BY <1>0, <1>10 DEF Record, SaveState, NoFault, Fault, brokerVars
  <2>3. deals[cur] # "none" /\ mem.booked[cur] = 0
    BY <1>10 DEF Record, OvercountInv
  <2>4. Paid(mem)'
    BY <1>0, <2>1, <2>2, <2>3 DEF OvercountInv, Paid
  <2>5. Paid(disk)'
    BY <1>0, <2>2, <2>4 DEF OvercountInv, Paid
  <2> QED
    BY <2>2, <2>4, <2>5 DEF OvercountInv
<1>11. CASE Save \/ Stop
  BY <1>11, SaveOvercount DEF Save, Stop, brokerVars
<1>12. CASE UNCHANGED vars
  BY <1>0, <1>12, QuietOvercount DEF vars, loopVars
<1> QED
  BY <1>1, <1>2, <1>3, <1>4, <1>5, <1>6, <1>7, <1>8, <1>9, <1>10, <1>11, <1>12
     DEF Next, Reconcile, Manage, Enter, Outage

\* Whatever fails, and however often: a trade's close enters the books at most
\* once more than there were failures.
THEOREM OvercountIsBounded == Spec => []OvercountBounded
<1>1. (TypeInv /\ OvercountInv) /\ [Next]_vars => (TypeInv /\ OvercountInv)'
  BY NextType, NextOvercount
<1>2. OvercountInv => OvercountBounded
  BY DEF OvercountInv, Paid, OvercountBounded
<1> QED
  BY <1>1, <1>2, InitType, InitOvercount, PTL DEF Spec

(***************************************************************************)
(* 7. One failure spoils the row of at most one trade.  A step that fails  *)
(* adds one ticket to Untold and one to the failures; a step that does not *)
(* adds none: the order being recorded is not booked before its row is     *)
(* written, and no other order is being recorded meanwhile.                *)
(***************************************************************************)
RowInv ==
    /\ IsFiniteSet(Untold)
    /\ Cardinality(Untold) <= faults
    /\ pc \in {"record", "journal"} => mem.booked[cur] = 0
    /\ pc \notin {"record", "journal"} => cur = None

\* No trade joins the untold ones.
LEMMA NoneJoins ==
    ASSUME TypeInv, RowInv, Untold' \subseteq Untold,
           faults' \in Nat, faults <= faults'
    PROVE  IsFiniteSet(Untold') /\ Cardinality(Untold') <= faults'
<1>1. IsFiniteSet(Untold') /\ Cardinality(Untold') <= Cardinality(Untold)
  BY FS_Subset DEF RowInv
<1>2. Cardinality(Untold') \in Nat /\ Cardinality(Untold) \in Nat /\ faults \in Nat
  BY <1>1, FS_CardinalityType, FaultAssumption DEF RowInv, TypeInv, TypeOK
<1> QED
  BY <1>1, <1>2 DEF RowInv

\* One trade joins them, and one failure is counted.
LEMMA OneJoins ==
    ASSUME TypeInv, RowInv, NEW t, Untold' \subseteq Untold \cup {t}, faults' = faults + 1
    PROVE  IsFiniteSet(Untold') /\ Cardinality(Untold') <= faults'
<1>1. /\ IsFiniteSet(Untold \cup {t})
      /\ \/ Cardinality(Untold \cup {t}) = Cardinality(Untold)
         \/ Cardinality(Untold \cup {t}) = Cardinality(Untold) + 1
  BY FS_AddElement DEF RowInv
<1>2. IsFiniteSet(Untold') /\ Cardinality(Untold') <= Cardinality(Untold \cup {t})
  BY <1>1, FS_Subset
<1>3. /\ Cardinality(Untold') \in Nat /\ Cardinality(Untold) \in Nat
      /\ Cardinality(Untold \cup {t}) \in Nat /\ faults \in Nat
  BY <1>1, <1>2, FS_CardinalityType, FaultAssumption DEF RowInv, TypeInv, TypeOK
<1> QED
  BY <1>1, <1>2, <1>3 DEF RowInv

\* finalize_close: with the closing figures at hand and the database up the row
\* tells the truth; otherwise a failure is counted.
LEMMA FinalizeRow ==
    ASSUME TypeInv, CountInv, RowInv, NEW t \in mem.pos, FinalizeClose(t, "truth"),
           pc \notin {"record", "journal"},
           \A u \in Tickets : deals'[u] # "none" => deals[u] # "none",
           UNCHANGED <<disk, loopVars>>
    PROVE  RowInv'
<1> USE DEF TypeInv, TypeOK, loopVars
<1>1. t \in Tickets /\ mem \in StateRecord /\ disk \in StateRecord
  BY DEF StateRecord
<1>2. mem.booked \in [Tickets -> Nat] /\ disk.booked \in [Tickets -> Nat] /\ faults \in Nat
  BY <1>1, FaultAssumption DEF StateRecord
<1>3. \A u \in Tickets \ {t} : mem'.booked[u] = mem.booked[u]
  BY <1>1, FinalizedFacts DEF FinalizeClose
<1>4. \A u \in Tickets \ {t} : journal'[u] = journal[u]
  BY <1>1 DEF FinalizeClose, CloseRow
<1>5. cur = None /\ cur' = None /\ deals[t] # "none" /\ t # None
  BY <1>1, NoneAssumption DEF RowInv, CountInv, Held
<1>6. Untold' \subseteq Untold \cup {t}
  BY <1>2, <1>3, <1>4, <1>5 DEF Untold, ClosedRow
<1>7. CASE NoFault /\ CloseRow(t, "truth")
  <2>1. journal'[t] = IF journal[t] = "open" THEN "truth" ELSE journal[t]
    BY <1>1, <1>7 DEF CloseRow
  <2>2. t \in Untold' => t \in Untold
    BY <1>1, <1>2, <1>5, <2>1 DEF Untold, ClosedRow
  <2>3. Untold' \subseteq Untold
    BY <1>6, <2>2
  <2> QED
    BY <1>2, <1>5, <1>7, <2>3, NoneJoins DEF RowInv, NoFault
<1>8. CASE faults' = faults + 1
  BY <1>5, <1>6, <1>8, OneJoins DEF RowInv
<1> QED
  BY <1>7, <1>8 DEF FinalizeClose, Fault

LEMMA InitRow == Init => RowInv
<1> SUFFICES ASSUME Init PROVE RowInv
  OBVIOUS
<1>1. Untold = {}
  BY DEF Init, Untold, DefaultState, ClosedRow
<1> QED
  BY <1>1, FS_EmptySet DEF Init, RowInv

\* What is saved is what memory has booked already.
LEMMA SaveRow ==
    ASSUME TypeInv, RowInv, mem'.booked = mem.booked,
           disk'.booked = mem.booked \/ disk'.booked = disk.booked,
           UNCHANGED <<brokerVars, journal, cur>>, faults' \in Nat, faults <= faults'
    PROVE  IsFiniteSet(Untold') /\ Cardinality(Untold') <= faults'
<1>1. mem.booked \in [Tickets -> Nat] /\ disk.booked \in [Tickets -> Nat]
  BY DEF TypeInv, TypeOK, StateRecord
<1>2. Untold' \subseteq Untold
  BY <1>1 DEF Untold, brokerVars
<1> QED
  BY <1>2, NoneJoins

LEMMA NextRow ==
    NoBlindReads /\ TypeInv /\ CountInv /\ RowInv /\ [Next]_vars => RowInv'
<1> SUFFICES ASSUME NoBlindReads, TypeInv, CountInv, RowInv, [Next]_vars PROVE RowInv'
  OBVIOUS
<1>0. /\ mem.booked \in [Tickets -> Nat] /\ disk.booked \in [Tickets -> Nat]
      /\ faults \in Nat
  BY FaultAssumption DEF TypeInv, TypeOK, StateRecord
<1>1. ASSUME NEW t \in Tickets, BrokerClose(t) PROVE RowInv'
  <2>1. Untold' \subseteq Untold
    BY <1>1 DEF BrokerClose, Broker, Untold, loopVars, TypeInv, TypeOK
  <2> QED
    BY <1>0, <1>1, <2>1, NoneJoins DEF BrokerClose, RowInv, loopVars
<1>2. CASE Boot
  <2>1. Untold' \subseteq Untold
    BY <1>0, <1>2 DEF Boot, Untold, brokerVars
  <2> QED
    BY <1>0, <1>2, <2>1, NoneJoins DEF Boot, RowInv
<1>3. CASE ReadPositions \/ SettleDone \/ EndManage \/ EndRejudge \/ EndEntry \/ ManageDue \/ CycleError
  <2>1. /\ UNCHANGED <<deals, journal, mem, disk, cur>>
        /\ pc \notin {"record", "journal"} /\ pc' \notin {"record", "journal"}
        /\ faults' \in Nat /\ faults <= faults'
    BY <1>0, <1>3 DEF ReadPositions, SettleDone, EndManage, EndRejudge, EndEntry,
       ManageDue, CycleError, NoFault, Fault, AfterReconcile, brokerVars
  <2>2. Untold' \subseteq Untold
    BY <2>1 DEF Untold
  <2> QED
    BY <2>1, <2>2, NoneJoins DEF RowInv
<1>4. ASSUME NEW t \in Tickets, Settle(t) PROVE RowInv'
  <2>1. t \in mem.pos /\ pc = "settle" /\ Summary(t) = "truth"
    BY <1>4 DEF Settle, Missing, CountInv, Summary
  <2> QED
    BY <1>4, <2>1, FinalizeRow DEF Settle, brokerVars
<1>5. CASE Adopt
  <2>1. mem'.booked = mem.booked
    BY <1>5 DEF Adopt, TypeInv, TypeOK, StateRecord
  <2>2. Untold' \subseteq Untold
    BY <1>5, <2>1 DEF Adopt, Untold, brokerVars
  <2> QED
    BY <1>0, <1>5, <2>2, NoneJoins DEF Adopt, AfterReconcile, RowInv
<1>6. ASSUME NEW t \in Tickets, CloseAll(t) PROVE RowInv'
  <2>1. \A u \in Tickets : deals'[u] # "none" => deals[u] # "none"
    BY <1>6 DEF CloseAll, Broker, TypeInv, TypeOK
  <2> QED
    BY <1>6, <2>1, FinalizeRow DEF CloseAll
<1>7. ASSUME NEW s \in Symbols, Skip(s) PROVE RowInv'
  <2>1. Untold' \subseteq Untold
    BY <1>7 DEF Skip, Untold, brokerVars
  <2> QED
    BY <1>0, <1>7, <2>1, NoneJoins DEF Skip, RowInv
<1>8. ASSUME NEW s \in Symbols, NEW t \in Tickets, Order(s, t) PROVE RowInv'
  <2>1. /\ pc = "entry" /\ cur = None /\ deals[t] = "none"
        /\ deals' = [deals EXCEPT ![t] = "in"]
        /\ UNCHANGED <<journal, mem, disk>>
    BY <1>8 DEF Order, Unissued, RowInv
  <2>2. \A u \in Tickets \ {t} : deals'[u] = deals[u]
    BY <2>1 DEF TypeInv, TypeOK
  <2>3. mem.booked[t] = 0
    BY <1>0, <2>1 DEF CountInv, BookedRight
  <2>4. CASE NoFault /\ cur' = t /\ pc' = "record"
    <3>1. Untold' \subseteq Untold
      BY <2>1, <2>2, <2>4, NoneAssumption DEF Untold
    <3> QED
      BY <1>0, <2>1, <2>3, <2>4, <3>1, NoneJoins DEF RowInv, NoFault
  <2>5. CASE faults' = faults + 1 /\ UNCHANGED <<pc, cur>>
    <3>1. Untold' \subseteq Untold \cup {t}
      BY <2>1, <2>2, <2>5 DEF Untold
    <3> QED
      BY <2>1, <2>5, <3>1, OneJoins DEF RowInv
  <2> QED
    BY <1>8, <2>4, <2>5 DEF Order, Fault
<1>9. CASE Record
  <2>1. mem'.booked = mem.booked /\ UNCHANGED <<brokerVars, journal, cur>>
    BY <1>9 DEF Record, TypeInv, TypeOK, StateRecord
  <2>2. (disk' = mem' /\ NoFault) \/ (disk' = disk /\ Fault("save"))
    BY <1>9 DEF Record, SaveState
  <2>3. /\ disk'.booked = mem.booked \/ disk'.booked = disk.booked
        /\ faults' \in Nat /\ faults <= faults'
    BY <1>0, <2>1, <2>2 DEF NoFault, Fault
  <2> QED
    BY <1>9, <2>1, <2>3, SaveRow DEF Record, RowInv
<1>10. CASE JournalOpen
  <2>1. /\ cur' = None /\ pc' = "entry" /\ UNCHANGED <<deals, mem, disk>>
        /\ mem.booked[cur] = 0 /\ cur \in Tickets
    BY <1>10 DEF JournalOpen, RowInv, TypeInv, brokerVars
  <2>2. disk.booked[cur] = 0
    BY <1>0, <2>1 DEF CountInv
  <2>3. \A u \in Tickets \ {cur} : journal'[u] = journal[u]
    BY <1>10 DEF JournalOpen, TypeInv, TypeOK
  <2>4. Untold' \subseteq Untold \cup {cur}
    BY <2>1, <2>3 DEF Untold
  <2>5. CASE NoFault /\ journal' = [journal EXCEPT ![cur] = "open"]
    <3>1. journal'[cur] = "open"
      BY <2>1, <2>5 DEF TypeInv, TypeOK
    <3>2. cur \notin Untold'
      BY <1>0, <2>1, <2>2, <3>1 DEF Untold, ClosedRow
    <3> QED
      BY <1>0, <2>1, <2>4, <2>5, <3>2, NoneJoins DEF RowInv, NoFault
  <2>6. CASE faults' = faults + 1
    BY <2>1, <2>4, <2>6, OneJoins DEF RowInv
  <2> QED
    BY <1>10, <2>5, <2>6 DEF JournalOpen, Fault
<1>11. CASE Save \/ Stop
  <2>1. /\ UNCHANGED <<mem, brokerVars, journal, cur>>
        /\ disk'.booked = mem.booked \/ disk'.booked = disk.booked
        /\ faults' \in Nat /\ faults <= faults'
        /\ pc \notin {"record", "journal"} /\ pc' \notin {"record", "journal"}
    BY <1>0, <1>11 DEF Save, Stop, SaveState, NoFault, Fault
  <2> QED
    BY <2>1, SaveRow DEF RowInv
<1>12. CASE Crash
  <2>1. /\ UNCHANGED <<deals, journal, mem, disk>> /\ cur' = None /\ pc' = "down"
        /\ faults' = faults + 1
    BY <1>12 DEF Crash, Fault, brokerVars
  <2>2. Untold' \subseteq Untold \cup {cur}
    BY <2>1 DEF Untold
  <2> QED
    BY <2>1, <2>2, OneJoins DEF RowInv
<1>13. CASE UNCHANGED vars
  <2>1. Untold' \subseteq Untold
    BY <1>13 DEF vars, loopVars, Untold
  <2> QED
    BY <1>0, <1>13, <2>1, NoneJoins DEF vars, loopVars, RowInv
<1> QED
  BY <1>1, <1>2, <1>3, <1>4, <1>5, <1>6, <1>7, <1>8, <1>9, <1>10, <1>11, <1>12, <1>13
     DEF Next, Reconcile, Manage, Enter, Outage

\* As long as a failed read of the broker is not taken for an empty broker, a
\* failure leaves at most one trade without a row that tells the broker's truth.
THEOREM RowsTellTheTruth ==
    ASSUME NoBlindReads
    PROVE  Spec => []RowsTellTruth
<1>1. /\ Init => TypeInv /\ CountInv /\ RowInv
      /\ (TypeInv /\ CountInv /\ RowInv) /\ [Next]_vars => (TypeInv /\ CountInv /\ RowInv)'
  BY InitType, InitCount, InitRow, NextType, NextCount, NextRow
<1>2. RowInv => RowsTellTruth
  BY DEF RowInv, RowsTellTruth
<1> QED
  BY <1>1, <1>2, PTL DEF Spec
=============================================================================
