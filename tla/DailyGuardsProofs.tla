------------------------- MODULE DailyGuardsProofs --------------------------
(***************************************************************************)
(* Proofs about DailyGuards, for every set of accounts and slots, every    *)
(* balance and every setting of the limits that MoneyAssumption allows.    *)
(***************************************************************************)
EXTENDS DailyGuards, TLAPS

USE MoneyAssumption, BoundAssumption

(***************************************************************************)
(* What the guard operators return.                                        *)
(***************************************************************************)
LEMMA RefreshedType ==
    ASSUME TypeOK
    PROVE  Refreshed(guard, Account) \in Guard
<1> DEFINE a == Account
           r == Rolled(guard, a)
<1>1. a.login \in Logins /\ a.bal \in Int /\ a.eq \in Int
    BY DEF TypeOK, Account, Equity
<1>2. r \in Guard
    BY <1>1 DEF TypeOK, Guard, Rolled
<1>3. LossHit(r, a) \in BOOLEAN /\ TargetHit(r, a) \in BOOLEAN /\ DrawdownHit(r, a) \in BOOLEAN
    BY DEF LossHit, TargetHit, DrawdownHit
<1>4. Judged(r, a) \in Guard
  <2> HIDE DEF r, a
  <2> QED  BY <1>2, <1>3 DEF Judged, Guard
<1> QED  BY <1>4 DEF Refreshed, TypeOK

LEMMA RealizeType ==
    ASSUME TypeOK, NEW p \in Slots, Realize(p)
    PROVE  open' \subseteq Slots /\ flo' \in Int /\ bal' \in [Logins -> Int]
BY DEF TypeOK, Realize

(***************************************************************************)
(* Type correctness.                                                       *)
(***************************************************************************)
LEMMA TypeInit == Init => TypeOK
BY DEF Init, TypeOK, Guard

LEMMA TypeStep == TypeOK /\ [Next]_vars => TypeOK'
<1> SUFFICES ASSUME TypeOK, [Next]_vars
             PROVE  TypeOK'
    OBVIOUS
<1>1. ASSUME NEW d \in {-1, 1}, Move(d)
      PROVE  TypeOK'
    BY <1>1 DEF TypeOK, Move
<1>2. ASSUME NEW p \in Slots, BrokerClose(p)
      PROVE  TypeOK'
    BY <1>2, RealizeType DEF TypeOK, BrokerClose
<1>3. CASE Midnight
    BY <1>3 DEF TypeOK, Midnight
<1>4. ASSUME NEW l \in Logins, SwitchAccount(l)
      PROVE  TypeOK'
    BY <1>4 DEF TypeOK, SwitchAccount
<1>5. CASE GuardPass
  <2>1. guard' \in Guard /\ seen' \in Int
      BY <1>5, RefreshedType DEF GuardPass, TypeOK, Equity
  <2> QED  BY <1>5, <2>1 DEF TypeOK, GuardPass, brokerVars, Wanted
<1>6. ASSUME NEW p \in Slots, CloseFilled(p)
      PROVE  TypeOK'
    BY <1>6, RealizeType DEF TypeOK, CloseFilled
<1>7. ASSUME NEW p \in Slots, CloseFailed(p)
      PROVE  TypeOK'
    BY <1>7 DEF TypeOK, CloseFailed, brokerVars
<1>8. ASSUME NEW p \in Slots, Enter(p)
      PROVE  TypeOK'
    BY <1>8 DEF TypeOK, Enter
<1>9. CASE EndClosing
    BY <1>9 DEF TypeOK, EndClosing, brokerVars
<1>10. ASSUME NEW next \in {"top", "manage"}, Recheck(next)
       PROVE  TypeOK'
  <2>1. guard' \in Guard
      BY <1>10 DEF TypeOK, Recheck, Guard
  <2> QED  BY <1>10, <2>1 DEF TypeOK, Recheck, brokerVars
<1>11. CASE Manage
    BY <1>11 DEF TypeOK, Manage, brokerVars
<1>12. CASE EndEntry
    BY <1>12 DEF TypeOK, EndEntry, brokerVars
<1>13. CASE CycleError
    BY <1>13 DEF TypeOK, CycleError, brokerVars
<1>14. CASE UNCHANGED vars
    BY <1>14 DEF TypeOK, vars, brokerVars
<1> QED
    BY <1>1, <1>2, <1>3, <1>4, <1>5, <1>6, <1>7, <1>8, <1>9, <1>10, <1>11, <1>12, <1>13, <1>14
       DEF Next, Market, Loop, FastPath, ManageDue

\* Every variable keeps its type.
THEOREM TypeCorrect == Spec => []TypeOK
BY TypeInit, TypeStep, PTL DEF Spec

(***************************************************************************)
(* The capped day.  The inductive part is that an entry cycle only runs    *)
(* while the guards allow it: they are judged at its start, and nothing    *)
(* touches them before it ends.                                            *)
(***************************************************************************)
EntryInv == pc = "entry" => EntriesAllowed(guard)

LEMMA EntryStep == EntryInv /\ [Next]_vars => EntryInv'
<1> SUFFICES ASSUME EntryInv, [Next]_vars
             PROVE  EntryInv'
    OBVIOUS
<1> USE DEF EntryInv
<1>1. ASSUME NEW d \in {-1, 1}, Move(d)  PROVE EntryInv'
    BY <1>1 DEF Move, EntriesAllowed
<1>2. ASSUME NEW p \in Slots, BrokerClose(p)  PROVE EntryInv'
    BY <1>2 DEF BrokerClose, EntriesAllowed
<1>3. CASE Midnight
    BY <1>3 DEF Midnight, EntriesAllowed
<1>4. ASSUME NEW l \in Logins, SwitchAccount(l)  PROVE EntryInv'
    BY <1>4 DEF SwitchAccount, EntriesAllowed
<1>5. CASE GuardPass
    BY <1>5 DEF GuardPass
<1>6. ASSUME NEW p \in Slots, CloseFilled(p) \/ CloseFailed(p) \/ Enter(p)  PROVE EntryInv'
    BY <1>6 DEF CloseFilled, CloseFailed, Enter, EntriesAllowed
<1>7. CASE EndClosing \/ FastPath \/ ManageDue \/ EndEntry \/ CycleError
    BY <1>7 DEF EndClosing, FastPath, ManageDue, Recheck, EndEntry, CycleError
<1>8. CASE Manage
    BY <1>8 DEF Manage, EntriesAllowed
<1>9. CASE UNCHANGED vars
    BY <1>9 DEF vars, EntriesAllowed
<1> QED
    BY <1>1, <1>2, <1>3, <1>4, <1>5, <1>6, <1>7, <1>8, <1>9 DEF Next, Market, Loop

\* What one step may do on a capped day: nothing.
DayOver == guard.loss /\ book = {} /\ open = {} /\ SameDay
               => guard'.loss /\ book' = {} /\ open' = {} /\ bal' = bal

LEMMA DayOverStep == TypeOK /\ EntryInv /\ [Next]_vars => DayOver
<1> SUFFICES ASSUME TypeOK, EntryInv, [Next]_vars,
                    guard.loss, book = {}, open = {}, SameDay
             PROVE  guard'.loss /\ book' = {} /\ open' = {} /\ bal' = bal
    BY DEF DayOver
<1> DEFINE Goal == guard'.loss /\ book' = {} /\ open' = {} /\ bal' = bal
<1>1. ASSUME NEW d \in {-1, 1}, Move(d)  PROVE Goal
    BY <1>1 DEF Move
<1>2. ASSUME NEW p \in Slots, BrokerClose(p)  PROVE Goal
    BY <1>2 DEF BrokerClose
<1>3. CASE Midnight
    BY <1>3 DEF Midnight
<1>4. ASSUME NEW l \in Logins, SwitchAccount(l)  PROVE Goal
    BY <1>4 DEF SwitchAccount
<1>5. CASE GuardPass
  <2>1. CASE guard' = Refreshed(guard, Account)
    <3>1. CASE Account.eq <= 0
        BY <1>5, <2>1, <3>1 DEF GuardPass, Refreshed, brokerVars
    <3>2. CASE ~(Account.eq <= 0)
      <4>1. guard' = Judged(Rolled(guard, Account), Account)
          BY <2>1, <3>2 DEF Refreshed
      <4>2. guard'.date = Rolled(guard, Account).date /\ guard'.login = Rolled(guard, Account).login
          BY <4>1, RefreshedType, <2>1 DEF Judged, Rolled, TypeOK, Guard
      <4>3. guard.date = date /\ guard.login = Account.login
          BY <4>2 DEF Rolled, SameDay, TypeOK, Guard
      <4>4. Rolled(guard, Account).loss = guard.loss
          BY <4>3 DEF Rolled, TypeOK, Guard
      <4>5. guard'.loss
          BY <4>1, <4>3, <4>4 DEF Judged, Rolled, TypeOK, Guard
      <4> QED  BY <1>5, <4>5 DEF GuardPass, brokerVars
    <3> QED  BY <3>1, <3>2
  <2>2. CASE UNCHANGED guard
      BY <1>5, <2>2 DEF GuardPass, brokerVars
  <2> QED  BY <1>5, <2>1, <2>2 DEF GuardPass
<1>6. ASSUME NEW p \in Slots, CloseFilled(p)  PROVE Goal
    BY <1>6 DEF CloseFilled
<1>7. ASSUME NEW p \in Slots, CloseFailed(p)  PROVE Goal
    BY <1>7 DEF CloseFailed, brokerVars
<1>8. ASSUME NEW p \in Slots, Enter(p)  PROVE Goal
    BY <1>8 DEF Enter, EntryInv, EntriesAllowed
<1>9. ASSUME NEW next, Recheck(next)  PROVE Goal
    BY <1>9 DEF Recheck, brokerVars, TypeOK, Guard
<1>10. CASE EndClosing \/ EndEntry \/ CycleError
    BY <1>10 DEF EndClosing, EndEntry, CycleError, brokerVars
<1>11. CASE Manage
    BY <1>11 DEF Manage, brokerVars
<1>12. CASE UNCHANGED vars
    BY <1>12 DEF vars, brokerVars
<1> QED
    BY <1>1, <1>2, <1>3, <1>4, <1>5, <1>6, <1>7, <1>8, <1>9, <1>10, <1>11, <1>12
       DEF Next, Market, Loop, FastPath, ManageDue

\* After the loss limit has fired and the account is flat, no step of the
\* trader or the broker touches the account before the next anchor.
THEOREM LossCapsTheDay == Spec => LossDayIsOver
<1>1. Init => EntryInv
    BY DEF Init, EntryInv
<1>2. TypeOK /\ EntryInv /\ [Next]_vars => [DayOver]_vars
    BY DayOverStep
<1> QED  BY <1>1, <1>2, EntryStep, TypeCorrect, PTL DEF Spec, LossDayIsOver, DayOver

(***************************************************************************)
(* The latched breaker.                                                    *)
(***************************************************************************)
BreakerKept == guard.dd /\ SameDay => guard'.dd /\ orders' = orders

LEMMA BreakerStep == TypeOK /\ EntryInv /\ [Next]_vars => BreakerKept
<1> SUFFICES ASSUME TypeOK, EntryInv, [Next]_vars, guard.dd, SameDay
             PROVE  guard'.dd /\ orders' = orders
    BY DEF BreakerKept
<1> DEFINE Goal == guard'.dd /\ orders' = orders
<1>1. ASSUME NEW d \in {-1, 1}, Move(d)  PROVE Goal
    BY <1>1 DEF Move
<1>2. ASSUME NEW p \in Slots, BrokerClose(p)  PROVE Goal
    BY <1>2 DEF BrokerClose
<1>3. CASE Midnight
    BY <1>3 DEF Midnight
<1>4. ASSUME NEW l \in Logins, SwitchAccount(l)  PROVE Goal
    BY <1>4 DEF SwitchAccount
<1>5. CASE GuardPass
  <2>1. CASE guard' = Refreshed(guard, Account)
    <3>1. CASE Account.eq <= 0
        BY <1>5, <2>1, <3>1 DEF GuardPass, Refreshed, brokerVars
    <3>2. CASE ~(Account.eq <= 0)
      <4>1. guard' = Judged(Rolled(guard, Account), Account)
          BY <2>1, <3>2 DEF Refreshed
      <4>2. guard'.date = Rolled(guard, Account).date /\ guard'.login = Rolled(guard, Account).login
          BY <4>1 DEF Judged, Rolled, TypeOK, Guard
      <4>3. guard.date = date /\ guard.login = Account.login
          BY <4>2 DEF Rolled, SameDay, TypeOK, Guard
      <4>4. Rolled(guard, Account).dd = guard.dd
          BY <4>3 DEF Rolled, TypeOK, Guard
      <4>5. guard'.dd
          BY <4>1, <4>3, <4>4 DEF Judged, Rolled, TypeOK, Guard
      <4> QED  BY <1>5, <4>5 DEF GuardPass, brokerVars
    <3> QED  BY <3>1, <3>2
  <2>2. CASE UNCHANGED guard
      BY <1>5, <2>2 DEF GuardPass, brokerVars
  <2> QED  BY <1>5, <2>1, <2>2 DEF GuardPass
<1>6. ASSUME NEW p \in Slots, CloseFilled(p) \/ CloseFailed(p)  PROVE Goal
    BY <1>6 DEF CloseFilled, CloseFailed, brokerVars
<1>7. ASSUME NEW p \in Slots, Enter(p)  PROVE Goal
    BY <1>7 DEF Enter, EntryInv, EntriesAllowed
<1>8. ASSUME NEW next, Recheck(next)  PROVE Goal
    BY <1>8 DEF Recheck, brokerVars, TypeOK, Guard
<1>9. CASE EndClosing \/ Manage \/ EndEntry \/ CycleError
    BY <1>9 DEF EndClosing, Manage, EndEntry, CycleError, brokerVars
<1>10. CASE UNCHANGED vars
    BY <1>10 DEF vars, brokerVars
<1> QED
    BY <1>1, <1>2, <1>3, <1>4, <1>5, <1>6, <1>7, <1>8, <1>9, <1>10
       DEF Next, Market, Loop, FastPath, ManageDue

\* Once the drawdown breaker has fired, no reading, retry or error lets an order
\* through before the next anchor.
THEOREM BreakerKeepsOut == Spec => BreakerHolds
<1>1. Init => EntryInv
    BY DEF Init, EntryInv
<1>2. TypeOK /\ EntryInv /\ [Next]_vars => [BreakerKept]_vars
    BY BreakerStep
<1> QED  BY <1>1, <1>2, EntryStep, TypeCorrect, PTL DEF Spec, BreakerHolds, BreakerKept

(***************************************************************************)
(* No phantom halt.  An account nothing was traded on stands where it      *)
(* started, flat; anchored to it, the guard shows that same amount and has *)
(* nothing to fire on.                                                     *)
(***************************************************************************)
UntouchedAccounts ==
    /\ open # {} => login \in traded
    /\ open = {} => flo = 0
    /\ \A l \in Logins \ traded : bal[l] = StartBalance[l]

QuietGuard ==
    \A l \in Logins \ traded :
        guard.login = l =>
            /\ guard.sb = StartBalance[l]
            /\ guard.se = StartBalance[l]
            /\ guard.peak = StartBalance[l]
            /\ ~guard.loss /\ ~guard.lock /\ ~guard.dd

PhantomInv == UntouchedAccounts /\ QuietGuard

LEMMA PositiveProduct ==
    ASSUME NEW a \in Nat \ {0}, NEW b \in Nat \ {0}
    PROVE  a * b \in Nat \ {0}
BY Z3

\* An account that stands exactly at its anchors fires nothing.
LEMMA QuietFires ==
    ASSUME NEW m \in Nat \ {0}, NEW g, NEW a,
           g.sb = m, g.se = m, g.peak = m, a.eq = m
    PROVE  ~LossHit(g, a) /\ ~TargetHit(g, a) /\ ~DrawdownHit(g, a)
<1>1. LossPct \in Nat \ {0} /\ LossPct * m \in Nat \ {0}
    BY PositiveProduct, LossPct \in Nat \ {0}
<1>2. ~LossHit(g, a)
  <2>1. 100 * (a.eq - g.sb) = 0
      OBVIOUS
  <2>2. ~(0 <= -(LossPct * m))
      BY <1>1
  <2> QED  BY <2>1, <2>2 DEF LossHit
<1>3. ~TargetHit(g, a)
  <2>1. CASE TargetPct = 0
      BY <2>1 DEF TargetHit
  <2>2. CASE TargetPct # 0
    <3>1. TargetPct * m \in Nat \ {0}
        BY <2>2, PositiveProduct, TargetPct \in Nat \ {0}
    <3>2. 100 * (a.eq - g.sb) = 0
        OBVIOUS
    <3> QED  BY <3>1, <3>2 DEF TargetHit
  <2> QED  BY <2>1, <2>2
<1>4. ~DrawdownHit(g, a)
  <2>1. DrawdownPct * m \in Nat \ {0}
      BY PositiveProduct, DrawdownPct \in Nat \ {0}
  <2>2. m * (100 - DrawdownPct) = 100 * m - DrawdownPct * m
      BY Z3
  <2> QED  BY <2>1, <2>2 DEF DrawdownHit
<1> QED  BY <1>2, <1>3, <1>4

LEMMA QuietRefresh ==
    ASSUME TypeOK, PhantomInv, login \notin traded
    PROVE  LET g == Refreshed(guard, Account)
           IN  g.login = login =>
                   /\ g.sb = StartBalance[login]
                   /\ g.se = StartBalance[login]
                   /\ g.peak = StartBalance[login]
                   /\ ~g.loss /\ ~g.lock /\ ~g.dd
<1> DEFINE m == StartBalance[login]
           r == Rolled(guard, Account)
<1>1. m \in Nat \ {0}
    BY DEF TypeOK
<1>2. /\ Account.login = login
      /\ Account.bal = m
      /\ Account.eq = m
    BY DEF TypeOK, PhantomInv, UntouchedAccounts, Account, Equity
<1>3. /\ r.login = login
      /\ r.sb = m /\ r.se = m /\ r.peak = m
      /\ ~r.loss /\ ~r.lock /\ ~r.dd
    BY <1>1, <1>2 DEF PhantomInv, QuietGuard, Rolled, TypeOK, Guard
<1>4. r \in Guard
    BY <1>1, <1>2 DEF TypeOK, Guard, Rolled
<1>5. ~LossHit(r, Account) /\ ~TargetHit(r, Account) /\ ~DrawdownHit(r, Account)
    BY <1>1, <1>2, <1>3, QuietFires
<1>6. Refreshed(guard, Account) = Judged(r, Account)
    BY <1>1, <1>2 DEF Refreshed
<1> HIDE DEF m, r
<1> QED  BY <1>3, <1>4, <1>5, <1>6 DEF Judged, Guard, m

\* A close happens on an account that has traded, and leaves it flat or not.
LEMMA RealizeKeepsUntouched ==
    ASSUME TypeOK, UntouchedAccounts, NEW p \in open, Realize(p),
           UNCHANGED <<login, traded>>
    PROVE  UntouchedAccounts'
<1>1. login \in traded
    BY DEF UntouchedAccounts
<1>2. PICK share \in -MaxMove..MaxMove, slip \in {0, 1} :
          /\ open = {p} => share = flo
          /\ open' = open \ {p}
          /\ flo' = flo - share
          /\ bal' = [bal EXCEPT ![login] = @ + share - slip]
    BY DEF Realize
<1>3. open' = {} => flo' = 0
  <2>1. open' = {} => open = {p}
      BY <1>2
  <2> QED  BY <1>2, <2>1 DEF TypeOK
<1>4. \A l \in Logins \ traded : bal'[l] = StartBalance[l]
    BY <1>1, <1>2 DEF UntouchedAccounts, TypeOK
<1> QED  BY <1>1, <1>3, <1>4 DEF UntouchedAccounts

LEMMA PhantomInit == Init => PhantomInv
BY DEF Init, PhantomInv, UntouchedAccounts, QuietGuard

LEMMA PhantomStep == TypeOK /\ PhantomInv /\ [Next]_vars => PhantomInv'
<1> SUFFICES ASSUME TypeOK, PhantomInv, [Next]_vars
             PROVE  PhantomInv'
    OBVIOUS
<1> USE DEF PhantomInv
<1>1. ASSUME NEW d \in {-1, 1}, Move(d)
      PROVE  PhantomInv'
    BY <1>1 DEF Move, UntouchedAccounts, QuietGuard
<1>2. ASSUME NEW p \in Slots, BrokerClose(p)
      PROVE  PhantomInv'
  <2>1. UntouchedAccounts'
      BY <1>2, RealizeKeepsUntouched DEF BrokerClose
  <2> QED  BY <1>2, <2>1 DEF BrokerClose, QuietGuard
<1>3. CASE Midnight
    BY <1>3 DEF Midnight, UntouchedAccounts, QuietGuard
<1>4. ASSUME NEW l \in Logins, SwitchAccount(l)
      PROVE  PhantomInv'
    BY <1>4 DEF SwitchAccount, UntouchedAccounts, QuietGuard
<1>5. CASE GuardPass
  <2>1. UntouchedAccounts'
      BY <1>5 DEF GuardPass, brokerVars, UntouchedAccounts
  <2>2. CASE guard' = Refreshed(guard, Account)
    <3>1. \A l \in Logins : guard'.login = l => l = login \/ guard' = guard
        BY <2>2 DEF Refreshed, Judged, Rolled, Account, TypeOK, Guard
    <3>2. traded' = traded
        BY <1>5 DEF GuardPass, brokerVars
    <3>3. SUFFICES ASSUME NEW l \in Logins \ traded, guard'.login = l
                   PROVE  /\ guard'.sb = StartBalance[l]
                          /\ guard'.se = StartBalance[l]
                          /\ guard'.peak = StartBalance[l]
                          /\ ~guard'.loss /\ ~guard'.lock /\ ~guard'.dd
        BY <2>1, <3>2 DEF QuietGuard
    <3>4. CASE l = login
        BY <2>2, <3>3, <3>4, QuietRefresh
    <3>5. CASE guard' = guard
        BY <3>3, <3>5 DEF QuietGuard
    <3> QED  BY <3>1, <3>3, <3>4, <3>5
  <2>3. CASE UNCHANGED guard
      BY <1>5, <2>1, <2>3 DEF GuardPass, brokerVars, QuietGuard
  <2> QED  BY <1>5, <2>2, <2>3 DEF GuardPass
<1>6. ASSUME NEW p \in Slots, CloseFilled(p)
      PROVE  PhantomInv'
  <2>1. UntouchedAccounts'
      BY <1>6, RealizeKeepsUntouched DEF CloseFilled
  <2> QED  BY <1>6, <2>1 DEF CloseFilled, QuietGuard
<1>7. ASSUME NEW p \in Slots, CloseFailed(p)
      PROVE  PhantomInv'
    BY <1>7 DEF CloseFailed, brokerVars, UntouchedAccounts, QuietGuard
<1>8. ASSUME NEW p \in Slots, Enter(p)
      PROVE  PhantomInv'
    BY <1>8 DEF Enter, UntouchedAccounts, QuietGuard
<1>9. ASSUME NEW next, Recheck(next)
      PROVE  PhantomInv'
  <2>1. UntouchedAccounts'
      BY <1>9 DEF Recheck, brokerVars, UntouchedAccounts
  <2>2. QuietGuard'
      BY <1>9 DEF Recheck, brokerVars, QuietGuard, TypeOK, Guard
  <2> QED  BY <2>1, <2>2
<1>10. CASE EndClosing \/ Manage \/ EndEntry \/ CycleError
    BY <1>10 DEF EndClosing, Manage, EndEntry, CycleError, brokerVars, UntouchedAccounts, QuietGuard
<1>11. CASE UNCHANGED vars
    BY <1>11 DEF vars, brokerVars, UntouchedAccounts, QuietGuard
<1> QED
    BY <1>1, <1>2, <1>3, <1>4, <1>5, <1>6, <1>7, <1>8, <1>9, <1>10, <1>11
       DEF Next, Market, Loop, FastPath, ManageDue

\* An account on which nothing was ever traded is never halted, whatever the
\* trader did on another account before.
THEOREM NoHaltOnPhantomProfit == Spec => []NoPhantomHalt
<1>1. PhantomInv => NoPhantomHalt
    BY DEF PhantomInv, QuietGuard, NoPhantomHalt
<1> QED  BY <1>1, PhantomInit, PhantomStep, TypeCorrect, PTL DEF Spec
=============================================================================
