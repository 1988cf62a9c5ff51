------------------------------ MODULE ExitStack ------------------------------
(***************************************************************************)
(* The exit stack of one real position: src/live/position_manager.py       *)
(* evaluate, and the way src/live/live_trader.py applies what it returns   *)
(* (_manage, step 1 of _entry_cycle, _apply_actions).                      *)
(*                                                                         *)
(* Prices are profits: s * (price - entry) in twentieths of the ATR at     *)
(* entry, so that LONG and SHORT are one model and a higher stop is always *)
(* a better stop.  Volumes are in hundredths of a volume step, so that the *)
(* parts evaluate asks for are seen before and after they are rounded.     *)
(*                                                                         *)
(* evaluate judges one snapshot and returns a list; the list is applied    *)
(* order by order, while the market moves and the broker's bracket fills.  *)
(* Nothing is written back to the state before the whole list is done, and *)
(* nothing reaches the file before the end of the cycle.                   *)
(***************************************************************************)
EXTENDS Integers, Sequences

CONSTANTS
    Prices,       \* profits the market can show
    Volumes,      \* volumes a position can have when it is first tracked
    VolumeMin,    \* the smallest volume the broker deals in
    FallsShort,   \* whole steps whose quotient by the step, in floating
                  \* point, lies below the whole number: 0.3 / 0.1, 0.29 / 0.01
    FaultKinds,   \* which failures this instance allows
    MaxFaults,    \* bound on the number of failures
    MaxBars,      \* bound on the hours a position is watched
    StopAtr, TakeAtr,                         \* the bracket at entry
    ScaleOut1, ScaleOut2, ScalePct,           \* rungs and share of a scale-out
    LockArm, LockPlus,                        \* breakeven lock
    RatchetArm, RatchetLock, Ratchet2Arm, Ratchet2Lock,
    TrailArm, TrailDistance,
    RetraceArm, RetraceKeepPct,
    PartialBars, PartialProfit, TimeLimit,
    FlipExit, FlipTighten

AllFaults ==
    { "lost",     \* an order is executed but order_send returned None
      "blind",    \* the resync's positions() shows nothing
      "noprice",  \* the manage pass gets no tick for the symbol
      "nospecs",  \* symbol_info returns None when a part is rounded
      "raise",    \* an exception ends the cycle early
      "crash" }   \* the process dies

ASSUME FaultAssumption == FaultKinds \subseteq AllFaults /\ MaxFaults \in Nat

Step == 100
WholeSteps == {v \in Nat \ {0} : v % Step = 0}

\* The smallest volume is a multiple of the step that does not fall short.
ASSUME SizeAssumption ==
    /\ Prices \subseteq Int /\ MaxBars \in Nat
    /\ VolumeMin \in WholeSteps
    /\ Volumes \subseteq {v \in WholeSteps : v >= VolumeMin}
    /\ FallsShort \subseteq {v \in WholeSteps : v > VolumeMin}
ASSUME SettingsAssumption ==
    /\ {StopAtr, TakeAtr, ScaleOut1, ScaleOut2, LockArm, LockPlus,
        RatchetArm, RatchetLock, Ratchet2Arm, Ratchet2Lock, TrailArm,
        TrailDistance, RetraceArm, PartialBars, PartialProfit, TimeLimit,
        FlipExit, FlipTighten} \subseteq Nat
    /\ ScalePct \in 0..100 /\ RetraceKeepPct \in 0..100

\* The ladder's rungs lock more the later they arm, and trailing starts above
\* what is locked by then.
ASSUME LadderAssumption ==
    /\ LockPlus <= RatchetLock /\ RatchetLock <= Ratchet2Lock
    /\ RatchetLock <= TrailArm - TrailDistance
    /\ Ratchet2Lock <= Ratchet2Arm - TrailDistance
    /\ LockArm <= RatchetArm /\ RatchetArm <= TrailArm /\ TrailArm <= Ratchet2Arm

VARIABLES
    bars,    \* whole hours since entry
    bvol,    \* volume at the broker, 0 when the position is closed
    bsl,     \* stop at the broker
    sold,    \* ghost: partial closes the broker executed, by reason
    mem,     \* the position in the state dict
    disk,    \* the position in the state file
    pos,     \* the copy _manage and _entry_cycle work on
    acts,    \* what is left of evaluate's list
    pc,
    faults   \* kinds of the failures so far

brokerVars == <<bars, bvol, bsl, sold>>
vars == <<brokerVars, mem, disk, pos, acts, pc, faults>>

Partials == {"scale_out_1", "scale_out_2", "time_partial"}

\* tracked: the ticket is in state["positions"].  atr: the ATR is known, pos.atr
\* > 0.  done: the partials whose flag (scaled_1, scaled_2, time_partialed) is
\* set.  tight: flip_tightened.
Position == [tracked : BOOLEAN, atr : BOOLEAN, initial : Nat, vol : Int, sl : Int,
             peak : Int, done : SUBSET Partials, tight : BOOLEAN]

Action == [kind : {"set_sl", "close_volume", "close_all"}, arg : Int,
           why : Partials \cup {"breakeven_lock", "ratchet", "ratchet2", "trailing",
                                "flip_tighten", "exit"}]

TypeOK ==
    /\ bars \in 0..MaxBars
    /\ bvol \in Int
    /\ bsl \in Int
    /\ sold \in [Partials -> Nat]
    /\ mem \in Position
    /\ disk \in Position
    /\ pos \in Position
    /\ acts \in Seq(Action)
    /\ pc \in {"down", "idle", "manage", "managed", "rejudge", "save"}
    /\ faults \in Seq(FaultKinds) /\ Len(faults) <= MaxFaults

\* A position the state has not seen before, as the broker has it.
FirstSeen(known) ==
    [tracked |-> TRUE, atr |-> known, initial |-> bvol, vol |-> bvol, sl |-> bsl,
     peak |-> 0, done |-> {}, tight |-> FALSE]

\* Below every price: the broker has no stop for the position.
NoStop == -10000

\* _execute_entry: filled with its bracket, recorded and saved.  Or
\* adopt_position: the ATR comes from the bars or, if they give none, from the
\* stop; a position with neither is managed without an ATR.  (One whose ATR is
\* known and that has no stop is one whose StopAtr is very large.)
Init ==
    /\ bars = 0
    /\ bvol \in Volumes
    /\ sold = [p \in Partials |-> 0]
    /\ \E known \in BOOLEAN :
          bsl = (IF known THEN -StopAtr ELSE NoStop) /\ mem = FirstSeen(known)
    /\ disk = mem
    /\ pos = mem
    /\ acts = <<>>
    /\ pc = "idle"
    /\ faults = <<>>

NoFault == UNCHANGED faults

Fault(kind) ==
    /\ kind \in FaultKinds
    /\ Len(faults) < MaxFaults
    /\ faults' = Append(faults, kind)

-----------------------------------------------------------------------------
(* evaluate *)

SetSl(x, why) == [kind |-> "set_sl", arg |-> x, why |-> why]
CloseVolume(lots, why) == [kind |-> "close_volume", arg |-> lots, why |-> why]

CloseAll == [kind |-> "close_all", arg |-> 0, why |-> "exit"]

When(condition, action) == IF condition THEN <<action>> ELSE <<>>

Higher(x, y) == IF x > y THEN x ELSE y
Lower(x, y) == IF x < y THEN x ELSE y

\* SCALE_OUT_PCT of the initial volume.
Third(p) == (ScalePct * p.initial) \div 100

\* Slip: asks for no flag.
ScaleOutsAgain(p, peak) ==
    When(peak >= ScaleOut1, CloseVolume(Third(p), "scale_out_1"))

\* The second rung waits for a pass that finds the first one done.
ScaleOuts(p, peak) ==
    When("scale_out_1" \notin p.done /\ peak >= ScaleOut1,
         CloseVolume(Third(p), "scale_out_1"))
    \o When("scale_out_1" \in p.done /\ "scale_out_2" \notin p.done /\ peak >= ScaleOut2,
            CloseVolume(Lower(Third(p), p.vol), "scale_out_2"))

\* Breakeven lock, ratchet ladder and trailing, each judged against the stop of
\* the snapshot.
Stops(p, peak) ==
    When(peak >= LockArm /\ LockPlus > p.sl, SetSl(LockPlus, "breakeven_lock"))
    \o When(peak >= Ratchet2Arm /\ Ratchet2Lock > p.sl, SetSl(Ratchet2Lock, "ratchet2"))
    \o When(peak >= RatchetArm /\ peak < Ratchet2Arm /\ RatchetLock > p.sl,
            SetSl(RatchetLock, "ratchet"))
    \o When(peak >= TrailArm /\ peak - TrailDistance > p.sl,
            SetSl(peak - TrailDistance, "trailing"))

TimePartial(p, profit) ==
    When("time_partial" \notin p.done /\ bars >= PartialBars /\ profit < PartialProfit,
         CloseVolume(p.vol \div 2, "time_partial"))

\* Slip: only a losing position is timed out.
TimedOutLosing(profit) == bars >= TimeLimit /\ profit < 0

TimedOut(profit) == bars >= TimeLimit

Tightens(p) == ~p.tight /\ -FlipTighten > p.sl

\* The list for a position p at this profit: nothing without an ATR to measure it
\* in.  friday: the flatten hour of a forex or metal position.  opposes: the
\* brain has turned against it, FALSE on a manage pass.
Evaluate(p, profit, friday, opposes) ==
    LET peak == Higher(p.peak, profit)
        always == ScaleOuts(p, peak) \o Stops(p, peak)
        partial == always \o TimePartial(p, profit)
    IN  IF ~p.atr
        THEN <<>>
        ELSE IF peak >= RetraceArm /\ 100 * profit < RetraceKeepPct * peak
        THEN Append(always, CloseAll)
        ELSE IF TimedOut(profit) \/ friday \/ (opposes /\ profit >= FlipExit)
        THEN Append(partial, CloseAll)
        ELSE partial \o When(opposes /\ Tightens(p), SetSl(-FlipTighten, "flip_tighten"))

-----------------------------------------------------------------------------
(* The market and the clock.  The market moves at any time to any price, so it
   is not a variable: a price is what a read of it returns.                *)

\* The market reaches the stop or the target.
BracketFill ==
    /\ bvol > 0
    /\ bvol' = 0
    /\ UNCHANGED <<bars, bsl, sold, mem, disk, pos, acts, pc, faults>>

Hour ==
    /\ bvol > 0
    /\ bars < MaxBars
    /\ bars' = bars + 1
    /\ UNCHANGED <<bvol, bsl, sold, mem, disk, pos, acts, pc, faults>>

-----------------------------------------------------------------------------
(* One cycle: reconcile, manage, and re-judge when an entry cycle is due *)

\* While the position is open the market is inside its bracket.
LivePrices == {x \in Prices : bvol > 0 => bsl < x /\ x < TakeAtr}

Judge(p, price, friday, opposes) ==
    /\ pos' = p
    /\ acts' = Evaluate(p, price, friday, opposes)

\* Slip: the stop is not taken from the broker.
ResyncedVolume == [mem EXCEPT !.vol = bvol]

\* The broker's volume and stop replace the tracked ones.
Resynced == [mem EXCEPT !.vol = bvol, !.sl = bsl]

WithPeak(p, price) == [p EXCEPT !.peak = Higher(@, price)]

\* reconcile finds the position closed away, and finalizes it.
Settle ==
    /\ pc = "idle"
    /\ mem.tracked
    /\ bvol = 0
    /\ mem' = [mem EXCEPT !.tracked = FALSE]
    /\ pos' = mem'
    /\ pc' = "save"
    /\ UNCHANGED <<brokerVars, disk, acts, faults>>

\* reconcile finds a position at the broker that the state does not know: what a
\* close of the whole position left.  Its stop gives the ATR if the bars do not.
Adopt ==
    /\ pc = "idle"
    /\ ~mem.tracked
    /\ bvol > 0
    /\ mem' = FirstSeen(TRUE)
    /\ pos' = mem'
    /\ UNCHANGED <<brokerVars, disk, acts, pc, faults>>

Manage(price, friday) ==
    /\ pc = "idle"
    /\ mem.tracked
    /\ bvol > 0
    /\ price \in LivePrices
    /\ \/ NoFault /\ Judge(WithPeak(Resynced, price), price, friday, FALSE)
       \/ Fault("blind") /\ Judge(WithPeak(mem, price), price, friday, FALSE)
    /\ pc' = "manage"
    /\ UNCHANGED <<brokerVars, mem, disk>>

\* No live price: the position is passed over, and its resync is not kept.
NoPrice ==
    /\ pc = "idle"
    /\ mem.tracked
    /\ bvol > 0
    /\ Fault("noprice")
    /\ pc' = "managed"
    /\ UNCHANGED <<brokerVars, mem, disk, pos, acts>>

\* The tracked position as the manage pass left it, not as the broker has it.
Rejudge(price, friday, opposes) ==
    /\ pc = "managed"
    /\ mem.tracked
    /\ price \in LivePrices
    /\ Judge(mem, price, friday, opposes)
    /\ pc' = "rejudge"
    /\ UNCHANGED <<brokerVars, mem, disk, faults>>

EndManage ==
    /\ pc = "managed"
    /\ pc' = "save"
    /\ UNCHANGED <<brokerVars, mem, disk, pos, acts, faults>>

-----------------------------------------------------------------------------
(* _apply_actions, one order at a time *)

Pending(kind) == pc \in {"manage", "rejudge"} /\ acts # <<>> /\ Head(acts).kind = kind

\* The broker may reject any order: it accepts a stop on its own side of the
\* market only, and where the market is by now is anybody's guess.
ApplySetSl ==
    /\ Pending("set_sl")
    /\ \/ NoFault /\ bvol > 0
          /\ bsl' = Head(acts).arg
          /\ pos' = [pos EXCEPT !.sl = Head(acts).arg,
                                !.tight = @ \/ Head(acts).why = "flip_tighten"]
       \/ Fault("lost") /\ bvol > 0 /\ bsl' = Head(acts).arg /\ UNCHANGED pos
       \/ NoFault /\ UNCHANGED <<bsl, pos>>
    /\ acts' = Tail(acts)
    /\ UNCHANGED <<bars, bvol, sold, mem, disk, pc>>

\* _round_volume: whole steps, and nothing below the smallest volume.
Floored(lots) ==
    LET whole == lots - (lots % Step)
    IN  IF lots \in FallsShort THEN whole - Step ELSE whole

Rounded(lots) == IF Floored(lots) < VolumeMin THEN 0 ELSE Floored(lots)

\* Slip: nothing keeps a partial close from being all there is.
SellableAll(lots) == lots > 0

Sellable(lots) == lots > 0 /\ lots < pos.vol

\* What close_position sells: it rounds once more, and takes the whole position
\* when that leaves nothing.
Sold(lots) ==
    LET vol == Rounded(Lower(lots, bvol))
    IN  IF vol = 0 THEN bvol ELSE vol

Failing(kinds) ==
    /\ \A k \in DOMAIN kinds : kinds[k] \in FaultKinds
    /\ Len(faults) + Len(kinds) <= MaxFaults
    /\ faults' = faults \o kinds

\* Without the symbol's specs _apply_actions passes the part on as it is.
PartialFill ==
    /\ Pending("close_volume")
    /\ bvol > 0
    /\ \E specs, reply \in BOOLEAN :
          LET lots == IF specs THEN Rounded(Head(acts).arg) ELSE Head(acts).arg
          IN  /\ Failing(When(~specs, "nospecs") \o When(~reply, "lost"))
              /\ Sellable(lots)
              /\ bvol' = bvol - Sold(lots)
              /\ pos' = IF reply THEN [pos EXCEPT !.vol = @ - lots,
                                                 !.done = @ \cup {Head(acts).why}]
                                 ELSE pos
    /\ sold' = [sold EXCEPT ![Head(acts).why] = @ + 1]
    /\ acts' = Tail(acts)
    /\ UNCHANGED <<bars, bsl, mem, disk, pc>>

\* Too small, too large, or rejected.
PartialSkipped ==
    /\ Pending("close_volume")
    /\ acts' = Tail(acts)
    /\ UNCHANGED <<brokerVars, mem, disk, pos, pc, faults>>

\* The trade is finalized whatever the rounding left at the broker.
CloseFill ==
    /\ Pending("close_all")
    /\ bvol > 0
    /\ bvol' = bvol - Sold(bvol)
    /\ \/ NoFault
          /\ mem' = [mem EXCEPT !.tracked = FALSE]
          /\ pos' = mem'
          /\ pc' = "save"
       \/ Fault("lost") /\ UNCHANGED <<mem, pos, pc>>
    /\ acts' = <<>>
    /\ UNCHANGED <<bars, bsl, sold, disk>>

CloseRejected ==
    /\ Pending("close_all")
    /\ acts' = <<>>
    /\ UNCHANGED <<brokerVars, mem, disk, pos, pc, faults>>

\* The list is done: the copy goes back to the state dict.
WriteBack ==
    /\ pc \in {"manage", "rejudge"}
    /\ acts = <<>>
    /\ mem' = pos
    /\ pc' = IF pc = "manage" THEN "managed" ELSE "save"
    /\ UNCHANGED <<brokerVars, disk, pos, acts, faults>>

Save ==
    /\ pc = "save"
    /\ disk' = mem
    /\ pc' = "idle"
    /\ UNCHANGED <<brokerVars, mem, pos, acts, faults>>

\* run's except clause: what the copy has learnt is lost.
CycleError ==
    /\ pc \in {"manage", "managed", "rejudge"}
    /\ Fault("raise")
    /\ pc' = "idle"
    /\ pos' = mem
    /\ acts' = <<>>
    /\ UNCHANGED <<brokerVars, mem, disk>>

Crash ==
    /\ pc # "down"
    /\ Fault("crash")
    /\ pc' = "down"
    /\ mem' = disk
    /\ pos' = disk
    /\ acts' = <<>>
    /\ UNCHANGED <<brokerVars, disk>>

Boot ==
    /\ pc = "down"
    /\ pc' = "idle"
    /\ UNCHANGED <<brokerVars, mem, disk, pos, acts, faults>>

-----------------------------------------------------------------------------
Apply == ApplySetSl \/ PartialFill \/ PartialSkipped \/ CloseFill \/ CloseRejected \/ WriteBack

Cycle ==
    \/ \E price \in Prices, friday \in BOOLEAN :
          \/ Manage(price, friday)
          \/ \E opposes \in BOOLEAN : Rejudge(price, friday, opposes)
    \/ Settle \/ Adopt \/ NoPrice \/ EndManage \/ Apply \/ Save \/ Boot

Next ==
    \/ BracketFill
    \/ Hour
    \/ Cycle
    \/ CycleError \/ Crash

Spec == Init /\ [][Next]_vars

\* Time passes, the loop goes on, and a close that is asked for ever is filled
\* at some time.
Fairness ==
    /\ WF_vars(Hour)
    /\ WF_vars(Cycle)
    /\ SF_vars(CloseFill)

FairSpec == Spec /\ Fairness

-----------------------------------------------------------------------------
(* What the exit stack must guarantee *)

Tightening == acts # <<>> /\ Head(acts).why = "flip_tighten"

\* The connector has answered truly so far.
Answered == \A k \in DOMAIN faults' : faults'[k] \notin {"lost", "blind", "noprice", "nospecs"}

\* While the connector answers truly, the broker's stop is never loosened by the
\* ladder or the trailing stop, with rejected orders, crashes that forget the
\* tracked stop and cycles cut short.  (position_manager.py evaluate, improves(); live_trader.py _manage
\* "resync with broker truth")
LadderOnlyImproves == [][Answered /\ ~Tightening => bsl' >= bsl]_vars

\* The same for every stop the trader moves.
\* (live_trader.py "the exit stack's ratchets/trails only ever IMPROVE that
\* bracket")
StopOnlyImproves == [][bsl' >= bsl]_vars

\* Each partial close is executed once; a failure that keeps its flag out of
\* the state file costs at most one repetition.
\* (live_trader.py _apply_actions; settings.py "sell 1/3 at +1 ATR and 1/3 at
\* +2 ATR, trail the rest")
EachPartialOnce == \A p \in Partials : sold[p] <= 1 + Len(faults)

\* While the connector answers truly, a partial close leaves something to trail,
\* although the part is rounded twice, the second time with the whole position
\* for nothing, and the tracked volume may be off by what the rounding fell
\* short.  It rests on the specs: without them (RunnerWithoutSpecs) the part
\* reaches close_position unrounded and half of the last step takes it all.
\* (live_trader.py _apply_actions; connector.py close_position)
PartialKeepsRunner == [][Answered /\ PartialFill => bvol' > 0]_vars

\* The same while only the specs may be missing: it does not hold.
RunnerWithoutSpecs ==
    [][(\A k \in DOMAIN faults' : faults'[k] = "nospecs") /\ PartialFill => bvol' > 0]_vars

\* A position that is finalized is gone.  It does not hold: the close of a volume
\* that falls short leaves a step, which is adopted as a new position.
\* (live_trader.py _apply_actions "position is gone")
FinalizedIsGone == [][mem.tracked /\ ~mem'.tracked => bvol' = 0]_vars

\* The hard time stop ends every position whose ATR is known, however often the
\* close is rejected, whatever a close leaves to be adopted and whatever the
\* process loses on the way.
\* (position_manager.py "time stop: hard exit at TIME_LIMIT_BARS")
TimeStopCloses == bars >= TimeLimit /\ mem.atr ~> bvol = 0

\* The same for every position, the adopted one without ATR and stop among them.
\* It does not hold: evaluate returns nothing for it.
\* (config/settings.py "ADOPTED_TIME_LIMIT_ENABLED = True")
TimeStopClosesAll == bars >= TimeLimit ~> bvol = 0
=============================================================================
