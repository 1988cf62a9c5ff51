--------------------------- MODULE BacktestProofs ---------------------------
(***************************************************************************)
(* Proofs about Backtest, for every calendar, every choice of clean bars,  *)
(* every set of bar shapes and all settings that the assumptions allow.    *)
(***************************************************************************)
EXTENDS Backtest, FiniteSetTheorems, TLAPS

(***************************************************************************)
(* Maxima.                                                                 *)
(***************************************************************************)
HasMax(S) == S \subseteq Int /\ \E x \in S : \A y \in S : x >= y

LEMMA MaxIsMax ==
    ASSUME NEW S, HasMax(S)
    PROVE  Max(S) \in S /\ Max(S) \in Int /\ \A y \in S : Max(S) >= y
BY DEF Max, HasMax

LEMMA OneHasMax == ASSUME NEW x \in Int PROVE HasMax({x})
BY DEF HasMax

LEMMA AddHasMax ==
    ASSUME NEW S, HasMax(S), NEW x \in Int
    PROVE  HasMax(S \cup {x})
<1>1. PICK m \in S : \A y \in S : m >= y
    BY DEF HasMax
<1>2. m \in Int /\ S \subseteq Int
    BY DEF HasMax
<1>3. CASE m >= x
    BY <1>1, <1>2, <1>3 DEF HasMax
<1>4. CASE x >= m
  <2>1. \A y \in S : x >= y
      BY <1>1, <1>2, <1>4
  <2> QED  BY <1>2, <2>1 DEF HasMax
<1> QED  BY <1>2, <1>3, <1>4

(***************************************************************************)
(* A walk: what one bar makes of it.                                       *)
(***************************************************************************)
LEMMA SimTypes ==
    /\ {Whole, ScaleUnits, StopAtr, TakeAtr, ScaleOut1, ScaleOut2, LockArm, LockPlus,
        RatchetArm, RatchetLock, Ratchet2Arm, Ratchet2Lock, TrailArm, TrailDistance,
        RetraceArm, PartialBars, PartialProfit, TimeLimit,
        FlattenHour, RolloverHour} \subseteq Nat
    /\ RetraceKeepPct \in 0..100
    /\ \A b \in Shapes : b.lo \in Int /\ b.hi \in Int /\ b.close \in Int
    /\ \A b \in Shapes : b.lo <= b.close /\ b.close <= b.hi
BY SimAssumption

LEMMA FilledType ==
    ASSUME NEW b \in Nat, NEW side \in {"LONG", "SHORT"}
    PROVE  Filled(b, side) \in Walk
<1>1. Spread(side, "entry", Whole) \in Int /\ Whole \in Int /\ -StopAtr \in Int
    BY SimTypes DEF Spread
<1> QED  BY <1>1 DEF Filled, Walk, Reasons

\* What selling leaves alone.
Same(w, v) ==
    /\ v.entry = w.entry /\ v.j = w.j /\ v.sl = w.sl /\ v.peak = w.peak
    /\ v.reason = w.reason

LEMMA SellType ==
    ASSUME NEW w \in Walk, NEW units \in Int
    PROVE  Sell(w, units) \in Walk /\ Same(w, Sell(w, units))
<1> DEFINE cost == Spread(w.side, "exit", units)
<1>1. cost \in Int /\ w.frac - units \in Int /\ w.spread + cost \in Int
    BY DEF Spread, Walk
<1> QED  BY <1>1 DEF Sell, Walk, Same

LEMMA ExitType ==
    ASSUME NEW w \in Walk, NEW reason \in Reasons, NEW level \in Int, NEW best \in Int
    PROVE  LET v == Exit(w, reason, level, best)
           IN  /\ v \in Walk
               /\ v.entry = w.entry /\ v.j = w.j /\ v.reason = reason /\ v.level = level
<1>1. w.frac \in Int
    BY DEF Walk
<1>2. Sell(w, w.frac) \in Walk /\ Same(w, Sell(w, w.frac))
    BY <1>1, SellType
<1> QED  BY <1>2 DEF Exit, Walk, Same

LEMMA RolloverType ==
    ASSUME NEW w \in Walk, NEW t \in Nat
    PROVE  Rollover(w, t) \in Walk /\ Same(w, Rollover(w, t))
<1>1. Date(t) \in Int /\ w.swaps + 1 \in Nat
    BY DEF Date, Walk
<1> QED  BY <1>1 DEF Rollover, Walk, Same

LEMMA ScaleOutsType ==
    ASSUME NEW w \in Walk
    PROVE  ScaleOuts(w) \in Walk /\ Same(w, ScaleOuts(w))
<1> DEFINE one == IF w.scaled = 0 /\ w.peak >= ScaleOut1
                  THEN [Sell(w, ScaleUnits) EXCEPT !.scaled = 1] ELSE w
<1>1. ScaleUnits \in Int
    BY SimTypes
<1>2. one \in Walk /\ Same(w, one)
    BY <1>1, SellType DEF Walk, Same
<1>3. Lower(ScaleUnits, one.frac) \in Int
    BY <1>1, <1>2 DEF Lower, Walk
<1> HIDE DEF one
<1>4. /\ Sell(one, Lower(ScaleUnits, one.frac)) \in Walk
      /\ Same(one, Sell(one, Lower(ScaleUnits, one.frac)))
    BY <1>2, <1>3, SellType
<1> DEFINE two == [Sell(one, Lower(ScaleUnits, one.frac)) EXCEPT !.scaled = 2]
<1>5. two \in Walk /\ Same(w, two)
    BY <1>2, <1>4 DEF Walk, Same
<1>6. ScaleOuts(w) \in {one, two}
    BY DEF ScaleOuts, one
<1> QED  BY <1>2, <1>5, <1>6

LEMMA TimePartialType ==
    ASSUME NEW w \in Walk, NEW bar
    PROVE  TimePartial(w, bar) \in Walk /\ Same(w, TimePartial(w, bar))
<1>1. w.frac \div 2 \in Int
    BY DEF Walk
<1>2. Sell(w, w.frac \div 2) \in Walk /\ Same(w, Sell(w, w.frac \div 2))
    BY <1>1, SellType
<1> QED  BY <1>2 DEF TimePartial, Walk, Same

Steps(peak) ==
    (IF peak >= Ratchet2Arm THEN {Ratchet2Lock}
     ELSE IF peak >= RatchetArm THEN {RatchetLock} ELSE {})

LEMMA AskedHasMax ==
    ASSUME NEW x \in Int, NEW peak \in Int
    PROVE  HasMax({x} \cup Asked(peak))
<1>1. {LockPlus, RatchetLock, Ratchet2Lock, peak - TrailDistance} \subseteq Int
    BY SimTypes
<1> DEFINE S1 == {x} \cup (IF peak >= LockArm THEN {LockPlus} ELSE {})
           S2 == S1 \cup Steps(peak)
           S3 == S2 \cup (IF peak >= TrailArm THEN {peak - TrailDistance} ELSE {})
<1>2. HasMax({x})
    BY OneHasMax
<1>3. HasMax(S1)
  <2>1. S1 \in {{x}, {x} \cup {LockPlus}}
      OBVIOUS
  <2>2. HasMax({x} \cup {LockPlus})
      BY <1>1, <1>2, AddHasMax
  <2> QED  BY <1>2, <2>1, <2>2
<1>4. HasMax(S2)
  <2>1. S2 \in {S1, S1 \cup {Ratchet2Lock}, S1 \cup {RatchetLock}}
      BY DEF Steps
  <2>2. HasMax(S1 \cup {Ratchet2Lock}) /\ HasMax(S1 \cup {RatchetLock})
      BY <1>1, <1>3, AddHasMax
  <2> QED  BY <1>3, <2>1, <2>2
<1>5. HasMax(S3)
  <2>1. S3 \in {S2, S2 \cup {peak - TrailDistance}}
      OBVIOUS
  <2>2. HasMax(S2 \cup {peak - TrailDistance})
      BY <1>1, <1>4, AddHasMax
  <2> QED  BY <1>4, <2>1, <2>2
<1>6. S3 = {x} \cup Asked(peak)
    BY DEF Asked, Steps
<1> QED  BY <1>5, <1>6

LEMMA LockedType ==
    ASSUME NEW w \in Walk
    PROVE  /\ Locked(w) \in Walk
           /\ Locked(w).entry = w.entry /\ Locked(w).j = w.j /\ Locked(w).reason = w.reason
           /\ Locked(w).peak = w.peak
           /\ \A x \in {w.sl} \cup Asked(w.peak) : Locked(w).sl >= x
<1> DEFINE top == Max({w.sl} \cup Asked(w.peak))
<1>1. w.sl \in Int /\ w.peak \in Int
    BY DEF Walk
<1>2. top \in Int /\ \A x \in {w.sl} \cup Asked(w.peak) : top >= x
    BY <1>1, AskedHasMax, MaxIsMax
<1>3. Locked(w) = [w EXCEPT !.sl = top]
    BY DEF Locked
<1> HIDE DEF top
<1> QED  BY <1>2, <1>3 DEF Walk

Seen(w, bar, t) == Rollover([w EXCEPT !.j = @ + 1, !.peak = Higher(@, bar.hi)], t)

LEMMA SeenType ==
    ASSUME NEW w \in Walk, NEW bar \in Shapes, NEW t \in Nat
    PROVE  LET seen == Seen(w, bar, t)
           IN  /\ seen \in Walk
               /\ seen.entry = w.entry /\ seen.j = w.j + 1
               /\ seen.sl = w.sl /\ seen.reason = w.reason
<1> DEFINE v == [w EXCEPT !.j = @ + 1, !.peak = Higher(@, bar.hi)]
<1>1. w.j + 1 \in Nat /\ Higher(w.peak, bar.hi) \in Int
    BY SimTypes DEF Walk, Higher
<1>2. /\ v \in Walk /\ v.entry = w.entry /\ v.j = w.j + 1 /\ v.sl = w.sl
      /\ v.reason = w.reason
    BY <1>1 DEF Walk
<1> HIDE DEF v
<1>3. Seen(w, bar, t) = Rollover(v, t)
    BY DEF Seen, v
<1> QED  BY <1>2, <1>3, RolloverType DEF Same

\* One bar: the walk goes on with its stop at what its peak asks for at least, or it
\* ends at its old stop, at the target, or at a close above the old stop.
LEMMA NextBarStep ==
    ASSUME NEW w \in Walk, NEW bar \in Shapes, NEW t \in Nat, NEW c, w.reason = "none"
    PROVE  LET v == NextBar(w, bar, t, c)
           IN  /\ v \in Walk /\ v.entry = w.entry /\ v.j = w.j + 1
               /\ v.reason = "none" => \A x \in {w.sl} \cup Asked(v.peak) : v.sl >= x
               /\ v.reason # "none" => v.level \in {w.sl, TakeAtr} \/ v.level >= w.sl
               /\ v.reason # "end_of_data"
<1> DEFINE seen == Seen(w, bar, t)
           scaled == ScaleOuts(seen)
           kept == Locked(scaled)
           late == TimePartial(kept, bar)
<1>1. /\ bar.lo \in Int /\ bar.hi \in Int /\ bar.close \in Int /\ bar.lo <= bar.close
      /\ TakeAtr \in Int /\ w.sl \in Int
    BY SimTypes DEF Walk
<1>2. /\ seen \in Walk /\ seen.entry = w.entry /\ seen.j = w.j + 1
      /\ seen.sl = w.sl /\ seen.reason = "none"
    BY SeenType
<1>3. scaled \in Walk /\ Same(seen, scaled)
    BY <1>2, ScaleOutsType
<1>4. /\ kept \in Walk /\ kept.entry = w.entry /\ kept.j = w.j + 1 /\ kept.reason = "none"
      /\ \A x \in {w.sl} \cup Asked(kept.peak) : kept.sl >= x
  <2>1. scaled.sl = w.sl /\ scaled.entry = w.entry /\ scaled.j = w.j + 1 /\ scaled.reason = "none"
      BY <1>2, <1>3 DEF Same
  <2> HIDE DEF scaled
  <2> QED  BY <1>3, <2>1, LockedType
<1>5. /\ late \in Walk /\ late.entry = w.entry /\ late.j = w.j + 1 /\ late.reason = "none"
      /\ \A x \in {w.sl} \cup Asked(late.peak) : late.sl >= x
  <2> HIDE DEF kept
  <2>1. Same(kept, late)
      BY <1>4, TimePartialType
  <2>2. late \in Walk
      BY <1>4, TimePartialType
  <2> HIDE DEF late
  <2> QED  BY <1>4, <2>1, <2>2 DEF Same
<1>6. NextBar(w, bar, t, c) =
        IF bar.lo <= w.sl THEN Exit(seen, "stop_loss", w.sl, bar.hi)
        ELSE IF bar.hi >= TakeAtr THEN Exit(seen, "take_profit", TakeAtr, bar.hi)
        ELSE IF Retraced(kept, bar) THEN Exit(kept, "retracement", bar.close, bar.hi)
        ELSE IF TimedOut(late) THEN Exit(late, "time_stop", bar.close, bar.hi)
        ELSE IF Flattens(c, t) THEN Exit(late, "friday_flatten", bar.close, bar.hi)
        ELSE late
    BY DEF NextBar, Seen
<1> HIDE DEF seen, kept, late
<1>7. \A r \in Reasons, x \in Int :
         /\ LET v == Exit(seen, r, x, bar.hi)
            IN v \in Walk /\ v.entry = w.entry /\ v.j = w.j + 1 /\ v.reason = r /\ v.level = x
         /\ LET v == Exit(kept, r, x, bar.hi)
            IN v \in Walk /\ v.entry = w.entry /\ v.j = w.j + 1 /\ v.reason = r /\ v.level = x
         /\ LET v == Exit(late, r, x, bar.hi)
            IN v \in Walk /\ v.entry = w.entry /\ v.j = w.j + 1 /\ v.reason = r /\ v.level = x
  <2>1. ASSUME NEW r \in Reasons, NEW x \in Int, NEW u \in {seen, kept, late}
        PROVE  LET v == Exit(u, r, x, bar.hi)
               IN v \in Walk /\ v.entry = w.entry /\ v.j = w.j + 1 /\ v.reason = r /\ v.level = x
      BY <1>1, <1>2, <1>4, <1>5, ExitType
  <2> QED  BY <2>1
<1>8. {"stop_loss", "take_profit", "retracement", "time_stop", "friday_flatten"} \subseteq Reasons
    BY DEF Reasons
<1>9. CASE bar.lo <= w.sl
    BY <1>1, <1>6, <1>7, <1>8, <1>9
<1>10. CASE ~(bar.lo <= w.sl)
  <2>1. bar.close >= w.sl
      BY <1>1, <1>10
  <2> QED  BY <1>1, <1>5, <1>6, <1>7, <1>8, <1>10, <2>1
<1> QED  BY <1>9, <1>10

LEMMA EndOfDataStep ==
    ASSUME NEW w \in Walk, NEW bar \in Shapes
    PROVE  LET v == EndOfData(w, bar)
           IN v \in Walk /\ v.entry = w.entry /\ v.j = w.j /\ v.reason = "end_of_data"
<1>1. bar.close \in Int /\ bar.hi \in Int /\ "end_of_data" \in Reasons
    BY SimTypes DEF Reasons
<1> DEFINE v == Exit(w, "end_of_data", bar.close, bar.hi)
<1>2. v \in Walk /\ v.entry = w.entry /\ v.j = w.j /\ v.reason = "end_of_data"
    BY <1>1, ExitType
<1> QED  BY <1>2 DEF EndOfData

(***************************************************************************)
(* Type correctness, with what a walk that is being simulated rests on.    *)
(***************************************************************************)
LEMMA EngineTypes ==
    /\ Chunk \in Nat \ {0}
    /\ {LabelBars, CooldownBars, LossCooldown, RepeatWindow, RepeatCooldown} \subseteq Nat
    /\ CleanSets \subseteq SUBSET Nat
BY EngineAssumption

LEMMA CalendarType ==
    ASSUME cls \in Classes
    PROVE  n \in Nat /\ \A b \in Nat : b < n => At(b) \in Nat
<1>1. Calendar[cls] \in Seq(Nat)
    BY EngineAssumption
<1>2. n \in Nat
    BY <1>1 DEF n
<1>3. ASSUME NEW b \in Nat, b < n
      PROVE  At(b) \in Nat
  <2>1. b + 1 \in 1..Len(Calendar[cls])
      BY <1>2, <1>3 DEF n
  <2> QED  BY <1>1, <2>1 DEF At
<1> QED  BY <1>2, <1>3

WalkInv ==
    /\ TypeOK
    /\ Simulating => /\ walk.entry = i + 1
                     /\ walk.entry <= walk.j
                     /\ walk.j < n
                     /\ i >= flatUntil
                     /\ At(i) >= noEntryUntil
    /\ pc = "walk" => walk.reason = "none"

LEMMA BanType ==
    ASSUME NEW times, NEW t \in Nat, noEntryUntil \in Nat
    PROVE  /\ Ban(times, t) \in Nat
           /\ Ban(times, t) >= noEntryUntil
           /\ Ban(times, t) >= t + LossCooldown
           /\ Cardinality(Recent(times, t)) >= 2 => Ban(times, t) >= t + RepeatCooldown
<1> DEFINE base == {noEntryUntil, t + LossCooldown}
           all == base \cup (IF Cardinality(Recent(times, t)) >= 2
                             THEN {t + RepeatCooldown} ELSE {})
<1>1. t + LossCooldown \in Nat /\ t + RepeatCooldown \in Nat
    BY EngineTypes
<1>2. HasMax(base)
  <2>1. noEntryUntil \in Int /\ t + LossCooldown \in Int
      BY <1>1
  <2>2. HasMax({noEntryUntil})
      BY <2>1, OneHasMax
  <2>3. HasMax({noEntryUntil} \cup {t + LossCooldown})
      BY <2>1, <2>2, AddHasMax
  <2>4. base = {noEntryUntil} \cup {t + LossCooldown}
      OBVIOUS
  <2> QED  BY <2>3, <2>4
<1>3. HasMax(all)
  <2>1. HasMax(base \cup {t + RepeatCooldown})
      BY <1>1, <1>2, AddHasMax
  <2>2. all \in {base, base \cup {t + RepeatCooldown}}
      OBVIOUS
  <2> QED  BY <1>2, <2>1, <2>2
<1>4. Ban(times, t) = Max(all)
    BY DEF Ban
<1>5. all \subseteq Nat
    BY <1>1
<1>6. Max(all) \in all /\ \A y \in all : Max(all) >= y
    BY <1>3, MaxIsMax
<1>7. /\ noEntryUntil \in all /\ t + LossCooldown \in all
      /\ Cardinality(Recent(times, t)) >= 2 => t + RepeatCooldown \in all
    OBVIOUS
<1> HIDE DEF all
<1> QED  BY <1>4, <1>5, <1>6, <1>7

LEMMA WalkInit == Init => WalkInv
<1> SUFFICES ASSUME Init PROVE WalkInv
    OBVIOUS
<1>1. Filled(0, "LONG") \in Walk
    BY FilledType
<1>2. usable \subseteq Nat
    BY EngineTypes DEF Init
<1>3. <<>> \in Seq(Nat) /\ <<>> \in Seq(Trade)
    OBVIOUS
<1>4. TypeOK
    BY <1>1, <1>2, <1>3 DEF Init, TypeOK
<1> QED  BY <1>4 DEF Init, WalkInv, Simulating

LEMMA WalkStep == WalkInv /\ [Next]_vars => WalkInv'
<1> SUFFICES ASSUME WalkInv, [Next]_vars
             PROVE  WalkInv'
    OBVIOUS
<1> USE DEF scanVars, banVars
<1>t. TypeOK /\ n \in Nat /\ i \in Nat
    BY CalendarType DEF WalkInv, TypeOK
<1>n. cls' = cls => n' = n /\ At(i)' = Calendar[cls][i' + 1]
    BY DEF n, At
<1>1. CASE Refill
  <2>1. asked' \subseteq Nat
    <3>1. asked' \subseteq i..(Lower(i + Chunk, n - 1) - 1)
        BY <1>1 DEF Refill, Candidates
    <3> QED  BY <1>t, <3>1
  <2>2. chunkHi' \in Int
      BY <1>1, <1>t, EngineTypes DEF Refill
  <2>3. TypeOK'
      BY <1>1, <2>1, <2>2, <1>t DEF Refill, TypeOK
  <2> QED  BY <1>1, <2>3 DEF Refill, WalkInv, Simulating
<1>2. CASE Skip
  <2>1. TypeOK'
      BY <1>2, <1>t DEF Skip, TypeOK
  <2> QED  BY <1>2, <2>1 DEF Skip, Judging, WalkInv, Simulating
<1>3. ASSUME NEW side \in {"LONG", "SHORT"}, Enter(side)
      PROVE  WalkInv'
  <2>1. i + 1 \in Nat /\ i + 1 < n
      BY <1>3, <1>t DEF Enter, Judging
  <2>2. Filled(i + 1, side) \in Walk
      BY <2>1, FilledType
  <2>3. TypeOK'
      BY <1>3, <1>t, <2>2 DEF Enter, TypeOK
  <2>4. walk'.entry = i + 1 /\ walk'.j = i + 1 /\ walk'.reason = "none"
      BY <1>3 DEF Enter, Filled
  <2>5. i >= flatUntil /\ At(i) >= noEntryUntil
    <3>1. At(i) \in Nat
        BY <1>t, <2>1, CalendarType DEF TypeOK
    <3>2. flatUntil \in Nat /\ noEntryUntil \in Nat
        BY <1>t DEF TypeOK
    <3> QED  BY <1>3, <1>t, <3>1, <3>2 DEF Enter, Pausing
  <2>6. UNCHANGED <<cls, i, flatUntil, noEntryUntil>>
      BY <1>3 DEF Enter
  <2>7. n' = n /\ At(i)' = At(i)
      BY <2>6 DEF n, At
  <2> QED  BY <1>t, <2>1, <2>3, <2>4, <2>5, <2>6, <2>7 DEF WalkInv
<1>4. ASSUME NEW bar \in Shapes, WalkBar(bar)
      PROVE  WalkInv'
  <2>1. /\ walk \in Walk /\ walk.reason = "none" /\ walk.j + 1 < n /\ walk.j + 1 \in Nat
        /\ walk.entry = i + 1 /\ walk.entry <= walk.j /\ walk.j \in Nat
        /\ i >= flatUntil /\ At(i) >= noEntryUntil
      BY <1>4 DEF WalkBar, WalkInv, Simulating, TypeOK, Walk
  <2>2. At(walk.j + 1) \in Nat
      BY <1>t, <2>1, CalendarType DEF TypeOK
  <2>3. walk' \in Walk /\ walk'.entry = walk.entry /\ walk'.j = walk.j + 1
      BY <1>4, <2>1, <2>2, NextBarStep DEF WalkBar
  <2>4. /\ pc' \in {"walk", "book"} /\ (pc' = "walk" => walk'.reason = "none")
        /\ UNCHANGED <<cls, usable, i, chunkHi, asked, flatUntil, noEntryUntil, stopTimes, trades>>
      BY <1>4 DEF WalkBar
  <2>5. TypeOK'
      BY <1>t, <2>3, <2>4 DEF TypeOK
  <2>6. n' = n /\ At(i)' = At(i)
      BY <2>4 DEF n, At
  <2>7. walk'.entry <= walk'.j
      BY <1>t, <2>1, <2>3
  <2> QED  BY <2>1, <2>3, <2>4, <2>5, <2>6, <2>7 DEF WalkInv
<1>5. ASSUME NEW bar \in Shapes, WalkEnd(bar)
      PROVE  WalkInv'
  <2>1. walk' \in Walk /\ walk'.entry = walk.entry /\ walk'.j = walk.j
      BY <1>5, <1>t, EndOfDataStep DEF WalkEnd, TypeOK
  <2>2. /\ pc = "walk" /\ pc' = "book"
        /\ UNCHANGED <<cls, usable, i, chunkHi, asked, flatUntil, noEntryUntil, stopTimes, trades>>
      BY <1>5 DEF WalkEnd
  <2>3. TypeOK'
      BY <1>t, <2>1, <2>2 DEF TypeOK
  <2>4. n' = n /\ At(i)' = At(i)
      BY <2>2 DEF n, At
  <2> QED  BY <2>1, <2>2, <2>3, <2>4 DEF WalkInv, Simulating
<1>6. CASE Book
  <2>1. /\ walk \in Walk /\ walk.j \in Nat /\ walk.entry \in Nat /\ walk.j < n
        /\ walk.reason \in Reasons
      BY <1>6 DEF Book, WalkInv, Simulating, TypeOK, Walk
  <2>2. At(walk.j) \in Nat
      BY <1>t, <2>1, CalendarType DEF TypeOK
  <2>3. stopTimes' \in Seq(Nat)
      BY <1>6, <1>t, <2>2 DEF Book, TypeOK
  <2>4. noEntryUntil' \in Nat
      BY <1>6, <1>t, <2>2, BanType DEF Book, TypeOK
  <2>5. trades' \in Seq(Trade)
    <3>1. [decided |-> i, entry |-> walk.entry, exit |-> walk.j,
           stopped |-> walk.reason = "stop_loss"] \in Trade
        BY <1>t, <2>1 DEF Trade
    <3> QED  BY <1>6, <1>t, <3>1 DEF Book, TypeOK
  <2>6. flatUntil' \in Nat /\ i' \in Nat
    <3>1. CooldownBars \in Nat
        BY EngineTypes
    <3>2. walk.j + 1 \in Nat /\ walk.j + 1 + CooldownBars \in Nat
        BY <2>1, <3>1
    <3> QED  BY <1>6, <3>2 DEF Book, PausedUntil
  <2>7. UNCHANGED <<cls, usable, chunkHi, asked, walk>> /\ pc' = "scan"
      BY <1>6 DEF Book
  <2> QED  BY <1>t, <2>3, <2>4, <2>5, <2>6, <2>7 DEF WalkInv, TypeOK, Simulating
<1>7. CASE Finish
    BY <1>7, <1>t DEF Finish, TypeOK, WalkInv, Simulating
<1>8. CASE UNCHANGED vars
  <2>1. n' = n /\ At(i)' = At(i)
      BY <1>8 DEF vars, n, At
  <2> QED  BY <1>8, <2>1 DEF vars, TypeOK, WalkInv, Simulating
<1> QED
    BY <1>1, <1>2, <1>3, <1>4, <1>5, <1>6, <1>7, <1>8 DEF Next

\* Every variable of the backtest keeps its type.  (engine.py SymbolBacktester.run,
\* trade_sim.py simulate_trade)
THEOREM TypeCorrect == Spec => []TypeOK
<1>1. WalkInv => TypeOK
    BY DEF WalkInv
<1> QED  BY <1>1, WalkInit, WalkStep, PTL DEF Spec

(***************************************************************************)
(* Trades and bans.                                                        *)
(***************************************************************************)

\* The hour at which bar b of asset class c opens.
Opens(c, b) == Calendar[c][b + 1]

\* How long the record ts of class c bans the symbol after its stop-out a.
Owed(c, ts, a) ==
    LET t == Opens(c, ts[a].exit)
        twice == \E z \in 1..(a - 1) : /\ ts[z].stopped
                                       /\ Opens(c, ts[z].exit) >= t - 24 * RepeatWindow
    IN  t + IF twice THEN Higher(LossCooldown, RepeatCooldown) ELSE LossCooldown

\* The code's lists say no less than the trades do: the pause is that of the last
\* trade, every stop-out is among the stop times, and the ban outlasts what each
\* stop-out asks for.
RecordInv ==
    /\ trades # <<>> => flatUntil = trades[Len(trades)].exit + 1 + CooldownBars
    /\ \A z \in DOMAIN trades : /\ trades[z].exit < n
                                /\ trades[z].stopped =>
                                       /\ \E k \in DOMAIN stopTimes : stopTimes[k] = Opens(cls, trades[z].exit)
                                       /\ noEntryUntil >= Owed(cls, trades, z)
    /\ TradesKeepApart
    /\ \A a, b \in DOMAIN trades :
           a < b /\ trades[a].stopped => Opens(cls, trades[b].decided) >= Owed(cls, trades, a)

LEMMA SeqElem ==
    ASSUME NEW S, NEW s \in Seq(S), NEW k \in 1..Len(s)
    PROVE  s[k] \in S
OBVIOUS

LEMMA RecordInit == Init => RecordInv
BY DEF Init, RecordInv, TradesKeepApart

LEMMA RecordStep == WalkInv /\ RecordInv /\ [Next]_vars => RecordInv'
<1> SUFFICES ASSUME WalkInv, RecordInv, [Next]_vars
             PROVE  RecordInv'
    OBVIOUS
<1> USE DEF scanVars, banVars
<1>1. CASE UNCHANGED <<cls, flatUntil, noEntryUntil, stopTimes, trades>>
    BY <1>1 DEF RecordInv, TradesKeepApart, Owed, At, n
<1>2. CASE Book
  <2> DEFINE t == Opens(cls, walk.j)
             stopped == walk.reason = "stop_loss"
             trade == [decided |-> i, entry |-> walk.entry, exit |-> walk.j,
                       stopped |-> stopped]
             last == Len(trades) + 1
  <2>1. /\ TypeOK /\ n \in Nat
        /\ walk.j \in Nat /\ walk.j < n /\ walk.entry = i + 1 /\ walk.entry <= walk.j
        /\ i \in Nat /\ i >= flatUntil /\ Opens(cls, i) >= noEntryUntil /\ t \in Nat /\ Opens(cls, i) \in Nat
    <3>1. /\ TypeOK /\ walk.entry = i + 1 /\ walk.entry <= walk.j /\ walk.j < n
          /\ i >= flatUntil /\ Opens(cls, i) >= noEntryUntil
        BY <1>2 DEF Book, WalkInv, Simulating, At, Opens
    <3>2. walk.j \in Nat /\ i \in Nat /\ cls \in Classes
        BY <3>1 DEF TypeOK, Walk
    <3>3. n \in Nat /\ i < n
        BY <3>1, <3>2, CalendarType
    <3>4. Opens(cls, walk.j) \in Nat /\ Opens(cls, i) \in Nat
        BY <3>1, <3>2, <3>3, CalendarType DEF At, Opens
    <3> QED  BY <3>1, <3>2, <3>3, <3>4
  <2>2. /\ trades \in Seq(Trade) /\ stopTimes \in Seq(Nat) /\ noEntryUntil \in Nat
        /\ flatUntil \in Nat /\ Len(trades) \in Nat
      BY <2>1 DEF TypeOK
  <2>3. /\ cls' = cls /\ n' = n /\ \A b : At(b) = Opens(cls, b)
      BY <1>2 DEF Book, n, At, Opens
  <2>4. /\ trades' = Append(trades, trade)
        /\ stopTimes' = IF stopped THEN Append(stopTimes, t) ELSE stopTimes
        /\ noEntryUntil' = IF stopped THEN Ban(stopTimes', t) ELSE noEntryUntil
        /\ flatUntil' = walk.j + 1 + CooldownBars
      BY <1>2, <2>3 DEF Book, PausedUntil
  <2> HIDE DEF trade
  <2>5. /\ DOMAIN trades = 1..Len(trades) /\ DOMAIN trades' = 1..last
        /\ \A z \in 1..Len(trades) : trades'[z] = trades[z]
        /\ trades'[last] = trade /\ Len(trades') = last
      BY <2>2, <2>4
  <2>6. /\ trade.decided = i /\ trade.entry = i + 1 /\ trade.exit = walk.j
        /\ trade.stopped = stopped
      BY <2>1 DEF trade
  <2>7. \A a \in 1..Len(trades) : Owed(cls', trades', a) = Owed(cls, trades, a)
    <3> TAKE a \in 1..Len(trades)
    <3>1. \A z \in 1..(a - 1) : z \in 1..Len(trades)
        BY <2>2
    <3> QED  BY <2>3, <2>5, <3>1 DEF Owed
  <2>8. noEntryUntil' \in Nat /\ noEntryUntil' >= noEntryUntil
      BY <2>1, <2>2, <2>4, BanType
  <2>9. \A a \in 1..Len(trades) : trades[a].stopped => Owed(cls, trades, a) \in Int
    <3> TAKE a \in 1..Len(trades)
    <3>0. trades[a] \in Trade
        BY <2>2, SeqElem
    <3>1. trades[a].exit \in Nat /\ trades[a].exit < n
        BY <2>5, <3>0 DEF Trade, RecordInv
    <3>2. Opens(cls, trades[a].exit) \in Nat
        BY <2>1, <3>1, CalendarType DEF TypeOK, At, Opens
    <3> QED  BY <3>2, EngineTypes DEF Owed, Higher
  <2>10. ASSUME NEW z \in 1..last, trades'[z].stopped
         PROVE  \E k \in DOMAIN stopTimes' : stopTimes'[k] = Opens(cls', trades'[z].exit)
    <3>1. CASE z = last
      <4>1. stopTimes' = Append(stopTimes, t)
          BY <2>4, <2>5, <2>6, <2>10, <3>1
      <4>2. Len(stopTimes) + 1 \in DOMAIN stopTimes' /\ stopTimes'[Len(stopTimes) + 1] = t
          BY <2>2, <4>1
      <4> QED  BY <2>3, <2>5, <2>6, <3>1, <4>2
    <3>2. CASE z \in 1..Len(trades)
      <4>1. PICK k \in DOMAIN stopTimes : stopTimes[k] = Opens(cls, trades[z].exit)
          BY <2>5, <2>10, <3>2 DEF RecordInv
      <4>2. k \in DOMAIN stopTimes' /\ stopTimes'[k] = stopTimes[k]
          BY <2>2, <2>4, <4>1
      <4> QED  BY <2>3, <2>5, <3>2, <4>1, <4>2
    <3> QED  BY <2>2, <3>1, <3>2
  <2>11. ASSUME stopped
         PROVE  noEntryUntil' >= Owed(cls', trades', last)
    <3> DEFINE twice == \E z \in 1..(last - 1) :
                           /\ trades[z].stopped
                           /\ Opens(cls, trades[z].exit) >= t - 24 * RepeatWindow
    <3>1. /\ noEntryUntil' >= t + LossCooldown
          /\ Cardinality(Recent(stopTimes', t)) >= 2 => noEntryUntil' >= t + RepeatCooldown
        BY <2>1, <2>2, <2>4, <2>11, BanType
    <3>2. Owed(cls', trades', last) = t + (IF twice THEN Higher(LossCooldown, RepeatCooldown)
                                              ELSE LossCooldown)
      <4>1. last - 1 = Len(trades)
          BY <2>2
      <4>2. trades'[last].exit = walk.j
          BY <2>5, <2>6
      <4>3. \A z \in 1..(last - 1) : trades'[z] = trades[z]
          BY <2>5, <4>1
      <4> QED  BY <2>3, <4>2, <4>3 DEF Owed, At
    <3>3. ASSUME twice
          PROVE  Cardinality(Recent(stopTimes', t)) >= 2
      <4>1. stopTimes' = Append(stopTimes, t)
          BY <2>4, <2>11
      <4>2. PICK z \in 1..(last - 1) : /\ trades[z].stopped
                                       /\ Opens(cls, trades[z].exit) >= t - 24 * RepeatWindow
          BY <3>3
      <4>3. PICK k \in DOMAIN stopTimes : stopTimes[k] = Opens(cls, trades[z].exit)
        <5>1. z \in DOMAIN trades
            BY <2>2, <2>5, <4>2
        <5> QED  BY <4>2, <5>1 DEF RecordInv
      <4> DEFINE new == Len(stopTimes) + 1
                 recent == Recent(stopTimes', t)
      <4>4. /\ DOMAIN stopTimes' = 1..new /\ k \in 1..Len(stopTimes) /\ new # k
            /\ stopTimes'[k] = stopTimes[k] /\ stopTimes'[new] = t
          BY <2>2, <4>1, <4>3
      <4>5. t >= t - 24 * RepeatWindow
        <5>1. 24 * RepeatWindow \in Nat
            BY EngineTypes
        <5> QED  BY <2>1, <5>1
      <4>6. {k, new} \subseteq recent
          BY <2>2, <4>2, <4>3, <4>4, <4>5 DEF Recent
      <4>7. IsFiniteSet(recent)
        <5>1. recent \subseteq 1..new
            BY <4>4 DEF Recent
        <5>2. IsFiniteSet(1..new)
            BY <2>2, FS_Interval
        <5> QED  BY <5>1, <5>2, FS_Subset
      <4>8. Cardinality({k, new}) <= Cardinality(recent) /\ Cardinality(recent) \in Nat
          BY <4>6, <4>7, FS_Subset, FS_CardinalityType
      <4>9. Cardinality({k, new}) = 2
        <5>1. IsFiniteSet({k}) /\ Cardinality({k}) = 1
            BY FS_Singleton
        <5>2. {k, new} = {k} \cup {new} /\ new \notin {k}
            BY <4>4
        <5>3. Cardinality({k} \cup {new}) = Cardinality({k}) + 1
            BY <5>1, <5>2, FS_AddElement
        <5> QED  BY <5>1, <5>2, <5>3
      <4> QED  BY <4>8, <4>9
    <3>4. {LossCooldown, RepeatCooldown} \subseteq Nat
        BY EngineTypes
    <3> QED  BY <2>1, <2>8, <3>1, <3>2, <3>3, <3>4 DEF Higher
  <2>12. ASSUME NEW z \in 1..last, trades'[z].stopped
         PROVE  noEntryUntil' >= Owed(cls', trades', z)
    <3>1. CASE z = last
        BY <2>5, <2>6, <2>11, <2>12, <3>1
    <3>2. CASE z \in 1..Len(trades)
      <4>1. trades[z].stopped /\ noEntryUntil >= Owed(cls, trades, z) /\ Owed(cls, trades, z) \in Int
          BY <2>5, <2>9, <2>12, <3>2 DEF RecordInv
      <4>2. noEntryUntil' >= Owed(cls, trades, z)
          BY <2>2, <2>8, <4>1
      <4> QED  BY <2>7, <3>2, <4>2
    <3> QED  BY <2>2, <3>1, <3>2
  <2>13. \A z \in 1..last : trades'[z].exit < n
    <3>1. ASSUME NEW z \in 1..Len(trades) PROVE trades'[z].exit < n
        BY <2>5, <3>1 DEF RecordInv
    <3>2. trades'[last].exit < n
        BY <2>1, <2>5, <2>6
    <3> QED  BY <2>2, <3>1, <3>2
  <2>14. TradesKeepApart'
    <3>1. ASSUME NEW k \in 1..last
          PROVE  trades'[k].entry = trades'[k].decided + 1
      <4>1. CASE k = last
          BY <2>5, <2>6, <4>1
      <4>2. CASE k \in 1..Len(trades)
          BY <2>5, <4>2 DEF RecordInv, TradesKeepApart
      <4> QED  BY <2>2, <4>1, <4>2
    <3>2. ASSUME NEW k \in (1..last) \ {1}
          PROVE  trades'[k].decided > trades'[k - 1].exit + CooldownBars
      <4>1. CASE k = last
        <5>1. k - 1 = Len(trades) /\ k - 1 \in 1..Len(trades) /\ trades # <<>>
            BY <2>2, <4>1
        <5>2. trades[Len(trades)].exit \in Nat
          <6>1. trades[Len(trades)] \in Trade
              BY <2>2, <5>1, SeqElem
          <6> QED  BY <6>1 DEF Trade
        <5>3. i >= trades[Len(trades)].exit + 1 + CooldownBars
            BY <2>1, <5>1 DEF RecordInv
        <5>4. i > trades[Len(trades)].exit + CooldownBars
            BY <2>1, <5>2, <5>3, EngineTypes
        <5> QED  BY <2>5, <2>6, <4>1, <5>1, <5>4
      <4>2. CASE k \in 1..Len(trades)
        <5>1. k - 1 \in 1..Len(trades)
            BY <2>2, <4>2
        <5> QED  BY <2>5, <4>2, <5>1 DEF RecordInv, TradesKeepApart
      <4> QED  BY <2>2, <4>1, <4>2
    <3> QED  BY <2>5, <3>1, <3>2 DEF TradesKeepApart
  <2>15. ASSUME NEW a \in 1..last, NEW b \in 1..last, a < b, trades'[a].stopped
         PROVE  Opens(cls', trades'[b].decided) >= Owed(cls', trades', a)
    <3>1. a \in 1..Len(trades)
        BY <2>2, <2>15
    <3>2. trades[a].stopped /\ noEntryUntil >= Owed(cls, trades, a) /\ Owed(cls, trades, a) \in Int
        BY <2>5, <2>9, <2>15, <3>1 DEF RecordInv
    <3>3. CASE b = last
      <4>1. Opens(cls, i) >= Owed(cls, trades, a)
          BY <2>1, <2>2, <3>2
      <4>2. trades'[b].decided = i
          BY <2>5, <2>6, <3>3
      <4>3. Opens(cls', trades'[b].decided) = Opens(cls, i)
          BY <2>3, <4>2 DEF At
      <4> QED  BY <2>7, <3>1, <4>1, <4>3
    <3>4. CASE b \in 1..Len(trades)
      <4>1. Opens(cls, trades[b].decided) >= Owed(cls, trades, a)
          BY <2>5, <2>15, <3>1, <3>2, <3>4 DEF RecordInv
      <4>2. Opens(cls', trades'[b].decided) = Opens(cls, trades[b].decided)
          BY <2>3, <2>5, <3>4 DEF At
      <4> QED  BY <2>7, <3>1, <4>1, <4>2
    <3> QED  BY <2>2, <3>3, <3>4
  <2> QED  BY <2>3, <2>4, <2>5, <2>6, <2>10, <2>12, <2>13, <2>14, <2>15 DEF RecordInv
<1> QED  BY <1>1, <1>2 DEF Next, Refill, Skip, Enter, WalkBar, WalkEnd, Finish, vars

\* Trades do not overlap and keep the pause, on every calendar.  (engine.py run,
\* "cooldown bookkeeping")
THEOREM TradesAreApart == Spec => []TradesKeepApart
<1>1. RecordInv => TradesKeepApart
    BY DEF RecordInv
<1> QED  BY <1>1, WalkInit, WalkStep, RecordInit, RecordStep, PTL DEF Spec

\* No decision falls into the ban of any earlier stop-out, although the code keeps one
\* end of ban and a list of times.  (engine.py run, "last_sl")
THEOREM BansAreKept == Spec => []StopBansHold
<1>1. RecordInv => StopBansHold
    BY DEF RecordInv, StopBansHold, Owed, At, Opens
<1> QED  BY <1>1, WalkInit, WalkStep, RecordInit, RecordStep, PTL DEF Spec

(***************************************************************************)
(* Verdict windows.                                                        *)
(***************************************************************************)

\* What is left of the window has been asked about.
VerdictInv ==
    \A b \in i..(Lower(chunkHi, n - 1) - 1) : Candidate(b) => b \in asked

LEMMA VerdictInit == Init => VerdictInv
<1> SUFFICES ASSUME Init PROVE VerdictInv
    OBVIOUS
<1>1. n \in Nat
    BY CalendarType DEF Init
<1>2. i = 0 /\ chunkHi = -1
    BY DEF Init
<1> QED  BY <1>1, <1>2 DEF VerdictInv, Lower

LEMMA VerdictStep == WalkInv /\ VerdictInv /\ [Next]_vars => VerdictInv'
<1> SUFFICES ASSUME WalkInv, VerdictInv, [Next]_vars
             PROVE  VerdictInv'
    OBVIOUS
<1> USE DEF scanVars, banVars
<1>1. n \in Nat /\ i \in Nat /\ chunkHi \in Int /\ Chunk \in Nat
    BY CalendarType, EngineTypes DEF WalkInv, TypeOK
<1>2. Lower(chunkHi, n - 1) \in Int
    BY <1>1 DEF Lower
<1>3. ASSUME UNCHANGED <<cls, usable, chunkHi, asked>>, i' \in Nat, i' >= i
      PROVE  VerdictInv'
  <2>1. /\ n' = n /\ Lower(chunkHi, n - 1)' = Lower(chunkHi, n - 1)
        /\ \A b : Candidate(b)' = Candidate(b)
      BY <1>3 DEF n, Lower, Candidate, SessionOk, At
  <2> QED  BY <1>1, <1>2, <1>3, <2>1 DEF VerdictInv
<1>4. CASE Refill
  <2>1. /\ UNCHANGED <<cls, usable, i>> /\ asked' = Candidates(i) /\ chunkHi' = i + Chunk
      BY <1>4 DEF Refill
  <2>2. /\ n' = n /\ Lower(chunkHi, n - 1)' = Lower(i + Chunk, n - 1)
        /\ \A b : Candidate(b)' = Candidate(b)
      BY <2>1 DEF n, Lower, Candidate, SessionOk, At
  <2> QED  BY <2>1, <2>2 DEF VerdictInv, Candidates
<1>5. CASE Skip
    BY <1>1, <1>3, <1>5 DEF Skip
<1>6. CASE Book
  <2>1. walk.j \in Nat /\ walk.j >= i
    <3>1. pc = "book"
        BY <1>6 DEF Book
    <3>2. walk \in Walk /\ walk.entry = i + 1 /\ walk.entry <= walk.j
        BY <3>1 DEF WalkInv, Simulating, TypeOK
    <3>3. walk.j \in Nat
        BY <3>2 DEF Walk
    <3> QED  BY <1>1, <3>2, <3>3
  <2>2. UNCHANGED <<cls, usable, chunkHi, asked>> /\ i' = walk.j + 1
      BY <1>6 DEF Book
  <2> QED  BY <1>1, <1>3, <2>1, <2>2
<1>7. CASE UNCHANGED <<cls, usable, i, chunkHi, asked>>
    BY <1>1, <1>3, <1>7
<1> QED  BY <1>4, <1>5, <1>6, <1>7 DEF Next, Enter, WalkBar, WalkEnd, Finish, vars

\* The verdict windows leave no hole, wherever a trade lets the scan re-enter.
\* (engine.py _batch_verdicts and run)
THEOREM EveryCandidateIsAsked == Spec => []NoVerdictMissed
<1>1. WalkInv /\ VerdictInv => NoVerdictMissed
  <2> SUFFICES ASSUME WalkInv, VerdictInv, Judging, Candidate(i)
               PROVE  i \in asked
      BY DEF NoVerdictMissed
  <2>1. i < n - 1 /\ i < chunkHi
      BY DEF Judging
  <2>2. n \in Nat /\ i \in Nat /\ chunkHi \in Int
      BY CalendarType DEF WalkInv, TypeOK
  <2>3. i \in i..(Lower(chunkHi, n - 1) - 1)
      BY <2>1, <2>2 DEF Lower
  <2> QED  BY <2>3 DEF VerdictInv
<1> QED  BY <1>1, WalkInit, WalkStep, VerdictInit, VerdictStep, PTL DEF Spec

(***************************************************************************)
(* The exit ladder.                                                        *)
(***************************************************************************)

\* The settings make a ladder: no rung is armed from the start, and none locks in
\* more than the target.
LadderFits ==
    /\ LockArm > 0 /\ RatchetArm > 0 /\ Ratchet2Arm > 0
    /\ LockPlus <= TakeAtr /\ RatchetLock <= TakeAtr /\ Ratchet2Lock <= TakeAtr

\* A walk's stop already is what the ladder promises for its peak.
LockInv == pc = "walk" => walk.sl >= Promised(walk.peak) /\ walk.sl >= -StopAtr

LEMMA PromisedType ==
    ASSUME NEW peak \in Int
    PROVE  Promised(peak) \in Int /\ (LadderFits => Promised(peak) <= TakeAtr)
<1>1. /\ {LockPlus, RatchetLock, Ratchet2Lock, StopAtr, TakeAtr} \subseteq Nat
      /\ -StopAtr \in Int /\ -StopAtr <= TakeAtr
    BY SimTypes
<1> QED  BY <1>1 DEF Promised, LadderFits

LEMMA LockInit == LadderFits /\ Init => LockInv
BY DEF Init, LockInv

LEMMA LockStep ==
    ASSUME LadderFits, WalkInv, LockInv, [Next]_vars
    PROVE  /\ LockInv'
           /\ pc = "walk" /\ walk'.reason \notin {"none", "end_of_data"}
                  => walk'.level >= Promised(walk.peak)
<1> USE DEF scanVars, banVars
<1> DEFINE Kept == pc = "walk" /\ walk'.reason \notin {"none", "end_of_data"}
                       => walk'.level >= Promised(walk.peak)
<1>1. {StopAtr, LockArm, RatchetArm, Ratchet2Arm, LockPlus, RatchetLock, Ratchet2Lock,
       TakeAtr} \subseteq Nat
    BY SimTypes
<1>2. WalkInv'
    BY WalkStep
<1>3. ASSUME NEW side \in {"LONG", "SHORT"}, Enter(side)
      PROVE  LockInv' /\ Kept
  <2>1. walk'.sl = -StopAtr /\ walk'.peak = 0 /\ pc = "scan"
      BY <1>3 DEF Enter, Filled, Judging
  <2>2. Promised(0) = -StopAtr
      BY <1>1 DEF Promised, LadderFits
  <2> QED  BY <1>1, <2>1, <2>2 DEF LockInv
<1>4. ASSUME NEW bar \in Shapes, WalkBar(bar)
      PROVE  LockInv' /\ Kept
  <2>1. /\ pc = "walk" /\ walk \in Walk /\ walk.reason = "none"
        /\ walk.j + 1 < n /\ walk.j + 1 \in Nat /\ cls \in Classes
        /\ pc' = IF walk'.reason = "none" THEN "walk" ELSE "book"
      BY <1>4 DEF WalkBar, WalkInv, Simulating, TypeOK, Walk
  <2>2. At(walk.j + 1) \in Nat
      BY <2>1, CalendarType
  <2>3. /\ walk' \in Walk
        /\ walk'.reason = "none" =>
               \A x \in {walk.sl} \cup Asked(walk'.peak) : walk'.sl >= x
        /\ walk'.reason # "none" =>
               walk'.level \in {walk.sl, TakeAtr} \/ walk'.level >= walk.sl
      BY <1>4, <2>1, <2>2, NextBarStep DEF WalkBar
  <2>4. /\ walk.sl \in Int /\ walk.peak \in Int /\ walk'.sl \in Int /\ walk'.peak \in Int
        /\ walk'.level \in Int
      BY <2>1, <2>3 DEF Walk
  <2>5. walk.sl >= Promised(walk.peak) /\ walk.sl >= -StopAtr
      BY <2>1 DEF LockInv
  <2>6. Promised(walk.peak) \in Int /\ Promised(walk.peak) <= TakeAtr
      BY <2>4, PromisedType
  <2>7. ASSUME walk'.reason = "none"
        PROVE  walk'.sl >= Promised(walk'.peak) /\ walk'.sl >= -StopAtr
    <3>1. walk'.sl >= walk.sl
        BY <2>3, <2>7
    <3>2. walk'.sl >= -StopAtr
        BY <1>1, <2>4, <2>5, <3>1
    <3>3. Promised(walk'.peak) \in Asked(walk'.peak) \cup {-StopAtr}
        BY DEF Promised, Asked
    <3> QED  BY <2>3, <2>7, <3>2, <3>3
  <2>8. ASSUME walk'.reason # "none"
        PROVE  walk'.level >= Promised(walk.peak)
      BY <1>1, <2>3, <2>4, <2>5, <2>6, <2>8
  <2> QED  BY <2>1, <2>7, <2>8 DEF LockInv
<1>5. ASSUME NEW bar \in Shapes, WalkEnd(bar)
      PROVE  LockInv' /\ Kept
  <2>1. walk \in Walk
      BY DEF WalkInv, TypeOK
  <2>2. walk'.reason = "end_of_data" /\ pc' = "book"
      BY <1>5, <2>1, EndOfDataStep DEF WalkEnd
  <2> QED  BY <2>2 DEF LockInv
<1>6. CASE Refill \/ Skip \/ Book \/ Finish
    BY <1>6 DEF Refill, Skip, Judging, Book, Finish, LockInv
<1>7. CASE UNCHANGED vars
  <2>1. walk' = walk /\ pc' = pc
      BY <1>7 DEF vars
  <2>2. pc = "walk" => walk'.reason = "none"
      BY <2>1 DEF WalkInv
  <2> QED  BY <2>1, <2>2 DEF LockInv, Promised
<1> QED  BY <1>3, <1>4, <1>5, <1>6, <1>7 DEF Next

\* No exit of the simulator gives back what the ladder had locked in before the bar,
\* for every sequence of bars.  (trade_sim.py simulate_trade)
THEOREM LocksAreKept == ASSUME LadderFits PROVE Spec => LocksHold
<1>1. ASSUME WalkInv, LockInv, [Next]_vars
      PROVE  [pc = "walk" /\ walk'.reason \notin {"none", "end_of_data"}
                  => walk'.level >= Promised(walk.peak)]_vars
    BY <1>1, LockStep
<1>2. WalkInv /\ LockInv /\ [Next]_vars => LockInv'
    BY LockStep
<1>3. Init => LockInv
    BY LockInit
<1> QED  BY <1>1, <1>2, <1>3, WalkInit, WalkStep, PTL DEF Spec, LocksHold

(***************************************************************************)
(* A trade adds up.                                                        *)
(***************************************************************************)

\* The first rung of the scale-outs is sold without asking what is left, so it must
\* fit what a time partial leaves of a full position.  (SCALE_OUT_PCT is a third.)
RungFits == 2 * ScaleUnits <= Whole

\* What was sold has crossed the spread with its side's action, and the first rung
\* is still covered as long as it is to come.
Balanced(w) ==
    /\ w.frac >= 0
    /\ w.spread = IF w.side = "LONG" THEN Whole ELSE Whole - w.frac
    /\ w.scaled = 0 => /\ w.frac >= ScaleUnits
                       /\ ~w.halved => w.frac = Whole

\* The dates among the bars after the fill, up to the bar to, that swap is due on.
SwapDates(c, from, to) ==
    {Date(Opens(c, k)) : k \in {k \in (from + 1)..to : Hour(Opens(c, k)) >= RolloverHour}}

\* Swap was charged once per date, and rolled is the last of them.
SwapsPaid(c, w) ==
    LET D == SwapDates(c, w.entry, w.j)
    IN  /\ IsFiniteSet(D)
        /\ w.swaps = Cardinality(D)
        /\ D = {} => w.rolled = -1
        /\ D # {} => w.rolled \in D
        /\ \A d \in D : d \in Nat /\ d <= w.rolled
        /\ w.rolled <= Date(Opens(c, w.j))

AddsInv ==
    /\ walk.frac >= 0
    /\ pc = "walk" => Balanced(walk)
    /\ pc = "book" => walk.frac = 0 /\ walk.spread = Whole
    /\ Simulating => SwapsPaid(cls, walk)

\* A walk's dates are judged by these fields alone.
SameDates(w, v) ==
    v.entry = w.entry /\ v.j = w.j /\ v.swaps = w.swaps /\ v.rolled = w.rolled

LEMMA SwapsOfSame ==
    ASSUME NEW c, NEW w, NEW v, SameDates(w, v), SwapsPaid(c, w)
    PROVE  SwapsPaid(c, v)
BY DEF SameDates, SwapsPaid

\* A later bar opens on the same date or a later one.
LEMMA DatesClimb ==
    ASSUME NEW c \in Classes, NEW k \in Nat, k + 1 < Len(Calendar[c])
    PROVE  /\ Opens(c, k) \in Nat /\ Opens(c, k + 1) \in Nat
           /\ Date(Opens(c, k)) \in Nat /\ Date(Opens(c, k + 1)) \in Nat
           /\ Date(Opens(c, k)) <= Date(Opens(c, k + 1))
<1>1. /\ Calendar[c] \in Seq(Nat)
      /\ \A a, b \in 1..Len(Calendar[c]) : a < b => Calendar[c][a] < Calendar[c][b]
    BY EngineAssumption
<1>2. k + 1 \in 1..Len(Calendar[c]) /\ k + 2 \in 1..Len(Calendar[c]) /\ k + 1 < k + 2
    BY <1>1
<1>3. Opens(c, k) \in Nat /\ Opens(c, k + 1) \in Nat /\ Opens(c, k) < Opens(c, k + 1)
    BY <1>1, <1>2 DEF Opens
<1>4. \A x, y \in Nat : x < y => x \div 24 \in Nat /\ y \div 24 \in Nat /\ x \div 24 <= y \div 24
    OBVIOUS
<1> QED  BY <1>3, <1>4 DEF Date

\* One more bar adds its date, or nothing before the rollover hour.
LEMMA SwapDatesGrow ==
    ASSUME NEW c, NEW from \in Nat, NEW to \in Nat, from <= to
    PROVE  SwapDates(c, from, to + 1) =
               SwapDates(c, from, to) \cup
                   (IF Hour(Opens(c, to + 1)) >= RolloverHour THEN {Date(Opens(c, to + 1))} ELSE {})
<1>1. (from + 1)..(to + 1) = ((from + 1)..to) \cup {to + 1}
    OBVIOUS
<1> QED  BY <1>1 DEF SwapDates

\* The bar after w.j is charged as simulate_trade charges it: the dates add up.
LEMMA SwapsStep ==
    ASSUME NEW c \in Classes, NEW w \in Walk, SwapsPaid(c, w), w.entry <= w.j,
           w.j + 1 < Len(Calendar[c]), NEW bar
    PROVE  SwapsPaid(c, Seen(w, bar, Opens(c, w.j + 1)))
<1> DEFINE t == Opens(c, w.j + 1)
           v == [w EXCEPT !.j = @ + 1, !.peak = Higher(@, bar.hi)]
           u == Rollover(v, t)
           D == SwapDates(c, w.entry, w.j)
           E == SwapDates(c, w.entry, w.j + 1)
           due == Hour(t) >= RolloverHour
<1>1. /\ w.entry \in Nat /\ w.j \in Nat /\ w.swaps \in Nat /\ w.rolled \in Int
    BY DEF Walk
<1>2. /\ t \in Nat /\ Date(t) \in Nat /\ Date(Opens(c, w.j)) \in Nat
      /\ Date(Opens(c, w.j)) <= Date(t)
    BY <1>1, DatesClimb
<1>3. /\ IsFiniteSet(D) /\ w.swaps = Cardinality(D)
      /\ (D = {} => w.rolled = -1) /\ (D # {} => w.rolled \in D)
      /\ \A d \in D : d \in Nat /\ d <= w.rolled
      /\ w.rolled <= Date(Opens(c, w.j))
    BY DEF SwapsPaid
<1>4. E = D \cup (IF due THEN {Date(t)} ELSE {})
    BY <1>1, SwapDatesGrow
<1>5. /\ v.entry = w.entry /\ v.j = w.j + 1 /\ v.swaps = w.swaps /\ v.rolled = w.rolled
    BY DEF Walk
<1>6. u = IF due /\ Date(t) # v.rolled
          THEN [v EXCEPT !.swaps = @ + 1, !.rolled = Date(t)] ELSE v
    BY DEF Rollover
<1>7. Seen(w, bar, t) = u
    BY DEF Seen
<1>v. v = [w EXCEPT !.j = w.j + 1, !.peak = Higher(w.peak, bar.hi)]
    OBVIOUS
<1>8. CASE due /\ Date(t) # w.rolled
  <2>1. u.entry = w.entry /\ u.j = w.j + 1 /\ u.swaps = w.swaps + 1 /\ u.rolled = Date(t)
      BY <1>5, <1>6, <1>8 DEF Walk
  <2>2. Date(t) \notin D
      BY <1>1, <1>2, <1>3, <1>8
  <2>3. E = D \cup {Date(t)}
      BY <1>4, <1>8
  <2> HIDE DEF u, v, t, D, E
  <2>4. IsFiniteSet(E) /\ Cardinality(E) = Cardinality(D) + 1
      BY <1>3, <2>2, <2>3, FS_AddElement
  <2>5. Date(t) \in E /\ \A d \in E : d \in Nat /\ d <= Date(t)
      BY <1>1, <1>2, <1>3, <2>3
  <2>6. SwapDates(c, u.entry, u.j) = E /\ Opens(c, u.j) = t
      BY <2>1 DEF E, t
  <2> QED  BY <1>2, <1>3, <1>7, <2>1, <2>4, <2>5, <2>6 DEF SwapsPaid, t
<1>9. CASE ~(due /\ Date(t) # w.rolled)
  <2>1. u = v
      BY <1>5, <1>6, <1>9
  <2>2. E = D
    <3>1. CASE due
      <4>1. Date(t) = w.rolled
          BY <1>9, <3>1
      <4>2. Date(t) \in D
          BY <1>2, <1>3, <4>1
      <4> QED  BY <1>4, <3>1, <4>2
    <3>2. CASE ~due
        BY <1>4, <3>2
    <3> QED  BY <3>1, <3>2
  <2>3. w.rolled <= Date(t)
      BY <1>1, <1>2, <1>3
  <2> HIDE DEF u, v, t, D, E
  <2>4. SwapDates(c, u.entry, u.j) = D /\ Opens(c, u.j) = t
      BY <1>5, <2>1, <2>2 DEF E, t
  <2> QED  BY <1>3, <1>5, <1>7, <2>1, <2>3, <2>4 DEF SwapsPaid, t
<1> QED  BY <1>8, <1>9

\* Selling units of the position moves them from what is left to what has paid.
LEMMA SellBalance ==
    ASSUME NEW w \in Walk, NEW units \in Int,
           w.spread = IF w.side = "LONG" THEN Whole ELSE Whole - w.frac
    PROVE  LET v == Sell(w, units)
           IN  /\ v.frac = w.frac - units
               /\ v.spread = IF w.side = "LONG" THEN Whole ELSE Whole - v.frac
               /\ v.side = w.side /\ v.scaled = w.scaled /\ v.halved = w.halved
               /\ v.peak = w.peak
               /\ SameDates(w, v)
<1>1. w.side \in {"LONG", "SHORT"} /\ w.frac \in Int /\ w.spread \in Int /\ Whole \in Int
    BY SimTypes DEF Walk
<1>2. Spread(w.side, "exit", units) = IF w.side = "LONG" THEN 0 ELSE units
  <2>1. CASE w.side = "LONG"
      BY <2>1 DEF Spread
  <2>2. CASE w.side = "SHORT"
      BY <2>2 DEF Spread
  <2> QED  BY <1>1, <2>1, <2>2
<1> DEFINE v == Sell(w, units)
<1>3. v.frac = w.frac - units /\ v.spread = w.spread + Spread(w.side, "exit", units)
    BY DEF Sell, Walk
<1>4. /\ v.side = w.side /\ v.scaled = w.scaled /\ v.halved = w.halved /\ v.peak = w.peak
      /\ SameDates(w, v)
    BY DEF Sell, Walk, SameDates
<1> HIDE DEF v
<1>5. v.spread = IF w.side = "LONG" THEN Whole ELSE Whole - v.frac
    BY <1>1, <1>2, <1>3
<1> QED  BY <1>3, <1>4, <1>5 DEF v

\* An exit sells the rest: the trade is flat, and every unit has paid.
LEMMA ExitBalance ==
    ASSUME NEW w \in Walk, Balanced(w), NEW reason, NEW level, NEW best
    PROVE  LET v == Exit(w, reason, level, best)
           IN  v.frac = 0 /\ v.spread = Whole /\ SameDates(w, v)
<1>1. w.frac \in Int /\ Whole \in Int
    BY SimTypes DEF Walk
<1> DEFINE s == Sell(w, w.frac)
<1>2. /\ s.frac = 0 /\ s.spread = Whole /\ SameDates(w, s)
    BY <1>1, SellBalance DEF Balanced
<1>3. s \in Walk
    BY <1>1, SellType
<1>4. Exit(w, reason, level, best) = [s EXCEPT !.reason = reason, !.level = level, !.best = best]
    BY DEF Exit
<1> HIDE DEF s
<1> QED  BY <1>2, <1>3, <1>4 DEF Walk, SameDates

LEMMA FilledBalance ==
    ASSUME RungFits, NEW b, NEW side \in {"LONG", "SHORT"}
    PROVE  Balanced(Filled(b, side))
<1>1. Whole \in Nat /\ ScaleUnits \in Nat
    BY SimTypes
<1>2. Spread(side, "entry", Whole) = IF side = "LONG" THEN Whole ELSE 0
  <2>1. CASE side = "LONG"
      BY <2>1 DEF Spread
  <2>2. CASE side = "SHORT"
      BY <2>2 DEF Spread
  <2> QED  BY <2>1, <2>2
<1> QED  BY <1>1, <1>2 DEF Filled, Balanced, RungFits

LEMMA SeenBalance ==
    ASSUME NEW w \in Walk, Balanced(w), NEW bar, NEW t
    PROVE  Balanced(Seen(w, bar, t))
<1> DEFINE v == [w EXCEPT !.j = @ + 1, !.peak = Higher(@, bar.hi)]
           u == Rollover(v, t)
<1>1. /\ v.frac = w.frac /\ v.spread = w.spread /\ v.side = w.side
      /\ v.scaled = w.scaled /\ v.halved = w.halved
    BY DEF Walk
<1>2. /\ u.frac = v.frac /\ u.spread = v.spread /\ u.side = v.side
      /\ u.scaled = v.scaled /\ u.halved = v.halved
    BY DEF Rollover, Walk
<1>3. Seen(w, bar, t) = u
    BY DEF Seen
<1> HIDE DEF v, u
<1> QED  BY <1>1, <1>2, <1>3 DEF Balanced

LEMMA ScaleOutsBalance ==
    ASSUME NEW w \in Walk, Balanced(w)
    PROVE  Balanced(ScaleOuts(w)) /\ SameDates(w, ScaleOuts(w))
<1> DEFINE s == Sell(w, ScaleUnits)
           one == IF w.scaled = 0 /\ w.peak >= ScaleOut1
                  THEN [s EXCEPT !.scaled = 1] ELSE w
           rest == Lower(ScaleUnits, one.frac)
           r == Sell(one, rest)
           two == [r EXCEPT !.scaled = 2]
<1>1. ScaleUnits \in Nat /\ Whole \in Nat /\ w.frac \in Int /\ w.scaled \in 0..2
    BY SimTypes DEF Walk
<1>2. s \in Walk
    BY <1>1, SellType
<1>3. /\ s.frac = w.frac - ScaleUnits
      /\ s.spread = IF w.side = "LONG" THEN Whole ELSE Whole - s.frac
      /\ s.side = w.side /\ SameDates(w, s)
    BY <1>1, SellBalance DEF Balanced
<1> HIDE DEF s
<1>4. one \in Walk /\ Balanced(one) /\ SameDates(w, one)
  <2>1. CASE w.scaled = 0 /\ w.peak >= ScaleOut1
    <3>1. one = [s EXCEPT !.scaled = 1]
        BY <2>1
    <3>2. /\ one \in Walk /\ one.frac = s.frac /\ one.spread = s.spread
          /\ one.side = s.side /\ one.scaled = 1 /\ SameDates(s, one)
        BY <1>2, <3>1 DEF Walk, SameDates
    <3>3. w.frac >= ScaleUnits
        BY <2>1 DEF Balanced
    <3> HIDE DEF one
    <3>4. Balanced(one)
        BY <1>1, <1>3, <3>2, <3>3 DEF Balanced
    <3> QED  BY <1>3, <3>2, <3>4 DEF SameDates
  <2>2. CASE ~(w.scaled = 0 /\ w.peak >= ScaleOut1)
    <3>1. one = w
        BY <2>2
    <3> QED  BY <3>1 DEF SameDates
  <2> QED  BY <2>1, <2>2
<1>5. ScaleOuts(w) = IF one.scaled = 1 /\ w.peak >= ScaleOut2 THEN two ELSE one
    BY DEF ScaleOuts, s
<1> HIDE DEF one
<1>6. rest \in Int /\ rest <= one.frac /\ one.frac \in Int
    BY <1>1, <1>4 DEF Walk, Lower
<1> HIDE DEF rest
<1>7. r \in Walk
    BY <1>4, <1>6, SellType
<1>8. /\ r.frac = one.frac - rest
      /\ r.spread = IF one.side = "LONG" THEN Whole ELSE Whole - r.frac
      /\ r.side = one.side /\ SameDates(one, r)
    BY <1>4, <1>6, SellBalance DEF Balanced
<1> HIDE DEF r
<1>9. /\ two.frac = r.frac /\ two.spread = r.spread /\ two.side = r.side /\ two.scaled = 2
      /\ SameDates(r, two)
    BY <1>7 DEF Walk, SameDates
<1> HIDE DEF two
<1>10. Balanced(two) /\ SameDates(w, two)
  <2>1. r.frac >= 0
      BY <1>6, <1>8
  <2>2. SameDates(w, two)
      BY <1>4, <1>8, <1>9 DEF SameDates
  <2> QED  BY <1>8, <1>9, <2>1, <2>2 DEF Balanced
<1> QED  BY <1>4, <1>5, <1>10

LEMMA LockedBalance ==
    ASSUME NEW w \in Walk, Balanced(w)
    PROVE  Balanced(Locked(w)) /\ SameDates(w, Locked(w))
<1> DEFINE v == Locked(w)
<1>1. /\ v.frac = w.frac /\ v.spread = w.spread /\ v.side = w.side
      /\ v.scaled = w.scaled /\ v.halved = w.halved /\ SameDates(w, v)
    BY DEF Locked, Walk, SameDates
<1> HIDE DEF v
<1>2. Balanced(v)
    BY <1>1 DEF Balanced
<1> QED  BY <1>1, <1>2 DEF v

\* Half of a position that has not reached its first rung still covers that rung.
LEMMA TimePartialBalance ==
    ASSUME RungFits, NEW w \in Walk, Balanced(w), NEW bar
    PROVE  Balanced(TimePartial(w, bar)) /\ SameDates(w, TimePartial(w, bar))
<1> DEFINE half == w.frac \div 2
           s == Sell(w, half)
           v == [s EXCEPT !.halved = TRUE]
<1>1. Whole \in Nat /\ ScaleUnits \in Nat /\ w.frac \in Nat
    BY SimTypes DEF Walk, Balanced
<1>2. half \in Int /\ 2 * (w.frac - half) >= w.frac /\ w.frac - half >= 0
    BY <1>1
<1> HIDE DEF half
<1>3. s \in Walk
    BY <1>2, SellType
<1>4. /\ s.frac = w.frac - half
      /\ s.spread = IF w.side = "LONG" THEN Whole ELSE Whole - s.frac
      /\ s.side = w.side /\ s.scaled = w.scaled /\ SameDates(w, s)
    BY <1>2, SellBalance DEF Balanced
<1> HIDE DEF s
<1>5. /\ v.frac = s.frac /\ v.spread = s.spread /\ v.side = s.side /\ v.scaled = s.scaled
      /\ v.halved = TRUE /\ SameDates(s, v)
    BY <1>3 DEF Walk, SameDates
<1> HIDE DEF v
<1>6. CASE ~w.halved
  <2>1. w.scaled = 0 => w.frac = Whole
      BY <1>6 DEF Balanced
  <2>2. w.scaled = 0 => v.frac >= ScaleUnits
      BY <1>1, <1>2, <1>4, <1>5, <2>1 DEF RungFits
  <2>3. v.frac >= 0
      BY <1>2, <1>4, <1>5
  <2>4. v.spread = IF v.side = "LONG" THEN Whole ELSE Whole - v.frac
      BY <1>4, <1>5
  <2>5. Balanced(v)
      BY <1>4, <1>5, <2>2, <2>3, <2>4 DEF Balanced
  <2>6. SameDates(w, v)
      BY <1>4, <1>5 DEF SameDates
  <2>7. TimePartial(w, bar) \in {v, w}
      BY DEF TimePartial, v, s, half
  <2>8. SameDates(w, w)
      BY DEF SameDates
  <2> QED  BY <2>5, <2>6, <2>7, <2>8
<1>7. CASE w.halved
  <2>1. TimePartial(w, bar) = w
      BY <1>7 DEF TimePartial
  <2> QED  BY <2>1 DEF SameDates
<1> QED  BY <1>6, <1>7

\* One bar: a walk that goes on is balanced, one that ends is flat, and neither
\* touches the swap account beyond the bar's own date.
LEMMA NextBarBalance ==
    ASSUME RungFits, NEW w \in Walk, Balanced(w), w.reason = "none",
           NEW bar \in Shapes, NEW t \in Nat, NEW c
    PROVE  LET v == NextBar(w, bar, t, c)
           IN  /\ SameDates(Seen(w, bar, t), v)
               /\ v.reason = "none" => Balanced(v)
               /\ v.reason # "none" => v.frac = 0 /\ v.spread = Whole
<1> DEFINE seen == Seen(w, bar, t)
           scaled == ScaleOuts(seen)
           kept == Locked(scaled)
           late == TimePartial(kept, bar)
           Flat(v) == v.frac = 0 /\ v.spread = Whole /\ SameDates(seen, v)
                       /\ v.reason # "none"
<1>1. seen \in Walk /\ Balanced(seen) /\ seen.reason = "none"
    BY SeenType, SeenBalance
<1>2. scaled \in Walk /\ Balanced(scaled) /\ SameDates(seen, scaled) /\ scaled.reason = "none"
  <2> HIDE DEF seen
  <2> QED  BY <1>1, ScaleOutsType, ScaleOutsBalance DEF Same
<1>3. kept \in Walk /\ Balanced(kept) /\ SameDates(scaled, kept) /\ kept.reason = "none"
  <2> HIDE DEF scaled
  <2> QED  BY <1>2, LockedType, LockedBalance
<1>4. late \in Walk /\ Balanced(late) /\ SameDates(kept, late) /\ late.reason = "none"
  <2> HIDE DEF kept
  <2> QED  BY <1>3, TimePartialType, TimePartialBalance DEF Same
<1>5. NextBar(w, bar, t, c) =
        IF bar.lo <= w.sl THEN Exit(seen, "stop_loss", w.sl, bar.hi)
        ELSE IF bar.hi >= TakeAtr THEN Exit(seen, "take_profit", TakeAtr, bar.hi)
        ELSE IF Retraced(kept, bar) THEN Exit(kept, "retracement", bar.close, bar.hi)
        ELSE IF TimedOut(late) THEN Exit(late, "time_stop", bar.close, bar.hi)
        ELSE IF Flattens(c, t) THEN Exit(late, "friday_flatten", bar.close, bar.hi)
        ELSE late
    BY DEF NextBar, Seen
<1> HIDE DEF seen, scaled, kept, late
<1>6. SameDates(seen, seen) /\ SameDates(seen, kept) /\ SameDates(seen, late)
    BY <1>2, <1>3, <1>4 DEF SameDates
<1>7. ASSUME NEW u \in {seen, kept, late}, NEW r \in Reasons \ {"none"}, NEW x \in Int, NEW y \in Int
      PROVE  Flat(Exit(u, r, x, y))
  <2>1. u \in Walk /\ Balanced(u) /\ SameDates(seen, u)
      BY <1>1, <1>3, <1>4, <1>6
  <2> DEFINE v == Exit(u, r, x, y)
  <2>2. v.frac = 0 /\ v.spread = Whole /\ SameDates(u, v)
      BY <2>1, ExitBalance
  <2>3. v.reason = r
      BY <2>1, ExitType
  <2> HIDE DEF v
  <2>4. SameDates(seen, v)
      BY <2>1, <2>2 DEF SameDates
  <2> QED  BY <2>2, <2>3, <2>4 DEF v
<1>8. /\ bar.hi \in Int /\ bar.close \in Int /\ TakeAtr \in Int /\ w.sl \in Int
    BY SimTypes DEF Walk
<1>9. {"stop_loss", "take_profit", "retracement", "time_stop", "friday_flatten"}
          \subseteq Reasons \ {"none"}
    BY DEF Reasons
<1>10. /\ Flat(Exit(seen, "stop_loss", w.sl, bar.hi))
       /\ Flat(Exit(seen, "take_profit", TakeAtr, bar.hi))
       /\ Flat(Exit(kept, "retracement", bar.close, bar.hi))
       /\ Flat(Exit(late, "time_stop", bar.close, bar.hi))
       /\ Flat(Exit(late, "friday_flatten", bar.close, bar.hi))
  <2> HIDE DEF Flat
  <2> QED  BY <1>7, <1>8, <1>9
<1> DEFINE v == NextBar(w, bar, t, c)
<1>11. v = late \/ Flat(v)
  <2> HIDE DEF Flat
  <2> QED  BY <1>5, <1>10
<1> HIDE DEF v
<1>12. /\ SameDates(seen, v)
       /\ v.reason = "none" => Balanced(v)
       /\ v.reason # "none" => v.frac = 0 /\ v.spread = Whole
  <2>1. CASE v = late
      BY <1>4, <1>6, <2>1
  <2>2. CASE Flat(v)
      BY <2>2
  <2> QED  BY <1>11, <2>1, <2>2
<1> QED  BY <1>12 DEF v, seen

LEMMA AddsInit == RungFits /\ Init => AddsInv
<1> SUFFICES ASSUME RungFits, Init PROVE AddsInv
    OBVIOUS
<1>1. walk.frac = Whole
    BY DEF Init, Filled
<1>2. Whole >= 0
    BY SimTypes
<1> QED  BY <1>1, <1>2 DEF Init, AddsInv, Simulating

LEMMA AddsStep == RungFits /\ WalkInv /\ AddsInv /\ [Next]_vars => AddsInv'
<1> SUFFICES ASSUME RungFits, WalkInv, AddsInv, [Next]_vars
             PROVE  AddsInv'
    OBVIOUS
<1>1. Whole \in Nat /\ cls \in Classes
    BY SimTypes DEF WalkInv, TypeOK
<1>2. ASSUME NEW side \in {"LONG", "SHORT"}, Enter(side)
      PROVE  AddsInv'
  <2>1. /\ walk' = Filled(i + 1, side) /\ pc' = "walk" /\ cls' = cls
      BY <1>2 DEF Enter
  <2>2. Balanced(walk')
      BY <2>1, FilledBalance
  <2>3. SwapsPaid(cls', walk')
    <3>1. /\ walk'.entry = i + 1 /\ walk'.j = i + 1 /\ walk'.swaps = 0 /\ walk'.rolled = -1
        BY <2>1 DEF Filled
    <3>2. i + 1 \in Nat /\ i + 1 < n /\ n \in Nat
        BY <1>2, CalendarType DEF Enter, Judging, WalkInv, TypeOK
    <3>3. Opens(cls, i + 1) = At(i + 1) /\ At(i + 1) \in Nat
        BY <1>1, <3>2, CalendarType DEF Opens, At
    <3>4. Date(Opens(cls, i + 1)) \in Int /\ -1 <= Date(Opens(cls, i + 1))
        BY <3>3 DEF Date
    <3>5. SwapDates(cls, i + 1, i + 1) = {}
        BY <3>2 DEF SwapDates
    <3>6. IsFiniteSet({}) /\ Cardinality({}) = 0
        BY FS_EmptySet
    <3> QED  BY <2>1, <3>1, <3>4, <3>5, <3>6 DEF SwapsPaid
  <2> QED  BY <2>1, <2>2, <2>3 DEF AddsInv, Balanced
<1>3. ASSUME NEW bar \in Shapes, WalkBar(bar)
      PROVE  AddsInv'
  <2>1. /\ walk \in Walk /\ walk.reason = "none" /\ walk.j + 1 < n /\ walk.j + 1 \in Nat
        /\ walk.entry <= walk.j /\ Balanced(walk) /\ SwapsPaid(cls, walk) /\ cls' = cls
        /\ walk' = NextBar(walk, bar, At(walk.j + 1), cls)
        /\ pc' = IF walk'.reason = "none" THEN "walk" ELSE "book"
      BY <1>3 DEF WalkBar, WalkInv, AddsInv, Simulating, TypeOK, Walk
  <2>2. At(walk.j + 1) \in Nat /\ At(walk.j + 1) = Opens(cls, walk.j + 1)
      BY <1>1, <2>1, CalendarType DEF At, Opens
  <2>3. /\ SameDates(Seen(walk, bar, At(walk.j + 1)), walk')
        /\ walk'.reason = "none" => Balanced(walk')
        /\ walk'.reason # "none" => walk'.frac = 0 /\ walk'.spread = Whole
      BY <2>1, <2>2, NextBarBalance
  <2>4. SwapsPaid(cls, Seen(walk, bar, At(walk.j + 1)))
      BY <1>1, <2>1, <2>2, SwapsStep DEF n
  <2>5. SwapsPaid(cls, walk')
      BY <2>3, <2>4, SwapsOfSame
  <2> QED  BY <2>1, <2>3, <2>5 DEF AddsInv, Balanced
<1>4. ASSUME NEW bar \in Shapes, WalkEnd(bar)
      PROVE  AddsInv'
  <2>1. /\ walk \in Walk /\ Balanced(walk) /\ SwapsPaid(cls, walk) /\ cls' = cls
        /\ walk' = Exit(walk, "end_of_data", bar.close, bar.hi) /\ pc' = "book"
      BY <1>4 DEF WalkEnd, EndOfData, WalkInv, AddsInv, Simulating, TypeOK
  <2>2. walk'.frac = 0 /\ walk'.spread = Whole /\ SameDates(walk, walk')
      BY <2>1, ExitBalance
  <2>3. SwapsPaid(cls, walk')
      BY <2>1, <2>2, SwapsOfSame
  <2> QED  BY <2>1, <2>2, <2>3 DEF AddsInv
<1>5. CASE Refill \/ Skip \/ Book \/ Finish
    BY <1>5 DEF Refill, Skip, Judging, Book, Finish, AddsInv, Simulating
<1>6. CASE UNCHANGED vars
    BY <1>6 DEF vars, AddsInv, Simulating
<1> QED  BY <1>2, <1>3, <1>4, <1>5, <1>6 DEF Next

\* However a simulated trade is sold piece by piece it never sells more than is left, it
\* ends flat, every unit crosses the spread once, and swap is charged once a date: for
\* every sequence of bars and every calendar.  (trade_sim.py simulate_trade, costs.py)
THEOREM TradesAddUp == ASSUME RungFits PROVE Spec => []TradeAddsUp
<1>1. AddsInv => TradeAddsUp
  <2> SUFFICES ASSUME AddsInv PROVE TradeAddsUp
      OBVIOUS
  <2>1. Simulating => walk.swaps = Cardinality(SwapDates(cls, walk.entry, walk.j))
      BY DEF AddsInv, SwapsPaid
  <2>2. SwapDates(cls, walk.entry, walk.j) =
          {Date(At(k)) : k \in {k \in (walk.entry + 1)..walk.j : Hour(At(k)) >= RolloverHour}}
      BY DEF SwapDates, Opens, At
  <2> QED  BY <2>1, <2>2 DEF AddsInv, TradeAddsUp
<1>2. WalkInv /\ AddsInv /\ [Next]_vars => (WalkInv /\ AddsInv)'
    BY WalkStep, AddsStep
<1>3. Init => WalkInv /\ AddsInv
    BY WalkInit, AddsInit
<1> QED  BY <1>1, <1>2, <1>3, PTL DEF Spec

(***************************************************************************)
(* A trade ends in time.                                                   *)
(***************************************************************************)

\* A walk that goes on has time left, and no bar it has passed was one to flatten on.
EndsInv ==
    /\ Simulating => walk.j - walk.entry <= TimeLimit
    /\ pc = "walk" => /\ walk.j - walk.entry < TimeLimit
                      /\ \A k \in (walk.entry + 1)..walk.j : ~Flattens(cls, At(k))

\* A bar after which the walk goes on is neither the last one allowed nor one to
\* flatten on.
LEMMA NextBarEnds ==
    ASSUME NEW w \in Walk, w.reason = "none", NEW bar \in Shapes, NEW t \in Nat, NEW c,
           NextBar(w, bar, t, c).reason = "none"
    PROVE  ~Flattens(c, t) /\ w.j + 1 - w.entry < TimeLimit
<1> DEFINE seen == Seen(w, bar, t)
           scaled == ScaleOuts(seen)
           kept == Locked(scaled)
           late == TimePartial(kept, bar)
<1>1. seen \in Walk /\ seen.entry = w.entry /\ seen.j = w.j + 1
    BY SeenType
<1>2. scaled \in Walk /\ scaled.entry = w.entry /\ scaled.j = w.j + 1
  <2> HIDE DEF seen
  <2> QED  BY <1>1, ScaleOutsType DEF Same
<1>3. kept \in Walk /\ kept.entry = w.entry /\ kept.j = w.j + 1
  <2> HIDE DEF scaled
  <2> QED  BY <1>2, LockedType
<1>4. late \in Walk /\ late.entry = w.entry /\ late.j = w.j + 1
  <2> HIDE DEF kept
  <2> QED  BY <1>3, TimePartialType DEF Same
<1>5. NextBar(w, bar, t, c) =
        IF bar.lo <= w.sl THEN Exit(seen, "stop_loss", w.sl, bar.hi)
        ELSE IF bar.hi >= TakeAtr THEN Exit(seen, "take_profit", TakeAtr, bar.hi)
        ELSE IF Retraced(kept, bar) THEN Exit(kept, "retracement", bar.close, bar.hi)
        ELSE IF TimedOut(late) THEN Exit(late, "time_stop", bar.close, bar.hi)
        ELSE IF Flattens(c, t) THEN Exit(late, "friday_flatten", bar.close, bar.hi)
        ELSE late
    BY DEF NextBar, Seen
<1> HIDE DEF seen, scaled, kept, late
<1>6. ASSUME NEW u \in {seen, kept, late}, NEW r \in Reasons \ {"none"}, NEW x \in Int, NEW y \in Int
      PROVE  Exit(u, r, x, y).reason # "none"
  <2>1. u \in Walk
      BY <1>1, <1>3, <1>4
  <2> QED  BY <2>1, ExitType
<1>7. /\ bar.hi \in Int /\ bar.close \in Int /\ TakeAtr \in Int /\ w.sl \in Int
    BY SimTypes DEF Walk
<1>8. {"stop_loss", "take_profit", "retracement", "time_stop", "friday_flatten"}
          \subseteq Reasons \ {"none"}
    BY DEF Reasons
<1>9. /\ Exit(seen, "stop_loss", w.sl, bar.hi).reason # "none"
      /\ Exit(seen, "take_profit", TakeAtr, bar.hi).reason # "none"
      /\ Exit(kept, "retracement", bar.close, bar.hi).reason # "none"
      /\ Exit(late, "time_stop", bar.close, bar.hi).reason # "none"
      /\ Exit(late, "friday_flatten", bar.close, bar.hi).reason # "none"
    BY <1>6, <1>7, <1>8
<1>10. ~TimedOut(late) /\ ~Flattens(c, t)
    BY <1>5, <1>9
<1>11. w.j \in Nat /\ w.entry \in Nat /\ TimeLimit \in Nat
    BY SimTypes DEF Walk
<1> QED  BY <1>4, <1>10, <1>11 DEF TimedOut

LEMMA EndsInit == Init => EndsInv
BY DEF Init, EndsInv, Simulating

LEMMA EndsStep == TimeLimit > 0 /\ WalkInv /\ EndsInv /\ [Next]_vars => EndsInv'
<1> SUFFICES ASSUME TimeLimit > 0, WalkInv, EndsInv, [Next]_vars
             PROVE  EndsInv'
    OBVIOUS
<1>1. TimeLimit \in Nat /\ cls \in Classes
    BY SimTypes DEF WalkInv, TypeOK
<1>2. ASSUME NEW side \in {"LONG", "SHORT"}, Enter(side)
      PROVE  EndsInv'
  <2>1. walk'.entry = i + 1 /\ walk'.j = i + 1 /\ i + 1 \in Nat
      BY <1>2 DEF Enter, Filled, WalkInv, TypeOK
  <2> QED  BY <1>1, <2>1 DEF EndsInv
<1>3. ASSUME NEW bar \in Shapes, WalkBar(bar)
      PROVE  EndsInv'
  <2>1. /\ walk \in Walk /\ walk.reason = "none" /\ walk.j + 1 < n /\ walk.j + 1 \in Nat
        /\ walk.j \in Nat /\ walk.entry \in Nat /\ walk.entry <= walk.j /\ cls' = cls
        /\ walk' = NextBar(walk, bar, At(walk.j + 1), cls)
        /\ pc = "walk" /\ pc' = IF walk'.reason = "none" THEN "walk" ELSE "book"
      BY <1>3 DEF WalkBar, WalkInv, Simulating, TypeOK, Walk
  <2>2. At(walk.j + 1) \in Nat
      BY <1>1, <2>1, CalendarType
  <2>3. walk'.entry = walk.entry /\ walk'.j = walk.j + 1
      BY <2>1, <2>2, NextBarStep
  <2>4. walk'.j - walk'.entry <= TimeLimit
      BY <1>1, <2>1, <2>3 DEF EndsInv
  <2>5. ASSUME walk'.reason = "none"
        PROVE  /\ walk'.j - walk'.entry < TimeLimit
               /\ \A k \in (walk'.entry + 1)..walk'.j : ~Flattens(cls, At(k))
    <3>1. ~Flattens(cls, At(walk.j + 1)) /\ walk.j + 1 - walk.entry < TimeLimit
        BY <2>1, <2>2, <2>5, NextBarEnds
    <3>2. (walk.entry + 1)..(walk.j + 1) = ((walk.entry + 1)..walk.j) \cup {walk.j + 1}
        BY <2>1
    <3> QED  BY <2>1, <2>3, <3>1, <3>2 DEF EndsInv
  <2>6. \A k : At(k)' = At(k)
      BY <2>1 DEF At
  <2>7. \A k : Flattens(cls, At(k))' = Flattens(cls, At(k))
      BY <2>1, <2>6 DEF Flattens
  <2> QED  BY <2>1, <2>4, <2>5, <2>7 DEF EndsInv
<1>4. ASSUME NEW bar \in Shapes, WalkEnd(bar)
      PROVE  EndsInv'
  <2>1. walk'.entry = walk.entry /\ walk'.j = walk.j /\ pc = "walk" /\ pc' = "book"
      BY <1>4, EndOfDataStep DEF WalkEnd, WalkInv, TypeOK
  <2> QED  BY <2>1 DEF EndsInv, Simulating
<1>5. CASE Refill \/ Skip \/ Book \/ Finish
    BY <1>5 DEF Refill, Skip, Judging, Book, Finish, EndsInv, Simulating
<1>6. CASE UNCHANGED vars
  <2>1. UNCHANGED <<cls, walk, pc>>
      BY <1>6 DEF vars
  <2> QED  BY <2>1 DEF EndsInv, Simulating, At, Flattens
<1> QED  BY <1>2, <1>3, <1>4, <1>5, <1>6 DEF Next

\* No simulated trade outlives the time limit, and none in forex or metal is carried past
\* a bar at the Friday flatten hour, for every sequence of bars and every calendar.
\* (trade_sim.py simulate_trade)
THEOREM TradesEndInTime == ASSUME TimeLimit > 0 PROVE Spec => []EndsInTime
<1>1. EndsInv => EndsInTime
    BY DEF EndsInv, EndsInTime
<1>2. WalkInv /\ EndsInv /\ [Next]_vars => (WalkInv /\ EndsInv)'
    BY WalkStep, EndsStep
<1>3. Init => WalkInv /\ EndsInv
    BY WalkInit, EndsInit
<1> QED  BY <1>1, <1>2, <1>3, PTL DEF Spec
=============================================================================
