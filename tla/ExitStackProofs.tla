--------------------------- MODULE ExitStackProofs ---------------------------
(***************************************************************************)
(* Proofs about ExitStack, for every set of prices and volumes, every      *)
(* setting of the thresholds that SettingsAssumption and LadderAssumption  *)
(* allow, and any number of failures of every kind.                        *)
(***************************************************************************)
EXTENDS ExitStack, TLAPS

(***************************************************************************)
(* The inductive invariant.                                                *)
(***************************************************************************)
\* The connector has answered truly: Answered, of the state before the step.
Truthful == \A k \in DOMAIN faults : faults[k] \notin {"lost", "blind", "noprice", "nospecs"}

Working == pc \in {"manage", "rejudge"}

\* While a list is applied the copy knows the broker's stop and takes the volume
\* for no more than it is, and so does the state dict between the two judgements
\* of a cycle.
CopyTrue ==
    Truthful /\ bvol > 0 =>
        /\ Working => pos.vol <= bvol /\ pos.sl = bsl
        /\ pc = "managed" => mem.vol <= bvol /\ mem.sl = bsl

\* The broker deals in whole steps, and what the closing of a whole position
\* leaves there is at most one.
WholeVolume ==
    /\ bvol >= 0 /\ bvol % Step = 0
    /\ Working => mem.tracked /\ pos.tracked
    /\ ~mem.tracked => bvol <= Step
    /\ ~disk.tracked => bvol <= Step

\* A stop of the ladder or of the trailing stop.
Ladder(a) == a.kind = "set_sl" /\ a.why # "flip_tighten"

\* The stops of a list lie above `stop` and never fall, and nothing follows the
\* tightening of a flip.
Climbs(list, stop) ==
    \A i \in DOMAIN list :
        /\ Ladder(list[i]) => list[i].arg >= stop
        /\ \A j \in DOMAIN list :
               i < j => /\ list[i].why # "flip_tighten"
                        /\ Ladder(list[i]) /\ Ladder(list[j]) => list[i].arg <= list[j].arg

ListClimbs == Truthful /\ Working /\ bvol > 0 => Climbs(acts, bsl)

\* A list asks for each partial close once, and for none that is flagged.
AskedOnce(list, done) ==
    \A i \in DOMAIN list : list[i].kind = "close_volume" =>
        /\ list[i].why \in Partials \ done
        /\ \A j \in DOMAIN list : i # j /\ list[j].kind = "close_volume"
                                     => list[i].why # list[j].why

\* Of a volume of one step no part is a whole step.
LastStep(m) == m.vol <= Step /\ bvol <= Step

\* A partial close whose flag the next judgement will not see was repeated by a
\* failure, each repetition by its own, or the flag was forgotten by the adoption
\* of a last step.
SoldOnce ==
    \A p \in Partials :
        /\ sold[p] <= 1 + Len(faults)
        /\ Working /\ p \notin pos.done => sold[p] <= Len(faults) \/ LastStep(pos)
        /\ ~Working /\ mem.tracked /\ p \notin mem.done
              => sold[p] <= Len(faults) \/ LastStep(mem)

IInv ==
    /\ TypeOK
    /\ CopyTrue
    /\ ListClimbs
    /\ Working => AskedOnce(acts, pos.done)
    /\ WholeVolume
    /\ SoldOnce

(***************************************************************************)
(* The settings and the arithmetic of one judgement.                       *)
(***************************************************************************)
LEMMA Settings ==
    /\ StopAtr \in Nat /\ ScaleOut1 \in Nat /\ ScaleOut2 \in Nat /\ LockArm \in Nat
    /\ LockPlus \in Nat /\ RatchetArm \in Nat /\ RatchetLock \in Nat
    /\ Ratchet2Arm \in Nat /\ Ratchet2Lock \in Nat /\ TrailArm \in Nat
    /\ TrailDistance \in Nat /\ RetraceArm \in Nat /\ FlipTighten \in Nat
    /\ ScalePct \in Nat /\ RetraceKeepPct \in Nat
BY SettingsAssumption

LEMMA ThirdIsInt == ASSUME NEW p \in Position  PROVE Third(p) \in Int
<1>1. p.initial \in Nat
    BY DEF Position
<1>2. ScalePct * p.initial \in Int
    BY <1>1, Settings
<1> QED  BY <1>2 DEF Third

\* Rounding gives whole steps, or nothing, and never rounds up.
LEMMA RoundedFacts ==
    ASSUME NEW lots \in Int
    PROVE  /\ Rounded(lots) \in Int /\ Rounded(lots) >= 0 /\ Rounded(lots) % Step = 0
           /\ lots >= 0 => Rounded(lots) <= lots
           /\ Rounded(lots) > 0 => Rounded(lots) >= VolumeMin
<1>1. /\ VolumeMin \in Nat /\ VolumeMin > 0
      /\ lots \in FallsShort => lots > VolumeMin /\ lots % 100 = 0
    BY SizeAssumption DEF WholeSteps, Step
<1>2. /\ lots - (lots % 100) \in Int /\ (lots - (lots % 100)) % 100 = 0
      /\ lots - (lots % 100) <= lots
      /\ (lots - (lots % 100) - 100) % 100 = 0
    OBVIOUS
<1>3. /\ Floored(lots) \in Int /\ Floored(lots) % 100 = 0 /\ Floored(lots) <= lots
    BY <1>2 DEF Floored, Step
<1> QED  BY <1>1, <1>3 DEF Rounded, Step

\* Rounding whole steps once more takes at most one of them, and never all.
LEMMA RoundedAgain ==
    ASSUME NEW vol \in Nat, vol % Step = 0, vol >= VolumeMin
    PROVE  Rounded(vol) > 0 /\ Rounded(vol) >= vol - Step
<1>1. VolumeMin \in Nat /\ VolumeMin > 0 /\ VolumeMin % 100 = 0
    BY SizeAssumption DEF WholeSteps, Step
<1>2. vol % 100 = 0 /\ vol - (vol % 100) = vol
    BY DEF Step
<1>3. CASE vol \in FallsShort
  <2>1. vol > VolumeMin
      BY <1>3, SizeAssumption
  <2>2. vol - 100 >= VolumeMin
      BY <1>1, <1>2, <2>1
  <2>3. Floored(vol) = vol - 100
      BY <1>2, <1>3 DEF Floored, Step
  <2> QED  BY <1>1, <2>2, <2>3 DEF Rounded, Step
<1>4. CASE vol \notin FallsShort
  <2>1. Floored(vol) = vol
      BY <1>2, <1>4 DEF Floored, Step
  <2> QED  BY <1>1, <2>1 DEF Rounded, Step
<1> QED  BY <1>3, <1>4

\* What close_position sells are whole steps the position has.
LEMMA SoldFacts ==
    ASSUME NEW lots \in Int, lots > 0, bvol \in Int, bvol > 0, bvol % Step = 0
    PROVE  /\ Sold(lots) \in Int /\ Sold(lots) > 0 /\ Sold(lots) <= bvol
           /\ Sold(lots) % Step = 0
<1>1. Lower(lots, bvol) \in Int /\ Lower(lots, bvol) > 0 /\ Lower(lots, bvol) <= bvol
    BY DEF Lower
<1>2. /\ Rounded(Lower(lots, bvol)) \in Int /\ Rounded(Lower(lots, bvol)) >= 0
      /\ Rounded(Lower(lots, bvol)) <= Lower(lots, bvol)
      /\ Rounded(Lower(lots, bvol)) % Step = 0
    BY <1>1, RoundedFacts
<1> QED  BY <1>1, <1>2 DEF Sold

\* A part that was rounded before leaves something.
LEMMA PartLeaves ==
    ASSUME NEW arg \in Int, bvol \in Int, Rounded(arg) > 0, Rounded(arg) < bvol
    PROVE  Sold(Rounded(arg)) <= Rounded(arg)
<1>1. /\ Rounded(arg) \in Nat /\ Rounded(arg) % Step = 0 /\ Rounded(arg) >= VolumeMin
    BY RoundedFacts
<1>2. Lower(Rounded(arg), bvol) = Rounded(arg)
    BY <1>1 DEF Lower
<1>3. Rounded(Rounded(arg)) > 0 /\ Rounded(Rounded(arg)) <= Rounded(arg)
    BY <1>1, RoundedAgain, RoundedFacts
<1> QED  BY <1>1, <1>2, <1>3 DEF Sold

\* What the closing of a whole position leaves.
LEMMA AllLeaves ==
    ASSUME bvol \in Int, bvol > 0, bvol % Step = 0
    PROVE  bvol - Sold(bvol) <= Step
<1>1. Lower(bvol, bvol) = bvol
    BY DEF Lower
<1>2. CASE bvol >= VolumeMin
  <2>1. VolumeMin \in Nat
      BY SizeAssumption DEF WholeSteps
  <2>2. bvol \in Nat
      BY <1>2, <2>1
  <2>3. /\ Rounded(bvol) \in Int /\ Rounded(bvol) > 0
        /\ Rounded(bvol) >= bvol - Step
      BY <1>2, <2>2, RoundedAgain, RoundedFacts
  <2>4. Sold(bvol) = Rounded(bvol)
      BY <1>1, <2>3 DEF Sold
  <2> QED  BY <2>3, <2>4 DEF Step
<1>3. CASE ~(bvol >= VolumeMin)
  <2>1. Rounded(bvol) \in Int /\ Rounded(bvol) >= 0 /\ Rounded(bvol) <= bvol
        /\ (Rounded(bvol) > 0 => Rounded(bvol) >= VolumeMin)
      BY RoundedFacts
  <2>2. VolumeMin \in Nat
      BY SizeAssumption DEF WholeSteps
  <2>3. Rounded(bvol) = 0
      BY <1>3, <2>1, <2>2
  <2> QED  BY <1>1, <2>3 DEF Sold, Step
<1> QED  BY <1>2, <1>3

(***************************************************************************)
(* What evaluate returns, one action at a time: a list that asks for each  *)
(* partial once and whose stops climb.                                     *)
(***************************************************************************)
Orderly(list, stop, done) ==
    list \in Seq(Action) /\ Climbs(list, stop) /\ AskedOnce(list, done)

NoFlip(list) == \A i \in DOMAIN list : list[i].why # "flip_tighten"

Under(list, x) == \A i \in DOMAIN list : Ladder(list[i]) => list[i].arg <= x

NotAsked(list, why) ==
    \A i \in DOMAIN list : list[i].kind = "close_volume" => list[i].why # why

\* Action a may follow the list.
Fits(list, a, stop, done) ==
    /\ Ladder(a) => a.arg >= stop /\ Under(list, a.arg)
    /\ a.kind = "close_volume" => a.why \in Partials \ done /\ NotAsked(list, a.why)

LEMMA NothingAsked ==
    ASSUME NEW stop, NEW done, NEW x, NEW why
    PROVE  /\ Orderly(<<>>, stop, done)
           /\ NoFlip(<<>>) /\ Under(<<>>, x) /\ NotAsked(<<>>, why)
BY DEF Orderly, Climbs, AskedOnce, NoFlip, Under, NotAsked

LEMMA OneMore ==
    ASSUME NEW stop \in Int, NEW done, NEW list, NEW a \in Action,
           Orderly(list, stop, done), NoFlip(list), Fits(list, a, stop, done)
    PROVE  Orderly(Append(list, a), stop, done)
<1> DEFINE m == Append(list, a)
<1>1. list \in Seq(Action)
    BY DEF Orderly
<1>2. /\ m \in Seq(Action) /\ Len(m) = Len(list) + 1 /\ m[Len(m)] = a
      /\ \A i \in DOMAIN list : m[i] = list[i] /\ i \in DOMAIN m /\ i < Len(m)
      /\ \A i \in DOMAIN m : i = Len(m) \/ i \in DOMAIN list
      /\ \A i \in DOMAIN m : i <= Len(m)
    BY <1>1
<1> HIDE DEF m
<1>3. Climbs(m, stop)
  <2> SUFFICES ASSUME NEW i \in DOMAIN m
               PROVE  /\ Ladder(m[i]) => m[i].arg >= stop
                      /\ \A j \in DOMAIN m :
                            i < j => /\ m[i].why # "flip_tighten"
                                     /\ Ladder(m[i]) /\ Ladder(m[j]) => m[i].arg <= m[j].arg
      BY DEF Climbs
  <2>1. CASE i = Len(m)
    <3>1. \A j \in DOMAIN m : ~(i < j)
        BY <1>1, <1>2, <2>1
    <3> QED  BY <1>2, <2>1, <3>1 DEF Fits
  <2>2. CASE i \in DOMAIN list
    <3>1. Ladder(list[i]) => list[i].arg >= stop
        BY <2>2 DEF Orderly, Climbs
    <3>2. list[i].why # "flip_tighten"
        BY <2>2 DEF NoFlip
    <3>3. ASSUME NEW j \in DOMAIN m, i < j, Ladder(m[i]), Ladder(m[j])
          PROVE  m[i].arg <= m[j].arg
      <4>1. CASE j = Len(m)
          BY <1>2, <2>2, <3>3, <4>1 DEF Fits, Under
      <4>2. CASE j \in DOMAIN list
          BY <1>2, <2>2, <3>3, <4>2 DEF Orderly, Climbs
      <4> QED  BY <1>2, <4>1, <4>2
    <3> QED  BY <1>2, <2>2, <3>1, <3>2, <3>3
  <2> QED  BY <1>2, <2>1, <2>2
<1>4. AskedOnce(m, done)
  <2> SUFFICES ASSUME NEW i \in DOMAIN m, m[i].kind = "close_volume"
               PROVE  /\ m[i].why \in Partials \ done
                      /\ \A j \in DOMAIN m : i # j /\ m[j].kind = "close_volume"
                                               => m[i].why # m[j].why
      BY DEF AskedOnce
  <2>1. CASE i = Len(m)
      BY <1>2, <2>1 DEF Fits, NotAsked
  <2>2. CASE i \in DOMAIN list
    <3>1. list[i].why \in Partials \ done
        BY <1>2, <2>2 DEF Orderly, AskedOnce
    <3>2. ASSUME NEW j \in DOMAIN m, i # j, m[j].kind = "close_volume"
          PROVE  m[i].why # m[j].why
      <4>1. CASE j = Len(m)
          BY <1>2, <2>2, <3>2, <4>1 DEF Fits, NotAsked
      <4>2. CASE j \in DOMAIN list
          BY <1>2, <2>2, <3>2, <4>2 DEF Orderly, AskedOnce
      <4> QED  BY <1>2, <4>1, <4>2
    <3> QED  BY <1>2, <2>2, <3>1, <3>2
  <2> QED  BY <1>2, <2>1, <2>2
<1> QED  BY <1>2, <1>3, <1>4 DEF Orderly, m

\* The same for an action that may be left out, and what it does to the bounds
\* of the list.
LEMMA OneMoreOrNot ==
    ASSUME NEW stop \in Int, NEW done, NEW list, NEW a \in Action, NEW w,
           w = <<>> \/ w = <<a>>,
           Orderly(list, stop, done), NoFlip(list),
           w = <<a>> => Fits(list, a, stop, done)
    PROVE  /\ Orderly(list \o w, stop, done)
           /\ a.why # "flip_tighten" => NoFlip(list \o w)
<1>1. list \in Seq(Action)
    BY DEF Orderly
<1>2. CASE w = <<a>>
  <2>1. list \o w = Append(list, a)
      BY <1>1, <1>2
  <2>2. Orderly(Append(list, a), stop, done)
      BY <1>2, OneMore
  <2>3. \A i \in DOMAIN Append(list, a) :
            Append(list, a)[i] = a \/ (i \in DOMAIN list /\ Append(list, a)[i] = list[i])
      BY <1>1
  <2> QED  BY <1>2, <2>1, <2>2, <2>3 DEF NoFlip
<1>3. CASE w = <<>>
  <2>1. list \o w = list
      BY <1>1, <1>3
  <2> QED  BY <1>3, <2>1
<1> QED  BY <1>2, <1>3

LEMMA ElementsOfMore ==
    ASSUME NEW list \in Seq(Action), NEW a \in Action, NEW w, w = <<>> \/ w = <<a>>,
           NEW i \in DOMAIN (list \o w)
    PROVE  (w = <<a>> /\ (list \o w)[i] = a) \/ (i \in DOMAIN list /\ (list \o w)[i] = list[i])
<1>1. CASE w = <<a>>
    BY <1>1
<1>2. CASE w = <<>>
    BY <1>2
<1> QED  BY <1>1, <1>2

LEMMA StillUnder ==
    ASSUME NEW list \in Seq(Action), NEW a \in Action, NEW w, w = <<>> \/ w = <<a>>,
           NEW x \in Int, Under(list, x), w = <<a>> /\ Ladder(a) => a.arg <= x
    PROVE  Under(list \o w, x)
BY ElementsOfMore DEF Under

LEMMA StillNotAsked ==
    ASSUME NEW list \in Seq(Action), NEW a \in Action, NEW w, w = <<>> \/ w = <<a>>,
           NEW why, NotAsked(list, why), ~(a.kind = "close_volume" /\ a.why = why)
    PROVE  NotAsked(list \o w, why)
BY ElementsOfMore DEF NotAsked

LEMMA WhenCases ==
    ASSUME NEW a, NEW c \in BOOLEAN
    PROVE  /\ When(c, a) = <<>> \/ When(c, a) = <<a>>
           /\ When(c, a) = <<a>> => c
BY DEF When

LEMMA WhenType ==
    ASSUME NEW a \in Action, NEW c \in BOOLEAN
    PROVE  When(c, a) \in Seq(Action)
BY DEF When

LEMMA ActionTypes ==
    /\ \A x \in Int : \A why \in {"breakeven_lock", "ratchet", "ratchet2", "trailing", "flip_tighten"} :
           SetSl(x, why) \in Action
    /\ \A x \in Int : \A why \in Partials : CloseVolume(x, why) \in Action
    /\ CloseAll \in Action
BY DEF SetSl, CloseVolume, CloseAll, Action, Partials

LEMMA ScaleOutsOrderly ==
    ASSUME NEW p \in Position, NEW peak \in Int
    PROVE  /\ Orderly(ScaleOuts(p, peak), p.sl, p.done)
           /\ NoFlip(ScaleOuts(p, peak))
           /\ \A x \in Int : Under(ScaleOuts(p, peak), x)
           /\ NotAsked(ScaleOuts(p, peak), "time_partial")
<1> DEFINE c1 == "scale_out_1" \notin p.done /\ peak >= ScaleOut1
           a1 == CloseVolume(Third(p), "scale_out_1")
           c2 == "scale_out_1" \in p.done /\ "scale_out_2" \notin p.done /\ peak >= ScaleOut2
           a2 == CloseVolume(Lower(Third(p), p.vol), "scale_out_2")
           w1 == When(c1, a1)
           w2 == When(c2, a2)
           s0 == <<>>
           s1 == s0 \o w1
           s2 == s1 \o w2
<1>1. p.sl \in Int /\ p.vol \in Int
    BY DEF Position
<1>2. a1 \in Action /\ a2 \in Action
  <2>1. Lower(Third(p), p.vol) \in Int
      BY <1>1, ThirdIsInt DEF Lower
  <2> QED  BY <2>1, ThirdIsInt, ActionTypes DEF Partials
<1>3. /\ a1.kind = "close_volume" /\ a1.why = "scale_out_1"
      /\ a2.kind = "close_volume" /\ a2.why = "scale_out_2"
      /\ ~Ladder(a1) /\ ~Ladder(a2)
    BY DEF CloseVolume, Ladder
<1>4. /\ w1 = <<>> \/ w1 = <<a1>>
      /\ w2 = <<>> \/ w2 = <<a2>>
      /\ w1 = <<a1>> => "scale_out_1" \in Partials \ p.done
      /\ w2 = <<a2>> => "scale_out_2" \in Partials \ p.done
    BY WhenCases DEF Partials
<1>5. ScaleOuts(p, peak) = s2
    BY <1>2, WhenType DEF ScaleOuts
<1>6. /\ Orderly(s0, p.sl, p.done) /\ NoFlip(s0)
      /\ \A x \in Int : Under(s0, x)
      /\ NotAsked(s0, "time_partial") /\ NotAsked(s0, "scale_out_1") /\ NotAsked(s0, "scale_out_2")
    BY NothingAsked
<1> HIDE DEF c1, c2, a1, a2, w1, w2, s0
<1>7. /\ Orderly(s1, p.sl, p.done) /\ NoFlip(s1)
      /\ \A x \in Int : Under(s1, x)
      /\ NotAsked(s1, "time_partial") /\ NotAsked(s1, "scale_out_2")
  <2>1. w1 = <<a1>> => Fits(s0, a1, p.sl, p.done)
      BY <1>3, <1>4, <1>6 DEF Fits
  <2>2. Orderly(s1, p.sl, p.done) /\ NoFlip(s1)
      BY <1>1, <1>2, <1>3, <1>4, <1>6, <2>1, OneMoreOrNot
  <2>3. s0 \in Seq(Action)
      BY <1>6 DEF Orderly
  <2>4. \A x \in Int : Under(s1, x)
      BY <1>2, <1>3, <1>4, <1>6, <2>3, StillUnder
  <2>5. NotAsked(s1, "time_partial") /\ NotAsked(s1, "scale_out_2")
      BY <1>2, <1>3, <1>4, <1>6, <2>3, StillNotAsked
  <2> QED  BY <2>2, <2>4, <2>5
<1> HIDE DEF s1
<1>8. /\ Orderly(s2, p.sl, p.done) /\ NoFlip(s2)
      /\ \A x \in Int : Under(s2, x)
      /\ NotAsked(s2, "time_partial")
  <2>1. w2 = <<a2>> => Fits(s1, a2, p.sl, p.done)
      BY <1>3, <1>4, <1>7 DEF Fits
  <2>2. Orderly(s2, p.sl, p.done) /\ NoFlip(s2)
      BY <1>1, <1>2, <1>3, <1>4, <1>7, <2>1, OneMoreOrNot
  <2>3. s1 \in Seq(Action)
      BY <1>7 DEF Orderly
  <2>4. \A x \in Int : Under(s2, x)
      BY <1>2, <1>3, <1>4, <1>7, <2>3, StillUnder
  <2>5. NotAsked(s2, "time_partial")
      BY <1>2, <1>3, <1>4, <1>7, <2>3, StillNotAsked
  <2> QED  BY <2>2, <2>4, <2>5
<1> QED  BY <1>5, <1>8

\* The rungs come in the order of what they lock.
LEMMA StopsOrderly ==
    ASSUME NEW p \in Position, NEW peak \in Int, NEW list,
           Orderly(list, p.sl, p.done), NoFlip(list), \A x \in Int : Under(list, x),
           NotAsked(list, "time_partial")
    PROVE  /\ Orderly(list \o Stops(p, peak), p.sl, p.done)
           /\ NoFlip(list \o Stops(p, peak))
           /\ NotAsked(list \o Stops(p, peak), "time_partial")
<1> DEFINE c1 == peak >= LockArm /\ LockPlus > p.sl
           a1 == SetSl(LockPlus, "breakeven_lock")
           c2 == peak >= Ratchet2Arm /\ Ratchet2Lock > p.sl
           a2 == SetSl(Ratchet2Lock, "ratchet2")
           c3 == peak >= RatchetArm /\ peak < Ratchet2Arm /\ RatchetLock > p.sl
           a3 == SetSl(RatchetLock, "ratchet")
           c4 == peak >= TrailArm /\ peak - TrailDistance > p.sl
           a4 == SetSl(peak - TrailDistance, "trailing")
           w1 == When(c1, a1)  w2 == When(c2, a2)  w3 == When(c3, a3)  w4 == When(c4, a4)
           s1 == list \o w1
           s2 == s1 \o w2
           s3 == s2 \o w3
           s4 == s3 \o w4
<1>1. p.sl \in Int
    BY DEF Position
<1>2. peak - TrailDistance \in Int
    BY Settings
<1>3. /\ a1 \in Action /\ a2 \in Action /\ a3 \in Action /\ a4 \in Action
      /\ c1 \in BOOLEAN /\ c2 \in BOOLEAN /\ c3 \in BOOLEAN /\ c4 \in BOOLEAN
    BY <1>2, Settings, ActionTypes
<1>4. /\ a1.kind = "set_sl" /\ a1.why = "breakeven_lock" /\ a1.arg = LockPlus
      /\ a2.kind = "set_sl" /\ a2.why = "ratchet2" /\ a2.arg = Ratchet2Lock
      /\ a3.kind = "set_sl" /\ a3.why = "ratchet" /\ a3.arg = RatchetLock
      /\ a4.kind = "set_sl" /\ a4.why = "trailing" /\ a4.arg = peak - TrailDistance
    BY DEF SetSl
<1>5. /\ w1 = <<>> \/ (w1 = <<a1>> /\ c1)
      /\ w2 = <<>> \/ (w2 = <<a2>> /\ c2)
      /\ w3 = <<>> \/ (w3 = <<a3>> /\ c3)
      /\ w4 = <<>> \/ (w4 = <<a4>> /\ c4)
  <2> HIDE DEF c1, c2, c3, c4, a1, a2, a3, a4
  <2> QED  BY <1>3 DEF When
<1>6. list \o Stops(p, peak) = s4
  <2>1. list \in Seq(Action) /\ w1 \in Seq(Action) /\ w2 \in Seq(Action)
        /\ w3 \in Seq(Action) /\ w4 \in Seq(Action)
      BY <1>3, WhenType DEF Orderly
  <2>2. Stops(p, peak) = w1 \o w2 \o w3 \o w4
      BY DEF Stops
  <2> HIDE DEF w1, w2, w3, w4
  <2> DEFINE w12 == w1 \o w2
             w123 == w12 \o w3
  <2>3. w12 \in Seq(Action)
      BY <2>1
  <2>4. list \o w12 = (list \o w1) \o w2
      BY <2>1
  <2> HIDE DEF w12
  <2>5. w123 \in Seq(Action)
      BY <2>1, <2>3
  <2>6. list \o w123 = (list \o w12) \o w3
      BY <2>1, <2>3
  <2> HIDE DEF w123
  <2>7. list \o (w123 \o w4) = (list \o w123) \o w4
      BY <2>1, <2>5
  <2>8. list \o (w123 \o w4) = (((list \o w1) \o w2) \o w3) \o w4
      BY <2>4, <2>6, <2>7
  <2> QED  BY <2>2, <2>8 DEF w1, w2, w3, w4, w12, w123
<1>7. /\ c1 => LockPlus >= p.sl
      /\ c2 => Ratchet2Lock >= p.sl /\ LockPlus <= Ratchet2Lock
      /\ c3 => RatchetLock >= p.sl /\ LockPlus <= RatchetLock /\ ~c2
      /\ c4 => peak - TrailDistance >= p.sl /\ LockPlus <= peak - TrailDistance
      /\ c2 /\ c4 => Ratchet2Lock <= peak - TrailDistance
      /\ c3 /\ c4 => RatchetLock <= peak - TrailDistance
    BY <1>1, <1>2, Settings, LadderAssumption
<1> HIDE DEF c1, c2, c3, c4, a1, a2, a3, a4, w1, w2, w3, w4
<1>8. /\ Orderly(s1, p.sl, p.done) /\ NoFlip(s1) /\ NotAsked(s1, "time_partial")
      /\ \A x \in Int : LockPlus <= x => Under(s1, x)
  <2>1. w1 = <<a1>> => Fits(list, a1, p.sl, p.done)
      BY <1>4, <1>5, <1>7, Settings DEF Fits
  <2>2. Orderly(s1, p.sl, p.done) /\ NoFlip(s1)
      BY <1>1, <1>3, <1>4, <1>5, <2>1, OneMoreOrNot
  <2>3. list \in Seq(Action)
      BY DEF Orderly
  <2>4. NotAsked(s1, "time_partial")
      BY <1>3, <1>4, <1>5, <2>3, StillNotAsked
  <2>5. \A x \in Int : LockPlus <= x
                         => Under(s1, x)
      BY <1>3, <1>4, <1>5, <2>3, StillUnder
  <2> QED  BY <2>2, <2>4, <2>5
<1> HIDE DEF s1
<1>9. /\ Orderly(s2, p.sl, p.done) /\ NoFlip(s2) /\ NotAsked(s2, "time_partial")
      /\ \A x \in Int : LockPlus <= x /\ (c2 => Ratchet2Lock <= x) => Under(s2, x)
  <2>1. w2 = <<a2>> => Fits(s1, a2, p.sl, p.done)
      BY <1>4, <1>5, <1>7, <1>8, Settings DEF Fits
  <2>2. Orderly(s2, p.sl, p.done) /\ NoFlip(s2)
      BY <1>1, <1>3, <1>4, <1>5, <1>8, <2>1, OneMoreOrNot
  <2>3. s1 \in Seq(Action)
      BY <1>8 DEF Orderly
  <2>4. NotAsked(s2, "time_partial")
      BY <1>3, <1>4, <1>5, <1>8, <2>3, StillNotAsked
  <2>5. \A x \in Int : LockPlus <= x /\ (c2 => Ratchet2Lock <= x)
                         => Under(s2, x)
      BY <1>3, <1>4, <1>5, <1>8, <2>3, StillUnder
  <2> QED  BY <2>2, <2>4, <2>5
<1> HIDE DEF s2
<1>10. /\ Orderly(s3, p.sl, p.done) /\ NoFlip(s3) /\ NotAsked(s3, "time_partial")
       /\ \A x \in Int : LockPlus <= x /\ (c2 => Ratchet2Lock <= x) /\ (c3 => RatchetLock <= x)
                            => Under(s3, x)
  <2>1. w3 = <<a3>> => Fits(s2, a3, p.sl, p.done)
      BY <1>4, <1>5, <1>7, <1>9, Settings DEF Fits
  <2>2. Orderly(s3, p.sl, p.done) /\ NoFlip(s3)
      BY <1>1, <1>3, <1>4, <1>5, <1>9, <2>1, OneMoreOrNot
  <2>3. s2 \in Seq(Action)
      BY <1>9 DEF Orderly
  <2>4. NotAsked(s3, "time_partial")
      BY <1>3, <1>4, <1>5, <1>9, <2>3, StillNotAsked
  <2>5. \A x \in Int : LockPlus <= x /\ (c2 => Ratchet2Lock <= x) /\ (c3 => RatchetLock <= x)
                         => Under(s3, x)
      BY <1>3, <1>4, <1>5, <1>9, <2>3, StillUnder
  <2> QED  BY <2>2, <2>4, <2>5
<1> HIDE DEF s3
<1>11. /\ Orderly(s4, p.sl, p.done) /\ NoFlip(s4) /\ NotAsked(s4, "time_partial")
  <2>1. w4 = <<a4>> => Fits(s3, a4, p.sl, p.done)
      BY <1>2, <1>4, <1>5, <1>7, <1>10 DEF Fits
  <2>2. Orderly(s4, p.sl, p.done) /\ NoFlip(s4)
      BY <1>1, <1>3, <1>4, <1>5, <1>10, <2>1, OneMoreOrNot
  <2>3. s3 \in Seq(Action)
      BY <1>10 DEF Orderly
  <2>4. NotAsked(s4, "time_partial")
      BY <1>3, <1>4, <1>5, <1>10, <2>3, StillNotAsked
  <2> QED  BY <2>2, <2>4
<1> QED  BY <1>6, <1>11

LEMMA EvaluateOrderly ==
    ASSUME NEW p \in Position, NEW profit \in Int,
           NEW friday \in BOOLEAN, NEW opposes \in BOOLEAN
    PROVE  Orderly(Evaluate(p, profit, friday, opposes), p.sl, p.done)
<1> DEFINE peak == Higher(p.peak, profit)
           always == ScaleOuts(p, peak) \o Stops(p, peak)
           c == "time_partial" \notin p.done /\ bars >= PartialBars /\ profit < PartialProfit
           a == CloseVolume(p.vol \div 2, "time_partial")
           w == When(c, a)
           partial == always \o w
           f == opposes /\ Tightens(p)
           b == SetSl(-FlipTighten, "flip_tighten")
           v == When(f, b)
<1>1. p.sl \in Int /\ p.vol \in Int /\ peak \in Int
    BY DEF Position, Higher
<1> HIDE DEF peak
<1>2. Orderly(always, p.sl, p.done) /\ NoFlip(always) /\ NotAsked(always, "time_partial")
    BY <1>1, ScaleOutsOrderly, StopsOrderly
<1> HIDE DEF always
<1>3. Orderly(partial, p.sl, p.done) /\ NoFlip(partial)
  <2>1. a \in Action /\ c \in BOOLEAN
    <3>1. p.vol \div 2 \in Int
        BY <1>1
    <3> QED  BY <3>1, ActionTypes DEF Partials
  <2>2. a.kind = "close_volume" /\ a.why = "time_partial"
      BY DEF CloseVolume
  <2>3. /\ w = <<>> \/ w = <<a>>
        /\ w = <<a>> => "time_partial" \in Partials \ p.done
      BY <2>1, WhenCases DEF Partials
  <2> HIDE DEF a, c, w
  <2>4. w = <<a>> => Fits(always, a, p.sl, p.done)
      BY <1>2, <2>2, <2>3 DEF Fits, Ladder
  <2> QED  BY <1>1, <1>2, <2>1, <2>2, <2>3, <2>4, OneMoreOrNot
<1>4. CloseAll \in Action /\ CloseAll.kind = "close_all"
    BY ActionTypes DEF CloseAll
<1>5. /\ Orderly(Append(always, CloseAll), p.sl, p.done)
      /\ Orderly(Append(partial, CloseAll), p.sl, p.done)
  <2> HIDE DEF partial
  <2>1. \A list : Fits(list, CloseAll, p.sl, p.done)
      BY <1>4 DEF Fits, Ladder
  <2> QED  BY <1>1, <1>2, <1>3, <1>4, <2>1, OneMore
<1>6. Orderly(partial \o v, p.sl, p.done)
  <2>1. b \in Action /\ f \in BOOLEAN
      BY Settings, ActionTypes DEF Tightens
  <2>2. b.kind = "set_sl" /\ b.why = "flip_tighten"
      BY DEF SetSl
  <2>3. v = <<>> \/ v = <<b>>
      BY <2>1, WhenCases
  <2> HIDE DEF b, f, v, partial
  <2>4. Fits(partial, b, p.sl, p.done)
      BY <2>2 DEF Fits, Ladder
  <2> QED  BY <1>1, <1>3, <2>1, <2>2, <2>3, <2>4, OneMoreOrNot
<1>7. Orderly(<<>>, p.sl, p.done)
    BY NothingAsked
<1> QED  BY <1>5, <1>6, <1>7 DEF Evaluate, TimePartial, always, peak

(***************************************************************************)
(* Lists as they are applied, and the record of failures.                  *)
(***************************************************************************)
LEMMA TailOrderly ==
    ASSUME NEW stop \in Int, NEW done, NEW list, Orderly(list, stop, done), list # <<>>
    PROVE  /\ Orderly(Tail(list), stop, done)
           /\ Ladder(Head(list)) => Head(list).arg >= stop /\ Climbs(Tail(list), Head(list).arg)
           /\ Head(list).why = "flip_tighten" => Tail(list) = <<>>
           /\ Head(list).kind = "close_volume"
                 => /\ Head(list).why \in Partials \ done
                    /\ AskedOnce(Tail(list), done \cup {Head(list).why})
<1> DEFINE h == Head(list)
           t == Tail(list)
<1>1. list \in Seq(Action)
    BY DEF Orderly
<1>2. /\ t \in Seq(Action) /\ h = list[1] /\ 1 \in DOMAIN list
      /\ Len(list) \in Nat /\ Len(t) = Len(list) - 1
      /\ \A i \in DOMAIN t : i \in Nat /\ i + 1 \in DOMAIN list /\ t[i] = list[i + 1] /\ 1 < i + 1
    BY <1>1
<1>3. \A i \in DOMAIN list : i \in Int /\ list[i] \in Action
    BY <1>1
<1> HIDE DEF h, t
<1>4. Climbs(t, stop)
    BY <1>2 DEF Orderly, Climbs
<1>5. AskedOnce(t, done)
    BY <1>2 DEF Orderly, AskedOnce
<1>6. Ladder(h) => h.arg >= stop
    BY <1>2 DEF Orderly, Climbs
<1>7. Ladder(h) => Climbs(t, h.arg)
  <2>1. Ladder(h) => \A i \in DOMAIN t : Ladder(t[i]) => h.arg <= t[i].arg
      BY <1>2 DEF Orderly, Climbs
  <2>2. h.arg \in Int /\ \A i \in DOMAIN t : t[i].arg \in Int
      BY <1>2, <1>3 DEF Action
  <2> QED  BY <1>4, <2>1, <2>2 DEF Climbs
<1>8. h.why = "flip_tighten" => t = <<>>
  <2> SUFFICES ASSUME h.why = "flip_tighten", t # <<>>
               PROVE  FALSE
      OBVIOUS
  <2>1. 1 \in DOMAIN t
      BY <1>2
  <2> QED  BY <1>2, <2>1 DEF Orderly, Climbs
<1>9. h.kind = "close_volume" => h.why \in Partials \ done
    BY <1>2 DEF Orderly, AskedOnce
<1>10. h.kind = "close_volume" => AskedOnce(t, done \cup {h.why})
    BY <1>2 DEF Orderly, AskedOnce
<1> QED  BY <1>2, <1>4, <1>5, <1>6, <1>7, <1>8, <1>9, <1>10 DEF Orderly, h, t

LEMMA OneFault ==
    ASSUME TypeOK, NEW kind, Fault(kind)
    PROVE  /\ faults' \in Seq(FaultKinds) /\ Len(faults') <= MaxFaults
           /\ Len(faults) \in Nat /\ Len(faults') = Len(faults) + 1
           /\ Truthful' => Truthful /\ kind \notin {"lost", "blind", "noprice", "nospecs"}
<1>1. faults \in Seq(FaultKinds) /\ kind \in FaultKinds /\ faults' = Append(faults, kind)
    BY DEF TypeOK, Fault
<1>2. /\ faults' \in Seq(FaultKinds) /\ Len(faults) \in Nat /\ Len(faults') = Len(faults) + 1
      /\ Len(faults') \in DOMAIN faults' /\ faults'[Len(faults')] = kind
      /\ \A k \in DOMAIN faults : k \in DOMAIN faults' /\ faults'[k] = faults[k]
    BY <1>1
<1>3. Len(faults') <= MaxFaults
    BY <1>2, FaultAssumption DEF Fault
<1> QED  BY <1>2, <1>3 DEF Truthful

LEMMA Pairs ==
    ASSUME NEW S, NEW a \in S, NEW b \in S
    PROVE  /\ <<>> \in Seq(S) /\ <<>> \o <<a>> \in Seq(S) /\ Len(<<>> \o <<a>>) = 1 /\ (<<>> \o <<a>>)[1] = a
           /\ <<a>> \o <<>> \in Seq(S) /\ Len(<<a>> \o <<>>) = 1 /\ (<<a>> \o <<>>)[1] = a
           /\ <<a>> \o <<b>> \in Seq(S) /\ Len(<<a>> \o <<b>>) = 2
           /\ (<<a>> \o <<b>>)[1] = a
<1>1. <<>> \in Seq(S) /\ <<a>> \in Seq(S) /\ <<b>> \in Seq(S)
    OBVIOUS
<1> QED  BY <1>1

\* The failures of one partial close.
LEMMA PartFaults ==
    ASSUME TypeOK, NEW specs \in BOOLEAN, NEW reply \in BOOLEAN,
           Failing(When(~specs, "nospecs") \o When(~reply, "lost"))
    PROVE  /\ faults' \in Seq(FaultKinds) /\ Len(faults') <= MaxFaults
           /\ Len(faults) \in Nat /\ Len(faults') \in Nat /\ Len(faults') >= Len(faults)
           /\ specs /\ reply => faults' = faults
           /\ ~specs \/ ~reply => Len(faults') >= Len(faults) + 1
           /\ Truthful' => Truthful /\ specs /\ reply
<1> DEFINE kinds == When(~specs, "nospecs") \o When(~reply, "lost")
           none == specs /\ reply
<1>1. /\ \A k \in DOMAIN kinds : kinds[k] \in FaultKinds
      /\ Len(faults) + Len(kinds) <= MaxFaults
      /\ faults' = faults \o kinds
    BY DEF Failing
<1>2. /\ kinds \in Seq({"lost", "nospecs"})
      /\ none => kinds = <<>>
      /\ ~none => Len(kinds) >= 1 /\ kinds[1] \in {"lost", "nospecs"}
  <2>1. CASE specs /\ reply
      BY <2>1 DEF When
  <2>2. CASE specs /\ ~reply
    <3>1. kinds = <<>> \o <<"lost">>
        BY <2>2 DEF When
    <3>2. "lost" \in {"lost", "nospecs"} /\ "nospecs" \in {"lost", "nospecs"}
        OBVIOUS
    <3> HIDE DEF kinds
    <3> QED  BY <2>2, <3>1, <3>2, Pairs
  <2>3. CASE ~specs /\ reply
    <3>1. kinds = <<"nospecs">> \o <<>>
        BY <2>3 DEF When
    <3>2. "lost" \in {"lost", "nospecs"} /\ "nospecs" \in {"lost", "nospecs"}
        OBVIOUS
    <3> HIDE DEF kinds
    <3> QED  BY <2>3, <3>1, <3>2, Pairs
  <2>4. CASE ~specs /\ ~reply
    <3>1. kinds = <<"nospecs">> \o <<"lost">>
        BY <2>4 DEF When
    <3>2. "lost" \in {"lost", "nospecs"} /\ "nospecs" \in {"lost", "nospecs"}
        OBVIOUS
    <3> HIDE DEF kinds
    <3> QED  BY <2>4, <3>1, <3>2, Pairs
  <2> QED  BY <2>1, <2>2, <2>3, <2>4
<1>3. faults \in Seq(FaultKinds)
    BY DEF TypeOK
<1> HIDE DEF kinds
<1>4. kinds \in Seq(FaultKinds)
    BY <1>1, <1>2
<1>5. /\ faults' \in Seq(FaultKinds) /\ Len(faults) \in Nat /\ Len(kinds) \in Nat
      /\ Len(faults') = Len(faults) + Len(kinds)
      /\ \A k \in DOMAIN faults : k \in DOMAIN faults' /\ faults'[k] = faults[k]
      /\ Len(kinds) >= 1
           => Len(faults) + 1 \in DOMAIN faults' /\ faults'[Len(faults) + 1] = kinds[1]
    BY <1>1, <1>3, <1>4
<1>6. none => faults' = faults
    BY <1>1, <1>2, <1>3
<1>7. Truthful' => Truthful /\ none
    BY <1>2, <1>5 DEF Truthful
<1> QED  BY <1>1, <1>2, <1>5, <1>6, <1>7

LEMMA Judged ==
    ASSUME NEW p \in Position, NEW price \in Prices, NEW friday \in BOOLEAN,
           NEW opposes \in BOOLEAN, Judge(p, price, friday, opposes)
    PROVE  pos' = p /\ Orderly(acts', p.sl, p.done)
<1>1. price \in Int
    BY SizeAssumption
<1> QED  BY <1>1, EvaluateOrderly DEF Judge

LEMMA PeakKept ==
    ASSUME NEW p \in Position, NEW price \in Prices
    PROVE  /\ WithPeak(p, price) \in Position
           /\ WithPeak(p, price).sl = p.sl /\ WithPeak(p, price).vol = p.vol
           /\ WithPeak(p, price).done = p.done /\ WithPeak(p, price).tracked = p.tracked
<1>1. price \in Int /\ p.peak \in Int
    BY SizeAssumption DEF Position
<1>2. Higher(p.peak, price) \in Int
    BY <1>1 DEF Higher
<1> QED  BY <1>2 DEF WithPeak, Position

LEMMA ResyncKept ==
    ASSUME TypeOK
    PROVE  /\ mem \in Position /\ Resynced \in Position
           /\ Resynced.sl = bsl /\ Resynced.vol = bvol /\ Resynced.done = mem.done
           /\ Resynced.tracked = mem.tracked
BY DEF TypeOK, Resynced, Position

\* A pass over a position, with or without a truthful answer of the connector.
LEMMA Managed ==
    ASSUME TypeOK, NEW price \in Prices, NEW friday \in BOOLEAN, Manage(price, friday)
    PROVE  /\ pos' \in Position /\ pos'.done = mem.done /\ pos'.tracked = mem.tracked
           /\ pos'.vol \in {bvol, mem.vol}
           /\ Orderly(acts', pos'.sl, pos'.done)
           /\ \/ faults' = faults /\ pos'.sl = bsl /\ pos'.vol = bvol
              \/ Fault("blind")
<1>1. CASE NoFault /\ Judge(WithPeak(Resynced, price), price, friday, FALSE)
    BY <1>1, Judged, PeakKept, ResyncKept DEF NoFault
<1>2. CASE Fault("blind") /\ Judge(WithPeak(mem, price), price, friday, FALSE)
  <2> DEFINE q == WithPeak(mem, price)
  <2>1. q \in Position /\ q.vol = mem.vol /\ q.done = mem.done /\ q.tracked = mem.tracked
      BY PeakKept, ResyncKept
  <2> HIDE DEF q
  <2>2. pos' = q /\ Orderly(acts', q.sl, q.done)
      BY <1>2, <2>1, Judged DEF q
  <2> QED  BY <1>2, <2>1, <2>2
<1> QED  BY <1>1, <1>2 DEF Manage

LEMMA Rejudged ==
    ASSUME TypeOK, NEW price \in Prices, NEW friday \in BOOLEAN, NEW opposes \in BOOLEAN,
           Rejudge(price, friday, opposes)
    PROVE  /\ pos' = mem /\ pos' \in Position
           /\ Orderly(acts', pos'.sl, pos'.done)
BY Judged DEF Rejudge, TypeOK

(***************************************************************************)
(* Type correctness.                                                       *)
(***************************************************************************)
LEMMA InitInv == Init => IInv
<1> SUFFICES ASSUME Init
             PROVE  IInv
    OBVIOUS
<1>1. /\ bvol \in Nat /\ bvol > 0 /\ bvol % Step = 0
      /\ bsl \in Int /\ MaxBars \in Nat /\ MaxFaults \in Nat
  <2>1. bvol \in Nat /\ bvol > 0 /\ bvol % Step = 0
      BY SizeAssumption DEF Init, WholeSteps
  <2> QED  BY <2>1, Settings, SizeAssumption, FaultAssumption DEF Init, NoStop
<1>2. mem \in Position /\ mem.tracked /\ mem.done = {}
    BY <1>1 DEF Init, Position, FirstSeen
<1>3. faults = <<>> /\ faults \in Seq(FaultKinds) /\ Len(faults) = 0 /\ acts \in Seq(Action)
    BY DEF Init
<1>4. TypeOK
    BY <1>1, <1>2, <1>3 DEF Init, TypeOK
<1>5. SoldOnce
    BY <1>3 DEF SoldOnce, Init
<1>6. WholeVolume
    BY <1>1, <1>2 DEF WholeVolume, Working, Init
<1> QED  BY <1>4, <1>5, <1>6 DEF IInv, CopyTrue, ListClimbs, Working, Init

\* What an order that is being applied looks like.
LEMMA HeadOfList ==
    ASSUME IInv, Working, acts # <<>>
    PROVE  /\ Head(acts) \in Action /\ Tail(acts) \in Seq(Action)
           /\ Head(acts).kind = "close_volume"
                 => /\ Head(acts).why \in Partials \ pos.done
                    /\ AskedOnce(Tail(acts), pos.done \cup {Head(acts).why})
           /\ AskedOnce(Tail(acts), pos.done)
<1>1. acts \in Seq(Action) /\ AskedOnce(acts, pos.done)
    BY DEF IInv, TypeOK
<1>2. /\ Tail(acts) \in Seq(Action) /\ Head(acts) = acts[1] /\ 1 \in DOMAIN acts
      /\ Len(acts) \in Nat /\ Len(Tail(acts)) = Len(acts) - 1
      /\ \A i \in DOMAIN Tail(acts) :
             i \in Nat /\ i + 1 \in DOMAIN acts /\ Tail(acts)[i] = acts[i + 1] /\ 1 < i + 1
      /\ acts[1] \in Action
    BY <1>1
<1> QED  BY <1>1, <1>2 DEF AskedOnce

\* A partial close: what is asked for, what is sold and what the copy learns.
LEMMA PartFilled ==
    ASSUME IInv, PartialFill
    PROVE  \E specs, reply \in BOOLEAN, lots \in Int :
              /\ lots = IF specs THEN Rounded(Head(acts).arg) ELSE Head(acts).arg
              /\ Head(acts).arg \in Int
              /\ Failing(When(~specs, "nospecs") \o When(~reply, "lost"))
              /\ lots > 0 /\ lots < pos.vol
              /\ bvol' = bvol - Sold(lots)
              /\ pos' = IF reply THEN [pos EXCEPT !.vol = @ - lots,
                                                 !.done = @ \cup {Head(acts).why}]
                                 ELSE pos
              /\ Sold(lots) \in Int /\ Sold(lots) > 0 /\ Sold(lots) <= bvol
              /\ Sold(lots) % Step = 0
<1>1. Head(acts).arg \in Int
    BY HeadOfList DEF PartialFill, Pending, Working, Action
<1>2. Rounded(Head(acts).arg) \in Int
    BY <1>1, RoundedFacts
<1>3. PICK specs \in BOOLEAN, reply \in BOOLEAN :
          LET lots == IF specs THEN Rounded(Head(acts).arg) ELSE Head(acts).arg
          IN  /\ Failing(When(~specs, "nospecs") \o When(~reply, "lost"))
              /\ Sellable(lots)
              /\ bvol' = bvol - Sold(lots)
              /\ pos' = IF reply THEN [pos EXCEPT !.vol = @ - lots,
                                                 !.done = @ \cup {Head(acts).why}]
                                 ELSE pos
    BY DEF PartialFill
<1> DEFINE lots == IF specs THEN Rounded(Head(acts).arg) ELSE Head(acts).arg
<1>4. lots \in Int /\ lots > 0 /\ lots < pos.vol
    BY <1>1, <1>2, <1>3 DEF Sellable
<1>5. /\ Sold(lots) \in Int /\ Sold(lots) > 0 /\ Sold(lots) <= bvol
      /\ Sold(lots) % Step = 0
  <2>1. bvol \in Int /\ bvol > 0 /\ bvol % Step = 0
      BY DEF IInv, TypeOK, WholeVolume, PartialFill
  <2> QED  BY <1>4, <2>1, SoldFacts
<1> QED  BY <1>1, <1>3, <1>4, <1>5

LEMMA TypeStep ==
    ASSUME IInv, [Next]_vars
    PROVE  TypeOK'
<1>1. TypeOK
    BY DEF IInv
<1>2. CASE BracketFill
    BY <1>1, <1>2 DEF TypeOK, BracketFill
<1>3. CASE Hour
    BY <1>1, <1>3, SizeAssumption DEF TypeOK, Hour
<1>4. ASSUME NEW price \in Prices, NEW friday \in BOOLEAN, Manage(price, friday)
      PROVE  TypeOK'
  <2>1. pos' \in Position /\ acts' \in Seq(Action)
      BY <1>1, <1>4, Managed DEF Orderly
  <2>2. faults' \in Seq(FaultKinds) /\ Len(faults') <= MaxFaults
      BY <1>1, <1>4, OneFault DEF TypeOK, Manage, NoFault
  <2> QED  BY <1>1, <1>4, <2>1, <2>2 DEF TypeOK, Manage, brokerVars
<1>5. ASSUME NEW price \in Prices, NEW friday \in BOOLEAN, NEW opposes \in BOOLEAN,
             Rejudge(price, friday, opposes)
      PROVE  TypeOK'
  <2>1. pos' \in Position /\ acts' \in Seq(Action)
      BY <1>1, <1>5, Rejudged DEF Orderly
  <2> QED  BY <1>1, <1>5, <2>1 DEF TypeOK, Rejudge, brokerVars
<1>6. CASE Settle
    BY <1>1, <1>6 DEF TypeOK, Settle, brokerVars, Position
<1>7. CASE NoPrice
    BY <1>1, <1>7, OneFault DEF TypeOK, NoPrice, brokerVars
<1>8. CASE EndManage
    BY <1>1, <1>8 DEF TypeOK, EndManage, brokerVars
<1>9. CASE ApplySetSl
  <2>1. Head(acts) \in Action /\ Tail(acts) \in Seq(Action)
      BY <1>9, HeadOfList DEF ApplySetSl, Pending, Working
  <2>2. Head(acts).arg \in Int
      BY <2>1 DEF Action
  <2>3. faults' \in Seq(FaultKinds) /\ Len(faults') <= MaxFaults
      BY <1>1, <1>9, OneFault DEF TypeOK, ApplySetSl, NoFault
  <2>4. bsl' \in Int
      BY <1>1, <1>9, <2>2 DEF TypeOK, ApplySetSl
  <2>5. pos' \in Position
    <3>1. CASE UNCHANGED pos
        BY <1>1, <3>1 DEF TypeOK
    <3>2. CASE pos' = [pos EXCEPT !.sl = Head(acts).arg,
                                  !.tight = @ \/ Head(acts).why = "flip_tighten"]
      <4>1. (pos.tight \/ Head(acts).why = "flip_tighten") \in BOOLEAN
          BY <1>1 DEF TypeOK, Position
      <4> QED  BY <1>1, <2>2, <3>2, <4>1 DEF TypeOK, Position
    <3> QED  BY <1>9, <3>1, <3>2 DEF ApplySetSl
  <2> QED  BY <1>1, <1>9, <2>1, <2>3, <2>4, <2>5 DEF TypeOK, ApplySetSl
<1>10. CASE PartialFill
  <2>1. Head(acts) \in Action /\ Tail(acts) \in Seq(Action) /\ Head(acts).why \in Partials
      BY <1>10, HeadOfList DEF PartialFill, Pending, Working
  <2>2. PICK specs \in BOOLEAN, reply \in BOOLEAN, lots \in Int :
            /\ Failing(When(~specs, "nospecs") \o When(~reply, "lost"))
            /\ bvol' = bvol - Sold(lots) /\ Sold(lots) \in Int
            /\ pos' = IF reply THEN [pos EXCEPT !.vol = @ - lots,
                                               !.done = @ \cup {Head(acts).why}]
                               ELSE pos
      BY <1>10, PartFilled
  <2>3. faults' \in Seq(FaultKinds) /\ Len(faults') <= MaxFaults
      BY <1>1, <2>2, PartFaults
  <2>4. bvol' \in Int
      BY <1>1, <2>2 DEF TypeOK
  <2>5. pos' \in Position
    <3>1. /\ pos \in Position
          /\ pos.vol - lots \in Int /\ pos.done \cup {Head(acts).why} \in SUBSET Partials
      <4>1. pos \in Position
          BY <1>1 DEF TypeOK
      <4>2. pos.vol \in Int /\ pos.done \in SUBSET Partials
          BY <4>1 DEF Position
      <4> QED  BY <2>1, <4>1, <4>2
    <3>2. CASE reply
        BY <2>2, <3>1, <3>2 DEF Position
    <3> QED  BY <2>2, <3>1, <3>2
  <2>6. sold' \in [Partials -> Nat]
    <3>1. sold[Head(acts).why] + 1 \in Nat
        BY <1>1, <2>1 DEF TypeOK
    <3> QED  BY <1>1, <1>10, <2>1, <3>1 DEF TypeOK, PartialFill
  <2> QED  BY <1>1, <1>10, <2>1, <2>3, <2>4, <2>5, <2>6 DEF TypeOK, PartialFill
<1>11. CASE PartialSkipped
    BY <1>1, <1>11, HeadOfList DEF TypeOK, PartialSkipped, Pending, Working, brokerVars
<1>12. CASE CloseFill
  <2>1. faults' \in Seq(FaultKinds) /\ Len(faults') <= MaxFaults
      BY <1>1, <1>12, OneFault DEF TypeOK, CloseFill, NoFault
  <2>2. mem' \in Position /\ pos' \in Position
      BY <1>1, <1>12 DEF TypeOK, CloseFill, Position
  <2>3. acts' \in Seq(Action)
      BY <1>12 DEF CloseFill
  <2>4. bvol' \in Int
    <3>1. bvol \in Int /\ bvol > 0 /\ bvol % Step = 0
        BY <1>12 DEF IInv, TypeOK, WholeVolume, CloseFill
    <3>2. Sold(bvol) \in Int
        BY <3>1, SoldFacts
    <3> QED  BY <1>12, <3>1, <3>2 DEF CloseFill
  <2> QED  BY <1>1, <1>12, <2>1, <2>2, <2>3, <2>4 DEF TypeOK, CloseFill
<1>13. CASE CloseRejected
  <2>1. acts' \in Seq(Action)
      BY <1>13 DEF CloseRejected
  <2> QED  BY <1>1, <1>13, <2>1 DEF TypeOK, CloseRejected, brokerVars
<1>14. CASE WriteBack
    BY <1>1, <1>14 DEF TypeOK, WriteBack, brokerVars
<1>15. CASE Save
    BY <1>1, <1>15 DEF TypeOK, Save, brokerVars
<1>16. CASE Boot
    BY <1>1, <1>16 DEF TypeOK, Boot, brokerVars
<1>17. CASE CycleError
  <2>1. acts' \in Seq(Action)
      BY <1>17 DEF CycleError
  <2> QED  BY <1>1, <1>17, <2>1, OneFault DEF TypeOK, CycleError, brokerVars
<1>18. CASE Crash
  <2>1. acts' \in Seq(Action)
      BY <1>18 DEF Crash
  <2> QED  BY <1>1, <1>18, <2>1, OneFault DEF TypeOK, Crash, brokerVars
<1>19. CASE Adopt
  <2>1. bvol \in Nat /\ bsl \in Int
      BY <1>1 DEF IInv, TypeOK, WholeVolume
  <2>2. mem' \in Position /\ pos' \in Position
      BY <1>19, <2>1 DEF Adopt, FirstSeen, Position
  <2> QED  BY <1>1, <1>19, <2>2 DEF TypeOK, Adopt, brokerVars
<1>20. CASE UNCHANGED vars
    BY <1>1, <1>20 DEF TypeOK, vars, brokerVars
<1> QED
    BY <1>2, <1>3, <1>4, <1>5, <1>6, <1>7, <1>8, <1>9, <1>10, <1>11, <1>12, <1>13, <1>14,
       <1>15, <1>16, <1>17, <1>18, <1>19, <1>20
       DEF Next, Cycle, Apply

(***************************************************************************)
(* The copy, the list and the flags, one action at a time.                 *)
(***************************************************************************)
LEMMA CopyStep ==
    ASSUME IInv, [Next]_vars
    PROVE  CopyTrue'
<1> SUFFICES ASSUME Truthful', bvol' > 0
             PROVE  /\ Working' => pos'.vol <= bvol' /\ pos'.sl = bsl'
                    /\ pc' = "managed" => mem'.vol <= bvol' /\ mem'.sl = bsl'
    BY DEF CopyTrue
<1> DEFINE Goal == /\ Working' => pos'.vol <= bvol' /\ pos'.sl = bsl'
                   /\ pc' = "managed" => mem'.vol <= bvol' /\ mem'.sl = bsl'
<1>1. /\ TypeOK
      /\ Truthful /\ bvol > 0 /\ Working => pos.vol <= bvol /\ pos.sl = bsl
      /\ Truthful /\ bvol > 0 /\ pc = "managed" => mem.vol <= bvol /\ mem.sl = bsl
    BY DEF IInv, CopyTrue
<1>2. UNCHANGED faults => Truthful
    BY DEF Truthful
<1>3. CASE BracketFill
    BY <1>3 DEF BracketFill
<1>4. CASE Hour
    BY <1>1, <1>2, <1>4 DEF Hour, Working
<1>5. ASSUME NEW price \in Prices, NEW friday \in BOOLEAN, Manage(price, friday)
      PROVE  Goal
  <2>1. ~Fault("blind")
      BY <1>1, OneFault
  <2>2. pos'.sl = bsl /\ pos'.vol = bvol /\ bvol \in Int
      BY <1>1, <1>5, <2>1, Managed DEF TypeOK
  <2> QED  BY <1>5, <2>2 DEF Manage, brokerVars
<1>6. ASSUME NEW price \in Prices, NEW friday \in BOOLEAN, NEW opposes \in BOOLEAN,
             Rejudge(price, friday, opposes)
      PROVE  Goal
    BY <1>1, <1>2, <1>6, Rejudged DEF Rejudge, brokerVars
<1>7. CASE Settle
    BY <1>7 DEF Settle, Working
<1>8. CASE NoPrice
    BY <1>1, <1>8, OneFault DEF NoPrice
<1>9. CASE EndManage
    BY <1>9 DEF EndManage, Working
<1>10. CASE ApplySetSl
  <2>1. ~Fault("lost")
      BY <1>1, OneFault
  <2>2. pos \in Position
      BY <1>1 DEF TypeOK
  <2>3. Truthful /\ bvol > 0
      BY <1>2, <1>10, <2>1 DEF ApplySetSl, NoFault
  <2>4. pos'.vol <= bvol' /\ pos'.sl = bsl'
      BY <1>1, <1>10, <2>1, <2>2, <2>3 DEF ApplySetSl, Pending, Working, Position
  <2> QED  BY <1>10, <2>4 DEF ApplySetSl, Pending
<1>11. CASE PartialFill
  <2>1. PICK specs \in BOOLEAN, reply \in BOOLEAN, lots \in Int :
            /\ lots = IF specs THEN Rounded(Head(acts).arg) ELSE Head(acts).arg
            /\ Head(acts).arg \in Int
            /\ Failing(When(~specs, "nospecs") \o When(~reply, "lost"))
            /\ lots > 0 /\ lots < pos.vol
            /\ bvol' = bvol - Sold(lots) /\ Sold(lots) \in Int
            /\ pos' = IF reply THEN [pos EXCEPT !.vol = @ - lots,
                                               !.done = @ \cup {Head(acts).why}]
                               ELSE pos
      BY <1>11, PartFilled
  <2>2. Truthful /\ specs /\ reply
      BY <1>1, <2>1, PartFaults
  <2>3. pos \in Position /\ bvol \in Int
      BY <1>1 DEF TypeOK
  <2>4. pos.vol <= bvol /\ pos.sl = bsl /\ pos.vol \in Int
      BY <1>1, <1>11, <2>2, <2>3 DEF PartialFill, Pending, Working, Position
  <2>5. Sold(lots) <= lots
      BY <2>1, <2>2, <2>3, <2>4, PartLeaves
  <2>6. pos'.vol = pos.vol - lots /\ pos'.sl = bsl
      BY <2>1, <2>2, <2>3, <2>4 DEF Position
  <2> QED  BY <1>11, <2>1, <2>3, <2>4, <2>5, <2>6 DEF PartialFill, Pending
<1>12. CASE PartialSkipped
    BY <1>1, <1>2, <1>12 DEF PartialSkipped, brokerVars, Working
<1>13. CASE CloseFill
  <2>1. ~Fault("lost")
      BY <1>1, OneFault
  <2> QED  BY <1>13, <2>1 DEF CloseFill, Working
<1>14. CASE CloseRejected
    BY <1>1, <1>2, <1>14 DEF CloseRejected, brokerVars, Working
<1>15. CASE WriteBack
    BY <1>1, <1>2, <1>15 DEF WriteBack, brokerVars, Working
<1>16. CASE Save
    BY <1>16 DEF Save, Working
<1>17. CASE Boot
    BY <1>17 DEF Boot, Working
<1>18. CASE CycleError
    BY <1>18 DEF CycleError, Working
<1>19. CASE Crash
    BY <1>19 DEF Crash, Working
<1>20. CASE Adopt
    BY <1>20 DEF Adopt, Working
<1>21. CASE UNCHANGED vars
    BY <1>1, <1>2, <1>21 DEF vars, brokerVars, Working
<1> QED
    BY <1>3, <1>4, <1>5, <1>6, <1>7, <1>8, <1>9, <1>10, <1>11, <1>12, <1>13, <1>14,
       <1>15, <1>16, <1>17, <1>18, <1>19, <1>20, <1>21
       DEF Next, Cycle, Apply

LEMMA EmptyList ==
    ASSUME NEW stop, NEW done
    PROVE  Climbs(<<>>, stop) /\ AskedOnce(<<>>, done)
BY DEF Climbs, AskedOnce

LEMMA ListStep ==
    ASSUME IInv, [Next]_vars
    PROVE  ListClimbs' /\ (Working => AskedOnce(acts, pos.done))'
<1> SUFFICES ASSUME Working'
             PROVE  /\ Truthful' /\ bvol' > 0 => Climbs(acts', bsl')
                    /\ AskedOnce(acts', pos'.done)
    BY DEF ListClimbs
<1> DEFINE Goal == /\ Truthful' /\ bvol' > 0 => Climbs(acts', bsl')
                   /\ AskedOnce(acts', pos'.done)
<1>1. TypeOK /\ (Working => AskedOnce(acts, pos.done))
    BY DEF IInv
<1>2. Truthful /\ Working /\ bvol > 0 => Climbs(acts, bsl)
    BY DEF IInv, ListClimbs
<1>3. UNCHANGED faults => (Truthful' => Truthful)
    BY DEF Truthful
<1>4. CASE BracketFill
    BY <1>1, <1>4 DEF BracketFill, Working
<1>5. CASE Hour
    BY <1>1, <1>2, <1>3, <1>5 DEF Hour, Working
<1>6. ASSUME NEW price \in Prices, NEW friday \in BOOLEAN, Manage(price, friday)
      PROVE  Goal
  <2>1. Fault("blind") => ~Truthful'
      BY <1>1, OneFault
  <2>2. bsl' = bsl
      BY <1>6 DEF Manage, brokerVars
  <2> QED  BY <1>1, <1>6, <2>1, <2>2, Managed DEF Orderly
<1>7. ASSUME NEW price \in Prices, NEW friday \in BOOLEAN, NEW opposes \in BOOLEAN,
             Rejudge(price, friday, opposes)
      PROVE  Goal
  <2>1. Orderly(acts', mem.sl, pos'.done)
      BY <1>1, <1>7, Rejudged
  <2>2. Truthful' /\ bvol' > 0 => mem.sl = bsl'
      BY <1>3, <1>7 DEF IInv, CopyTrue, Rejudge, brokerVars
  <2> QED  BY <2>1, <2>2 DEF Orderly
<1>8. CASE Settle \/ Adopt \/ NoPrice \/ EndManage \/ Save \/ Boot \/ CycleError \/ Crash
    BY <1>8 DEF Settle, Adopt, NoPrice, EndManage, Save, Boot, CycleError, Crash, Working
<1>9. CASE ApplySetSl
  <2>1. /\ acts # <<>> /\ Working /\ Head(acts).kind = "set_sl" /\ acts' = Tail(acts)
        /\ bvol' = bvol
      BY <1>9 DEF ApplySetSl, Pending, Working
  <2>2. AskedOnce(acts', pos'.done)
    <3>1. pos'.done = pos.done
        BY <1>1, <1>9 DEF TypeOK, Position, ApplySetSl
    <3> QED  BY <2>1, <3>1, HeadOfList
  <2>3. ASSUME Truthful', bvol' > 0
        PROVE  Climbs(acts', bsl')
    <3>1. ~Fault("lost") /\ (NoFault => Truthful)
        BY <1>1, <1>3, <2>3, OneFault DEF NoFault
    <3>2. NoFault /\ (bsl' = bsl \/ bsl' = Head(acts).arg)
        BY <1>9, <3>1 DEF ApplySetSl
    <3>3. Orderly(acts, bsl, pos.done) /\ bsl \in Int
        BY <1>1, <1>2, <2>1, <2>3, <3>1, <3>2 DEF Orderly, TypeOK
    <3>4. CASE bsl' = bsl
        BY <2>1, <3>3, <3>4, TailOrderly DEF Orderly
    <3>5. CASE bsl' = Head(acts).arg /\ Ladder(Head(acts))
        BY <2>1, <3>3, <3>5, TailOrderly
    <3>6. CASE ~Ladder(Head(acts))
      <4>1. acts' = <<>>
          BY <2>1, <3>3, <3>6, TailOrderly DEF Ladder
      <4> QED  BY <4>1, EmptyList
    <3> QED  BY <3>2, <3>4, <3>5, <3>6
  <2> QED  BY <2>2, <2>3
<1>10. CASE PartialFill
  <2>1. /\ acts # <<>> /\ Working /\ Head(acts).kind = "close_volume" /\ acts' = Tail(acts)
        /\ bvol > 0 /\ bsl' = bsl
      BY <1>10 DEF PartialFill, Pending, Working
  <2>2. AskedOnce(acts', pos'.done)
    <3>1. pos'.done = pos.done \/ pos'.done = pos.done \cup {Head(acts).why}
      <4>1. \/ pos' = pos
            \/ \E lots \in Int : pos' = [pos EXCEPT !.vol = @ - lots,
                                                   !.done = @ \cup {Head(acts).why}]
          BY <1>10, PartFilled
      <4> QED  BY <1>1, <4>1 DEF TypeOK, Position
    <3> QED  BY <2>1, <3>1, HeadOfList
  <2>3. ASSUME Truthful'
        PROVE  Climbs(acts', bsl')
    <3>1. Truthful
        BY <1>1, <1>10, <2>3, PartFilled, PartFaults
    <3>2. Orderly(acts, bsl, pos.done) /\ bsl \in Int
        BY <1>1, <1>2, <2>1, <3>1 DEF Orderly, TypeOK
    <3> QED  BY <2>1, <3>2, TailOrderly DEF Orderly
  <2> QED  BY <2>2, <2>3
<1>11. CASE PartialSkipped
  <2>1. /\ acts # <<>> /\ Working /\ acts' = Tail(acts) /\ UNCHANGED <<bvol, bsl, pos, faults>>
      BY <1>11 DEF PartialSkipped, Pending, Working, brokerVars
  <2>2. AskedOnce(acts', pos'.done)
      BY <2>1, HeadOfList
  <2>3. ASSUME Truthful', bvol' > 0
        PROVE  Climbs(acts', bsl')
    <3>1. Orderly(acts, bsl, pos.done) /\ bsl \in Int
        BY <1>1, <1>2, <1>3, <2>1, <2>3 DEF Orderly, TypeOK
    <3> QED  BY <2>1, <3>1, TailOrderly DEF Orderly
  <2> QED  BY <2>2, <2>3
<1>12. CASE CloseFill \/ CloseRejected
    BY <1>12, EmptyList DEF CloseFill, CloseRejected
<1>13. CASE WriteBack
    BY <1>13 DEF WriteBack, Working
<1>14. CASE UNCHANGED vars
    BY <1>1, <1>2, <1>3, <1>14 DEF vars, brokerVars, Working
<1> QED
    BY <1>4, <1>5, <1>6, <1>7, <1>8, <1>9, <1>10, <1>11, <1>12, <1>13, <1>14
       DEF Next, Cycle, Apply

\* What the trader takes for the last step is no more than that at the broker.
LEMMA SoldStep ==
    ASSUME IInv, [Next]_vars
    PROVE  SoldOnce'
<1> DEFINE n == Len(faults)
           Goal(p) == /\ sold'[p] <= 1 + Len(faults')
                      /\ Working' /\ p \notin pos'.done
                           => sold'[p] <= Len(faults') \/ LastStep(pos)'
                      /\ ~Working' /\ mem'.tracked /\ p \notin mem'.done
                           => sold'[p] <= Len(faults') \/ LastStep(mem)'
<1> SUFFICES ASSUME NEW p \in Partials
             PROVE  Goal(p)
    BY DEF SoldOnce
<1>1. TypeOK /\ WholeVolume
    BY DEF IInv
<1>2. n \in Nat /\ sold[p] \in Nat /\ bvol \in Int
    BY <1>1 DEF TypeOK
<1>3. /\ sold[p] <= 1 + n
      /\ Working /\ p \notin pos.done => sold[p] <= n \/ LastStep(pos)
      /\ ~Working /\ mem.tracked /\ p \notin mem.done => sold[p] <= n \/ LastStep(mem)
    BY DEF IInv, SoldOnce
\* A failure pays for one repetition.
<1>4. ASSUME NEW kind, Fault(kind), sold' = sold
      PROVE  Goal(p)
  <2>1. Len(faults') = n + 1
      BY <1>1, <1>4, OneFault
  <2> QED  BY <1>2, <1>3, <1>4, <2>1
<1> HIDE DEF n
<1>5. UNCHANGED faults => Len(faults') = n
    BY DEF n
<1>6. CASE BracketFill \/ Hour
    BY <1>2, <1>3, <1>5, <1>6 DEF BracketFill, Hour, Working, LastStep, Step
<1>7. ASSUME NEW price \in Prices, NEW friday \in BOOLEAN, Manage(price, friday)
      PROVE  Goal(p)
  <2>1. sold' = sold /\ Working' /\ ~Working /\ mem.tracked /\ bvol' = bvol
      BY <1>7 DEF Manage, brokerVars, Working
  <2>2. CASE Fault("blind")
      BY <1>4, <2>1, <2>2
  <2>3. CASE faults' = faults
    <3>1. pos'.done = mem.done /\ pos'.vol \in {bvol, mem.vol}
        BY <1>1, <1>7, Managed
    <3> QED  BY <1>3, <1>5, <2>1, <2>3, <3>1 DEF LastStep
  <2> QED  BY <1>1, <1>7, <2>2, <2>3, Managed
<1>8. ASSUME NEW price \in Prices, NEW friday \in BOOLEAN, NEW opposes \in BOOLEAN,
             Rejudge(price, friday, opposes)
      PROVE  Goal(p)
  <2>1. UNCHANGED <<sold, faults, bvol>> /\ Working' /\ ~Working /\ mem.tracked
      BY <1>8 DEF Rejudge, brokerVars, Working
  <2> QED  BY <1>1, <1>3, <1>5, <1>8, <2>1, Rejudged DEF LastStep
<1>9. CASE Settle
  <2>1. mem'.tracked = FALSE
      BY <1>1, <1>9 DEF Settle, TypeOK, Position
  <2> QED  BY <1>3, <1>5, <1>9, <2>1 DEF Settle, brokerVars, Working
<1>10. CASE NoPrice \/ CycleError \/ Crash
    BY <1>4, <1>10 DEF NoPrice, CycleError, Crash, brokerVars
<1>11. CASE EndManage \/ Save \/ Boot
    BY <1>3, <1>5, <1>11 DEF EndManage, Save, Boot, brokerVars, Working, LastStep
<1>12. CASE ApplySetSl
  <2>1. sold' = sold /\ bvol' = bvol /\ Working /\ Working'
      BY <1>12 DEF ApplySetSl, Pending, Working
  <2>2. CASE Fault("lost")
      BY <1>4, <2>1, <2>2
  <2>3. CASE NoFault
    <3>1. pos'.done = pos.done /\ pos'.vol = pos.vol
        BY <1>1, <1>12 DEF TypeOK, Position, ApplySetSl
    <3> QED  BY <1>3, <1>5, <2>1, <2>3, <3>1 DEF NoFault, LastStep
  <2> QED  BY <1>12, <2>2, <2>3 DEF ApplySetSl
<1>13. CASE PartialFill
  <2> DEFINE q == Head(acts).why
  <2>1. q \in Partials \ pos.done
      BY <1>13, HeadOfList DEF PartialFill, Pending, Working
  <2>2. Working /\ Working' /\ mem' = mem
      BY <1>13 DEF PartialFill, Pending, Working
  <2>3. sold' = [sold EXCEPT ![q] = @ + 1]
      BY <1>13 DEF PartialFill
  <2>4. PICK specs \in BOOLEAN, reply \in BOOLEAN, lots \in Int :
            /\ lots = IF specs THEN Rounded(Head(acts).arg) ELSE Head(acts).arg
            /\ Head(acts).arg \in Int
            /\ Failing(When(~specs, "nospecs") \o When(~reply, "lost"))
            /\ lots > 0 /\ lots < pos.vol
            /\ bvol' = bvol - Sold(lots) /\ Sold(lots) \in Int /\ Sold(lots) > 0
            /\ pos' = IF reply THEN [pos EXCEPT !.vol = @ - lots,
                                               !.done = @ \cup {q}]
                               ELSE pos
      BY <1>13, PartFilled
  <2>5. /\ Len(faults') \in Nat /\ Len(faults') >= n
        /\ specs /\ reply => Len(faults') = n
        /\ ~specs \/ ~reply => Len(faults') >= n + 1
      BY <1>1, <2>4, PartFaults DEF n
  <2>6. pos \in Position /\ pos.vol \in Int
      BY <1>1 DEF TypeOK, Position
  <2>7. /\ reply => pos'.done = pos.done \cup {q}
        /\ ~reply => pos'.done = pos.done
        /\ pos'.vol \in Int /\ pos'.vol <= pos.vol
      BY <2>4, <2>6 DEF Position
  \* Of the last step no rounded part can be sold.
  <2>8. LastStep(pos) => ~specs /\ LastStep(pos)'
    <3>1. /\ Rounded(Head(acts).arg) \in Int /\ Rounded(Head(acts).arg) >= 0
          /\ Rounded(Head(acts).arg) % 100 = 0
        BY <2>4, RoundedFacts DEF Step
    <3>2. \A x \in Int : x > 0 /\ x % 100 = 0 => x >= 100
        OBVIOUS
    <3>3. LastStep(pos) => ~specs
        BY <2>4, <2>6, <3>1, <3>2 DEF LastStep, Step
    <3>4. LastStep(pos) => LastStep(pos)'
        BY <1>2, <2>4, <2>6, <2>7 DEF LastStep, Step
    <3> QED  BY <3>3, <3>4
  <2>9. CASE p # q
    <3>1. sold'[p] = sold[p]
        BY <1>1, <2>1, <2>3, <2>9 DEF TypeOK
    <3> QED  BY <1>2, <1>3, <2>2, <2>5, <2>7, <2>8, <2>9, <3>1
  <2>10. CASE p = q
    <3>1. sold'[p] = sold[p] + 1 /\ (sold[p] <= n \/ LastStep(pos))
        BY <1>1, <1>3, <2>1, <2>2, <2>3, <2>10 DEF TypeOK
    <3>2. sold'[p] <= 1 + Len(faults')
        BY <1>2, <1>3, <2>5, <2>8, <3>1
    <3>3. ~reply => sold'[p] <= Len(faults') \/ LastStep(pos)'
        BY <1>2, <2>5, <2>8, <3>1
    <3>4. reply => p \in pos'.done
        BY <2>7, <2>10
    <3> QED  BY <2>2, <3>2, <3>3, <3>4
  <2> QED  BY <2>9, <2>10
<1>14. CASE PartialSkipped \/ CloseRejected
    BY <1>3, <1>5, <1>14 DEF PartialSkipped, CloseRejected, brokerVars, Working, LastStep
<1>15. CASE CloseFill
  <2>1. sold' = sold /\ Working
      BY <1>15 DEF CloseFill, Pending, Working
  <2>2. CASE Fault("lost")
      BY <1>4, <2>1, <2>2
  <2>3. CASE NoFault /\ mem' = [mem EXCEPT !.tracked = FALSE] /\ pc' = "save"
    <3>1. mem'.tracked = FALSE /\ ~Working'
        BY <1>1, <2>3 DEF TypeOK, Position, Working
    <3> QED  BY <1>3, <1>5, <2>1, <2>3, <3>1 DEF NoFault
  <2> QED  BY <1>15, <2>2, <2>3 DEF CloseFill
<1>16. CASE WriteBack
  <2>1. UNCHANGED <<sold, faults, pos, bvol>> /\ mem' = pos /\ Working /\ ~Working'
      BY <1>16 DEF WriteBack, brokerVars, Working
  <2> QED  BY <1>3, <1>5, <2>1 DEF LastStep
\* What is adopted here is a last step, whose flags are forgotten.
<1>17. CASE Adopt
  <2>1. ~Working' /\ mem' = FirstSeen(TRUE) /\ UNCHANGED <<bvol, sold, faults>>
      BY <1>17 DEF Adopt, brokerVars, Working
  <2>2. mem'.vol = bvol /\ bvol <= Step
      BY <1>1, <1>17, <2>1 DEF Adopt, FirstSeen, WholeVolume
  <2> QED  BY <1>3, <1>5, <2>1, <2>2 DEF LastStep
<1>18. CASE UNCHANGED vars
    BY <1>3, <1>5, <1>18 DEF vars, brokerVars, Working, LastStep
<1> QED
    BY <1>6, <1>7, <1>8, <1>9, <1>10, <1>11, <1>12, <1>13, <1>14, <1>15, <1>16, <1>17,
       <1>18
       DEF Next, Cycle, Apply

\* A position keeps whole steps at the broker, and one that is not tracked at most
\* one.
LEMMA WholeStep ==
    ASSUME IInv, [Next]_vars
    PROVE  WholeVolume'
<1>1. TypeOK /\ WholeVolume
    BY DEF IInv
<1>2. bvol \in Int /\ mem \in Position /\ pos \in Position
    BY <1>1 DEF TypeOK
<1>3. CASE BracketFill
    BY <1>1, <1>3 DEF BracketFill, WholeVolume, Working, Step
<1>4. CASE Hour \/ NoPrice \/ EndManage \/ Boot \/ PartialSkipped \/ CloseRejected
    BY <1>1, <1>4
       DEF Hour, NoPrice, EndManage, Boot, PartialSkipped, CloseRejected, WholeVolume,
           Working, brokerVars
<1>5. ASSUME NEW price \in Prices, NEW friday \in BOOLEAN, Manage(price, friday)
      PROVE  WholeVolume'
  <2>1. pos'.tracked = mem.tracked
      BY <1>1, <1>5, Managed
  <2> QED  BY <1>1, <1>5, <2>1 DEF Manage, WholeVolume, Working, brokerVars
<1>6. ASSUME NEW price \in Prices, NEW friday \in BOOLEAN, NEW opposes \in BOOLEAN,
             Rejudge(price, friday, opposes)
      PROVE  WholeVolume'
  <2>1. pos' = mem
      BY <1>1, <1>6, Rejudged
  <2> QED  BY <1>1, <1>6, <2>1 DEF Rejudge, WholeVolume, Working, brokerVars
<1>7. CASE Settle
    BY <1>1, <1>2, <1>7 DEF Settle, WholeVolume, Working, brokerVars, Step
<1>8. CASE Adopt
    BY <1>1, <1>8 DEF Adopt, FirstSeen, WholeVolume, Working, brokerVars
<1>9. CASE ApplySetSl
  <2>1. pos'.tracked = pos.tracked
      BY <1>2, <1>9 DEF ApplySetSl, Position
  <2> QED  BY <1>1, <1>9, <2>1 DEF ApplySetSl, WholeVolume, Working, Pending
<1>10. CASE PartialFill
  <2>1. PICK reply \in BOOLEAN, lots \in Int :
            /\ bvol' = bvol - Sold(lots) /\ Sold(lots) \in Int /\ Sold(lots) > 0
            /\ Sold(lots) <= bvol /\ Sold(lots) % Step = 0
            /\ pos' = IF reply THEN [pos EXCEPT !.vol = @ - lots,
                                               !.done = @ \cup {Head(acts).why}]
                               ELSE pos
      BY <1>10, PartFilled
  <2>2. pos'.tracked = pos.tracked
      BY <1>2, <2>1 DEF Position
  <2>3. bvol' >= 0 /\ bvol' <= bvol /\ bvol' % 100 = 0
      BY <1>1, <1>2, <2>1 DEF WholeVolume, Step
  <2>4. /\ UNCHANGED <<mem, disk, pc>>
      BY <1>10 DEF PartialFill
  <2>5. mem.tracked /\ pos'.tracked
      BY <1>1, <1>10, <2>2 DEF WholeVolume, Working, PartialFill, Pending
  <2>6. ~disk.tracked => bvol' <= 100
      BY <1>1, <1>2, <2>1, <2>3 DEF WholeVolume, Step
  <2> QED  BY <2>3, <2>4, <2>5, <2>6 DEF WholeVolume, Working, Step
<1>11. CASE CloseFill
  <2>1. bvol > 0 /\ bvol % Step = 0
      BY <1>1, <1>11 DEF WholeVolume, CloseFill
  <2>2. /\ bvol' = bvol - Sold(bvol) /\ Sold(bvol) \in Int /\ Sold(bvol) > 0
        /\ Sold(bvol) <= bvol /\ Sold(bvol) % 100 = 0 /\ bvol - Sold(bvol) <= 100
      BY <1>2, <1>11, <2>1, SoldFacts, AllLeaves DEF CloseFill, Step
  <2>3. bvol' >= 0 /\ bvol' <= 100 /\ bvol' % 100 = 0
      BY <1>2, <2>1, <2>2 DEF Step
  <2>4. \/ pc' = "save"
        \/ UNCHANGED <<mem, pos, pc>>
      BY <1>11 DEF CloseFill
  <2> QED  BY <1>1, <1>11, <2>3, <2>4 DEF CloseFill, WholeVolume, Working, Step
<1>12. CASE WriteBack
    BY <1>1, <1>12 DEF WriteBack, WholeVolume, Working, brokerVars
<1>13. CASE Save
    BY <1>1, <1>13 DEF Save, WholeVolume, Working, brokerVars
<1>14. CASE CycleError
    BY <1>1, <1>14 DEF CycleError, WholeVolume, Working, brokerVars
<1>15. CASE Crash
    BY <1>1, <1>15 DEF Crash, WholeVolume, Working, brokerVars
<1>16. CASE UNCHANGED vars
    BY <1>1, <1>16 DEF vars, brokerVars, WholeVolume, Working
<1> QED
    BY <1>3, <1>4, <1>5, <1>6, <1>7, <1>8, <1>9, <1>10, <1>11, <1>12, <1>13, <1>14,
       <1>15, <1>16
       DEF Next, Cycle, Apply

(***************************************************************************)
(* The theorems.                                                           *)
(***************************************************************************)
LEMMA InvStep == IInv /\ [Next]_vars => IInv'
BY TypeStep, CopyStep, ListStep, WholeStep, SoldStep DEF IInv

\* The inductive invariant of the exit stack: the copy an evaluation works on is
\* what the broker holds, its list climbs and asks for nothing twice, and every
\* repeated partial close has a failure of its own.
THEOREM ListsInOrder == Spec => []IInv
BY InitInv, InvStep, PTL DEF Spec

\* Every variable keeps its type.
THEOREM TypeCorrect == Spec => []TypeOK
<1>1. IInv => TypeOK
    BY DEF IInv
<1> QED  BY <1>1, ListsInOrder, PTL

\* Each partial close is executed once, plus at most once for every failure.
THEOREM PartialsOnce == Spec => []EachPartialOnce
<1>1. IInv => EachPartialOnce
    BY DEF IInv, SoldOnce, EachPartialOnce
<1> QED  BY <1>1, ListsInOrder, PTL

LEMMA LadderStep == IInv /\ [Next]_vars => (Answered /\ ~Tightening => bsl' >= bsl)
<1> SUFFICES ASSUME IInv, [Next]_vars, Answered, ~Tightening
             PROVE  bsl' >= bsl
    OBVIOUS
<1>1. TypeOK
    BY DEF IInv
<1>2. bsl \in Int
    BY <1>1 DEF TypeOK
<1>3. CASE ApplySetSl
  <2>1. ~Fault("lost")
      BY <1>1, OneFault DEF Answered, Truthful
  <2>2. CASE bsl' = bsl
      BY <1>2, <2>2
  <2>3. CASE NoFault /\ bvol > 0 /\ bsl' = Head(acts).arg
    <3>1. Working /\ acts # <<>> /\ Head(acts).kind = "set_sl"
        BY <1>3 DEF ApplySetSl, Pending, Working
    <3>2. Ladder(Head(acts))
        BY <3>1 DEF Ladder, Tightening
    <3>3. Truthful
        BY <2>3 DEF Answered, Truthful, NoFault
    <3>4. Orderly(acts, bsl, pos.done)
        BY <2>3, <3>1, <3>3 DEF IInv, TypeOK, ListClimbs, Orderly
    <3> QED  BY <1>2, <2>3, <3>1, <3>2, <3>4, TailOrderly
  <2> QED  BY <1>3, <2>1, <2>2, <2>3 DEF ApplySetSl
<1>4. CASE UNCHANGED bsl
    BY <1>2, <1>4
<1> QED
    BY <1>3, <1>4
       DEF Next, Cycle, Apply, vars, brokerVars, BracketFill, Hour, Manage, Rejudge, Settle,
           Adopt, NoPrice, EndManage, PartialFill, PartialSkipped, CloseFill, CloseRejected,
           WriteBack, Save, Boot, CycleError, Crash

\* While the connector answers truly, no order of the ladder or of the trailing
\* stop loosens the stop at the broker, whatever was rejected, cut short or
\* forgotten before it.
THEOREM LadderNeverLoosens == Spec => LadderOnlyImproves
BY ListsInOrder, LadderStep, PTL DEF Spec, LadderOnlyImproves

LEMMA RunnerStep == IInv /\ [Next]_vars => (Answered /\ PartialFill => bvol' > 0)
<1> SUFFICES ASSUME IInv, Answered, PartialFill
             PROVE  bvol' > 0
    OBVIOUS
<1>1. TypeOK
    BY DEF IInv
<1>2. PICK specs \in BOOLEAN, reply \in BOOLEAN, lots \in Int :
          /\ lots = IF specs THEN Rounded(Head(acts).arg) ELSE Head(acts).arg
          /\ Head(acts).arg \in Int
          /\ Failing(When(~specs, "nospecs") \o When(~reply, "lost"))
          /\ lots > 0 /\ lots < pos.vol
          /\ bvol' = bvol - Sold(lots) /\ Sold(lots) \in Int
    BY PartFilled
<1>3. Truthful'
    BY DEF Answered, Truthful
<1>4. Truthful /\ specs
    BY <1>1, <1>2, <1>3, PartFaults
<1>5. bvol \in Int /\ pos.vol \in Int /\ pos.vol <= bvol
    BY <1>1, <1>4 DEF IInv, CopyTrue, PartialFill, Pending, Working, TypeOK, Position
<1>6. Sold(lots) <= lots
    BY <1>2, <1>4, <1>5, PartLeaves
<1> QED  BY <1>2, <1>5, <1>6

\* While the connector answers truly and the specs are known, a partial close
\* leaves a position to trail: what close_position sells, after rounding a second
\* time and with the whole position for nothing, is less than it holds.
THEOREM RunnerIsKept == Spec => PartialKeepsRunner
BY ListsInOrder, RunnerStep, PTL DEF Spec, PartialKeepsRunner
=============================================================================
