------------------------ MODULE OrderPlacementProofs ------------------------
(***************************************************************************)
(* Proofs about OrderPlacement, for any symbols, accounts, tiers, limits   *)
(* and prices, any broker, and any number of attempts from three up.       *)
(***************************************************************************)
EXTENDS OrderPlacement, TLAPS

(***************************************************************************)
(* Sizing.                                                                 *)
(***************************************************************************)
LEMMA MaxIsMember ==
    ASSUME NEW S \in SUBSET Int, NEW m \in S, \A y \in S : m >= y
    PROVE  Max(S) = m
<1>1. Max(S) \in S /\ \A y \in S : Max(S) >= y
    BY DEF Max
<1> HIDE DEF Max
<1>2. Max(S) \in Int /\ m \in Int
    BY <1>1
<1>3. Max(S) >= m /\ m >= Max(S)
    BY <1>1
<1> QED  BY <1>2, <1>3

LEMMA ProductGrows ==
    ASSUME NEW a \in Nat, NEW b \in Nat, NEW c \in Nat, a <= b
    PROVE  a * c <= b * c
BY SMT

LEMMA QuotientFacts ==
    ASSUME NEW a \in Nat, NEW b \in Nat \ {0}
    PROVE  /\ a \div b \in Nat
           /\ (a \div b) * b <= a
           /\ a < (a \div b + 1) * b
BY SMTT(30)

\* What fits a times is bounded by the quotient.
LEMMA FitsQuotient ==
    ASSUME NEW a \in Nat, NEW b \in Nat \ {0}, NEW k \in Nat
    PROVE  k * b <= a <=> k <= a \div b
<1> DEFINE q == a \div b
<1>1. q \in Nat /\ q * b <= a /\ a < (q + 1) * b
    BY QuotientFacts
<1> HIDE DEF q
<1>2. ASSUME k <= q PROVE k * b <= a
  <2>1. k * b <= q * b
      BY <1>1, <1>2, ProductGrows
  <2>2. k * b \in Int /\ q * b \in Int
      BY <1>1
  <2> QED  BY <1>1, <2>1, <2>2
<1>3. ASSUME ~(k <= q) PROVE ~(k * b <= a)
  <2>1. q + 1 <= k /\ q + 1 \in Nat
      BY <1>1, <1>3
  <2>2. (q + 1) * b <= k * b
      BY <2>1, ProductGrows
  <2>3. k * b \in Int /\ (q + 1) * b \in Int
      BY <2>1
  <2> QED  BY <1>1, <2>2, <2>3
<1> QED  BY <1>2, <1>3 DEF q

LEMMA LowerFacts ==
    ASSUME NEW x \in Int, NEW y \in Int
    PROVE  /\ Lower(x, y) \in {x, y}
           /\ Lower(x, y) <= x /\ Lower(x, y) <= y
           /\ \A z \in Int : z <= x /\ z <= y => z <= Lower(x, y)
BY DEF Lower

LEMMA SpecType ==
    ASSUME NEW spec \in SymbolSpecs
    PROVE  spec.loss \in Nat \ {0} /\ spec.value \in Nat /\ spec.min \in Nat \ {0} /\ spec.max \in Nat
BY DEF SymbolSpecs

\* _round_volume returns nothing, or a size within the symbol's limits; and any size
\* within them that is no more than asked for is no more than what it returns.
LEMMA RoundedFacts ==
    ASSUME NEW spec \in SymbolSpecs, NEW lots \in Nat
    PROVE  /\ Rounded(spec, lots) \in Nat
           /\ Rounded(spec, lots) <= lots
           /\ Rounded(spec, lots) # 0 => Rounded(spec, lots) \in spec.min..spec.max
           /\ \A k \in spec.min..spec.max : k <= lots => k <= Rounded(spec, lots)
BY SpecType DEF Rounded, Lower

LEMMA SizedType ==
    ASSUME NEW spec \in SymbolSpecs, NEW risk \in Nat, NEW cap \in Nat
    PROVE  Sized(spec, risk, cap) \in Nat
<1>1. spec.loss \in Nat \ {0} /\ spec.value \in Nat
    BY SpecType
<1>2. Rounded(spec, risk \div spec.loss) \in Nat
    BY <1>1, QuotientFacts, RoundedFacts
<1>3. spec.value > 0 => Rounded(spec, cap \div spec.value) \in Nat
    BY <1>1, QuotientFacts, RoundedFacts
<1> QED  BY <1>2, <1>3 DEF Sized

LEMMA SizedIsLargest ==
    ASSUME NEW spec \in SymbolSpecs, NEW risk \in Nat, NEW cap \in Nat
    PROVE  Sized(spec, risk, cap) = Max({0} \cup Allowed(spec, risk, cap))
<1> DEFINE q == risk \div spec.loss
           lots == Rounded(spec, q)
           A == Allowed(spec, risk, cap)
           sized == Sized(spec, risk, cap)
<1>1. /\ spec.loss \in Nat \ {0} /\ spec.value \in Nat
      /\ spec.min \in Nat \ {0} /\ spec.max \in Nat
    BY SpecType
<1>2. q \in Nat /\ \A k \in Nat : k * spec.loss <= risk <=> k <= q
    BY <1>1, QuotientFacts, FitsQuotient
<1>3. /\ lots \in Nat /\ lots <= q
      /\ lots # 0 => lots \in spec.min..spec.max
      /\ \A k \in spec.min..spec.max : k <= q => k <= lots
    BY <1>2, RoundedFacts
<1>4. spec.min..spec.max \subseteq Nat
    BY <1>1
<1>5. ASSUME NEW k \in A
      PROVE  /\ k \in spec.min..spec.max /\ k \in Nat
             /\ k <= q
             /\ spec.value > 0 => k * spec.value <= cap
  <2>1. k \in spec.min..spec.max /\ k * spec.loss <= risk
      BY DEF Allowed
  <2>2. spec.value > 0 => k * spec.value <= cap
      BY DEF Allowed
  <2> HIDE DEF q
  <2> QED  BY <1>2, <1>4, <2>1, <2>2
<1>6. \A k \in spec.min..spec.max :
          k <= q /\ (spec.value > 0 => k * spec.value <= cap) => k \in A
    BY <1>1, <1>2 DEF Allowed
<1>7. {0} \cup A \in SUBSET Int
    BY <1>5
<1>8. CASE spec.value > 0 /\ lots * spec.value > cap
  <2> DEFINE c == cap \div spec.value
             cut == Rounded(spec, c)
  <2>1. c \in Nat /\ \A k \in Nat : k * spec.value <= cap <=> k <= c
      BY <1>1, <1>8, QuotientFacts, FitsQuotient
  <2>2. sized = cut
      BY <1>8 DEF Sized
  <2>3. /\ cut \in Nat /\ cut <= c
        /\ cut # 0 => cut \in spec.min..spec.max
        /\ \A k \in spec.min..spec.max : k <= c => k <= cut
      BY <2>1, RoundedFacts
  <2>4. c < lots
    <3>1. ~(lots <= c)
        BY <1>1, <1>3, <1>8, <2>1
    <3> HIDE DEF c, lots
    <3> QED  BY <1>3, <2>1, <3>1
  <2> HIDE DEF c, cut, lots, q, A, sized
  <2>5. cut <= q
      BY <1>2, <1>3, <2>1, <2>3, <2>4
  <2>6. cut \in {0} \cup A
      BY <1>6, <2>1, <2>3, <2>5
  <2>7. \A y \in {0} \cup A : cut >= y
      BY <1>5, <1>8, <2>1, <2>3
  <2>8. Max({0} \cup A) = cut
      BY <1>7, <2>6, <2>7, MaxIsMember
  <2> QED  BY <2>2, <2>8 DEF sized, A
<1>9. CASE ~(spec.value > 0 /\ lots * spec.value > cap)
  <2>1. sized = lots
      BY <1>9 DEF Sized
  <2>2. spec.value > 0 => lots * spec.value <= cap
    <3>1. lots * spec.value \in Int
        BY <1>1, <1>3
    <3> QED  BY <1>9, <3>1
  <2> HIDE DEF lots, q, A, sized
  <2>3. lots \in {0} \cup A
      BY <1>3, <1>6, <2>2
  <2>4. \A y \in {0} \cup A : lots >= y
      BY <1>3, <1>5
  <2>5. Max({0} \cup A) = lots
      BY <1>7, <2>3, <2>4, MaxIsMember
  <2> QED  BY <2>1, <2>5 DEF sized, A
<1> QED  BY <1>8, <1>9

(***************************************************************************)
(* Type correctness.                                                       *)
(***************************************************************************)
LEMMA MoneyTypes ==
    ASSUME NEW equity \in Equities, NEW tier \in Tiers
    PROVE  RiskMoney(equity, tier) \in Nat /\ NotionalCap(equity) \in Nat
<1>1. equity \in Nat /\ tier \in Nat
    BY OrderAssumption
<1>2. /\ SlicePct \in Nat /\ SymbolCapital \in Nat /\ CeilingPerMille \in Nat
      /\ NotionalFactor \in Nat /\ NotionalAbs \in Nat
    BY OrderAssumption
<1>3. 100 * SymbolCapital \in Nat /\ SlicePct * equity \in Nat
    BY <1>1, <1>2
<1>4. Slice(equity) \in Nat
    BY <1>3 DEF Slice, Lower
<1>5. tier * Slice(equity) \in Nat /\ 100 * CeilingPerMille * equity \in Nat
    BY <1>1, <1>2, <1>4
<1>6. NotionalFactor * Slice(equity) \in Nat /\ 100 * NotionalAbs \in Nat
    BY <1>2, <1>4
<1> QED  BY <1>5, <1>6 DEF RiskMoney, NotionalCap, Lower

LEMMA ModeTypes ==
    ASSUME announced \in Modes, cache \in Modes \cup {"none"}
    PROVE  /\ Filling \in Modes
           /\ \A m \in Modes : Rotated(m) \in Modes
BY DEF Filling, Modes, Rotated, Rotation

LEMMA NoAnswers == <<>> \in Seq({"refused", "unsupported"}) /\ Len(<<>>) = 0
OBVIOUS

LEMMA TypeInit == Init => TypeOK
<1> SUFFICES ASSUME Init PROVE TypeOK
    OBVIOUS
<1>1. answers \in Seq({"refused", "unsupported"})
    BY NoAnswers DEF Init
<1>2. takes \in (SUBSET Modes) \ {{}} /\ announced \in Modes /\ mode \in Modes
    BY DEF Init
<1>3. cand \subseteq Candidate /\ pos \subseteq Position
    BY DEF Init
<1> QED  BY <1>1, <1>2, <1>3 DEF Init, TypeOK

LEMMA TypeStep == TypeOK /\ [Next]_vars => TypeOK'
<1> SUFFICES ASSUME TypeOK, [Next]_vars PROVE TypeOK'
    OBVIOUS
<1> USE DEF TypeOK
<1>1. ASSUME NEW tick \in Prices, NEW spec \in Specs, NEW equity \in Equities, NEW tier \in Tiers,
             Propose(tick, spec, equity, tier)
      PROVE  TypeOK'
  <2> DEFINE risk == RiskMoney(equity, tier)
             cap == NotionalCap(equity)
             c == [lots |-> Sized(spec, risk, cap), ref |-> tick, spec |-> spec,
                   risk |-> risk, cap |-> cap]
  <2>1. risk \in Nat /\ cap \in Nat /\ tick \in Int /\ spec \in SymbolSpecs
      BY MoneyTypes, OrderAssumption
  <2>2. Sized(spec, risk, cap) \in Nat
      BY <2>1, SizedType
  <2>3. cand' = {c}
      BY <1>1 DEF Propose
  <2>4. c \in Candidate
      BY <2>1, <2>2 DEF Candidate
  <2> HIDE DEF c
  <2> QED  BY <1>1, <2>3, <2>4 DEF Propose, brokerVars
<1>2. CASE Drop
    BY <1>2 DEF Drop, brokerVars
<1>3. CASE Send
    BY <1>3, ModeTypes DEF Send, brokerVars
<1>4. ASSUME NEW tick \in Prices, Fill(tick) PROVE TypeOK'
  <2>1. ASSUME NEW c \in cand
        PROVE  [lots |-> c.lots, fill |-> tick, sl |-> Nudged(c.ref - StopDist, tick),
                spec |-> c.spec, risk |-> c.risk] \in Position
    <3>1. /\ c.lots \in Nat /\ c.ref \in Int /\ c.spec \in Specs /\ c.risk \in Nat
        BY DEF Candidate
    <3>2. tick \in Int /\ StopDist \in Nat /\ MinDist \in Nat
        BY OrderAssumption
    <3>3. Nudged(c.ref - StopDist, tick) \in Int
        BY <3>1, <3>2 DEF Nudged, Lower
    <3> QED  BY <3>1, <3>2, <3>3 DEF Position
  <2>2. pos' \subseteq Position
      BY <1>4, <2>1 DEF Fill
  <2> QED  BY <1>4, <2>2 DEF Fill, brokerVars
<1>5. ASSUME NEW answer \in {"refused", "unsupported"}, Refused(answer) PROVE TypeOK'
  <2>1. answers' \in Seq({"refused", "unsupported"})
      BY <1>5 DEF Refused
  <2>2. mode' \in Modes /\ cache' \in Modes \cup {"none"}
      BY <1>5, ModeTypes DEF Refused, Learnt
  <2>3. pc' \in {"idle", "sized", "sending"} /\ cand' \subseteq Candidate
      BY <1>5 DEF Refused
  <2> QED  BY <1>5, <2>1, <2>2, <2>3 DEF Refused, brokerVars
<1>6. CASE Close
    BY <1>6, ModeTypes DEF Close, brokerVars
<1>7. CASE BracketFill
    BY <1>7 DEF BracketFill, brokerVars
<1>8. CASE Restart
  <2>1. answers' \in Seq({"refused", "unsupported"})
      BY <1>8, NoAnswers DEF Restart
  <2> QED  BY <1>8, <2>1 DEF Restart, brokerVars
<1>9. CASE UNCHANGED vars
    BY <1>9 DEF vars, brokerVars
<1> QED  BY <1>1, <1>2, <1>3, <1>4, <1>5, <1>6, <1>7, <1>8, <1>9 DEF Next

\* Each variable has the type the code gives it.
THEOREM TypeCorrect == Spec => []TypeOK
<1> QED  BY TypeInit, TypeStep, PTL DEF Spec

(***************************************************************************)
(* The size.  A candidate is made by Propose alone.                        *)
(***************************************************************************)
LEMMA SizeStep == SizeIsLargestAllowed /\ [Next]_vars => SizeIsLargestAllowed'
<1> SUFFICES ASSUME SizeIsLargestAllowed, [Next]_vars PROVE SizeIsLargestAllowed'
    OBVIOUS
<1>1. ASSUME NEW tick \in Prices, NEW spec \in Specs, NEW equity \in Equities, NEW tier \in Tiers,
             Propose(tick, spec, equity, tier)
      PROVE  SizeIsLargestAllowed'
  <2> DEFINE risk == RiskMoney(equity, tier)
             cap == NotionalCap(equity)
  <2>1. risk \in Nat /\ cap \in Nat /\ spec \in SymbolSpecs
      BY MoneyTypes, OrderAssumption
  <2>2. Sized(spec, risk, cap) = Max({0} \cup Allowed(spec, risk, cap))
      BY <2>1, SizedIsLargest
  <2>3. \A c \in cand' : /\ c.lots = Sized(spec, risk, cap)
                         /\ c.spec = spec /\ c.risk = risk /\ c.cap = cap
      BY <1>1 DEF Propose
  <2> HIDE DEF risk, cap
  <2> QED  BY <2>2, <2>3 DEF SizeIsLargestAllowed
<1>2. CASE cand' \subseteq cand
    BY <1>2 DEF SizeIsLargestAllowed
<1> QED
    BY <1>1, <1>2 DEF Next, Drop, Send, Fill, Refused, Close, BracketFill, Restart, vars

\* The size is the largest that symbol, risk and notional cap allow together, or
\* nothing, whatever the numbers.  (volume_for_risk, _round_volume and the notional cap
\* of _execute_entry)
THEOREM SizeIsRight == Spec => []SizeIsLargestAllowed
<1>1. Init => SizeIsLargestAllowed
    BY DEF Init, SizeIsLargestAllowed
<1> QED  BY <1>1, SizeStep, PTL DEF Spec

(***************************************************************************)
(* The rotation.  While the mode alone has been refused, the modes tried   *)
(* so far are ones the broker does not take; the next ones in turn lead    *)
(* back to them, and there are three.                                      *)
(***************************************************************************)
AllUnsupported == \A k \in 1..Len(answers) : answers[k] = "unsupported"

RotationInv ==
    /\ TypeOK
    /\ pc = "sized" => answers = <<>>
    /\ AllUnsupported => Len(answers) <= 2
    /\ pc = "sending" /\ AllUnsupported =>
           /\ Len(answers) >= 1 => Rotated(Rotated(mode)) \notin takes
           /\ Len(answers) >= 2 => Rotated(mode) \notin takes

LEMMA ThreeModes ==
    /\ \A m \in Modes : Rotated(Rotated(Rotated(m))) = m
    /\ \A m \in Modes : Modes = {m, Rotated(m), Rotated(Rotated(m))}
BY DEF Modes, Rotated, Rotation

LEMMA RotationInit == Init => RotationInv
<1>1. Init => answers = <<>> /\ pc = "idle" /\ Len(answers) = 0
    BY DEF Init
<1> QED  BY <1>1, TypeInit DEF RotationInv

LEMMA RotationStep == RotationInv /\ [Next]_vars => RotationInv'
<1> SUFFICES ASSUME RotationInv, [Next]_vars PROVE RotationInv'
    OBVIOUS
<1>1. TypeOK /\ TypeOK'
    BY TypeStep DEF RotationInv
<1>2. ASSUME answers' = <<>> PROVE RotationInv'
  <2>1. Len(answers') = 0
      BY <1>2
  <2> QED  BY <1>1, <1>2, <2>1 DEF RotationInv
<1>3. ASSUME UNCHANGED <<answers, takes, mode>>, pc' \in {pc, "idle"} PROVE RotationInv'
    BY <1>1, <1>3 DEF RotationInv, AllUnsupported
<1>4. ASSUME Send PROVE RotationInv'
  <2>1. answers' = <<>>
      BY <1>4 DEF Send, RotationInv
  <2> QED  BY <1>2, <2>1
<1>5. ASSUME NEW answer \in {"refused", "unsupported"}, Refused(answer) PROVE RotationInv'
  <2> DEFINE len == Len(answers)
  <2>1. /\ answers \in Seq({"refused", "unsupported"}) /\ len \in Nat
        /\ mode \in Modes /\ mode' \in Modes
        /\ takes \in SUBSET Modes /\ takes # {} /\ takes' = takes
    <3>1. answers \in Seq({"refused", "unsupported"}) /\ len \in Nat
        BY <1>1 DEF TypeOK
    <3>2. mode \in Modes /\ mode' \in Modes /\ takes \in SUBSET Modes /\ takes # {}
        BY <1>1 DEF TypeOK
    <3>3. takes' = takes
        BY <1>5 DEF Refused, brokerVars
    <3> QED  BY <3>1, <3>2, <3>3
  <2>2. answers' = Append(answers, answer) /\ pc = "sending" /\ pc' # "sized"
      BY <1>5 DEF Refused
  <2>3. /\ Len(answers') = len + 1
        /\ answers'[len + 1] = answer
        /\ \A k \in 1..len : answers'[k] = answers[k]
      BY <2>1, <2>2
  <2>4. ASSUME AllUnsupported'
        PROVE  /\ Len(answers') <= 2
               /\ Rotated(Rotated(mode')) \notin takes
               /\ Len(answers') >= 2 => Rotated(mode') \notin takes
    <3>1. answer = "unsupported"
        BY <2>1, <2>3, <2>4 DEF AllUnsupported
    <3>2. AllUnsupported
        BY <2>1, <2>3, <2>4 DEF AllUnsupported
    <3>3. mode \notin takes /\ mode' = Rotated(mode)
        BY <1>5, <3>1 DEF Refused
    <3>4. /\ len <= 2
          /\ len >= 1 => Rotated(Rotated(mode)) \notin takes
          /\ len >= 2 => Rotated(mode) \notin takes
        BY <2>2, <3>2 DEF RotationInv
    <3>5. len # 2
        BY <2>1, <3>3, <3>4, ThreeModes
    <3>6. Rotated(Rotated(mode')) = mode /\ Rotated(mode') = Rotated(Rotated(mode))
        BY <2>1, <3>3, ThreeModes
    <3>7. len \in Nat /\ len <= 2 /\ len # 2
        BY <2>1, <3>4, <3>5
    <3> HIDE DEF len
    <3>8. len + 1 <= 2 /\ (len + 1 >= 2 => len >= 1)
        BY <3>7
    <3> QED  BY <2>3, <3>3, <3>4, <3>6, <3>8 DEF len
  <2> QED  BY <1>1, <2>1, <2>2, <2>4 DEF RotationInv
<1> QED
    BY <1>2, <1>3, <1>4, <1>5
    DEF Next, Propose, Drop, Fill, Close, BracketFill, Restart, vars, brokerVars

\* No order is given up for its filling mode alone.  (place_market_order rotates through
\* every mode within ORDER_FILL_RETRIES)
THEOREM EveryModeIsTried == Spec => []NoModeLeftUntried
<1>1. RotationInv => NoModeLeftUntried
  <2> SUFFICES ASSUME RotationInv, Len(answers) = Retries
               PROVE  \E k \in 1..Retries : answers[k] = "refused"
      BY DEF NoModeLeftUntried
  <2>1. Retries \in Nat /\ ~(Len(answers) <= 2)
      BY OrderAssumption
  <2>2. PICK k \in 1..Len(answers) : answers[k] # "unsupported"
      BY <2>1 DEF RotationInv, AllUnsupported
  <2>3. answers[k] \in {"refused", "unsupported"}
      BY <2>2 DEF RotationInv, TypeOK
  <2> QED  BY <2>2, <2>3
<1> QED  BY <1>1, RotationInit, RotationStep, PTL DEF Spec

(***************************************************************************)
(* The lesson.  An order is sent in the mode of the cache, and a refusal   *)
(* moves both.                                                             *)
(***************************************************************************)
LessonInv ==
    /\ TypeOK
    /\ pc = "sending" => cache = mode
    /\ LearntModeHolds

LEMMA KnownMode ==
    ASSUME TypeOK, cache \in takes
    PROVE  Filling = cache
BY DEF TypeOK, Modes, Filling

LEMMA LessonStep == LessonInv /\ [Next]_vars => LessonInv'
<1> SUFFICES ASSUME LessonInv, [Next]_vars PROVE LessonInv'
    OBVIOUS
<1> USE DEF LessonInv, LearntModeHolds
<1>1. TypeOK /\ TypeOK'
    BY TypeStep
<1>2. ASSUME UNCHANGED <<takes, cache, mode, learnt>>, pc' = "sending" => pc = "sending"
      PROVE  LessonInv'
    BY <1>1, <1>2
<1>3. CASE Send
    BY <1>1, <1>3, KnownMode DEF Send, brokerVars
<1>4. ASSUME NEW tick \in Prices, Fill(tick) PROVE LessonInv'
    BY <1>1, <1>4 DEF Fill, brokerVars
<1>5. ASSUME NEW answer \in {"refused", "unsupported"}, Refused(answer) PROVE LessonInv'
    BY <1>1, <1>5 DEF Refused, Learnt, brokerVars
<1>6. CASE Close
  <2>1. takes' = takes /\ learnt' = learnt /\ cache' = Filling /\ pc' = "idle"
      BY <1>6 DEF Close, brokerVars
  <2>2. learnt => Filling \in takes
      BY <1>1, KnownMode
  <2> QED  BY <1>1, <2>1, <2>2
<1>7. CASE Restart
    BY <1>1, <1>7 DEF Restart
<1> QED
    BY <1>2, <1>3, <1>4, <1>5, <1>6, <1>7 DEF Next, Propose, Drop, BracketFill, vars, brokerVars

\* After a fill the process knows a mode the broker takes.  (_filling_cache)
THEOREM LessonIsKept == Spec => []LearntModeHolds
<1>1. Init => LessonInv
    BY TypeInit DEF Init, LessonInv, LearntModeHolds
<1>2. LessonInv => LearntModeHolds
    BY DEF LessonInv
<1> QED  BY <1>1, <1>2, LessonStep, PTL DEF Spec
=============================================================================
