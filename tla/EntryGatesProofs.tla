-------------------------- MODULE EntryGatesProofs --------------------------
(***************************************************************************)
(* Proofs about EntryGates, for every universe, every number of tickets,   *)
(* every equity and every setting of the caps and cooldowns that           *)
(* GateAssumption, WindowAssumption and OffsetAssumption allow.            *)
(*                                                                         *)
(* The first part proves what the caps need of MapThenSumSet: that the sum *)
(* exists, that its order does not matter, and that it grows with the set  *)
(* and with the summands.  The library's induction theorems take an        *)
(* operator; these proofs take a smallest counterexample, which is a set.  *)
(***************************************************************************)
EXTENDS EntryGates, FiniteSetTheorems, TLAPS

(***************************************************************************)
(* Finite sums.                                                            *)
(***************************************************************************)
Some(s) == CHOOSE x \in s : TRUE

\* Sum of w[x] over the x in S.
Sum(w, S) == MapThenSumSet(LAMBDA x : w[x], S)

Summable(w, S) == IsFiniteSet(S) /\ \A x \in S : w[x] \in Int

\* One step of the sum over s, when g gives the sums over the subsets of s.
OneTerm(w, g, s) == IF s = {} THEN 0 ELSE w[Some(s)] + g[s \ {Some(s)}]

\* g is the function that the definition of the sum over S chooses.
Adds(w, S, g) == g = [s \in SUBSET S |-> OneTerm(w, g, s)]

LEMMA SmallestSet ==
    ASSUME NEW S, IsFiniteSet(S), NEW F, F \subseteq SUBSET S, F # {}
    PROVE  \E X \in F : \A Y \in F : Y \subseteq X => Y = X
<1>1. F \subseteq FiniteSubsetsOf(S)
    BY FS_Subset DEF FiniteSubsetsOf
<1>2. PICK X \in F : \A Y \in F : <<Y, X>> \notin StrictSubsetOrdering(S)
    BY <1>1, FS_StrictSubsetOrderingWellFounded, WFMin
<1>3. \A Y \in F : Y \subseteq X => Y = X
    BY <1>2 DEF StrictSubsetOrdering
<1> QED  BY <1>3

LEMMA SomeIsElement == ASSUME NEW s, s # {}  PROVE Some(s) \in s
BY DEF Some

LEMMA SumIsChosen ==
    ASSUME NEW w, NEW S
    PROVE  Sum(w, S) = (CHOOSE g : Adds(w, S, g))[S]
BY DEF Sum, Adds, OneTerm, Some, MapThenSumSet, MapThenFoldSet

\* A family of sets that holds what is left of each when one element is taken out.
Closed(D) == \A s \in D : s # {} => s \ {Some(s)} \in D

\* A largest family on which the sum is defined is the whole power set.
LEMMA SumExists ==
    ASSUME NEW w, NEW S, Summable(w, S)
    PROVE  \E g \in [SUBSET S -> Int] : Adds(w, S, g)
<1> DEFINE P == SUBSET S
           Defined(D) == \E g \in [D -> Int] : \A s \in D : g[s] = OneTerm(w, g, s)
           F == {E \in SUBSET P : Closed(P \ E) /\ Defined(P \ E)}
<1>1. IsFiniteSet(P)
    BY FS_SUBSET DEF Summable
<1>2. P \in F
  <2>1. P \ P = {}
      OBVIOUS
  <2>2. Closed({})
      BY DEF Closed
  <2>3. Defined({})
    <3>1. [s \in {} |-> 0] \in [{} -> Int]
        OBVIOUS
    <3> QED  BY <3>1
  <2> QED  BY <2>1, <2>2, <2>3
<1>3. PICK E \in F : \A Y \in F : Y \subseteq E => Y = E
  <2>1. F \subseteq SUBSET P /\ F # {}
      BY <1>2
  <2> HIDE DEF F, P
  <2> QED  BY <1>1, <2>1, SmallestSet
<1>4. E = {}
  <2> SUFFICES ASSUME E # {}
               PROVE  FALSE
      OBVIOUS
  <2>1. PICK t \in E : \A Y \in E : Y \subseteq t => Y = t
    <3>1. E \subseteq SUBSET S
        BY <1>3
    <3> QED  BY <3>1, SmallestSet DEF Summable
  <2> DEFINE D == P \ E
             N == P \ (E \ {t})
  <2>2. N = D \cup {t} /\ t \in P /\ t \notin D
      BY <1>3, <2>1
  <2>3. PICK g \in [D -> Int] : \A s \in D : g[s] = OneTerm(w, g, s)
      BY <1>3
  <2>4. Closed(D)
      BY <1>3
  <2>5. t # {} => Some(t) \in t /\ Some(t) \in S /\ t \ {Some(t)} \in D
    <3> SUFFICES ASSUME t # {}
                 PROVE  Some(t) \in t /\ Some(t) \in S /\ t \ {Some(t)} \in D
        OBVIOUS
    <3>1. Some(t) \in t /\ Some(t) \in S
        BY <2>2, SomeIsElement
    <3>2. t \ {Some(t)} \in P /\ t \ {Some(t)} # t /\ t \ {Some(t)} \subseteq t
        BY <2>2, <3>1
    <3> QED  BY <2>1, <3>1, <3>2
  <2> HIDE DEF P, D, N, F
  <2>6. OneTerm(w, g, t) \in Int
      BY <2>3, <2>5 DEF OneTerm, Summable
  <2> DEFINE h == [s \in N |-> IF s = t THEN OneTerm(w, g, t) ELSE g[s]]
  <2>7. h \in [N -> Int]
      BY <2>2, <2>3, <2>6
  <2>8. \A s \in D : h[s] = g[s]
      BY <2>2
  <2>9. h[t] = OneTerm(w, g, t)
      BY <2>2
  <2> HIDE DEF h
  <2>10. ASSUME NEW s \in N
         PROVE  h[s] = OneTerm(w, h, s)
    <3>1. s # {} => s \ {Some(s)} \in D
        BY <2>2, <2>4, <2>5 DEF Closed
    <3>2. OneTerm(w, h, s) = OneTerm(w, g, s)
        BY <2>8, <3>1 DEF OneTerm
    <3> QED  BY <2>2, <2>3, <2>8, <2>9, <3>2
  <2>11. Closed(N)
      BY <2>2, <2>4, <2>5 DEF Closed
  <2>12. E \ {t} \in F
      BY <1>3, <2>7, <2>10, <2>11 DEF F, N
  <2> QED  BY <2>1, <2>12, <1>3
<1>5. PICK g \in [P -> Int] : \A s \in P : g[s] = OneTerm(w, g, s)
  <2>1. P \ E = P
      BY <1>4
  <2> QED  BY <1>3, <2>1
<1>6. Adds(w, S, g)
    BY <1>5 DEF Adds
<1> QED  BY <1>5, <1>6

\* Two functions that add agree where both are defined.
LEMMA SumUnique ==
    ASSUME NEW w, NEW S, IsFiniteSet(S), NEW g, Adds(w, S, g), NEW T, NEW h, Adds(w, T, h),
           T \subseteq S
    PROVE  \A s \in SUBSET T : g[s] = h[s]
<1> DEFINE F == {s \in SUBSET T : g[s] # h[s]}
<1> SUFFICES ASSUME F # {}
             PROVE  FALSE
    OBVIOUS
<1>1. F \subseteq SUBSET S
    OBVIOUS
<1>2. PICK s \in F : \A Y \in F : Y \subseteq s => Y = s
  <2> HIDE DEF F
  <2> QED  BY <1>1, SmallestSet
<1>3. g[s] = OneTerm(w, g, s) /\ h[s] = OneTerm(w, h, s)
    BY <1>2 DEF Adds
<1>4. s # {} => g[s \ {Some(s)}] = h[s \ {Some(s)}]
  <2> SUFFICES ASSUME s # {}, s \ {Some(s)} \in F
               PROVE  FALSE
      BY <1>2
  <2>1. s \ {Some(s)} # s
      BY SomeIsElement
  <2> QED  BY <1>2, <2>1
<1>5. g[s] = h[s]
    BY <1>3, <1>4 DEF OneTerm
<1> QED  BY <1>2, <1>5

LEMMA SumIsAny ==
    ASSUME NEW w, NEW S, Summable(w, S), NEW T, S \subseteq T, IsFiniteSet(T),
           NEW g, Adds(w, T, g)
    PROVE  Sum(w, S) = g[S]
<1>1. PICK f : Adds(w, S, f)
    BY SumExists
<1> DEFINE h == CHOOSE f_1 : Adds(w, S, f_1)
<1>2. Adds(w, S, h)
    BY <1>1
<1>3. Sum(w, S) = h[S]
    BY SumIsChosen
<1> HIDE DEF h
<1>4. \A s \in SUBSET S : g[s] = h[s]
    BY <1>2, SumUnique
<1> QED  BY <1>3, <1>4

LEMMA SumType ==
    ASSUME NEW w, NEW S, Summable(w, S)
    PROVE  Sum(w, S) \in Int
<1>1. PICK g \in [SUBSET S -> Int] : Adds(w, S, g)
    BY SumExists
<1> QED  BY <1>1, SumIsAny DEF Summable

LEMMA SumEmpty == ASSUME NEW w  PROVE Sum(w, {}) = 0
<1>1. Summable(w, {})
    BY FS_EmptySet DEF Summable
<1>2. PICK g \in [SUBSET {} -> Int] : Adds(w, {}, g)
    BY <1>1, SumExists
<1>3. g[{}] = 0
    BY <1>2 DEF Adds, OneTerm
<1> QED  BY <1>1, <1>2, <1>3, SumIsAny DEF Summable

LEMMA SummableSubset ==
    ASSUME NEW w, NEW S, Summable(w, S), NEW T, T \subseteq S
    PROVE  Summable(w, T)
BY FS_Subset DEF Summable

LEMMA SumTakesSome ==
    ASSUME NEW w, NEW S, Summable(w, S), S # {}
    PROVE  Sum(w, S) = w[Some(S)] + Sum(w, S \ {Some(S)})
<1> DEFINE R == S \ {Some(S)}
<1>1. PICK g \in [SUBSET S -> Int] : Adds(w, S, g)
    BY SumExists
<1>2. g[S] = w[Some(S)] + g[R]
    BY <1>1 DEF Adds, OneTerm
<1>3. Sum(w, S) = g[S]
    BY <1>1, SumIsAny DEF Summable
<1>4. Summable(w, R)
    BY SummableSubset
<1>5. Sum(w, R) = g[R]
    BY <1>1, <1>4, SumIsAny DEF Summable
<1> QED  BY <1>2, <1>3, <1>5

\* Any element may be taken first.
LEMMA SumTakes ==
    ASSUME NEW w, NEW S, Summable(w, S), NEW t \in S
    PROVE  Sum(w, S) = w[t] + Sum(w, S \ {t})
<1> DEFINE Good(s) == \A x \in s : Sum(w, s) = w[x] + Sum(w, s \ {x})
           F == {s \in SUBSET S : ~Good(s)}
<1> SUFFICES F = {}
  <2>1. Good(S)
      OBVIOUS
  <2> QED  BY <2>1
<1> SUFFICES ASSUME F # {}
             PROVE  FALSE
    OBVIOUS
<1>1. PICK s \in F : \A Y \in F : Y \subseteq s => Y = s
  <2>1. F \subseteq SUBSET S /\ IsFiniteSet(S)
      BY DEF Summable
  <2> HIDE DEF F
  <2> QED  BY <2>1, SmallestSet
<1>2. \A r \in SUBSET s : r # s => Good(r)
    BY <1>1
<1>3. \A r \in SUBSET s : Summable(w, r) /\ Sum(w, r) \in Int
    BY <1>1, SummableSubset, SumType
<1> HIDE DEF F
<1>4. ASSUME NEW x \in s
      PROVE  Sum(w, s) = w[x] + Sum(w, s \ {x})
  <2> DEFINE c == Some(s)
             a == s \ {c}
             b == s \ {x}
             r == s \ {c, x}
  <2>1. c \in s
      BY SomeIsElement
  <2> HIDE DEF c
  <2>2. w[c] \in Int /\ w[x] \in Int
      BY <1>1, <2>1 DEF F, Summable
  <2>3. Sum(w, s) = w[c] + Sum(w, a)
      BY <1>3, SumTakesSome DEF c
  <2>4. CASE x = c
      BY <2>3, <2>4
  <2>5. CASE x # c
    <3>1. a \in SUBSET s /\ a # s /\ x \in a /\ a \ {x} = r
        BY <2>1, <2>5
    <3>2. b \in SUBSET s /\ b # s /\ c \in b /\ b \ {c} = r
        BY <2>1, <2>5
    <3> HIDE DEF a, b, r
    <3>3. Sum(w, a) = w[x] + Sum(w, r)
        BY <1>2, <3>1
    <3>4. Sum(w, b) = w[c] + Sum(w, r)
        BY <1>2, <3>2
    <3>5. Sum(w, r) \in Int
        BY <1>3, <3>1
    <3> QED  BY <2>2, <2>3, <3>3, <3>4, <3>5 DEF b
  <2> QED  BY <2>4, <2>5
<1> QED  BY <1>1, <1>4 DEF F

LEMMA SumAdds ==
    ASSUME NEW w, NEW S, NEW t, t \notin S, Summable(w, S \cup {t})
    PROVE  Sum(w, S \cup {t}) = w[t] + Sum(w, S)
<1>1. (S \cup {t}) \ {t} = S
    OBVIOUS
<1> QED  BY <1>1, SumTakes

\* Larger summands, larger sum.
LEMMA SumGrowsWithTerms ==
    ASSUME NEW v, NEW w, NEW S, Summable(v, S), Summable(w, S), \A x \in S : v[x] <= w[x]
    PROVE  Sum(v, S) <= Sum(w, S)
<1> DEFINE F == {s \in SUBSET S : ~(Sum(v, s) <= Sum(w, s))}
<1> SUFFICES ASSUME F # {}
             PROVE  FALSE
    OBVIOUS
<1>1. PICK s \in F : \A Y \in F : Y \subseteq s => Y = s
  <2>1. F \subseteq SUBSET S /\ IsFiniteSet(S)
      BY DEF Summable
  <2> HIDE DEF F
  <2> QED  BY <2>1, SmallestSet
<1>2. s # {}
  <2> SUFFICES ASSUME s = {}
               PROVE  FALSE
      OBVIOUS
  <2>1. Sum(v, s) = 0 /\ Sum(w, s) = 0
      BY SumEmpty
  <2> QED  BY <1>1, <2>1
<1> DEFINE c == Some(s)
           r == s \ {c}
<1>3. c \in s
    BY <1>2, SomeIsElement
<1> HIDE DEF c
<1>4. r \in SUBSET S /\ r \subseteq s /\ r # s
    BY <1>1, <1>3
<1>5. Sum(v, r) <= Sum(w, r)
    BY <1>1, <1>4
<1>6. /\ Summable(v, s) /\ Summable(w, s) /\ Summable(v, r) /\ Summable(w, r)
    BY <1>1, <1>4, SummableSubset
<1>7. Sum(v, s) = v[c] + Sum(v, r) /\ Sum(w, s) = w[c] + Sum(w, r)
    BY <1>3, <1>6, SumTakes
<1>8. v[c] <= w[c] /\ v[c] \in Int /\ w[c] \in Int
    BY <1>1, <1>3 DEF Summable
<1>9. Sum(v, r) \in Int /\ Sum(w, r) \in Int
    BY <1>6, SumType
<1>10. Sum(v, s) <= Sum(w, s)
  <2> HIDE DEF r
  <2> QED  BY <1>5, <1>7, <1>8, <1>9
<1> QED  BY <1>1, <1>10

LEMMA SumOfEqualTerms ==
    ASSUME NEW v, NEW w, NEW S, Summable(v, S), \A x \in S : v[x] = w[x]
    PROVE  Summable(w, S) /\ Sum(v, S) = Sum(w, S)
<1>1. Summable(w, S)
    BY DEF Summable
<1>2. \A x \in S : v[x] <= w[x] /\ w[x] <= v[x]
    BY <1>1 DEF Summable
<1>3. Sum(v, S) <= Sum(w, S) /\ Sum(w, S) <= Sum(v, S)
    BY <1>1, <1>2, SumGrowsWithTerms
<1>4. Sum(v, S) \in Int /\ Sum(w, S) \in Int
    BY <1>1, SumType
<1> QED  BY <1>1, <1>3, <1>4

\* More summands that are not negative, larger sum.
LEMMA SumGrowsWithSet ==
    ASSUME NEW w, NEW T, Summable(w, T), NEW S, S \subseteq T, \A x \in T : w[x] >= 0
    PROVE  Sum(w, S) <= Sum(w, T)
<1> DEFINE F == {u \in SUBSET T : S \subseteq u /\ ~(Sum(w, S) <= Sum(w, u))}
<1> SUFFICES ASSUME F # {}
             PROVE  FALSE
    OBVIOUS
<1>1. PICK u \in F : \A Y \in F : Y \subseteq u => Y = u
  <2>1. F \subseteq SUBSET T /\ IsFiniteSet(T)
      BY DEF Summable
  <2> HIDE DEF F
  <2> QED  BY <2>1, SmallestSet
<1>2. Summable(w, u) /\ Summable(w, S)
    BY <1>1, SummableSubset
<1>3. Sum(w, S) \in Int
    BY <1>2, SumType
<1>4. PICK t \in u : t \notin S
  <2>1. u # S
      BY <1>1, <1>3
  <2> QED  BY <1>1, <2>1
<1> DEFINE r == u \ {t}
<1>5. r \in SUBSET T /\ r \subseteq u /\ r # u /\ S \subseteq r
    BY <1>1, <1>4
<1>6. Sum(w, S) <= Sum(w, r)
    BY <1>1, <1>5
<1>7. Sum(w, u) = w[t] + Sum(w, r)
    BY <1>2, <1>4, SumTakes
<1>8. Sum(w, r) \in Int /\ w[t] \in Int /\ w[t] >= 0
    BY <1>1, <1>4, <1>5, SummableSubset, SumType DEF Summable
<1>9. Sum(w, S) <= Sum(w, u)
  <2> HIDE DEF r
  <2> QED  BY <1>3, <1>6, <1>7, <1>8
<1> QED  BY <1>1, <1>9

(***************************************************************************)
(* The inductive invariant.                                                *)
(***************************************************************************)
\* Tickets are handed out in order; a position is closed once.
TicketInv ==
    /\ \A t \in DOMAIN book \cup DOMAIN engine.seen : t <= used
    /\ \A x \in closes : x.ticket <= used /\ x.ticket \notin DOMAIN book
    /\ \A t \in DOMAIN gone : gone[t].at <= now

Seen == [t \in DOMAIN book |-> RiskInfo(book[t])]

\* In an entry cycle the engine counts every position of the book, with no less
\* than it risks, and exactly the book while the re-judgement has changed nothing.
EngineInv ==
    /\ engine = [eq |-> engine.eq, seen |-> engine.seen]
    /\ engine.seen = [t \in DOMAIN engine.seen |-> engine.seen[t]]
    /\ pc \in {"flips", "enter"} =>
          /\ DOMAIN book \subseteq DOMAIN engine.seen
          /\ \A t \in DOMAIN book : AtRisk(book[t]) <= engine.seen[t].risk
          /\ ~stale => engine.seen = Seen

\* A ban covers every close it was booked for, two stop-outs in a row included,
\* and a stop-out that is no longer listed is out of the reach of a later one.
BanInv ==
    /\ \A s \in Universe : IsFiniteSet(stopTimes[s])
    /\ \A x \in closes :
          /\ x.at + CooldownBars <= noEntryUntil[x.sym]
          /\ x.stop => /\ x.at + LossCooldown <= noEntryUntil[x.sym]
                       /\ \/ <<x.ticket, x.at>> \in stopTimes[x.sym]
                          \/ x.at + RepeatWindow < noEntryUntil[x.sym]
    /\ \A x, y \in closes :
          x # y /\ x.sym = y.sym /\ x.stop /\ y.stop /\ x.at <= y.at
                /\ y.at - x.at <= RepeatWindow
              => x.at + RepeatCooldown <= noEntryUntil[x.sym]

RowsOf(s) == {<<x.ticket, x.at, x.r>> : x \in {y \in closes : y.sym = s}}

\* The list of a symbol has lost only rows older than any window to come.
PerfInv ==
    \A s \in Universe :
        /\ perf[s] \subseteq RowsOf(s)
        /\ \A row \in RowsOf(s) \ perf[s] : row[2] < now + Offset - 2 * PerfWindow

IInv == TypeOK /\ TicketInv /\ EngineInv /\ BanInv /\ PerfInv

(***************************************************************************)
(* The operators of the model.                                             *)
(***************************************************************************)
LEMMA Settings ==
    /\ MaxTicket \in Nat /\ MaxPositions \in Nat /\ TotalPct \in Nat /\ CcyPct \in Nat
    /\ Offset \in Nat /\ MaxHour \in Nat
    /\ CooldownBars \in Nat /\ LossCooldown \in Nat
    /\ RepeatWindow \in Nat /\ RepeatCooldown \in Nat
    /\ PerfWindow \in Nat
    /\ Equities \subseteq Nat /\ NewRisks \subseteq Nat /\ Dists \subseteq Int
BY GateAssumption

LEMMA DistType == Dists \cup NewRisks \subseteq Int
<1>1. Dists \subseteq Int /\ NewRisks \subseteq Nat
    BY Settings
<1>2. \A x \in NewRisks : x \in Int
    BY <1>1
<1> QED  BY <1>1, <1>2

LEMMA AbsType == ASSUME NEW x \in Int  PROVE Abs(x) \in Nat /\ x <= Abs(x)
BY DEF Abs

HasMax(S) == S \subseteq Nat /\ \E x \in S : \A y \in S : x >= y

LEMMA MaxIsMax ==
    ASSUME NEW S, HasMax(S)
    PROVE  Max(S) \in Nat /\ \A y \in S : Max(S) >= y
BY DEF Max, HasMax

LEMMA AddHasMax ==
    ASSUME NEW S, HasMax(S), NEW x \in Nat
    PROVE  HasMax(S \cup {x})
<1>1. PICK m \in S : \A y \in S : m >= y
    BY DEF HasMax
<1>2. m \in Nat /\ S \subseteq Nat
    BY DEF HasMax
<1>3. CASE m >= x
    BY <1>1, <1>2, <1>3 DEF HasMax
<1>4. CASE x >= m
  <2>1. \A y \in S : x >= y
      BY <1>1, <1>2, <1>4
  <2> QED  BY <1>2, <2>1 DEF HasMax
<1> QED  BY <1>2, <1>3, <1>4

\* A ban lasts for every reason it has.
LEMMA BanBounds ==
    ASSUME NEW t, NEW at \in Nat, NEW stop \in BOOLEAN
    PROVE  /\ BanUntil(t, at, stop) \in Nat
           /\ at + CooldownBars <= BanUntil(t, at, stop)
           /\ stop => at + LossCooldown <= BanUntil(t, at, stop)
           /\ stop /\ Cardinality(Recent(t, at)) >= 2
                 => at + RepeatCooldown <= BanUntil(t, at, stop)
<1> DEFINE twice == stop /\ Cardinality(Recent(t, at)) >= 2
           a == at + CooldownBars
           b == at + LossCooldown
           c == at + RepeatCooldown
           S1 == {a} \cup (IF stop THEN {b} ELSE {})
           S2 == S1 \cup (IF twice THEN {c} ELSE {})
<1>1. a \in Nat /\ b \in Nat /\ c \in Nat
    BY Settings
<1>2. HasMax({a})
    BY <1>1 DEF HasMax
<1>3. HasMax(S1)
  <2>1. CASE stop
    <3>1. S1 = {a} \cup {b}
        BY <2>1
    <3> QED  BY <1>1, <1>2, <3>1, AddHasMax
  <2>2. CASE ~stop
    <3>1. S1 = {a}
        BY <2>2
    <3> QED  BY <1>2, <3>1
  <2> QED  BY <2>1, <2>2
<1>4. a \in S1 /\ (stop => b \in S1)
    OBVIOUS
<1> HIDE DEF S1, a, b, c
<1>5. HasMax(S2)
  <2>1. CASE twice
    <3>1. S2 = S1 \cup {c}
        BY <2>1
    <3> QED  BY <1>1, <1>3, <3>1, AddHasMax
  <2>2. CASE ~twice
    <3>1. S2 = S1
        BY <2>2
    <3> QED  BY <1>3, <3>1
  <2> QED  BY <2>1, <2>2
<1>6. a \in S2 /\ (stop => b \in S2) /\ (twice => c \in S2)
    BY <1>4
<1>7. BanUntil(t, at, stop) = Max(S2)
    BY DEF BanUntil, S1, a, b, c
<1> HIDE DEF S2
<1>8. Max(S2) \in Nat /\ \A y \in S2 : Max(S2) >= y
    BY <1>5, MaxIsMax
<1>9. Max(S2) >= a /\ (stop => Max(S2) >= b) /\ (twice => Max(S2) >= c)
    BY <1>6, <1>8
<1> QED  BY <1>1, <1>7, <1>8, <1>9 DEF a, b, c

LEMMA TwoElements ==
    ASSUME NEW S, IsFiniteSet(S), NEW x \in S, NEW y \in S, x # y
    PROVE  Cardinality(S) >= 2
<1>1. IsFiniteSet({x}) /\ Cardinality({x}) = 1
    BY FS_Singleton
<1>2. IsFiniteSet({x} \cup {y}) /\ Cardinality({x} \cup {y}) = 2
  <2> DEFINE U == {x}
  <2>1. IsFiniteSet(U) /\ Cardinality(U) = 1 /\ y \notin U
      BY <1>1
  <2> HIDE DEF U
  <2>2. IsFiniteSet(U \cup {y}) /\ Cardinality(U \cup {y}) = Cardinality(U) + 1
      BY <2>1, FS_AddElement
  <2> QED  BY <2>1, <2>2 DEF U
<1>3. {x} \cup {y} \subseteq S
    OBVIOUS
<1>4. Cardinality({x} \cup {y}) <= Cardinality(S)
    BY <1>3, FS_Subset
<1>5. Cardinality(S) \in Nat
    BY FS_CardinalityType
<1> QED  BY <1>2, <1>4, <1>5

(***************************************************************************)
(* What finalize_close books.                                              *)
(***************************************************************************)
Closes(t, at, stop, r) ==
    /\ t \in DOMAIN book /\ at \in 0..(now + Offset) /\ stop \in BOOLEAN /\ r \in Int
    /\ FinalizeClose(t, at, stop, r)
    /\ now' = now

LEMMA ClosedBan ==
    ASSUME IInv, NEW t, NEW at, NEW stop, NEW r, Closes(t, at, stop, r)
    PROVE  /\ book[t].sym \in Universe /\ at \in Nat /\ t \in Tickets
           /\ noEntryUntil' \in [Universe -> Nat]
           /\ \A s \in Universe : noEntryUntil[s] <= noEntryUntil'[s]
           /\ BanUntil(t, at, stop) <= noEntryUntil'[book[t].sym]
           /\ BanUntil(t, at, stop) \in Nat
<1>1. /\ book[t].sym \in Universe /\ t \in Tickets
      /\ noEntryUntil \in [Universe -> Nat] /\ now \in Nat
    BY DEF IInv, TypeOK, Closes, Position
<1>2. at \in Nat /\ stop \in BOOLEAN
    BY <1>1, Settings DEF Closes
<1> DEFINE b == BanUntil(t, at, stop)
           n == Prolonged(noEntryUntil[book[t].sym], b)
<1>3. b \in Nat
    BY <1>2, BanBounds
<1>4. noEntryUntil' = [noEntryUntil EXCEPT ![book[t].sym] = n]
    BY DEF Closes, FinalizeClose
<1> HIDE DEF b
<1>5. n \in Nat /\ b <= n /\ noEntryUntil[book[t].sym] <= n
    BY <1>1, <1>3 DEF Prolonged
<1> HIDE DEF n
<1>6. \A s \in Universe : noEntryUntil[s] \in Nat
    BY <1>1
<1> QED  BY <1>1, <1>2, <1>3, <1>4, <1>5, <1>6 DEF b

LEMMA ClosedTypes ==
    ASSUME IInv, NEW t, NEW at, NEW stop, NEW r, Closes(t, at, stop, r)
    PROVE  /\ stopTimes' \in [Universe -> SUBSET (Tickets \X Nat)]
           /\ perf' \in [Universe -> SUBSET (Tickets \X Nat \X Int)]
           /\ closes' \subseteq [ticket : Tickets, sym : Universe, at : Nat, r : Int, stop : BOOLEAN]
<1> DEFINE s == book[t].sym
           c == [ticket |-> t, sym |-> s, at |-> at, r |-> r, stop |-> stop]
<1>1. s \in Universe /\ at \in Nat /\ t \in Tickets /\ r \in Int /\ stop \in BOOLEAN
    BY ClosedBan DEF Closes
<1>2. /\ stopTimes \in [Universe -> SUBSET (Tickets \X Nat)]
      /\ perf \in [Universe -> SUBSET (Tickets \X Nat \X Int)]
      /\ closes \subseteq [ticket : Tickets, sym : Universe, at : Nat, r : Int, stop : BOOLEAN]
    BY DEF IInv, TypeOK
<1>3. c \in [ticket : Tickets, sym : Universe, at : Nat, r : Int, stop : BOOLEAN]
    BY <1>1
<1>4. closes' = closes \cup {c}
    BY DEF Closes, FinalizeClose
<1> HIDE DEF c
<1>5. Recent(t, at) \subseteq Tickets \X Nat
  <2>1. stopTimes[s] \subseteq Tickets \X Nat /\ <<t, at>> \in Tickets \X Nat
      BY <1>1, <1>2
  <2> QED  BY <2>1 DEF Recent
<1>6. stopTimes' \in [Universe -> SUBSET (Tickets \X Nat)]
  <2>1. stopTimes' = stopTimes \/ stopTimes' = [stopTimes EXCEPT ![s] = Recent(t, at)]
      BY DEF Closes, FinalizeClose
  <2> QED  BY <1>1, <1>2, <1>5, <2>1
<1>7. perf' \in [Universe -> SUBSET (Tickets \X Nat \X Int)]
  <2> DEFINE rows == {row \in perf[s] \cup {<<t, at, r>>} : row[2] >= at - 2 * PerfWindow}
  <2>1. perf[s] \subseteq Tickets \X Nat \X Int /\ <<t, at, r>> \in Tickets \X Nat \X Int
      BY <1>1, <1>2
  <2>2. rows \subseteq Tickets \X Nat \X Int
      BY <2>1
  <2>3. perf' = [perf EXCEPT ![s] = rows]
      BY DEF Closes, FinalizeClose
  <2> QED  BY <1>1, <1>2, <2>2, <2>3
<1> QED  BY <1>2, <1>3, <1>4, <1>6, <1>7

\* The list of recent stop-outs after a close.
LEMMA ClosedStops ==
    ASSUME IInv, NEW t, NEW at, NEW stop, NEW r, Closes(t, at, stop, r)
    PROVE  /\ IsFiniteSet(Recent(t, at))
           /\ \A s \in Universe : IsFiniteSet(stopTimes'[s])
           /\ \A s \in Universe : s # book[t].sym => stopTimes'[s] = stopTimes[s]
           /\ ~stop => stopTimes' = stopTimes
           /\ stop => /\ stopTimes'[book[t].sym] = Recent(t, at)
                      /\ <<t, at>> \in Recent(t, at)
                      /\ \A z \in stopTimes[book[t].sym] :
                             z[2] >= at - RepeatWindow => z \in Recent(t, at)
<1> DEFINE s == book[t].sym
<1>1. s \in Universe /\ at \in Nat
    BY ClosedBan
<1>2. /\ stopTimes \in [Universe -> SUBSET (Tickets \X Nat)]
      /\ \A u \in Universe : IsFiniteSet(stopTimes[u])
    BY DEF IInv, TypeOK, BanInv
<1>3. IsFiniteSet(Recent(t, at))
  <2>1. IsFiniteSet(stopTimes[s] \cup {<<t, at>>})
      BY <1>1, <1>2, FS_AddElement
  <2>2. Recent(t, at) \subseteq stopTimes[s] \cup {<<t, at>>}
      BY DEF Recent
  <2> QED  BY <2>1, <2>2, FS_Subset
<1>4. stopTimes' = IF stop THEN [stopTimes EXCEPT ![s] = Recent(t, at)] ELSE stopTimes
    BY DEF Closes, FinalizeClose
<1>5. <<t, at>> \in Recent(t, at)
    BY <1>1, Settings DEF Recent
<1>6. \A z \in stopTimes[s] : z[2] >= at - RepeatWindow => z \in Recent(t, at)
    BY DEF Recent
<1> QED  BY <1>1, <1>2, <1>3, <1>4, <1>5, <1>6

LEMMA ClosedBanInv ==
    ASSUME IInv, NEW t, NEW at, NEW stop, NEW r, Closes(t, at, stop, r)
    PROVE  BanInv'
<1> DEFINE s == book[t].sym
           c == [ticket |-> t, sym |-> s, at |-> at, r |-> r, stop |-> stop]
           b == BanUntil(t, at, stop)
<1>1. /\ s \in Universe /\ at \in Nat /\ t \in Tickets
      /\ noEntryUntil' \in [Universe -> Nat]
      /\ \A u \in Universe : noEntryUntil[u] <= noEntryUntil'[u]
      /\ b <= noEntryUntil'[s] /\ b \in Nat
    BY ClosedBan
<1>2. closes' = closes \cup {c}
    BY DEF Closes, FinalizeClose
<1>3. \A x \in closes : /\ x.ticket \in Tickets /\ x.sym \in Universe /\ x.at \in Nat
                        /\ x.stop \in BOOLEAN /\ x.ticket # t
  <2>1. t \in DOMAIN book
      BY DEF Closes
  <2> QED  BY <2>1 DEF IInv, TypeOK, TicketInv
<1>4. noEntryUntil \in [Universe -> Nat] /\ stop \in BOOLEAN
    BY DEF IInv, TypeOK, Closes
<1>5. /\ at + CooldownBars <= b
      /\ stop => at + LossCooldown <= b
      /\ stop /\ Cardinality(Recent(t, at)) >= 2 => at + RepeatCooldown <= b
    BY <1>1, <1>4, BanBounds
<1>6. BanInv
    BY DEF IInv
<1>7. c.ticket = t /\ c.sym = s /\ c.at = at /\ c.stop = stop
    OBVIOUS
<1> HIDE DEF s, c, b
<1>8. ASSUME NEW x \in closes'
      PROVE  /\ x.at + CooldownBars <= noEntryUntil'[x.sym]
             /\ x.stop => /\ x.at + LossCooldown <= noEntryUntil'[x.sym]
                          /\ \/ <<x.ticket, x.at>> \in stopTimes'[x.sym]
                             \/ x.at + RepeatWindow < noEntryUntil'[x.sym]
  <2>1. CASE x = c
    <3>1. x.at + CooldownBars <= noEntryUntil'[s] /\ (stop => x.at + LossCooldown <= noEntryUntil'[s])
        BY <1>1, <1>4, <1>5, <1>7, <2>1, Settings
    <3>2. stop => <<t, at>> \in stopTimes'[s]
        BY ClosedStops DEF s
    <3> QED  BY <1>7, <2>1, <3>1, <3>2
  <2>2. CASE x \in closes
    <3> DEFINE n == noEntryUntil[x.sym]
               m == noEntryUntil'[x.sym]
    <3>1. n \in Nat /\ m \in Nat /\ n <= m /\ x.at \in Nat
        BY <1>1, <1>3, <1>4, <2>2
    <3>2. /\ x.at + CooldownBars <= n
          /\ x.stop => x.at + LossCooldown <= n
          /\ x.stop => \/ <<x.ticket, x.at>> \in stopTimes[x.sym]
                       \/ x.at + RepeatWindow < n
        BY <1>6, <2>2 DEF BanInv
    <3> HIDE DEF n, m
    <3>3. x.at + CooldownBars <= m /\ (x.stop => x.at + LossCooldown <= m)
        BY <3>1, <3>2, Settings
    <3>4. ASSUME x.stop
          PROVE  <<x.ticket, x.at>> \in stopTimes'[x.sym] \/ x.at + RepeatWindow < m
      <4>1. CASE x.at + RepeatWindow < n
          BY <3>1, <4>1, Settings
      <4>2. CASE <<x.ticket, x.at>> \in stopTimes[x.sym] /\ (x.sym # s \/ ~stop)
        <5>1. x.sym \in Universe
            BY <1>3, <2>2
        <5>2. x.sym # s => stopTimes'[x.sym] = stopTimes[x.sym]
            BY <5>1, ClosedStops DEF s
        <5>3. ~stop => stopTimes' = stopTimes
            BY DEF Closes, FinalizeClose
        <5> QED  BY <4>2, <5>2, <5>3
      <4>3. CASE <<x.ticket, x.at>> \in stopTimes[x.sym] /\ x.sym = s /\ stop
        <5>1. CASE x.at >= at - RepeatWindow
            BY <4>3, <5>1, ClosedStops DEF s
        <5>2. CASE x.at + RepeatWindow < at
          <6>1. at <= m
              BY <1>1, <1>4, <1>5, <3>1, <4>3, Settings DEF m
          <6> QED  BY <1>1, <3>1, <5>2, <6>1, Settings
        <5> QED  BY <1>1, <3>1, <5>1, <5>2, Settings
      <4> QED  BY <3>2, <3>4, <4>1, <4>2, <4>3
    <3> QED  BY <3>3, <3>4 DEF m
  <2> QED  BY <1>2, <2>1, <2>2
\* The ban that the new stop-out makes with an old one.
<1>9. ASSUME NEW y \in closes, stop, y.stop, y.sym = s, NEW e \in Nat, e <= at, e <= y.at,
             at - y.at <= RepeatWindow, y.at - at <= RepeatWindow
      PROVE  e + RepeatCooldown <= noEntryUntil'[s]
  <2>1. y.at \in Nat /\ y.ticket # t /\ noEntryUntil[s] \in Nat /\ noEntryUntil'[s] \in Nat
        /\ noEntryUntil[s] <= noEntryUntil'[s]
      BY <1>1, <1>3, <1>4, <1>9
  <2>2. CASE <<y.ticket, y.at>> \in stopTimes[s]
    <3>1. y.at >= at - RepeatWindow
        BY <1>1, <1>9, <2>1, Settings
    <3>2. /\ <<y.ticket, y.at>> \in Recent(t, at) /\ <<t, at>> \in Recent(t, at)
          /\ IsFiniteSet(Recent(t, at))
        BY <1>9, <2>2, <3>1, ClosedStops DEF s
    <3>3. Cardinality(Recent(t, at)) >= 2
        BY <2>1, <3>2, TwoElements
    <3>4. at + RepeatCooldown <= b
        BY <1>5, <1>9, <3>3
    <3> QED  BY <1>1, <1>9, <2>1, <3>4, Settings
  <2>3. CASE y.at + RepeatWindow < noEntryUntil[s]
      BY <1>9, <2>1, <2>3, Settings, WindowAssumption
  <2> QED  BY <1>6, <1>9, <2>2, <2>3 DEF BanInv
<1>10. ASSUME NEW x \in closes', NEW y \in closes',
              x # y, x.sym = y.sym, x.stop, y.stop, x.at <= y.at, y.at - x.at <= RepeatWindow
       PROVE  x.at + RepeatCooldown <= noEntryUntil'[x.sym]
  <2>1. CASE x \in closes /\ y \in closes
    <3>1. x.at + RepeatCooldown <= noEntryUntil[x.sym]
        BY <1>6, <1>10, <2>1 DEF BanInv
    <3> QED  BY <1>1, <1>3, <1>4, <2>1, <3>1, Settings
  <2>2. CASE x = c /\ y \in closes
    <3>1. y.at \in Nat
        BY <1>3, <2>2
    <3>2. at <= y.at /\ y.at - at <= RepeatWindow /\ at - y.at <= RepeatWindow
        BY <1>1, <1>7, <1>10, <2>2, <3>1, Settings
    <3> QED  BY <1>1, <1>7, <1>9, <1>10, <2>2, <3>2
  <2>3. CASE x \in closes /\ y = c
    <3>1. x.at \in Nat
        BY <1>3, <2>3
    <3>2. x.at <= at /\ at - x.at <= RepeatWindow /\ x.at - at <= RepeatWindow
        BY <1>1, <1>7, <1>10, <2>3, <3>1, Settings
    <3> QED  BY <1>1, <1>7, <1>9, <1>10, <2>3, <3>1, <3>2
  <2> QED  BY <1>2, <1>10, <2>1, <2>2, <2>3
<1>11. \A u \in Universe : IsFiniteSet(stopTimes'[u])
    BY ClosedStops
<1> QED  BY <1>8, <1>10, <1>11 DEF BanInv

LEMMA ClosedPerfInv ==
    ASSUME IInv, NEW t, NEW at, NEW stop, NEW r, Closes(t, at, stop, r)
    PROVE  PerfInv'
<1> DEFINE s == book[t].sym
           c == [ticket |-> t, sym |-> s, at |-> at, r |-> r, stop |-> stop]
           row == <<t, at, r>>
           rows == {w \in perf[s] \cup {row} : w[2] >= at - 2 * PerfWindow}
<1>1. /\ s \in Universe /\ at \in Nat /\ now \in Nat /\ at <= now + Offset /\ now' = now
      /\ perf \in [Universe -> SUBSET (Tickets \X Nat \X Int)]
    BY ClosedBan DEF IInv, TypeOK, Closes
<1>2. closes' = closes \cup {c} /\ perf' = [perf EXCEPT ![s] = rows]
    BY DEF Closes, FinalizeClose
<1>3. \A x \in closes : x.at \in Nat
    BY DEF IInv, TypeOK
<1>4. \A u \in Universe : RowsOf(u)' = RowsOf(u) \cup (IF u = s THEN {row} ELSE {})
  <2> SUFFICES ASSUME NEW u \in Universe
               PROVE  RowsOf(u)' = RowsOf(u) \cup (IF u = s THEN {row} ELSE {})
      OBVIOUS
  <2> DEFINE mine == {y \in closes : y.sym = u}
             mine1 == {y \in closes' : y.sym = u}
  <2>1. mine1 = IF u = s THEN mine \cup {c} ELSE mine
      BY <1>2
  <2>2. c.ticket = t /\ c.at = at /\ c.r = r
      OBVIOUS
  <2> HIDE DEF mine, mine1, c, s
  <2>3. {<<x.ticket, x.at, x.r>> : x \in mine1}
            = {<<x.ticket, x.at, x.r>> : x \in mine} \cup (IF u = s THEN {row} ELSE {})
      BY <2>1, <2>2
  <2> QED  BY <2>3 DEF RowsOf, mine, mine1
<1>5. PerfInv
    BY DEF IInv
<1> HIDE DEF c
<1> SUFFICES ASSUME NEW u \in Universe
             PROVE  /\ perf'[u] \subseteq RowsOf(u)'
                    /\ \A w \in RowsOf(u)' \ perf'[u] : w[2] < now' + Offset - 2 * PerfWindow
    BY DEF PerfInv
<1>6. CASE u # s
    BY <1>1, <1>2, <1>4, <1>5, <1>6 DEF PerfInv
<1>7. CASE u = s
  <2>1. perf'[u] = rows
      BY <1>1, <1>2, <1>7
  <2>2. RowsOf(u)' = RowsOf(u) \cup {row}
      BY <1>4, <1>7
  <2>3. perf[u] \subseteq RowsOf(u)
      BY <1>5 DEF PerfInv
  <2>4. rows \subseteq RowsOf(u) \cup {row}
      BY <1>7, <2>3
  <2>5. ASSUME NEW w \in RowsOf(u) \cup {row}, w \notin rows
        PROVE  w[2] < now + Offset - 2 * PerfWindow
    <3>1. CASE w \in RowsOf(u) \ perf[u]
        BY <1>5, <3>1 DEF PerfInv
    <3>2. CASE w \in perf[s] \cup {row}
      <4>1. w[2] \in Nat
          BY <1>1, <3>2
      <4>2. ~(w[2] >= at - 2 * PerfWindow)
          BY <2>5, <3>2
      <4> QED  BY <1>1, <4>1, <4>2, Settings
    <3> QED  BY <1>7, <2>5, <3>1, <3>2
  <2> QED  BY <1>1, <2>1, <2>2, <2>4, <2>5
<1> QED  BY <1>6, <1>7

(***************************************************************************)
(* The steps of the model, grouped by what they change.                    *)
(***************************************************************************)
ClosingStep ==
    \E t \in Tickets : Reconcile(t) \/ OwnExit(t) \/ FlipExit(t)

\* Every close is booked through finalize_close, at a time that has come.
LEMMA ClosingSteps ==
    ASSUME IInv, ClosingStep
    PROVE  /\ \E t, at, stop, r : Closes(t, at, stop, r)
           /\ UNCHANGED <<equity, used, engine, held, pc>>
           /\ stale' = stale \/ stale' = TRUE
           /\ pc # "idle" => stale' = TRUE
<1>1. /\ now \in Nat /\ DOMAIN gone \subseteq DOMAIN book
      /\ \A t \in DOMAIN gone : gone[t].at \in Nat /\ gone[t].at <= now
    BY DEF IInv, TypeOK, TicketInv
<1>2. PICK t \in Tickets : Reconcile(t) \/ OwnExit(t) \/ FlipExit(t)
    BY DEF ClosingStep
<1>3. CASE Reconcile(t)
  <2>1. t \in DOMAIN book /\ gone[t].at + Offset \in 0..(now + Offset) /\ now \in 0..(now + Offset)
      BY <1>1, <1>3, Settings DEF Reconcile
  <2>2. now' = now /\ UNCHANGED <<equity, used, engine, held, pc, stale>>
      BY <1>3 DEF Reconcile, cycleVars
  <2>3. \E at \in 0..(now + Offset), stop \in BOOLEAN, r \in Int : FinalizeClose(t, at, stop, r)
    <3> DEFINE atStop == IF book[t].dist > 0 THEN -1 ELSE 0
    <3>1. atStop \in Int
        OBVIOUS
    <3>2. PICK bracket \in BOOLEAN :
              \/ IF gone[t].won THEN FinalizeClose(t, gone[t].at + Offset, FALSE, 1)
                                ELSE FinalizeClose(t, gone[t].at + Offset, bracket, atStop)
              \/ HistoryFails /\ FinalizeClose(t, now, bracket, atStop)
        BY <1>3 DEF Reconcile
    <3> HIDE DEF atStop
    <3>3. \/ FinalizeClose(t, gone[t].at + Offset, FALSE, 1)
          \/ FinalizeClose(t, gone[t].at + Offset, bracket, atStop)
          \/ FinalizeClose(t, now, bracket, atStop)
        BY <3>2
    <3>4. CASE FinalizeClose(t, gone[t].at + Offset, FALSE, 1)
      <4>1. FALSE \in BOOLEAN /\ 1 \in Int
          OBVIOUS
      <4> QED  BY <2>1, <3>4, <4>1
    <3>5. CASE FinalizeClose(t, gone[t].at + Offset, bracket, atStop)
        BY <2>1, <3>1, <3>5
    <3>6. CASE FinalizeClose(t, now, bracket, atStop)
        BY <2>1, <3>1, <3>6
    <3> QED  BY <3>3, <3>4, <3>5, <3>6
  <2>4. pc = "idle"
      BY <1>3 DEF Reconcile
  <2> QED  BY <2>1, <2>2, <2>3, <2>4 DEF Closes
<1>4. CASE OwnExit(t)
  <2>1. t \in DOMAIN book /\ ExitTimes \subseteq 0..(now + Offset)
      BY <1>1, <1>4, Settings DEF OwnExit, ExitTimes
  <2>2. now' = now /\ UNCHANGED <<equity, used, engine, held, pc, stale>>
      BY <1>4 DEF OwnExit, cycleVars
  <2>3. PICK at \in ExitTimes, r \in {-1, 0} : FinalizeClose(t, at, FALSE, r)
      BY <1>4 DEF OwnExit
  <2>4. at \in 0..(now + Offset)
      BY <2>1, <2>3
  <2>5. Closes(t, at, FALSE, r)
    <3>1. FALSE \in BOOLEAN /\ r \in Int
        OBVIOUS
    <3> QED  BY Zenon, <2>1, <2>2, <2>3, <2>4, <3>1 DEF Closes
  <2>6. pc = "idle"
      BY <1>4 DEF OwnExit
  <2> QED  BY <2>2, <2>5, <2>6
<1>5. CASE FlipExit(t)
  <2>1. t \in DOMAIN book /\ ExitTimes \subseteq 0..(now + Offset)
      BY <1>1, <1>5, Settings DEF FlipExit, ExitTimes
  <2>2. now' = now /\ UNCHANGED <<equity, used, engine, held, pc>> /\ stale' = TRUE
      BY <1>5 DEF FlipExit
  <2>3. PICK at \in ExitTimes : FinalizeClose(t, at, FALSE, 0)
      BY <1>5 DEF FlipExit
  <2>4. at \in 0..(now + Offset)
      BY <2>1, <2>3
  <2>5. Closes(t, at, FALSE, 0)
    <3>1. FALSE \in BOOLEAN /\ 0 \in Int
        OBVIOUS
    <3> QED  BY Zenon, <2>1, <2>2, <2>3, <2>4, <3>1 DEF Closes
  <2> QED  BY <2>2, <2>5
<1> QED  BY <1>2, <1>3, <1>4, <1>5

\* What a close does to the book.
LEMMA ClosedBook ==
    ASSUME IInv, NEW t, NEW at, NEW stop, NEW r, Closes(t, at, stop, r)
    PROVE  /\ DOMAIN book' = DOMAIN book \ {t} /\ t \in DOMAIN book
           /\ \A u \in DOMAIN book' : book'[u] = book[u]
           /\ DOMAIN gone' = DOMAIN gone \ {t}
           /\ \A u \in DOMAIN gone' : gone'[u] = gone[u]
<1>1. /\ t \in DOMAIN book /\ book' = Without(book, {t}) /\ gone' = Without(gone, {t})
    BY DEF Closes, FinalizeClose
<1>2. DOMAIN book' = DOMAIN book \ {t} /\ \A u \in DOMAIN book' : book'[u] = book[u]
    BY <1>1 DEF Without
<1>3. DOMAIN gone' = DOMAIN gone \ {t} /\ \A u \in DOMAIN gone' : gone'[u] = gone[u]
    BY <1>1 DEF Without
<1> QED  BY <1>1, <1>2, <1>3

(***************************************************************************)
(* Type correctness and the inductive invariant.                           *)
(***************************************************************************)
LEMMA InitInv == Init => IInv
<1> SUFFICES ASSUME Init
             PROVE  IInv
    OBVIOUS
<1>1. DOMAIN NoPosition = {} /\ NoPosition = [t \in DOMAIN NoPosition |-> NoPosition[t]]
    BY DEF NoPosition
<1>2. engine.eq = equity /\ engine.seen = NoPosition
    BY DEF Init
<1>3. TypeOK
  <2>1. /\ noEntryUntil \in [Universe -> Nat]
        /\ stopTimes \in [Universe -> SUBSET (Tickets \X Nat)]
        /\ perf \in [Universe -> SUBSET (Tickets \X Nat \X Int)]
      BY DEF Init
  <2>2. DOMAIN book = {} /\ DOMAIN gone = {} /\ DOMAIN engine.seen = {}
      BY <1>1, <1>2 DEF Init
  <2>3. now \in 0..MaxHour /\ used \in 0..MaxTicket
      BY Settings DEF Init
  <2>4. held = {} /\ closes = {} /\ stale = FALSE /\ pc = "idle" /\ equity \in Equities
      BY DEF Init
  <2> QED  BY <1>2, <2>1, <2>2, <2>3, <2>4 DEF TypeOK
<1>4. TicketInv
    BY <1>1, <1>2 DEF Init, TicketInv
<1>5. EngineInv
    BY <1>1, <1>2 DEF Init, EngineInv
<1>6. BanInv
    BY FS_EmptySet DEF Init, BanInv
<1>7. PerfInv
    BY DEF Init, PerfInv, RowsOf
<1> QED  BY <1>3, <1>4, <1>5, <1>6, <1>7 DEF IInv

LEMMA TypeStep ==
    ASSUME IInv, [Next]_vars
    PROVE  TypeOK'
<1>1. TypeOK
    BY DEF IInv
<1> USE Settings
<1>2. CASE ClosingStep
  <2>1. PICK t, at, stop, r : Closes(t, at, stop, r)
      BY <1>2, ClosingSteps
  <2>2. UNCHANGED <<now, equity, used, engine, held, pc>> /\ stale' \in BOOLEAN
      BY <1>1, <1>2, <2>1, ClosingSteps DEF Closes, TypeOK
  <2>3. /\ DOMAIN book' \subseteq Tickets /\ \A u \in DOMAIN book' : book'[u] \in Position
        /\ DOMAIN gone' \subseteq DOMAIN book'
        /\ \A u \in DOMAIN gone' : gone'[u] \in [won : BOOLEAN, at : 0..MaxHour]
      BY <1>1, <2>1, ClosedBook DEF TypeOK
  <2> QED  BY <1>1, <2>1, <2>2, <2>3, ClosedBan, ClosedTypes DEF TypeOK
<1>3. ASSUME NEW s \in Universe, NEW side \in Sides, NEW dist \in Dists, Adopt(s, side, dist)
      PROVE  TypeOK'
  <2> DEFINE p == [sym |-> s, side |-> side, dist |-> dist]
  <2>1. p \in Position
      BY DEF Position
  <2>2. used' \in Tickets /\ used' \in 0..MaxTicket /\ book' = With(book, used', p)
      BY <1>1, <1>3 DEF Adopt, TypeOK, Tickets
  <2> HIDE DEF p
  <2>3. /\ DOMAIN book' = DOMAIN book \cup {used'}
        /\ \A u \in DOMAIN book' : (u \in DOMAIN book /\ book'[u] = book[u]) \/ book'[u] = p
      BY <2>2 DEF With
  <2>4. DOMAIN book' \subseteq Tickets /\ \A u \in DOMAIN book' : book'[u] \in Position
      BY <1>1, <2>1, <2>2, <2>3 DEF TypeOK
  <2> QED  BY <1>1, <1>3, <2>2, <2>3, <2>4 DEF TypeOK, Adopt, cycleVars, banVars
<1>4. ASSUME NEW t \in Tickets, NEW dist \in Dists, MoveStop(t, dist) \/ FlipTighten(t, dist)
      PROVE  TypeOK'
  <2>1. t \in DOMAIN book /\ book' = [book EXCEPT ![t].dist = dist]
      BY <1>4 DEF MoveStop, FlipTighten
  <2>2. [book[t] EXCEPT !.dist = dist] \in Position
      BY <1>1, <2>1 DEF TypeOK, Position
  <2>3. DOMAIN book' = DOMAIN book /\ \A u \in DOMAIN book' : book'[u] \in Position
      BY <1>1, <2>1, <2>2 DEF TypeOK
  <2> QED  BY <1>1, <1>4, <2>3 DEF TypeOK, MoveStop, FlipTighten, cycleVars, banVars
<1>5. CASE BeginCycle
  <2>1. engine'.eq = equity /\ engine'.seen = [t \in DOMAIN book |-> RiskInfo(book[t])]
      BY <1>5 DEF BeginCycle
  <2>2. \A t \in DOMAIN book : RiskInfo(book[t]) \in [sym : Universe, side : Sides, risk : Nat]
    <3> SUFFICES ASSUME NEW t \in DOMAIN book
                 PROVE  RiskInfo(book[t]) \in [sym : Universe, side : Sides, risk : Nat]
        OBVIOUS
    <3>1. book[t] \in Position
        BY <1>1 DEF TypeOK
    <3>2. book[t].sym \in Universe /\ book[t].side \in Sides /\ book[t].dist \in Int
      <4>1. book[t].sym \in Universe /\ book[t].side \in Sides /\ book[t].dist \in Dists \cup NewRisks
          BY <3>1 DEF Position
      <4>2. book[t].dist \in Int
          BY <4>1, DistType
      <4> QED  BY <4>1, <4>2
    <3> QED  BY <3>2, AbsType DEF RiskInfo
  <2>3. held' \subseteq Universe
      BY <1>1, <1>5 DEF BeginCycle, TypeOK, Position
  <2> QED  BY <1>1, <1>5, <2>1, <2>2, <2>3 DEF TypeOK, BeginCycle, banVars
<1>6. CASE FlipsDone
    BY <1>1, <1>6 DEF TypeOK, FlipsDone, cycleVars, banVars
<1>7. CASE EndCycle
  <2>1. engine'.eq = equity /\ DOMAIN engine'.seen = {}
      BY <1>7 DEF EndCycle, NoPosition
  <2> QED  BY <1>1, <1>7, <2>1 DEF TypeOK, EndCycle, banVars
<1>8. ASSUME NEW s \in Universe, NEW side \in Sides, NEW risk \in NewRisks, Enter(s, side, risk)
      PROVE  TypeOK'
  <2> DEFINE p == [sym |-> s, side |-> side, dist |-> risk]
             i == RiskInfo(p)
  <2>1. p \in Position /\ i \in [sym : Universe, side : Sides, risk : Nat]
      BY AbsType DEF Position, RiskInfo
  <2>2. /\ used' \in Tickets /\ used' \in 0..MaxTicket /\ book' = With(book, used', p)
        /\ engine' = [engine EXCEPT !.seen = With(engine.seen, used', i)]
      BY <1>1, <1>8 DEF Enter, Told, TypeOK, Tickets
  <2> HIDE DEF p, i
  <2>3. engine'.eq = engine.eq /\ engine'.seen = With(engine.seen, used', i)
    <3>1. engine = [eq |-> engine.eq, seen |-> engine.seen]
        BY DEF IInv, EngineInv
    <3> HIDE DEF IInv
    <3> QED  BY <2>2, <3>1
  <2>4. /\ DOMAIN book' = DOMAIN book \cup {used'}
        /\ \A u \in DOMAIN book' : (u \in DOMAIN book /\ book'[u] = book[u]) \/ book'[u] = p
      BY <2>2 DEF With
  <2>5. /\ DOMAIN engine'.seen = DOMAIN engine.seen \cup {used'}
        /\ \A u \in DOMAIN engine'.seen :
               (u \in DOMAIN engine.seen /\ engine'.seen[u] = engine.seen[u]) \/ engine'.seen[u] = i
      BY <2>3 DEF With
  <2>6. DOMAIN book' \subseteq Tickets /\ \A u \in DOMAIN book' : book'[u] \in Position
      BY <1>1, <2>1, <2>2, <2>4 DEF TypeOK
  <2>7. /\ DOMAIN engine'.seen \subseteq Tickets
        /\ \A u \in DOMAIN engine'.seen :
               engine'.seen[u] \in [sym : Universe, side : Sides, risk : Nat]
      BY <1>1, <2>1, <2>2, <2>5 DEF TypeOK
  <2> QED  BY <1>1, <1>8, <2>2, <2>3, <2>4, <2>6, <2>7 DEF TypeOK, Enter, banVars
<1>9. ASSUME NEW t \in Tickets, NEW won \in BOOLEAN, CloseAway(t, won)
      PROVE  TypeOK'
  <2> DEFINE g == [won |-> won, at |-> now]
  <2>1. g \in [won : BOOLEAN, at : 0..MaxHour] /\ t \in DOMAIN book /\ gone' = With(gone, t, g)
      BY <1>1, <1>9 DEF CloseAway, TypeOK
  <2> HIDE DEF g
  <2>2. /\ DOMAIN gone' = DOMAIN gone \cup {t}
        /\ \A u \in DOMAIN gone' : (u \in DOMAIN gone /\ gone'[u] = gone[u]) \/ gone'[u] = g
      BY <2>1 DEF With
  <2> QED  BY <1>1, <1>9, <2>1, <2>2 DEF TypeOK, CloseAway, cycleVars, banVars
<1>10. CASE Tick
    BY <1>1, <1>10 DEF TypeOK, Tick, cycleVars, banVars
<1>11. CASE UNCHANGED vars
    BY <1>1, <1>11 DEF TypeOK, vars, cycleVars, banVars
<1> QED
    BY <1>2, <1>3, <1>4, <1>5, <1>6, <1>7, <1>8, <1>9, <1>10, <1>11 DEF Next, ClosingStep

LEMMA TicketStep ==
    ASSUME IInv, [Next]_vars
    PROVE  TicketInv'
<1>1. TypeOK /\ TicketInv
    BY DEF IInv
<1>2. used \in Nat /\ now \in Nat /\ DOMAIN book \subseteq Tickets /\ DOMAIN engine.seen \subseteq Tickets
      /\ DOMAIN gone \subseteq DOMAIN book /\ Tickets \subseteq Nat
    BY <1>1, Settings DEF TypeOK, Tickets
<1>3. \A x \in closes : x.ticket \in Tickets
    BY <1>1 DEF TypeOK
<1>4. ASSUME used' = used + 1
      PROVE  /\ \A t \in DOMAIN book \cup DOMAIN engine.seen \cup {used'} : t <= used'
             /\ \A x \in closes : x.ticket <= used' /\ x.ticket # used'
  <2>1. \A t \in DOMAIN book \cup DOMAIN engine.seen : t \in Nat /\ t <= used
      BY <1>1, <1>2 DEF TicketInv
  <2>2. \A x \in closes : x.ticket \in Nat /\ x.ticket <= used
      BY <1>1, <1>2, <1>3 DEF TicketInv
  <2>3. \A t \in DOMAIN book \cup DOMAIN engine.seen : t <= used'
      BY <1>2, <1>4, <2>1
  <2>4. \A x \in closes : x.ticket <= used' /\ x.ticket # used'
      BY <1>2, <1>4, <2>2
  <2> QED  BY <1>2, <1>4, <2>3, <2>4
<1>5. CASE ClosingStep
  <2>1. PICK t, at, stop, r : Closes(t, at, stop, r)
      BY <1>5, ClosingSteps
  <2>2. UNCHANGED <<now, used, engine>>
      BY <1>5, <2>1, ClosingSteps DEF Closes
  <2>3. DOMAIN book' = DOMAIN book \ {t} /\ t \in DOMAIN book
        /\ DOMAIN gone' \subseteq DOMAIN gone /\ \A u \in DOMAIN gone' : gone'[u] = gone[u]
      BY <2>1, ClosedBook
  <2>4. \A x \in closes' : x \in closes \/ x.ticket = t
      BY <2>1 DEF Closes, FinalizeClose
  <2> QED  BY <1>1, <2>2, <2>3, <2>4 DEF TicketInv
<1>6. ASSUME NEW s \in Universe, NEW side \in Sides, NEW dist \in Dists, Adopt(s, side, dist)
      PROVE  TicketInv'
  <2>1. used' = used + 1 /\ DOMAIN book' = DOMAIN book \cup {used'}
      BY <1>6 DEF Adopt, With
  <2>2. UNCHANGED <<now, gone, engine, closes>>
      BY <1>6 DEF Adopt, cycleVars, banVars
  <2> QED  BY <1>1, <1>4, <2>1, <2>2 DEF TicketInv
<1>7. ASSUME NEW t \in Tickets, NEW dist \in Dists, MoveStop(t, dist) \/ FlipTighten(t, dist)
      PROVE  TicketInv'
  <2>1. DOMAIN book' = DOMAIN book /\ UNCHANGED <<now, used, gone, engine, closes>>
      BY <1>7 DEF MoveStop, FlipTighten, cycleVars, banVars
  <2> QED  BY <1>1, <2>1 DEF TicketInv
<1>8. CASE BeginCycle
  <2>1. DOMAIN engine'.seen = DOMAIN book /\ UNCHANGED <<now, used, gone, book, closes>>
      BY <1>8 DEF BeginCycle, banVars
  <2> QED  BY <1>1, <2>1 DEF TicketInv
<1>9. CASE EndCycle
  <2>1. DOMAIN engine'.seen = {} /\ UNCHANGED <<now, used, gone, book, closes>>
      BY <1>9 DEF EndCycle, banVars, NoPosition
  <2> QED  BY <1>1, <2>1 DEF TicketInv
<1>10. ASSUME NEW s \in Universe, NEW side \in Sides, NEW risk \in NewRisks, Enter(s, side, risk)
      PROVE  TicketInv'
  <2>1. used' = used + 1 /\ DOMAIN book' = DOMAIN book \cup {used'}
        /\ UNCHANGED <<now, gone, closes>>
      BY <1>10 DEF Enter, With, banVars
  <2>2. DOMAIN engine'.seen = DOMAIN engine.seen \cup {used'}
    <3>1. engine = [eq |-> engine.eq, seen |-> engine.seen]
        BY DEF IInv, EngineInv
    <3> HIDE DEF IInv
    <3> QED  BY <1>10, <3>1 DEF Enter, Told, With
  <2> QED  BY <1>1, <1>4, <2>1, <2>2 DEF TicketInv
<1>11. ASSUME NEW t \in Tickets, NEW won \in BOOLEAN, CloseAway(t, won)
       PROVE  TicketInv'
  <2>1. /\ DOMAIN gone' = DOMAIN gone \cup {t} /\ gone'[t].at = now
        /\ \A u \in DOMAIN gone : u # t => gone'[u] = gone[u]
        /\ UNCHANGED <<now, used, book, engine, closes>>
      BY <1>11 DEF CloseAway, With, cycleVars, banVars
  <2> QED  BY <1>1, <1>2, <2>1 DEF TicketInv
<1>12. CASE Tick
  <2>1. now' = now + 1 /\ UNCHANGED <<used, gone, book, engine, closes>>
      BY <1>12 DEF Tick, cycleVars, banVars
  <2>2. \A t \in DOMAIN gone : gone[t].at \in Nat
      BY <1>1, Settings DEF TypeOK
  <2> QED  BY <1>1, <1>2, <2>1, <2>2 DEF TicketInv
<1>13. CASE FlipsDone \/ UNCHANGED vars
    BY <1>1, <1>13 DEF TicketInv, FlipsDone, vars, cycleVars, banVars
<1> QED
    BY <1>5, <1>6, <1>7, <1>8, <1>9, <1>10, <1>11, <1>12, <1>13 DEF Next, ClosingStep

\* A position risks no more than the distance of its stop, and less when the stop
\* comes nearer.
LEMMA RiskBounds ==
    ASSUME NEW p \in Position
    PROVE  /\ AtRisk(p) \in Nat /\ AtRisk(p) <= RiskInfo(p).risk /\ RiskInfo(p).risk \in Nat
           /\ \A d \in Int : d < p.dist => AtRisk([p EXCEPT !.dist = d]) <= AtRisk(p)
<1>1. p.dist \in Int /\ \A d : [p EXCEPT !.dist = d].dist = d
    BY DistType DEF Position
<1> QED  BY <1>1 DEF AtRisk, RiskInfo, Abs

LEMMA EngineStep ==
    ASSUME IInv, [Next]_vars
    PROVE  EngineInv'
<1>1. TypeOK /\ TicketInv /\ EngineInv
    BY DEF IInv
<1> DEFINE Form(e) == e = [eq |-> e.eq, seen |-> e.seen]
                      /\ e.seen = [t \in DOMAIN e.seen |-> e.seen[t]]
           Counts == /\ DOMAIN book \subseteq DOMAIN engine.seen
                     /\ \A t \in DOMAIN book : AtRisk(book[t]) <= engine.seen[t].risk
                     /\ ~stale => engine.seen = Seen
<1>2. Form(engine) /\ (pc \in {"flips", "enter"} => Counts)
    BY <1>1 DEF EngineInv
<1>3. ASSUME Form(engine)', pc' \in {"flips", "enter"} => Counts'
      PROVE  EngineInv'
    BY <1>3 DEF EngineInv
<1>4. CASE ClosingStep
  <2>1. PICK t, at, stop, r : Closes(t, at, stop, r)
      BY <1>4, ClosingSteps
  <2>2. UNCHANGED <<engine, pc>> /\ (pc # "idle" => stale')
      BY <1>4, ClosingSteps
  <2>3. DOMAIN book' \subseteq DOMAIN book /\ \A u \in DOMAIN book' : book'[u] = book[u]
      BY <2>1, ClosedBook
  <2>4. pc' \in {"flips", "enter"} => Counts'
      BY <1>2, <2>2, <2>3
  <2> QED  BY <1>2, <1>3, <2>2, <2>4
<1>5. ASSUME NEW t \in Tickets, NEW dist \in Dists, FlipTighten(t, dist)
      PROVE  EngineInv'
  <2>1. /\ t \in DOMAIN book /\ book' = [book EXCEPT ![t].dist = dist] /\ dist < book[t].dist
        /\ UNCHANGED <<engine, pc>> /\ stale' = TRUE /\ pc = "flips"
      BY <1>5 DEF FlipTighten
  <2>2. AtRisk(book'[t]) <= AtRisk(book[t]) /\ AtRisk(book[t]) \in Nat /\ AtRisk(book'[t]) \in Nat
    <3>1. book[t] \in Position /\ dist \in Int /\ dist \in Dists \cup NewRisks
        BY <1>1, <2>1, DistType DEF TypeOK
    <3>2. book'[t] = [book[t] EXCEPT !.dist = dist]
        BY <2>1
    <3>3. [book[t] EXCEPT !.dist = dist] \in Position
        BY <3>1 DEF Position
    <3> QED  BY <2>1, <3>1, <3>2, <3>3, RiskBounds
  <2>3. AtRisk(book[t]) <= engine.seen[t].risk /\ engine.seen[t].risk \in Nat
      BY <1>1, <1>2, <2>1 DEF TypeOK
  <2>4. AtRisk(book'[t]) <= engine.seen[t].risk
      BY <2>2, <2>3
  <2>5. DOMAIN book' = DOMAIN book /\ \A u \in DOMAIN book : u # t => book'[u] = book[u]
      BY <2>1
  <2>6. Counts'
      BY <1>2, <2>1, <2>4, <2>5
  <2> QED  BY <1>2, <1>3, <2>1, <2>6
<1>6. CASE BeginCycle
  <2>1. engine' = [eq |-> equity, seen |-> Seen] /\ book' = book
      BY <1>6 DEF BeginCycle, Seen
  <2>2. Seen' = Seen /\ DOMAIN Seen = DOMAIN book /\ \A t \in DOMAIN book : Seen[t] = RiskInfo(book[t])
      BY <2>1 DEF Seen
  <2>3. Form(engine)'
    <3>1. Seen = [t \in DOMAIN Seen |-> Seen[t]]
        BY DEF Seen
    <3>2. engine'.eq = equity /\ engine'.seen = Seen
        BY <2>1
    <3> QED  BY <2>1, <3>1, <3>2
  <2>4. \A t \in DOMAIN book : AtRisk(book[t]) <= RiskInfo(book[t]).risk
      BY <1>1, RiskBounds DEF TypeOK
  <2>5. Counts'
      BY <2>1, <2>2, <2>4
  <2> QED  BY <1>3, <2>3, <2>5
<1>7. ASSUME NEW s \in Universe, NEW side \in Sides, NEW risk \in NewRisks, Enter(s, side, risk)
      PROVE  EngineInv'
  <2> DEFINE p == [sym |-> s, side |-> side, dist |-> risk]
             i == RiskInfo(p)
             n == used'
  <2>1. /\ book' = With(book, n, p) /\ engine' = [engine EXCEPT !.seen = With(engine.seen, n, i)]
        /\ n = used + 1 /\ UNCHANGED stale /\ pc = "enter"
      BY <1>7 DEF Enter, Told
  <2>2. p \in Position
      BY DEF Position
  <2> HIDE DEF p, n
  <2>3. engine' = [eq |-> engine.eq, seen |-> With(engine.seen, n, i)]
      BY <1>2, <2>1
  <2>4. DOMAIN book' = DOMAIN book \cup {n} /\ book'[n] = p
        /\ \A t \in DOMAIN book : t # n => book'[t] = book[t]
      BY <2>1 DEF With
  <2>5. DOMAIN engine'.seen = DOMAIN engine.seen \cup {n} /\ engine'.seen[n] = i
        /\ \A t \in DOMAIN engine.seen : t # n => engine'.seen[t] = engine.seen[t]
      BY <2>3 DEF With
  <2>6. n \notin DOMAIN book
      BY <1>1, <2>1 DEF TicketInv, TypeOK
  <2>7. Form(engine)'
    <3>1. With(engine.seen, n, i) = [t \in DOMAIN With(engine.seen, n, i) |-> With(engine.seen, n, i)[t]]
        BY DEF With
    <3> QED  BY <2>3, <3>1
  <2>8. AtRisk(p) <= i.risk
      BY <2>2, RiskBounds
  <2>9. DOMAIN book' \subseteq DOMAIN engine'.seen
        /\ \A t \in DOMAIN book' : AtRisk(book'[t]) <= engine'.seen[t].risk
      BY <1>2, <2>1, <2>4, <2>5, <2>6, <2>8
  <2>10. ~stale' => engine'.seen = Seen'
    <3> SUFFICES ASSUME ~stale
                 PROVE  engine'.seen = Seen'
        BY <2>1
    <3>1. engine.seen = Seen
        BY <1>2, <2>1
    <3>2. DOMAIN engine'.seen = DOMAIN book' /\ \A t \in DOMAIN book' : engine'.seen[t] = RiskInfo(book'[t])
        BY <2>4, <2>5, <2>6, <3>1 DEF Seen
    <3>3. engine'.seen = [t \in DOMAIN engine'.seen |-> engine'.seen[t]]
        BY <2>7
    <3> QED  BY <3>2, <3>3 DEF Seen
  <2> QED  BY <1>3, <2>7, <2>9, <2>10
<1>8. CASE EndCycle
  <2>1. engine' = [eq |-> equity, seen |-> NoPosition] /\ pc' = "idle"
      BY <1>8 DEF EndCycle
  <2> QED  BY <1>3, <2>1 DEF NoPosition
<1>9. ASSUME pc = "idle", UNCHANGED <<engine, pc>>
      PROVE  EngineInv'
    BY <1>2, <1>3, <1>9
<1>10. ASSUME UNCHANGED <<engine, book, stale>>, pc = "flips" \/ UNCHANGED pc
       PROVE  EngineInv'
    BY <1>2, <1>3, <1>10 DEF Seen
<1>11. ASSUME NEW s \in Universe, NEW side \in Sides, NEW dist \in Dists, Adopt(s, side, dist)
       PROVE  EngineInv'
    BY <1>9, <1>11 DEF Adopt, cycleVars
<1>12. ASSUME NEW t \in Tickets, NEW dist \in Dists, MoveStop(t, dist)
       PROVE  EngineInv'
    BY <1>9, <1>12 DEF MoveStop, cycleVars
<1>13. ASSUME NEW t \in Tickets, NEW won \in BOOLEAN, CloseAway(t, won)
       PROVE  EngineInv'
    BY <1>9, <1>13 DEF CloseAway, cycleVars
<1>14. CASE FlipsDone \/ Tick \/ UNCHANGED vars
    BY <1>10, <1>14 DEF FlipsDone, Tick, vars, cycleVars
<1> QED
    BY <1>4, <1>5, <1>6, <1>7, <1>8, <1>11, <1>12, <1>13, <1>14 DEF Next, ClosingStep

\* Only a close touches the record, and the clock only makes what it has lost older.
LEMMA RecordStep ==
    ASSUME IInv, [Next]_vars
    PROVE  BanInv' /\ PerfInv'
<1>1. TypeOK /\ BanInv /\ PerfInv
    BY DEF IInv
<1>2. CASE ClosingStep
    BY <1>2, ClosingSteps, ClosedBanInv, ClosedPerfInv
<1>3. ASSUME UNCHANGED banVars
      PROVE  BanInv'
    BY <1>1, <1>3 DEF BanInv, banVars
<1>4. ASSUME UNCHANGED banVars, now' = now \/ now' = now + 1
      PROVE  PerfInv'
  <2>1. \A s \in Universe : RowsOf(s)' = RowsOf(s)
      BY <1>4 DEF RowsOf, banVars
  <2>2. now \in Nat /\ \A s \in Universe : \A row \in RowsOf(s) : row[2] \in Nat
      BY <1>1, Settings DEF TypeOK, RowsOf
  <2>3. ASSUME NEW s \in Universe, NEW row \in RowsOf(s), row \notin perf[s]
        PROVE  row[2] < now' + Offset - 2 * PerfWindow
    <3>1. row[2] < now + Offset - 2 * PerfWindow
        BY <1>1, <2>3 DEF PerfInv
    <3> QED  BY <1>4, <2>2, <2>3, <3>1, Settings
  <2>4. perf' = perf
      BY <1>4 DEF banVars
  <2> QED  BY <1>1, <2>1, <2>3, <2>4 DEF PerfInv
<1>5. ASSUME ~ClosingStep
      PROVE  UNCHANGED banVars /\ (now' = now \/ now' = now + 1)
    BY <1>5 DEF Next, ClosingStep, Adopt, MoveStop, FlipTighten, BeginCycle, FlipsDone, EndCycle,
                Enter, CloseAway, Tick, vars, banVars
<1> QED  BY <1>2, <1>3, <1>4, <1>5

LEMMA InvStep == IInv /\ [Next]_vars => IInv'
BY TypeStep, TicketStep, EngineStep, RecordStep DEF IInv

\* Tickets in order, an engine that counts every open position, bans that cover every
\* close, and lists that have lost only what is too old: in every reachable state.
THEOREM RecordKept == Spec => []IInv
<1>1. Init => IInv
    BY InitInv
<1>2. IInv /\ [Next]_vars => IInv'
    BY InvStep
<1> QED  BY <1>1, <1>2, PTL DEF Spec

\* Every variable keeps its type.
THEOREM TypeCorrect == Spec => []TypeOK
<1>1. IInv => TypeOK
    BY DEF IInv
<1> QED  BY <1>1, RecordKept, PTL

(***************************************************************************)
(* What an entry keeps to.                                                 *)
(***************************************************************************)
LEMMA EnteredIsEnter ==
    ASSUME IInv, Next, NEW t \in Tickets, Entered(t)
    PROVE  \E s \in Universe, side \in Sides, risk \in NewRisks :
               Enter(s, side, risk) /\ t = used'
               /\ book' = With(book, t, [sym |-> s, side |-> side, dist |-> risk])
<1>1. pc = "enter" /\ used' # used /\ t = used'
    BY DEF Entered
<1>2. \E s \in Universe, side \in Sides, risk \in NewRisks : Enter(s, side, risk)
    BY <1>1 DEF Next, Reconcile, OwnExit, FlipExit, Adopt, MoveStop, FlipTighten, BeginCycle,
                FlipsDone, EndCycle, CloseAway, Tick
<1> QED  BY <1>1, <1>2 DEF Enter

\* What the list of a symbol has lost is older than the window.
LEMMA RecentRows ==
    ASSUME IInv, NEW s \in Universe
    PROVE  Paused(RowsOf(s), now) = Paused(perf[s], now)
<1>1. TypeOK /\ PerfInv
    BY DEF IInv
<1>2. now \in Nat /\ Offset \in Nat /\ PerfWindow \in Nat /\ Offset <= PerfWindow
    BY <1>1, Settings, OffsetAssumption DEF TypeOK
<1>3. \A row \in RowsOf(s) : row[2] \in Nat
    BY <1>1 DEF TypeOK, RowsOf
<1>4. ASSUME NEW row \in RowsOf(s), row[2] >= now - PerfWindow
      PROVE  row \in perf[s]
  <2> SUFFICES ASSUME row \notin perf[s]
               PROVE  FALSE
      OBVIOUS
  <2>1. row[2] < now + Offset - 2 * PerfWindow
      BY <1>1 DEF PerfInv
  <2> QED  BY <1>2, <1>3, <1>4, <2>1
<1>5. perf[s] \subseteq RowsOf(s)
    BY <1>1 DEF PerfInv
<1>6. {row \in RowsOf(s) : row[2] >= now - PerfWindow} = {row \in perf[s] : row[2] >= now - PerfWindow}
    BY <1>4, <1>5
<1> QED  BY <1>6 DEF Paused

\* What the record of its symbol asks of an entry.
HeedsRecord(t) ==
    LET s == book'[t].sym
        mine == {x \in closes : x.sym = s}
        stops == {x \in mine : x.stop}
    IN  /\ \A x \in mine : now >= x.at + CooldownBars
        /\ \A x \in stops : now >= x.at + LossCooldown
        /\ \A x, y \in stops :
               x # y /\ x.at <= y.at /\ y.at - x.at <= RepeatWindow
                   => now >= x.at + RepeatCooldown
        /\ ~Paused({<<x.ticket, x.at, x.r>> : x \in mine}, now)

LEMMA EntryHeedsRecord ==
    ASSUME IInv, Next, NEW t \in Tickets, Entered(t)
    PROVE  HeedsRecord(t)
<1>1. PICK s \in Universe, side \in Sides, risk \in NewRisks :
          Enter(s, side, risk) /\ book' = With(book, t, [sym |-> s, side |-> side, dist |-> risk])
    BY EnteredIsEnter
<1>2. book'[t].sym = s
    BY <1>1 DEF With
<1>3. now >= noEntryUntil[s] /\ ~Paused(perf[s], now)
    BY <1>1 DEF Enter, Admitted
<1>4. TypeOK /\ BanInv
    BY DEF IInv
<1>5. now \in Nat /\ noEntryUntil[s] \in Nat /\ \A x \in closes : x.at \in Nat
    BY <1>4, Settings DEF TypeOK
<1>6. ASSUME NEW x \in closes, x.sym = s
      PROVE  now >= x.at + CooldownBars
  <2>1. x.at + CooldownBars <= noEntryUntil[s]
      BY <1>4, <1>6 DEF BanInv
  <2> QED  BY <1>3, <1>5, <2>1, Settings
<1>7. ASSUME NEW x \in closes, x.sym = s, x.stop
      PROVE  now >= x.at + LossCooldown
  <2>1. x.at + LossCooldown <= noEntryUntil[s]
      BY <1>4, <1>7 DEF BanInv
  <2> QED  BY <1>3, <1>5, <2>1, Settings
<1>8. ASSUME NEW x \in closes, NEW y \in closes, x.sym = s, y.sym = s, x.stop, y.stop,
             x # y, x.at <= y.at, y.at - x.at <= RepeatWindow
      PROVE  now >= x.at + RepeatCooldown
  <2>1. x.at + RepeatCooldown <= noEntryUntil[s]
      BY <1>4, <1>8 DEF BanInv
  <2> QED  BY <1>3, <1>5, <2>1, Settings
<1>9. ~Paused(RowsOf(s), now)
    BY <1>3, RecentRows
<1> QED  BY <1>2, <1>6, <1>7, <1>8, <1>9 DEF HeedsRecord, RowsOf

\* No entry goes against the record of the symbol, taken from every close there
\* ever was: the bans and lists that finalize_close keeps lose nothing that counts.
THEOREM RecordHeeded == Spec => NoEntryAgainstRecord
<1>1. IInv /\ [Next]_vars => [\A t \in Tickets : Entered(t) => HeedsRecord(t)]_vars
    BY EntryHeedsRecord
<1> QED  BY <1>1, RecordKept, PTL DEF Spec, NoEntryAgainstRecord, HeedsRecord

(***************************************************************************)
(* The sums of the model.                                                  *)
(***************************************************************************)
Risks(infos) == [t \in DOMAIN infos |-> infos[t].risk]
NetRisks(infos, c) ==
    [t \in DOMAIN infos |-> Share(infos[t].sym, infos[t].side, c) * infos[t].risk]
Losses(b) == [t \in DOMAIN b |-> AtRisk(b[t])]

LEMMA TotalIsSum ==
    ASSUME NEW infos, Summable(Risks(infos), DOMAIN infos)
    PROVE  Total(infos) = Sum(Risks(infos), DOMAIN infos)
<1> DEFINE D == DOMAIN infos
           w == Risks(infos)
           Is(g) == g = [s \in SUBSET D |-> IF s = {} THEN 0
                                            ELSE infos[Some(s)].risk + g[s \ {Some(s)}]]
           h == CHOOSE g : Is(g)
<1>1. \A s \in SUBSET D : s # {} => w[Some(s)] = infos[Some(s)].risk
    BY SomeIsElement DEF Risks
<1>2. \A g : Is(g) <=> Adds(w, D, g)
    BY <1>1 DEF Adds, OneTerm
<1>3. PICK g : Adds(w, D, g)
    BY SumExists
<1>4. Adds(w, D, h)
    BY <1>2, <1>3
<1>5. Total(infos) = h[D]
    BY DEF Total, MapThenSumSet, MapThenFoldSet, Some
<1> QED  BY <1>4, <1>5, SumIsAny DEF Summable

LEMMA ExposureIsSum ==
    ASSUME NEW infos, NEW c, Summable(NetRisks(infos, c), DOMAIN infos)
    PROVE  Exposure(infos, c) = Sum(NetRisks(infos, c), DOMAIN infos)
<1> DEFINE D == DOMAIN infos
           w == NetRisks(infos, c)
           Is(g) == g = [s \in SUBSET D |->
                            IF s = {} THEN 0
                            ELSE Share(infos[Some(s)].sym, infos[Some(s)].side, c)
                                    * infos[Some(s)].risk + g[s \ {Some(s)}]]
           h == CHOOSE g : Is(g)
<1>1. \A s \in SUBSET D : s # {} =>
          w[Some(s)] = Share(infos[Some(s)].sym, infos[Some(s)].side, c) * infos[Some(s)].risk
    BY SomeIsElement DEF NetRisks
<1>2. \A g : Is(g) <=> Adds(w, D, g)
    BY <1>1 DEF Adds, OneTerm
<1>3. PICK g : Adds(w, D, g)
    BY SumExists
<1>4. Adds(w, D, h)
    BY <1>2, <1>3
<1>5. Exposure(infos, c) = h[D]
    BY DEF Exposure, MapThenSumSet, MapThenFoldSet, Some
<1> QED  BY <1>4, <1>5, SumIsAny DEF Summable

LEMMA LossIsSum ==
    ASSUME NEW b, Summable(Losses(b), DOMAIN b)
    PROVE  MapThenSumSet(LAMBDA x : AtRisk(b[x]), DOMAIN b) = Sum(Losses(b), DOMAIN b)
<1> DEFINE D == DOMAIN b
           w == Losses(b)
           Is(g) == g = [s \in SUBSET D |-> IF s = {} THEN 0
                                            ELSE AtRisk(b[Some(s)]) + g[s \ {Some(s)}]]
           h == CHOOSE g : Is(g)
<1>1. \A s \in SUBSET D : s # {} => w[Some(s)] = AtRisk(b[Some(s)])
    BY SomeIsElement DEF Losses
<1>2. \A g : Is(g) <=> Adds(w, D, g)
    BY <1>1 DEF Adds, OneTerm
<1>3. PICK g : Adds(w, D, g)
    BY SumExists
<1>4. Adds(w, D, h)
    BY <1>2, <1>3
<1>5. MapThenSumSet(LAMBDA x : AtRisk(b[x]), D) = h[D]
    BY DEF MapThenSumSet, MapThenFoldSet, Some
<1> QED  BY <1>4, <1>5, SumIsAny DEF Summable

LEMMA TicketsFinite == ASSUME NEW D, D \subseteq Tickets  PROVE IsFiniteSet(D)
<1>1. IsFiniteSet(1..MaxTicket)
    BY FS_Interval, Settings
<1> QED  BY <1>1, FS_Subset DEF Tickets

LEMMA ShareType ==
    ASSUME NEW s, NEW side, NEW c, NEW n \in Int
    PROVE  Share(s, side, c) \in {-1, 0, 1} /\ Share(s, side, c) * n \in Int
<1> DEFINE long == IF PairOf[s] = <<>> THEN 0
                   ELSE IF PairOf[s][1] = c THEN 1
                   ELSE IF PairOf[s][2] = c THEN -1 ELSE 0
<1>1. Share(s, side, c) \in {-1, 0, 1}
  <2>1. long \in {-1, 0, 1}
      BY Zenon
  <2>2. Share(s, side, c) = IF side = "LONG" THEN long ELSE -long
      BY DEF Share
  <2> HIDE DEF long
  <2> QED  BY <2>1, <2>2
<1>2. \A k \in {-1, 0, 1} : k * n \in Int
    OBVIOUS
<1> QED  BY <1>1, <1>2

\* What an engine has seen can be summed.
LEMMA SeenSummable ==
    ASSUME NEW infos, DOMAIN infos \subseteq Tickets,
           \A t \in DOMAIN infos : infos[t] \in [sym : Universe, side : Sides, risk : Nat]
    PROVE  /\ Summable(Risks(infos), DOMAIN infos)
           /\ \A t \in DOMAIN infos : Risks(infos)[t] \in Nat
           /\ \A c : Summable(NetRisks(infos, c), DOMAIN infos)
<1>1. IsFiniteSet(DOMAIN infos)
    BY TicketsFinite
<1>2. \A t \in DOMAIN infos : Risks(infos)[t] \in Nat
    BY DEF Risks
<1>3. \A t \in DOMAIN infos : Risks(infos)[t] \in Int
    BY <1>2
<1>4. ASSUME NEW c, NEW t \in DOMAIN infos
      PROVE  NetRisks(infos, c)[t] \in Int
  <2>1. infos[t].risk \in Int
      BY <1>3 DEF Risks
  <2>2. NetRisks(infos, c)[t] = Share(infos[t].sym, infos[t].side, c) * infos[t].risk
      BY DEF NetRisks
  <2> QED  BY <2>1, <2>2, ShareType
<1> QED  BY <1>1, <1>2, <1>3, <1>4 DEF Summable

\* What an entry does to the engine and to the book.
LEMMA EntrySeen ==
    ASSUME IInv, Next, NEW t \in Tickets, Entered(t)
    PROVE  \E s \in Universe, side \in Sides, risk \in NewRisks :
               /\ CheckEntry(s, side, risk)
               /\ book'[t].sym = s
               /\ t \notin DOMAIN engine.seen
               /\ DOMAIN engine'.seen = DOMAIN engine.seen \cup {t}
               /\ engine'.seen[t] = [sym |-> s, side |-> side, risk |-> Abs(risk)]
               /\ \A x \in DOMAIN engine.seen : engine'.seen[x] = engine.seen[x]
               /\ pc' = "enter" /\ stale' = stale
<1>1. PICK s \in Universe, side \in Sides, risk \in NewRisks :
          /\ Enter(s, side, risk) /\ t = used'
          /\ book' = With(book, t, [sym |-> s, side |-> side, dist |-> risk])
    BY EnteredIsEnter
<1> DEFINE i == RiskInfo([sym |-> s, side |-> side, dist |-> risk])
<1>2. i = [sym |-> s, side |-> side, risk |-> Abs(risk)]
    BY DEF RiskInfo
<1>3. /\ CheckEntry(s, side, risk) /\ used' = used + 1 /\ pc' = "enter" /\ stale' = stale
      /\ engine' = [engine EXCEPT !.seen = With(engine.seen, t, i)]
    BY <1>1 DEF Enter, Told
<1>4. book'[t].sym = s
    BY <1>1 DEF With
<1> HIDE DEF i
<1>5. engine' = [eq |-> engine.eq, seen |-> With(engine.seen, t, i)]
  <2>1. engine = [eq |-> engine.eq, seen |-> engine.seen]
      BY DEF IInv, EngineInv
  <2> HIDE DEF IInv
  <2> QED  BY <1>3, <2>1
<1>6. t \notin DOMAIN engine.seen
  <2>1. TypeOK /\ TicketInv
      BY DEF IInv
  <2>2. used \in Nat /\ \A x \in DOMAIN engine.seen : x <= used
      BY <2>1, Settings DEF TypeOK, TicketInv
  <2> QED  BY <1>1, <1>3, <2>2
<1>7. /\ DOMAIN engine'.seen = DOMAIN engine.seen \cup {t} /\ engine'.seen[t] = i
      /\ \A x \in DOMAIN engine.seen : engine'.seen[x] = engine.seen[x]
    BY <1>5, <1>6 DEF With
<1> QED  BY <1>2, <1>3, <1>4, <1>6, <1>7

LEMMA EntryWithinCaps ==
    ASSUME IInv, Next, NEW t \in Tickets, Entered(t)
    PROVE  /\ Cardinality(DOMAIN book') <= MaxPositions
           /\ MapThenSumSet(LAMBDA x : AtRisk(book'[x]), DOMAIN book') <= TotalPct * engine.eq
<1>1. PICK s \in Universe, side \in Sides, risk \in NewRisks :
          /\ CheckEntry(s, side, risk)
          /\ t \notin DOMAIN engine.seen
          /\ DOMAIN engine'.seen = DOMAIN engine.seen \cup {t}
          /\ engine'.seen[t] = [sym |-> s, side |-> side, risk |-> Abs(risk)]
          /\ \A x \in DOMAIN engine.seen : engine'.seen[x] = engine.seen[x]
          /\ pc' = "enter"
    BY EntrySeen
<1>2. TypeOK /\ TypeOK' /\ EngineInv'
    BY InvStep DEF IInv
<1>3. /\ Cardinality(DOMAIN engine.seen) < MaxPositions /\ risk > 0
      /\ Total(engine.seen) + risk <= TotalPct * engine.eq
    BY <1>1 DEF CheckEntry, WithinTotals
<1>4. risk \in Nat /\ engine.eq \in Nat /\ MaxPositions \in Nat /\ TotalPct * engine.eq \in Int
  <2>1. risk \in Nat /\ engine.eq \in Nat /\ MaxPositions \in Nat /\ TotalPct \in Nat
      BY <1>2, Settings DEF TypeOK
  <2> QED  BY <2>1
<1> DEFINE old == engine.seen
           new == engine'.seen
           B == DOMAIN book'
<1>5. /\ DOMAIN old \subseteq Tickets /\ DOMAIN new \subseteq Tickets /\ B \subseteq Tickets
      /\ \A x \in DOMAIN old : old[x] \in [sym : Universe, side : Sides, risk : Nat]
      /\ \A x \in DOMAIN new : new[x] \in [sym : Universe, side : Sides, risk : Nat]
      /\ \A x \in B : book'[x] \in Position
    BY <1>2 DEF TypeOK
<1>6. B \subseteq DOMAIN new /\ \A x \in B : AtRisk(book'[x]) <= new[x].risk
    BY <1>1, <1>2 DEF EngineInv
<1>7. Summable(Risks(old), DOMAIN old) /\ Summable(Risks(new), DOMAIN new)
      /\ \A x \in DOMAIN new : Risks(new)[x] \in Nat
  <2> HIDE DEF old, new
  <2> QED  BY <1>5, SeenSummable
<1>8. Cardinality(B) <= MaxPositions
  <2>1. IsFiniteSet(DOMAIN old) /\ IsFiniteSet(DOMAIN new)
      BY <1>5, TicketsFinite
  <2>2. Cardinality(DOMAIN new) = Cardinality(DOMAIN old) + 1
      BY <1>1, <2>1, FS_AddElement
  <2>3. Cardinality(B) \in Nat /\ Cardinality(DOMAIN old) \in Nat
        /\ Cardinality(B) <= Cardinality(DOMAIN new)
      BY <1>6, <2>1, FS_Subset, FS_CardinalityType
  <2> QED  BY <1>3, <1>4, <2>2, <2>3
<1>9. Sum(Risks(new), DOMAIN new) = Total(old) + risk
  <2>1. Sum(Risks(new), DOMAIN old \cup {t}) = Risks(new)[t] + Sum(Risks(new), DOMAIN old)
      BY <1>1, <1>7, SumAdds
  <2>2. Risks(new)[t] = risk
      BY <1>1, <1>3, <1>4 DEF Risks, Abs
  <2>3. \A x \in DOMAIN old : Risks(old)[x] = Risks(new)[x]
      BY <1>1 DEF Risks
  <2>4. Sum(Risks(old), DOMAIN old) = Sum(Risks(new), DOMAIN old)
    <3> HIDE DEF old, new
    <3> QED  BY <1>7, <2>3, SumOfEqualTerms
  <2>5. Total(old) = Sum(Risks(old), DOMAIN old) /\ Sum(Risks(old), DOMAIN old) \in Int
    <3> HIDE DEF old
    <3> QED  BY <1>7, TotalIsSum, SumType
  <2> HIDE DEF old, new
  <2> QED  BY <1>1, <1>4, <2>1, <2>2, <2>4, <2>5 DEF old, new
<1>10. Summable(Losses(book'), B) /\ \A x \in B : Losses(book')[x] <= Risks(new)[x]
  <2>1. \A x \in B : AtRisk(book'[x]) \in Int
      BY <1>5, RiskBounds
  <2>2. IsFiniteSet(B)
      BY <1>5, TicketsFinite
  <2>3. \A x \in B : Losses(book')[x] = AtRisk(book'[x])
      BY DEF Losses
  <2>4. \A x \in B : Risks(new)[x] = new[x].risk
      BY <1>6 DEF Risks
  <2> QED  BY <1>6, <2>1, <2>2, <2>3, <2>4 DEF Summable
<1>11. MapThenSumSet(LAMBDA x : AtRisk(book'[x]), B) = Sum(Losses(book'), B)
    BY <1>10, LossIsSum
<1>12. /\ Sum(Losses(book'), B) <= Sum(Risks(new), B)
       /\ Sum(Risks(new), B) <= Sum(Risks(new), DOMAIN new)
       /\ Sum(Losses(book'), B) \in Int /\ Sum(Risks(new), B) \in Int
  <2> HIDE DEF new, B
  <2>1. Summable(Risks(new), B)
      BY <1>6, <1>7, SummableSubset
  <2>2. Sum(Losses(book'), B) <= Sum(Risks(new), B)
      BY <1>10, <2>1, SumGrowsWithTerms
  <2>3. \A x \in DOMAIN new : Risks(new)[x] >= 0
      BY <1>7
  <2>4. Sum(Risks(new), B) <= Sum(Risks(new), DOMAIN new)
      BY <1>6, <1>7, <2>3, SumGrowsWithSet
  <2> QED  BY <1>10, <2>1, <2>2, <2>4, SumType
<1>13. Total(old) \in Int
  <2> HIDE DEF old
  <2> QED  BY <1>7, TotalIsSum, SumType
<1>14. Sum(Losses(book'), B) <= TotalPct * engine.eq
  <2> HIDE DEF new, B
  <2> QED  BY <1>3, <1>4, <1>9, <1>12, <1>13
<1> QED  BY <1>8, <1>11, <1>14

\* However many entries a cycle makes, and whatever its re-judgement did before, no
\* entry leaves more positions or more at risk than the caps allow.
THEOREM CapsKept == Spec => EntriesWithinCaps
<1>1. IInv /\ [Next]_vars =>
          [\A t \in Tickets : Entered(t) =>
              /\ Cardinality(DOMAIN book') <= MaxPositions
              /\ MapThenSumSet(LAMBDA x : AtRisk(book'[x]), DOMAIN book')
                     <= TotalPct * engine.eq]_vars
    BY EntryWithinCaps
<1> QED  BY <1>1, RecordKept, PTL DEF Spec, EntriesWithinCaps

\* The engine has then seen the book as it is.
LEMMA EntryWithinCurrencyCap ==
    ASSUME IInv, Next, NEW t \in Tickets, Entered(t), ~stale
    PROVE  NetWithin(book'[t].sym)
<1>1. PICK s \in Universe, side \in Sides, risk \in NewRisks :
          /\ CheckEntry(s, side, risk)
          /\ book'[t].sym = s
          /\ t \notin DOMAIN engine.seen
          /\ DOMAIN engine'.seen = DOMAIN engine.seen \cup {t}
          /\ engine'.seen[t] = [sym |-> s, side |-> side, risk |-> Abs(risk)]
          /\ \A x \in DOMAIN engine.seen : engine'.seen[x] = engine.seen[x]
          /\ pc' = "enter" /\ stale' = stale
    BY EntrySeen
<1>2. TypeOK /\ TypeOK' /\ EngineInv'
    BY InvStep DEF IInv
<1>3. engine'.seen = [x \in DOMAIN book' |-> RiskInfo(book'[x])]
    BY <1>1, <1>2 DEF EngineInv, Seen
<1>4. risk \in Nat /\ risk > 0 /\ \A c \in Currencies(s) : WithinCcy(s, side, risk, c)
    BY <1>1, Settings DEF CheckEntry, WithinTotals
<1> DEFINE old == engine.seen
           new == engine'.seen
<1>5. /\ DOMAIN old \subseteq Tickets /\ DOMAIN new \subseteq Tickets
      /\ \A x \in DOMAIN old : old[x] \in [sym : Universe, side : Sides, risk : Nat]
      /\ \A x \in DOMAIN new : new[x] \in [sym : Universe, side : Sides, risk : Nat]
    BY <1>2 DEF TypeOK
<1>6. ASSUME NEW c
      PROVE  Exposure(new, c) = Exposure(old, c) + Share(s, side, c) * risk
  <2> DEFINE n == NetRisks(new, c)
             o == NetRisks(old, c)
             m == Share(s, side, c) * risk
  <2>1. Summable(n, DOMAIN new) /\ Summable(o, DOMAIN old)
    <3> HIDE DEF old, new
    <3> QED  BY <1>5, SeenSummable
  <2>2. Exposure(new, c) = Sum(n, DOMAIN new) /\ Exposure(old, c) = Sum(o, DOMAIN old)
    <3> HIDE DEF old, new
    <3> QED  BY <2>1, ExposureIsSum
  <2>3. n[t] = m
      BY <1>1, <1>4 DEF NetRisks, Abs
  <2>4. \A x \in DOMAIN old : o[x] = n[x]
      BY <1>1 DEF NetRisks
  <2>5. Sum(n, DOMAIN old \cup {t}) = n[t] + Sum(n, DOMAIN old)
      BY <1>1, <2>1, SumAdds
  <2>6. Sum(o, DOMAIN old) = Sum(n, DOMAIN old) /\ Sum(o, DOMAIN old) \in Int
    <3> HIDE DEF o, n
    <3> QED  BY <2>1, <2>4, SumOfEqualTerms, SumType
  <2>7. m \in Int
      BY <1>4, ShareType
  <2>8. DOMAIN new = DOMAIN old \cup {t}
      BY <1>1
  <2> HIDE DEF o, n, m, old, new
  <2>9. Exposure(new, c) = Exposure(old, c) + m
      BY <2>2, <2>3, <2>5, <2>6, <2>7, <2>8
  <2> QED  BY <2>9 DEF m
<1>7. ASSUME NEW c \in Currencies(s)
      PROVE  Abs(Exposure([x \in DOMAIN book' |-> RiskInfo(book'[x])], c)) <= CcyPct * engine.eq
  <2>1. Abs(Exposure(old, c) + Share(s, side, c) * risk) <= CcyPct * engine.eq
      BY <1>4 DEF WithinCcy
  <2> QED  BY <1>3, <1>6, <2>1
<1> QED  BY <1>1, <1>7 DEF NetWithin

\* In a cycle whose re-judgement changed nothing, no entry leaves the net risk of a
\* currency of its symbol above the cap.
THEOREM FreshCapKept == Spec => CurrencyCapOnFreshBook
<1>1. IInv /\ [Next]_vars =>
          [\A t \in Tickets : Entered(t) /\ ~stale => NetWithin(book'[t].sym)]_vars
    BY EntryWithinCurrencyCap
<1> QED  BY <1>1, RecordKept, PTL DEF Spec, CurrencyCapOnFreshBook
=============================================================================
