--------------------------- MODULE CaseMemoryProofs ---------------------------
(***************************************************************************)
(* Proofs about DataPump and CaseMemory, for every universe, every trading *)
(* calendar, every depth of history and every number of builds and of      *)
(* failures that PumpAssumption and MemoryAssumption allow.                *)
(***************************************************************************)
EXTENDS CaseMemory, FiniteSetTheorems, SequenceTheorems, WellFoundedInduction, TLAPS

(***************************************************************************)
(* The inductive invariant of the pump.                                    *)
(***************************************************************************)
Left == {todo[k] : k \in DOMAIN todo}

\* Between jobs there is no transaction; in one, now is past its start.
JobInv ==
    /\ proc = "none" => tx = Committed /\ ~aborted /\ failed = {}
    /\ until <= now

\* No table is ahead of the terminal, and no rows are ahead of their bars.
FeedInv ==
    \A s \in Universe :
        /\ tx.bars[s].held \subseteq 0..Forming
        /\ rows[s].held \subseteq bars[s].held /\ tx.rows[s].held \subseteq tx.bars[s].held

\* A transaction only adds.
GrowInv ==
    \A s \in Universe :
        bars[s].held \subseteq tx.bars[s].held /\ rows[s].held \subseteq tx.rows[s].held

\* The window of a backfill is in the table, but for what was skipped.
Repaired(table, skip) ==
    \A b \in Market : until - History <= b /\ b <= until /\ b \notin skip
        => b \in table.held /\ (b \in table.part => b >= until + Offset)

\* What the job owes a symbol once it has done it.
Owed(s) ==
    IF proc = "pump" THEN tx.rows[s] = tx.bars[s]
    ELSE proc = "backfill" /\ History > 0 => Repaired(tx.bars[s], tx.skip[s])

WorkInv ==
    /\ \A s \in Universe : s \in failed \/ s \in Left \/ Owed(s)
    /\ proc = "backfill" /\ History = 0 => tx.bars = bars /\ tx.rows = rows

PumpInv == JobInv /\ FeedInv /\ GrowInv /\ WorkInv

\* Before a stored bar every bar is stored, was skipped or was outrun.
HolesIn(table, skip) ==
    \A b \in Market : \A y \in table.held :
        1 <= b /\ b < y => b \in table.held \cup skip \/ Outrun(table, b)

HoleInv ==
    \A s \in Universe :
        HolesIn(bars[s], skipped[s]) /\ HolesIn(tx.bars[s], tx.skip[s])

(***************************************************************************)
(* The inductive invariant of the memory.                                  *)
(***************************************************************************)
\* Every point of the collection is still labelled, and a build that keeps the
\* collection has every old point before it.
PointsInv ==
    /\ DOMAIN coll \subseteq Labelled
    /\ step # "idle" => fetched \subseteq Labelled
    /\ step \in {"fit", "recreate"} => DOMAIN coll \subseteq fetched
    /\ step = "write" => \A p \in DOMAIN coll : p \in fetched \/ coll[p] = build

BuildInv ==
    /\ step # "idle" => build >= 1
    /\ step \in {"recreate", "write"} => encFile = build
    /\ step # "idle" => ~whole
    /\ whole => encFile = build /\ \A p \in DOMAIN coll : coll[p] = build

IInv == TypeOK /\ PumpInv /\ PointsInv /\ BuildInv

\* What the history depends on besides: a backfill reaches back to the first bar
\* after hour 0.
Reach == MaxHour <= History + 1

(***************************************************************************)
(* The operators of the model.                                             *)
(***************************************************************************)
LEMMA Settings ==
    /\ Offset \in Nat /\ History \in Nat /\ MaxFaults \in Nat /\ MaxHour \in Nat
    /\ ChunkHours \in Nat \ {0} /\ Market \subseteq Nat
    /\ LabelBars \in Nat /\ MinRows \in Nat /\ MaxBuilds \in Nat
    /\ Symbols \in Seq(Universe)
<1>1. Symbols \in Seq(Universe)
  <2>1. Symbols \in Seq(STRING)
      BY PumpAssumption
  <2>2. Len(Symbols) \in Nat /\ DOMAIN Symbols = 1..Len(Symbols)
      BY <2>1
  <2>3. \A k \in 1..Len(Symbols) : Symbols[k] \in Universe
      BY <2>2 DEF Universe
  <2>4. Symbols = [k \in 1..Len(Symbols) |-> Symbols[k]]
      BY <2>1
  <2> QED  BY <2>2, <2>3, <2>4, SeqDef
<1> QED  BY <1>1, PumpAssumption, MemoryAssumption

LEMMA HeadAndRest ==
    ASSUME NEW S, NEW q \in Seq(S), q # <<>>
    PROVE  /\ Head(q) \in S /\ Tail(q) \in Seq(S)
           /\ \A k \in DOMAIN q : q[k] = Head(q) \/ \E j \in DOMAIN Tail(q) : Tail(q)[j] = q[k]
<1>1. /\ Head(q) \in S /\ Tail(q) \in Seq(S) /\ Len(Tail(q)) = Len(q) - 1
      /\ \A i \in 1..Len(Tail(q)) : Tail(q)[i] = q[i + 1]
    BY HeadTailProperties
<1>2. ASSUME NEW k \in DOMAIN q
      PROVE  q[k] = Head(q) \/ \E j \in DOMAIN Tail(q) : Tail(q)[j] = q[k]
  <2>1. k \in 1..Len(q) /\ Len(q) \in Nat /\ DOMAIN Tail(q) = 1..Len(Tail(q))
      BY <1>1, <1>2
  <2>2. CASE k = 1
      BY <2>2
  <2>3. CASE k # 1
    <3>1. k - 1 \in 1..Len(Tail(q)) /\ Tail(q)[k - 1] = q[(k - 1) + 1] /\ (k - 1) + 1 = k
        BY <1>1, <2>1, <2>3
    <3> QED  BY <2>1, <3>1
  <2> QED  BY <2>2, <2>3
<1> QED  BY <1>1, <1>2

LEMMA MaxIsMax ==
    ASSUME NEW n \in Nat, NEW S, S \subseteq 0..n, S # {}
    PROVE  Max(S) \in S /\ \A y \in S : y <= Max(S)
<1> DEFINE D == {n - x : x \in S}
<1>1. D \subseteq Nat /\ D # {}
    OBVIOUS
<1>2. PICK d \in D : \A e \in D : <<e, d>> \notin OpToRel(<, Nat)
  <2> HIDE DEF D
  <2> QED  BY <1>1, NatLessThanWellFounded, WFMin
<1>3. \A e \in D : ~(e < d)
    BY <1>1, <1>2 DEF OpToRel
<1>4. PICK m \in S : d = n - m
    BY <1>2
<1>5. \A y \in S : n - y \in D
    OBVIOUS
<1>6. \A y \in S : y \in Int /\ m \in Int
    OBVIOUS
<1>7. ASSUME NEW y \in S
      PROVE  m >= y
  <2>1. ~(n - y < n - m)
      BY <1>3, <1>4, <1>5
  <2> QED  BY <1>6, <2>1
<1>8. Max(S) \in S /\ \A y \in S : Max(S) >= y
    BY <1>7 DEF Max
<1> QED  BY <1>6, <1>8

LEMMA DivisionOf ==
    ASSUME NEW m \in Nat, NEW c \in Nat \ {0}
    PROVE  m \div c \in Nat /\ (m \div c) * c <= m /\ m < (m \div c + 1) * c
OBVIOUS

LEMMA TimesGrows ==
    ASSUME NEW a \in Int, NEW b \in Int, NEW c \in Nat, a <= b
    PROVE  a * c <= b * c
OBVIOUS

LEMMA DivisionGrows ==
    ASSUME NEW m \in Nat, NEW n \in Nat, m <= n, NEW c \in Nat \ {0}
    PROVE  m \div c <= n \div c
<1> DEFINE p == m \div c
           q == n \div c
<1>1. p \in Nat /\ p * c <= m /\ q \in Nat /\ n < (q + 1) * c
    BY DivisionOf
<1> HIDE DEF p, q
<1>2. SUFFICES ASSUME q + 1 <= p
               PROVE  FALSE
    BY <1>1 DEF p, q
<1>3. (q + 1) * c <= p * c
    BY <1>1, <1>2, TimesGrows
<1>4. (q + 1) * c \in Int /\ p * c \in Int
    BY <1>1
<1> HIDE DEF p, q
<1> QED  BY <1>1, <1>3, <1>4

LEMMA MinOfTwo ==
    ASSUME NEW a \in Int, NEW b \in Int
    PROVE  Min({a, b}) \in {a, b} /\ Min({a, b}) <= a /\ Min({a, b}) <= b
<1>1. \E x \in {a, b} : \A y \in {a, b} : x <= y
    OBVIOUS
<1> QED  BY <1>1 DEF Min

LEMMA FeedFacts ==
    ASSUME now \in Nat
    PROVE  /\ Forming \in Nat /\ now <= Forming /\ Feed \subseteq Market /\ Feed \subseteq 0..Forming
           /\ \A c : GetBars(c) \subseteq Feed
           /\ \A from, to : GetBarsRange(from, to) \subseteq Feed
<1>1. Market \subseteq Nat /\ Offset \in Nat
    BY Settings
<1>2. Forming \in Nat /\ now <= Forming
    BY <1>1 DEF Forming
<1>3. Feed \subseteq Market /\ Feed \subseteq 0..Forming
  <2>1. \A b \in Feed : b \in Market /\ b <= Forming
      BY DEF Feed
  <2>2. \A b \in Feed : b \in Nat
      BY <1>1, <2>1
  <2>3. \A b \in Feed : b \in 0..Forming
      BY <1>2, <2>1, <2>2
  <2> QED  BY <2>1, <2>3
<1>4. \A c : GetBars(c) \subseteq Feed
    BY DEF GetBars
<1>5. \A from, to : GetBarsRange(from, to) \subseteq Feed
    BY DEF GetBarsRange
<1> QED  BY <1>2, <1>3, <1>4, <1>5

\* The requests of a backfill cover its window and nothing else.
LEMMA ChunksCover ==
    ASSUME now \in Nat, NEW from \in Int, NEW to \in Int
    PROVE  /\ \A chunk \in Chunks(from, to) : chunk \subseteq Feed /\ \A b \in chunk : b <= to
           /\ from >= to => Chunks(from, to) = {}
           /\ from < to => \A b \in Feed : from <= b /\ b <= to
                               => \E chunk \in Chunks(from, to) : b \in chunk
<1>1. ChunkHours \in Nat \ {0}
    BY Settings
<1>2. Feed \subseteq 0..Forming /\ Forming \in Nat
    BY FeedFacts
<1> DEFINE n == to - from - 1
           end(k) == Min({from + (k + 1) * ChunkHours, to})
           chunk(k) == GetBarsRange(from + k * ChunkHours, end(k))
<1>3. CASE from >= to
    BY <1>3 DEF Chunks
<1>4. CASE from < to
  <2>1. n \in Nat
      BY <1>4
  <2>2. Chunks(from, to) = {chunk(k) : k \in 0..(n \div ChunkHours)}
      BY <1>4 DEF Chunks
  <2>3. n \div ChunkHours \in Nat /\ n < (n \div ChunkHours + 1) * ChunkHours
        /\ (n \div ChunkHours) * ChunkHours <= n
      BY <1>1, <2>1, DivisionOf
  <2>4. ASSUME NEW k \in Nat
        PROVE  /\ end(k) \in Int /\ end(k) <= to
               /\ \A b \in Int : b <= to /\ b <= from + (k + 1) * ChunkHours => b <= end(k)
    <3>1. from + (k + 1) * ChunkHours \in Int
        BY <1>1
    <3> QED  BY <3>1, MinOfTwo
  <2>5. ASSUME NEW k \in Nat
        PROVE  chunk(k) \subseteq Feed /\ \A b \in chunk(k) : b <= to
    <3> HIDE DEF end
    <3>1. \A b \in chunk(k) : b \in Feed /\ b <= end(k)
        BY DEF GetBarsRange
    <3> HIDE DEF chunk
    <3>2. \A b \in chunk(k) : b \in Int
      <4>1. \A b \in Feed : b \in Int
          BY <1>2
      <4> QED  BY <3>1, <4>1
    <3>3. ASSUME NEW b \in chunk(k)
          PROVE  b <= to
      <4>1. b \in Int /\ b <= end(k) /\ end(k) \in Int /\ end(k) <= to
          BY <2>4, <3>1, <3>2
      <4> QED  BY <4>1
    <3> QED  BY <3>1, <3>3
  <2>6. ASSUME NEW b \in Feed, from <= b, b <= to
        PROVE  \E k \in 0..(n \div ChunkHours) : b \in chunk(k)
    <3>1. b \in Int
        BY <1>2
    <3>2. \E k \in 0..(n \div ChunkHours) :
              k * ChunkHours <= b - from /\ b - from <= (k + 1) * ChunkHours
      <4>1. CASE b = to
        <5> DEFINE q == n \div ChunkHours
        <5>1. q \in Nat /\ q * ChunkHours \in Int /\ (q + 1) * ChunkHours \in Int
            BY <1>1, <2>3
        <5>2. q * ChunkHours <= b - from /\ b - from <= (q + 1) * ChunkHours
          <6> HIDE DEF q
          <6> QED  BY <2>3, <4>1, <5>1 DEF q
        <5> HIDE DEF q
        <5>3. q \in 0..q
            BY <5>1
        <5> QED  BY <5>2, <5>3 DEF q
      <4>2. CASE b # to
        <5> DEFINE m == b - from
                   q == m \div ChunkHours
        <5>1. m \in Nat /\ m <= n
            BY <2>6, <3>1, <4>2
        <5>2. q \in Nat /\ q * ChunkHours <= m /\ m < (q + 1) * ChunkHours
            BY <1>1, <5>1, DivisionOf
        <5>3. q <= n \div ChunkHours
            BY <1>1, <2>1, <5>1, DivisionGrows
        <5> HIDE DEF q
        <5>4. q \in 0..(n \div ChunkHours)
            BY <2>3, <5>2, <5>3
        <5>5. q * ChunkHours <= m /\ m <= (q + 1) * ChunkHours
          <6>1. (q + 1) * ChunkHours \in Int
              BY <1>1, <5>2
          <6> QED  BY <5>1, <5>2, <6>1
        <5> QED  BY <5>4, <5>5
      <4> QED  BY <4>1, <4>2
    <3>3. PICK k \in 0..(n \div ChunkHours) :
              k * ChunkHours <= b - from /\ b - from <= (k + 1) * ChunkHours
        BY <3>2
    <3>4. k \in Nat /\ k * ChunkHours \in Int /\ (k + 1) * ChunkHours \in Int
        BY <1>1, <2>3, <3>3
    <3>5. from + k * ChunkHours <= b /\ b <= from + (k + 1) * ChunkHours
        BY <3>1, <3>3, <3>4
    <3>6. b <= end(k)
        BY <2>4, <2>6, <3>1, <3>4, <3>5
    <3> HIDE DEF end
    <3> QED  BY <2>6, <3>5, <3>6 DEF GetBarsRange
  <2> HIDE DEF chunk
  <2> QED  BY <1>4, <2>2, <2>3, <2>5, <2>6
<1> QED  BY <1>3, <1>4

LEMMA UpsertFacts ==
    ASSUME NEW t \in Table, NEW got, got \subseteq Market
    PROVE  /\ Upsert(t, got) \in Table
           /\ Upsert(t, got).held = t.held \cup got
           /\ \A b \in Upsert(t, got).part : (b \in t.part /\ b \notin got) \/ b = Forming
           /\ got = {} => Upsert(t, got) = t
<1>1. t.held \subseteq Market /\ t.part \subseteq Market /\ t = [held |-> t.held, part |-> t.part]
    BY DEF Table
<1>2. Upsert(t, got) = [held |-> t.held \cup got, part |-> (t.part \ got) \cup (got \cap {Forming})]
    BY DEF Upsert
<1> DEFINE h == t.held \cup got
           q == (t.part \ got) \cup (got \cap {Forming})
<1>3. h \subseteq Market /\ q \subseteq Market /\ \A b \in q : (b \in t.part /\ b \notin got) \/ b = Forming
    BY <1>1
<1>4. got = {} => h = t.held /\ q = t.part
    OBVIOUS
<1> HIDE DEF h, q
<1>5. Upsert(t, got) = [held |-> h, part |-> q]
    BY <1>2 DEF h, q
<1> QED  BY <1>1, <1>3, <1>4, <1>5 DEF Table, h

\* A top-up adds bars after the newest one, and leaves none out before the last it
\* adds but the first ones, as many as the offset exceeds the headroom by.
LEMMA ToppedUpFacts ==
    ASSUME now \in Nat, NEW t \in Table, t.held \subseteq 0..Forming, t.held # {}
    PROVE  /\ ToppedUp(t) \in Table
           /\ \E got : /\ got \subseteq Feed
                       /\ ToppedUp(t).held = t.held \cup got
                       /\ \A b \in got : b > Max(t.held)
                       /\ \A b \in Market, y \in got : Max(t.held) < b /\ b <= y =>
                              b \in got \/ b <= Max(t.held) + Offset - 2
<1> DEFINE last == Max(t.held)
           gap == now - last
<1>1. Forming \in Nat /\ Forming = now + Offset /\ Feed \subseteq Market /\ Feed \subseteq 0..Forming
      /\ Offset \in Nat /\ Market \subseteq Nat
    BY FeedFacts, Settings DEF Forming
<1>2. last \in 0..Forming
    BY <1>1, MaxIsMax
<1> HIDE DEF last
<1>3. last \in Nat /\ gap \in Int
    BY <1>1, <1>2
<1>4. ASSUME NEW got, got \subseteq Feed, \A b \in got : b > last,
             ToppedUp(t) = Upsert(t, got)
      PROVE  /\ ToppedUp(t) \in Table
             /\ ToppedUp(t).held = t.held \cup got
  <2>1. got \subseteq Market
      BY <1>1, <1>4
  <2>2. Upsert(t, got) \in Table /\ Upsert(t, got).held = t.held \cup got
      BY <2>1, UpsertFacts
  <2> QED  BY <1>4, <2>2
<1>5. CASE UpToDate(gap)
  <2>1. ToppedUp(t) = t
      BY <1>5 DEF ToppedUp, last
  <2> DEFINE got == {}
  <2>2. got \subseteq Feed /\ t.held = t.held \cup got /\ \A b \in got : FALSE
      OBVIOUS
  <2> HIDE DEF got
  <2> QED  BY <2>1, <2>2 DEF last
<1>6. CASE ~UpToDate(gap) /\ gap <= RangeCap
  <2> DEFINE got == {b \in GetBars(gap + 2) : b > last}
  <2>1. ToppedUp(t) = Upsert(t, got)
      BY <1>6 DEF ToppedUp, TopUpByCount, last
  <2>2. got \subseteq Feed /\ \A b \in got : b > last
      BY FeedFacts
  <2>3. ASSUME NEW b \in Market, NEW y \in got, last < b, b <= y, ~(b <= last + Offset - 2)
        PROVE  b \in got
    <3>1. y \in Feed /\ b \in Nat
        BY <1>1, <2>2
    <3>2. y \in 0..Forming
        BY <1>1, <3>1
    <3>3. b \in Feed
        BY <1>1, <2>3, <3>1, <3>2 DEF Feed
    <3> DEFINE above == {x \in Feed : x > b}
    <3>4. above \subseteq (b + 1)..Forming
      <4>1. \A x \in Feed : x \in Int /\ x <= Forming
          BY <1>1
      <4>2. \A x \in above : x \in Int /\ x <= Forming /\ x >= b + 1
          BY <3>1, <4>1
      <4> QED  BY <4>2
    <3>5. /\ IsFiniteSet((b + 1)..Forming)
          /\ Cardinality((b + 1)..Forming) = IF b + 1 > Forming THEN 0 ELSE Forming - (b + 1) + 1
      <4>1. b + 1 \in Int /\ Forming \in Int
          BY <1>1, <3>1
      <4> QED  BY <4>1, FS_Interval
    <3>6. Cardinality(above) \in Nat /\ Cardinality(above) <= Cardinality((b + 1)..Forming)
        BY <3>4, <3>5, FS_Subset, FS_CardinalityType
    <3> HIDE DEF above
    <3>7. Forming - (b + 1) + 1 < gap + 2 /\ 0 < gap + 2
      <4>1. ~(gap <= 0)
          BY <1>6 DEF UpToDate
      <4> QED  BY <1>1, <1>3, <2>3, <3>1, <4>1
    <3>8. Cardinality(above) < gap + 2
        BY <1>1, <1>3, <3>1, <3>5, <3>6, <3>7
    <3> QED  BY <2>3, <3>3, <3>8 DEF GetBars, above
  <2> HIDE DEF got
  <2>4. ToppedUp(t) \in Table /\ ToppedUp(t).held = t.held \cup got
      BY <1>4, <2>1, <2>2
  <2> QED  BY <2>2, <2>3, <2>4 DEF last
<1>7. CASE ~UpToDate(gap) /\ ~(gap <= RangeCap)
  <2> DEFINE got == {b \in GetBarsRange(last, now) : b > last}
  <2>1. ToppedUp(t) = Upsert(t, got)
      BY <1>7 DEF ToppedUp, TopUpByRange, last
  <2>2. got \subseteq Feed /\ \A b \in got : b > last
      BY FeedFacts
  <2>3. ASSUME NEW b \in Market, NEW y \in got, last < b, b <= y
        PROVE  b \in got
    <3>1. y \in Feed /\ y <= now
        BY DEF GetBarsRange
    <3>2. b \in Nat /\ y \in Int
        BY <1>1, <3>1
    <3>3. b <= now /\ b <= Forming
        BY <1>1, <2>3, <3>1, <3>2
    <3> QED  BY <1>3, <2>3, <3>2, <3>3 DEF GetBarsRange, Feed
  <2> HIDE DEF got
  <2>4. ToppedUp(t) \in Table /\ ToppedUp(t).held = t.held \cup got
      BY <1>4, <2>1, <2>2
  <2> QED  BY <2>2, <2>3, <2>4 DEF last
<1> QED  BY <1>5, <1>6, <1>7 DEF last

LEMMA TopUpKeepsHoles ==
    ASSUME now \in Nat, NEW t \in Table, t.held \subseteq 0..Forming, t.held # {},
           NEW skip, HolesIn(t, skip)
    PROVE  HolesIn(ToppedUp(t), skip)
<1> DEFINE last == Max(t.held)
           new == ToppedUp(t)
<1>1. PICK got : /\ got \subseteq Feed /\ new.held = t.held \cup got
                 /\ \A b \in got : b > last
                 /\ \A b \in Market, y \in got : last < b /\ b <= y =>
                        b \in got \/ b <= last + Offset - 2
    BY ToppedUpFacts
<1>2. last \in t.held /\ \A y \in t.held : y <= last
    BY FeedFacts, MaxIsMax
<1> HIDE DEF last, new
<1>3. Market \subseteq Nat /\ t.held \subseteq Nat /\ Feed \subseteq Nat
  <2>1. Market \subseteq Nat /\ Feed \subseteq Market
      BY Settings, FeedFacts
  <2>2. t.held \subseteq Nat
      BY FeedFacts
  <2> QED  BY <2>1, <2>2
<1> SUFFICES ASSUME NEW b \in Market, NEW y \in new.held, 1 <= b, b < y
             PROVE  b \in new.held \cup skip \/ Outrun(new, b)
    BY DEF HolesIn, new
<1>4. b \in Nat /\ y \in Nat /\ last \in Nat /\ Offset \in Nat
    BY <1>1, <1>2, <1>3, Settings
<1>5. CASE last < b
  <2>1. y \in got
      BY <1>1, <1>2, <1>4, <1>5
  <2>2. b \in got \/ b <= last + Offset - 2
      BY <1>1, <1>4, <1>5, <2>1
  <2>3. last \in new.held
      BY <1>1, <1>2
  <2> QED  BY <1>1, <1>5, <2>2, <2>3 DEF Outrun
<1>6. CASE b < last
  <2>1. b \in t.held \cup skip \/ Outrun(t, b)
      BY <1>2, <1>6 DEF HolesIn
  <2> QED  BY <1>1, <2>1 DEF Outrun
<1>7. CASE b = last
    BY <1>1, <1>2, <1>7
<1> QED  BY <1>4, <1>5, <1>6, <1>7

Requests(end) == Chunks(end - History, end)
Got(end, missing) == UNION (Requests(end) \ {missing})
Passed(end, missing, skip) == (skip \cup missing) \ Got(end, missing)

\* A request that is answered is stored, one that is not is skipped.
LEMMA GotFacts ==
    ASSUME now \in Nat, NEW end \in Int, end <= now, NEW skip, skip \subseteq Market,
           NEW missing \in Requests(end) \cup {{}}
    PROVE  /\ Got(end, missing) \subseteq Feed /\ \A b \in Got(end, missing) : b <= end
           /\ Passed(end, missing, skip) \subseteq Market
           /\ History = 0 => Got(end, missing) = {}
           /\ skip \subseteq Passed(end, missing, skip) \cup Got(end, missing)
           /\ History > 0 =>
                  \A b \in Market : end - History <= b /\ b <= end =>
                      b \in Got(end, missing) \cup Passed(end, missing, skip)
<1>1. History \in Nat /\ end - History \in Int /\ Feed \subseteq Market /\ now <= Forming
      /\ Forming \in Nat /\ Market \subseteq Nat
    BY Settings, FeedFacts
<1>2. /\ \A chunk \in Requests(end) : chunk \subseteq Feed /\ \A b \in chunk : b <= end
      /\ end - History >= end => Requests(end) = {}
      /\ end - History < end => \A b \in Feed : end - History <= b /\ b <= end
                                    => \E chunk \in Requests(end) : b \in chunk
    BY <1>1, ChunksCover DEF Requests
<1>3. Got(end, missing) \subseteq Feed /\ \A b \in Got(end, missing) : b <= end
    BY <1>2 DEF Got
<1>4. missing \subseteq Market
    BY <1>1, <1>2
<1>5. History = 0 => Got(end, missing) = {}
    BY <1>1, <1>2 DEF Got
<1>6. ASSUME History > 0, NEW b \in Market, end - History <= b, b <= end
      PROVE  b \in Got(end, missing) \cup Passed(end, missing, skip)
  <2>1. b \in Feed
      BY <1>1, <1>6 DEF Feed
  <2>2. PICK chunk \in Requests(end) : b \in chunk
      BY <1>1, <1>2, <1>6, <2>1
  <2> QED  BY <2>2 DEF Got, Passed
<1> QED  BY <1>3, <1>4, <1>5, <1>6 DEF Passed

\* Bars of an initial window fill all holes up to where it ends.
LEMMA WindowKeepsHoles ==
    ASSUME NEW t, NEW new, NEW skip, NEW sk, NEW got, NEW end \in Int,
           t.held \subseteq Nat, got \subseteq Nat, new.held = t.held \cup got,
           \A b \in got : b <= end, HolesIn(t, skip), skip \subseteq sk \cup got,
           got # {} => \A b \in Market : 1 <= b /\ b <= end => b \in got \cup sk
    PROVE  HolesIn(new, sk)
<1> SUFFICES ASSUME NEW b \in Market, NEW y \in new.held, 1 <= b, b < y
             PROVE  b \in new.held \cup sk \/ Outrun(new, b)
    BY DEF HolesIn
<1>1. b \in Nat /\ y \in Nat
    BY Settings
<1>2. CASE b <= end /\ got # {}
    BY <1>2
<1>3. CASE ~(b <= end) \/ got = {}
  <2>1. y \in t.held
      BY <1>1, <1>3
  <2>2. b \in t.held \cup skip \/ Outrun(t, b)
      BY <2>1 DEF HolesIn
  <2> QED  BY <2>2 DEF Outrun
<1> QED  BY <1>2, <1>3

LEMMA BackfillKeepsHoles ==
    ASSUME now \in Nat, NEW end \in Int, end <= now, NEW skip, skip \subseteq Market,
           NEW missing \in Requests(end) \cup {{}}, NEW t \in Table, t.held \subseteq 0..Forming,
           end <= History + 1, HolesIn(t, skip)
    PROVE  HolesIn(Upsert(t, Got(end, missing)), Passed(end, missing, skip))
<1> DEFINE got == Got(end, missing)
           sk == Passed(end, missing, skip)
           new == Upsert(t, got)
<1>1. /\ got \subseteq Feed /\ \A b \in got : b <= end
      /\ History = 0 => got = {}
      /\ skip \subseteq sk \cup got
      /\ History > 0 => \A b \in Market : end - History <= b /\ b <= end => b \in got \cup sk
    BY GotFacts
<1>2. History \in Nat /\ Feed \subseteq Market /\ Market \subseteq Nat /\ Forming \in Nat
    BY Settings, FeedFacts
<1> HIDE DEF got, sk
<1>3. new.held = t.held \cup got
  <2>1. got \subseteq Market
      BY <1>1, <1>2
  <2> QED  BY <2>1, UpsertFacts
<1> HIDE DEF new
<1>4. got # {} => \A b \in Market : 1 <= b /\ b <= end => b \in got \cup sk
  <2> SUFFICES ASSUME got # {}, NEW b \in Market, 1 <= b, b <= end
               PROVE  b \in got \cup sk
      OBVIOUS
  <2>1. b \in Nat /\ History > 0
    <3>1. History # 0
        BY <1>1
    <3> QED  BY <1>2, <3>1
  <2>2. end - History <= b
      BY <1>2, <2>1
  <2> QED  BY <1>1, <2>1, <2>2
<1>5. t.held \subseteq Nat /\ got \subseteq Nat
    BY <1>1, <1>2
<1> QED  BY <1>1, <1>3, <1>4, <1>5, WindowKeepsHoles DEF new, sk, got

\* What an exception leaves of a backfill is an initial part of its window.
LEMMA StoppedKeepsHoles ==
    ASSUME now \in Nat, NEW end \in Int, end <= now, NEW skip, NEW t \in Table,
           t.held \subseteq 0..Forming, end <= History + 1, HolesIn(t, skip),
           NEW stop \in Stops(end - History, end)
    PROVE  LET got == UNION Chunks(end - History, stop)
           IN  HolesIn(Upsert(t, got), skip \ got)
<1> DEFINE from == end - History
           got == UNION Chunks(from, stop)
           new == Upsert(t, got)
<1>1. History \in Nat /\ Feed \subseteq Market /\ Market \subseteq Nat /\ Forming \in Nat
      /\ now <= Forming /\ from \in Int
    BY Settings, FeedFacts
<1>2. stop \in Int /\ stop <= end
    BY <1>1 DEF Stops
<1>3. /\ \A chunk \in Chunks(from, stop) : chunk \subseteq Feed /\ \A b \in chunk : b <= stop
      /\ from >= stop => Chunks(from, stop) = {}
      /\ from < stop => \A b \in Feed : from <= b /\ b <= stop
                            => \E chunk \in Chunks(from, stop) : b \in chunk
    BY <1>1, <1>2, ChunksCover
<1>4. got \subseteq Feed /\ \A b \in got : b <= stop
    BY <1>3
<1>5. got # {} => \A b \in Market : 1 <= b /\ b <= stop => b \in got
  <2> SUFFICES ASSUME got # {}, NEW b \in Market, 1 <= b, b <= stop
               PROVE  b \in got
      OBVIOUS
  <2>1. b \in Feed /\ from <= b
      BY <1>1, <1>2 DEF Feed
  <2>2. from < stop
      BY <1>1, <1>2, <1>3
  <2> QED  BY <1>3, <2>1, <2>2
<1> HIDE DEF got
<1>6. new.held = t.held \cup got
  <2>1. got \subseteq Market
      BY <1>1, <1>4
  <2> QED  BY <2>1, UpsertFacts
<1> HIDE DEF new
<1>7. t.held \subseteq Nat /\ got \subseteq Nat
    BY <1>1, <1>4
<1> DEFINE sk == skip \ got
<1>8. skip \subseteq sk \cup got /\ (got # {} => \A b \in Market : 1 <= b /\ b <= stop => b \in got \cup sk)
    BY <1>5
<1> HIDE DEF sk
<1>9. HolesIn(new, sk)
    BY <1>2, <1>4, <1>6, <1>7, <1>8, WindowKeepsHoles
<1> QED  BY <1>9 DEF new, sk, got

(***************************************************************************)
(* The steps of a job.                                                     *)
(***************************************************************************)
\* Where the window of a job ends.
End == IF proc = "backfill" THEN until ELSE now

\* The job has done s: the tables it leaves, and what it does to its report.
Worked(s, table, feat, skip) ==
    /\ todo # <<>> /\ s = Head(todo) /\ proc # "none"
    /\ SymbolDone(s, table, feat, skip)
    /\ table \in Table /\ feat \in Table /\ skip \subseteq Market
    /\ tx.bars[s].held \subseteq table.held /\ table.held \subseteq 0..Forming
    /\ tx.rows[s].held \subseteq feat.held /\ feat.held \subseteq table.held
    /\ failed \subseteq failed' /\ failed' \subseteq Universe
    /\ faults' \in 0..MaxFaults /\ aborted' \in BOOLEAN
    /\ \/ s \in failed'
       \/ /\ proc = "pump" => feat = table
          /\ proc = "backfill" /\ History > 0 => Repaired(table, skip)
    /\ proc = "backfill" /\ History = 0 => table = tx.bars[s] /\ feat = tx.rows[s]
    /\ Reach /\ HoleInv => HolesIn(table, skip)

\* What holds while a job works on its next symbol.
LEMMA AtWork ==
    ASSUME TypeOK, PumpInv, Busy
    PROVE  LET s == Head(todo)
           IN  /\ s \in Universe /\ todo # <<>> /\ proc # "none"
               /\ now \in Nat /\ until \in Nat /\ until <= now /\ now <= MaxHour
               /\ tx.bars[s] \in Table /\ tx.rows[s] \in Table /\ tx.skip[s] \subseteq Market
               /\ tx.bars[s].held \subseteq 0..Forming
               /\ tx.rows[s].held \subseteq tx.bars[s].held
               /\ failed \subseteq Universe /\ aborted \in BOOLEAN /\ faults \in 0..MaxFaults
<1> DEFINE s == Head(todo)
<1>1. PumpTypeOK /\ JobInv /\ FeedInv
    BY DEF TypeOK, PumpInv
<1>2. todo \in Seq(Universe) /\ todo # <<>> /\ proc # "none"
    BY <1>1 DEF PumpTypeOK, Busy
<1>3. s \in Universe
    BY <1>2, HeadAndRest
<1> HIDE DEF s
<1>4. now \in Nat /\ until \in Nat /\ until <= now /\ now <= MaxHour
    BY <1>1, Settings DEF PumpTypeOK, JobInv
<1>5. tx.bars[s] \in Table /\ tx.rows[s] \in Table /\ tx.skip[s] \subseteq Market
    BY <1>1, <1>3 DEF PumpTypeOK
<1>6. failed \subseteq Universe /\ aborted \in BOOLEAN /\ faults \in 0..MaxFaults
    BY <1>1 DEF PumpTypeOK
<1>7. tx.bars[s].held \subseteq 0..Forming /\ tx.rows[s].held \subseteq tx.bars[s].held
    BY <1>1, <1>3 DEF FeedInv
<1> QED  BY <1>2, <1>3, <1>4, <1>5, <1>6, <1>7 DEF s

LEMMA FaultCounts == \A kind : Fault(kind) /\ faults \in 0..MaxFaults => faults' \in 0..MaxFaults /\ faults' # faults
BY Settings DEF Fault

Works == \E table, feat, skip : Worked(Head(todo), table, feat, skip)

\* The holes of the symbol, before its work.
LEMMA HolesBefore ==
    ASSUME HoleInv, NEW s \in Universe
    PROVE  HolesIn(tx.bars[s], tx.skip[s])
BY DEF HoleInv

LEMMA TopUpWorks ==
    ASSUME TypeOK, PumpInv, TopUp
    PROVE  Works
<1> DEFINE s == Head(todo)
           t == tx.bars[s]
           new == ToppedUp(t)
           sk == tx.skip[s]
<1>1. Busy /\ proc = "pump" /\ t.held # {} /\ aborted' = aborted
    BY DEF TopUp
<1>2. /\ s \in Universe /\ todo # <<>> /\ proc # "none" /\ now \in Nat
      /\ t \in Table /\ tx.rows[s] \in Table /\ sk \subseteq Market
      /\ t.held \subseteq 0..Forming /\ tx.rows[s].held \subseteq t.held
      /\ failed \subseteq Universe /\ aborted \in BOOLEAN /\ faults \in 0..MaxFaults
    BY <1>1, AtWork
<1>3. \A table : Refreshed(s, table) = table
    BY <1>1 DEF Refreshed
<1>4. \/ SymbolDone(s, new, Refreshed(s, new), sk) /\ UNCHANGED <<failed, faults>>
      \/ /\ Fault("nobars")
         /\ SymbolDone(s, t, Refreshed(s, t), sk)
         /\ UNCHANGED failed
      \/ /\ Fault("raise")
         /\ SymbolDone(s, new, tx.rows[s], sk)
         /\ failed' = failed \cup {s}
    BY DEF TopUp
<1>5. HoleInv => HolesIn(t, sk)
    BY <1>2, HolesBefore
<1> HIDE DEF s, sk
<1>7. new \in Table /\ t.held \subseteq new.held /\ new.held \subseteq 0..Forming
  <2>1. PICK got : got \subseteq Feed /\ new.held = t.held \cup got
      BY <1>1, <1>2, ToppedUpFacts
  <2>2. Feed \subseteq 0..Forming
      BY <1>2, FeedFacts
  <2>3. new \in Table
      BY <1>1, <1>2, ToppedUpFacts
  <2> HIDE DEF new, t
  <2> QED  BY <1>2, <2>1, <2>2, <2>3
<1>8. HoleInv => HolesIn(new, sk)
    BY <1>1, <1>2, <1>5, TopUpKeepsHoles
<1> HIDE DEF t, new
<1>9. aborted' \in BOOLEAN
    BY <1>1, <1>2
<1>10. CASE SymbolDone(s, new, Refreshed(s, new), sk) /\ UNCHANGED <<failed, faults>>
  <2>1. Worked(s, new, new, sk)
      BY <1>1, <1>2, <1>3, <1>7, <1>8, <1>9, <1>10 DEF Worked, s, t
  <2> QED  BY <2>1 DEF Works, s
<1>11. CASE Fault("nobars") /\ SymbolDone(s, t, Refreshed(s, t), sk) /\ UNCHANGED failed
  <2>1. faults' \in 0..MaxFaults
      BY <1>2, <1>11, FaultCounts
  <2>2. Worked(s, t, t, sk)
      BY <1>1, <1>2, <1>3, <1>5, <1>9, <1>11, <2>1 DEF Worked, s, t
  <2> QED  BY <2>2 DEF Works, s
<1>12. CASE Fault("raise") /\ SymbolDone(s, new, tx.rows[s], sk) /\ failed' = failed \cup {s}
  <2>1. faults' \in 0..MaxFaults
      BY <1>2, <1>12, FaultCounts
  <2>2. tx.rows[s].held \subseteq new.held
      BY <1>2, <1>7
  <2>3. Worked(s, new, tx.rows[s], sk)
      BY <1>1, <1>2, <1>7, <1>8, <1>9, <1>12, <2>1, <2>2 DEF Worked, s, t
  <2> QED  BY <2>3 DEF Works, s
<1> QED  BY <1>4, <1>10, <1>11, <1>12

\* A backfill that runs to its end, and one that an exception ends.
Passes ==
    LET s == Head(todo)
    IN  /\ \E missing \in Requests(End) \cup {{}} :
             /\ IF missing = {} THEN UNCHANGED faults ELSE Fault("nobars")
             /\ SymbolDone(s, Upsert(tx.bars[s], Got(End, missing)),
                           Refreshed(s, Upsert(tx.bars[s], Got(End, missing))),
                           Passed(End, missing, tx.skip[s]))
        /\ UNCHANGED failed

Stopped ==
    LET s == Head(todo)
    IN  /\ Fault("raise")
        /\ \E stop \in Stops(End - History, End) :
             LET got == UNION Chunks(End - History, stop)
             IN  SymbolDone(s, Upsert(tx.bars[s], got), tx.rows[s], tx.skip[s] \ got)
        /\ failed' = failed \cup {s}

LEMMA BackfillCases ==
    ASSUME TypeOK, Backfill
    PROVE  Busy /\ aborted' = aborted /\ (Passes \/ Stopped)
<1>1. Busy /\ aborted' = aborted /\ proc \in {"pump", "backfill"}
    BY DEF Backfill, Busy, TypeOK, PumpTypeOK
<1>2. End = IF proc = "pump" THEN now ELSE until
    BY <1>1 DEF End
<1> QED  BY <1>1, <1>2 DEF Backfill, Passes, Stopped, Requests, Got, Passed

LEMMA PassesWorks ==
    ASSUME TypeOK, PumpInv, Busy, aborted' = aborted, Passes
    PROVE  Works
<1> DEFINE s == Head(todo)
           t == tx.bars[s]
<1>1. Busy /\ aborted' = aborted /\ failed' = failed
    BY DEF Passes
<1>2. /\ s \in Universe /\ todo # <<>> /\ proc # "none" /\ now \in Nat /\ now <= MaxHour
      /\ until \in Nat /\ until <= now
      /\ t \in Table /\ tx.rows[s] \in Table /\ tx.skip[s] \subseteq Market
      /\ t.held \subseteq 0..Forming /\ tx.rows[s].held \subseteq t.held
      /\ failed \subseteq Universe /\ aborted \in BOOLEAN /\ faults \in 0..MaxFaults
    BY <1>1, AtWork
<1>3. proc \in {"pump", "backfill"}
    BY <1>2 DEF TypeOK, PumpTypeOK
<1>4. End = IF proc = "pump" THEN now ELSE until
    BY <1>3 DEF End
<1>5. PICK missing \in Requests(End) \cup {{}} :
          /\ IF missing = {} THEN UNCHANGED faults ELSE Fault("nobars")
          /\ SymbolDone(s, Upsert(t, Got(End, missing)),
                        Refreshed(s, Upsert(t, Got(End, missing))),
                        Passed(End, missing, tx.skip[s]))
    BY DEF Passes
<1> DEFINE got == Got(End, missing)
           new == Upsert(t, got)
           feat == Refreshed(s, new)
           sk == Passed(End, missing, tx.skip[s])
<1>6. End \in Int /\ End <= now
    BY <1>2, <1>4
<1>7. /\ got \subseteq Feed /\ sk \subseteq Market
      /\ History = 0 => got = {}
      /\ History > 0 => \A b \in Market : End - History <= b /\ b <= End => b \in got \cup sk
  <2>1. now \in Nat /\ tx.skip[s] \subseteq Market /\ missing \in Requests(End) \cup {{}}
      BY <1>2, <1>5
  <2> DEFINE old == tx.skip[s]
  <2>2. old \subseteq Market
      BY <2>1
  <2> HIDE DEF End, s, old
  <2>3. /\ Got(End, missing) \subseteq Feed
        /\ Passed(End, missing, old) \subseteq Market
        /\ History = 0 => Got(End, missing) = {}
      BY <1>6, <2>1, <2>2, GotFacts
  <2>4. History > 0 => \A b \in Market : End - History <= b /\ b <= End =>
                           b \in Got(End, missing) \cup Passed(End, missing, old)
      BY <1>6, <2>1, <2>2, GotFacts
  <2> QED  BY <2>3, <2>4 DEF old
<1>8. Reach /\ HoleInv => HolesIn(new, sk)
  <2> SUFFICES ASSUME Reach, HoleInv
               PROVE  HolesIn(new, sk)
      OBVIOUS
  <2>1. HolesIn(t, tx.skip[s])
      BY <1>2, HolesBefore
  <2>2. End <= History + 1
      BY <1>2, <1>6, Settings DEF Reach
  <2> QED  BY <1>2, <1>5, <1>6, <2>1, <2>2, BackfillKeepsHoles
<1> HIDE DEF End, s, got, sk
<1>9. /\ new \in Table /\ new.held = t.held \cup got
      /\ \A b \in new.part : (b \in t.part /\ b \notin got) \/ b = Forming
      /\ got = {} => new = t
  <2>1. got \subseteq Market
      BY <1>2, <1>7, FeedFacts
  <2> HIDE DEF t
  <2> QED  BY <1>2, <2>1, UpsertFacts
<1> HIDE DEF t, new
<1>10. new.held \subseteq 0..Forming
  <2>1. Feed \subseteq 0..Forming
      BY <1>2, FeedFacts
  <2> QED  BY <1>2, <1>7, <1>9, <2>1
<1>11. /\ proc = "pump" => feat = new
       /\ proc = "backfill" => feat = tx.rows[s]
    BY DEF Refreshed
<1> HIDE DEF feat
<1>12. feat \in Table /\ tx.rows[s].held \subseteq feat.held /\ feat.held \subseteq new.held
  <2>1. tx.rows[s].held \subseteq new.held
      BY <1>2, <1>9
  <2> QED  BY <1>2, <1>3, <1>9, <1>11, <2>1
<1>13. faults' \in 0..MaxFaults
    BY <1>2, <1>5, FaultCounts
<1>14. proc = "backfill" /\ History > 0 => Repaired(new, sk)
  <2> SUFFICES ASSUME proc = "backfill", History > 0, NEW b \in Market,
                      until - History <= b, b <= until, b \notin sk
               PROVE  b \in new.held /\ (b \in new.part => b >= until + Offset)
      BY DEF Repaired
  <2>1. End = until
      BY DEF End
  <2>2. b \in got
      BY <1>7, <2>1
  <2>3. Forming >= until + Offset
      BY <1>2, Settings DEF Forming
  <2> QED  BY <1>9, <2>2, <2>3
<1>15. proc = "backfill" /\ History = 0 => new = t /\ feat = tx.rows[s]
    BY <1>7, <1>9, <1>11
<1>16. SymbolDone(s, new, feat, sk)
    BY <1>5 DEF new, feat, sk, got
<1>17. t.held \subseteq new.held
    BY <1>9
<1>18. aborted' \in BOOLEAN
    BY <1>1, <1>2
<1>19. Worked(s, new, feat, sk)
    BY <1>1, <1>2, <1>7, <1>8, <1>9, <1>10, <1>11, <1>12, <1>13, <1>14, <1>15, <1>16, <1>17, <1>18
       DEF Worked, s, t
<1> QED  BY <1>19 DEF Works, s

LEMMA StoppedWorks ==
    ASSUME TypeOK, PumpInv, Busy, aborted' = aborted, Stopped
    PROVE  Works
<1> DEFINE s == Head(todo)
           t == tx.bars[s]
<1>1. /\ s \in Universe /\ todo # <<>> /\ proc # "none" /\ now \in Nat /\ now <= MaxHour
      /\ until \in Nat /\ until <= now
      /\ t \in Table /\ tx.rows[s] \in Table /\ tx.skip[s] \subseteq Market
      /\ t.held \subseteq 0..Forming /\ tx.rows[s].held \subseteq t.held
      /\ failed \subseteq Universe /\ aborted \in BOOLEAN /\ faults \in 0..MaxFaults
    BY AtWork
<1>2. /\ Fault("raise") /\ failed' = failed \cup {s}
    BY DEF Stopped
<1>3. PICK stop \in Stops(End - History, End) :
          LET got == UNION Chunks(End - History, stop)
          IN  SymbolDone(s, Upsert(t, got), tx.rows[s], tx.skip[s] \ got)
    BY DEF Stopped
<1>4. End \in Int /\ End <= now /\ History \in Nat /\ MaxHour \in Nat
    BY <1>1, Settings DEF End
<1> DEFINE got == UNION Chunks(End - History, stop)
           new == Upsert(t, got)
           old == tx.skip[s]
           sk == old \ got
<1>5. HoleInv => HolesIn(t, old)
    BY <1>1, HolesBefore
<1> HIDE DEF s, End, old
<1>6. Reach /\ HoleInv => HolesIn(new, sk)
  <2> SUFFICES ASSUME Reach, HoleInv
               PROVE  HolesIn(new, sk)
      OBVIOUS
  <2>1. End <= History + 1
      BY <1>1, <1>4 DEF Reach
  <2> HIDE DEF t
  <2> QED  BY <1>1, <1>3, <1>4, <1>5, <2>1, StoppedKeepsHoles
<1>7. got \subseteq Feed
  <2>1. stop \in Int /\ End - History \in Int
      BY <1>3, <1>4 DEF Stops
  <2> QED  BY <1>1, <2>1, ChunksCover
<1>8. SymbolDone(s, new, tx.rows[s], sk)
    BY <1>3 DEF old
<1> HIDE DEF got, t
<1>9. new \in Table /\ new.held = t.held \cup got /\ Feed \subseteq 0..Forming
    BY <1>1, <1>7, FeedFacts, UpsertFacts
<1>10. faults' \in 0..MaxFaults
    BY <1>1, <1>2, FaultCounts
<1>11. proc = "backfill" /\ History = 0 => new = t
  <2> SUFFICES ASSUME proc = "backfill", History = 0
               PROVE  FALSE
      OBVIOUS
  <2>1. stop = End
      BY <1>3, <1>4 DEF Stops
  <2>2. stop = End => proc = "pump"
      BY <1>3 DEF Stops
  <2> QED  BY <2>1, <2>2
<1>12. sk \subseteq Market
    BY <1>1 DEF old
<1> HIDE DEF new, sk
<1>13. t.held \subseteq new.held /\ new.held \subseteq 0..Forming /\ tx.rows[s].held \subseteq new.held
    BY <1>1, <1>7, <1>9
<1>14. failed \subseteq failed' /\ failed' \subseteq Universe /\ s \in failed' /\ aborted' \in BOOLEAN
    BY <1>1, <1>2
<1>15. Worked(s, new, tx.rows[s], sk)
    BY <1>1, <1>6, <1>8, <1>9, <1>10, <1>11, <1>12, <1>13, <1>14 DEF Worked, s, t
<1> QED  BY <1>15 DEF Works, s

LEMMA BackfillWorks ==
    ASSUME TypeOK, PumpInv, Backfill
    PROVE  Works
BY BackfillCases, PassesWorks, StoppedWorks

LEMMA FailureWorks ==
    ASSUME TypeOK, PumpInv, SymbolFails
    PROVE  Works
<1> DEFINE s == Head(todo)
           t == tx.bars[s]
<1>1. /\ Busy /\ failed' = failed \cup {s}
      /\ SymbolDone(s, t, tx.rows[s], tx.skip[s])
      /\ UNCHANGED faults \/ Fault("raise") \/ Fault("sql")
      /\ UNCHANGED aborted \/ aborted' = TRUE
    BY DEF SymbolFails
<1>2. /\ s \in Universe /\ todo # <<>> /\ proc # "none"
      /\ t \in Table /\ tx.rows[s] \in Table /\ tx.skip[s] \subseteq Market
      /\ t.held \subseteq 0..Forming /\ tx.rows[s].held \subseteq t.held
      /\ failed \subseteq Universe /\ aborted \in BOOLEAN /\ faults \in 0..MaxFaults
    BY <1>1, AtWork
<1>3. HoleInv => HolesIn(t, tx.skip[s])
    BY <1>2, HolesBefore
<1>4. faults' \in 0..MaxFaults
    BY <1>1, <1>2, FaultCounts
<1>5. aborted' \in BOOLEAN
  <2>1. TRUE \in BOOLEAN
      OBVIOUS
  <2> QED  BY <1>1, <1>2, <2>1, Zenon
<1>6. Worked(s, t, tx.rows[s], tx.skip[s])
    BY <1>1, <1>2, <1>3, <1>4, <1>5 DEF Worked
<1> QED  BY <1>6 DEF Works

\* What a job has done for one symbol leaves the others as they are.
LEMMA WorkedTables ==
    ASSUME TypeOK, PumpInv, NEW table, NEW feat, NEW skip, Worked(Head(todo), table, feat, skip)
    PROVE  LET s == Head(todo)
           IN  /\ s \in Universe /\ todo' \in Seq(Universe)
               /\ \A u \in Universe : u \in Left => u = s \/ u \in Left'
               /\ tx'.bars = [tx.bars EXCEPT ![s] = table]
               /\ tx'.rows = [tx.rows EXCEPT ![s] = feat]
               /\ tx'.skip = [tx.skip EXCEPT ![s] = skip]
               /\ tx' \in [bars : [Universe -> Table], rows : [Universe -> Table],
                           skip : [Universe -> SUBSET Market]]
               /\ tx'.bars[s] = table /\ tx'.rows[s] = feat /\ tx'.skip[s] = skip
               /\ \A u \in Universe : u # s => /\ tx'.bars[u] = tx.bars[u]
                                               /\ tx'.rows[u] = tx.rows[u]
                                               /\ tx'.skip[u] = tx.skip[u]
<1> DEFINE s == Head(todo)
           Tx == [bars : [Universe -> Table], rows : [Universe -> Table],
                  skip : [Universe -> SUBSET Market]]
<1>1. todo \in Seq(Universe) /\ todo # <<>> /\ tx \in Tx
    BY DEF TypeOK, PumpTypeOK, Worked
<1>2. /\ s \in Universe /\ Tail(todo) \in Seq(Universe)
      /\ \A k \in DOMAIN todo : todo[k] = s \/ \E j \in DOMAIN Tail(todo) : Tail(todo)[j] = todo[k]
    BY <1>1, HeadAndRest
<1>3. tx' = [tx EXCEPT !.bars[s] = table, !.rows[s] = feat, !.skip[s] = skip] /\ todo' = Tail(todo)
      /\ table \in Table /\ feat \in Table /\ skip \subseteq Market
    BY DEF Worked, SymbolDone
<1> HIDE DEF s
<1>4. /\ tx.bars \in [Universe -> Table] /\ tx.rows \in [Universe -> Table]
      /\ tx.skip \in [Universe -> SUBSET Market]
      /\ tx = [bars |-> tx.bars, rows |-> tx.rows, skip |-> tx.skip]
    BY <1>1
<1>5. /\ tx' = [bars |-> [tx.bars EXCEPT ![s] = table], rows |-> [tx.rows EXCEPT ![s] = feat],
                skip |-> [tx.skip EXCEPT ![s] = skip]]
    BY <1>3, <1>4
<1>6. /\ [tx.bars EXCEPT ![s] = table] \in [Universe -> Table]
      /\ [tx.rows EXCEPT ![s] = feat] \in [Universe -> Table]
      /\ [tx.skip EXCEPT ![s] = skip] \in [Universe -> SUBSET Market]
    BY <1>3, <1>4
<1>7. tx' \in Tx
    BY <1>5, <1>6
<1>8. \A u \in Universe : u \in Left => u = s \/ u \in Left'
    BY <1>2, <1>3 DEF Left
<1>9. /\ tx'.bars[s] = table /\ tx'.rows[s] = feat /\ tx'.skip[s] = skip
      /\ \A u \in Universe : u # s => /\ tx'.bars[u] = tx.bars[u]
                                      /\ tx'.rows[u] = tx.rows[u]
                                      /\ tx'.skip[u] = tx.skip[u]
    BY <1>2, <1>4, <1>5
<1> QED  BY <1>2, <1>3, <1>5, <1>7, <1>8, <1>9 DEF s

LEMMA WorksStep ==
    ASSUME TypeOK, PumpInv, Works
    PROVE  PumpTypeOK' /\ PumpInv' /\ (Reach /\ HoleInv => HoleInv')
<1> DEFINE s == Head(todo)
<1>1. PICK table, feat, skip : Worked(s, table, feat, skip)
    BY DEF Works
<1>2. /\ UNCHANGED <<now, bars, rows, skipped, proc, until>>
      /\ proc # "none"
      /\ failed \subseteq failed' /\ failed' \subseteq Universe
      /\ faults' \in 0..MaxFaults /\ aborted' \in BOOLEAN
    BY <1>1 DEF Worked, SymbolDone, dbVars
<1>3. /\ s \in Universe /\ todo' \in Seq(Universe)
      /\ \A u \in Universe : u \in Left => u = s \/ u \in Left'
      /\ tx'.bars = [tx.bars EXCEPT ![s] = table]
      /\ tx'.rows = [tx.rows EXCEPT ![s] = feat]
      /\ tx' \in [bars : [Universe -> Table], rows : [Universe -> Table],
                  skip : [Universe -> SUBSET Market]]
      /\ tx'.bars[s] = table /\ tx'.rows[s] = feat /\ tx'.skip[s] = skip
      /\ \A u \in Universe : u # s => /\ tx'.bars[u] = tx.bars[u]
                                      /\ tx'.rows[u] = tx.rows[u]
                                      /\ tx'.skip[u] = tx.skip[u]
    BY <1>1, WorkedTables
<1>4. /\ tx.bars[s].held \subseteq table.held /\ table.held \subseteq 0..Forming
      /\ tx.rows[s].held \subseteq feat.held /\ feat.held \subseteq table.held
      /\ \/ s \in failed'
         \/ /\ proc = "pump" => feat = table
            /\ proc = "backfill" /\ History > 0 => Repaired(table, skip)
      /\ proc = "backfill" /\ History = 0 => table = tx.bars[s] /\ feat = tx.rows[s]
      /\ Reach /\ HoleInv => HolesIn(table, skip)
    BY <1>1 DEF Worked
<1> HIDE DEF s
<1>5. PumpTypeOK /\ JobInv /\ FeedInv /\ GrowInv /\ WorkInv
    BY DEF TypeOK, PumpInv
<1>6. PumpTypeOK'
    BY <1>2, <1>3, <1>5 DEF PumpTypeOK
<1>7. Forming' = Forming
    BY <1>2 DEF Forming
<1>8. JobInv'
    BY <1>2, <1>5 DEF JobInv
<1>9. FeedInv'
  <2>1. ASSUME NEW u \in Universe
        PROVE  /\ tx'.bars[u].held \subseteq 0..Forming
               /\ rows[u].held \subseteq bars[u].held /\ tx'.rows[u].held \subseteq tx'.bars[u].held
      BY <1>3, <1>4, <1>5 DEF FeedInv
  <2> QED  BY <1>2, <1>7, <2>1 DEF FeedInv
<1>10. GrowInv'
  <2>1. ASSUME NEW u \in Universe
        PROVE  bars[u].held \subseteq tx'.bars[u].held /\ rows[u].held \subseteq tx'.rows[u].held
      BY <1>3, <1>4, <1>5 DEF GrowInv
  <2> QED  BY <1>2, <2>1 DEF GrowInv
<1>11. WorkInv'
  <2>1. ASSUME NEW u \in Universe
        PROVE  u \in failed' \/ u \in Left' \/ Owed(u)'
    <3>1. CASE u = s
      <4>1. proc = "pump" \/ proc = "backfill"
          BY <1>2, <1>5 DEF PumpTypeOK
      <4>2. CASE s \in failed'
          BY <3>1, <4>2
      <4>3. CASE proc = "pump" /\ feat = table
          BY <1>2, <1>3, <3>1, <4>3 DEF Owed
      <4>4. CASE proc = "backfill" /\ (History > 0 => Repaired(table, skip))
        <5>1. proc' = "backfill" /\ proc' # "pump"
            BY <1>2, <4>4
        <5>2. tx'.bars[u] = table /\ tx'.skip[u] = skip
            BY <1>3, <3>1
        <5>3. Repaired(table, skip) => Repaired(tx.bars[u], tx.skip[u])'
            BY <1>2, <5>2 DEF Repaired
        <5> QED  BY <4>4, <5>1, <5>3 DEF Owed
      <4> QED  BY <1>4, <4>1, <4>2, <4>3, <4>4
    <3>2. CASE u # s
      <4>1. u \in failed \/ u \in Left \/ Owed(u)
          BY <1>5 DEF WorkInv
      <4>2. /\ tx'.bars[u] = tx.bars[u] /\ tx'.rows[u] = tx.rows[u] /\ tx'.skip[u] = tx.skip[u]
          BY <1>3, <3>2
      <4>3. Owed(u)' <=> Owed(u)
          BY <1>2, <4>2 DEF Owed, Repaired
      <4> QED  BY <1>2, <1>3, <3>2, <4>1, <4>3
    <3> QED  BY <3>1, <3>2
  <2>2. proc = "backfill" /\ History = 0 => tx'.bars = bars /\ tx'.rows = rows
    <3> SUFFICES ASSUME proc = "backfill", History = 0
                 PROVE  tx'.bars = bars /\ tx'.rows = rows
        OBVIOUS
    <3>1. tx.bars = bars /\ tx.rows = rows /\ table = tx.bars[s] /\ feat = tx.rows[s]
        BY <1>4, <1>5 DEF WorkInv
    <3>2. bars \in [Universe -> Table] /\ rows \in [Universe -> Table]
        BY <1>5 DEF PumpTypeOK
    <3>3. [bars EXCEPT ![s] = bars[s]] = bars /\ [rows EXCEPT ![s] = rows[s]] = rows
        BY <3>2
    <3> QED  BY <1>3, <3>1, <3>3
  <2> QED  BY <1>2, <2>1, <2>2 DEF WorkInv
<1>12. ASSUME Reach, HoleInv
       PROVE  HoleInv'
  <2>1. ASSUME NEW u \in Universe
        PROVE  HolesIn(tx'.bars[u], tx'.skip[u])
    <3>1. HolesIn(tx.bars[u], tx.skip[u])
        BY <1>12, HolesBefore
    <3> QED  BY <1>3, <1>4, <1>12, <3>1
  <2>2. ASSUME NEW u \in Universe
        PROVE  HolesIn(bars[u], skipped[u])
      BY <1>12 DEF HoleInv
  <2> QED  BY <1>2, <2>1, <2>2 DEF HoleInv
<1> QED  BY <1>6, <1>8, <1>9, <1>10, <1>11, <1>12 DEF PumpInv

LEMMA CommittedType ==
    ASSUME PumpTypeOK
    PROVE  /\ Committed.bars = bars /\ Committed.rows = rows /\ Committed.skip = skipped
           /\ Committed \in [bars : [Universe -> Table], rows : [Universe -> Table],
                             skip : [Universe -> SUBSET Market]]
BY DEF PumpTypeOK, Committed

\* A new transaction starts with what is committed.
LEMMA StartStep ==
    ASSUME TypeOK, PumpInv, NEW job \in {"pump", "backfill"}, Start(job)
    PROVE  PumpTypeOK' /\ PumpInv' /\ (HoleInv => HoleInv')
<1>1. PumpTypeOK /\ JobInv /\ FeedInv /\ GrowInv
    BY DEF TypeOK, PumpInv
<1>2. /\ UNCHANGED <<now, bars, rows, skipped, faults>> /\ proc' = job
      /\ until' = now /\ todo' = Symbols /\ tx' = Committed /\ aborted' = FALSE /\ failed' = {}
      /\ proc = "none" /\ tx = Committed
    BY <1>1 DEF Start, dbVars, JobInv
<1>3. now \in 0..MaxHour /\ Symbols \in Seq(Universe)
    BY <1>1, Settings DEF PumpTypeOK
<1>4. aborted' \in BOOLEAN /\ failed' \subseteq Universe /\ proc' \in {"none", "pump", "backfill"}
    BY <1>2
<1>5. PumpTypeOK'
    BY <1>1, <1>2, <1>3, <1>4, CommittedType DEF PumpTypeOK
<1>6. JobInv'
    BY <1>2, <1>3 DEF JobInv
<1>7. FeedInv' /\ GrowInv'
    BY <1>1, <1>2 DEF FeedInv, GrowInv, Forming
<1>8. WorkInv'
  <2>1. \A u \in Universe : u \in Left'
      BY <1>2 DEF Universe, Left
  <2>2. tx'.bars = bars' /\ tx'.rows = rows'
      BY <1>1, <1>2, CommittedType
  <2> QED  BY <2>1, <2>2 DEF WorkInv
<1>9. ASSUME HoleInv
      PROVE  HoleInv'
  <2> QED  BY <1>2, <1>9 DEF HoleInv
<1> QED  BY <1>5, <1>6, <1>7, <1>8, <1>9 DEF PumpInv

\* A job ends with what it has committed, all of it or nothing.
LEMMA EndStep ==
    ASSUME TypeOK, PumpInv, Finish \/ Kill
    PROVE  /\ PumpTypeOK' /\ PumpInv' /\ (HoleInv => HoleInv')
           /\ \/ bars' = bars /\ rows' = rows /\ skipped' = skipped
              \/ ~aborted /\ bars' = tx.bars /\ rows' = tx.rows /\ skipped' = tx.skip
<1>1. PumpTypeOK /\ JobInv /\ FeedInv /\ GrowInv
    BY DEF TypeOK, PumpInv
<1>2. /\ proc' = "none" /\ until' = 0 /\ tx' = Committed' /\ aborted' = FALSE /\ failed' = {}
      /\ now' = now /\ todo' = <<>>
    BY DEF Finish, Kill, Ended
<1>3. \/ bars' = bars /\ rows' = rows /\ skipped' = skipped
      \/ ~aborted /\ bars' = tx.bars /\ rows' = tx.rows /\ skipped' = tx.skip
  <2>1. CASE Finish
    <3>1. Commit
        BY <2>1 DEF Finish
    <3>2. UNCHANGED <<bars, rows, skipped>> \/ (~aborted /\ Save)
        BY <3>1, Zenon DEF Commit
    <3>3. CASE UNCHANGED <<bars, rows, skipped>>
        BY <3>3
    <3>4. CASE ~aborted /\ Save
        BY <3>4, Zenon DEF Save
    <3> QED  BY <3>2, <3>3, <3>4
  <2>2. CASE Kill
    <3>1. bars' = bars /\ rows' = rows /\ skipped' = skipped
        BY <2>2 DEF Kill, dbVars
    <3> QED  BY <3>1, Zenon
  <2> QED  BY <2>1, <2>2, Zenon
<1>4. /\ bars' \in [Universe -> Table] /\ rows' \in [Universe -> Table]
      /\ skipped' \in [Universe -> SUBSET Market]
    BY <1>1, <1>3 DEF PumpTypeOK
<1>5. faults' \in 0..MaxFaults
    BY <1>1, FaultCounts DEF PumpTypeOK, Finish, Kill
<1>6. 0 \in 0..MaxHour /\ now \in 0..MaxHour /\ <<>> \in Seq(Universe)
    BY <1>1, Settings DEF PumpTypeOK
<1>7. tx' = [bars |-> bars', rows |-> rows', skip |-> skipped']
    BY <1>2 DEF Committed
<1>8. aborted' \in BOOLEAN /\ failed' \subseteq Universe /\ proc' \in {"none", "pump", "backfill"}
    BY <1>2
<1>9. PumpTypeOK'
    BY <1>2, <1>4, <1>5, <1>6, <1>7, <1>8 DEF PumpTypeOK
<1>10. tx'.bars = bars' /\ tx'.rows = rows' /\ tx'.skip = skipped'
    BY <1>7
<1>11. JobInv'
    BY <1>2, <1>6 DEF JobInv
<1>12. ASSUME NEW u \in Universe
       PROVE  bars'[u].held \subseteq 0..Forming /\ rows'[u].held \subseteq bars'[u].held
  <2>1. bars[u].held \subseteq tx.bars[u].held /\ tx.bars[u].held \subseteq 0..Forming
        /\ rows[u].held \subseteq bars[u].held /\ tx.rows[u].held \subseteq tx.bars[u].held
      BY <1>1 DEF FeedInv, GrowInv
  <2> QED  BY <1>3, <2>1
<1>13. FeedInv' /\ GrowInv'
  <2>1. Forming' = Forming
      BY <1>2 DEF Forming
  <2> QED  BY <1>10, <1>12, <2>1 DEF FeedInv, GrowInv
<1>14. WorkInv'
    BY <1>2 DEF WorkInv, Owed
<1>15. ASSUME HoleInv
       PROVE  HoleInv'
  <2>1. ASSUME NEW u \in Universe
        PROVE  HolesIn(bars'[u], skipped'[u])
      BY <1>3, <1>15 DEF HoleInv
  <2> QED  BY <1>10, <2>1 DEF HoleInv
<1> QED  BY <1>3, <1>9, <1>11, <1>13, <1>14, <1>15 DEF PumpInv

LEMMA TickStep ==
    ASSUME TypeOK, PumpInv, Tick
    PROVE  PumpTypeOK' /\ PumpInv' /\ (HoleInv => HoleInv')
<1>1. PumpTypeOK /\ JobInv /\ FeedInv /\ GrowInv /\ WorkInv
    BY DEF TypeOK, PumpInv
<1>2. /\ now < MaxHour /\ now' = now + 1
      /\ UNCHANGED <<bars, rows, proc, until, todo, tx, aborted, failed, skipped, faults>>
    BY DEF Tick, dbVars, jobVars
<1>3. now \in Nat /\ now' \in 0..MaxHour /\ now <= now' /\ until \in Nat /\ Offset \in Nat
    BY <1>1, <1>2, Settings DEF PumpTypeOK
<1>4. PumpTypeOK'
    BY <1>1, <1>2, <1>3 DEF PumpTypeOK
<1>5. JobInv'
    BY <1>1, <1>2, <1>3 DEF JobInv, Committed
<1>6. FeedInv'
  <2>1. 0..Forming \subseteq 0..Forming'
      BY <1>2, <1>3 DEF Forming
  <2> QED  BY <1>1, <1>2, <2>1 DEF FeedInv
<1>7. GrowInv' /\ WorkInv'
    BY <1>1, <1>2 DEF GrowInv, WorkInv, Left, Owed, Repaired
<1>8. ASSUME HoleInv
      PROVE  HoleInv'
    BY <1>2, <1>8 DEF HoleInv
<1> QED  BY <1>4, <1>5, <1>6, <1>7, <1>8 DEF PumpInv

\* Every step of the pump keeps its invariant, and the holes explained.
LEMMA PumpStep ==
    ASSUME TypeOK, PumpInv, PumpNext \/ UNCHANGED pumpVars
    PROVE  PumpTypeOK' /\ PumpInv' /\ (Reach /\ HoleInv => HoleInv')
<1>1. CASE \E job \in {"pump", "backfill"} : Start(job)
    BY <1>1, StartStep
<1>2. CASE TopUp \/ Backfill \/ SymbolFails
    BY <1>2, TopUpWorks, BackfillWorks, FailureWorks, WorksStep
<1>3. CASE Finish \/ Kill
    BY <1>3, EndStep
<1>4. CASE Tick
    BY <1>4, TickStep
<1>5. CASE UNCHANGED pumpVars
    BY <1>5 DEF TypeOK, PumpTypeOK, PumpInv, JobInv, FeedInv, GrowInv, WorkInv, HoleInv, Left, Owed,
                Repaired, Forming, Committed, pumpVars, dbVars, jobVars
<1> QED  BY <1>1, <1>2, <1>3, <1>4, <1>5 DEF PumpNext, Job

(***************************************************************************)
(* The steps of the memory.                                                *)
(***************************************************************************)
LEMMA RowsStep ==
    ASSUME TypeOK, PumpInv, [Next]_vars
    PROVE  rows' = rows \/ rows' = tx.rows
<1>1. CASE Finish \/ Kill
    BY <1>1, EndStep
<1>2. CASE UNCHANGED pumpVars
    BY <1>2 DEF pumpVars, dbVars
<1>3. CASE \E job \in {"pump", "backfill"} : Start(job)
    BY <1>3 DEF Start, dbVars
<1>4. CASE TopUp \/ Backfill \/ SymbolFails
    BY <1>4, TopUpWorks, BackfillWorks, FailureWorks DEF Works, Worked, SymbolDone, dbVars
<1>5. CASE Tick
    BY <1>5 DEF Tick, dbVars
<1>6. CASE BuildFails
    BY <1>6 DEF BuildFails, dbVars
<1> QED
    BY <1>1, <1>2, <1>3, <1>4, <1>5, <1>6
       DEF Next, PumpNext, Job, Fetch, Fit, Recreate, Write, LoadBrain, RestartTrader, vars

\* Once labelled, always labelled: rows are only added.
LEMMA LabelledGrows ==
    ASSUME TypeOK, PumpInv, FeedInv', GrowInv', now' \in Nat, [Next]_vars
    PROVE  Labelled \subseteq Labelled'
<1>1. rows' = rows \/ rows' = tx.rows
    BY RowsStep
<1>2. \A s \in Universe : rows[s].held \subseteq rows'[s].held
    BY <1>1 DEF PumpInv, GrowInv
<1>3. \A s \in Universe : rows'[s].held \subseteq 0..Forming'
    BY DEF FeedInv, GrowInv
<1>4. IsFiniteSet(0..Forming')
  <2>1. Forming' \in Int
      BY Settings DEF Forming
  <2> QED  BY <2>1, FS_Interval
<1>5. ASSUME NEW p \in Points, p[2] \in rows[p[1]].held, Cardinality(Later(p)) >= LabelBars
      PROVE  p[2] \in rows'[p[1]].held /\ Cardinality(Later(p)') >= LabelBars
  <2>1. p[1] \in Universe
      BY DEF Points
  <2>2. Later(p) \subseteq Later(p)' /\ Later(p)' \subseteq 0..Forming'
      BY <1>2, <1>3, <2>1 DEF Later
  <2> DEFINE l == Later(p)
             m == Later(p)'
  <2>3. l \subseteq m /\ IsFiniteSet(m)
      BY <1>4, <2>2, FS_Subset
  <2>4. Cardinality(l) >= LabelBars
      BY <1>5
  <2> HIDE DEF l, m
  <2>5. Cardinality(m) \in Nat /\ Cardinality(l) \in Nat /\ Cardinality(l) <= Cardinality(m)
      BY <2>3, FS_Subset, FS_CardinalityType
  <2>6. Cardinality(m) >= LabelBars
      BY <2>4, <2>5, Settings
  <2> QED  BY <1>2, <1>5, <2>1, <2>6 DEF m
<1> QED  BY <1>5 DEF Labelled

LEMMA InitInv == Init => IInv /\ HoleInv
<1> SUFFICES ASSUME Init
             PROVE  IInv /\ HoleInv
    OBVIOUS
<1>1. /\ now = 0 /\ proc = "none" /\ until = 0 /\ todo = <<>> /\ tx = Committed /\ aborted = FALSE
      /\ failed = {} /\ faults = 0
      /\ bars = [s \in Universe |-> Empty] /\ rows = [s \in Universe |-> Empty]
      /\ skipped = [s \in Universe |-> {}]
    BY DEF Init, PumpInit
<1>2. Empty \in Table /\ Empty.held = {}
    BY DEF Empty, Table
<1>3. tx.bars = bars /\ tx.rows = rows /\ tx.skip = skipped
    BY <1>1 DEF Committed
<1>4. aborted \in BOOLEAN /\ whole \in BOOLEAN
  <2>1. FALSE \in BOOLEAN /\ aborted = FALSE /\ whole = FALSE
      BY DEF Init, PumpInit
  <2> QED  BY <2>1, Zenon
<1>5. PumpTypeOK
  <2>1. <<>> \in Seq(Universe) /\ 0 \in 0..MaxHour /\ 0 \in 0..MaxFaults
      BY Settings
  <2> QED  BY <1>1, <1>2, <1>4, <2>1 DEF PumpTypeOK, Committed
<1>6. PumpInv
    BY <1>1, <1>2, <1>3 DEF PumpInv, JobInv, FeedInv, GrowInv, WorkInv, Owed
<1>7. HoleInv
    BY <1>1, <1>2, <1>3 DEF HoleInv, HolesIn
<1>8. /\ build = 0 /\ step = "idle" /\ fetched = {} /\ encFile = 0 /\ coll = <<>> /\ whole = FALSE
      /\ brain = 0
    BY DEF Init
<1>9. DOMAIN coll = {} /\ coll \in [{} -> 1..MaxBuilds]
    BY <1>8
<1>10. 0 \in 0..MaxBuilds /\ {} \in SUBSET Points
    BY Settings
<1>11. TypeOK
    BY <1>4, <1>5, <1>8, <1>9, <1>10 DEF TypeOK
<1>12. PointsInv /\ BuildInv
    BY <1>8, <1>9 DEF PointsInv, BuildInv
<1> QED  BY <1>6, <1>7, <1>11, <1>12 DEF IInv

\* What the memory's steps leave of the pump.
LEMMA PumpPart ==
    ASSUME TypeOK, PumpInv, [Next]_vars
    PROVE  PumpTypeOK' /\ PumpInv' /\ (Reach /\ HoleInv => HoleInv')
<1>1. CASE PumpNext \/ UNCHANGED pumpVars
    BY <1>1, PumpStep
<1>2. CASE BuildFails
  <2>1. /\ UNCHANGED <<now, bars, rows, proc, until, todo, tx, aborted, failed, skipped>>
        /\ Fault("raise")
      BY <1>2 DEF BuildFails, dbVars, jobVars
  <2>2. PumpTypeOK /\ PumpInv
      BY DEF TypeOK
  <2>3. faults' \in 0..MaxFaults
      BY <2>1, <2>2, FaultCounts DEF PumpTypeOK
  <2>4. PumpTypeOK'
      BY <2>1, <2>2, <2>3 DEF PumpTypeOK
  <2>5. PumpInv'
      BY <2>1, <2>2 DEF PumpInv, JobInv, FeedInv, GrowInv, WorkInv, Left, Owed, Repaired, Forming,
                        Committed
  <2>6. HoleInv => HoleInv'
      BY <2>1 DEF HoleInv
  <2> QED  BY <2>4, <2>5, <2>6
<1> QED  BY <1>1, <1>2 DEF Next, Fetch, Fit, Recreate, Write, LoadBrain, RestartTrader, vars

\* What the builder and the trader keep.
MemTypeOK ==
    /\ build \in 0..MaxBuilds
    /\ step \in {"idle", "fit", "recreate", "write"}
    /\ fetched \subseteq Points
    /\ encFile \in 0..MaxBuilds
    /\ \E ps \in SUBSET Points : coll \in [ps -> 1..MaxBuilds]
    /\ whole \in BOOLEAN
    /\ brain \in 0..MaxBuilds

\* One batch: each of its points has the encoder of this build, the others theirs.
LEMMA WriteStep ==
    ASSUME IInv, NEW upTo \in Market, Write(upTo), Labelled \subseteq Labelled'
    PROVE  MemTypeOK' /\ PointsInv' /\ BuildInv'
<1> DEFINE batch == {p \in fetched : p[2] <= upTo}
<1>1. /\ step = "write" /\ batch # {}
      /\ coll' = [p \in batch \cup DOMAIN coll |-> IF p \in batch THEN build ELSE coll[p]]
      /\ fetched' = fetched \ batch
      /\ step' = IF batch = fetched THEN "idle" ELSE "write"
      /\ whole' = (batch = fetched)
      /\ UNCHANGED <<build, encFile, brain>>
    BY DEF Write, Upserted
<1>2. batch \subseteq fetched
    OBVIOUS
<1> HIDE DEF batch
<1>3. /\ build \in 0..MaxBuilds /\ fetched \subseteq Points /\ encFile \in 0..MaxBuilds
      /\ brain \in 0..MaxBuilds
      /\ \E ps \in SUBSET Points : coll \in [ps -> 1..MaxBuilds]
    BY DEF IInv, TypeOK
<1>4. /\ DOMAIN coll \subseteq Labelled /\ fetched \subseteq Labelled
      /\ \A p \in DOMAIN coll : p \in fetched \/ coll[p] = build
      /\ encFile = build /\ build >= 1
    BY <1>1 DEF IInv, PointsInv, BuildInv
<1>5. DOMAIN coll \subseteq Points /\ \A p \in DOMAIN coll : coll[p] \in 1..MaxBuilds
    BY <1>3
<1>6. build \in 1..MaxBuilds
    BY <1>3, <1>4, Settings
<1>7. DOMAIN coll' = batch \cup DOMAIN coll
      /\ \A p \in DOMAIN coll' : coll'[p] = IF p \in batch THEN build ELSE coll[p]
    BY <1>1
<1>8. coll' \in [batch \cup DOMAIN coll -> 1..MaxBuilds] /\ batch \cup DOMAIN coll \in SUBSET Points
    BY <1>1, <1>2, <1>3, <1>5, <1>6
<1>9. whole' \in BOOLEAN
  <2>1. (batch = fetched) \in BOOLEAN
      OBVIOUS
  <2>2. whole' = (batch = fetched)
      BY <1>1
  <2> QED  BY <2>1, <2>2
<1>10. step' \in {"idle", "write"} /\ (step' = "idle" <=> batch = fetched)
    BY <1>1
<1>11. MemTypeOK'
    BY <1>1, <1>2, <1>3, <1>8, <1>9, <1>10 DEF MemTypeOK
<1>12. \A p \in DOMAIN coll' : p \in fetched' \/ coll'[p] = build
    BY <1>1, <1>2, <1>4, <1>7
<1>13. PointsInv'
  <2>1. DOMAIN coll' \subseteq Labelled' /\ fetched' \subseteq Labelled'
      BY <1>1, <1>2, <1>4, <1>7
  <2> QED  BY <1>1, <1>10, <1>12, <2>1 DEF PointsInv
<1>14. CASE batch = fetched
  <2>1. fetched' = {} /\ step' = "idle"
      BY <1>1, <1>14
  <2>2. \A p \in DOMAIN coll' : coll'[p] = build
      BY <1>12, <2>1
  <2> QED  BY <1>1, <1>4, <1>11, <1>13, <2>1, <2>2 DEF BuildInv
<1>15. CASE batch # fetched
  <2>1. ~whole'
      BY <1>1, <1>15
  <2> QED  BY <1>1, <1>4, <1>10, <1>11, <1>13, <2>1 DEF BuildInv
<1> QED  BY <1>14, <1>15

LEMMA MemoryStep ==
    ASSUME IInv, [Next]_vars, Labelled \subseteq Labelled'
    PROVE  MemTypeOK' /\ PointsInv' /\ BuildInv'
<1>1. MemTypeOK /\ PointsInv /\ BuildInv
    BY DEF IInv, TypeOK, MemTypeOK
<1>2. MaxBuilds \in Nat
    BY Settings
<1>3. CASE UNCHANGED memVars
    BY <1>1, <1>3 DEF MemTypeOK, PointsInv, BuildInv, memVars
<1>4. CASE Fetch
  <2>1. /\ build < MaxBuilds /\ build' = build + 1 /\ fetched' = Labelled /\ step' = "fit"
        /\ UNCHANGED <<encFile, coll, brain>> /\ Labelled \subseteq Points
      BY <1>4 DEF Fetch, Labelled
  <2>2. whole' = FALSE /\ FALSE \in BOOLEAN
      BY <1>4 DEF Fetch
  <2>3. whole' \in BOOLEAN /\ ~whole'
      BY <2>2, Zenon
  <2>4. build' \in 0..MaxBuilds /\ build' >= 1
      BY <1>1, <1>2, <2>1 DEF MemTypeOK
  <2>5. DOMAIN coll \subseteq Labelled
      BY <1>1 DEF PointsInv
  <2> QED  BY <1>1, <2>1, <2>3, <2>4, <2>5 DEF MemTypeOK, PointsInv, BuildInv
<1>5. CASE Fit
  <2>1. /\ step = "fit" /\ encFile' = build /\ step' = "recreate"
        /\ UNCHANGED <<build, fetched, coll, whole, brain>>
      BY <1>5 DEF Fit
  <2>2. MemTypeOK'
      BY <1>1, <2>1 DEF MemTypeOK
  <2> QED  BY <1>1, <2>1, <2>2 DEF PointsInv, BuildInv
<1>6. ASSUME NEW recreate \in BOOLEAN, Recreate(recreate)
      PROVE  MemTypeOK' /\ PointsInv' /\ BuildInv'
  <2>1. /\ step = "recreate" /\ step' = "write"
        /\ UNCHANGED <<build, fetched, encFile, whole, brain>>
      BY <1>6 DEF Recreate
  <2>2. coll' = <<>> \/ coll' = coll
      BY <1>6 DEF Recreate
  <2>3. CASE coll' = coll
    <3>1. MemTypeOK'
        BY <1>1, <2>1, <2>3 DEF MemTypeOK
    <3> QED  BY <1>1, <2>1, <2>3, <3>1 DEF PointsInv, BuildInv
  <2>4. CASE coll' = <<>>
    <3>1. DOMAIN coll' = {} /\ coll' \in [{} -> 1..MaxBuilds] /\ {} \in SUBSET Points
        BY <2>4
    <3>2. MemTypeOK'
        BY <1>1, <2>1, <3>1 DEF MemTypeOK
    <3> QED  BY <1>1, <2>1, <3>1, <3>2 DEF PointsInv, BuildInv
  <2> QED  BY <2>2, <2>3, <2>4
<1>7. ASSUME NEW upTo \in Market, Write(upTo)
      PROVE  MemTypeOK' /\ PointsInv' /\ BuildInv'
    BY <1>7, WriteStep
<1>8. CASE BuildFails
  <2>1. /\ step # "idle" /\ step' = "idle" /\ fetched' = {}
        /\ UNCHANGED <<build, encFile, coll, whole, brain>>
      BY <1>8 DEF BuildFails
  <2>2. MemTypeOK'
      BY <1>1, <2>1 DEF MemTypeOK
  <2> QED  BY <1>1, <2>1, <2>2 DEF PointsInv, BuildInv
<1>9. CASE LoadBrain \/ RestartTrader
  <2>1. /\ UNCHANGED <<build, step, fetched, encFile, coll, whole>>
        /\ brain' = encFile \/ brain' = 0
      BY <1>9 DEF LoadBrain, RestartTrader
  <2>2. brain' \in 0..MaxBuilds
      BY <1>1, <1>2, <2>1 DEF MemTypeOK
  <2>3. MemTypeOK'
      BY <1>1, <2>1, <2>2 DEF MemTypeOK
  <2> QED  BY <1>1, <2>1, <2>3 DEF PointsInv, BuildInv
<1> QED  BY <1>3, <1>4, <1>5, <1>6, <1>7, <1>8, <1>9 DEF Next, vars

LEMMA InvStep ==
    ASSUME IInv, [Next]_vars
    PROVE  IInv' /\ (Reach /\ HoleInv => HoleInv')
<1>1. PumpTypeOK' /\ PumpInv' /\ (Reach /\ HoleInv => HoleInv')
    BY PumpPart DEF IInv
<1>2. now' \in Nat
    BY <1>1, Settings DEF PumpTypeOK
<1>3. Labelled \subseteq Labelled'
    BY <1>1, <1>2, LabelledGrows DEF IInv, PumpInv
<1>4. MemTypeOK' /\ PointsInv' /\ BuildInv'
    BY <1>3, MemoryStep
<1> QED  BY <1>1, <1>4 DEF IInv, TypeOK, MemTypeOK

(***************************************************************************)
(* The theorems.                                                           *)
(***************************************************************************)
\* In every reachable state: transactions only add, no table is ahead of the terminal,
\* a job has paid what it owes for every symbol it has done, every point is labelled,
\* and a build in progress has every old point still before it.
THEOREM MemoryKept == Spec => []IInv
<1>1. Init => IInv
    BY InitInv
<1>2. IInv /\ [Next]_vars => IInv'
    BY InvStep
<1> QED  BY <1>1, <1>2, PTL DEF Spec

\* Every variable keeps its type.
THEOREM TypeCorrect == Spec => []TypeOK
<1>1. IInv => TypeOK
    BY DEF IInv
<1> QED  BY <1>1, MemoryKept, PTL

\* At any offset of the broker's clock the stored history has no hole but where a
\* request of a backfill returned nothing, and behind a stored bar as many hours as
\* the offset exceeds two, as long as a backfill reaches back to where the history
\* begins.
THEOREM HolesExplained ==
    ASSUME Reach
    PROVE  Spec => []HolesAccountedFor
<1>1. Init => IInv /\ HoleInv
    BY InitInv
<1>2. (IInv /\ HoleInv) /\ [Next]_vars => (IInv /\ HoleInv)'
    BY InvStep
<1>3. IInv /\ HoleInv => HolesAccountedFor
  <2> SUFFICES ASSUME IInv, HoleInv, NEW s \in Universe, NEW b \in Holes(s)
               PROVE  b \in skipped[s] \/ Outrun(bars[s], b)
      BY DEF HolesAccountedFor
  <2>1. b \in Market /\ b \notin bars[s].held
      BY DEF Holes
  <2>2. PICK x \in bars[s].held, y \in bars[s].held : x < b /\ b < y
      BY DEF Holes
  <2>3. x \in Nat /\ b \in Nat
    <3>1. bars[s].held \subseteq Market
        BY DEF IInv, TypeOK, PumpTypeOK, Table
    <3> QED  BY <2>1, <3>1, Settings
  <2>4. 1 <= b
      BY <2>2, <2>3
  <2> QED  BY <2>1, <2>2, <2>4 DEF HoleInv, HolesIn
<1> QED  BY <1>1, <1>2, <1>3, PTL DEF Spec

\* So at UTC+2 every hole was skipped.
THEOREM HolesAtTwo ==
    ASSUME Reach, Offset <= 2
    PROVE  Spec => []HolesOnlyFromSkips
<1>1. IInv /\ HolesAccountedFor => HolesOnlyFromSkips
  <2> SUFFICES ASSUME IInv, HolesAccountedFor, NEW s \in Universe, NEW b \in Holes(s)
               PROVE  b \in skipped[s]
      BY DEF HolesOnlyFromSkips
  <2>1. bars[s].held \subseteq Nat /\ b \in Nat /\ Offset \in Nat
      BY Settings DEF IInv, TypeOK, PumpTypeOK, Table, Holes
  <2>2. ~Outrun(bars[s], b)
      BY <2>1 DEF Outrun
  <2> QED  BY <2>2 DEF HolesAccountedFor
<1> QED  BY <1>1, HolesExplained, MemoryKept, PTL

\* A brain that was loaded after a build has ended well judges by vectors made with
\* its own encoder, whichever builds failed or kept the collection before.
THEOREM FreshBrainFits == Spec => []FreshBrainMatches
<1>1. IInv => FreshBrainMatches
    BY DEF IInv, BuildInv, FreshBrainMatches
<1> QED  BY <1>1, MemoryKept, PTL

LEMMA OutcomesKnown ==
    ASSUME IInv
    PROVE  RecalledOutcomesKnownWithoutGaps
<1> SUFFICES ASSUME NEW p \in Recalled, (p[2] + 1)..(p[2] + LabelBars) \subseteq Market
             PROVE  OutcomeClosed(p)
    BY DEF RecalledOutcomesKnownWithoutGaps
<1>1. PumpTypeOK /\ PumpInv /\ PointsInv
    BY DEF IInv, TypeOK
<1>2. p \in DOMAIN coll /\ p[2] <= Asof - (LabelBars + 1)
    BY DEF Recalled
<1>3. p \in Points /\ p[2] \in rows[p[1]].held /\ Cardinality(Later(p)) >= LabelBars
    BY <1>1, <1>2 DEF PointsInv, Labelled
<1>4. now \in Nat /\ Market \subseteq Nat /\ LabelBars \in Nat
    BY <1>1, Settings DEF PumpTypeOK
<1>5. Forming \in Nat
    BY <1>4, FeedFacts
<1>6. p[1] \in Universe /\ p[2] \in Market /\ p[2] \in Nat
    BY <1>3, <1>4 DEF Points
<1> DEFINE closed == {x \in Market : p[2] < x /\ x < Forming}
           before == {b \in Market : b < Forming}
<1>7. closed \subseteq 0..Forming /\ before \subseteq 0..Forming
  <2>1. \A x \in Market : x < Forming => x \in 0..Forming
      BY <1>4, <1>5
  <2> QED  BY <2>1
<1>8. IsFiniteSet(closed) /\ Cardinality(closed) \in Nat
  <2>1. IsFiniteSet(0..Forming)
      BY <1>5, FS_Interval
  <2> HIDE DEF closed
  <2> QED  BY <1>7, <2>1, FS_Subset, FS_CardinalityType
<1>9. CASE LabelBars = 0
  <2> HIDE DEF closed
  <2>1. Cardinality(closed) >= LabelBars
      BY <1>8, <1>9
  <2> QED  BY <2>1 DEF OutcomeClosed, closed
<1>10. CASE LabelBars > 0
  <2>1. Later(p) # {}
    <3> DEFINE l == Later(p)
    <3>1. Cardinality({}) = 0
        BY FS_EmptySet
    <3>2. Cardinality(l) >= LabelBars
        BY <1>3
    <3> HIDE DEF l
    <3>3. l # {}
      <4> SUFFICES ASSUME l = {}
                   PROVE  FALSE
          OBVIOUS
      <4>1. Cardinality(l) = 0
          BY <3>1, Zenon
      <4> QED  BY <1>4, <1>10, <3>2, <4>1
    <3> QED  BY <3>3 DEF l
  <2>2. PICK x \in rows[p[1]].held : x > p[2]
      BY <2>1 DEF Later
  <2>3. x \in 0..Forming
      BY <1>1, <1>6, <2>2 DEF PumpInv, FeedInv, GrowInv
  <2>4. p[2] \in before
      BY <1>5, <1>6, <2>2, <2>3
  <2>5. Asof \in before
    <3>1. Asof = Max(before)
        BY DEF Asof
    <3> HIDE DEF before
    <3> QED  BY <1>5, <1>7, <2>4, <3>1, MaxIsMax
  <2>6. Asof < Forming /\ Asof \in Nat
      BY <1>4, <2>5
  <2>7. (p[2] + 1)..(p[2] + LabelBars) \subseteq closed
      BY <1>2, <1>4, <1>5, <1>6, <2>6
  <2>8. Cardinality((p[2] + 1)..(p[2] + LabelBars)) = LabelBars
    <3>1. p[2] + 1 \in Int /\ p[2] + LabelBars \in Int /\ ~(p[2] + 1 > p[2] + LabelBars)
          /\ (p[2] + LabelBars) - (p[2] + 1) + 1 = LabelBars
        BY <1>4, <1>6, <1>10
    <3> QED  BY <3>1, FS_Interval
  <2> HIDE DEF closed
  <2>9. Cardinality(closed) >= LabelBars
      BY <1>4, <1>8, <2>7, <2>8, FS_Subset
  <2> QED  BY <2>9 DEF OutcomeClosed, closed
<1> QED  BY <1>4, <1>9, <1>10

\* Where the market was open all through the label window, a state is recalled only
\* once the bar that gave its outcome has closed.
THEOREM OutcomesWereKnown == Spec => []RecalledOutcomesKnownWithoutGaps
<1> QED  BY OutcomesKnown, MemoryKept, PTL

\* A job that ends by its own step has every symbol done, and what it owes is what
\* becomes of the tables.
LEMMA JobEnds ==
    ASSUME IInv, [Next]_vars, proc # "none", proc' = "none", faults' = faults \/ dbVars' # dbVars
    PROVE  /\ Finish
           /\ \A s \in Universe \ failed : Owed(s)
<1>1. TypeOK /\ PumpTypeOK /\ WorkInv /\ PumpInv
    BY DEF IInv, TypeOK, PumpInv
<1>2. ~Kill
  <2> SUFFICES ASSUME Kill
               PROVE  FALSE
      OBVIOUS
  <2>1. faults' # faults /\ dbVars' = dbVars
      BY <1>1, FaultCounts DEF Kill, PumpTypeOK, dbVars
  <2> QED  BY <2>1
<1>3. ~(TopUp \/ Backfill \/ SymbolFails)
    BY <1>1, TopUpWorks, BackfillWorks, FailureWorks DEF Works, Worked, SymbolDone
<1>4. ~(\E job \in {"pump", "backfill"} : Start(job)) /\ ~Tick /\ ~BuildFails /\ ~UNCHANGED pumpVars
    BY DEF Start, Tick, BuildFails, jobVars, pumpVars
<1>5. Finish
    BY <1>2, <1>3, <1>4 DEF Next, PumpNext, Job, Fetch, Fit, Recreate, Write, LoadBrain,
                            RestartTrader, vars
<1>6. Left = {}
    BY <1>5 DEF Finish, Left
<1> QED  BY <1>1, <1>5, <1>6 DEF WorkInv

LEMMA RowsKept ==
    ASSUME IInv, [Next]_vars, PumpEnds, ~aborted, NEW s \in Universe \ failed
    PROVE  rows'[s] = bars'[s]
<1>1. proc = "pump" /\ proc' = "none" /\ faults' = faults
    BY DEF PumpEnds
<1>2. Finish /\ Owed(s)
    BY <1>1, JobEnds
<1>3. Commit
    BY <1>2 DEF Finish
<1>4. Save
    BY <1>3, Zenon DEF Commit
<1> QED  BY <1>1, <1>2, <1>4 DEF Save, Owed

\* A pump whose transaction holds leaves every symbol it does not report as failed with
\* the features of exactly the bars that are stored.
THEOREM RowsFollowBars == Spec => RowsKeepUp
<1>1. IInv /\ [Next]_vars =>
          [PumpEnds /\ ~aborted => \A s \in Universe \ failed : rows'[s] = bars'[s]]_pumpVars
    BY RowsKept
<1> QED  BY <1>1, MemoryKept, PTL DEF Spec, RowsKeepUp

LEMMA WindowStored ==
    ASSUME IInv, [Next]_vars, proc = "backfill", proc' = "none", dbVars' # dbVars,
           NEW s \in Universe \ failed
    PROVE  LET window == {b \in Market : until - History <= b /\ b <= until} \ skipped'[s]
           IN  /\ window \subseteq bars'[s].held
               /\ \A b \in window \cap bars'[s].part : b >= until + Offset
<1>1. Finish /\ Owed(s)
    BY JobEnds
<1>2. TypeOK /\ PumpInv /\ WorkInv /\ History \in Nat
    BY Settings DEF IInv, PumpInv
<1>3. \/ bars' = bars /\ rows' = rows /\ skipped' = skipped
      \/ ~aborted /\ bars' = tx.bars /\ rows' = tx.rows /\ skipped' = tx.skip
    BY <1>1, <1>2, EndStep
<1>4. bars' = tx.bars /\ rows' = tx.rows /\ skipped' = tx.skip
  <2>1. ~(bars' = bars /\ rows' = rows /\ skipped' = skipped)
      BY DEF dbVars
  <2> QED  BY <1>3, <2>1, Zenon
<1>5. History > 0
  <2> SUFFICES ASSUME History = 0
               PROVE  FALSE
      BY <1>2
  <2>1. tx.bars = bars /\ tx.rows = rows
      BY <1>2 DEF WorkInv
  <2> QED  BY <1>4, <2>1 DEF dbVars
<1>6. Repaired(tx.bars[s], tx.skip[s])
    BY <1>1, <1>5 DEF Owed
<1> QED  BY <1>4, <1>6 DEF Repaired

\* A committed backfill leaves its window stored, but for what it skipped, and nothing
\* in it half formed that had closed when it started.
THEOREM WindowRepaired == Spec => BackfillRepairs
<1>1. IInv /\ [Next]_vars =>
          [proc = "backfill" /\ proc' = "none" /\ dbVars' # dbVars
           => \A s \in Universe \ failed :
                  LET window == {b \in Market : until - History <= b /\ b <= until} \ skipped'[s]
                  IN  /\ window \subseteq bars'[s].held
                      /\ \A b \in window \cap bars'[s].part : b >= until + Offset]_pumpVars
    BY WindowStored
<1> QED  BY <1>1, MemoryKept, PTL DEF Spec, BackfillRepairs
=============================================================================
