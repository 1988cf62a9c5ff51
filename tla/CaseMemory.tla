----------------------------- MODULE CaseMemory ------------------------------
(***************************************************************************)
(* The case memory on top of the tables of DataPump: the builder of        *)
(* src/memory/build_memory.py and memory_store.py, which replaces first    *)
(* the encoder file and then the collection, and the trader that reads     *)
(* both (Brain of src/memory/meta_learner.py, cached by _brain of          *)
(* src/live/live_trader.py).  One asset class.                             *)
(*                                                                         *)
(* An encoder is the number of the build that fitted it.  A point is the   *)
(* state of a symbol at an hour; the collection maps each point to the     *)
(* encoder its vector was made with.                                       *)
(***************************************************************************)
EXTENDS DataPump

CONSTANTS
    LabelBars,   \* bars the label looks ahead: the 4h label, by which a build
                 \* selects and, as shipped, the brain trades
    MinRows,     \* labelled rows a build needs (500 in the code)
    MaxBuilds    \* bound on the number of builds

ASSUME MemoryAssumption == {LabelBars, MinRows, MaxBuilds} \subseteq Nat

VARIABLES
    build,     \* number of the latest build
    step,      \* where the builder is
    fetched,   \* points it still has to write
    encFile,   \* the encoder in the file, 0 when there is none
    coll,      \* point -> encoder, the points of the collection
    whole,     \* the latest build has ended and wrote all it fetched
    brain      \* the encoder the trader has loaded, 0 before its first use

memVars == <<build, step, fetched, encFile, coll, whole, brain>>
vars == <<pumpVars, memVars>>

Points == Universe \X Market

TypeOK ==
    /\ PumpTypeOK
    /\ build \in 0..MaxBuilds
    /\ step \in {"idle", "fit", "recreate", "write"}
    /\ fetched \subseteq Points
    /\ encFile \in 0..MaxBuilds
    /\ \E ps \in SUBSET Points : coll \in [ps -> 1..MaxBuilds]
    /\ whole \in BOOLEAN
    /\ brain \in 0..MaxBuilds

Init ==
    /\ PumpInit
    /\ build = 0
    /\ step = "idle"
    /\ fetched = {}
    /\ encFile = 0
    /\ coll = <<>>
    /\ whole = FALSE
    /\ brain = 0

-----------------------------------------------------------------------------
(* The builder *)

Later(p) == {x \in rows[p[1]].held : x > p[2]}

\* add_forward_returns: a row is labelled once LabelBars rows follow it.
Labelled ==
    {p \in Points : p[2] \in rows[p[1]].held /\ Cardinality(Later(p)) >= LabelBars}

\* build_class reads the labelled rows; too few end it.
Fetch ==
    /\ step = "idle"
    /\ build < MaxBuilds
    /\ Cardinality(Labelled) >= MinRows
    /\ build' = build + 1
    /\ fetched' = Labelled
    /\ whole' = FALSE
    /\ step' = "fit"
    /\ UNCHANGED <<pumpVars, encFile, coll, brain>>

\* fit_transform, and the save.
Fit ==
    /\ step = "fit"
    /\ encFile' = build
    /\ step' = "recreate"
    /\ UNCHANGED <<pumpVars, build, fetched, coll, whole, brain>>

\* ensure_collection: dropped and created again, or kept with --no-recreate.
Recreate(recreate) ==
    /\ step = "recreate"
    /\ coll' = IF recreate THEN <<>> ELSE coll
    /\ step' = "write"
    /\ UNCHANGED <<pumpVars, build, fetched, encFile, whole, brain>>

\* Slip: a point that is there is left alone.
UpsertedNew(batch) ==
    [p \in batch \cup DOMAIN coll |-> IF p \in DOMAIN coll THEN coll[p] ELSE build]

\* upsert_points: a point that is there is replaced.
Upserted(batch) ==
    [p \in batch \cup DOMAIN coll |-> IF p \in batch THEN build ELSE coll[p]]

\* The points go in by time, in batches; the last one ends the build.
Write(upTo) ==
    /\ step = "write"
    /\ LET batch == {p \in fetched : p[2] <= upTo}
       IN  /\ batch # {}
           /\ coll' = Upserted(batch)
           /\ fetched' = fetched \ batch
           /\ step' = IF batch = fetched THEN "idle" ELSE "write"
           /\ whole' = (batch = fetched)
    /\ UNCHANGED <<pumpVars, build, encFile, brain>>

\* The vector store or the disk fails, or the builder dies: main returns 1.
BuildFails ==
    /\ step # "idle"
    /\ Fault("raise")
    /\ step' = "idle"
    /\ fetched' = {}
    /\ UNCHANGED <<now, dbVars, jobVars, skipped, build, encFile, coll, whole, brain>>

-----------------------------------------------------------------------------
(* The trader *)

\* _brain: the encoder is loaded on first use and kept.
LoadBrain ==
    /\ brain = 0
    /\ encFile # 0
    /\ brain' = encFile
    /\ UNCHANGED <<pumpVars, build, step, fetched, encFile, coll, whole>>

RestartTrader ==
    /\ brain # 0
    /\ brain' = 0
    /\ UNCHANGED <<pumpVars, build, step, fetched, encFile, coll, whole>>

\* The bar a verdict is asked for: the newest one that has closed.
Asof == Max({b \in Market : b < Forming})

\* Slip: a state is shown once it is over, whatever its outcome.
RecalledAtOnce == {p \in DOMAIN coll : p[2] <= Asof}

\* recall: the guard leaves out the states of the last LabelBars + 1 hours.
Recalled == {p \in DOMAIN coll : p[2] <= Asof - (LabelBars + 1)}

Next ==
    \/ PumpNext /\ UNCHANGED memVars
    \/ Fetch
    \/ Fit
    \/ \E recreate \in BOOLEAN : Recreate(recreate)
    \/ \E upTo \in Market : Write(upTo)
    \/ BuildFails
    \/ LoadBrain
    \/ RestartTrader

\* The pump is started every hour, whatever else runs, and runs to its end.
Spec == /\ Init /\ [][Next]_vars
        /\ SF_vars(Start("pump") /\ UNCHANGED memVars)
        /\ WF_vars(Job /\ UNCHANGED memVars)
        /\ WF_vars(Tick /\ UNCHANGED memVars)

-----------------------------------------------------------------------------
(* Properties of the memory *)

\* A brain loaded from the file of a build that has ended well judges by vectors
\* made the way it makes its own: file and collection are replaced one after the
\* other, the builder may die between the two, and a build that keeps the
\* collection must write every old point anew.
FreshBrainMatches ==
    whole /\ brain # 0 /\ brain = encFile => \A p \in DOMAIN coll : coll[p] = brain

\* A brain makes its vectors with the encoder the memory was built with, at
\* every moment it may be asked.
BrainMatchesMemory == brain # 0 => \A p \in DOMAIN coll : coll[p] = brain

\* A state is recalled only when the bar that gave its outcome has closed.
OutcomeClosed(p) == Cardinality({x \in Market : p[2] < x /\ x < Forming}) >= LabelBars
RecalledOutcomesKnown == \A p \in Recalled : OutcomeClosed(p)

\* The same for states with no closed market in their label window, where a
\* guard in hours and a label in bars mean the same.  The state was labelled from
\* bars that may themselves have been forming: what counts is what has closed at
\* the hour of the verdict.
RecalledOutcomesKnownWithoutGaps ==
    \A p \in Recalled : (p[2] + 1)..(p[2] + LabelBars) \subseteq Market => OutcomeClosed(p)
=============================================================================
