----------------------------- MODULE TradeLedger -----------------------------
(***************************************************************************)
(* What the live trader promises about its own bookkeeping, with the       *)
(* process, its crashes and its files left out.  A ticket is opened once   *)
(* at the broker, closed once at the broker, and its close enters the      *)
(* durable bookkeeping (day counters, cooldowns, performance rows: what    *)
(* src/live/reconciler.py finalize_close writes and save_state persists)   *)
(* once, never before the close and never taken back.                      *)
(***************************************************************************)
EXTENDS Naturals

CONSTANT Tickets

VARIABLES
    open,     \* tickets with a position at the broker
    closed,   \* tickets whose position the broker has closed
    counted   \* counted[t] = closes of t in the durable bookkeeping

vars == <<open, closed, counted>>

Init ==
    /\ open = {}
    /\ closed = {}
    /\ counted = [t \in Tickets |-> 0]

\* An order is filled: a ticket never used before becomes a position.
Open(t) ==
    /\ t \notin open \cup closed
    /\ open' = open \cup {t}
    /\ UNCHANGED <<closed, counted>>

\* The position is closed, by its stop, its target, the trader or by hand.
Close(t) ==
    /\ t \in open
    /\ open' = open \ {t}
    /\ closed' = closed \cup {t}
    /\ UNCHANGED counted

\* One durable write may bring in several closes at once, each for the
\* first time.
Count(S) ==
    /\ S \subseteq {t \in closed : counted[t] = 0}
    /\ counted' = [t \in Tickets |-> IF t \in S THEN 1 ELSE counted[t]]
    /\ UNCHANGED <<open, closed>>

Next ==
    \/ \E t \in Tickets : Open(t) \/ Close(t)
    \/ \E S \in SUBSET Tickets : Count(S)

Spec == Init /\ [][Next]_vars
=============================================================================
