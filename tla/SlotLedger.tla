----------------------------- MODULE SlotLedger -----------------------------
(***************************************************************************)
(* What the slots promise (scheduler/mod.rs, F-40..F-45), whoever takes    *)
(* them and gives them back: a slot is counted in every tier of its task   *)
(* (all work, its repository, its agent), and slots are taken only where   *)
(* every tier that gains one is within its cap afterwards.  Only a restart *)
(* does not ask: whoever is still at work then has a slot.                 *)
(*                                                                         *)
(* There are no counters here: a tier is as full as its holders make it.   *)
(***************************************************************************)
EXTENDS Naturals, FiniteSets

CONSTANTS
    Tasks,    \* whoever may hold a slot
    Tiers,    \* the tiers that have a cap
    Cap,      \* the cap of a tier
    TiersOf   \* the tiers a task counts in

VARIABLES
    up,       \* is the process there, and past its recovery?
    holders   \* the tasks with a slot

vars == <<up, holders>>

Used(tier, ts) == Cardinality({t \in ts : tier \in TiersOf[t]})

Init == up \in BOOLEAN /\ holders = {}

\* rebuild: the tasks that resumed, whatever the caps say
Start(ts) == ~up /\ up' = TRUE /\ holders' = ts

\* acquire, once or several times in a row
Take(ts) ==
    /\ up /\ holders' = holders \cup ts
    /\ \A tier \in Tiers :
         (\E t \in ts \ holders : tier \in TiersOf[t])
           => Used(tier, holders') <= Cap[tier]
    /\ UNCHANGED up

\* release
GiveBack(ts) ==
    /\ up /\ holders' = holders \ ts
    /\ UNCHANGED up

\* the process is gone
Stop == up /\ up' = FALSE /\ holders' = {}

Next ==
    \/ Stop
    \/ \E ts \in SUBSET Tasks : Start(ts) \/ Take(ts) \/ GiveBack(ts)

Spec == Init /\ [][Next]_vars
=============================================================================
