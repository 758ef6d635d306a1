---- MODULE Delegations ----
(***************************************************************************)
(* What the pool of sub-agents promises to those who delegate: at most     *)
(* Slots delegations are served at a time, one waits only when every slot  *)
(* is taken, and none that waits is passed by a later one that waits.      *)
(* Delegations are numbered in the order they are accepted.                *)
(***************************************************************************)
EXTENDS Naturals, FiniteSets

CONSTANTS
    Ids,      \* delegations, by number
    Slots     \* how many are served at once

VARIABLES waiting, serving

Init == waiting = {} /\ serving = {}

Accept(i) ==
    /\ i \notin serving
    /\ \A j \in waiting : j < i
    /\ IF Cardinality(serving) < Slots
       THEN serving' = serving \cup {i} /\ UNCHANGED waiting
       ELSE waiting' = waiting \cup {i} /\ UNCHANGED serving

\* Some are done, and the longest waiting take the slots or are refused.
Advance ==
    /\ waiting' \subseteq waiting
    /\ serving' \subseteq serving \cup (waiting \ waiting')
    /\ Cardinality(serving') <= Slots
    /\ \A i \in serving' \ serving, j \in waiting' : i < j

\* Some are given up by those who delegated them.
GiveUp == waiting' \subseteq waiting /\ serving' \subseteq serving

Next == (\E i \in Ids : Accept(i)) \/ Advance \/ GiveUp

Spec == Init /\ [][Next]_<<waiting, serving>>

====
