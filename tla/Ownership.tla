---- MODULE Ownership ----
(***************************************************************************)
(* What the bind oracle promises: a session is owned by at most one        *)
(* process at a time, a process that is done with it is done for good, and *)
(* a process may be lost before it ever owns the session.                  *)
(***************************************************************************)
CONSTANT Daemons   \* process ids, each used once

VARIABLES owners, retired

Init == owners = {} /\ retired = {}

Acquire(d) ==
    /\ owners = {}
    /\ d \notin retired
    /\ owners' = {d}
    /\ UNCHANGED retired

Release(d) ==
    /\ d \in owners
    /\ owners' = owners \ {d}
    /\ retired' = retired \cup {d}

Discard(d) ==
    /\ d \notin owners
    /\ retired' = retired \cup {d}
    /\ UNCHANGED owners

Next == \E d \in Daemons : Acquire(d) \/ Release(d) \/ Discard(d)

Spec == Init /\ [][Next]_<<owners, retired>>

====
