--------------------------- MODULE MissionProperties ---------------------------
(***************************************************************************)
(* What must hold of a mission, and the instances TLC checks.              *)
(***************************************************************************)
EXTENDS Mission, TLC

\* A task that is done has no child that is not: a failed check, a checklist,
\* a handoff or a restored snapshot reopens what is above it
\* (rollup_parents_in_tx, set_verify_bit_with_evidence, apply_handoff).
NoFalseDone ==
    \A n \in Live(graph) : graph.status[n] = "done" =>
        \A k \in Children(graph, n) : graph.status[k] = "done"

\* A task turns done only when it is verified, under the approved contract and
\* in its worktree, or when its last open child was: no checklist and no
\* amendment seals (graph.rs, "Seal only via mission_verify").  An amendment
\* whose contract could not be saved is left out: what it rolled up to done
\* is not always taken back.
SealIsEarned ==
    [][\A n \in Nodes : graph.status[n] # "done" /\ graph'.status[n] = "done" =>
        \/ Children(graph', n) # {} /\ \A k \in Children(graph', n) : graph'.status[k] = "done"
        \/ Active(mission) /\ BindingLive /\ phase \in {"execute", "integrate"}
        \/ Ready /\ parked' = NotParked]_vars

\* A session that executes does so under a contract that is approved on disk,
\* in the phase that is on disk, and whose structure is the one the user
\* approved, unless a handoff has changed it since: whatever was amended,
\* denied, cleared, paused, resumed, lost or not saved meanwhile
\* (apply_sdlc_phase, "The runtime is NEVER advanced unless the disk commit
\* succeeds").
ExecutesApproved ==
    phase \in Working =>
        /\ Active([mission EXCEPT !.phase = "execute"]) /\ mission.phase = phase
        /\ mission.hash \in {blessed, Fingerprint}

\* A mission is done only with the tasks the user approved, each of them
\* verified, and from within its worktree (integrate_gate).
ShippedAsApproved ==
    [][mission.phase # "done" /\ mission'.phase = "done" =>
        Structure(graph) = blessed /\ AllVerified(graph) /\ inside]_vars

\* When mission_ready answers that the mission is complete and to call
\* mission_integrate, the contract lets that happen (sdlc.rs, the
\* completed-mission guard of intercept_mission_ready).
CompleteCanShip ==
    Calls /\ Amending /\ AllVerified(graph) /\ mission.phase # "done" =>
        Active(mission) /\ mission.hash = Structure(graph)

-----------------------------------------------------------------------------
(* Instances: one task; two tasks; a task split in two.                    *)

ThreeTasks == {1, 2, 3}
MCPlans == {1 :> NoNode, (1 :> NoNode) @@ (2 :> NoNode), (1 :> NoNode) @@ (2 :> 1)}
MCKid == (1 :> 3) @@ (2 :> 3) @@ (3 :> NoNode)

================================================================================
