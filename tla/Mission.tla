-------------------------------- MODULE Mission --------------------------------
(***************************************************************************)
(* An SDLC mission of one session: the contract in mission.json, the graph *)
(* of its tasks in the session's database, and what the running session    *)
(* believes of both.  The tools of the model that touch them, the user's   *)
(* decisions, entering and leaving the mode, the handoff reports of        *)
(* sub-agents, restarts, and writes of mission.json that fail.             *)
(*                                                                         *)
(* A node is its id; titles, notes, paths and evidence are left out.  So   *)
(* is verify_bit: every write that sets it sets the status to done, and    *)
(* every other one clears it.  The hash of the contract is always valid.   *)
(***************************************************************************)
EXTENDS Integers, FiniteSets

CONSTANTS
    Nodes,        \* ids of tasks
    Plans,        \* what a checklist may list: node -> parent, NoNode if omitted
    Kid,          \* the child an agent may propose under a node
    Agents,       \* bound: delegations of one life of the daemon
    SavesFail,    \* whether a write of mission.json may fail
    NoNode, NotParked, Fingerprint

ASSUME MissionAssumption ==
    /\ NoNode \notin Nodes
    /\ SavesFail \in BOOLEAN
    /\ \A plan \in Plans : DOMAIN plan \subseteq Nodes
    /\ Kid \in [Nodes -> Nodes \cup {NoNode}]
    /\ \A S \in SUBSET Nodes : Fingerprint \notin [S -> Nodes \cup {NoNode}]

VARIABLES
    graph,      \* sdlc_nodes: the status and the parent of each node
    mission,    \* mission.json
    mode,       \* "sdlc", or another
    phase,      \* rt.sdlc_phase
    claim,      \* rt.sdlc_pending_node_id
    parked,     \* the structure mission_ready puts to the user, if it waits
    inside,     \* whether the session works in the mission's worktree
    worktree,   \* whether that exists and is on the mission's branch
    agents,     \* sub-agents, and reports the drain still reads
    blessed     \* the structure the user approved last (not in the code)

session == <<mode, phase, claim, parked, inside>>
vars == <<graph, mission, session, worktree, agents, blessed>>

Working == {"prepare", "execute", "integrate"}
Free == [state |-> "free", claimed |-> NoNode, node |-> NoNode, report |-> "none"]

Init ==
    /\ graph = [status |-> [n \in Nodes |-> "absent"], parent |-> [n \in Nodes |-> NoNode]]
    /\ mission = [approved |-> FALSE, needs |-> FALSE, phase |-> "none", hash |-> NotParked,
                  bound |-> FALSE]
    /\ mode = "other" /\ phase = "none" /\ claim = NoNode /\ parked = NotParked
    /\ inside = FALSE /\ worktree = FALSE
    /\ agents = [a \in Agents |-> Free]
    /\ blessed = NotParked

-----------------------------------------------------------------------------
(* The graph.                                                              *)

Live(g)        == {n \in Nodes : g.status[n] \notin {"absent", "cancelled"}}
Children(g, n) == {k \in Live(g) : g.parent[k] = n}
Leaves(g)      == {n \in Live(g) : Children(g, n) = {}}
Waiting(g)     == {n \in Leaves(g) : g.status[n] \in {"pending", "blocked"}}
ActiveLeaves(g) == {n \in Leaves(g) : g.status[n] = "active"}
AllVerified(g) == Leaves(g) # {} /\ \A n \in Leaves(g) : g.status[n] = "done"
Structure(g)   == [n \in Live(g) |-> g.parent[n]]

Marked(g, S, status) ==
    [g EXCEPT !.status = [n \in Nodes |-> IF n \in S THEN status ELSE @[n]]]

\* Parents of parents: at most MAX_DEPTH levels, and no cycle.
Lift(parent, S) == {parent[n] : n \in S} \ {NoNode}
Ancestors(parent, n) == Lift(parent, {n}) \cup Lift(parent, Lift(parent, {n}))
Shallow(parent, n) == Lift(parent, Lift(parent, Lift(parent, {n}))) = {}

Finished(g) == {n \in Live(g) : /\ Children(g, n) # {}
                                /\ \A k \in Children(g, n) : g.status[k] = "done"}
Reopened(g) == {n \in Live(g) \ Finished(g) : Children(g, n) # {} /\ g.status[n] = "done"}

\* (Mutant: parents are closed by their children but never reopened.)
RollPassClosing(g) == Marked(g, Finished(g), "done")

RollPass(g) == Marked(Marked(g, Finished(g), "done"), Reopened(g), "active")

\* rollup_parents_in_tx, a pass for each level that has parents.
Rolled(g) == RollPass(RollPass(g))

Parents(g, plan) ==
    [n \in Nodes |-> IF n \in DOMAIN plan /\ plan[n] # NoNode THEN plan[n] ELSE g.parent[n]]

CanReplace(g, plan, status) ==
    /\ \A n \in DOMAIN plan : plan[n] \in DOMAIN plan \cup {NoNode}
    /\ \A n \in DOMAIN plan : status[n] = "done" => g.status[n] = "done"
    /\ \A n \in Nodes : Shallow(Parents(g, plan), n)

\* What is listed is written, what is open and not listed is cancelled.
Replaced(g, plan, status) ==
    Rolled([parent |-> Parents(g, plan),
            status |-> [n \in Nodes |->
                IF n \in DOMAIN plan THEN status[n]
                ELSE IF g.status[n] \in {"pending", "active", "blocked"} THEN "cancelled"
                ELSE g.status[n]]])

\* What a failed save makes of the graph g that was to replace `old`: the
\* snapshot is written back, unless it is refused.
Restored(g, old) ==
    LET listed == Structure(old)
    IN  IF CanReplace(g, listed, old.status) THEN Replaced(g, listed, old.status) ELSE g

\* auto_claim_first_open_leaf.  More than one active leaf, which it refuses,
\* does not occur where it is called; which leaf is first is left open.
AutoClaim(g) ==
    LET candidates == IF ActiveLeaves(g) # {} THEN ActiveLeaves(g) ELSE Waiting(g)
    IN  \/ \E n \in candidates : graph' = Marked(g, {n}, "active") /\ claim' = n
        \/ candidates = {} /\ graph' = g /\ claim' = NoNode

-----------------------------------------------------------------------------
(* The contract.                                                           *)

Amending == mission.approved /\ ~mission.needs

\* validate_active
Active(m) == m.approved /\ ~m.needs /\ m.bound /\ m.phase \in {"execute", "integrate"}

\* validate_binding: the live directory and its branch.
BindingLive == inside /\ worktree

\* should_auto_resume
Resumable(m) == m.approved /\ ~m.needs /\ m.bound /\ m.phase \in Working

Unapproved(m) == [m EXCEPT !.approved = FALSE, !.needs = TRUE, !.phase = "assess"]
Unbound(m)    == [Unapproved(m) EXCEPT !.bound = FALSE]

\* A tool of the model that only answers in SDLC mode.
Calls == mode = "sdlc" /\ parked = NotParked

\* (Mutant: the runtime stays in the phase it was in.)
StopWorkOnDisk == claim' = NoNode /\ UNCHANGED phase

\* The runtime goes back to assess and holds no leaf.
StopWork == claim' = NoNode /\ phase' = "assess"

-----------------------------------------------------------------------------
(* The user's decision.                                                    *)

\* mission_ready: the graph is replaced, the contract saved unapproved, the
\* phase saved, and the call parks.  Each save may fail.
Ready ==
    /\ Calls
    /\ \A a \in Agents : agents[a].state # "running"
    /\ ~(Amending /\ AllVerified(graph))
    /\ \E plan \in Plans :
        LET fresh == [n \in Nodes |-> "pending"]
            g     == Replaced(graph, plan, fresh)
            draft == [approved |-> FALSE, needs |-> Amending \/ mission.needs,
                      phase |-> "assess", hash |-> Structure(g), bound |-> FALSE]
        IN  /\ CanReplace(graph, plan, fresh)
            /\ \/ /\ graph' = g /\ mission' = draft
                  /\ StopWork /\ parked' = Structure(g)
               \/ /\ SavesFail
                  /\ graph' = Restored(g, graph) /\ mission' = draft
                  /\ StopWork /\ UNCHANGED parked
               \/ /\ SavesFail
                  /\ graph' = Restored(g, graph) /\ UNCHANGED <<mission, claim, phase, parked>>
    /\ UNCHANGED <<mode, inside, worktree, agents, blessed>>

\* handle_approve_mission: the worktree is bound and the contract saved as
\* approved, then execution starts and the first leaf is claimed.  Nothing is
\* bound if git refuses; what was bound is undone if the rest fails.
Approve ==
    /\ parked # NotParked
    /\ parked' = NotParked /\ blessed' = parked
    /\ LET bound == [mission EXCEPT !.approved = TRUE, !.needs = FALSE, !.bound = TRUE,
                                    !.phase = "prepare"]
       IN  \/ /\ mission' = [bound EXCEPT !.phase = "execute"]
              /\ phase' = "execute" /\ inside' = TRUE /\ worktree' = TRUE
              /\ AutoClaim(graph)
           \/ /\ StopWork
              /\ \/ UNCHANGED <<mission, inside, worktree>>
                 \/ /\ mission' = Unbound(mission)
                    /\ inside' = FALSE /\ worktree' = TRUE
                 \/ /\ SavesFail
                    /\ mission' = bound
                    /\ inside' = FALSE /\ worktree' = TRUE
              /\ UNCHANGED graph
    /\ UNCHANGED <<mode, agents>>

Deny ==
    /\ parked # NotParked
    /\ parked' = NotParked
    /\ mission' = [mission EXCEPT !.approved = FALSE, !.phase = "assess",
                                  !.needs = @ \/ phase \in Working]
    /\ StopWork
    /\ UNCHANGED <<graph, mode, inside, worktree, agents, blessed>>

\* Esc, or the park's timeout.
Interrupt ==
    /\ parked # NotParked
    /\ parked' = NotParked
    /\ UNCHANGED <<graph, mission, mode, phase, claim, inside, worktree, agents, blessed>>

-----------------------------------------------------------------------------
(* The tools of the model.                                                 *)

Statuses == {"pending", "active", "done", "cancelled"}

\* (Mutant: done is written as it is listed.)
MaySetAny(listed) == TRUE

\* Only mission_verify seals.
MaySet(listed) == \A n \in DOMAIN listed : listed[n] = "done" => graph.status[n] = "done"

\* apply_frozen_checklist: every live node is listed, the structure stands.
Checklist ==
    /\ Calls
    /\ Amending
    /\ \E listed \in [Live(graph) -> Statuses] :
        LET g == [graph EXCEPT !.status =
                    [n \in Nodes |-> IF n \in Live(graph) THEN listed[n] ELSE @[n]]]
        IN  /\ MaySet(listed)
            /\ \A n \in DOMAIN listed :
                listed[n] = "active" /\ graph.status[n] # "active" => n \in Waiting(graph)
            /\ Cardinality(ActiveLeaves(g)) <= 1
            /\ Cardinality(ActiveLeaves(Rolled(g))) <= 1
            /\ graph' = Rolled(g)
            /\ IF ActiveLeaves(graph') = {} THEN claim' = NoNode
                                            ELSE claim' \in ActiveLeaves(graph')
    /\ UNCHANGED <<mission, mode, phase, parked, inside, worktree, agents, blessed>>

\* Without an approved contract a checklist replaces the graph.
DraftChecklist ==
    /\ Calls
    /\ ~Amending
    /\ \E plan \in Plans :
        \E listed \in [DOMAIN plan -> Statuses] :
            /\ CanReplace(graph, plan, listed)
            /\ graph' = Replaced(graph, plan, listed)
    /\ UNCHANGED <<mission, session, worktree, agents, blessed>>

\* mission_verify on a leaf while no other leaf is active: a pass seals it and
\* claims the next, a failure reopens it and all above it.
Verify ==
    /\ Calls
    /\ phase \in {"execute", "integrate"}
    /\ Active(mission) /\ BindingLive
    /\ \E n \in Leaves(graph) :
        /\ ActiveLeaves(graph) \subseteq {n}
        /\ \/ AutoClaim(Rolled(Marked(graph, {n}, "done")))
           \/ /\ graph' = Marked(graph, {n} \cup (Ancestors(graph.parent, n) \cap Live(graph)),
                                 "active")
              /\ claim' = n
    /\ UNCHANGED <<mission, mode, phase, parked, inside, worktree, agents, blessed>>

\* mission_prepare
Prepare ==
    /\ Calls
    /\ phase = "prepare"
    /\ Resumable(mission) /\ mission.phase = "prepare" /\ BindingLive
    /\ mission' = [mission EXCEPT !.phase = "execute"]
    /\ phase' = "execute"
    /\ UNCHANGED <<graph, mode, claim, parked, inside, worktree, agents, blessed>>

\* (Mutant: that the structure is the approved one is not asked.)
IntegrateGateVerified == Active(mission) /\ AllVerified(graph) /\ BindingLive

\* integrate_gate
IntegrateGate ==
    /\ Active(mission)
    /\ mission.hash = Structure(graph)
    /\ AllVerified(graph)
    /\ BindingLive

\* mission_integrate: the merge leaves the branch ready, or the mission done.
Integrate ==
    /\ Calls
    /\ IntegrateGate
    /\ \E end \in {"integrate", "done"} :
        /\ mission' = [mission EXCEPT !.phase = end]
        /\ phase' = end
        /\ inside' = (end # "done")
    /\ UNCHANGED <<graph, mode, claim, parked, worktree, agents, blessed>>

\* mission_clear, with or without a reset to assess.
Clear ==
    /\ Calls
    /\ claim' = NoNode
    /\ \/ UNCHANGED <<mission, phase>>
       \/ /\ phase' = "assess"
          /\ \/ mission' = IF mission.phase = "none" THEN mission ELSE Unbound(mission)
             \/ SavesFail /\ mission' = mission
             \/ SavesFail /\ mission.phase # "none" /\ mission' = [mission EXCEPT !.phase = "assess"]
    /\ UNCHANGED <<graph, mode, parked, inside, worktree, agents, blessed>>

-----------------------------------------------------------------------------
(* Sub-agents and the handoff in their report.                             *)

Running(claimed) == [Free EXCEPT !.state = "running", !.claimed = claimed]

\* task, while the mission is worked on: the node is claimed, then the agent
\* spawned, or not.
Delegate ==
    /\ Calls
    /\ phase \in Working
    /\ ActiveLeaves(graph) = {}
    /\ \E n \in Waiting(graph) :
        /\ graph' = Marked(graph, {n}, "active")
        /\ claim' = n
        /\ \/ \E a \in Agents : /\ agents[a].state = "free"
                                /\ agents' = [agents EXCEPT ![a] = Running(n)]
           \/ UNCHANGED agents
    /\ UNCHANGED <<mission, mode, phase, parked, inside, worktree, blessed>>

\* task otherwise: the agent takes over what the session holds.
Spawn ==
    /\ parked = NotParked
    /\ ~(mode = "sdlc" /\ phase \in Working)
    /\ \E a \in Agents : /\ agents[a].state = "free"
                         /\ agents' = [agents EXCEPT ![a] = Running(claim)]
    /\ UNCHANGED <<graph, mission, session, worktree, blessed>>

\* It is killed, or reports nothing on a node; or it reports the node it was
\* given, or any if it was given none, as blocked or as to be split.
AgentEnds ==
    /\ \E a \in Agents :
        /\ agents[a].state = "running"
        /\ \/ agents' = [agents EXCEPT ![a] = Free]
           \/ \E n \in Nodes, report \in {"blocked", "split"} :
                /\ agents[a].claimed \in {NoNode, n}
                /\ agents' = [agents EXCEPT ![a] = [@ EXCEPT !.state = "ended", !.node = n,
                                                             !.report = report]]
    /\ UNCHANGED <<graph, mission, session, worktree, blessed>>

\* try_apply_subagent_handoff, which drain_subagents calls in every tick for
\* every report there is: nothing remembers that it was applied.
Handoff ==
    /\ \E a \in Agents :
        LET n == agents[a].node
        IN  /\ agents[a].state = "ended"
            /\ n = IF agents[a].claimed # NoNode THEN agents[a].claimed ELSE claim
            /\ n \in ActiveLeaves(graph)
            /\ \/ /\ agents[a].report = "blocked"
                  /\ graph' = Marked(graph, {n}, "blocked")
                  /\ UNCHANGED mission
               \/ /\ agents[a].report = "split"
                  /\ Kid[n] # NoNode
                  /\ graph.status[Kid[n]] = "absent"
                  /\ Lift(graph.parent, Lift(graph.parent, {n})) = {}
                  /\ graph' = [Marked(graph, {Kid[n]}, "pending") EXCEPT !.parent[Kid[n]] = n]
                  /\ \/ mission' = IF mission.phase = "none" THEN mission
                                   ELSE [mission EXCEPT !.hash = Fingerprint]
                     \/ SavesFail /\ UNCHANGED mission
    /\ UNCHANGED <<session, worktree, agents, blessed>>

-----------------------------------------------------------------------------
(* Modes, git and the daemon.                                              *)

\* set_agent_mode_at, try_reenter_mission_worktree_at: a contract that was
\* active resumes if its worktree is there, and must be approved again if not.
Resume ==
    /\ Resumable(mission)
    /\ mode' = "sdlc"
    /\ \/ /\ worktree
          /\ phase' = mission.phase /\ inside' = TRUE
          /\ UNCHANGED mission
       \/ /\ ~worktree
          /\ phase' = "assess"
          /\ \/ mission' = Unapproved(mission)
             \/ SavesFail /\ UNCHANGED mission
          /\ UNCHANGED inside

\* Any other contract stays as it is.
EnterSdlc ==
    /\ mode # "sdlc"
    /\ \/ Resume
       \/ /\ ~Resumable(mission)
          /\ mode' = "sdlc" /\ phase' = "assess"
          /\ UNCHANGED <<mission, inside>>
    /\ UNCHANGED <<graph, claim, parked, worktree, agents, blessed>>

\* The mission is paused, or cleaned up once it is done; either may fail.
LeaveSdlc ==
    /\ mode = "sdlc"
    /\ mode' = "other" /\ phase' = "none" /\ claim' = NoNode /\ inside' = FALSE
    /\ \/ /\ mission' = IF mission.approved /\ mission.phase \in Working
                        THEN [mission EXCEPT !.phase = "paused"] ELSE mission
          /\ UNCHANGED worktree
       \/ /\ SavesFail
          /\ UNCHANGED <<mission, worktree>>
       \/ /\ mission.phase = "done" /\ Amending /\ AllVerified(graph)
          /\ worktree' = FALSE
          /\ mission' \in {mission, Unbound(mission)}
    /\ UNCHANGED <<graph, parked, agents, blessed>>

\* The user removes the worktree, or switches its branch.
LoseWorktree ==
    /\ worktree
    /\ worktree' = FALSE
    /\ UNCHANGED <<graph, mission, session, agents, blessed>>

\* What a daemon that starts finds of the agents: running ones are dead, and
\* reports no longer say which node they were given.
Survivors == [a \in Agents |-> IF agents[a].state = "ended"
                               THEN [agents[a] EXCEPT !.claimed = NoNode] ELSE Free]

Restart ==
    /\ claim' = NoNode /\ parked' = NotParked /\ agents' = Survivors
    /\ \/ Resume
       \/ /\ ~Resumable(mission)
          /\ mode' = "other" /\ phase' = "none"
          /\ UNCHANGED <<mission, inside>>
    /\ UNCHANGED <<graph, worktree, blessed>>

\* The daemon dies while an approval is carried out, after the contract was
\* saved as approved; the next one resumes it.
CrashInApprove ==
    /\ parked # NotParked
    /\ blessed' = parked /\ parked' = NotParked
    /\ mission' = [mission EXCEPT !.approved = TRUE, !.needs = FALSE, !.bound = TRUE,
                                  !.phase = "prepare"]
    /\ worktree' = TRUE /\ inside' = TRUE
    /\ mode' = "sdlc" /\ phase' = "prepare" /\ claim' = NoNode
    /\ agents' = Survivors
    /\ UNCHANGED graph

-----------------------------------------------------------------------------

Next ==
    \/ Ready \/ Approve \/ Deny \/ Interrupt
    \/ Checklist \/ DraftChecklist \/ Verify \/ Prepare \/ Integrate \/ Clear
    \/ Delegate \/ Spawn \/ AgentEnds \/ Handoff
    \/ EnterSdlc \/ LeaveSdlc \/ LoseWorktree
    \/ Restart \/ CrashInApprove

Spec == Init /\ [][Next]_vars

================================================================================
