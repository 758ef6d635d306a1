---- MODULE SubAgentsProperties ----
(***************************************************************************)
(* What the pool of sub-agents promises.                                   *)
(***************************************************************************)
EXTENDS SubAgents

TypeOK ==
    /\ next_subagent_id \in 0 .. MaxAgents + 1
    /\ pending_subagents \subseteq Ids /\ pending_subagent_calls \subseteq Ids
    /\ pending_subagent_nudges \subseteq Ids
    /\ status \in [Ids -> Statuses] /\ saved \in [Ids -> Statuses]
    /\ origin \in [Ids -> Origins] /\ nudged \in [Ids -> BOOLEAN]
    /\ worker \in [Ids -> Workers]
    /\ told \in [Ids -> [Channels -> Nat]]

\* No more agents run than there are slots, however kills, ends, promotions and
\* new delegations follow one another.
SlotsRespected == Cardinality(Running) <= MaxSubagents

\* The id of a delegation is its own: what waits has not been started, and what
\* comes next has no record, not even one of an earlier daemon.
IdsFresh ==
    /\ \A i \in Records \cup pending_subagents : i < next_subagent_id
    /\ pending_subagents \cap Records = {}

\* A call that parks the round belongs to a delegation that waits, runs, or has
\* an end to report: the round cannot wait for nobody.
CallsBacked ==
    /\ pending_subagent_calls \subseteq pending_subagents \cup Records
    /\ \A i \in pending_subagent_calls : origin[i] = "call"

\* The end of an agent is told once on each channel, though its record is
\* visited on every tick for ever, and a call is answered once.
ToldOnce == \A i \in Ids, ch \in Channels : told[i][ch] <= 1

\* An extension's agent never speaks in the user's chat.
ExtensionsSilent ==
    \A i \in Ids : origin[i] = "extension" =>
        \A ch \in {"result", "nudge", "fold"} : told[i][ch] = 0

\* What a restart would restore is true: an end on record is the agent's end,
\* and an end that is not on record restores as killed.
RecordsTrue ==
    \A i \in Ids :
        saved[i] = status[i] \/ (saved[i] = "running" /\ status[i] = "killed")

\* The inductive invariant behind these: an id not handed out yet has left no
\* trace, a call is parked as long as its delegation waits or runs, and what a
\* step may still tell has not been told.
NoTrace(i) ==
    /\ status[i] = "none" /\ saved[i] = "none"
    /\ i \notin pending_subagents \cup pending_subagent_calls \cup pending_subagent_nudges
    /\ \A ch \in Channels : told[i][ch] = 0
Untold ==
    \A i \in Ids :
        /\ i \in pending_subagent_calls => told[i]["result"] = 0
        /\ i \in pending_subagent_nudges =>
               nudged[i] /\ origin[i] = "background" /\ told[i]["nudge"] = 0
        /\ ~nudged[i] => told[i]["nudge"] = 0 /\ told[i]["fold"] = 0
        /\ status[i] \in {"none", "running"} => told[i]["event"] = 0
PoolInv ==
    /\ TypeOK
    /\ \A i \in Ids : i >= next_subagent_id => NoTrace(i)
    /\ \A i \in Ids : status[i] = "none" => worker[i] = "off"
    /\ \A i \in Running \cup pending_subagents :
           origin[i] = "call" => i \in pending_subagent_calls
    /\ Untold /\ SlotsRespected /\ IdsFresh /\ CallsBacked /\ ToldOnce /\ ExtensionsSilent /\ RecordsTrue

\* Delegations are served in order, in the slots there are.
Served == INSTANCE Delegations WITH
    Slots <- MaxSubagents, waiting <- pending_subagents,
    serving <- Running
FairlyServed == Served!Spec

\* A delegation does not wait for ever, and a parked call is answered or given up.
QueueMoves == \A i \in Ids : i \in pending_subagents ~> i \notin pending_subagents
CallsEnd == \A i \in Ids : i \in pending_subagent_calls ~> i \notin pending_subagent_calls

\* The end of a detached agent wakes the session, unless the session ends first.
DetachedWakes ==
    \A i \in Ids :
        origin[i] = "background" /\ status[i] \in Ended
            ~> told[i]["nudge"] = 1 \/ origin[i] /= "background"

====
