---- MODULE SubAgents ----
(***************************************************************************)
(* The pool of sub-agents of one session: delegations run in slots or wait *)
(* in a queue, report to whoever delegated them, and leave records that    *)
(* the next daemon restores. The loop of each agent is a task of its own;  *)
(* everything else runs on the daemon's thread.                            *)
(***************************************************************************)
EXTENDS Naturals, FiniteSets

CONSTANTS
    MaxSubagents,  \* MAX_SUBAGENTS
    Delegators,    \* who delegates
    MaxAgents      \* bound: ids handed out

Origins == {"call", "background", "task", "extension"}

ASSUME SubAgentsAssumption ==
    /\ MaxSubagents \in Nat \ {0} /\ MaxAgents \in Nat
    /\ Delegators \subseteq Origins

VARIABLES
    next_subagent_id,
    pending_subagents,        \* ids grow along the queue: its front is the least
    pending_subagent_calls,   \* delegations whose call parks the round
    pending_subagent_nudges,  \* detached agents whose end waits for an idle session
    status,                   \* of the agents that were started
    origin,                   \* tool_call_id, detached and ext_owned
    nudged,
    worker,                   \* each agent's task, and the end it has sent
    saved,                    \* the statuses on record
    told                      \* how often each agent's end was told, by channel; what a
                              \* restored record may still tell counts as told

pool == <<next_subagent_id, pending_subagents, pending_subagent_calls, pending_subagent_nudges>>
agents == <<status, origin, nudged, worker>>
vars == <<pool, agents, saved, told>>

Ids      == 0 .. MaxAgents - 1
Ended    == {"done", "error", "killed"}
Statuses == {"none", "running"} \cup Ended
Workers  == {"off", "working", "aborting", "done", "error", "gone"}
Channels == {"result", "nudge", "fold", "event"}

Running == {i \in Ids : status[i] = "running"}
Records == {i \in Ids : status[i] /= "none"}

\* f with the value v for the members of S.
Set(f, S, v) == [i \in DOMAIN f |-> IF i \in S THEN v ELSE f[i]]

\* told, once more on each channel ch for the agents of says[ch].
Tell(says) ==
    told' = [i \in Ids |-> [ch \in Channels |->
                IF ch \in DOMAIN says /\ i \in says[ch] THEN told[i][ch] + 1 ELSE told[i][ch]]]

\* abort() takes effect at the task's next await.
Abort(S) == worker' = [i \in Ids |->
                IF i \in S /\ worker[i] = "working" THEN "aborting" ELSE worker[i]]

\* (Mutant: records written before the change they record.)
PersistEarly(changed) == saved' = IF changed THEN status ELSE saved

\* persist_subagents.
Persist(changed) == saved' = IF changed THEN status' ELSE saved

\* (Mutant: one slot too many.)
SlotsLeftMore(staying) == MaxSubagents + 1 - Cardinality(staying)

\* (Mutant: one slot too few.)
SlotsLeftLess(staying) ==
    IF Cardinality(staying) = MaxSubagents THEN 0 ELSE MaxSubagents - 1 - Cardinality(staying)

\* running_subagents against MAX_SUBAGENTS.
SlotsLeft(staying) == MaxSubagents - Cardinality(staying)

ToldOf(S) == [i \in Ids |-> [ch \in Channels |-> IF i \in S THEN 1 ELSE 0]]

Init ==
    /\ next_subagent_id = 0
    /\ pending_subagents = {} /\ pending_subagent_calls = {} /\ pending_subagent_nudges = {}
    /\ status = [i \in Ids |-> "none"] /\ saved = [i \in Ids |-> "none"]
    /\ origin = [i \in Ids |-> "task"]
    /\ nudged = [i \in Ids |-> FALSE]
    /\ worker = [i \in Ids |-> "off"]
    /\ told = ToldOf({})

-----------------------------------------------------------------------------
(* Delegating.                                                             *)

\* spawn_or_queue, for the task tool, /task or agents.spawn. (A spawn that
\* fails is answered on the spot and changes nothing here.)
Delegate(o) ==
    LET i == next_subagent_id
        free == SlotsLeft(Running) > 0 IN
    /\ i < MaxAgents
    /\ next_subagent_id' = i + 1
    /\ origin' = [origin EXCEPT ![i] = o]
    /\ pending_subagent_calls' = pending_subagent_calls \cup (IF o = "call" THEN {i} ELSE {})
    /\ pending_subagents' = pending_subagents \cup (IF free THEN {} ELSE {i})
    /\ status' = Set(status, IF free THEN {i} ELSE {}, "running")
    /\ worker' = Set(worker, IF free THEN {i} ELSE {}, "working")
    /\ Persist(free)
    /\ UNCHANGED <<pending_subagent_nudges, nudged, told>>

\* Ctrl+B on one agent, or on all: the call is answered with a note.
Background(S) ==
    /\ S /= {}
    /\ \A i \in S : i \in Running /\ origin[i] = "call"
    /\ origin' = Set(origin, S, "background")
    /\ pending_subagent_calls' = pending_subagent_calls \ S
    /\ Tell([result |-> S])
    /\ UNCHANGED <<next_subagent_id, pending_subagents, pending_subagent_nudges,
                   status, nudged, worker, saved>>

-----------------------------------------------------------------------------
(* The agents' own tasks: run_agent_loop.                                  *)

\* The task reports its end and is over, or is gone without a report.
Finish(i) ==
    /\ worker[i] \in {"working", "aborting"}
    /\ \E end \in {"done", "error", "gone"} : worker' = [worker EXCEPT ![i] = end]
    /\ UNCHANGED <<pool, status, origin, nudged, saved, told>>

-----------------------------------------------------------------------------
(* Stopping.                                                               *)

\* task_kill, and the panel's kill: the status flips before the task is gone.
Kill(i) ==
    /\ i \in Running
    /\ Abort({i})
    /\ status' = [status EXCEPT ![i] = "killed"]
    /\ UNCHANGED <<pool, origin, nudged, saved, told>>

\* agents.kill: a delegation that waits is dropped, a running agent is killed,
\* recorded and announced.
BrokerKill(i) ==
    /\ origin[i] = "extension"
    /\ i \in Records \cup pending_subagents
    /\ Abort({i})
    /\ pending_subagents' = pending_subagents \ {i}
    /\ status' = Set(status, {i} \cap Running, "killed")
    /\ Persist(TRUE)
    /\ Tell([event |-> {i} \cap Running])
    /\ UNCHANGED <<next_subagent_id, pending_subagent_calls, pending_subagent_nudges,
                   origin, nudged>>

\* (Mutant: the calls of the agents it kills stay pending.)
AbortAgentsOnly(S) ==
    /\ Abort(S)
    /\ status' = Set(status, S, "killed")
    /\ nudged' = Set(nudged, S, TRUE)
    /\ UNCHANGED pending_subagent_calls

\* abort_running_subagents.
AbortAgents(S) ==
    /\ Abort(S)
    /\ status' = Set(status, S, "killed")
    /\ nudged' = Set(nudged, S, TRUE)
    /\ pending_subagent_calls' = {}

\* Interrupted: every running agent dies that is not detached, those of /task
\* and of extensions too; of the queue, only the delegations of calls go.
Interrupt ==
    /\ AbortAgents({i \in Running : origin[i] /= "background"})
    /\ pending_subagents' = {i \in pending_subagents : origin[i] /= "call"}
    /\ UNCHANGED <<next_subagent_id, pending_subagent_nudges, origin, saved, told>>

-----------------------------------------------------------------------------
(* drain_subagents: the ends are folded, told, and the queue moves up.     *)

\* The end the task has sent, whatever the status was; a task that is gone
\* without one was killed.
Settled(i) ==
    CASE worker[i] \in {"done", "error"} -> worker[i]
      [] worker[i] = "gone" /\ status[i] = "running" -> "killed"
      [] OTHER -> status[i]

\* try_start_pending: the loop ends when the slots are full or the queue is
\* empty; an entry whose agent no longer resolves is dropped on the way.
StartPending(staying, bad, started) ==
    LET good == pending_subagents \ bad IN
    /\ Cardinality(started) <= SlotsLeft(staying)
    /\ \A i \in started, j \in good \ started : i < j
    /\ started = good \/ Cardinality(started) = SlotsLeft(staying)

\* (Mutant: the promoted entries are looked at, not taken off the queue.)
PoppedNone(staying, started) == {}

Popped(staying, started) ==
    {i \in pending_subagents :
        \/ Cardinality(started) < SlotsLeft(staying)
        \/ \E j \in started : i <= j}

\* (Mutant: the latch is not consulted.)
MuteAll(ended) == ended

\* Ends whose line in the chat was not written yet.
Mute(ended) == {i \in ended : ~nudged[i]}

\* (Mutant: a killed agent answers nobody.)
AnsweredAlive(ended) ==
    {i \in ended : origin[i] = "call" /\ Settled(i) /= "killed"} \cap pending_subagent_calls

\* Calls that get their result.
Answered(ended) == {i \in ended : origin[i] = "call"} \cap pending_subagent_calls

\* (Mutant: only a detached agent that is done wakes the session.)
NudgesDone(mute) == {i \in mute : origin[i] = "background" /\ Settled(i) = "done"}

\* Detached agents: their end goes to the nudge buffer.
Nudges(mute) == {i \in mute : origin[i] = "background"}

\* Agents of /task: the report is a message of the conversation.
Folds(mute) == {i \in mute : origin[i] = "task" /\ Settled(i) = "done"}

Drain ==
    LET ended == {i \in Records : Settled(i) \in Ended}
        fresh == {i \in ended : Settled(i) /= status[i]}
        mute  == Mute(ended)
        answered == Answered(ended) IN
    /\ \E bad \in SUBSET pending_subagents : \E started \in SUBSET (pending_subagents \ bad) :
         LET popped == Popped(Running \ ended, started)
             refused == popped \cap bad \cap pending_subagent_calls IN
         /\ StartPending(Running \ ended, bad, started)
         /\ pending_subagents' = pending_subagents \ popped
         /\ pending_subagent_calls' = pending_subagent_calls \ (answered \cup refused)
         /\ status' = [i \in Ids |-> IF i \in started THEN "running" ELSE Settled(i)]
         /\ worker' = [i \in Ids |-> IF i \in started THEN "working"
                                     ELSE IF worker[i] \in {"done", "error", "gone"} THEN "off"
                                     ELSE worker[i]]
         /\ Persist(fresh \cup started /= {})
         /\ Tell([result |-> answered \cup refused,
                  fold |-> Folds(mute), event |-> ended \cap Running])
    /\ pending_subagent_nudges' = pending_subagent_nudges \cup Nudges(mute)
    /\ nudged' = Set(nudged, {i \in mute : origin[i] /= "call"}, TRUE)
    /\ UNCHANGED <<next_subagent_id, origin>>

\* An idle session wakes with everything in the buffer.
Wake ==
    /\ pending_subagent_nudges /= {}
    /\ Running = {} /\ pending_subagent_calls = {}
    /\ Tell([nudge |-> pending_subagent_nudges])
    /\ pending_subagent_nudges' = {}
    /\ UNCHANGED <<next_subagent_id, pending_subagents, pending_subagent_calls,
                   agents, saved>>

-----------------------------------------------------------------------------
(* The end of the daemon, or of the session, and the next start.           *)

\* Above the highest id on record.
FollowsHighest(n, recorded) == (\A i \in recorded : i < n) /\ (n = 1 \/ n - 1 \in recorded)

\* A daemon takes over after a crash, a shutdown or a close of the session,
\* restore_bg_records: only what is on record is left; what still ran is stale,
\* and ids continue above the highest.
Restore ==
    LET recorded == {i \in Ids : saved[i] /= "none"} IN
    /\ status' = Set(saved, {i \in Ids : saved[i] = "running"}, "killed")
    /\ \E n \in 1 .. MaxAgents + 1 : FollowsHighest(n, recorded) /\ next_subagent_id' = n
    /\ pending_subagents' = {} /\ pending_subagent_calls' = {} /\ pending_subagent_nudges' = {}
    /\ origin' = [i \in Ids |-> "task"]
    /\ nudged' = [i \in Ids |-> i \in recorded]
    /\ worker' = [i \in Ids |-> "off"]
    /\ told' = ToldOf(recorded)
    /\ UNCHANGED saved

-----------------------------------------------------------------------------

Eligible == {i \in Running : origin[i] = "call"}

Next ==
    \/ \E o \in Delegators : Delegate(o)
    \/ \E i \in Ids : Finish(i) \/ Kill(i) \/ BrokerKill(i)
    \/ \E S \in {{i} : i \in Eligible} \cup {Eligible} : Background(S)
    \/ Interrupt \/ Drain \/ Wake \/ Restore

Spec == Init /\ [][Next]_vars

\* The loop ticks, the tasks end, and a session that can wake does.
FairSpec ==
    /\ Spec
    /\ WF_vars(Drain) /\ WF_vars(Wake)
    /\ \A i \in Ids : WF_vars(Finish(i))

====
