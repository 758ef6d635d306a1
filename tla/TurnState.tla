---- MODULE TurnState ----
(***************************************************************************)
(* The state of one session's turn, and the fragments of its handlers that *)
(* several of them share.                                                  *)
(*                                                                         *)
(* A turn: the model streams, asks for a round of tool calls, the calls    *)
(* run inline, off-thread, in a sub-agent or as a shell job, the round is  *)
(* flushed into the conversation and the model streams again.              *)
(***************************************************************************)
EXTENDS Conversation

CONSTANTS
    Kinds,        \* the tool kinds the model may call, a subset of ToolKind
    Modes,        \* the agent modes the user may select, a subset of AgentMode
    Approvers,    \* whether a controller that can approve may or must view the session
    Classifier,   \* the tool-call classifier (TAC) is configured
    RejectPolicy, \* the session's ApprovalPolicy is Reject
    NativeIds,    \* the provider numbers its calls; FALSE: text_call_0, text_call_1, ...
    LateDeny,     \* a DenyTool may arrive when nothing is parked for approval
    StartMayFail, \* start_stream_task may fail before a stream exists
    TaskCommand,  \* the user may start sub-agents with /task
    MaxCalls,     \* bound: calls in one round
    MaxRounds,    \* bound: rounds of calls in a behaviour
    MaxTurns,     \* bound: messages of the user and wakes in a behaviour
    MaxSteers,    \* cap of pending_steer (5 in the code)
    StallBudget,  \* MAIN_STALL_NUDGE_BUDGET (2 in the code)
    MaxAgents     \* bound: sub-agents ever started

\* bash and task block the round, bgbash and bgtask (run_in_background) do not;
\* a risky tool is also deferred.
ToolKind == {"inline", "image", "deferred", "risky", "bash", "bgbash", "task", "bgtask"}
\* Plan and Sdlc gate risky tools as Auto does.
AgentMode == {"normal", "auto", "yolo"}

ASSUME ConstantsAssumption ==
    /\ Kinds \subseteq ToolKind
    /\ Modes \subseteq AgentMode /\ Modes /= {}
    /\ Approvers \subseteq BOOLEAN /\ Approvers /= {}
    /\ {Classifier, RejectPolicy, NativeIds, LateDeny, StartMayFail, TaskCommand} \subseteq BOOLEAN
    /\ MaxCalls \in Nat /\ MaxRounds \in Nat /\ MaxTurns \in Nat
    /\ MaxSteers \in Nat /\ StallBudget \in Nat /\ MaxAgents \in Nat

VARIABLES
    waiting, buffer, stream,          \* rt.waiting, rt.streaming.is_some(), rt.active_rx.is_some()
    active_turn,                      \* rt.active_turn.is_some()
    pending_steer, main_stall_nudges,
    pending_tool_calls, tool_idx, tool_results,
    awaiting_approval,
    awaiting_classify, pending_classify_verdict,
    pending_tool_tasks, awaiting_tool_tasks,
    pending_subagent_calls, awaiting_subagents, subagents,
    threads,                          \* deferred tools running off-thread
    classifiers,                      \* classify tasks whose channel is still read
    bash_jobs,
    pending_bash_nudges, pending_subagent_nudges,
    conversation,
    agent_mode,
    approver,                         \* a controller that can approve views the session
    walking,                          \* process_tools is on the stack
    round, turns                      \* rounds, and user messages and wakes, so far

turnVars     == <<waiting, buffer, stream, active_turn>>
queueVars    == <<pending_steer, main_stall_nudges>>
roundVars    == <<pending_tool_calls, tool_idx, tool_results>>
classifyVars == <<awaiting_classify, pending_classify_verdict>>
taskVars     == <<pending_tool_tasks, awaiting_tool_tasks>>
agentVars    == <<subagents, pending_subagent_calls, awaiting_subagents>>
offThread    == <<threads, classifiers, bash_jobs>>
nudgeVars    == <<pending_bash_nudges, pending_subagent_nudges>>
modeVars     == <<agent_mode, approver>>
counters     == <<round, turns>>
vars == <<turnVars, queueVars, roundVars, awaiting_approval, classifyVars, taskVars, agentVars,
          offThread, nudgeVars, conversation, modeVars, walking, counters>>

-----------------------------------------------------------------------------

None == <<>>

\* The id of call i of round r: unique, or numbered afresh in each round when
\* extract_text_tool_calls made it.
CallId(r, i) == <<IF NativeIds THEN r ELSE 0, i>>
Id == {CallId(r, i) : r \in 1..MaxRounds, i \in 1..MaxCalls}

Call == [id : Id, kind : Kinds]
\* Off-thread work carries the id of its call; `from`, the round that asked for
\* it, is not in the code and only says whose result a result really is.
Work == [id : Id, from : 1..MaxRounds]
Verdict == {"allow", "block", "unavailable"}

SubAgent == [call : Id \cup {None}, from : 0..MaxRounds, status : {"running", "done", "killed"},
             detached : BOOLEAN, nudged : BOOLEAN]
BashJob == [call : Id \cup {None}, from : 1..MaxRounds, status : {"running", "exited", "reported"},
            suppress : BOOLEAN]

TypeOK ==
    /\ waiting \in BOOLEAN /\ buffer \in BOOLEAN /\ stream \in BOOLEAN /\ active_turn \in BOOLEAN
    /\ pending_steer \in 0..MaxSteers /\ main_stall_nudges \in 0..StallBudget
    /\ pending_tool_calls \in Seq(Call)
    /\ tool_idx \in 0..Len(pending_tool_calls)
    /\ tool_results \in Seq(Work)
    /\ awaiting_approval \in BOOLEAN /\ awaiting_classify \in BOOLEAN
    /\ pending_classify_verdict \subseteq [work : Work, verdict : Verdict]  \* an Option
    /\ pending_tool_tasks \subseteq Id /\ awaiting_tool_tasks \in BOOLEAN
    /\ pending_subagent_calls \subseteq Id /\ awaiting_subagents \in BOOLEAN
    /\ subagents \in Seq(SubAgent) /\ bash_jobs \in Seq(BashJob)
    /\ threads \subseteq Work /\ classifiers \subseteq Work
    /\ pending_bash_nudges \in BOOLEAN /\ pending_subagent_nudges \in BOOLEAN
    /\ conversation \in Seq(Message(Id))
    /\ agent_mode \in Modes /\ approver \in Approvers
    /\ walking \in BOOLEAN
    /\ round \in 0..MaxRounds /\ turns \in 0..MaxTurns

Init ==
    /\ waiting = FALSE /\ buffer = FALSE /\ stream = FALSE /\ active_turn = FALSE
    /\ pending_steer = 0 /\ main_stall_nudges = 0
    /\ pending_tool_calls = <<>> /\ tool_idx = 0 /\ tool_results = <<>>
    /\ awaiting_approval = FALSE
    /\ awaiting_classify = FALSE /\ pending_classify_verdict = {}
    /\ pending_tool_tasks = {} /\ awaiting_tool_tasks = FALSE
    /\ pending_subagent_calls = {} /\ awaiting_subagents = FALSE /\ subagents = <<>>
    /\ threads = {} /\ classifiers = {} /\ bash_jobs = <<>>
    /\ pending_bash_nudges = FALSE /\ pending_subagent_nudges = FALSE
    /\ conversation = <<>>
    /\ agent_mode \in Modes /\ approver \in Approvers
    /\ walking = FALSE /\ round = 0 /\ turns = 0

-----------------------------------------------------------------------------
(***************************************************************************)
(* Fragments of handlers.                                                  *)
(***************************************************************************)

\* is_working: what a completion wake must wait for.
\* (Mutant: records are kept for ever, and every one counts.)
IsWorkingByRecord ==
    \/ waiting \/ buffer
    \/ awaiting_approval \/ awaiting_tool_tasks \/ awaiting_classify \/ awaiting_subagents
    \/ subagents /= <<>>
IsWorking ==
    \/ waiting \/ buffer
    \/ awaiting_approval \/ awaiting_tool_tasks \/ awaiting_classify \/ awaiting_subagents
    \/ \E i \in DOMAIN subagents : subagents[i].status = "running"

Answers(works) == [k \in DOMAIN works |-> Answer(works[k].id)]
WorkFor(call) == [id |-> call.id, from |-> round]

\* (Mutant: the calls go, the index stays.)
ClearCalls == pending_tool_calls' = <<>> /\ tool_results' = <<>> /\ UNCHANGED tool_idx
ClearRound == pending_tool_calls' = <<>> /\ tool_idx' = 0 /\ tool_results' = <<>>
ClearToolTasks == pending_tool_tasks' = {} /\ awaiting_tool_tasks' = FALSE
ClearClassify == awaiting_classify' = FALSE /\ pending_classify_verdict' = {}

\* What every kickoff resets: the round, its parks and its tool lane, but not
\* the sub-agent lane.
ResetRound == ClearRound /\ awaiting_approval' = FALSE /\ ClearToolTasks /\ ClearClassify

KillBlockingAgents ==
    subagents' = [i \in DOMAIN subagents |->
                    IF subagents[i].status = "running" /\ ~subagents[i].detached
                    THEN [subagents[i] EXCEPT !.status = "killed", !.nudged = TRUE]
                    ELSE subagents[i]]

\* abort_running_subagents(include_detached = false)
\* (Mutant: the ids of the killed agents stay pending.)
AbortAgentsOnly == KillBlockingAgents /\ UNCHANGED pending_subagent_calls /\ awaiting_subagents' = FALSE
AbortSubagents ==
    /\ KillBlockingAgents
    /\ pending_subagent_calls' = {}
    /\ awaiting_subagents' = FALSE

\* begin_stream and start_stream_task.  When it fails before a stream exists
\* the turn is over; only the kickoffs of a user's turn also take the buffer.
\* old: a stream is already there, to be replaced.
BeginStream(kickoff, old) ==
  \E ok \in IF StartMayFail THEN BOOLEAN ELSE {TRUE} :
    /\ waiting' = ok
    /\ stream' = (ok \/ old)
    /\ buffer' = (ok \/ ~kickoff)
    /\ active_turn' = (ok /\ (kickoff \/ active_turn))

\* The calls a halt still has to answer.
\* (Mutant: the parked call itself is forgotten.)
UnansweredAfterCurrent(calls) == SubSeq(calls, tool_idx + 2, Len(calls))
Unanswered(calls) == SubSeq(calls, tool_idx + 1, Len(calls))

\* deny_all_pending and handle_deny_tool: flush what the round collected,
\* refuse the calls of the round from tool_idx on, and stop.
HaltRound(stored, calls) ==
    /\ conversation' = stored \o Answers(tool_results) \o Answers(Unanswered(calls))
    /\ ClearRound /\ awaiting_approval' = FALSE
    /\ waiting' = FALSE /\ active_turn' = FALSE
    /\ AbortSubagents /\ ClearToolTasks /\ ClearClassify

\* dispatch_deferred: one thread per deferred tool, one at a time; the caller
\* returns, so process_tools leaves the stack.
DispatchDeferred(call) ==
    /\ threads' = threads \cup {WorkFor(call)}
    /\ pending_tool_tasks' = pending_tool_tasks \cup {call.id}
    /\ awaiting_tool_tasks' = TRUE
    /\ tool_idx' = tool_idx + 1
    /\ walking' = FALSE

====
