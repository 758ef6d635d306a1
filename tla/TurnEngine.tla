---- MODULE TurnEngine ----
(***************************************************************************)
(* One session's turn engine: the requests of the user, the stream, the    *)
(* tool loop (TurnTools), and the lanes off-thread work reports on.        *)
(*                                                                         *)
(* The session is serviced by one thread, so a handler is one step, and    *)
(* no other handler runs while process_tools is walking.  Inside a tick    *)
(* the loop drains its lanes in a fixed order; here any lane may be        *)
(* drained at any moment, which only adds behaviours, but for the resume   *)
(* gate: an open gate comes before a verdict (DrainVerdict).  An           *)
(* off-thread worker's last act and the drain of its report are one step   *)
(* where nothing can look at the report in between.                        *)
(***************************************************************************)
EXTENDS TurnTools

-----------------------------------------------------------------------------
(***************************************************************************)
(* Requests of the user and of the daemon.                                 *)
(***************************************************************************)

\* handle_submit on an idle session: execute_prepared_turn.
Submit ==
    /\ ~walking /\ ~waiting
    /\ turns < MaxTurns /\ turns' = turns + 1
    /\ conversation' = Append(conversation, User)
    /\ ResetRound
    /\ main_stall_nudges' = 0
    /\ BeginStream(TRUE, stream)
    /\ UNCHANGED <<pending_steer, agentVars, offThread, nudgeVars, modeVars, walking, round>>

\* ... when the message cannot be saved, or holds an image the model cannot
\* read: it is kept, with a notice, and no turn starts.
SubmitRefused ==
    /\ StartMayFail /\ ~walking /\ ~waiting
    /\ turns < MaxTurns /\ turns' = turns + 1
    /\ \E notice \in {<<>>, <<Assistant>>} : conversation' = conversation \o <<User>> \o notice
    /\ UNCHANGED <<turnVars, queueVars, roundVars, awaiting_approval, classifyVars, taskVars, agentVars,
                   offThread, nudgeVars, modeVars, walking, round>>

\* handle_submit while a turn cooks: queue the message as a steer.
Steer ==
    /\ ~walking /\ waiting
    /\ turns < MaxTurns /\ turns' = turns + 1
    /\ pending_steer < MaxSteers /\ pending_steer' = pending_steer + 1
    /\ UNCHANGED <<turnVars, main_stall_nudges, roundVars, awaiting_approval, classifyVars, taskVars,
                   agentVars, offThread, nudgeVars, conversation, modeVars, walking, round>>

\* handle_resend
Resend ==
    /\ ~walking /\ ~waiting
    /\ \E i \in DOMAIN conversation : conversation[i] = User
    /\ turns < MaxTurns /\ turns' = turns + 1
    /\ conversation' = PopTrailingAssistants(conversation)
    /\ BeginStream(FALSE, stream)
    /\ UNCHANGED <<queueVars, roundVars, awaiting_approval, classifyVars, taskVars, agentVars,
                   offThread, nudgeVars, modeVars, walking, round>>

\* A blocking shell job dies with the turn and is not announced.
KillBlockingJobs ==
    bash_jobs' = [j \in DOMAIN bash_jobs |->
                    IF bash_jobs[j].status = "running" /\ bash_jobs[j].call /= None
                    THEN [bash_jobs[j] EXCEPT !.call = None, !.suppress = TRUE]
                    ELSE bash_jobs[j]]

\* Late events of the aborted stream must vanish.
\* (Mutant: the task is aborted, its channel is still read.)
AbortTaskOnly == UNCHANGED stream /\ buffer' = FALSE
DropStream == stream' = FALSE /\ buffer' = FALSE

\* SessionRuntime::interrupt: no call of the round is answered.
Cut ==
    /\ ~walking
    /\ DropStream
    /\ waiting' = FALSE /\ active_turn' = FALSE
    /\ ClearRound /\ awaiting_approval' = FALSE
    /\ AbortSubagents
    /\ KillBlockingJobs
    /\ ClearToolTasks
    /\ ClearClassify /\ classifiers' = {}
    /\ UNCHANGED <<queueVars, threads, nudgeVars, approver, walking, counters>>

\* The partial text, if any was streamed, is kept.
KeepPartial ==
    \E partial \in IF buffer THEN {<<>>, <<Assistant>>} ELSE {<<>>} :
       conversation' = conversation \o partial

\* handle_interrupt
Interrupt == Cut /\ KeepPartial /\ UNCHANGED agent_mode

\* handle_interrupt_rewind: the last user message goes back to the composer.
InterruptRewind ==
    /\ Cut
    /\ conversation' = BeforeLastUser(conversation)
    /\ UNCHANGED agent_mode

\* handle_approve_tool: dispatch the parked call; the resume gate goes on.
Approve ==
    /\ ~walking /\ awaiting_approval
    /\ awaiting_approval' = FALSE
    /\ DispatchDeferred(Current)
    /\ UNCHANGED <<turnVars, queueVars, pending_tool_calls, tool_results, classifyVars, agentVars,
                   classifiers, bash_jobs, nudgeVars, conversation, modeVars, counters>>

Halt(stored, calls) ==
    /\ HaltRound(stored, calls)
    /\ UNCHANGED <<queueVars, offThread, nudgeVars, modeVars, walking>>

\* handle_deny_tool has no guard: LateDeny lets it arrive without a park.
Deny ==
    /\ ~walking /\ (awaiting_approval \/ LateDeny)
    /\ Halt(conversation, pending_tool_calls)
    /\ UNCHANGED <<stream, buffer, counters>>

\* service_approval_park_timeouts: nobody is attached for half an hour.
ParkTimeout ==
    /\ ~walking /\ awaiting_approval /\ ~approver
    /\ Halt(conversation, pending_tool_calls)
    /\ UNCHANGED <<stream, buffer, counters>>

\* set_agent_mode_at, on behalf of the user: a round in progress goes on in the
\* new mode.
ChangeMode == agent_mode' \in Modes \ {agent_mode}

SetMode ==
    /\ ~walking /\ ~stream
    /\ ChangeMode
    /\ UNCHANGED <<turnVars, queueVars, roundVars, awaiting_approval, classifyVars, taskVars, agentVars,
                   offThread, nudgeVars, conversation, approver, walking, counters>>

\* ... but an answer that streams under the old mode is cut short.
SetModeStops == stream /\ ChangeMode /\ Cut /\ KeepPartial

\* A controller starts or stops viewing the session.
Attach ==
    /\ ~walking
    /\ approver' \in Approvers \ {approver}
    /\ UNCHANGED <<turnVars, queueVars, roundVars, awaiting_approval, classifyVars, taskVars, agentVars,
                   offThread, nudgeVars, conversation, agent_mode, walking, counters>>

\* /task: a sub-agent of the user's own, tied to no call.
StartTask ==
    /\ TaskCommand /\ ~walking
    /\ Len(subagents) < MaxAgents
    /\ subagents' = Append(subagents, NewAgent(None, FALSE))
    /\ UNCHANGED <<turnVars, queueVars, roundVars, awaiting_approval, classifyVars, taskVars,
                   pending_subagent_calls, awaiting_subagents, offThread, nudgeVars, conversation,
                   modeVars, walking, counters>>

-----------------------------------------------------------------------------
(***************************************************************************)
(* Ctrl+B: what the round waits for goes on in the background; its call is *)
(* answered now, and the resume gate notices that the park is empty.       *)
(* Backgrounding everything is these steps in a row: the park is not empty *)
(* before the last of them.                                                *)
(***************************************************************************)

\* handle_background_subagent
BackgroundSubagent(i) ==
    /\ ~walking
    /\ subagents[i].status = "running" /\ ~subagents[i].detached /\ subagents[i].call /= None
    /\ subagents' = [subagents EXCEPT ![i].call = None, ![i].detached = TRUE]
    /\ pending_subagent_calls' = pending_subagent_calls \ {subagents[i].call}
    /\ tool_results' = Append(tool_results, [id |-> subagents[i].call, from |-> subagents[i].from])
    /\ UNCHANGED <<turnVars, queueVars, pending_tool_calls, tool_idx, awaiting_approval, classifyVars,
                   taskVars, awaiting_subagents, offThread, nudgeVars, conversation, modeVars,
                   walking, counters>>

\* handle_background_bash
BackgroundBash(j) ==
    /\ ~walking
    /\ bash_jobs[j].status = "running" /\ bash_jobs[j].call /= None
    /\ bash_jobs' = [bash_jobs EXCEPT ![j].call = None]
    /\ pending_tool_tasks' = pending_tool_tasks \ {bash_jobs[j].call}
    /\ tool_results' = Append(tool_results, [id |-> bash_jobs[j].call, from |-> bash_jobs[j].from])
    /\ UNCHANGED <<turnVars, queueVars, pending_tool_calls, tool_idx, awaiting_approval, classifyVars,
                   awaiting_tool_tasks, agentVars, threads, classifiers, nudgeVars, conversation,
                   modeVars, walking, counters>>

-----------------------------------------------------------------------------
(***************************************************************************)
(* The stream: drain_stream, advance_turn and finish_stream.               *)
(***************************************************************************)

IdsOf(calls) == {calls[k].id : k \in DOMAIN calls}

\* The rounds of calls the model may ask for next.
NewRounds ==
    UNION {{[k \in 1..n |-> [id |-> CallId(round + 1, k), kind |-> kinds[k]]] :
               kinds \in [1..n -> Kinds]} : n \in 1..MaxCalls}

\* StreamEvent::ToolCalls
StreamToolCalls ==
    /\ ~walking /\ stream /\ NativeIds
    /\ pending_tool_calls = <<>>
    /\ round < MaxRounds /\ round' = round + 1
    /\ pending_tool_calls' \in NewRounds
    /\ UNCHANGED <<turnVars, queueVars, tool_idx, tool_results, awaiting_approval, classifyVars, taskVars,
                   agentVars, offThread, nudgeVars, conversation, modeVars, walking, turns>>

\* The calls a finished stream leaves: the stashed ones, or the ones
\* extract_text_tool_calls finds in its text.
Harvested(calls) ==
    /\ ~walking /\ stream
    /\ IF NativeIds
       THEN calls = pending_tool_calls /\ calls /= <<>> /\ UNCHANGED round
       ELSE round < MaxRounds /\ calls \in NewRounds /\ round' = round + 1

\* advance_turn with calls: commit the message that asks for them (its text,
\* if any, tells no property anything) and walk them.
StreamDoneWithCalls(calls) ==
    /\ Harvested(calls)
    /\ conversation' = Append(conversation, Calling(IdsOf(calls), FALSE))
    /\ pending_tool_calls' = calls /\ tool_idx' = 0 /\ tool_results' = <<>>
    /\ stream' = FALSE /\ buffer' = FALSE
    /\ walking' = TRUE
    /\ UNCHANGED <<waiting, active_turn, queueVars, awaiting_approval, classifyVars, taskVars, agentVars,
                   offThread, nudgeVars, modeVars, turns>>

\* ... or the workspace check refuses them all.
StreamDoneBlocked(calls) ==
    /\ Classifier
    /\ Harvested(calls)
    /\ Halt(Append(conversation, Calling(IdsOf(calls), FALSE)), calls)
    /\ stream' = FALSE /\ buffer' = FALSE
    /\ UNCHANGED turns

\* The turn is over; queued steers start the next one.
EndTurn(stored, left) ==
    /\ main_stall_nudges' = 0
    /\ \/ /\ pending_steer = 0
          /\ conversation' = stored
          /\ waiting' = FALSE /\ active_turn' = FALSE /\ stream' = FALSE /\ buffer' = left
          /\ UNCHANGED <<pending_steer, roundVars, awaiting_approval, classifyVars, taskVars>>
       \/ /\ pending_steer > 0 /\ pending_steer' = 0
          /\ conversation' = Append(stored, User)
          /\ ResetRound
          /\ BeginStream(TRUE, FALSE)

\* advance_turn without calls: the final answer, which may be empty.
StreamDone ==
    /\ ~walking /\ stream /\ pending_tool_calls = <<>>
    /\ \E answer \in {<<>>, <<Assistant>>, <<Promoted>>} : EndTurn(conversation \o answer, FALSE)
    /\ UNCHANGED <<agentVars, offThread, nudgeVars, modeVars, walking, counters>>

\* ... or an answer that stalled: nudge the model, and end the turn if no
\* stream starts.
StreamStalled ==
    /\ ~walking /\ stream /\ pending_tool_calls = <<>>
    /\ main_stall_nudges < StallBudget
    /\ LET nudged == conversation \o <<Assistant, User>> IN
       \/ /\ main_stall_nudges' = main_stall_nudges + 1
          /\ conversation' = nudged
          /\ BeginStream(FALSE, FALSE) /\ waiting'
          /\ UNCHANGED <<pending_steer, roundVars, awaiting_approval, classifyVars, taskVars>>
       \/ StartMayFail /\ EndTurn(nudged, TRUE)
    /\ UNCHANGED <<agentVars, offThread, nudgeVars, modeVars, walking, counters>>

\* StreamEvent::Error: the partial text is kept, the turn is over.
StreamError ==
    /\ ~walking /\ stream
    /\ \E partial \in {<<>>, <<Assistant>>} : conversation' = conversation \o partial
    /\ waiting' = FALSE /\ active_turn' = FALSE /\ stream' = FALSE /\ buffer' = FALSE
    /\ main_stall_nudges' = 0
    /\ ClearRound /\ awaiting_approval' = FALSE /\ ClearClassify
    /\ UNCHANGED <<pending_steer, taskVars, agentVars, offThread, nudgeVars, modeVars, walking, counters>>

StreamEnds ==
    \/ \E calls \in NewRounds \cup {pending_tool_calls} :
         StreamDoneWithCalls(calls) \/ StreamDoneBlocked(calls)
    \/ StreamDone \/ StreamStalled \/ StreamError

-----------------------------------------------------------------------------
(***************************************************************************)
(* The lanes: what off-thread work reports, and the resume gate.           *)
(***************************************************************************)

\* (Mutant: whatever arrives is folded.)
FoldAlways(work) ==
    /\ pending_tool_tasks' = pending_tool_tasks \ {work.id}
    /\ tool_results' = Append(tool_results, work)
\* Fold a result only while its id is pending; anything else is dropped.
FoldIfPending(work) ==
    IF work.id \in pending_tool_tasks
    THEN /\ pending_tool_tasks' = pending_tool_tasks \ {work.id}
         /\ tool_results' = Append(tool_results, work)
    ELSE UNCHANGED <<pending_tool_tasks, tool_results>>

\* A deferred tool ends (a panic is an answer too) and its result is drained.
FoldTask(work) ==
    /\ ~walking
    /\ threads' = threads \ {work}
    /\ FoldIfPending(work)
    /\ UNCHANGED <<turnVars, queueVars, pending_tool_calls, tool_idx, awaiting_approval, classifyVars,
                   awaiting_tool_tasks, agentVars, classifiers, bash_jobs, nudgeVars, conversation,
                   modeVars, walking, counters>>

\* The worker of a shell job exits, or hits its deadline.
BashExits(j) ==
    /\ bash_jobs[j].status = "running"
    /\ bash_jobs' = [bash_jobs EXCEPT ![j].status = "exited"]
    /\ UNCHANGED <<turnVars, queueVars, roundVars, awaiting_approval, classifyVars, taskVars, agentVars,
                   threads, classifiers, nudgeVars, conversation, modeVars, walking, counters>>

\* Its completion is drained: the answer of a call that still waits for it,
\* or a nudge.
DrainBash(j) ==
    /\ ~walking
    /\ bash_jobs[j].status = "exited"
    /\ bash_jobs' = [bash_jobs EXCEPT ![j].status = "reported", ![j].call = None]
    /\ IF bash_jobs[j].call /= None
       THEN /\ FoldIfPending([id |-> bash_jobs[j].call, from |-> bash_jobs[j].from])
            /\ UNCHANGED pending_bash_nudges
       ELSE /\ pending_bash_nudges' = (pending_bash_nudges \/ ~bash_jobs[j].suppress)
            /\ UNCHANGED <<pending_tool_tasks, tool_results>>
    /\ UNCHANGED <<turnVars, queueVars, pending_tool_calls, tool_idx, awaiting_approval, classifyVars,
                   awaiting_tool_tasks, agentVars, threads, classifiers, pending_subagent_nudges,
                   conversation, modeVars, walking, counters>>

\* The resume gate: parked on either lane, and both lanes empty.
\* (Mutant: parked on both.)
ParkedOnBoth == awaiting_subagents /\ awaiting_tool_tasks
ParkedOnWork == awaiting_subagents \/ awaiting_tool_tasks

GateOpen == ParkedOnWork /\ pending_subagent_calls = {} /\ pending_tool_tasks = {}

\* process_tools returns at once when it is parked on a question or a verdict.
\* (Mutant: it does not.)
EntersAlways == TRUE
Enters == ~awaiting_approval /\ ~awaiting_classify

\* resume_after_subagents
Resume ==
    /\ ~walking
    /\ GateOpen
    /\ awaiting_subagents' = FALSE /\ awaiting_tool_tasks' = FALSE
    /\ walking' = Enters
    /\ UNCHANGED <<turnVars, queueVars, roundVars, awaiting_approval, classifyVars, pending_tool_tasks,
                   subagents, pending_subagent_calls, offThread, nudgeVars, conversation, modeVars, counters>>

\* A verdict arrives: staged for the call the round is parked on, or dropped.
\* In a tick the lanes that open the gate come first, the gate next, the
\* verdicts last; a request (Ctrl+B) comes between two ticks.
DrainVerdict(work, verdict) ==
    /\ ~walking
    /\ ~GateOpen
    /\ classifiers' = classifiers \ {work}
    /\ IF awaiting_classify /\ tool_idx < Len(pending_tool_calls) /\ Current.id = work.id
       THEN /\ pending_classify_verdict' = {[work |-> work, verdict |-> verdict]}
            /\ awaiting_classify' = FALSE
            /\ walking' = ~awaiting_approval
       ELSE UNCHANGED <<classifyVars, walking>>
    /\ UNCHANGED <<turnVars, queueVars, roundVars, awaiting_approval, taskVars, agentVars, threads,
                   bash_jobs, nudgeVars, conversation, modeVars, counters>>

\* The records whose report answers a call that is still waited for.  Records
\* are never pruned, and `nudged` is not looked at.
Deliverable(subs) ==
    {i \in DOMAIN subs : /\ subs[i].status /= "running" /\ ~subs[i].detached
                         /\ subs[i].call \in pending_subagent_calls}
\* Terminal records tied to no call that were not announced yet.
Unannounced(subs) ==
    {i \in DOMAIN subs : subs[i].status /= "running" /\ subs[i].call = None /\ ~subs[i].nudged}
\* A finished /task leaves its report in the conversation at once.
TaskNotes(subs) == {i \in Unannounced(subs) : ~subs[i].detached /\ subs[i].status = "done"}

\* drain_subagents over the records `subs`.
DrainSubagents(subs) ==
    /\ ~walking
    /\ subagents' = [i \in DOMAIN subs |->
                       IF i \in Unannounced(subs) THEN [subs[i] EXCEPT !.nudged = TRUE] ELSE subs[i]]
    /\ pending_subagent_calls' =
         pending_subagent_calls \ {subs[i].call : i \in Deliverable(subs)}
    /\ \E order \in [1..Cardinality(Deliverable(subs)) -> Deliverable(subs)] :
         /\ \A k, l \in DOMAIN order : k < l => order[k] < order[l]
         /\ {order[k] : k \in DOMAIN order} = Deliverable(subs)
         /\ tool_results' = tool_results \o
              [k \in DOMAIN order |-> [id |-> subs[order[k]].call, from |-> subs[order[k]].from]]
    /\ pending_subagent_nudges' =
         (pending_subagent_nudges \/ \E i \in Unannounced(subs) : subs[i].detached)
    /\ conversation' = conversation \o [k \in 1..Cardinality(TaskNotes(subs)) |-> User]
    /\ UNCHANGED <<turnVars, queueVars, pending_tool_calls, tool_idx, awaiting_approval, classifyVars,
                   taskVars, awaiting_subagents, offThread, pending_bash_nudges, modeVars, walking,
                   counters>>

\* A sub-agent ends, or is killed or fails, and the tick drains the records.
SubagentEnds(i) ==
    /\ subagents[i].status = "running"
    /\ \E end \in {"done", "killed"} : DrainSubagents([subagents EXCEPT ![i].status = end])

\* A tick on which no sub-agent ended finds a record to deliver or announce.
RevisitSubagents ==
    /\ Deliverable(subagents) \cup Unannounced(subagents) /= {}
    /\ DrainSubagents(subagents)

\* The completion wakes: only an idle session is woken, with one user message.
Wake ==
    /\ ~walking /\ ~IsWorking
    /\ turns < MaxTurns /\ turns' = turns + 1
    /\ conversation' = Append(conversation, User)
    /\ ResetRound
    /\ BeginStream(FALSE, stream)
    /\ UNCHANGED <<queueVars, agentVars, offThread, modeVars, walking, round>>

WakeForBash ==
    /\ pending_bash_nudges /\ pending_bash_nudges' = FALSE
    /\ UNCHANGED pending_subagent_nudges
    /\ Wake

WakeForSubagent ==
    /\ pending_subagent_nudges /\ pending_subagent_nudges' = FALSE
    /\ UNCHANGED pending_bash_nudges
    /\ Wake

-----------------------------------------------------------------------------

Request ==
    \/ Submit \/ SubmitRefused \/ Steer \/ Resend
    \/ Interrupt \/ InterruptRewind \/ Approve \/ Deny \/ ParkTimeout
    \/ SetMode \/ SetModeStops \/ Attach \/ StartTask
    \/ \E i \in DOMAIN subagents : BackgroundSubagent(i)
    \/ \E j \in DOMAIN bash_jobs : BackgroundBash(j)

Reports ==
    \/ \E work \in threads : FoldTask(work)
    \/ \E j \in DOMAIN bash_jobs : BashExits(j) \/ DrainBash(j)
    \/ \E work \in classifiers, verdict \in Verdict : DrainVerdict(work, verdict)
    \/ \E i \in DOMAIN subagents : SubagentEnds(i)

Wakes == WakeForBash \/ WakeForSubagent

Next ==
    \/ Request
    \/ StreamToolCalls \/ StreamEnds
    \/ ProcessTools
    \/ Reports
    \/ RevisitSubagents
    \/ Resume
    \/ Wakes

Spec == Init /\ [][Next]_vars

\* A stream ends (the service times it out), a tool, a job, a classifier and a
\* sub-agent report in the end, and the loop keeps ticking.  Nothing is asked
\* of the user, nor of the model but that it stops.
Fairness ==
    /\ WF_vars(StreamEnds)
    /\ WF_vars(ProcessTools)
    /\ WF_vars(\E work \in threads : FoldTask(work))
    /\ WF_vars(\E j \in DOMAIN bash_jobs : BashExits(j))
    /\ WF_vars(\E j \in DOMAIN bash_jobs : DrainBash(j))
    /\ WF_vars(\E work \in classifiers, verdict \in Verdict : DrainVerdict(work, verdict))
    /\ WF_vars(\E i \in DOMAIN subagents : SubagentEnds(i))
    /\ WF_vars(RevisitSubagents)
    /\ WF_vars(Resume)
    /\ WF_vars(Wakes)

FairSpec == Spec /\ Fairness

====
