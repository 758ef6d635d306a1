---- MODULE TurnTools ----
(***************************************************************************)
(* process_tools: the loop that walks the calls of a round.                *)
(*                                                                         *)
(* It runs on the session's only thread and nothing else happens there     *)
(* until it returns: `walking` says it is on the stack.  One Walk action   *)
(* is one iteration; the ones that clear `walking` are its returns.        *)
(***************************************************************************)
EXTENDS TurnState

Current == pending_tool_calls[tool_idx + 1]

\* An iteration on a call of one of these kinds.
AtCall(kinds) ==
    /\ walking
    /\ tool_idx < Len(pending_tool_calls)
    /\ Current.kind \in kinds

\* The call is answered on the spot and the loop goes on.
AnswerNow ==
    /\ tool_results' = Append(tool_results, WorkFor(Current))
    /\ tool_idx' = tool_idx + 1
    /\ UNCHANGED walking

\* What no iteration touches.
OutsideTools == UNCHANGED <<pending_tool_calls, queueVars, nudgeVars, modeVars, counters>>

-----------------------------------------------------------------------------

\* run_tool, an intercepted tool, or a call of any kind refused before its gate.
WalkInline ==
    /\ AtCall(Kinds)
    /\ AnswerNow
    /\ OutsideTools
    /\ UNCHANGED <<turnVars, awaiting_approval, classifyVars, taskVars, agentVars, offThread, conversation>>

\* load_image and load_screenshot attach the picture as a user message at once.
WalkImage ==
    /\ AtCall({"image"})
    /\ AnswerNow
    /\ conversation' = Append(conversation, User)
    /\ OutsideTools
    /\ UNCHANGED <<turnVars, awaiting_approval, classifyVars, taskVars, agentVars, offThread>>

WalkDeferred ==
    /\ AtCall({"deferred"})
    /\ DispatchDeferred(Current)
    /\ OutsideTools
    /\ UNCHANGED <<turnVars, tool_results, awaiting_approval, classifyVars, agentVars,
                   classifiers, bash_jobs, conversation>>

\* intercept_bash_background, foreground: the round parks on the job.
WalkBash ==
    /\ AtCall({"bash"})
    /\ bash_jobs' = Append(bash_jobs, [call |-> Current.id, from |-> round,
                                       status |-> "running", suppress |-> FALSE])
    /\ pending_tool_tasks' = pending_tool_tasks \cup {Current.id}
    /\ awaiting_tool_tasks' = TRUE
    /\ tool_idx' = tool_idx + 1
    /\ walking' = FALSE
    /\ OutsideTools
    /\ UNCHANGED <<turnVars, tool_results, awaiting_approval, classifyVars, agentVars,
                   threads, classifiers, conversation>>

\* ... and with run_in_background.
WalkBackgroundBash ==
    /\ AtCall({"bgbash"})
    /\ bash_jobs' = Append(bash_jobs, [call |-> None, from |-> round,
                                       status |-> "running", suppress |-> FALSE])
    /\ AnswerNow
    /\ OutsideTools
    /\ UNCHANGED <<turnVars, awaiting_approval, classifyVars, taskVars, agentVars,
                   threads, classifiers, conversation>>

NewAgent(call, detached) == [call |-> call, from |-> round, status |-> "running",
                             detached |-> detached, nudged |-> FALSE]

\* The round is parked on the agent at once, not at the end of the loop, which
\* a later call may never let it reach.  (Mutant: at the end of the loop.)
ParkAtLoopEnd == UNCHANGED awaiting_subagents
ParkOnAgent == awaiting_subagents' = TRUE

\* intercept_task: a blocking delegation is answered when the agent ends.
WalkTask ==
    /\ AtCall({"task"})
    /\ Len(subagents) < MaxAgents
    /\ subagents' = Append(subagents, NewAgent(Current.id, FALSE))
    /\ pending_subagent_calls' = pending_subagent_calls \cup {Current.id}
    /\ ParkOnAgent
    /\ tool_idx' = tool_idx + 1
    /\ OutsideTools
    /\ UNCHANGED <<turnVars, tool_results, awaiting_approval, classifyVars, taskVars,
                   offThread, conversation, walking>>

WalkBackgroundTask ==
    /\ AtCall({"bgtask"})
    /\ Len(subagents) < MaxAgents
    /\ subagents' = Append(subagents, NewAgent(None, TRUE))
    /\ AnswerNow
    /\ OutsideTools
    /\ UNCHANGED <<turnVars, awaiting_approval, classifyVars, taskVars, pending_subagent_calls,
                   awaiting_subagents, offThread, conversation>>

-----------------------------------------------------------------------------
(***************************************************************************)
(* A risky call: the mode, the classifier and the policy decide whether it *)
(* runs, is put to the user, or is answered without running.               *)
(***************************************************************************)

Classified == Classifier /\ agent_mode /= "yolo"
\* The verdict staged for the current call, if any.
Staged == {p.verdict : p \in {q \in pending_classify_verdict : q.work.id = Current.id}}

\* (Mutant: an outage lets the call run.)
MayRunUnlessBlocked == agent_mode = "yolo" \/ (agent_mode = "auto" /\ "block" \notin Staged)
MayRun == \/ agent_mode = "yolo"
          \/ agent_mode = "auto" /\ (~Classifier \/ "allow" \in Staged)
\* park_classifier_unavailable, and what Normal asks about.
NeedsUser == \/ Classified /\ "unavailable" \in Staged /\ approver
             \/ agent_mode = "normal" /\ (~Classifier \/ Staged \cap {"allow", "block"} /= {})
Bounced == \/ Classified /\ "unavailable" \in Staged /\ ~approver
           \/ Classified /\ agent_mode = "auto" /\ "block" \in Staged

\* pending_classify_verdict.take(): Yolo never looks.
TakeVerdict ==
    pending_classify_verdict' = IF Classified THEN {} ELSE pending_classify_verdict

\* spawn_classify_park: no verdict of its own yet, so ask the classifier.
WalkClassify ==
    /\ AtCall({"risky"})
    /\ Classified /\ Staged = {}
    /\ classifiers' = classifiers \cup {WorkFor(Current)}
    /\ awaiting_classify' = TRUE
    /\ TakeVerdict
    /\ walking' = FALSE
    /\ OutsideTools
    /\ UNCHANGED <<turnVars, tool_idx, tool_results, awaiting_approval, taskVars, agentVars,
                   threads, bash_jobs, conversation>>

WalkRisky ==
    /\ AtCall({"risky"})
    /\ MayRun
    /\ DispatchDeferred(Current)
    /\ TakeVerdict
    /\ OutsideTools
    /\ UNCHANGED <<turnVars, tool_results, awaiting_approval, awaiting_classify, agentVars,
                   classifiers, bash_jobs, conversation>>

\* park_or_reject and park_classifier_unavailable, parking.
WalkAsk ==
    /\ AtCall({"risky"})
    /\ NeedsUser /\ ~RejectPolicy
    /\ awaiting_approval' = TRUE
    /\ TakeVerdict
    /\ walking' = FALSE
    /\ OutsideTools
    /\ UNCHANGED <<turnVars, tool_idx, tool_results, awaiting_classify, taskVars, agentVars,
                   offThread, conversation>>

\* Blocked, bounced, or rejected by the policy: answered without running.
WalkRefuse ==
    /\ AtCall({"risky"})
    /\ Bounced \/ (NeedsUser /\ RejectPolicy)
    /\ AnswerNow
    /\ TakeVerdict
    /\ OutsideTools
    /\ UNCHANGED <<turnVars, awaiting_approval, awaiting_classify, taskVars, agentVars,
                   offThread, conversation>>

-----------------------------------------------------------------------------

AtEnd == walking /\ tool_idx >= Len(pending_tool_calls)

\* Every call was walked, some are still out: the round parks on them.
WalkPark ==
    /\ AtEnd
    /\ pending_subagent_calls /= {} \/ pending_tool_tasks /= {}
    /\ awaiting_subagents' = (awaiting_subagents \/ pending_subagent_calls /= {})
    /\ awaiting_tool_tasks' = (awaiting_tool_tasks \/ pending_tool_tasks /= {})
    /\ walking' = FALSE
    /\ OutsideTools
    /\ UNCHANGED <<turnVars, tool_idx, tool_results, awaiting_approval, classifyVars,
                   pending_tool_tasks, subagents, pending_subagent_calls, offThread, conversation>>

\* The queued steers become one message, after the results.
\* (Mutant: before them.)
Followups == IF pending_steer > 0 THEN <<User>> ELSE <<>>
FollowupsFirst == Followups \o Answers(tool_results)
RoundFlush == Answers(tool_results) \o Followups

\* finish_tool_round: flush the results, deliver the queued steers as one
\* message, clear the round and stream again.
FinishToolRound ==
    /\ AtEnd
    /\ pending_subagent_calls = {} /\ pending_tool_tasks = {}
    /\ conversation' = conversation \o RoundFlush
    /\ pending_steer' = 0
    /\ ClearRound
    /\ BeginStream(FALSE, stream)
    /\ walking' = FALSE
    /\ UNCHANGED <<main_stall_nudges, awaiting_approval, classifyVars, taskVars, agentVars,
                   offThread, nudgeVars, modeVars, counters>>

\* One step of process_tools.
ProcessTools ==
    \/ WalkInline \/ WalkImage \/ WalkDeferred
    \/ WalkBash \/ WalkBackgroundBash \/ WalkTask \/ WalkBackgroundTask
    \/ WalkClassify \/ WalkRisky \/ WalkAsk \/ WalkRefuse
    \/ WalkPark \/ FinishToolRound

====
