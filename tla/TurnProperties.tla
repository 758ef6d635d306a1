---- MODULE TurnProperties ----
(***************************************************************************)
(* What the turn engine must get right.                                    *)
(***************************************************************************)
EXTENDS TurnEngine

AnsweredIds == {tool_results[k].id : k \in DOMAIN tool_results}
WalkedIds == {pending_tool_calls[k].id : k \in 1..tool_idx}

\* Every call that process_tools has walked past is in exactly one place: it is
\* answered once, or its off-thread result is waited for, or its sub-agent is.
\* A Ctrl+B racing a completion, a kill racing a report, or a late result may
\* neither lose a call of the round nor answer it twice.
RoundAccounting ==
    /\ WalkedIds = AnsweredIds \cup pending_tool_tasks \cup pending_subagent_calls
    /\ AnsweredIds \cap (pending_tool_tasks \cup pending_subagent_calls) = {}
    /\ pending_tool_tasks \cap pending_subagent_calls = {}
    /\ \A k, l \in DOMAIN tool_results : tool_results[k].id = tool_results[l].id => k = l

\* No result of an earlier round is folded into the round in progress: "anything
\* else is a stale delivery from a killed/interrupted turn and must be discarded
\* rather than corrupting the next turn" (event_loop/sessions/deferred.rs).
AnswersOwnCall == \A k \in DOMAIN tool_results : tool_results[k].from = round

\* What moves a turn that waits: a stream, the user, a verdict or a park.
Moves == waiting /\ ~walking =>
    stream \/ awaiting_approval \/ awaiting_classify \/ awaiting_tool_tasks \/ awaiting_subagents

\* Every id a lane waits for has a live producer.
TasksServed ==
    /\ pending_tool_tasks /= {} => awaiting_tool_tasks
    /\ \A id \in pending_tool_tasks :
         \/ \E work \in threads : work.id = id
         \/ \E j \in DOMAIN bash_jobs : bash_jobs[j].call = id /\ bash_jobs[j].status /= "reported"
AgentsServed ==
    /\ pending_subagent_calls /= {} => awaiting_subagents
    /\ \A id \in pending_subagent_calls :
         \E i \in DOMAIN subagents : subagents[i].call = id /\ ~subagents[i].detached
VerdictComes ==
    awaiting_classify =>
        /\ tool_idx < Len(pending_tool_calls)
        /\ \E work \in classifiers : work.id = Current.id

\* A turn that waits has something that will move it: a stream, the user's
\* answer, a verdict on its way, or a park whose every id has a live producer.
NoLostWakeUp == Moves /\ TasksServed /\ AgentsServed /\ VerdictComes

\* What is put to the user is a risky call that is not running: an approval
\* parks the loop on it, and nothing walks past it meanwhile.
ParkedOnRiskyCall ==
    awaiting_approval =>
        /\ ~walking /\ ~awaiting_classify /\ ~stream
        /\ tool_idx < Len(pending_tool_calls) /\ Current.kind = "risky"
        /\ Current.id \notin AnsweredIds \cup pending_tool_tasks

\* A risky call runs only if the user approved it, the mode is Yolo, or the
\* mode is Auto and the classifier, when there is one, allowed this very call.
NoUngatedRun ==
    [][\A work \in threads' \ threads :
         Current.kind = "risky" =>
            \/ awaiting_approval
            \/ agent_mode = "yolo"
            \/ agent_mode = "auto" /\ ~Classifier
            \/ agent_mode = "auto" /\ \E p \in pending_classify_verdict :
                                        p.verdict = "allow" /\ p.work = work]_vars

\* Whatever happened to earlier rounds, what history() sends is a request the
\* provider accepts: it "strips dangling tool-call groups ... so the caller can
\* always forward the result to the API safely" (model/conversation.rs).
WireValid == ApiValid(History(conversation))

\* finish_tool_round re-streams "so the model sees the tool outputs": the
\* request it starts carries the answer of every call of the round.
ModelSeesResults ==
    [][walking /\ pending_tool_calls /= <<>> /\ pending_tool_calls' = <<>> =>
         IdsOf(pending_tool_calls) \subseteq AnswersSeen(History(conversation'))]_vars

\* Denying a parked call "keeps every tool_call id answered": after it the next
\* request still carries the round.
DenialAnswersRound ==
    [][awaiting_approval /\ pending_tool_calls' = <<>> /\ Len(conversation') > Len(conversation) =>
         IdsOf(pending_tool_calls) \subseteq AnswersSeen(History(conversation'))]_vars

\* The tool loop runs only for a turn that is on: a halted turn runs no tool.
HaltedTurnRunsNoTool == walking => waiting

\* A turn that waits ends, or comes to a question only the user can answer.
TurnEnds == waiting ~> (~waiting \/ awaiting_approval)

\* A completion that wants to wake the session does so in the end, unless the
\* session is parked on the user (or the bound on turns is reached).
CompletionWakes ==
    (pending_bash_nudges \/ pending_subagent_nudges) ~>
        \/ ~pending_bash_nudges /\ ~pending_subagent_nudges
        \/ awaiting_approval \/ turns = MaxTurns

====
