---- MODULE TurnInvariant ----
(***************************************************************************)
(* The inductive invariants behind the theorems about the turn engine,     *)
(* kept apart from the proofs so that TLC can check them too.              *)
(***************************************************************************)
EXTENDS TurnProperties

\* Where a turn can be: in a stream, in the tool loop, or parked; and the round
\* of a parked approval has a risky call to approve.
Phases ==
    /\ stream \/ walking \/ awaiting_approval \/ awaiting_classify \/ ParkedOnWork => waiting
    /\ stream \/ ~waiting => tool_idx = 0
    /\ stream => ~walking /\ ~awaiting_approval /\ ~awaiting_classify /\ ~ParkedOnWork
    /\ walking => ~awaiting_approval /\ ~awaiting_classify /\ ~GateOpen
    /\ awaiting_approval =>
         ~awaiting_classify /\ tool_idx < Len(pending_tool_calls) /\ Current.kind = "risky"

\* Calls, and agents that answer one, belong to a round that was asked for.
Asked ==
    /\ pending_tool_calls /= <<>> => round > 0
    /\ \A i \in DOMAIN subagents : subagents[i].call /= None => subagents[i].from > 0

\* Inductive when a denial only answers a parked call (~LateDeny): the phases
\* are what keeps tool_idx inside the round.
PhaseInv == TypeOK /\ Phases /\ Asked

-----------------------------------------------------------------------------

\* The calls of the round carry its number.
Numbered == \A k \in DOMAIN pending_tool_calls : pending_tool_calls[k].id = <<round, k>>

\* Outside a round nothing is collected and nothing is waited for.
Quiet ==
    stream \/ ~waiting =>
        tool_results = <<>> /\ pending_tool_tasks = {} /\ pending_subagent_calls = {}

\* A deferred call or a shell job stops the loop, so it is never out while the
\* loop runs or stands at a gate.
TasksStopTheLoop == walking \/ awaiting_approval \/ awaiting_classify => pending_tool_tasks = {}

\* An id that was handed out: of an earlier round, or walked past.
HandedOut(id) == id[1] <= round /\ (id[1] = round /\ pending_tool_calls /= <<>> => id[2] <= tool_idx)

\* Off-thread work answers the call it was started for.
Owned ==
    /\ \A k \in DOMAIN tool_results : tool_results[k].id[1] = tool_results[k].from
    /\ \A work \in threads : work.id[1] = work.from /\ HandedOut(work.id)
    /\ \A work \in classifiers : work.id[1] = work.from
    /\ \A p \in pending_classify_verdict : p.work.id[1] = p.work.from
    /\ \A j \in DOMAIN bash_jobs : bash_jobs[j].call /= None =>
         bash_jobs[j].call[1] = bash_jobs[j].from /\ HandedOut(bash_jobs[j].call)
    /\ \A i \in DOMAIN subagents : subagents[i].call /= None =>
         subagents[i].call[1] = subagents[i].from /\ HandedOut(subagents[i].call)

\* No two workers answer one call.
OneWorkerPerCall ==
    /\ \A i, j \in DOMAIN subagents : subagents[i].call = subagents[j].call =>
         i = j \/ subagents[i].call = None
    /\ \A i, j \in DOMAIN bash_jobs : bash_jobs[i].call = bash_jobs[j].call =>
         i = j \/ bash_jobs[i].call = None
    /\ \A j \in DOMAIN bash_jobs, work \in threads : bash_jobs[j].call /= work.id

\* What still runs for a call is waited for.
RunningIsAwaited ==
    /\ \A i \in DOMAIN subagents : subagents[i].call /= None =>
         /\ ~subagents[i].detached
         /\ subagents[i].status = "running" => subagents[i].call \in pending_subagent_calls
    /\ \A j \in DOMAIN bash_jobs :
         bash_jobs[j].status = "running" /\ bash_jobs[j].call /= None =>
            bash_jobs[j].call \in pending_tool_tasks

\* Inductive on top of PhaseInv when the provider numbers its calls (NativeIds).
AccountInv ==
    /\ Numbered /\ Quiet /\ TasksStopTheLoop
    /\ Owned /\ OneWorkerPerCall /\ RunningIsAwaited
    /\ RoundAccounting

-----------------------------------------------------------------------------

\* In each role an id is named by one message: it is asked for once and answered once.
NamedOnce(msgs) == \A i, j \in DOMAIN msgs :
    msgs[i].role = msgs[j].role /\ msgs[i].ids \cap msgs[j].ids /= {} => i = j

\* The conversation names no call of a round to come, and of the round in
\* progress no answer yet, nor the calls while they are still streamed.
NamesThePast == \A i \in DOMAIN conversation : \A id \in conversation[i].ids :
    /\ id[1] <= round
    /\ pending_tool_calls /= <<>> /\ (stream \/ conversation[i].role = "tool") => id[1] < round

\* Calls belong to a turn that is on.
CallsOfATurn == pending_tool_calls /= <<>> => waiting

\* Inductive on top of PhaseInv and AccountInv.
WireInv == CallsOfATurn /\ NamedOnce(conversation) /\ NamesThePast

\* While the calls of a round are walked, the message that asks for them is the
\* last of the conversation: nothing is written between a request and its
\* answers, neither the note of a finished /task nor a partial text.
RequestIsLast ==
    pending_tool_calls /= <<>> /\ ~stream =>
        /\ ~buffer /\ conversation /= <<>>
        /\ conversation[Len(conversation)] = Calling(IdsOf(pending_tool_calls), FALSE)

NoUsersAgent == \A i \in DOMAIN subagents : subagents[i].call = None => subagents[i].detached

\* Inductive on top of PhaseInv when the user starts no sub-agent of his own
\* (~TaskCommand) and no tool attaches a picture.
OpenRoundInv == RequestIsLast /\ NoUsersAgent

====
