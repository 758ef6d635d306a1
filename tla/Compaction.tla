------------------------------ MODULE Compaction ------------------------------
(***************************************************************************)
(* One session's conversation while it is compacted: /compact, the         *)
(* compactor's off-thread request, the result held back for the animation, *)
(* and the approval of a plan that compacts first and then executes the    *)
(* plan.  Everything else that may reach the conversation meanwhile is     *)
(* here too: turns, plan decisions, mode changes, interrupt, clear, rewind *)
(* and resend, `!` commands and the notes of /task agents.  The tool loop  *)
(* of a turn is TurnEngine's; of it only plan_ready is kept.               *)
(*                                                                         *)
(* A message is a kind and the identities it stands for: its own, or those *)
(* a summary replaces.  The system message is left out.                    *)
(***************************************************************************)
EXTENDS Integers, Sequences

CONSTANTS
    Modes,      \* the agent modes the user switches between
    Plans,      \* what a plan may say
    PreserveN,  \* settings.compaction.preserve_n
    YoloArmed,  \* whether the process was started with Yolo available
    MaxSaid,    \* bound: messages said before nobody starts anything new
    MaxAgents,  \* bound: /task agents out at a time
    NoPlan, NoMode, NoRequest

\* What the conversation is made of, and what a compactor is asked: the messages it
\* replaces, the tail it keeps, who asked, and how much had been said by then.
Kinds    == {"user", "assistant", "calls", "tool", "note", "execute", "summary"}
Messages == [kind : Kinds, of : SUBSET Nat]
Requests == [covers : SUBSET Nat, tail : Seq(Messages), asked : {"user", "approval"}, until : Nat]

ASSUME CompactionAssumption ==
    /\ Modes \subseteq {"normal", "auto", "yolo", "plan", "sdlc"}
    /\ "auto" \in Modes
    /\ NoMode \notin Modes
    /\ NoPlan \notin Plans /\ NoRequest \notin Requests
    /\ PreserveN \in Nat /\ MaxSaid \in Nat /\ MaxAgents \in Nat
    /\ YoloArmed \in BOOLEAN

Executing == {"normal", "auto", "yolo"}

VARIABLES
    conversation,       \* the messages after the system message
    said,               \* how many messages were ever pushed
    waiting,
    active_rx,          \* whose events the session listens to
    request,            \* what the compactor was asked, and what it will keep
    compact_anim_start, \* whether a compaction is under way
    compact_pending,    \* a result held back until compact_apply_at
    pending_plan_seed,  \* the approved body to execute after the compaction
    approved_plan,      \* what the classifier knows of the approved plan
    parked,             \* the plan of the plan_ready call that awaits a decision
    agent_mode, plan_return_mode,
    awaiting_shell,     \* a `!` command runs
    tasks               \* how many /task agents run

turnVars    == <<waiting, active_rx, parked>>
compactVars == <<request, compact_anim_start, compact_pending>>
planVars    == <<pending_plan_seed, approved_plan>>
modeVars    == <<agent_mode, plan_return_mode>>
sideVars    == <<awaiting_shell, tasks>>
talkVars    == <<conversation, said>>
vars == <<conversation, said, waiting, active_rx, request, compact_anim_start, compact_pending,
          pending_plan_seed, approved_plan, parked, agent_mode, plan_return_mode, awaiting_shell,
          tasks>>

Init ==
    /\ conversation = <<>> /\ said = 0
    /\ waiting = FALSE /\ active_rx = "none" /\ parked = NoPlan
    /\ request = NoRequest /\ compact_anim_start = FALSE /\ compact_pending = NoRequest
    /\ pending_plan_seed = NoPlan /\ approved_plan = NoPlan
    /\ agent_mode = "auto" /\ plan_return_mode = NoMode
    /\ awaiting_shell = FALSE /\ tasks = 0

-----------------------------------------------------------------------------
(* Messages.                                                               *)

Message(kind, id) == [kind |-> kind, of |-> {id}]

IsUser(m)      == m.kind \in {"user", "note", "execute"}
IsAssistant(m) == m.kind \in {"assistant", "calls", "summary"}

Standing(messages) == UNION {messages[k].of : k \in DOMAIN messages}

Pushed(messages, kinds) == messages \o [k \in DOMAIN kinds |-> Message(kinds[k], said + k)]

\* The `kinds`, in their order, are pushed.
Say(kinds) ==
    /\ conversation' = Pushed(conversation, kinds)
    /\ said' = said + Len(kinds)

\* A plan_ready call and its answer with something between them, or one without
\* the other: strip_dangling_tool_calls leaves both out.
Torn(messages, k) ==
    \/ messages[k].kind = "calls" /\ (k = Len(messages) \/ messages[k + 1].kind # "tool")
    \/ messages[k].kind = "tool" /\ (k = 1 \/ messages[k - 1].kind # "calls")

-----------------------------------------------------------------------------
(* Requests and results.                                                   *)

\* (Mutant: the oldest message to keep is forgotten.)
KeptTailShort(messages, at) == SubSeq(messages, at + 2, Len(messages))

KeptTail(messages, at) == SubSeq(messages, at + 1, Len(messages))

\* split_for_compaction.  `asked` (by whom) and `until` (what had been said)
\* only tell one request from another.
Split(messages, preserve, asked) ==
    LET at  == IF Len(messages) > preserve THEN Len(messages) - preserve ELSE 0
        old == SubSeq(messages, 1, at)
    IN  [covers |-> UNION {old[k].of : k \in {k \in 1..at : ~Torn(old, k)}},
         tail |-> KeptTail(messages, at),
         asked |-> asked, until |-> said']

\* start_stream_task: an extension that cannot be refreshed ends the turn.
StartStream ==
    \E started \in BOOLEAN :
        /\ waiting' = started
        /\ active_rx' = IF started THEN "turn" ELSE "none"

\* (Mutant: what the renderer looks at is left behind, as interrupt() leaves it.)
DropResult ==
    request' = NoRequest /\ compact_pending' = NoRequest /\ UNCHANGED compact_anim_start

\* The compaction is forgotten, by whoever cut it or because it failed.
DropCompaction ==
    request' = NoRequest /\ compact_pending' = NoRequest /\ compact_anim_start' = FALSE

\* handle_compact on a session that does not wait.
HandleCompact(messages, preserve, asked, seed) ==
    LET split == Split(messages, preserve, asked)
    IN  \/ /\ split.covers = {}
           /\ pending_plan_seed' = NoPlan
           /\ waiting' = FALSE
           /\ UNCHANGED <<active_rx, compactVars>>
        \/ /\ split.covers # {}
           /\ pending_plan_seed' = seed
           /\ waiting' = TRUE /\ active_rx' = "compact"
           /\ request' = split /\ compact_anim_start' = TRUE /\ compact_pending' = NoRequest

-----------------------------------------------------------------------------
(* Turns.                                                                  *)

Idle == ~waiting /\ ~awaiting_shell /\ said < MaxSaid

Submit ==
    /\ Idle
    /\ Say(<<"user">>)
    /\ StartStream
    /\ UNCHANGED <<compactVars, planVars, modeVars, sideVars, parked>>

Resend ==
    /\ Idle
    /\ \E k \in DOMAIN conversation : IsUser(conversation[k])
    /\ \E n \in DOMAIN conversation :
           /\ ~IsAssistant(conversation[n])
           /\ \A k \in n + 1..Len(conversation) : IsAssistant(conversation[k])
           /\ conversation' = SubSeq(conversation, 1, n)
    /\ StartStream
    /\ UNCHANGED <<said, compactVars, planVars, modeVars, sideVars, parked>>

\* The model answers: the turn is over.
Answer ==
    /\ active_rx = "turn"
    /\ Say(<<"assistant">>)
    /\ waiting' = FALSE /\ active_rx' = "none"
    /\ UNCHANGED <<compactVars, planVars, modeVars, sideVars, parked>>

\* finish_stream commits what has been streamed, if anything.
StreamError ==
    /\ active_rx = "turn"
    /\ UNCHANGED talkVars \/ Say(<<"assistant">>)
    /\ waiting' = FALSE /\ active_rx' = "none"
    /\ DropCompaction
    /\ pending_plan_seed' = NoPlan
    /\ UNCHANGED <<approved_plan, modeVars, sideVars, parked>>

-----------------------------------------------------------------------------
(* Plan mode.                                                              *)

\* (Mutant: only plan mode disarms.)
DisarmsOnPlan(mode) == mode = "plan"

\* Whether going to `mode` clears the seed.
Disarms(mode) == mode \in {"plan", "sdlc"} \/ agent_mode = "sdlc"

\* The rails of set_agent_mode_at; `approved` is what the caller leaves.
EnterMode(mode, approved) ==
    /\ agent_mode' = mode
    /\ plan_return_mode' = CASE mode = "plan" -> agent_mode
                             [] agent_mode = "plan" -> NoMode
                             [] OTHER -> plan_return_mode
    /\ pending_plan_seed' = IF Disarms(mode) THEN NoPlan ELSE pending_plan_seed
    /\ approved_plan' = IF mode \in {"plan", "sdlc"} THEN NoPlan ELSE approved

\* plan_enter, by the model; its round goes on in plan mode.
PlanEnter ==
    /\ active_rx = "turn" /\ agent_mode # "plan" /\ "plan" \in Modes
    /\ said < MaxSaid
    /\ Say(<<"calls", "tool">>)
    /\ EnterMode("plan", approved_plan)
    /\ StartStream
    /\ UNCHANGED <<compactVars, sideVars, parked>>

\* plan_ready: parked for the user, unless work still runs.
PlanReady(plan) ==
    /\ active_rx = "turn" /\ agent_mode = "plan"
    /\ said < MaxSaid
    /\ \/ /\ tasks = 0
          /\ Say(<<"calls">>)
          /\ parked' = plan /\ active_rx' = "none"
          /\ UNCHANGED waiting
       \/ /\ tasks > 0
          /\ Say(<<"calls", "tool">>)
          /\ StartStream
          /\ UNCHANGED parked
    /\ UNCHANGED <<compactVars, planVars, modeVars, sideVars>>

\* restore_plan_return_mode: Auto, or Yolo if it is armed and was left for Plan.
ReturnMode == IF plan_return_mode = "yolo" /\ YoloArmed THEN "yolo" ELSE "auto"

ApprovePlan ==
    /\ parked # NoPlan
    /\ Say(<<"tool">>)
    /\ EnterMode(ReturnMode, parked)
    /\ parked' = NoPlan
    /\ StartStream
    /\ UNCHANGED <<compactVars, sideVars>>

\* Compact everything first; the seed then starts the execution.
ApprovePlanCompact ==
    /\ parked # NoPlan
    /\ Say(<<"tool">>)
    /\ agent_mode' = ReturnMode /\ plan_return_mode' = NoMode
    /\ approved_plan' = parked
    /\ parked' = NoPlan
    /\ HandleCompact(Pushed(conversation, <<"tool">>), 0, "approval", parked)
    /\ UNCHANGED sideVars

DenyPlan ==
    /\ parked # NoPlan
    /\ Say(<<"tool">>)
    /\ pending_plan_seed' = NoPlan /\ approved_plan' = NoPlan
    /\ parked' = NoPlan
    /\ StartStream
    /\ UNCHANGED <<compactVars, modeVars, sideVars>>

-----------------------------------------------------------------------------
(* Compaction.                                                             *)

\* /compact.  While the session waits it only disarms the seed.
Compact ==
    /\ UNCHANGED talkVars
    /\ \/ /\ waiting
          /\ pending_plan_seed' = NoPlan
          /\ UNCHANGED <<waiting, active_rx, compactVars>>
       \/ /\ ~waiting
          /\ HandleCompact(conversation, PreserveN, "user", pending_plan_seed)
    /\ UNCHANGED <<approved_plan, modeVars, sideVars, parked>>

\* fail_compaction.
FailCompaction ==
    /\ DropCompaction
    /\ waiting' = FALSE /\ active_rx' = "none"
    /\ pending_plan_seed' = NoPlan
    /\ UNCHANGED talkVars

Summary(result) == [kind |-> "summary", of |-> result.covers]

\* apply_compaction_result.  The seed is spent whatever becomes of it; a save
\* that fails restores the conversation.
Apply(result) ==
    /\ compact_anim_start
    /\ \/ FailCompaction
       \/ LET rebuilt  == <<Summary(result)>> \o result.tail
              executes == pending_plan_seed # NoPlan /\ agent_mode \in Executing
          IN  /\ pending_plan_seed' = NoPlan
              /\ DropCompaction
              /\ \/ /\ executes
                    /\ conversation' = Pushed(rebuilt, <<"execute">>)
                    /\ said' = said + 1
                    /\ StartStream
                 \/ /\ ~executes
                    /\ conversation' = rebuilt
                    /\ waiting' = FALSE /\ active_rx' = "none"
                    /\ UNCHANGED said
    /\ UNCHANGED <<approved_plan, modeVars, sideVars, parked>>

\* The compactor's summary arrives: applied, or held back for the animation.
Compacted ==
    /\ active_rx = "compact"
    /\ \/ /\ compact_anim_start
          /\ compact_pending' = request /\ request' = NoRequest
          /\ active_rx' = "none"
          /\ UNCHANGED <<talkVars, waiting, parked, compact_anim_start, planVars, modeVars, sideVars>>
       \/ Apply(request)

\* apply_deferred_compact.
ApplyDue == compact_pending # NoRequest /\ Apply(compact_pending)

\* The compactor answers with an error or with nothing, or not in 120 seconds.
CompactorFails ==
    /\ active_rx = "compact"
    /\ FailCompaction
    /\ UNCHANGED <<approved_plan, modeVars, sideVars, parked>>

-----------------------------------------------------------------------------
(* Cuts.                                                                   *)

\* SessionRuntime::interrupt, but for what it may commit.
StopTurn ==
    /\ waiting' = FALSE /\ active_rx' = "none" /\ parked' = NoPlan
    /\ tasks' = 0

CommitPartial == UNCHANGED talkVars \/ (active_rx = "turn" /\ Say(<<"assistant">>))

\* Esc, whether or not anything runs.  The seed stays.
Interrupt ==
    /\ StopTurn
    /\ CommitPartial
    /\ DropCompaction
    /\ UNCHANGED <<planVars, modeVars, awaiting_shell>>

\* (Mutant: the cut stops the turn and lets a held-back result live.)
StopIfWaitingOnly ==
    \/ waiting /\ StopTurn /\ UNCHANGED compactVars
    \/ ~waiting /\ UNCHANGED <<turnVars, tasks, compactVars>>

\* abort_current, before the conversation is cut.
StopIfWaiting ==
    \/ waiting /\ StopTurn /\ DropCompaction
    \/ ~waiting /\ UNCHANGED <<turnVars, tasks, compactVars>>

\* /clear.
Clear ==
    /\ StopIfWaiting
    /\ conversation' = <<>>
    /\ UNCHANGED <<said, planVars, modeVars, awaiting_shell>>

\* The picker's choice: cut before a user message.
Rewind ==
    /\ StopIfWaiting
    /\ \E k \in DOMAIN conversation :
           /\ IsUser(conversation[k])
           /\ conversation' = SubSeq(conversation, 1, k - 1)
    /\ UNCHANGED <<said, planVars, modeVars, awaiting_shell>>

\* The early Esc: an interrupt, and a cut before the last user message.
InterruptRewind ==
    /\ StopTurn /\ DropCompaction
    /\ \E k \in DOMAIN conversation :
           /\ IsUser(conversation[k])
           /\ \A later \in k + 1..Len(conversation) : ~IsUser(conversation[later])
           /\ conversation' = SubSeq(conversation, 1, k - 1)
    /\ UNCHANGED <<said, planVars, modeVars, awaiting_shell>>

\* The user switches modes: a response of the old mode stops, and so does a plan
\* that waits for its decision; a compaction goes on.
SetMode(mode) ==
    /\ mode # agent_mode
    /\ EnterMode(mode, approved_plan)
    /\ \/ /\ (active_rx # "none" /\ ~compact_anim_start) \/ parked # NoPlan
          /\ StopTurn /\ CommitPartial
       \/ /\ (active_rx = "none" \/ compact_anim_start) /\ parked = NoPlan
          /\ UNCHANGED <<talkVars, turnVars, tasks>>
    /\ UNCHANGED <<compactVars, awaiting_shell>>

-----------------------------------------------------------------------------
(* What else is said.                                                      *)

ShellStarts ==
    /\ Idle
    /\ awaiting_shell' = TRUE
    /\ UNCHANGED <<talkVars, turnVars, compactVars, planVars, modeVars, tasks>>

ShellEnds ==
    /\ awaiting_shell
    /\ Say(<<"note">>)
    /\ awaiting_shell' = FALSE
    /\ UNCHANGED <<turnVars, compactVars, planVars, modeVars, tasks>>

TaskStarts ==
    /\ tasks < MaxAgents /\ said < MaxSaid
    /\ tasks' = tasks + 1
    /\ UNCHANGED <<talkVars, turnVars, compactVars, planVars, modeVars, awaiting_shell>>

\* Its note is pushed whatever the session is doing.
TaskEnds ==
    /\ tasks > 0
    /\ Say(<<"note">>)
    /\ tasks' = tasks - 1
    /\ UNCHANGED <<turnVars, compactVars, planVars, modeVars, awaiting_shell>>

-----------------------------------------------------------------------------
Next ==
    \/ Submit \/ Resend \/ Answer \/ StreamError
    \/ PlanEnter \/ ApprovePlan \/ ApprovePlanCompact \/ DenyPlan
    \/ \E plan \in Plans : PlanReady(plan)
    \/ Compact \/ Compacted \/ ApplyDue \/ CompactorFails
    \/ Interrupt \/ Clear \/ Rewind \/ InterruptRewind
    \/ \E mode \in Modes : SetMode(mode)
    \/ ShellStarts \/ ShellEnds \/ TaskStarts \/ TaskEnds

Spec == Init /\ [][Next]_vars

\* The compactor answers, or is given up after 120 seconds; the loop ticks.
FairSpec == Spec /\ WF_vars(Compacted \/ CompactorFails) /\ WF_vars(ApplyDue)
=============================================================================
