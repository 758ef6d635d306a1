# Koma: a TLA+ verification development

Koma is a coding agent written in Rust (`src/src-agent`): a daemon per session
talks to a model, runs the tools the model asks for, delegates to sub-agents
and shell jobs, and serves any number of terminal or web clients. This
directory holds TLA+ modules that model its core, TLC configurations that check
them on small instances, and proofs checked by TLAPS.

Contents: [inventory](#inventory), [what is modelled](#what-is-modelled),
[runs](#runs), [proofs](#proofs), [disagreements](#disagreements),
[observations](#observations), [not modelled](#not-modelled), [plan](#plan).

## Inventory

Paths are under `src/src-agent/src/` unless they start with `docs/`.

| component | where | state it keeps | operations | what makes it correct |
|---|---|---|---|---|
| Session turn engine | `app/runtime/{actions,stream,event_loop/sessions}`, `app/state/runtime` | `waiting`, the stream channel and buffer, the round (`pending_tool_calls`, `tool_idx`, `tool_results`), the parks (`awaiting_*`), the lanes (`pending_tool_tasks`, `pending_subagent_calls`), queued steers | submit, steer, resend, interrupt, rewind, approve, deny, mode change; stream events; lane drains; the resume gate; completion wakes | each call of a round is answered once, by its own work, in the request after it; a parked turn is always waited for by something alive; nothing risky runs ungated; a turn ends |
| Tool loop and approval gate | `app/runtime/stream/tools` | the above | `process_tools`, `finish_tool_round`, `deny_all_pending` | as above |
| Conversation and wire sanitizer | `model/conversation.rs`, `dto/chat/tool/extract.rs` | the message list | `push_*`, `history`, truncation, compaction split | what `history` sends is a request the provider accepts |
| Harness (workspace check, classifier) | `app/harness.rs` | none | one verdict per call | a verdict applies to the call it judged |
| Sub-agents | `app/runtime/stream/spawn.rs`, `app/subagent`, `event_loop/sessions/subagents.rs` | the records, the queue behind `MAX_SUBAGENTS`, follow-ups | spawn or queue, promote, follow up, kill, detach, drain | at most five run, in order; a queued one starts or its call is released; an end is told once |
| Background shell jobs | `app/bgbash` | job records, output buffers | spawn, exit or deadline, promote, kill, drain, read | one report per job, to the call that waits or to the nudge |
| Daemon loop | `app/runtime/event_loop/daemon` | tick counters, park clocks | the fixed order of a tick, park timeout, shutdown | no lane starves |
| Daemon hub, client shadow | `app/runtime/event_loop/daemon/hub`, `app/runtime/client_shadow` | per-client sequence numbers, baseline, transcript cursor | snapshot, delta, resync, controller seat | a shadow that rendered without a gap equals the daemon's view |
| Session daemon lifecycle | `model/session_lock.rs`, `model/session_registry.rs`, `ipc/server.rs`, `app/runtime/lifecycle` | lock file, socket, registry | probe, sweep, bind, spawn, stop, crash | one process owns a session, and can be reached and stopped |
| Plan mode, mission decisions | `app/runtime/actions/plan_decision.rs`, `app/runtime/stream/tools/intercepts/plan.rs` | pending plan or mission, seeds | park, accept, revise, seed after compaction | a decision is applied once, to the plan that was shown |
| SDLC missions | `model/sdlc`, `app/runtime/stream/tools/intercepts/sdlc.rs`, `app/state/rest.rs` | `mission.json`, the task graph in the database, the runtime phase, claims | `mission_ready`, approval, checklists, delegation and handoff, `mission_verify`, `mission_integrate`, `mission_clear`, mode changes | work runs only under a contract approved on disk; a task is done only when verified; what ships is what was approved |
| Compaction, short-send (DRSS) | `app/runtime/event_loop/drains.rs`, `app/runtime/shortsend`, `model/conversation.rs` | the summary in flight | split, summarise off-thread, apply | messages appended meanwhile survive |
| Computer control, screen browser | `app/runtime/computer`, `app/runtime/screen_browser` | generation of the command channel, consent | connect, command, consent, reconnect | a command of an old generation has no effect |
| MCP and OAuth daemons | `app/mcp`, `app/runtime/mcp_daemon.rs`, `app/runtime/oauth_daemon.rs` | connection pool, tokens | connect, call, refresh | one refresh at a time |
| Extensions and broker | `app/ext` | prompt queue (cap), turn budget | inject, drain, reset of the budget | an extension cannot keep the session awake for ever |
| Linker | `linker` | import graph | build, watch | data |
| Providers, LSP, coding panel, remote, web and terminal UI | the rest | views | render, translate | data |

**Interactions.** One thread per session daemon owns the session: user requests
arrive over IPC and are handlers on that thread; the model's stream, deferred
tools, classifiers, compactors, shell jobs and sub-agents run elsewhere and
report through channels that the tick drains in a fixed order. Everything else
shares the session by being called from that thread. Two things cross the
border of the process: the lifecycle, in which clients and daemons meet only in
files (socket, pidfile, lock) and signals; and the hub, which diffs the session
against what each client was sent and sends the differences as numbered frames.
A mission crosses the border of the life of the process: its contract is a
file, its graph a database, and both outlive a daemon.

**Hard behaviours.** Reports that arrive after the turn they belong to was
interrupted, denied, timed out or superseded; Ctrl+B (send to the background)
racing a completion; a round parked on several things at once; handlers that
clear the round but not the sub-agent lane, and handlers without a guard; ids
that are not unique; rounds cut at any point, and the request built from what
they left; files unlinked by path while another process may have made them
again; a summary applied to a conversation that has changed; a state kept in
memory, in a file and in a database, each written in turn. The hazards are
listed, each at its line, in `PROJECT.json`.

## What is modelled

| module | models |
|---|---|
| `Conversation` | messages, `history()` with its stripping of dangling groups, the truncations, and the validity a provider asks for (`ApiValid`) |
| `TurnState` | the session's variables, `Init`, the type invariant, the fragments handlers share (`begin_stream`, `abort_running_subagents`, the halt of a round, `dispatch_deferred`); the constants of the turn engine are declared here |
| `TurnTools` | `process_tools`: one action per branch of one iteration, and `finish_tool_round` |
| `TurnEngine` | the handlers, stream events, lane drains, resume gate, completion wakes; `Next`, `Spec`, fairness; composes `TurnTools` and `Conversation` |
| `TurnProperties`, `TurnInvariant` | the properties; the inductive invariants of the proofs |
| `TurnPhaseProofs`, `TurnAccountProofs`, `TurnWireProofs` | proofs: the phases of a turn, the accounting of a round, the request that is sent |
| `SessionDaemon` | the life of a session's daemons and the clients that launch, restart, kill and clean them |
| `Ownership` | abstract: a session has at most one owner, and an owner that is done never owns again |
| `SessionDaemonProperties`, `SessionDaemonProofs` | properties, the inductive invariant `DaemonInv`, the refinement of `Ownership`; proofs |
| `SubAgents` | the pool of sub-agents: slots, queue, drain, kills, detaching, records and restart |
| `Delegations` | abstract: a pool of servers with a first-come, first-served queue |
| `SubAgentsProperties`, `SubAgentsProofs` | properties, `PoolInv`, the refinement of `Delegations`; proofs |
| `Hub` | the hub of a daemon, the wire, the clients' shadows, and the daemon's own exit |
| `HubProperties`, `HubProofs` | properties; proofs |
| `Compaction` | the conversation under compaction, plan mode and the plan armed for after it |
| `CompactionProperties`, `CompactionProofs` | properties; proofs |
| `Mission` | the contract, task graph and phase of an SDLC mission |
| `MissionProperties`, `MissionProofs` | properties and the instance TLC checks; proofs |

The six systems (turn, lifecycle, agents, hub, compaction with plans, missions)
are separate specifications: they meet in few
places, and each keeps of the others what it needs. `TurnEngine` sees an agent
as work that reports, `SubAgents` sees a turn as what parks on a call or is
interrupted; `Hub` sees a session as a view that moves; `Compaction` keeps of
the tool loop only `plan_ready`; `Mission` of the turn only that it may be
interrupted or wait for a decision.

### The turn

**Steps.** A handler is one step. The tool loop is one step per iteration, so
that its intermediate states are checked too, and `walking` keeps every other
handler out while it runs. In a tick the lanes are drained in a fixed order; the
model drains any lane at any time, which adds behaviours, with one exception:
the resume gate runs before the verdicts are drained, and `DrainVerdict` is
guarded by the gate being closed, because the code relies on that order.

**Names.** The variables are the fields of the session (`rt.waiting`,
`rt.tool_idx`, ...). `buffer`, `stream` and `active_turn` stand for
`streaming.is_some()`, `active_rx.is_some()` and `active_turn.is_some()`.
`tool_idx` counts from 0, sequences from 1: `Current` is
`pending_tool_calls[tool_idx + 1]`.

**Ids.** `CallId(r, i)` is unique when the provider numbers its calls
(`NativeIds`), and restarts in each round when `extract_text_tool_calls` makes
it from the text of an answer (`text_call_0`, `text_call_1`, ...). `from`, the
round that started a piece of work, is not in the code; it lets a property say
whose result a result really is.

**Abstractions.** A tool is one of eight kinds, by what the loop does with it:
answered inline, answered inline with a picture, run off-thread, run off-thread
but gated, shell job in the foreground or background, delegation in the
foreground or background. The interceptors that answer a call at once are one
kind. A classifier's answer is allow, block or unavailable. `Plan` and `Sdlc`
gate risky calls as `Auto` does. A message is its role and the calls it asks
for or answers; text is left out.

### The life of a daemon

`SessionDaemon` has two kinds of process. A daemon walks through `phase`:
`TakeLock` (the lock file), `Record` (the pidfile), `UnlinkStale` and `Bind`
(the socket), `Teardown`, `CloseListener`, `RemoveSock`, `RemovePid`; `Crash`
may take it between any two. A client walks through `pc`: `Probe` (a connect is
the liveness oracle), `Clear` of a stale socket, `Spawn`, `AwaitAlive` or
`GiveUp`; or `Stop`, which asks (`SendQuit`), waits, signals the pid it reads
from the pidfile (`SignalPid`, `WaitTerm`, `Kill`) and unlinks the files one
after the other; or `Clean`, or `is_locked`, which reads the lock and removes a
stale one in two steps (`SweepLock`). Each file is the daemon it names; a
process id is used once. Whether `SendQuit` is refused (it is, for an observer)
is left open. `Impatient` lets the wait for a spawned daemon time out before it
is up; `SlowTeardown` lets the teardown of one outlast the start-up of the next.

### Agents

`SubAgents` counts ids up; a queue is a set of ids, its front the least. `Delegate`
is `spawn_or_queue` for the four who delegate: a call that parks the round, a
background call, `/task`, an extension. `worker` is the task that runs off the
thread: `Finish` sends its end, or loses it. `Drain` is the whole of
`drain_subagents`: it settles every agent whose end has come, promotes from the
queue (which may drop entries), answers calls, folds notes and arms nudges, and
saves. `Background` is Ctrl+B on one or all, `Kill` and `BrokerKill` the two
ways to kill, `Interrupt` Esc with `abort_running_subagents`, `Wake` the nudge
of an idle session, `Restore` a daemon that starts from the records. `told`
counts how often each end was told on each channel and is not in the code.

### Hub and shadows

A client is one connection. `Handle` takes the request at the front (register,
attach, resync, watch or unwatch an agent, interrupt, detach, disconnect)
through `handle_inbound`; `Stream` is one pass of `stream_deltas` over all
clients: a full snapshot if `NeedsFull`, a suffix of the stream buffer and the
fields that changed otherwise; `Receive` is `apply_frame` with its gap
detection, the one resync it asks for, and `Apply`. `Lose` is `write_batch`
failing on a frame that cannot be serialised, after the number was given out;
it is the only loss the transport allows. `QuiesceTick` counts the grace
down and drains `accept` once more before it leaves. Of a view there remain
a page (all that only a snapshot carries), the stream buffer, the input line and
what a detached agent has written.

### Compaction and plans

A message is a kind and the identities it stands for; a summary stands for all
that it replaces. `Compact` splits the conversation (`split_for_compaction`,
with `strip_dangling_tool_calls`) and asks; `Compacted` answers, and either
applies at once or is held back for the animation until `ApplyDue`;
`CompactorFails` is a failure or the timeout. `PlanEnter`, `PlanReady`,
`ApprovePlan`, `ApprovePlanCompact` and `DenyPlan` are plan mode,
`pending_plan_seed` the body executed after the compaction. Everything that may
meet a compaction is an action: turns, Esc, `/clear`, rewind, resend, mode
changes, `!` commands and the notes of `/task`.

### Missions

`graph` is the table of tasks (a node is its id; status and parent), `mission`
the file, `mode`, `phase`, `claim`, `parked` and `inside` the running session.
`Ready` is `mission_ready` in full: the refusals, the replacement of the graph
by what is listed, the rollup, the save, and the restore of a snapshot when the
save fails. `Approve`, `Deny` and `Interrupt` are the decisions; `CrashInApprove`
stops the daemon between the writes of an approval. `Checklist` is the frozen
checklist of an approved mission, `DraftChecklist` the one before; `Verify`,
`Prepare`, `Integrate` and `Clear` are the other tools; `Delegate`, `Spawn`,
`AgentEnds` and `Handoff` the way of a task to an agent and back;
`EnterSdlc`, `LeaveSdlc`, `LoseWorktree`, `Restart` the rest. `verify_bit` is
dropped: each write that sets it sets the status to done, every other clears
it. `Rolled` is two passes because `MAX_DEPTH` is 3. The hash of the contract is
taken to be valid; the hash of the graph is the structure it hashes, and the
one `graph_fingerprint` computes for a handoff is `Fingerprint`, which equals
none. Which leaf is claimed first is left open. `blessed`, the structure the
user approved last, is not in the code.

## Runs

Every bound is a constant; each run chooses the kinds and switches its question
needs, so that all the interleavings of those fit.

| run | question | bounds |
|---|---|---|
| `Rounds` | each call answered once and by its own work, the loop only runs for a turn that is on, the next request carries the answers, a denial answers the round, nothing risky runs ungated | Normal and Auto; inline, deferred and risky calls; 3 user turns, 2 rounds of up to 2 calls, a steer, a stall nudge, failing starts, the park timeout (2.5M states) |
| `Background` | a parked round is waited for by something alive; what is put to the user does not run; the request is valid | Normal and Yolo; shell jobs, agents, Ctrl+B, `/task`, pictures, risky calls; one round of 2 calls, 2 turns or wakes, 2 agents (1.7M states) |
| `Liveness` | `TurnEnds`, `CompletionWakes` under fairness | ids from the text; one call of any off-thread kind in each of 2 rounds, 3 turns, Reject policy (180k states) |
| `Ownership` | one owner, reachable and named by the lock; a stop leaves none; commands return; refinement of `Ownership` | 1 client, 4 daemons |
| `Delegating` | slots, ids, calls, notices, records; refinement of `Delegations`; the queue moves, calls end, the detached wake the session | 1 slot, 2 agents, all who delegate |
| `Hub` | one controller, no ghost, no exit over a client, shadows agree with the view, a snapshot comes | 2 clients (symmetric), 1 token, grace 2, 2 changes, 1 lost frame |
| `Compacting` | what is armed is what was approved, what was cut stays cut, what is old is kept or summarised, a compaction ends | 4 modes, 2 plans, 1 message kept, 5 messages said, 1 `/task` (575k states) |
| `Mission` | nothing executes unapproved, nothing is done unverified, nothing ships that was not approved | 3 tasks, 3 checklists, 1 agent, failing saves (198k states) |
| `NoteInRound` | violation, see below | 1 deferred call, 1 `/task` |
| `TwoLaunchers` | violation | 2 clients, 2 daemons |
| `Revived` | violation | 2 modes, 1 plan |
| `DeadEnd` | violation | the instance of `Mission`, saves succeed |

**Why these bounds.** *Turn*: two calls make every pair of kinds meet in one
round, in either order; two rounds let work of one report into the next; the
third turn lets an interrupted turn, a halted one and a resend follow each
other. *Lifecycle*: four daemons are one that crashed and left its files, one
that leaves, one that starts and one more. *Agents*: one slot makes the second
delegation wait, so queue, promotion and every race of the front with the queue
happen; the order among two that wait is left to the proof (three agents were
checked once). *Hub*: two clients are one that holds the seat and one to pass it
to; two changes and a loss are what a gap needs to be noticed and repaired.
*Compaction*: with one message kept, five messages are a summary, a tail that a
call is torn from, and something said meanwhile. *Missions*: a task, two tasks,
and a task split by a checklist or by an agent's report; two agents without
failing saves were checked once (1.7M states). Where a theorem states the
property, it does not depend on the bounds.

**Deadlock.** `CHECK_DEADLOCK FALSE` stands where a session may rest: once the
messages, process ids, agents or changes a run allows are used up, everything
waits for a user who has nothing left to say. That a session does not hang
before is `NoLostWakeUp`, `TurnEnds`, `ClientReturns`, `QueueMoves`, `CallsEnd`
and `CompactionEnds`. `Mission` and `DeadEnd` check deadlock.

**Fairness.**
* *Turn.* A stream ends because the service bounds it with a timeout; the
  loop iterates because it is ordinary code; a deferred tool, a shell job (which
  has a deadline), a classifier and a sub-agent report in the end, a panic
  included, and the tick keeps draining the lanes, testing the resume gate and
  the completion wakes. No fairness is asked of the user, of clients, or of the
  park timeout: a question for the user may stay open for ever, and `TurnEnds`
  and `CompletionWakes` except that state. `Liveness` takes stream starts to
  succeed; see "stuck buffer" below for what happens otherwise.
* *Lifecycle.* A process that can run does; every wait of a client has a
  deadline in the code. A daemon may ignore a request and a `SIGTERM`, crash, or
  serve for ever.
* *Agents.* The loop ticks, a task ends or is lost, a session that can wake does.
* *Compaction.* The compactor answers, fails or is given up after 120 seconds;
  the loop ticks.
* Hub and missions are checked for safety only.

**Refinement.** `ExclusiveOwnership` and `FairlyServed` are the abstract
specifications `Ownership` and `Delegations` under a mapping, checked as
temporal properties and proved as theorems (`Implements`, `PoolImplements`).
The owners of a session are the daemons that listen; what waits and is served
is the queue and the agents that run.

**Mutants.** Every property of a passing run has a mutant of the model in
`PROJECT.json`: a definition and a variant with the bug the property is
about (the id that is not dropped, the index that is not reset, the socket that
is not unlinked, the record written too early, the checklist that may seal),
under which the run fails. The variants are the operators commented
"(Mutant: ...)".

## Proofs

The theorems hold for every value of the constants (kinds, modes, clients,
daemons, slots, plans, tasks, bounds) under the assumptions they name.

| module | theorems | assume |
|---|---|---|
| `TurnPhaseProofs` | `TypeCorrect`, `HaltedLoopStops`, `NobodyWaitsForNothing`: the types; the loop never runs for a turn that is not on; what a turn waits for is on its way | `~LateDeny` |
| `TurnAccountProofs` | `CallsAccountedFor`, `ResultsOfThisRound`, `ApprovalParks`, `GateHolds`: each call walked past is answered once or awaited by exactly one lane; no result of another round is folded; what is put to the user is an unanswered risky call that does not run; a risky call runs only approved, in Yolo, or in Auto with leave | `~LateDeny`, `NativeIds` |
| `TurnWireProofs` | `HistoryValid`, `AnswersReachModel`: `history()` makes a valid request of any conversation that asks for an id once and answers it once, and keeps every group whose answers follow it | nothing |
| | `RequestsAreValid`: the session never sends a request the provider refuses | `~LateDeny`, `NativeIds` |
| | `ResultsReachModel`: the request after a round carries the answer of each call | also no `/task`, no picture |
| | `DenialsAnswerRound`: so does the request after a denial | also no blocking delegation |
| `SessionDaemonProofs` | `DaemonsInOrder`, `OneOwnerAlways`, `NobodyIsOrphaned`, `LockIsTheDaemons`, `StopStops`, and `Implements`, the refinement | `Calm`: commands are given one at a time, a spawn does not time out before the daemon is up, a teardown does not outlast the next start |
| `SubAgentsProofs` | `PoolHolds`, `SlotsAlways`, `IdsFreshAlways`, `CallsBackedAlways`, `ToldOnceAlways`, `ExtensionsAlwaysSilent`, `RecordsAlwaysTrue`, and `PoolImplements`, the refinement | nothing |
| `HubProofs` | `OneControllerAlways`, `NobodyLingers`, `LeavesNobody`, `SnapshotAlwaysComes`, `ShadowsAreTrue`, `NothingIsMissing` | nothing |
| `CompactionProofs` | `HeldWhileCompacting`, `ArmedPlanIsApproved`, `CutIsFinal`, `NothingSaidIsLost` | nothing |
| `MissionProofs` | `NothingFalselyDone`, `ExecutesApprovedAlways`, `SealAlwaysEarned`, `ShippedAlwaysApproved` | nothing |

They state every invariant and every safety property the runs check. Each
module's `ASSUME` states what its constants are (numbers, sets, values
that differ); TLC evaluates it on the instances.

`~LateDeny`: `handle_deny_tool` has no guard, and a denial that arrives with
nothing parked ends a turn without its stream (see observations); the theorems
are about a session whose denials answer a park. `NativeIds`: with text ids
`AnswersOwnCall` and `NoUngatedRun` do not hold. `WireValid` needs both: TLC
finds a request with an unanswered call when an id comes twice, and one when
calls that came to a turn a late denial had ended are still there for the next
turn to commit again. `/task` and
pictures are excluded where the answers are to reach the model, because of
`NoteInRound`; a blocking delegation where a denial is to answer the round,
because of "denial with an agent out" below. The instances of `Rounds` and
`Background` satisfy the assumptions of what they check. `Calm`: with two
launchers `OneOwner` does not hold, and the run `TwoLaunchers` shows it.

**`PhaseInv` (turn).** `TypeOK` is not inductive: `tool_idx \in
0..Len(pending_tool_calls)` breaks as soon as a handler that replaces the calls
may run in the middle of a round. `Phases` says where a turn can be (streaming,
in the loop, or parked, never two of streaming and the others, all of them only
while `waiting`) and that `tool_idx` is 0 outside a round, so that the stash of
a stream's calls, the commit, and the steps that advance the index each find the
index where they need it. `Asked` says that calls and the agents that answer
them belong to a round that exists, which types the results a drain appends.

**`NoLostWakeUp` (turn)** is inductive on top of `PhaseInv`. Each step that
parks a turn starts what it waits for or finds it out; each step that takes a
worker away (a report, Ctrl+B, an interrupt, a kill) drops its id, answers its
call, or halts the turn.

**`AccountInv` (turn).** `RoundAccounting` is not inductive either:
a fold must find the id of its own call pending or not pending at all.
`Numbered`: the calls of the round carry its number. `Owned`: a worker, verdict
or result carries the id of the round that started it, and a worker's id was
handed out, so that a fresh call never has a worker already. `OneWorkerPerCall`
and `RunningIsAwaited`: what still runs for a call is the only thing that runs
for it and its id is pending, so Ctrl+B, which drops the id and answers the
call, cannot meet a second answer. `Quiet`: outside a round nothing is collected
or awaited, so a commit starts a round from nothing. `TasksStopTheLoop`: a
deferred call or shell job stops the loop, so the loop never walks past a call
whose task is out.

**`WireInv` (turn).** `WireValid` speaks of what `history()` makes of the
conversation; what has to be kept is a fact about the conversation itself.
`NamedOnce`: no id is asked for twice nor answered twice. `HistoryValid` shows
that this is enough, however the requests and answers lie, because what is kept
of a group is kept whole: an id is valid only if all of its group is answered
before the next message that is not an answer, and the indices kept stay in
order. `NamesThePast` makes it inductive: the round in progress names ids that
nothing in the conversation names yet. `CallsOfATurn` keeps calls of a turn that
is over from being committed later.

**`OpenRoundInv` (turn).** While a round is walked its request is the last
message, so that the answers `finish_tool_round` or a denial appends follow it,
and `AnswersReachModel` applies. What breaks it is what writes in between:
`NoUsersAgent` says there is no agent whose end is written as a note then.

**`DaemonInv` (lifecycle).** One owner follows from `OneAtATime`: at most one
daemon is starting or listening. A spawn keeps it only if the client knows that
nothing is up (`NothingUp`), which it learnt from its probe and which stays true
because nobody else starts anything, and because a daemon that is starting has
its client waiting for it (`Awaited`). `Recorded` says what a daemon has
written so far is still there, and `LeftBefore` that one that removes files by
path is gone before the next writes them.

**`PoolInv` (agents).** `NoTrace`: an id not handed out yet occurs nowhere, so a
new delegation starts from nothing. `Untold`: what a step may still tell (a call
that is pending, a nudge that is armed, an end that was not seen) has not been
told; `ToldOnce` follows. The rest ties a call to its delegation from both ends.

**Hub.** `SeatInv`: the enrolled are distinct, and what a client has in flight is
in order (`Booked`: its registration first, the end of its connection last), so
that one that is enrolled after its connection ended still has its farewell to
be handled, and nobody registers twice. `CountInv` adds the numbers: those in
flight rise towards the last one given out, and while no frame is lost none is
missing and no client waits; the first loss can therefore make a client wait
once, and its request or the snapshot that answers it is on the way.

**`ShadowInv` (hub).** Between the shadow and the hub's baseline lie the frames
in flight, so the invariant says where they lead: there is a view before and
after each (`Leads`), the first what the client shows, each next one what
`Apply` makes of the one before, the last the baseline (`Carried`). A snapshot
leads to its view from anywhere; a frame after a gap may lead anywhere, since
the client will not apply it. `Stream` adds frames that lead from the old
baseline to the new one, `Receive` takes the first, `Lose` leaves a gap and with
it the way from the shadow to the baseline. `Due`: the output of an agent need
agree only where it is shown and no full snapshot is about to be sent. TLC
cannot evaluate `ShadowInv`, as the views between are chosen from an infinite
set; it checks the two properties.

**Compaction.** `BusyInv`: while a compaction runs the session waits, runs no
turn and puts no plan to the user, and a result is held back only while the
animation is shown. `PlanInv`: a plan waits for its decision in plan mode only,
and what is armed is what was approved, in a mode that executes. `ResultInv`:
what a request, or a result held back, stands for still stands in the
conversation: every cut drops them. `BasisInv` says more: what was asked was
made of the first messages of the conversation as it stands, split at one place,
and what follows them are notes said since; so the summary and the tail hold all
that stood whole.

**Missions.** `Sound`, of the graph: typed, at most three levels, parents exist,
and a task that is done has no child that is not. The levels are needed because
two passes of the rollup reach the top only then. `ContractInv`, of contract and
session: the hash of an approved contract is the structure approved last or
`Fingerprint`; a session in a working phase works under a contract that is
approved, bound and in that phase on disk; and while `mission_ready` waits for
its decision, the contract is not approved and holds the structure that is shown.

**Shape.** One lemma per action, over the invariant and the action; facts about
the operators (rollup, restore, frames, slices, `history()`, results of a round)
are lemmas of their own; the theorems combine them by `PTL`. `TurnPhaseProofs`
has the types first, then the phases, then the wake-ups; `TurnAccountProofs` the
facts about sets of answered and walked ids, then one lemma per action;
`TurnWireProofs` the algorithm of `history()`, then the conversation, then the
answers. TLC found the inductive invariants to hold on the instances of the runs
before they were proved, `ShadowInv` excepted.

**Only model-checked.** Liveness under fairness, which is out of the provers'
reach: `TurnEnds`, `CompletionWakes`, `ClientReturns`, `QueueMoves`, `CallsEnd`,
`DetachedWakes`, `CompactionEnds`. Nothing is proved of a session that takes
late denials, nor of ids made from text beyond `TurnPhaseProofs`.

## Disagreements

Each of these has a run that must find the violation.

* `NoteInRound`: the note of a finished `/task` agent (and a picture a tool
  loaded) is pushed between the request for a round and its answers;
  `history()` then drops the round from the next request, which
  `finish_tool_round` starts "so the model sees the tool outputs".
* `TwoLaunchers`: `bind` unlinks a socket it finds, since "a still-live daemon
  keeps the socket and the caller would have connected to it instead of
  binding"; two clients that launch at once both probe before either daemon is
  up, and the second daemon takes the socket from the first, which serves on.
* `Revived`: a compaction that is given up is to "discard the one-shot arm in
  every case so a later compact cannot revive it"; Esc cancels a compaction and
  leaves the approved plan armed, and the next `/compact` executes it.
* `DeadEnd`: a task of an approved mission is cancelled by a checklist, the rest
  verified: `mission_ready` refuses because "the mission is complete" and says
  to call `mission_integrate`, whose gate refuses because the structure changed
  and says to amend, which is `mission_ready`.

## Observations

Met while modelling; the models follow the code, and the properties are stated
so that they hold of it. None of these has a run.

*Turn.*
* *Reused ids.* `extract_text_tool_calls` numbers the calls of each answer from
  `text_call_0`; `history()` matches ids over the whole conversation, so an
  interrupted round followed by a complete one leaves a request whose first call
  has no answer.
* *Denial with an agent out.* `handle_deny_tool` and `deny_all_pending` promise
  to answer every call of the round; the call of a blocking sub-agent already
  walked past is dropped unanswered, and the whole round with it.
* *Late denial.* A denial without a park (`actions/chat.rs:650`) ends the turn
  and leaves its stream on: the calls it brings run for a turn that was halted.
  With `LateDeny = TRUE`, `HaltedTurnRunsNoTool` fails.
* *Stale verdict.* In Yolo the staged verdict is not taken. With text ids, a
  verdict staged in Auto, then Yolo, then Auto again can let a later call with
  the same id run (`stream/tools/approval.rs`, the branch order of the gate).
* *Stuck buffer.* `start_stream_task` returns before a stream exists without
  taking the buffer `begin_stream` made; callers other than a user's kickoff
  leave it, `is_working()` stays true, and no completion wakes the session until
  the next message (`stream/run.rs`). `BeginStream` models it.
* *Classifier outage.* A comment says both modes pause for the user; with no
  controller to approve, or under the Reject policy, the call is refused
  instead (`stream/tools/approval.rs`).
* *Two parks.* A comment in `event_loop/sessions/deferred.rs` says parks
  exclude each other; an approval or classifier park may coexist with a
  sub-agent that is still out (`intercepts/task.rs` expects it).
* *Steers* typed for a turn that is interrupted, denied or fails stay queued
  and are sent with the next round.

*Lifecycle.* With `SlowTeardown` a daemon that leaves removes the files of its
successor, and `LiveIsReachable` fails with one client; with two clients
`LiveIsReachable` and `LockTells` fail as `OneOwner` does. A daemon whose
session cannot be loaded serves without a lock.

*Agents.* An agent killed after its end was sent and before that is
drained goes from Killed to Done, although `broker.rs` says Killed is kept. A queued delegation whose agent
is unknown by then is dropped silently at promotion. A new delegation may take
a slot freed by a kill before the drain promotes the queue. Esc kills running
`/task` and extension agents without an `agents.done` (docs/EXTENSIONS.md:742).
A follow-up `task_send` accepts for an agent whose last model call is under way
is dropped with its channel, although the answer says it will be seen at the next
turn boundary (`intercepts/task.rs:302`, `subagent/engine.rs:297` and 620).

*Hub.* The loss of the last frame is noticed with the next one only. A second
loss, of the answer to a resync, leaves the client waiting. If the first
snapshot is lost, a delta that follows seeds `expected` on an empty shadow
(`client/shadow.rs`, 69-73), which is why `Current` asks for a shadow. A client
accepted between the last drain and the unlink is left half-open, although
`daemon/mod.rs` says it is seen. `streaming.rs:15` names a `sweep_dead` that
does not exist.

*Compaction.* A note or shell output that lands while a compaction runs is
overwritten by its result. The split may fall between a call and its answer; the
call is then stripped from the summary, and the answer dropped by `history()`
(`conversation.rs` 358-371 says both halves are kept). `/compact` while the
session is busy disarms an armed plan. A save that fails consumes the plan.

*Missions.*
* `handoff.rs` 515-535 renews the hash of the graph with `graph_fingerprint`,
  while `integrate_gate` compares `structural_graph_hash`: after a handoff that
  changes the graph the gate refuses until the contract is amended.
* The handoff of a finished agent is applied on every tick while its leaf is
  active: notes and events repeat, and an old report of `blocked` blocks a leaf
  that was claimed again.
* `claim_must_be_cleared` is never called: `sdlc_pending_node_id` goes stale.
* `set_verify_bit(false)` reopens ancestors past a cancelled one, which can
  leave two active leaves, each keeping the other from being verified until a
  checklist demotes one.
* A frozen checklist that cancels the last open child rolls its parent up to
  done; one that returns an active leaf to pending lets a second agent on it.
* When the save in `mission_ready` fails, the restore gives up at a task that
  was demoted from done, restores no root edge, and with four tasks can leave
  one sealed that nobody verified: 2 under 3 under 4 all done; `mission_clear`
  with reset; `mission_ready` lists 1 and 3 under 1 with a save that fails; 3
  and then 1 are rolled up to done, the restore moves 3 back under 4, and 1
  stays a done leaf. `SealIsEarned` excepts that step.
* A parked `mission_ready` survives leaving the SDLC mode, unlike `plan_ready`,
  and approving it then binds the worktree in another mode.
* `mission_clear` with reset whose save fails leaves the approved contract to be
  resumed, and never leaves the worktree. A spawn that fails leaves its leaf
  claimed.

## Not modelled

*Turn engine*: mission, verification and worktree parks (same flag as an
approval, other keys), keeper and extension wakes, the workspace check's own
logic, output buffers of jobs, persistence: a failed save shows only as
`StartMayFail`.

*Lifecycle*: Windows pipes, reuse of process ids, failing writes of its files,
the registry (data), the picker loading a session into another process's tab
(`picker.rs:165`).

*Agents*: follow-ups (`inject_into_subagent`, `task_send`, `agents.send`), the
notice of a shutdown to extensions, spawns that fail and are answered on the
spot, the usage ledger, the model calls of an agent's own loop.

*Hub*: `QuitDaemon` and one-shot replies, a client's foreground among several
sessions, progress deltas, the mode cache, toasts, what a closed session shows.

*Compaction*: the seed of a mission, steers and wakes, the park timeout and
Reject policy for `plan_ready`, closing a session, `plan.md`, short-send's
rolling summary, the awareness summary, the message archive.

*Missions*: the draft's locks, human gates, the keeper, path ownership, git
gates and the merge itself, commit evidence, delegations that are queued, the
Reject policy at `mission_ready`.

*Other components*: computer control and screen browser, MCP and OAuth daemons,
extensions, linker, providers, language servers, panels and user interfaces are
not modelled, for the reasons in `PROJECT.json`. They are most of the
repository's 237,000 lines, and most of them are input and output, rendering
and protocol adapters whose effect on a session is an event, a result or a
request; the models cover about 10,000 lines, the part in which several actors
meet over shared state.

## Plan

Every safety property of a run is proved; what remains is breadth.

1. *Text ids*: what still holds of the accounting when ids restart in each round
   but no work of an earlier round is out.
2. *Extensions*: injected prompts, their cap and turn budget, and the wake that
   drains them, with the turn engine; the keeper's wakes of a mission.
3. *OAuth daemon*: one refresh at a time, over processes that share a token file.
4. *Computer control*: commands of an old generation of the channel.
5. *Composition*: the queue of `SubAgents` under the accounting of `TurnEngine`.
