---- MODULE TurnPhaseProofs ----
(***************************************************************************)
(* The types of the engine's state and the phases of a turn are invariant, *)
(* for every value of the constants with which a denial only answers a     *)
(* parked call.  First the facts about lists, messages and fragments of    *)
(* handlers that the types rest on.                                        *)
(***************************************************************************)
EXTENDS TurnInvariant, TLAPS, FiniteSetTheorems, SequenceTheorems

USE DEF turnVars, queueVars, roundVars, classifyVars, taskVars, agentVars, offThread,
        nudgeVars, modeVars, counters, OutsideTools

\* The messages the engine stores are messages.
LEMMA MessageTypes ==
    /\ User \in Message(Id) /\ Assistant \in Message(Id) /\ Promoted \in Message(Id)
    /\ \A id \in Id : Answer(id) \in Message(Id)
    /\ \A ids, t : ids \subseteq Id /\ ids /= {} /\ t \in BOOLEAN => Calling(ids, t) \in Message(Id)
<1>1. ASSUME NEW ids, NEW t \in BOOLEAN, ids \subseteq Id, ids /= {}
      PROVE  Calling(ids, t) \in Message(Id)
  <2>1. ids \notin {{}}
    BY <1>1
  <2>2. ids \in SUBSET Id
    BY <1>1
  <2>3. ids \in (SUBSET Id) \ {{}}
    BY <2>1, <2>2, Zenon
  <2>4. Calling(ids, t) \in {Calling(x, u) : x \in (SUBSET Id) \ {{}}, u \in BOOLEAN}
    BY <2>3
  <2> QED
    BY <2>4 DEF Message
<1> QED BY <1>1 DEF Message

\* A list mapped element by element is a list of the same length.
LEMMA MappedSeq ==
    ASSUME NEW S, NEW T, NEW s \in Seq(S), NEW t,
           t = [i \in DOMAIN s |-> t[i]], \A i \in DOMAIN s : t[i] \in T
    PROVE  t \in Seq(T) /\ Len(t) = Len(s)
<1>1. Len(s) \in Nat /\ DOMAIN s = 1..Len(s)
  OBVIOUS
<1>2. t \in [1..Len(s) -> T]
  BY <1>1
<1> QED BY <1>1, <1>2, SeqDef

\* The answers to a list of works or of calls are messages.
LEMMA AnswersType ==
    ASSUME NEW works, works \in Seq(Work) \/ works \in Seq(Call)
    PROVE  Answers(works) \in Seq(Message(Id))
<1>1. works \in Seq(Work \cup Call)
  OBVIOUS
<1>2. \A k \in DOMAIN works : works[k] \in Work \cup Call
  BY <1>1
<1>3. \A k \in DOMAIN works : works[k].id \in Id
  BY <1>2 DEF Work, Call
<1>4. \A k \in DOMAIN works : Answers(works)[k] \in Message(Id)
  BY <1>3, MessageTypes DEF Answers
<1>5. Answers(works) = [k \in DOMAIN works |-> Answers(works)[k]]
  BY DEF Answers
<1> QED BY <1>1, <1>4, <1>5, MappedSeq

\* A function on 1..n is a sequence.
LEMMA FunctionIsSeq ==
    ASSUME NEW S, NEW n \in Nat, NEW f \in [1..n -> S]
    PROVE  f \in Seq(S)
BY SeqDef

\* Concatenation keeps the type.
LEMMA ConcatType ==
    ASSUME NEW S, NEW s \in Seq(S), NEW t \in Seq(S)
    PROVE  s \o t \in Seq(S)
OBVIOUS

\* The ids of a round of calls, of which there is at least one.
LEMMA IdsOfType ==
    ASSUME NEW calls \in Seq(Call), calls /= <<>>
    PROVE  IdsOf(calls) \subseteq Id /\ IdsOf(calls) /= {}
<1>0. \A k \in DOMAIN calls : calls[k] \in Call
  OBVIOUS
<1>1. \A k \in DOMAIN calls : calls[k].id \in Id
  BY <1>0 DEF Call
<1>2. 1 \in DOMAIN calls
  OBVIOUS
<1>3. calls[1].id \in IdsOf(calls)
  BY <1>2 DEF IdsOf
<1>4. IdsOf(calls) \subseteq Id
  BY <1>1 DEF IdsOf
<1>5. IdsOf(calls) /= {}
  BY <1>3
<1> QED BY <1>4, <1>5

\* A round the model asks for is a list of calls, numbered from 1.
LEMMA NewRoundsType ==
    ASSUME NEW calls \in NewRounds, round \in 0..MaxRounds, round < MaxRounds
    PROVE  /\ calls \in Seq(Call) /\ calls /= <<>>
           /\ \A k \in DOMAIN calls : calls[k].id = CallId(round + 1, k)
<1>1. PICK n \in 1..MaxCalls : \E kinds \in [1..n -> Kinds] :
          calls = [k \in 1..n |-> [id |-> CallId(round + 1, k), kind |-> kinds[k]]]
  BY DEF NewRounds
<1>2. PICK kinds \in [1..n -> Kinds] :
          calls = [k \in 1..n |-> [id |-> CallId(round + 1, k), kind |-> kinds[k]]]
  BY <1>1
<1>3. /\ n \in Nat \ {0} /\ round + 1 \in 1..MaxRounds /\ \A k \in 1..n : k \in 1..MaxCalls
  BY ConstantsAssumption
<1>4. \A k \in 1..n : calls[k] \in Call
  BY <1>2, <1>3 DEF Call, Id
<1>5. calls \in [1..n -> Call]
  BY <1>2, <1>4
<1> QED BY <1>2, <1>3, <1>5, SeqDef

\* begin_stream leaves the flags of the turn typed, and no stream without a turn
\* but the one it was told to keep.
LEMMA BeginStreamTypes ==
    ASSUME NEW kickoff \in BOOLEAN, NEW old \in BOOLEAN, active_turn \in BOOLEAN,
           BeginStream(kickoff, old)
    PROVE  /\ waiting' \in BOOLEAN /\ stream' \in BOOLEAN
           /\ buffer' \in BOOLEAN /\ active_turn' \in BOOLEAN
           /\ stream' => waiting' \/ old
<1> DEFINE Post(ok) == /\ waiting' = ok
    /\ stream' = (ok \/ old)
    /\ buffer' = (ok \/ ~kickoff)
    /\ active_turn' = (ok /\ (kickoff \/ active_turn))
<1>1. PICK ok \in BOOLEAN : Post(ok)
  BY DEF BeginStream
<1>2. CASE ok
  BY <1>1, <1>2
<1>3. CASE ~ok
  BY <1>1, <1>3
<1> QED BY <1>2, <1>3

\* The agents of a session after a halt.
LEMMA KillBlockingAgentsType ==
    ASSUME subagents \in Seq(SubAgent), KillBlockingAgents
    PROVE  /\ subagents' \in Seq(SubAgent) /\ Len(subagents') = Len(subagents)
           /\ \A i \in DOMAIN subagents :
                /\ subagents'[i].call = subagents[i].call /\ subagents'[i].from = subagents[i].from
                /\ subagents'[i].detached = subagents[i].detached
                /\ subagents'[i].status = "running" =>
                      subagents[i].status = "running" /\ subagents[i].detached
<1>1. \A i \in DOMAIN subagents : subagents[i] \in SubAgent
  OBVIOUS
<1>2. \A i \in DOMAIN subagents :
        /\ subagents'[i] \in SubAgent
        /\ subagents'[i].call = subagents[i].call /\ subagents'[i].from = subagents[i].from
        /\ subagents'[i].detached = subagents[i].detached
        /\ subagents'[i].status = "running" =>
              subagents[i].status = "running" /\ subagents[i].detached
  BY <1>1 DEF KillBlockingAgents, SubAgent
<1>3. subagents' = [i \in DOMAIN subagents |-> subagents'[i]]
  BY DEF KillBlockingAgents
<1> QED BY <1>2, <1>3, MappedSeq

\* What a halt stores, and the agents it leaves, are typed.
LEMMA HaltType ==
    ASSUME TypeOK, NEW stored \in Seq(Message(Id)), NEW calls \in Seq(Call),
           tool_idx <= Len(calls), HaltRound(stored, calls)
    PROVE  /\ conversation' \in Seq(Message(Id))
           /\ subagents' \in Seq(SubAgent)
<1>1. Unanswered(calls) \in Seq(Call)
  BY DEF Unanswered, TypeOK
<1>2. Answers(tool_results) \in Seq(Message(Id)) /\ Answers(Unanswered(calls)) \in Seq(Message(Id))
  BY <1>1, AnswersType DEF TypeOK
<1>3. conversation' \in Seq(Message(Id))
  BY <1>2 DEF HaltRound
<1> QED BY <1>3, KillBlockingAgentsType DEF HaltRound, AbortSubagents, TypeOK

\* Inside a round, the current call and the work for it are typed.
LEMMA CurrentType ==
    ASSUME PhaseInv, tool_idx < Len(pending_tool_calls)
    PROVE  /\ Current \in Call /\ Current.id \in Id
           /\ round \in 1..MaxRounds
           /\ WorkFor(Current) \in Work
           /\ tool_idx + 1 \in 0..Len(pending_tool_calls)
<1>1. Current \in Call
  BY DEF Current, PhaseInv, TypeOK
<1>2. round \in 1..MaxRounds
  BY DEF PhaseInv, TypeOK, Asked
<1>3. tool_idx + 1 \in 0..Len(pending_tool_calls)
  BY DEF PhaseInv, TypeOK
<1> QED BY <1>1, <1>2, <1>3 DEF Call, WorkFor, Work

\* An empty round is typed.
LEMMA ClearRoundType ==
    ASSUME ClearRound
    PROVE  /\ pending_tool_calls' \in Seq(Call) /\ tool_results' \in Seq(Work)
           /\ tool_idx' \in 0..Len(pending_tool_calls')
BY DEF ClearRound

\* ... and so is what a kickoff resets.
LEMMA ResetRoundType ==
    ASSUME ResetRound
    PROVE  /\ pending_tool_calls' \in Seq(Call) /\ tool_results' \in Seq(Work)
           /\ tool_idx' \in 0..Len(pending_tool_calls')
           /\ awaiting_approval' = FALSE /\ awaiting_classify' = FALSE /\ pending_classify_verdict' = {}
           /\ pending_tool_tasks' = {} /\ awaiting_tool_tasks' = FALSE
BY ClearRoundType DEF ResetRound, ClearToolTasks, ClearClassify

\* Appending an element keeps the type.
LEMMA AppendType ==
    ASSUME NEW S, NEW s \in Seq(S), NEW e \in S
    PROVE  Append(s, e) \in Seq(S)
OBVIOUS

\* The notes and answers handlers append keep the conversation typed.
LEMMA AppendedType ==
    ASSUME conversation \in Seq(Message(Id)), NEW tail \in {<<>>, <<User>>, <<Assistant>>, <<Promoted>>}
    PROVE  /\ tail \in Seq(Message(Id)) /\ conversation \o tail \in Seq(Message(Id))
           /\ conversation \o <<User>> \o tail \in Seq(Message(Id))
<1>1. <<>> \in Seq(Message(Id))
  OBVIOUS
<1>2. \A m \in Message(Id) : <<m>> \in Seq(Message(Id))
  OBVIOUS
<1>3. tail \in Seq(Message(Id)) /\ <<User>> \in Seq(Message(Id))
  BY <1>1, <1>2, MessageTypes, Zenon
<1> QED BY <1>3

\* An interrupt leaves every job's record, unties the running ones.
LEMMA KillBlockingJobsType ==
    ASSUME bash_jobs \in Seq(BashJob), KillBlockingJobs
    PROVE  /\ bash_jobs' \in Seq(BashJob) /\ Len(bash_jobs') = Len(bash_jobs)
           /\ \A j \in DOMAIN bash_jobs :
                /\ bash_jobs'[j].from = bash_jobs[j].from /\ bash_jobs'[j].status = bash_jobs[j].status
                /\ bash_jobs'[j].call \in {bash_jobs[j].call, None}
                /\ bash_jobs'[j].status = "running" => bash_jobs'[j].call = None
<1>1. \A j \in DOMAIN bash_jobs : bash_jobs[j] \in BashJob
  OBVIOUS
<1>2. \A j \in DOMAIN bash_jobs :
        /\ bash_jobs'[j] \in BashJob
        /\ bash_jobs'[j].from = bash_jobs[j].from /\ bash_jobs'[j].status = bash_jobs[j].status
        /\ bash_jobs'[j].call \in {bash_jobs[j].call, None}
        /\ bash_jobs'[j].status = "running" => bash_jobs'[j].call = None
  BY <1>1 DEF KillBlockingJobs, BashJob
<1>3. bash_jobs' = [j \in DOMAIN bash_jobs |-> bash_jobs'[j]]
  BY DEF KillBlockingJobs
<1> QED BY <1>2, <1>3, MappedSeq

\* A prefix as long as a set of indices is a prefix.
LEMMA PrefixType ==
    ASSUME NEW S, NEW s \in Seq(S), NEW I \in SUBSET DOMAIN s
    PROVE  SubSeq(s, 1, Cardinality(I)) \in Seq(S)
<1>1. Len(s) \in Nat /\ DOMAIN s = 1..Len(s)
  OBVIOUS
<1>2. IsFiniteSet(1..Len(s)) /\ Cardinality(1..Len(s)) = Len(s)
  <2>1. /\ IsFiniteSet(1..Len(s))
        /\ Cardinality(1..Len(s)) = IF 1 > Len(s) THEN 0 ELSE Len(s) - 1 + 1
    BY <1>1, FS_Interval
  <2> QED BY <1>1, <2>1
<1>3. Cardinality(I) \in Nat /\ Cardinality(I) <= Len(s)
  BY <1>1, <1>2, FS_Subset, FS_CardinalityType
<1> QED BY <1>1, <1>3

\* What a resend keeps is a conversation.
LEMMA PopType ==
    ASSUME NEW msgs \in Seq(Message(Id))
    PROVE  PopTrailingAssistants(msgs) \in Seq(Message(Id))
BY PrefixType DEF PopTrailingAssistants

\* What a rewind keeps is a conversation.
LEMMA BeforeLastUserType ==
    ASSUME NEW msgs \in Seq(Message(Id))
    PROVE  BeforeLastUser(msgs) \in Seq(Message(Id))
BY PrefixType DEF BeforeLastUser

\* The calls a finished stream leaves are a round of calls.
LEMMA HarvestedType ==
    ASSUME PhaseInv, NEW calls, Harvested(calls)
    PROVE  /\ calls \in Seq(Call) /\ calls /= <<>> /\ tool_idx <= Len(calls)
           /\ round' \in 0..MaxRounds
<1>1. CASE NativeIds
  BY <1>1 DEF Harvested, PhaseInv, TypeOK
<1>2. CASE ~NativeIds
  <2>1. stream /\ round < MaxRounds /\ calls \in NewRounds /\ round' = round + 1
    BY <1>2 DEF Harvested
  <2>2. round \in 0..MaxRounds /\ tool_idx = 0
    BY <2>1 DEF PhaseInv, TypeOK, Phases
  <2>3. calls \in Seq(Call) /\ calls /= <<>>
    BY <2>1, <2>2, NewRoundsType
  <2> QED BY <2>1, <2>2, <2>3, ConstantsAssumption
<1> QED BY <1>1, <1>2

\* No call has the id that stands for none.
LEMMA NoneIsNoId == None \notin Id
BY DEF None, Id, CallId

\* A set of indices of a list is finite.
LEMMA IndicesFinite ==
    ASSUME NEW S, NEW s \in Seq(S), NEW I \in SUBSET DOMAIN s
    PROVE  IsFiniteSet(I) /\ Cardinality(I) \in Nat
<1>1. Len(s) \in Nat /\ DOMAIN s = 1..Len(s)
  OBVIOUS
<1>2. IsFiniteSet(1..Len(s))
  BY <1>1, FS_Interval
<1> QED BY <1>1, <1>2, FS_Subset, FS_CardinalityType

\* Every step keeps the type invariant.
LEMMA TypeStep == ASSUME PhaseInv, [Next]_vars PROVE TypeOK'
<1> USE DEF PhaseInv, TypeOK
<1>c. /\ MaxSteers \in Nat /\ StallBudget \in Nat /\ MaxRounds \in Nat /\ MaxTurns \in Nat
      /\ MaxCalls \in Nat
  BY ConstantsAssumption
<1>1. CASE Submit
  <2>1. conversation' \in Seq(Message(Id))
    BY <1>1, MessageTypes DEF Submit
  <2>2. BeginStream(TRUE, stream)
    BY <1>1 DEF Submit
  <2>3. waiting' \in BOOLEAN /\ stream' \in BOOLEAN /\ buffer' \in BOOLEAN /\ active_turn' \in BOOLEAN
    BY <2>2, BeginStreamTypes
  <2>4. /\ ResetRound /\ turns' \in 0..MaxTurns /\ main_stall_nudges' = 0
        /\ UNCHANGED <<pending_steer, agentVars, offThread, nudgeVars, modeVars, walking, round>>
    BY <1>1, <1>c DEF Submit
  <2> QED
    BY <2>1, <2>3, <2>4, <1>c, ResetRoundType
<1>2. CASE SubmitRefused
  <2>1. conversation' \in Seq(Message(Id))
    BY <1>2, AppendedType DEF SubmitRefused
  <2> QED
    BY <1>2, <2>1, <1>c DEF SubmitRefused
<1>3. CASE Steer
  BY <1>3, <1>c DEF Steer
<1>4. CASE SetMode \/ Attach
  BY <1>4 DEF SetMode, ChangeMode, Attach
<1>5. CASE StartTask
  <2>1. NewAgent(None, FALSE) \in SubAgent
    BY <1>c DEF NewAgent, SubAgent
  <2>2. subagents' \in Seq(SubAgent)
    BY <1>5, <2>1, AppendType DEF StartTask
  <2>3. UNCHANGED <<turnVars, queueVars, roundVars, awaiting_approval, classifyVars, taskVars,
                   pending_subagent_calls, awaiting_subagents, offThread, nudgeVars, conversation,
                   modeVars, walking, counters>>
    BY <1>5 DEF StartTask
  <2> QED
    BY <2>2, <2>3
<1>6. CASE Approve
  <2>1. tool_idx < Len(pending_tool_calls)
    BY <1>6 DEF Approve, Phases
  <2>2. threads' \subseteq Work /\ pending_tool_tasks' \subseteq Id /\ tool_idx' \in 0..Len(pending_tool_calls')
    BY <1>6, <2>1, CurrentType DEF Approve, DispatchDeferred
  <2> QED
    BY <1>6, <2>2 DEF Approve, DispatchDeferred
<1>7. CASE Deny \/ ParkTimeout
  <2>1. HaltRound(conversation, pending_tool_calls)
    BY <1>7 DEF Deny, ParkTimeout, Halt
  <2>2. conversation' \in Seq(Message(Id)) /\ subagents' \in Seq(SubAgent)
    BY <2>1, HaltType
  <2> QED
    BY <1>7, <2>1, <2>2, ClearRoundType DEF Deny, ParkTimeout, Halt, HaltRound, AbortSubagents, ClearToolTasks, ClearClassify
<1>8. CASE StreamToolCalls
  <2>1. pending_tool_calls' \in Seq(Call)
    BY <1>8, NewRoundsType DEF StreamToolCalls
  <2>2. tool_idx = 0
    BY <1>8 DEF StreamToolCalls
  <2>3. tool_idx' \in 0..Len(pending_tool_calls')
    BY <1>8, <2>1, <2>2 DEF StreamToolCalls
  <2> QED
    BY <1>8, <2>1, <2>3, <1>c DEF StreamToolCalls
<1>9. CASE StreamError
  <2>1. conversation' \in Seq(Message(Id))
    BY <1>9, AppendedType DEF StreamError
  <2> QED
    <3>1. /\ ClearRound /\ awaiting_approval' = FALSE
        /\ awaiting_classify' = FALSE /\ pending_classify_verdict' = {}
        /\ waiting' = FALSE /\ active_turn' = FALSE /\ stream' = FALSE /\ buffer' = FALSE
        /\ main_stall_nudges' = 0
        /\ UNCHANGED <<pending_steer, taskVars, agentVars, offThread, nudgeVars, modeVars, walking, counters>>
      BY <1>9 DEF StreamError, ClearClassify
    <3>2. main_stall_nudges' \in 0..StallBudget
      BY <3>1, <1>c
    <3> QED BY <2>1, <3>1, <3>2, ClearRoundType
<1>10. CASE WalkInline
  BY <1>10, CurrentType DEF WalkInline, AtCall, AnswerNow
<1>11. CASE WalkImage
  <2>1. conversation' \in Seq(Message(Id))
    BY <1>11, MessageTypes DEF WalkImage
  <2> QED
    BY <1>11, <2>1, CurrentType DEF WalkImage, AtCall, AnswerNow
<1>12. CASE WalkDeferred
  BY <1>12, CurrentType DEF WalkDeferred, AtCall, DispatchDeferred
<1>13. CASE WalkRefuse
  BY <1>13, CurrentType DEF WalkRefuse, AtCall, AnswerNow, TakeVerdict
<1>14. CASE WalkRisky
  BY <1>14, CurrentType DEF WalkRisky, AtCall, DispatchDeferred, TakeVerdict
<1>15. CASE WalkAsk
  BY <1>15, CurrentType DEF WalkAsk, AtCall, TakeVerdict
<1>16. CASE WalkClassify
  BY <1>16, CurrentType DEF WalkClassify, AtCall, TakeVerdict
<1>17. CASE WalkPark
  BY <1>17 DEF WalkPark
<1>18. CASE Resend
  <2>1. conversation' \in Seq(Message(Id))
    BY <1>18, PopType DEF Resend
  <2>2. BeginStream(FALSE, stream)
    BY <1>18 DEF Resend
  <2>3. waiting' \in BOOLEAN /\ stream' \in BOOLEAN /\ buffer' \in BOOLEAN /\ active_turn' \in BOOLEAN
    BY <2>2, BeginStreamTypes
  <2>4. /\ turns' \in 0..MaxTurns
        /\ UNCHANGED <<queueVars, roundVars, awaiting_approval, classifyVars, taskVars, agentVars,
                       offThread, nudgeVars, modeVars, walking, round>>
    BY <1>18, <1>c DEF Resend
  <2> QED
    BY <2>1, <2>3, <2>4
<1>19. CASE Interrupt \/ InterruptRewind \/ SetModeStops
  <2>1. conversation' \in Seq(Message(Id))
    BY <1>19, AppendedType, BeforeLastUserType DEF Interrupt, InterruptRewind, SetModeStops, KeepPartial
  <2>2. Cut /\ agent_mode' \in Modes
    BY <1>19 DEF Interrupt, InterruptRewind, SetModeStops, ChangeMode
  <2>3. /\ subagents' \in Seq(SubAgent) /\ bash_jobs' \in Seq(BashJob)
    BY <2>2, KillBlockingAgentsType, KillBlockingJobsType DEF Cut, AbortSubagents
  <2>4. /\ ClearRound /\ awaiting_approval' = FALSE
        /\ stream' = FALSE /\ buffer' = FALSE /\ waiting' = FALSE /\ active_turn' = FALSE
        /\ pending_subagent_calls' = {} /\ awaiting_subagents' = FALSE
        /\ pending_tool_tasks' = {} /\ awaiting_tool_tasks' = FALSE
        /\ awaiting_classify' = FALSE /\ pending_classify_verdict' = {} /\ classifiers' = {}
        /\ UNCHANGED <<queueVars, threads, nudgeVars, approver, walking, counters>>
    BY <2>2 DEF Cut, DropStream, AbortSubagents, ClearToolTasks, ClearClassify
  <2> QED
    BY <2>1, <2>2, <2>3, <2>4, ClearRoundType
<1>20. ASSUME NEW i \in DOMAIN subagents, BackgroundSubagent(i) PROVE TypeOK'
  <2>1. subagents[i] \in SubAgent /\ subagents[i].from > 0
    BY <1>20 DEF BackgroundSubagent, Asked
  <2>2. [subagents[i] EXCEPT !.call = None, !.detached = TRUE] \in SubAgent
    BY <2>1 DEF SubAgent
  <2>3. subagents' = [subagents EXCEPT ![i] = [subagents[i] EXCEPT !.call = None, !.detached = TRUE]]
    BY <1>20 DEF BackgroundSubagent
  <2>4. subagents' \in Seq(SubAgent)
    BY <2>2, <2>3
  <2>5. [id |-> subagents[i].call, from |-> subagents[i].from] \in Work
    BY <1>20, <2>1, <1>c DEF BackgroundSubagent, SubAgent, Work
  <2>6. tool_results' \in Seq(Work)
    BY <1>20, <2>5 DEF BackgroundSubagent
  <2>7. /\ pending_subagent_calls' \subseteq Id
        /\ UNCHANGED <<turnVars, queueVars, pending_tool_calls, tool_idx, awaiting_approval, classifyVars,
                       taskVars, awaiting_subagents, offThread, nudgeVars, conversation, modeVars,
                       walking, counters>>
    BY <1>20 DEF BackgroundSubagent
  <2> QED
    BY <2>4, <2>6, <2>7
<1>21. ASSUME NEW j \in DOMAIN bash_jobs, BackgroundBash(j) PROVE TypeOK'
  <2>1. bash_jobs[j] \in BashJob
    OBVIOUS
  <2>2. [bash_jobs[j] EXCEPT !.call = None] \in BashJob
    BY <2>1 DEF BashJob
  <2>3. bash_jobs' = [bash_jobs EXCEPT ![j] = [bash_jobs[j] EXCEPT !.call = None]]
    BY <1>21 DEF BackgroundBash
  <2>4. bash_jobs' \in Seq(BashJob)
    BY <2>2, <2>3
  <2>5. [id |-> bash_jobs[j].call, from |-> bash_jobs[j].from] \in Work
    BY <1>21, <2>1 DEF BackgroundBash, BashJob, Work
  <2>6. tool_results' \in Seq(Work)
    BY <1>21, <2>5 DEF BackgroundBash
  <2>7. /\ pending_tool_tasks' \subseteq Id
        /\ UNCHANGED <<turnVars, queueVars, pending_tool_calls, tool_idx, awaiting_approval, classifyVars,
                       awaiting_tool_tasks, agentVars, threads, classifiers, nudgeVars, conversation,
                       modeVars, walking, counters>>
    BY <1>21 DEF BackgroundBash
  <2> QED
    BY <2>4, <2>6, <2>7
<1>22. ASSUME NEW calls, StreamDoneWithCalls(calls) PROVE TypeOK'
  <2>1. calls \in Seq(Call) /\ calls /= <<>> /\ round' \in 0..MaxRounds
    BY <1>22, HarvestedType DEF StreamDoneWithCalls
  <2>2. Calling(IdsOf(calls), FALSE) \in Message(Id)
    BY <2>1, IdsOfType, MessageTypes
  <2>3. conversation' \in Seq(Message(Id))
    BY <1>22, <2>2, AppendType DEF StreamDoneWithCalls
  <2>4. /\ pending_tool_calls' = calls /\ tool_idx' = 0 /\ tool_results' = <<>>
        /\ stream' = FALSE /\ buffer' = FALSE /\ walking' = TRUE
        /\ UNCHANGED <<waiting, active_turn, queueVars, awaiting_approval, classifyVars, taskVars,
                       agentVars, offThread, nudgeVars, modeVars, turns>>
    BY <1>22 DEF StreamDoneWithCalls
  <2>5. /\ pending_tool_calls' \in Seq(Call) /\ tool_results' \in Seq(Work)
        /\ tool_idx' \in 0..Len(pending_tool_calls')
    BY <2>1, <2>4
  <2> QED
    BY <2>3, <2>4, <2>5, <2>1
<1>23. ASSUME NEW calls, StreamDoneBlocked(calls) PROVE TypeOK'
  <2>1. calls \in Seq(Call) /\ calls /= <<>> /\ round' \in 0..MaxRounds /\ tool_idx <= Len(calls)
    BY <1>23, HarvestedType DEF StreamDoneBlocked
  <2>2. Calling(IdsOf(calls), FALSE) \in Message(Id)
    BY <2>1, IdsOfType, MessageTypes
  <2>3. Append(conversation, Calling(IdsOf(calls), FALSE)) \in Seq(Message(Id))
    BY <2>2, AppendType
  <2>4. /\ HaltRound(Append(conversation, Calling(IdsOf(calls), FALSE)), calls)
        /\ stream' = FALSE /\ buffer' = FALSE
        /\ UNCHANGED <<queueVars, offThread, nudgeVars, modeVars, walking, turns>>
    BY <1>23 DEF StreamDoneBlocked, Halt
  <2>5. conversation' \in Seq(Message(Id)) /\ subagents' \in Seq(SubAgent)
    BY <2>1, <2>3, <2>4, HaltType
  <2> QED
    BY <2>1, <2>4, <2>5, ClearRoundType DEF HaltRound, AbortSubagents, ClearToolTasks, ClearClassify
<1>24. ASSUME NEW stored \in Seq(Message(Id)), NEW left \in BOOLEAN, EndTurn(stored, left),
              UNCHANGED <<agentVars, offThread, nudgeVars, modeVars, walking, counters>>
       PROVE  TypeOK'
  <2>1. main_stall_nudges' \in 0..StallBudget
    BY <1>24, <1>c DEF EndTurn
  <2>2. CASE pending_steer = 0
    <3>1. /\ conversation' = stored
          /\ waiting' = FALSE /\ active_turn' = FALSE /\ stream' = FALSE /\ buffer' = left
          /\ UNCHANGED <<pending_steer, roundVars, awaiting_approval, classifyVars, taskVars>>
      BY <1>24, <2>2 DEF EndTurn
    <3> QED
      BY <1>24, <2>1, <3>1
  <2>3. CASE pending_steer /= 0
    <3>1. /\ pending_steer' = 0 /\ conversation' = Append(stored, User) /\ ResetRound
          /\ BeginStream(TRUE, FALSE)
      BY <1>24, <2>3, Zenon DEF EndTurn
    <3>2. waiting' \in BOOLEAN /\ stream' \in BOOLEAN /\ buffer' \in BOOLEAN /\ active_turn' \in BOOLEAN
      BY <3>1, BeginStreamTypes
    <3>3. conversation' \in Seq(Message(Id)) /\ pending_steer' \in 0..MaxSteers
      BY <3>1, <1>c, MessageTypes, AppendType
    <3> QED
      BY <1>24, <2>1, <3>1, <3>2, <3>3, ResetRoundType
  <2> QED
    BY <2>2, <2>3
<1>25. CASE StreamDone
  <2>1. PICK answer \in {<<>>, <<Assistant>>, <<Promoted>>} : EndTurn(conversation \o answer, FALSE)
    BY <1>25 DEF StreamDone
  <2>2. conversation \o answer \in Seq(Message(Id))
    BY AppendedType
  <2> QED
    BY <1>25, <1>24, <2>1, <2>2 DEF StreamDone
<1>26. CASE StreamStalled
  <2> DEFINE nudged == conversation \o <<Assistant, User>>
  <2>1. nudged \in Seq(Message(Id))
    <3>1. <<Assistant, User>> \in Seq(Message(Id))
      BY MessageTypes
    <3> QED BY <3>1
  <2> HIDE DEF nudged
  <2>2. CASE EndTurn(nudged, TRUE)
    BY <1>26, <1>24, <2>1, <2>2 DEF StreamStalled
  <2>3. CASE ~EndTurn(nudged, TRUE)
    <3>1. /\ main_stall_nudges < StallBudget /\ main_stall_nudges' = main_stall_nudges + 1
          /\ conversation' = nudged /\ BeginStream(FALSE, FALSE)
          /\ UNCHANGED <<pending_steer, roundVars, awaiting_approval, classifyVars, taskVars>>
          /\ UNCHANGED <<agentVars, offThread, nudgeVars, modeVars, walking, counters>>
      BY <1>26, <2>3, Zenon DEF StreamStalled, nudged
    <3>2. waiting' \in BOOLEAN /\ stream' \in BOOLEAN /\ buffer' \in BOOLEAN /\ active_turn' \in BOOLEAN
      BY <3>1, BeginStreamTypes
    <3>3. main_stall_nudges' \in 0..StallBudget
      BY <3>1, <1>c
    <3> QED
      BY <2>1, <3>1, <3>2, <3>3
  <2> QED
    BY <2>2, <2>3
<1>27. CASE WalkBash \/ WalkBackgroundBash
  <2>1. /\ tool_idx < Len(pending_tool_calls) /\ tool_idx' = tool_idx + 1
        /\ UNCHANGED <<turnVars, awaiting_approval, classifyVars, agentVars, threads, classifiers,
                       conversation, pending_tool_calls, queueVars, nudgeVars, modeVars, counters>>
        /\ pending_tool_tasks' \in {pending_tool_tasks, pending_tool_tasks \cup {Current.id}}
        /\ awaiting_tool_tasks' \in BOOLEAN /\ walking' \in BOOLEAN
        /\ tool_results' \in {tool_results, Append(tool_results, WorkFor(Current))}
        /\ \E c \in {None, Current.id} :
              bash_jobs' = Append(bash_jobs, [call |-> c, from |-> round, status |-> "running", suppress |-> FALSE])
    BY <1>27 DEF WalkBash, WalkBackgroundBash, AtCall, AnswerNow
  <2>2. /\ WorkFor(Current) \in Work /\ Current.id \in Id /\ round \in 1..MaxRounds
        /\ tool_idx' \in 0..Len(pending_tool_calls')
    BY <2>1, CurrentType
  <2>5. Append(tool_results, WorkFor(Current)) \in Seq(Work)
    BY <2>2, AppendType
  <2>6. pending_tool_tasks' \subseteq Id /\ tool_results' \in Seq(Work)
    BY <2>1, <2>2, <2>5
  <2>3. \A c \in {None, Current.id} :
          [call |-> c, from |-> round, status |-> "running", suppress |-> FALSE] \in BashJob
    BY <2>2 DEF BashJob
  <2>4. bash_jobs' \in Seq(BashJob)
    <3>1. PICK c \in {None, Current.id} :
            bash_jobs' = Append(bash_jobs, [call |-> c, from |-> round, status |-> "running", suppress |-> FALSE])
      BY <2>1
    <3> QED BY <2>3, <3>1, AppendType
  <2> QED
    BY <2>1, <2>2, <2>4, <2>6
<1>28. CASE WalkTask \/ WalkBackgroundTask
  <2>1. /\ tool_idx < Len(pending_tool_calls) /\ tool_idx' = tool_idx + 1
        /\ UNCHANGED <<turnVars, awaiting_approval, classifyVars, taskVars, offThread,
                       conversation, pending_tool_calls, queueVars, nudgeVars, modeVars, counters>>
        /\ pending_subagent_calls' \in {pending_subagent_calls, pending_subagent_calls \cup {Current.id}}
        /\ awaiting_subagents' \in BOOLEAN /\ walking' \in BOOLEAN
        /\ tool_results' \in {tool_results, Append(tool_results, WorkFor(Current))}
        /\ \E c \in {None, Current.id}, d \in BOOLEAN : subagents' = Append(subagents, NewAgent(c, d))
    BY <1>28 DEF WalkTask, WalkBackgroundTask, AtCall, AnswerNow, ParkOnAgent
  <2>2. /\ WorkFor(Current) \in Work /\ Current.id \in Id /\ round \in 1..MaxRounds
        /\ tool_idx' \in 0..Len(pending_tool_calls')
    BY <2>1, CurrentType
  <2>5. Append(tool_results, WorkFor(Current)) \in Seq(Work)
    BY <2>2, AppendType
  <2>6. pending_subagent_calls' \subseteq Id /\ tool_results' \in Seq(Work)
    BY <2>1, <2>2, <2>5
  <2>3. \A c \in {None, Current.id}, d \in BOOLEAN : NewAgent(c, d) \in SubAgent
    BY <2>2 DEF NewAgent, SubAgent
  <2>4. subagents' \in Seq(SubAgent)
    BY <2>1, <2>3, AppendType
  <2> QED
    BY <2>1, <2>2, <2>4, <2>6
<1>29. CASE FinishToolRound
  <2>1. Answers(tool_results) \in Seq(Message(Id)) /\ Followups \in Seq(Message(Id))
    BY AnswersType, AppendedType DEF Followups
  <2>2. conversation' \in Seq(Message(Id))
    BY <1>29, <2>1 DEF FinishToolRound, RoundFlush
  <2>3. /\ BeginStream(FALSE, stream) /\ ClearRound /\ pending_steer' = 0 /\ walking' = FALSE
        /\ UNCHANGED <<main_stall_nudges, awaiting_approval, classifyVars, taskVars, agentVars,
                       offThread, nudgeVars, modeVars, counters>>
    BY <1>29 DEF FinishToolRound
  <2>4. waiting' \in BOOLEAN /\ stream' \in BOOLEAN /\ buffer' \in BOOLEAN /\ active_turn' \in BOOLEAN
    BY <2>3, BeginStreamTypes
  <2>5. pending_steer' \in 0..MaxSteers
    BY <2>3, <1>c
  <2> QED
    BY <2>2, <2>3, <2>4, <2>5, ClearRoundType
<1>30. CASE Resume
  BY <1>30 DEF Resume, Enters
<1>31. ASSUME NEW work \in threads, FoldTask(work) PROVE TypeOK'
  <2>1. pending_tool_tasks' \subseteq Id /\ tool_results' \in Seq(Work)
    BY <1>31, AppendType DEF FoldTask, FoldIfPending
  <2> QED
    BY <1>31, <2>1 DEF FoldTask
<1>32. ASSUME NEW j \in DOMAIN bash_jobs, BashExits(j) PROVE TypeOK'
  <2>1. [bash_jobs[j] EXCEPT !.status = "exited"] \in BashJob
    <3>1. bash_jobs[j] \in BashJob
      OBVIOUS
    <3> QED BY <3>1 DEF BashJob
  <2>2. bash_jobs' \in Seq(BashJob)
    BY <1>32, <2>1 DEF BashExits
  <2> QED
    BY <1>32, <2>2 DEF BashExits
<1>33. ASSUME NEW j \in DOMAIN bash_jobs, DrainBash(j) PROVE TypeOK'
  <2>1. bash_jobs[j] \in BashJob
    OBVIOUS
  <2>2. [bash_jobs[j] EXCEPT !.status = "reported", !.call = None] \in BashJob
    BY <2>1 DEF BashJob
  <2>3. bash_jobs' = [bash_jobs EXCEPT ![j] = [bash_jobs[j] EXCEPT !.status = "reported", !.call = None]]
    BY <1>33 DEF DrainBash
  <2>4. bash_jobs' \in Seq(BashJob)
    BY <2>2, <2>3
  <2>5. /\ pending_tool_tasks' \subseteq Id /\ tool_results' \in Seq(Work)
        /\ pending_bash_nudges' \in BOOLEAN
    <3>1. CASE bash_jobs[j].call = None
      BY <1>33, <3>1 DEF DrainBash
    <3>2. CASE bash_jobs[j].call /= None
      <4>1. [id |-> bash_jobs[j].call, from |-> bash_jobs[j].from] \in Work
        BY <2>1, <3>2 DEF BashJob, Work
      <4> QED
        BY <1>33, <3>2, <4>1, AppendType DEF DrainBash, FoldIfPending
    <3> QED BY <3>1, <3>2
  <2>6. UNCHANGED <<turnVars, queueVars, pending_tool_calls, tool_idx, awaiting_approval, classifyVars,
                   awaiting_tool_tasks, agentVars, threads, classifiers, pending_subagent_nudges,
                   conversation, modeVars, walking, counters>>
    BY <1>33 DEF DrainBash
  <2> QED
    BY <2>4, <2>5, <2>6
<1>34. ASSUME NEW work \in classifiers, NEW verdict \in Verdict, DrainVerdict(work, verdict) PROVE TypeOK'
  <2>1. [work |-> work, verdict |-> verdict] \in [work : Work, verdict : Verdict]
    OBVIOUS
  <2>2. /\ pending_classify_verdict' \in {pending_classify_verdict, {[work |-> work, verdict |-> verdict]}}
        /\ classifiers' \subseteq Work /\ awaiting_classify' \in BOOLEAN /\ walking' \in BOOLEAN
        /\ UNCHANGED <<turnVars, queueVars, roundVars, awaiting_approval, taskVars, agentVars, threads,
                       bash_jobs, nudgeVars, conversation, modeVars, counters>>
    BY <1>34 DEF DrainVerdict
  <2>3. pending_classify_verdict' \subseteq [work : Work, verdict : Verdict]
    BY <2>1, <2>2
  <2> QED
    BY <2>2, <2>3
<1>35. ASSUME NEW subs \in Seq(SubAgent), DrainSubagents(subs),
              \A i \in DOMAIN subs : subs[i].call /= None => subs[i].from > 0
       PROVE  TypeOK'
  <2>1. subagents' \in Seq(SubAgent)
    <3>1. \A i \in DOMAIN subs : subs[i] \in SubAgent
      OBVIOUS
    <3>2. \A i \in DOMAIN subs : subagents'[i] \in SubAgent
      BY <1>35, <3>1 DEF DrainSubagents, SubAgent
    <3>3. subagents' = [i \in DOMAIN subs |-> subagents'[i]]
      BY <1>35 DEF DrainSubagents
    <3> QED
      BY <3>2, <3>3, MappedSeq
  <2>2. tool_results' \in Seq(Work)
    <3>1. PICK order \in [1..Cardinality(Deliverable(subs)) -> Deliverable(subs)] :
            tool_results' = tool_results \o
              [k \in DOMAIN order |-> [id |-> subs[order[k]].call, from |-> subs[order[k]].from]]
      BY <1>35 DEF DrainSubagents
    <3>2. ASSUME NEW i \in Deliverable(subs)
          PROVE  [id |-> subs[i].call, from |-> subs[i].from] \in Work
      <4>1. i \in DOMAIN subs /\ subs[i] \in SubAgent /\ subs[i].call \in Id
        BY DEF Deliverable
      <4>2. subs[i].from \in 1..MaxRounds
        BY <1>35, <1>c, <4>1, NoneIsNoId DEF SubAgent
      <4> QED BY <4>1, <4>2 DEF Work
    <3>3. [k \in DOMAIN order |-> [id |-> subs[order[k]].call, from |-> subs[order[k]].from]]
            \in [1..Cardinality(Deliverable(subs)) -> Work]
      BY <3>2
    <3>4. Cardinality(Deliverable(subs)) \in Nat
      BY IndicesFinite DEF Deliverable
    <3>5. [k \in DOMAIN order |-> [id |-> subs[order[k]].call, from |-> subs[order[k]].from]] \in Seq(Work)
      BY <3>3, <3>4, FunctionIsSeq
    <3> QED
      BY <3>1, <3>5, ConcatType
  <2>3. conversation' \in Seq(Message(Id))
    <3>1. Cardinality(TaskNotes(subs)) \in Nat
      BY IndicesFinite DEF TaskNotes, Unannounced
    <3>2. [k \in 1..Cardinality(TaskNotes(subs)) |-> User] \in [1..Cardinality(TaskNotes(subs)) -> Message(Id)]
      BY MessageTypes
    <3>3. [k \in 1..Cardinality(TaskNotes(subs)) |-> User] \in Seq(Message(Id))
      BY <3>1, <3>2, FunctionIsSeq
    <3>4. conversation' = conversation \o [k \in 1..Cardinality(TaskNotes(subs)) |-> User]
      BY <1>35 DEF DrainSubagents
    <3> QED
      BY <3>3, <3>4, ConcatType
  <2>4. /\ pending_subagent_calls' \subseteq Id /\ pending_subagent_nudges' \in BOOLEAN
        /\ UNCHANGED <<turnVars, queueVars, pending_tool_calls, tool_idx, awaiting_approval, classifyVars,
                       taskVars, awaiting_subagents, offThread, pending_bash_nudges, modeVars, walking,
                       counters>>
    BY <1>35 DEF DrainSubagents
  <2> QED
    BY <2>1, <2>2, <2>3, <2>4
<1>36. ASSUME NEW i \in DOMAIN subagents, SubagentEnds(i) PROVE TypeOK'
  <2>1. PICK end \in {"done", "killed"} : DrainSubagents([subagents EXCEPT ![i].status = end])
    BY <1>36 DEF SubagentEnds
  <2>2. subagents[i] \in SubAgent
    OBVIOUS
  <2>3. [subagents[i] EXCEPT !.status = end] \in SubAgent
    BY <2>2 DEF SubAgent
  <2>4. [subagents EXCEPT ![i].status = end] \in Seq(SubAgent)
    BY <2>3
  <2>5. \A k \in DOMAIN subagents :
          [subagents EXCEPT ![i].status = end][k].call /= None => [subagents EXCEPT ![i].status = end][k].from > 0
    BY <2>2 DEF Asked, SubAgent
  <2> QED
    BY <1>35, <2>1, <2>4, <2>5
<1>37. CASE RevisitSubagents
  BY <1>35, <1>37 DEF RevisitSubagents, Asked
<1>38. CASE Wakes
  <2>1. /\ BeginStream(FALSE, stream) /\ ResetRound
        /\ conversation' = Append(conversation, User)
        /\ turns < MaxTurns /\ turns' = turns + 1
        /\ pending_bash_nudges' \in BOOLEAN /\ pending_subagent_nudges' \in BOOLEAN
        /\ UNCHANGED <<queueVars, agentVars, offThread, modeVars, walking, round>>
    BY <1>38 DEF Wakes, WakeForBash, WakeForSubagent, Wake
  <2>2. waiting' \in BOOLEAN /\ stream' \in BOOLEAN /\ buffer' \in BOOLEAN /\ active_turn' \in BOOLEAN
    BY <2>1, BeginStreamTypes
  <2>3. conversation' \in Seq(Message(Id)) /\ turns' \in 0..MaxTurns
    BY <2>1, MessageTypes, AppendType, <1>c
  <2> QED
    BY <2>1, <2>2, <2>3, ResetRoundType
<1>39. CASE UNCHANGED vars
  BY <1>39 DEF vars
<1>40. CASE Request
  BY <1>40, <1>1, <1>2, <1>3, <1>4, <1>5, <1>6, <1>7, <1>18, <1>19, <1>20, <1>21, Zenon DEF Request
<1>41. CASE StreamToolCalls \/ StreamEnds
  BY <1>41, <1>8, <1>9, <1>22, <1>23, <1>25, <1>26, Zenon DEF StreamEnds
<1>42. CASE ProcessTools
  BY <1>42, <1>10, <1>11, <1>12, <1>13, <1>14, <1>15, <1>16, <1>17, <1>27, <1>28, <1>29, Zenon
     DEF ProcessTools
<1>43. CASE Reports \/ RevisitSubagents
  BY <1>43, <1>31, <1>32, <1>33, <1>34, <1>36, <1>37, Zenon DEF Reports
<1> QED
  BY <1>30, <1>38, <1>39, <1>40, <1>41, <1>42, <1>43, Zenon DEF Next

-----------------------------------------------------------------------------
(* The phases.                                                             *)

\* Every step keeps the phases, when a denial only answers a parked call.
LEMMA PhaseStep == ASSUME PhaseInv, [Next]_vars, ~LateDeny PROVE Phases'
<1> USE DEF PhaseInv, Phases, ParkedOnWork, GateOpen, Current
<1>types. /\ {StartMayFail} \subseteq BOOLEAN
          /\ waiting \in BOOLEAN /\ stream \in BOOLEAN /\ active_turn \in BOOLEAN /\ walking \in BOOLEAN
          /\ awaiting_approval \in BOOLEAN /\ awaiting_classify \in BOOLEAN
          /\ awaiting_tool_tasks \in BOOLEAN /\ awaiting_subagents \in BOOLEAN
  BY ConstantsAssumption DEF TypeOK
<1>1. CASE Submit
  BY <1>1, <1>types, BeginStreamTypes DEF Submit, ResetRound, ClearRound, ClearToolTasks, ClearClassify
<1>2. CASE SubmitRefused
  BY <1>2 DEF SubmitRefused
<1>2a. CASE Steer
  BY <1>2a DEF Steer
<1>2b. CASE SetMode
  BY <1>2b DEF SetMode
<1>2c. CASE Attach
  BY <1>2c DEF Attach
<1>2d. CASE StartTask
  BY <1>2d DEF StartTask
<1>3. CASE Resend
  BY <1>3, <1>types, BeginStreamTypes DEF Resend
<1>4. CASE Interrupt \/ InterruptRewind \/ SetModeStops
  BY <1>4 DEF Interrupt, InterruptRewind, SetModeStops, Cut, DropStream, ClearRound, AbortSubagents, ClearToolTasks, ClearClassify
<1>5. CASE Approve
  BY <1>5 DEF Approve, DispatchDeferred
<1>6. CASE (Deny /\ ~LateDeny) \/ ParkTimeout
  BY <1>6 DEF Deny, ParkTimeout, Halt, HaltRound, ClearRound, AbortSubagents, ClearToolTasks, ClearClassify
<1>7. CASE \E i \in DOMAIN subagents : BackgroundSubagent(i)
  BY <1>7 DEF BackgroundSubagent
<1>8. CASE \E j \in DOMAIN bash_jobs : BackgroundBash(j)
  BY <1>8 DEF BackgroundBash
<1>9. CASE StreamToolCalls
  BY <1>9 DEF StreamToolCalls
<1>10. ASSUME NEW calls, StreamDoneWithCalls(calls) PROVE Phases'
  BY <1>10, <1>types DEF StreamDoneWithCalls, Harvested
<1>11. ASSUME NEW calls, StreamDoneBlocked(calls) PROVE Phases'
  BY <1>11, <1>types DEF StreamDoneBlocked, Harvested, Halt, HaltRound, ClearRound, AbortSubagents, ClearToolTasks, ClearClassify
<1>12. ASSUME NEW stored, NEW left, stream, EndTurn(stored, left), UNCHANGED <<agentVars, walking>> PROVE Phases'
  <2>1. CASE pending_steer = 0
    BY <1>12, <2>1, <1>types DEF EndTurn
  <2>2. CASE pending_steer /= 0
    <3>1. BeginStream(TRUE, FALSE) /\ ResetRound
      BY <1>12, <2>2, Zenon DEF EndTurn
    <3>2. waiting' \in BOOLEAN /\ (stream' => waiting')
      BY <3>1, <1>types, BeginStreamTypes
    <3> QED
      BY <1>12, <3>1, <3>2, <1>types DEF ResetRound, ClearRound, ClearToolTasks, ClearClassify
  <2> QED
    BY <1>12, <2>1, <2>2 DEF EndTurn
<1>13. CASE StreamDone
  BY <1>13, <1>12 DEF StreamDone
<1>14. CASE StreamStalled
  <2>1. CASE \E stored, left : EndTurn(stored, left)
    BY <1>14, <1>12, <2>1 DEF StreamStalled
  <2>2. CASE ~\E stored, left : EndTurn(stored, left)
    <3>1. /\ stream /\ waiting' /\ UNCHANGED <<roundVars, awaiting_approval, classifyVars, taskVars, agentVars, walking>>
      BY <1>14, <2>2, Zenon DEF StreamStalled
    <3> QED BY <3>1, <1>types
  <2> QED
    BY <2>1, <2>2
<1>15. CASE StreamError
  BY <1>15, <1>types DEF StreamError, ClearRound, ClearClassify
<1>16a. CASE WalkInline
  BY <1>16a, <1>types DEF AtCall, AnswerNow, WalkInline
<1>16b. CASE WalkImage
  BY <1>16b, <1>types DEF AtCall, AnswerNow, WalkImage
<1>16c. CASE WalkBackgroundBash
  BY <1>16c, <1>types DEF AtCall, AnswerNow, WalkBackgroundBash
<1>16d. CASE WalkBackgroundTask
  BY <1>16d, <1>types DEF AtCall, AnswerNow, WalkBackgroundTask
<1>16e. CASE WalkRefuse
  BY <1>16e, <1>types DEF AtCall, AnswerNow, WalkRefuse
<1>17. CASE WalkDeferred \/ WalkRisky \/ WalkBash \/ WalkClassify \/ WalkAsk \/ WalkPark
  BY <1>17, <1>types DEF AtCall, AtEnd, DispatchDeferred, WalkDeferred, WalkRisky, WalkBash, WalkClassify, WalkAsk, WalkPark
<1>18. CASE WalkTask
  BY <1>18, <1>types DEF AtCall, WalkTask, ParkOnAgent
<1>19. CASE FinishToolRound
  BY <1>19, <1>types, BeginStreamTypes DEF FinishToolRound, AtEnd, ClearRound
<1>20. CASE Resume
  BY <1>20, <1>types DEF Resume, Enters
<1>21. ASSUME NEW work, FoldTask(work) PROVE Phases'
  BY <1>21 DEF FoldTask, FoldIfPending
<1>22. ASSUME NEW j, BashExits(j) \/ DrainBash(j) PROVE Phases'
  BY <1>22 DEF BashExits, DrainBash, FoldIfPending
<1>23. ASSUME NEW work, NEW verdict, DrainVerdict(work, verdict) PROVE Phases'
  BY <1>23, <1>types DEF DrainVerdict
<1>24. ASSUME NEW subs, DrainSubagents(subs) PROVE Phases'
  BY <1>24 DEF DrainSubagents
<1>25. CASE Wakes
  <2>1. BeginStream(FALSE, stream) /\ ~waiting
     BY <1>25 DEF Wakes, WakeForBash, WakeForSubagent, Wake, IsWorking
  <2>2. waiting' \in BOOLEAN /\ (stream' => waiting' \/ stream)
      BY <2>1, <1>types, BeginStreamTypes
  <2>3. ResetRound /\ UNCHANGED <<agentVars, walking>>
     BY <1>25 DEF Wakes, WakeForBash, WakeForSubagent, Wake
  <2> QED BY <1>types, <2>1, <2>2, <2>3 DEF ResetRound, ClearRound, ClearToolTasks, ClearClassify
<1>26. CASE UNCHANGED vars
  BY <1>26 DEF vars
<1>27. CASE Request
  BY <1>27, <1>1, <1>2, <1>2a, <1>2b, <1>2c, <1>2d, <1>3, <1>4, <1>5, <1>6, <1>7, <1>8, Zenon DEF Request
<1>28. CASE StreamToolCalls \/ StreamEnds
  BY <1>28, <1>9, <1>10, <1>11, <1>13, <1>14, <1>15, Zenon DEF StreamEnds
<1>29. CASE ProcessTools
  BY <1>29, <1>16a, <1>16b, <1>16c, <1>16d, <1>16e, <1>17, <1>18, <1>19, Zenon DEF ProcessTools
<1>30. CASE Reports \/ RevisitSubagents
  BY <1>30, <1>21, <1>22, <1>23, <1>24, Zenon DEF Reports, SubagentEnds, RevisitSubagents
<1> QED
  BY <1>20, <1>25, <1>26, <1>27, <1>28, <1>29, <1>30, Zenon DEF Next

\* Every step keeps calls and agents tied to a round that was asked for.
LEMMA AskedStep == ASSUME PhaseInv, TypeOK', [Next]_vars PROVE Asked'
<1> USE DEF Asked
<1>1. /\ Asked /\ subagents \in Seq(SubAgent) /\ round \in 0..MaxRounds /\ round' \in 0..MaxRounds
      /\ MaxRounds \in Nat /\ (tool_idx < Len(pending_tool_calls) => round \in 1..MaxRounds)
  BY ConstantsAssumption, CurrentType DEF PhaseInv, TypeOK
<1>2. CASE UNCHANGED <<pending_tool_calls, round, subagents>>
  BY <1>1, <1>2
<1>3. ASSUME ClearRound, UNCHANGED <<round, subagents>> PROVE Asked'
  BY <1>1, <1>3 DEF ClearRound
<1>4. ASSUME pending_tool_calls' = <<>>, KillBlockingAgents PROVE Asked'
  <2>1. DOMAIN subagents' = DOMAIN subagents
    BY <1>4 DEF KillBlockingAgents
  <2> QED
    BY <1>1, <1>4, <2>1, KillBlockingAgentsType
<1>5. ASSUME NEW c, NEW d, subagents' = Append(subagents, NewAgent(c, d)), UNCHANGED <<pending_tool_calls, round>>,
             c = None \/ round > 0
      PROVE  Asked'
  <2>1. \A i \in DOMAIN subagents' : IF i \in DOMAIN subagents THEN subagents'[i] = subagents[i]
                                     ELSE subagents'[i] = NewAgent(c, d)
    BY <1>1, <1>5
  <2> QED
    BY <1>1, <1>5, <2>1 DEF NewAgent
<1>6. CASE StreamToolCalls
  BY <1>1, <1>6 DEF StreamToolCalls
<1>7. ASSUME NEW calls, StreamDoneWithCalls(calls) PROVE Asked'
  <2>1. calls /= <<>> /\ (round' = round \/ round' = round + 1) /\ (round' = round => pending_tool_calls = calls)
    BY <1>7, HarvestedType DEF StreamDoneWithCalls, Harvested
  <2> QED
    BY <1>1, <1>7, <2>1 DEF StreamDoneWithCalls
<1>8. ASSUME NEW calls, StreamDoneBlocked(calls) PROVE Asked'
  BY <1>4, <1>8 DEF StreamDoneBlocked, Halt, HaltRound, ClearRound, AbortSubagents
<1>9. ASSUME NEW stored, NEW left, EndTurn(stored, left), UNCHANGED <<round, subagents>> PROVE Asked'
  BY <1>2, <1>3, <1>9, Zenon DEF EndTurn, ResetRound, roundVars
<1>10. CASE StreamDone
  BY <1>9, <1>10 DEF StreamDone
<1>11. CASE StreamStalled
  BY <1>2, <1>9, <1>11, Zenon DEF StreamStalled, roundVars, agentVars, counters
<1>12. CASE WalkTask \/ WalkBackgroundTask
  <2>1. /\ tool_idx < Len(pending_tool_calls) /\ UNCHANGED <<pending_tool_calls, round>>
        /\ \E c, d : subagents' = Append(subagents, NewAgent(c, d))
    BY <1>12 DEF WalkTask, WalkBackgroundTask, AtCall
  <2>2. round > 0
    BY <1>1, <2>1
  <2> QED
    BY <1>5, <2>1, <2>2
<1>13. CASE StartTask
  BY <1>1, <1>5, <1>13 DEF StartTask
<1>14. ASSUME NEW i \in DOMAIN subagents, BackgroundSubagent(i) PROVE Asked'
  <2>1. /\ DOMAIN subagents' = DOMAIN subagents /\ UNCHANGED <<pending_tool_calls, round>>
        /\ \A k \in DOMAIN subagents : subagents'[k].call \in {subagents[k].call, None} /\ subagents'[k].from = subagents[k].from
    <3>1. subagents' = [subagents EXCEPT ![i] = [subagents[i] EXCEPT !.call = None, !.detached = TRUE]]
      BY <1>14 DEF BackgroundSubagent
    <3>2. subagents[i] \in SubAgent
      BY <1>1
    <3> QED BY <1>1, <1>14, <3>1, <3>2 DEF BackgroundSubagent, SubAgent
  <2> QED
    BY <1>1, <2>1
<1>15. ASSUME NEW subs \in Seq(SubAgent), DrainSubagents(subs),
              \A i \in DOMAIN subs : subs[i].call /= None => subs[i].from > 0
       PROVE  Asked'
  <2>1. \A i \in DOMAIN subs : subs[i] \in SubAgent
    OBVIOUS
  <2>2. /\ DOMAIN subagents' = DOMAIN subs /\ UNCHANGED <<pending_tool_calls, round>>
        /\ \A k \in DOMAIN subs : subagents'[k].call = subs[k].call /\ subagents'[k].from = subs[k].from
    BY <1>15, <2>1 DEF DrainSubagents, SubAgent
  <2> QED
    BY <1>1, <1>15, <2>2
<1>16. ASSUME NEW i \in DOMAIN subagents, SubagentEnds(i) PROVE Asked'
  <2>1. PICK end \in {"done", "killed"} : DrainSubagents([subagents EXCEPT ![i].status = end])
    BY <1>16 DEF SubagentEnds
  <2>2. subagents[i] \in SubAgent
    BY <1>1
  <2>3. [subagents[i] EXCEPT !.status = end] \in SubAgent
    BY <2>2 DEF SubAgent
  <2>4. [subagents EXCEPT ![i].status = end] \in Seq(SubAgent)
    BY <1>1, <2>3
  <2>5. \A k \in DOMAIN subagents :
          [subagents EXCEPT ![i].status = end][k].call /= None => [subagents EXCEPT ![i].status = end][k].from > 0
    BY <1>1, <2>2 DEF SubAgent
  <2> QED
    BY <1>15, <2>1, <2>4, <2>5
<1>17. CASE RevisitSubagents
  BY <1>1, <1>15, <1>17 DEF RevisitSubagents
<1>18. CASE Submit \/ StreamError \/ Wakes
  BY <1>3, <1>18 DEF Submit, StreamError, Wakes, WakeForBash, WakeForSubagent, Wake, ResetRound
<1>19. CASE Interrupt \/ InterruptRewind \/ SetModeStops \/ Deny \/ ParkTimeout
  BY <1>4, <1>19 DEF Interrupt, InterruptRewind, SetModeStops, Cut, Deny, ParkTimeout, Halt, HaltRound, ClearRound, AbortSubagents
<1>20. CASE FinishToolRound
  BY <1>3, <1>20 DEF FinishToolRound
<1>21. CASE SubmitRefused \/ Steer \/ Resend \/ Approve \/ SetMode \/ Attach
  BY <1>2, <1>21 DEF SubmitRefused, Steer, Resend, Approve, SetMode, Attach, DispatchDeferred
<1>22. ASSUME NEW j, BackgroundBash(j) \/ BashExits(j) \/ DrainBash(j) PROVE Asked'
  BY <1>2, <1>22 DEF BackgroundBash, BashExits, DrainBash
<1>23. ASSUME NEW work, FoldTask(work) \/ \E verdict : DrainVerdict(work, verdict) PROVE Asked'
  BY <1>2, <1>23 DEF FoldTask, DrainVerdict
<1>24. CASE WalkInline \/ WalkImage \/ WalkDeferred \/ WalkBash \/ WalkBackgroundBash
  BY <1>2, <1>24 DEF WalkInline, WalkImage, WalkDeferred, WalkBash, WalkBackgroundBash
<1>25. CASE WalkClassify \/ WalkRisky \/ WalkAsk \/ WalkRefuse \/ WalkPark
  BY <1>2, <1>25 DEF WalkClassify, WalkRisky, WalkAsk, WalkRefuse, WalkPark
<1>26. CASE Resume \/ UNCHANGED vars
  BY <1>2, <1>26 DEF Resume, vars
<1>27. CASE Request
  BY <1>27, <1>13, <1>14, <1>18, <1>19, <1>21, <1>22, Zenon DEF Request
<1>28. CASE StreamToolCalls \/ StreamEnds
  BY <1>28, <1>6, <1>7, <1>8, <1>10, <1>11, <1>18, Zenon DEF StreamEnds
<1>29. CASE ProcessTools
  BY <1>29, <1>12, <1>20, <1>24, <1>25, Zenon DEF ProcessTools
<1>30. CASE Reports
  BY <1>30, <1>16, <1>22, <1>23, Zenon DEF Reports
<1> QED
  BY <1>17, <1>18, <1>26, <1>27, <1>28, <1>29, <1>30, Zenon DEF Next

\* The start is in the invariant.
LEMMA PhaseInit == ASSUME Init PROVE PhaseInv
<1>1. TypeOK
  <2>1. /\ MaxSteers \in Nat /\ StallBudget \in Nat /\ MaxRounds \in Nat /\ MaxTurns \in Nat
    BY ConstantsAssumption
  <2>2. /\ pending_steer \in 0..MaxSteers /\ main_stall_nudges \in 0..StallBudget
        /\ round \in 0..MaxRounds /\ turns \in 0..MaxTurns
    BY <2>1 DEF Init
  <2>3. /\ pending_tool_calls \in Seq(Call) /\ tool_results \in Seq(Work)
        /\ subagents \in Seq(SubAgent) /\ bash_jobs \in Seq(BashJob) /\ conversation \in Seq(Message(Id))
        /\ tool_idx \in 0..Len(pending_tool_calls)
    BY DEF Init
  <2> QED
    BY <2>2, <2>3 DEF Init, TypeOK
<1> QED
  BY <1>1 DEF Init, PhaseInv, Phases, Asked, ParkedOnWork, GateOpen

\* The phases hold in every state.
LEMMA PhasesHold == ASSUME ~LateDeny PROVE Spec => []PhaseInv
<1>1. Init => PhaseInv
  BY PhaseInit
<1>2. PhaseInv /\ [Next]_vars => PhaseInv'
  BY TypeStep, PhaseStep, AskedStep DEF PhaseInv
<1> QED
  BY <1>1, <1>2, PTL DEF Spec

\* Every variable of the engine keeps its type; above all tool_idx never passes the
\* end of the round, so process_tools never indexes past pending_tool_calls.
THEOREM TypeCorrect == ASSUME ~LateDeny PROVE Spec => []TypeOK
<1>1. PhaseInv => TypeOK
  BY DEF PhaseInv
<1> QED
  BY <1>1, PhasesHold, PTL

\* process_tools is never on the stack for a turn that was halted.
THEOREM HaltedLoopStops == ASSUME ~LateDeny PROVE Spec => []HaltedTurnRunsNoTool
<1>1. PhaseInv => HaltedTurnRunsNoTool
  BY DEF PhaseInv, Phases, HaltedTurnRunsNoTool
<1> QED
  BY <1>1, PhasesHold, PTL

-----------------------------------------------------------------------------
(* What a turn waits for.                                                  *)

\* A turn that goes on waiting is streaming, parked or walking after every step.
LEMMA MovesStep == ASSUME PhaseInv, Moves, [Next]_vars PROVE Moves'
<1> USE DEF PhaseInv, Phases, ParkedOnWork, GateOpen, Moves
<1>types. /\ {StartMayFail} \subseteq BOOLEAN
          /\ waiting \in BOOLEAN /\ stream \in BOOLEAN /\ walking \in BOOLEAN
  BY ConstantsAssumption DEF TypeOK
<1>1. CASE UNCHANGED <<waiting, stream, awaiting_approval, awaiting_classify, awaiting_tool_tasks,
                       awaiting_subagents, walking>>
  BY <1>1
<1>2. CASE ~waiting'
  BY <1>2
<1>3. CASE walking' \/ awaiting_approval' \/ awaiting_classify' \/ awaiting_tool_tasks' \/ awaiting_subagents'
  BY <1>3
<1>4. ASSUME NEW kickoff, NEW old, BeginStream(kickoff, old) PROVE Moves'
  BY <1>4, <1>types DEF BeginStream
<1>5. CASE Submit \/ Resend \/ FinishToolRound \/ Wakes
  BY <1>4, <1>5, Zenon DEF Submit, Resend, FinishToolRound, Wakes, WakeForBash, WakeForSubagent, Wake
<1>6. CASE Interrupt \/ InterruptRewind \/ SetModeStops \/ Deny \/ ParkTimeout
  BY <1>2, <1>6, Zenon DEF Interrupt, InterruptRewind, SetModeStops, Cut, Deny, ParkTimeout, Halt, HaltRound
<1>7. CASE SubmitRefused \/ Steer \/ SetMode \/ Attach \/ StartTask
  BY <1>1, <1>7 DEF SubmitRefused, Steer, SetMode, Attach, StartTask
<1>8. CASE Approve \/ WalkDeferred \/ WalkRisky \/ WalkBash \/ WalkClassify \/ WalkAsk \/ WalkTask
  BY <1>3, <1>8 DEF Approve, DispatchDeferred, WalkDeferred, WalkRisky, WalkBash, WalkClassify, WalkAsk,
                    WalkTask, ParkOnAgent
<1>9. CASE WalkPark
  BY <1>3, <1>9 DEF WalkPark
<1>10. CASE WalkInline \/ WalkImage \/ WalkBackgroundBash \/ WalkBackgroundTask \/ WalkRefuse
  BY <1>3, <1>10 DEF WalkInline, WalkImage, WalkBackgroundBash, WalkBackgroundTask, WalkRefuse, AtCall, AnswerNow
<1>11. CASE (\E i \in DOMAIN subagents : BackgroundSubagent(i)) \/ (\E j \in DOMAIN bash_jobs : BackgroundBash(j))
  BY <1>1, <1>11 DEF BackgroundSubagent, BackgroundBash
<1>12. CASE StreamToolCalls
  BY <1>1, <1>12 DEF StreamToolCalls
<1>13. ASSUME NEW calls, StreamDoneWithCalls(calls) \/ StreamDoneBlocked(calls) PROVE Moves'
  BY <1>2, <1>3, <1>13 DEF StreamDoneWithCalls, StreamDoneBlocked, Halt, HaltRound
<1>14. ASSUME NEW stored, NEW left, EndTurn(stored, left) PROVE Moves'
  BY <1>2, <1>4, <1>14, Zenon DEF EndTurn
<1>15. CASE StreamDone \/ StreamStalled \/ StreamError
  BY <1>2, <1>4, <1>14, <1>15, Zenon DEF StreamDone, StreamStalled, StreamError
<1>16. CASE Resume
  BY <1>16, <1>types DEF Resume, Enters
<1>17. ASSUME NEW work, FoldTask(work) PROVE Moves'
  BY <1>1, <1>17 DEF FoldTask
<1>18. ASSUME NEW j, BashExits(j) \/ DrainBash(j) PROVE Moves'
  BY <1>1, <1>18 DEF BashExits, DrainBash
<1>19. ASSUME NEW work, NEW verdict, DrainVerdict(work, verdict) PROVE Moves'
  BY <1>19 DEF DrainVerdict
<1>20. ASSUME NEW subs, DrainSubagents(subs) PROVE Moves'
  BY <1>1, <1>20 DEF DrainSubagents
<1>21. CASE UNCHANGED vars
  BY <1>1, <1>21 DEF vars
<1>22. CASE Request
  BY <1>22, <1>5, <1>6, <1>7, <1>8, <1>11, Zenon DEF Request
<1>23. CASE StreamToolCalls \/ StreamEnds
  BY <1>23, <1>12, <1>13, <1>15, Zenon DEF StreamEnds
<1>24. CASE ProcessTools
  BY <1>24, <1>5, <1>8, <1>9, <1>10, Zenon DEF ProcessTools
<1>25. CASE Reports \/ RevisitSubagents
  BY <1>25, <1>17, <1>18, <1>19, <1>20, Zenon DEF Reports, SubagentEnds, RevisitSubagents
<1> QED
  BY <1>5, <1>16, <1>21, <1>22, <1>23, <1>24, <1>25, Zenon DEF Next

\* A deferred call or a shell job leaves the lane only with its worker.
LEMMA TasksServedStep == ASSUME PhaseInv, TasksServed, [Next]_vars PROVE TasksServed'
<1> USE DEF PhaseInv, TasksServed
<1>types. /\ pending_tool_tasks \subseteq Id /\ threads \subseteq Work
          /\ bash_jobs \in Seq(BashJob) /\ None \notin Id
          /\ (tool_idx < Len(pending_tool_calls) => WorkFor(Current) \in Work /\ Current.id \in Id)
  BY NoneIsNoId, CurrentType DEF TypeOK
<1>1. CASE UNCHANGED <<taskVars, threads, bash_jobs>>
  BY <1>1
<1>2. CASE pending_tool_tasks' = {}
  BY <1>2
<1>3. ASSUME NEW call, DispatchDeferred(call), UNCHANGED bash_jobs PROVE TasksServed'
  <2>1. WorkFor(call).id = call.id
    BY DEF WorkFor
  <2>2. WorkFor(call) \in threads' /\ threads \subseteq threads'
    BY <1>3 DEF DispatchDeferred
  <2>3. awaiting_tool_tasks' /\ pending_tool_tasks' = pending_tool_tasks \cup {call.id}
    BY <1>3 DEF DispatchDeferred
  <2> QED
    BY <1>3, <2>1, <2>2, <2>3
<1>4. ASSUME NEW job \in BashJob, job.status = "running", bash_jobs' = Append(bash_jobs, job), UNCHANGED threads,
             \/ UNCHANGED taskVars
             \/ pending_tool_tasks' = pending_tool_tasks \cup {job.call} /\ awaiting_tool_tasks'
      PROVE  TasksServed'
  <2>1. /\ \A j \in DOMAIN bash_jobs : j \in DOMAIN bash_jobs' /\ bash_jobs'[j] = bash_jobs[j]
        /\ Len(bash_jobs) + 1 \in DOMAIN bash_jobs' /\ bash_jobs'[Len(bash_jobs) + 1] = job
    BY <1>4, <1>types
  <2> QED
    BY <1>4, <2>1
<1>5. ASSUME NEW j \in DOMAIN bash_jobs, NEW job, bash_jobs' = [bash_jobs EXCEPT ![j] = job],
             UNCHANGED <<threads, awaiting_tool_tasks>>,
             pending_tool_tasks' = pending_tool_tasks \ {bash_jobs[j].call}
      PROVE  TasksServed'
  <2>1. /\ DOMAIN bash_jobs' = DOMAIN bash_jobs
        /\ \A k \in DOMAIN bash_jobs : k /= j => bash_jobs'[k] = bash_jobs[k]
    BY <1>5
  <2> QED
    BY <1>5, <2>1
<1>6. CASE Submit \/ Wakes
  BY <1>2, <1>6 DEF Submit, Wakes, WakeForBash, WakeForSubagent, Wake, ResetRound, ClearToolTasks
<1>7. CASE Interrupt \/ InterruptRewind \/ SetModeStops \/ Deny \/ ParkTimeout
  BY <1>2, <1>7 DEF Interrupt, InterruptRewind, SetModeStops, Cut, Deny, ParkTimeout, Halt, HaltRound, ClearToolTasks
<1>8. CASE SubmitRefused \/ Steer \/ Resend \/ SetMode \/ Attach \/ StartTask
  BY <1>1, <1>8 DEF SubmitRefused, Steer, Resend, SetMode, Attach, StartTask
<1>9. CASE Approve \/ WalkDeferred \/ WalkRisky
  BY <1>3, <1>9 DEF Approve, WalkDeferred, WalkRisky
<1>10. CASE WalkBash \/ WalkBackgroundBash
  <2>1. round \in 1..MaxRounds
    BY <1>10, CurrentType DEF WalkBash, WalkBackgroundBash, AtCall
  <2>2. ASSUME NEW call \in Id \cup {None}
        PROVE  [call |-> call, from |-> round, status |-> "running", suppress |-> FALSE] \in BashJob
    BY <2>1 DEF BashJob
  <2>3. CASE WalkBash
    <3>1. Current.id \in Id
      BY <2>3, <1>types DEF WalkBash, AtCall
    <3>2. [call |-> Current.id, from |-> round, status |-> "running", suppress |-> FALSE] \in BashJob
      BY <2>2, <3>1
    <3> QED
      BY <1>4, <2>3, <3>2 DEF WalkBash
  <2>4. CASE WalkBackgroundBash
    <3>1. [call |-> None, from |-> round, status |-> "running", suppress |-> FALSE] \in BashJob
      BY <2>2
    <3> QED
      BY <1>4, <2>4, <3>1 DEF WalkBackgroundBash
  <2> QED
    BY <1>10, <2>3, <2>4
<1>11. CASE WalkTask \/ WalkInline \/ WalkImage \/ WalkBackgroundTask \/ WalkClassify \/ WalkAsk \/ WalkRefuse
  BY <1>1, <1>11 DEF WalkTask, WalkInline, WalkImage, WalkBackgroundTask, WalkClassify, WalkAsk, WalkRefuse
<1>12. CASE WalkPark
  BY <1>12 DEF WalkPark
<1>13. CASE FinishToolRound
  BY <1>1, <1>13 DEF FinishToolRound
<1>14. ASSUME NEW i, BackgroundSubagent(i) PROVE TasksServed'
  BY <1>1, <1>14 DEF BackgroundSubagent
<1>15. ASSUME NEW j \in DOMAIN bash_jobs, BackgroundBash(j) PROVE TasksServed'
  <2>1. bash_jobs' = [bash_jobs EXCEPT ![j] = [bash_jobs[j] EXCEPT !.call = None]]
    BY <1>15 DEF BackgroundBash
  <2> QED
    BY <1>5, <1>15, <2>1 DEF BackgroundBash
<1>16. CASE StreamToolCalls
  BY <1>1, <1>16 DEF StreamToolCalls
<1>17. ASSUME NEW calls, StreamDoneWithCalls(calls) PROVE TasksServed'
  BY <1>1, <1>17 DEF StreamDoneWithCalls
<1>18. ASSUME NEW calls, StreamDoneBlocked(calls) PROVE TasksServed'
  BY <1>2, <1>18 DEF StreamDoneBlocked, Halt, HaltRound, ClearToolTasks
<1>19. ASSUME NEW stored, NEW left, EndTurn(stored, left), UNCHANGED offThread PROVE TasksServed'
  BY <1>1, <1>2, <1>19, Zenon DEF EndTurn, ResetRound, ClearToolTasks
<1>20. CASE StreamDone \/ StreamStalled \/ StreamError
  BY <1>1, <1>19, <1>20, Zenon DEF StreamDone, StreamStalled, StreamError
<1>21. CASE Resume
  BY <1>2, <1>21 DEF Resume, GateOpen
<1>22. ASSUME NEW work, FoldTask(work) PROVE TasksServed'
  BY <1>22 DEF FoldTask, FoldIfPending
<1>23. ASSUME NEW j \in DOMAIN bash_jobs, BashExits(j) PROVE TasksServed'
  <2>1. bash_jobs' = [bash_jobs EXCEPT ![j] = [bash_jobs[j] EXCEPT !.status = "exited"]]
    BY <1>23 DEF BashExits
  <2>2. bash_jobs[j] \in BashJob
    BY <1>types
  <2>3. /\ DOMAIN bash_jobs' = DOMAIN bash_jobs /\ UNCHANGED <<threads, taskVars>>
        /\ \A k \in DOMAIN bash_jobs : /\ bash_jobs'[k].call = bash_jobs[k].call
                                       /\ bash_jobs'[k].status \in {bash_jobs[k].status, "exited"}
    BY <1>23, <2>1, <2>2 DEF BashExits, BashJob
  <2> QED
    BY <2>3
<1>24. ASSUME NEW j \in DOMAIN bash_jobs, DrainBash(j) PROVE TasksServed'
  <2>1. bash_jobs' = [bash_jobs EXCEPT ![j] = [bash_jobs[j] EXCEPT !.status = "reported", !.call = None]]
    BY <1>24 DEF DrainBash
  <2>2. pending_tool_tasks' = pending_tool_tasks \ {bash_jobs[j].call} /\ UNCHANGED <<threads, awaiting_tool_tasks>>
    BY <1>24, <1>types DEF DrainBash, FoldIfPending
  <2> QED
    BY <1>5, <2>1, <2>2
<1>25. ASSUME NEW work, NEW verdict, DrainVerdict(work, verdict) PROVE TasksServed'
  BY <1>1, <1>25 DEF DrainVerdict
<1>26. ASSUME NEW subs, DrainSubagents(subs) PROVE TasksServed'
  BY <1>1, <1>26 DEF DrainSubagents
<1>27. CASE UNCHANGED vars
  BY <1>1, <1>27 DEF vars
<1>28. CASE Request
  BY <1>28, <1>6, <1>7, <1>8, <1>9, <1>14, <1>15, Zenon DEF Request
<1>29. CASE StreamToolCalls \/ StreamEnds
  BY <1>29, <1>16, <1>17, <1>18, <1>20, Zenon DEF StreamEnds
<1>30. CASE ProcessTools
  BY <1>30, <1>9, <1>10, <1>11, <1>12, <1>13, Zenon DEF ProcessTools
<1>31. CASE Reports \/ RevisitSubagents
  BY <1>31, <1>22, <1>23, <1>24, <1>25, <1>26, Zenon DEF Reports, SubagentEnds, RevisitSubagents
<1> QED
  BY <1>6, <1>21, <1>27, <1>28, <1>29, <1>30, <1>31, Zenon DEF Next

\* A sub-agent's call leaves the lane only with its agent, or with the round.
LEMMA AgentsServedStep == ASSUME PhaseInv, AgentsServed, [Next]_vars PROVE AgentsServed'
<1> USE DEF PhaseInv, AgentsServed
<1>types. subagents \in Seq(SubAgent) /\ pending_subagent_calls \subseteq Id /\ None \notin Id
  BY NoneIsNoId DEF TypeOK
<1>1. CASE UNCHANGED agentVars
  BY <1>1
<1>2. CASE pending_subagent_calls' = {}
  BY <1>2
<1>3. ASSUME NEW c, NEW d, subagents' = Append(subagents, NewAgent(c, d)),
             \/ UNCHANGED <<pending_subagent_calls, awaiting_subagents>>
             \/ ~d /\ pending_subagent_calls' = pending_subagent_calls \cup {c} /\ awaiting_subagents'
      PROVE  AgentsServed'
  <2>1. /\ \A i \in DOMAIN subagents : i \in DOMAIN subagents' /\ subagents'[i] = subagents[i]
        /\ Len(subagents) + 1 \in DOMAIN subagents' /\ subagents'[Len(subagents) + 1] = NewAgent(c, d)
    BY <1>3, <1>types
  <2>2. NewAgent(c, d).call = c /\ NewAgent(c, d).detached = d
    BY DEF NewAgent
  <2> QED
    BY <1>3, <2>1, <2>2
<1>4. ASSUME NEW subs \in Seq(SubAgent), DrainSubagents(subs), DOMAIN subs = DOMAIN subagents,
             \A i \in DOMAIN subs : subs[i].call = subagents[i].call /\ subs[i].detached = subagents[i].detached
      PROVE  AgentsServed'
  <2>1. \A i \in DOMAIN subs : subs[i] \in SubAgent
    OBVIOUS
  <2>2. /\ DOMAIN subagents' = DOMAIN subs
        /\ pending_subagent_calls' \subseteq pending_subagent_calls /\ UNCHANGED awaiting_subagents
        /\ \A i \in DOMAIN subs : subagents'[i].call = subs[i].call /\ subagents'[i].detached = subs[i].detached
    BY <1>4, <2>1 DEF DrainSubagents, SubAgent
  <2> QED
    BY <1>4, <2>2
<1>5. CASE Submit \/ Wakes
  BY <1>1, <1>5 DEF Submit, Wakes, WakeForBash, WakeForSubagent, Wake
<1>6. CASE Interrupt \/ InterruptRewind \/ SetModeStops \/ Deny \/ ParkTimeout
  BY <1>2, <1>6 DEF Interrupt, InterruptRewind, SetModeStops, Cut, Deny, ParkTimeout, Halt, HaltRound, AbortSubagents
<1>7. CASE SubmitRefused \/ Steer \/ Resend \/ SetMode \/ Attach \/ Approve
  BY <1>1, <1>7 DEF SubmitRefused, Steer, Resend, SetMode, Attach, Approve
<1>8. CASE StartTask
  BY <1>3, <1>8 DEF StartTask
<1>9. CASE WalkTask
  BY <1>3, <1>9 DEF WalkTask, ParkOnAgent
<1>10. CASE WalkBackgroundTask
  BY <1>3, <1>10 DEF WalkBackgroundTask
<1>11. CASE WalkInline \/ WalkImage \/ WalkDeferred \/ WalkBash \/ WalkBackgroundBash
  BY <1>1, <1>11 DEF WalkInline, WalkImage, WalkDeferred, WalkBash, WalkBackgroundBash
<1>12. CASE WalkClassify \/ WalkRisky \/ WalkAsk \/ WalkRefuse \/ FinishToolRound
  BY <1>1, <1>12 DEF WalkClassify, WalkRisky, WalkAsk, WalkRefuse, FinishToolRound
<1>13. CASE WalkPark
  BY <1>13 DEF WalkPark
<1>14. ASSUME NEW i \in DOMAIN subagents, BackgroundSubagent(i) PROVE AgentsServed'
  <2>1. subagents' = [subagents EXCEPT ![i] = [subagents[i] EXCEPT !.call = None, !.detached = TRUE]]
    BY <1>14 DEF BackgroundSubagent
  <2>2. \A k \in DOMAIN subagents : k /= i => subagents'[k] = subagents[k]
    BY <2>1
  <2> QED
    BY <1>14, <2>1, <2>2 DEF BackgroundSubagent
<1>15. ASSUME NEW j, BackgroundBash(j) \/ BashExits(j) \/ DrainBash(j) PROVE AgentsServed'
  BY <1>1, <1>15 DEF BackgroundBash, BashExits, DrainBash
<1>16. CASE StreamToolCalls
  BY <1>1, <1>16 DEF StreamToolCalls
<1>17. ASSUME NEW calls, StreamDoneWithCalls(calls) \/ StreamDoneBlocked(calls) PROVE AgentsServed'
  BY <1>1, <1>2, <1>17 DEF StreamDoneWithCalls, StreamDoneBlocked, Halt, HaltRound, AbortSubagents
<1>18. CASE StreamDone \/ StreamStalled \/ StreamError
  BY <1>1, <1>18 DEF StreamDone, StreamStalled, StreamError
<1>19. CASE Resume
  BY <1>2, <1>19 DEF Resume, GateOpen
<1>20. ASSUME NEW work, FoldTask(work) \/ \E verdict : DrainVerdict(work, verdict) PROVE AgentsServed'
  BY <1>1, <1>20 DEF FoldTask, DrainVerdict
<1>21. ASSUME NEW i \in DOMAIN subagents, SubagentEnds(i) PROVE AgentsServed'
  <2>1. PICK end \in {"done", "killed"} : DrainSubagents([subagents EXCEPT ![i].status = end])
    BY <1>21 DEF SubagentEnds
  <2>2. subagents[i] \in SubAgent
    BY <1>types
  <2>3. [subagents[i] EXCEPT !.status = end] \in SubAgent
    BY <2>2 DEF SubAgent
  <2>4. [subagents EXCEPT ![i].status = end] \in Seq(SubAgent)
    BY <1>types, <2>3
  <2>5. \A k \in DOMAIN subagents :
          /\ [subagents EXCEPT ![i].status = end][k].call = subagents[k].call
          /\ [subagents EXCEPT ![i].status = end][k].detached = subagents[k].detached
    BY <1>types, <2>2 DEF SubAgent
  <2> QED
    BY <1>4, <2>1, <2>4, <2>5
<1>22. CASE RevisitSubagents
  BY <1>4, <1>22, <1>types DEF RevisitSubagents
<1>23. CASE UNCHANGED vars
  BY <1>1, <1>23 DEF vars
<1>24. CASE Request
  BY <1>24, <1>5, <1>6, <1>7, <1>8, <1>14, <1>15, Zenon DEF Request
<1>25. CASE StreamToolCalls \/ StreamEnds
  BY <1>25, <1>16, <1>17, <1>18, Zenon DEF StreamEnds
<1>26. CASE ProcessTools
  BY <1>26, <1>9, <1>10, <1>11, <1>12, <1>13, Zenon DEF ProcessTools
<1>27. CASE Reports
  BY <1>27, <1>15, <1>20, <1>21, Zenon DEF Reports
<1> QED
  BY <1>5, <1>19, <1>22, <1>23, <1>24, <1>25, <1>26, <1>27, Zenon DEF Next

\* A park on the classifier ends with the verdict of the very call it is for.
LEMMA VerdictComesStep == ASSUME PhaseInv, VerdictComes, [Next]_vars, ~LateDeny PROVE VerdictComes'
<1> USE DEF PhaseInv, Phases, VerdictComes, Current
<1>1. CASE UNCHANGED <<roundVars, classifyVars, classifiers>>
  BY <1>1
<1>2. CASE ~awaiting_classify'
  BY <1>2
<1>3. CASE ~awaiting_classify /\ UNCHANGED awaiting_classify
  BY <1>3
<1>4. CASE UNCHANGED <<pending_tool_calls, tool_idx, classifyVars, classifiers>>
  BY <1>4
<1>5. CASE Submit \/ Wakes
  BY <1>2, <1>5 DEF Submit, Wakes, WakeForBash, WakeForSubagent, Wake, ResetRound, ClearClassify
<1>6. CASE Interrupt \/ InterruptRewind \/ SetModeStops \/ Deny \/ ParkTimeout
  BY <1>2, <1>6 DEF Interrupt, InterruptRewind, SetModeStops, Cut, Deny, ParkTimeout, Halt, HaltRound, ClearClassify
<1>7. CASE SubmitRefused \/ Steer \/ Resend \/ SetMode \/ Attach \/ StartTask
  BY <1>1, <1>7 DEF SubmitRefused, Steer, Resend, SetMode, Attach, StartTask
<1>8. CASE Approve
  BY <1>3, <1>8 DEF Approve
<1>9. CASE WalkInline \/ WalkImage \/ WalkDeferred \/ WalkBash \/ WalkBackgroundBash \/ WalkTask
  BY <1>3, <1>9 DEF WalkInline, WalkImage, WalkDeferred, WalkBash, WalkBackgroundBash, WalkTask, AtCall
<1>10. CASE WalkBackgroundTask \/ WalkRisky \/ WalkAsk \/ WalkRefuse \/ WalkPark \/ FinishToolRound
  BY <1>3, <1>10 DEF WalkBackgroundTask, WalkRisky, WalkAsk, WalkRefuse, WalkPark, FinishToolRound, AtCall, AtEnd
<1>11. CASE WalkClassify
  <2>1. /\ tool_idx < Len(pending_tool_calls) /\ WorkFor(Current) \in classifiers'
        /\ UNCHANGED <<pending_tool_calls, tool_idx>>
    BY <1>11 DEF WalkClassify, AtCall
  <2>2. WorkFor(Current).id = Current.id
    BY DEF WorkFor
  <2> QED
    BY <2>1, <2>2
<1>12. ASSUME NEW i, BackgroundSubagent(i) \/ BackgroundBash(i) \/ BashExits(i) \/ DrainBash(i) \/ FoldTask(i)
       PROVE  VerdictComes'
  BY <1>4, <1>12 DEF BackgroundSubagent, BackgroundBash, BashExits, DrainBash, FoldTask
<1>13. CASE StreamToolCalls
  BY <1>3, <1>13 DEF StreamToolCalls
<1>14. ASSUME NEW calls, StreamDoneWithCalls(calls) \/ StreamDoneBlocked(calls) PROVE VerdictComes'
  BY <1>2, <1>3, <1>14 DEF StreamDoneWithCalls, StreamDoneBlocked, Harvested, Halt, HaltRound, ClearClassify
<1>15. ASSUME NEW stored, NEW left, EndTurn(stored, left), stream PROVE VerdictComes'
  BY <1>2, <1>3, <1>15, Zenon DEF EndTurn, ResetRound, ClearClassify
<1>16. CASE StreamDone \/ StreamStalled \/ StreamError
  BY <1>2, <1>3, <1>15, <1>16, Zenon DEF StreamDone, StreamStalled, StreamError, ClearClassify
<1>17. CASE Resume
  BY <1>1, <1>17 DEF Resume
<1>18. ASSUME NEW work, NEW verdict, DrainVerdict(work, verdict) PROVE VerdictComes'
  BY <1>18 DEF DrainVerdict
<1>19. ASSUME NEW subs, DrainSubagents(subs) PROVE VerdictComes'
  BY <1>4, <1>19 DEF DrainSubagents
<1>20. CASE UNCHANGED vars
  BY <1>1, <1>20 DEF vars
<1>21. CASE Request
  BY <1>21, <1>5, <1>6, <1>7, <1>8, <1>12, Zenon DEF Request
<1>22. CASE StreamToolCalls \/ StreamEnds
  BY <1>22, <1>13, <1>14, <1>16, Zenon DEF StreamEnds
<1>23. CASE ProcessTools
  BY <1>23, <1>9, <1>10, <1>11, Zenon DEF ProcessTools
<1>24. CASE Reports \/ RevisitSubagents
  BY <1>24, <1>12, <1>18, <1>19, Zenon DEF Reports, SubagentEnds, RevisitSubagents
<1> QED
  BY <1>5, <1>17, <1>20, <1>21, <1>22, <1>23, <1>24, Zenon DEF Next

\* No turn waits for nothing: whatever a turn that is on waits for -- the stream,
\* the user, the classifier, a deferred tool, a shell job, a sub-agent -- is still
\* on its way.
THEOREM NobodyWaitsForNothing == ASSUME ~LateDeny PROVE Spec => []NoLostWakeUp
<1>1. Init => PhaseInv /\ NoLostWakeUp
  BY PhaseInit DEF Init, NoLostWakeUp, Moves, TasksServed, AgentsServed, VerdictComes
<1>2. PhaseInv /\ NoLostWakeUp /\ [Next]_vars => NoLostWakeUp'
  BY MovesStep, TasksServedStep, AgentsServedStep, VerdictComesStep DEF NoLostWakeUp
<1>3. Spec => []PhaseInv
  BY PhasesHold
<1> QED
  BY <1>1, <1>2, <1>3, PTL DEF Spec

====
