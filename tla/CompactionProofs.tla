--------------------------- MODULE CompactionProofs ---------------------------
(***************************************************************************)
(* Proofs, for all plans, modes, sizes of the kept tail and bounds: the    *)
(* armed plan is the approved one, what was cut from the conversation does *)
(* not come back, what stood when a compaction was asked is not lost by    *)
(* it, and it holds the session for as long as it runs.                    *)
(***************************************************************************)
EXTENDS CompactionProperties, SequenceTheorems, TLAPS

\* What a request stands for.
Of(result) == result.covers \union Standing(result.tail)

\* The session waits while a compaction runs, and runs no turn and shows no
\* plan; a result is held back only for an animation that is shown.
BusyInv ==
    /\ active_rx \in {"none", "turn", "compact"}
    /\ active_rx # "none" => waiting
    /\ compact_anim_start => waiting /\ active_rx # "turn" /\ parked = NoPlan
    /\ active_rx = "compact" => compact_anim_start
    /\ compact_pending # NoRequest => compact_anim_start
    /\ parked # NoPlan => waiting /\ active_rx = "none"
    /\ waiting \in BOOLEAN /\ compact_anim_start \in BOOLEAN

\* A plan waits only in plan mode, and what is armed is what was approved.
PlanInv ==
    /\ parked # NoPlan => agent_mode = "plan"
    /\ ArmedIsApproved

\* A request stands for messages that still stand.
ResultInv ==
    /\ conversation \in Seq(Messages) /\ said \in Nat
    /\ active_rx = "compact" => request \in Requests /\ Of(request) \subseteq Standing(conversation)
    /\ compact_pending # NoRequest =>
          compact_pending \in Requests /\ Of(compact_pending) \subseteq Standing(conversation)

-----------------------------------------------------------------------------
(* What stands in a sequence that is put together or cut.                  *)

\* Of two parts, what stands in either.
LEMMA StandingConcat ==
    ASSUME NEW s \in Seq(Messages), NEW t \in Seq(Messages)
    PROVE  Standing(s \o t) = Standing(s) \union Standing(t)
<1>1. Len(s \o t) = Len(s) + Len(t) /\ s \o t \in Seq(Messages)
  OBVIOUS
<1>2. ASSUME NEW id, id \in Standing(s \o t)
      PROVE  id \in Standing(s) \union Standing(t)
  <2>1. PICK k \in 1..(Len(s) + Len(t)) : id \in (s \o t)[k].of
    BY <1>1, <1>2 DEF Standing
  <2>2. CASE k <= Len(s)
    <3>1. k \in DOMAIN s /\ (s \o t)[k] = s[k]
      BY <2>2
    <3> QED BY <2>1, <3>1 DEF Standing
  <2>3. CASE k > Len(s)
    <3>1. k - Len(s) \in DOMAIN t /\ (s \o t)[k] = t[k - Len(s)]
      BY <2>3
    <3> QED BY <2>1, <3>1 DEF Standing
  <2> QED BY <2>2, <2>3
<1>3. ASSUME NEW id, id \in Standing(s)
      PROVE  id \in Standing(s \o t)
  <2>1. PICK k \in DOMAIN s : id \in s[k].of
    BY <1>3 DEF Standing
  <2>2. k \in DOMAIN (s \o t) /\ (s \o t)[k] = s[k]
    BY <1>1
  <2> QED BY <2>1, <2>2 DEF Standing
<1>4. ASSUME NEW id, id \in Standing(t)
      PROVE  id \in Standing(s \o t)
  <2>1. PICK k \in DOMAIN t : id \in t[k].of
    BY <1>4 DEF Standing
  <2>2. Len(s) + k \in DOMAIN (s \o t) /\ (s \o t)[Len(s) + k] = t[k]
    BY <1>1
  <2> QED BY <2>1, <2>2 DEF Standing
<1> QED BY <1>2, <1>3, <1>4

\* Of a slice, nothing that the whole does not say.
LEMMA StandingSlice ==
    ASSUME NEW s \in Seq(Messages), NEW a \in Nat \ {0}, NEW b \in Nat, b <= Len(s)
    PROVE  /\ SubSeq(s, a, b) \in Seq(Messages)
           /\ Standing(SubSeq(s, a, b)) \subseteq Standing(s)
<1>1. SubSeq(s, a, b) \in Seq(Messages)
  BY SMT
<1>2. ASSUME NEW id, id \in Standing(SubSeq(s, a, b))
      PROVE  id \in Standing(s)
  <2>1. PICK k \in DOMAIN SubSeq(s, a, b) : id \in SubSeq(s, a, b)[k].of
    BY <1>2 DEF Standing
  <2>2. a + k - 1 \in DOMAIN s /\ SubSeq(s, a, b)[k] = s[a + k - 1]
    OBVIOUS
  <2> QED BY <2>1, <2>2 DEF Standing
<1> QED BY <1>1, <1>2

\* What is pushed is new.
LEMMA PushedStands ==
    ASSUME said \in Nat, NEW s \in Seq(Messages), NEW kinds \in Seq(Kinds)
    PROVE  /\ Pushed(s, kinds) \in Seq(Messages)
           /\ Standing(s) \subseteq Standing(Pushed(s, kinds))
           /\ \A id \in Standing(Pushed(s, kinds)) : id \in Standing(s) \/ id > said
<1> DEFINE t == [k \in DOMAIN kinds |-> Message(kinds[k], said + k)]
<1>1. t \in Seq(Messages)
  <2>1. \A k \in DOMAIN kinds : Message(kinds[k], said + k) \in Messages
    BY DEF Message, Messages
  <2> QED BY <2>1
<1>2. \A id \in Standing(t) : id > said
  BY DEF Standing, Message
<1>3. Standing(s \o t) = Standing(s) \union Standing(t)
  BY <1>1, StandingConcat
<1> QED BY <1>1, <1>2, <1>3 DEF Pushed

\* The same of a step that pushes.
LEMMA SayStands ==
    ASSUME ResultInv, NEW kinds \in Seq(Kinds), Say(kinds)
    PROVE  /\ conversation' \in Seq(Messages) /\ said' \in Nat
           /\ Standing(conversation) \subseteq Standing(conversation')
           /\ \A id \in Standing(conversation') : id \in Standing(conversation) \/ id > said
BY PushedStands DEF Say, ResultInv

\* A request stands for what it was given.
LEMMA SplitRequests ==
    ASSUME said' \in Nat, NEW messages \in Seq(Messages), NEW preserve \in Nat,
           NEW asked \in {"user", "approval"}
    PROVE  /\ Split(messages, preserve, asked) \in Requests
           /\ Of(Split(messages, preserve, asked)) \subseteq Standing(messages)
<1> DEFINE at  == IF Len(messages) > preserve THEN Len(messages) - preserve ELSE 0
           old == SubSeq(messages, 1, at)
           covered == UNION {old[k].of : k \in {k \in 1..at : ~Torn(old, k)}}
<1>1. at \in Nat /\ at <= Len(messages) /\ Len(messages) \in Nat
  OBVIOUS
<1> HIDE DEF at
<1>2. old \in Seq(Messages) /\ Standing(old) \subseteq Standing(messages) /\ Len(old) = at
  BY <1>1, StandingSlice
<1>3. KeptTail(messages, at) \in Seq(Messages) /\ Standing(KeptTail(messages, at)) \subseteq Standing(messages)
  BY <1>1, StandingSlice DEF KeptTail
<1> HIDE DEF old
<1>4. covered \subseteq Standing(old) /\ covered \subseteq Nat
  <2>1. ASSUME NEW k \in 1..at PROVE old[k].of \subseteq Nat
    <3>1. old[k] \in Messages
      BY <1>2
    <3> QED BY <3>1 DEF Messages
  <2> QED BY <1>2, <2>1 DEF Standing
<1> HIDE DEF covered
<1>5. Split(messages, preserve, asked) =
        [covers |-> covered, tail |-> KeptTail(messages, at), asked |-> asked, until |-> said']
  BY DEF Split, at, old, covered
<1>6. Split(messages, preserve, asked) \in Requests
  BY <1>3, <1>4, <1>5 DEF Requests
<1>7. Of(Split(messages, preserve, asked)) = covered \union Standing(KeptTail(messages, at))
  BY <1>5 DEF Of
<1> QED BY <1>2, <1>3, <1>4, <1>6, <1>7

\* A conversation rebuilt from a request stands for what the request did.
LEMMA RebuiltStands ==
    ASSUME NEW result \in Requests
    PROVE  /\ <<Summary(result)>> \o result.tail \in Seq(Messages)
           /\ Standing(<<Summary(result)>> \o result.tail) = Of(result)
<1>1. Summary(result) \in Messages /\ result.tail \in Seq(Messages)
  BY DEF Summary, Messages, Kinds, Requests
<1>2. <<Summary(result)>> \in Seq(Messages) /\ Standing(<<Summary(result)>>) = result.covers
  BY <1>1 DEF Standing, Summary
<1>3. Standing(<<Summary(result)>> \o result.tail) = result.covers \union Standing(result.tail)
  BY <1>1, <1>2, StandingConcat
<1>4. <<Summary(result)>> \o result.tail \in Seq(Messages)
  BY <1>1, <1>2
<1> QED BY <1>3, <1>4 DEF Of

-----------------------------------------------------------------------------
(* The session is held for as long as a compaction runs.                   *)

LEMMA BusyInit == Init => BusyInv
BY DEF Init, BusyInv

LEMMA BusyApply == ASSUME BusyInv, NEW result, Apply(result) PROVE BusyInv'
<1>1. compact_anim_start /\ UNCHANGED parked /\ DropCompaction
  BY DEF Apply, FailCompaction
<1>2. StartStream \/ (waiting' = FALSE /\ active_rx' = "none")
  BY DEF Apply, FailCompaction
<1> parked' = NoPlan
  BY <1>1 DEF BusyInv
<1>3. CASE StartStream
  <2>1. CASE waiting' = TRUE /\ active_rx' = "turn"
    BY <1>1, <2>1 DEF BusyInv, DropCompaction
  <2>2. CASE waiting' = FALSE /\ active_rx' = "none"
    BY <1>1, <2>2 DEF BusyInv, DropCompaction
  <2> QED BY <1>3, <2>1, <2>2 DEF StartStream
<1>4. CASE waiting' = FALSE /\ active_rx' = "none"
  BY <1>1, <1>4 DEF BusyInv, DropCompaction
<1> QED BY <1>2, <1>3, <1>4

LEMMA BusyStep == ASSUME BusyInv, [Next]_vars PROVE BusyInv'
<1> USE DEF BusyInv, StartStream, Idle, DropCompaction, StopTurn, StopIfWaiting, FailCompaction,
        turnVars, compactVars, planVars, modeVars, sideVars, talkVars
<1>1. CASE Submit
  BY <1>1 DEF Submit
<1>2. CASE Resend
  BY <1>2 DEF Resend
<1>3. CASE Answer
  BY <1>3 DEF Answer
<1>4. CASE StreamError
  BY <1>4 DEF StreamError
<1>5. CASE PlanEnter
  BY <1>5 DEF PlanEnter
<1>6. CASE ApprovePlan
  BY <1>6 DEF ApprovePlan
<1>7. CASE ApprovePlanCompact
  <2>1. CASE waiting' = FALSE /\ UNCHANGED <<active_rx, compactVars>>
    BY <1>7, <2>1 DEF ApprovePlanCompact
  <2>2. CASE waiting' = TRUE /\ active_rx' = "compact" /\ compact_anim_start' = TRUE /\ compact_pending' = NoRequest
    BY <1>7, <2>2 DEF ApprovePlanCompact
  <2> QED BY <1>7, <2>1, <2>2 DEF ApprovePlanCompact, HandleCompact
<1>8. CASE DenyPlan
  BY <1>8 DEF DenyPlan
<1>9. ASSUME NEW plan \in Plans, PlanReady(plan) PROVE BusyInv'
  <2>1. CASE parked' = plan /\ active_rx' = "none" /\ UNCHANGED waiting
    BY <1>9, <2>1 DEF PlanReady
  <2>2. CASE StartStream /\ UNCHANGED parked
    BY <1>9, <2>2 DEF PlanReady
  <2> QED BY <1>9, <2>1, <2>2 DEF PlanReady
<1>10. CASE Compact
  <2>1. CASE waiting
    BY <1>10, <2>1 DEF Compact
  <2>2. CASE ~waiting /\ waiting' = FALSE /\ UNCHANGED <<active_rx, compactVars>>
    BY <1>10, <2>2 DEF Compact
  <2>3. CASE ~waiting /\ waiting' = TRUE /\ active_rx' = "compact" /\ compact_anim_start' = TRUE /\ compact_pending' = NoRequest
    BY <1>10, <2>3 DEF Compact
  <2> QED BY <1>10, <2>1, <2>2, <2>3 DEF Compact, HandleCompact
<1>11. CASE Compacted
  <2>1. ASSUME Apply(request) PROVE BusyInv'
    BY <1>11, <2>1, BusyApply
  <2>2. CASE ~Apply(request)
    BY <1>11, <2>2 DEF Compacted
  <2> QED BY <2>1, <2>2
<1>12. CASE ApplyDue
  BY <1>12, BusyApply DEF ApplyDue
<1>13. CASE CompactorFails
  BY <1>13 DEF CompactorFails
<1>14. CASE Interrupt
  BY <1>14 DEF Interrupt
<1>15. CASE Clear
  <2>1. CASE waiting
    BY <1>15, <2>1 DEF Clear
  <2>2. CASE ~waiting
    BY <1>15, <2>2 DEF Clear
  <2> QED BY <2>1, <2>2
<1>16. CASE Rewind
  <2>1. CASE waiting
    BY <1>16, <2>1 DEF Rewind
  <2>2. CASE ~waiting
    BY <1>16, <2>2 DEF Rewind
  <2> QED BY <2>1, <2>2
<1>17. CASE InterruptRewind
  BY <1>17 DEF InterruptRewind
<1>18. ASSUME NEW mode \in Modes, SetMode(mode) PROVE BusyInv'
  <2>1. CASE StopTurn
    BY <1>18, <2>1 DEF SetMode
  <2>2. CASE UNCHANGED turnVars
    BY <1>18, <2>2 DEF SetMode
  <2> QED BY <1>18, <2>1, <2>2 DEF SetMode
<1>19. CASE ShellStarts \/ ShellEnds \/ TaskStarts \/ TaskEnds
  BY <1>19 DEF ShellStarts, ShellEnds, TaskStarts, TaskEnds
<1>20. CASE UNCHANGED vars
  BY <1>20 DEF vars
<1> QED
  BY <1>1, <1>2, <1>3, <1>4, <1>5, <1>6, <1>7, <1>8, <1>9, <1>10, <1>11, <1>12, <1>13, <1>14,
     <1>15, <1>16, <1>17, <1>18, <1>19, <1>20 DEF Next

-----------------------------------------------------------------------------
(* What is armed was approved.                                             *)

LEMMA PlanInit == Init => PlanInv
BY DEF Init, PlanInv, ArmedIsApproved

LEMMA PlanApply == ASSUME BusyInv, PlanInv, NEW result, Apply(result) PROVE PlanInv'
<1> USE DEF BusyInv, PlanInv, ArmedIsApproved, Executing, Apply, FailCompaction, planVars, modeVars, sideVars, talkVars
<1>1. CASE FailCompaction
  BY <1>1
<1>2. CASE ~FailCompaction
  BY <1>2
<1> QED BY <1>1, <1>2

LEMMA PlanStep == ASSUME BusyInv, PlanInv, [Next]_vars PROVE PlanInv'
<1> USE CompactionAssumption
    DEF BusyInv, PlanInv, ArmedIsApproved, Executing, EnterMode, Disarms, ReturnMode, StopTurn,
        StopIfWaiting, FailCompaction, turnVars, compactVars, planVars, modeVars, sideVars, talkVars
<1>1. CASE Submit
  BY <1>1 DEF Submit
<1>2. CASE Resend
  BY <1>2 DEF Resend
<1>3. CASE Answer
  BY <1>3 DEF Answer
<1>4. CASE StreamError
  BY <1>4 DEF StreamError
<1>5. CASE PlanEnter
  BY <1>5 DEF PlanEnter
<1>6. CASE ApprovePlan
  BY <1>6 DEF ApprovePlan
<1>7. CASE ApprovePlanCompact
  <2> DEFINE messages == Pushed(conversation, <<"tool">>)
             nothing  == Split(messages, 0, "approval").covers = {}
  <2>1. CASE nothing
    BY <1>7, <2>1 DEF ApprovePlanCompact, HandleCompact
  <2>2. CASE ~nothing
    BY <1>7, <2>2 DEF ApprovePlanCompact, HandleCompact
  <2> QED BY <2>1, <2>2
<1>8. CASE DenyPlan
  BY <1>8 DEF DenyPlan
<1>9. ASSUME NEW plan \in Plans, PlanReady(plan) PROVE PlanInv'
  <2>1. CASE parked' = plan /\ active_rx' = "none" /\ UNCHANGED waiting
    BY <1>9, <2>1 DEF PlanReady
  <2>2. CASE StartStream /\ UNCHANGED parked
    BY <1>9, <2>2 DEF PlanReady
  <2> QED BY <1>9, <2>1, <2>2 DEF PlanReady
<1>10. CASE Compact
  <2> DEFINE nothing == Split(conversation, PreserveN, "user").covers = {}
  <2>1. CASE waiting
    BY <1>10, <2>1 DEF Compact
  <2>2. CASE ~waiting /\ nothing
    BY <1>10, <2>2 DEF Compact, HandleCompact
  <2>3. CASE ~waiting /\ ~nothing
    BY <1>10, <2>3 DEF Compact, HandleCompact
  <2> QED BY <2>1, <2>2, <2>3
<1>11. CASE Compacted
  <2>1. ASSUME Apply(request) PROVE PlanInv'
    BY <1>11, <2>1, PlanApply
  <2>2. CASE ~Apply(request)
    BY <1>11, <2>2 DEF Compacted
  <2> QED BY <2>1, <2>2
<1>12. CASE ApplyDue
  BY <1>12, PlanApply DEF ApplyDue
<1>13. CASE CompactorFails
  BY <1>13 DEF CompactorFails
<1>14. CASE Interrupt
  BY <1>14 DEF Interrupt
<1>15. CASE Clear
  <2>1. CASE waiting
    BY <1>15, <2>1 DEF Clear
  <2>2. CASE ~waiting
    BY <1>15, <2>2 DEF Clear
  <2> QED BY <2>1, <2>2
<1>16. CASE Rewind
  <2>1. CASE waiting
    BY <1>16, <2>1 DEF Rewind
  <2>2. CASE ~waiting
    BY <1>16, <2>2 DEF Rewind
  <2> QED BY <2>1, <2>2
<1>17. CASE InterruptRewind
  BY <1>17 DEF InterruptRewind
<1>18. ASSUME NEW mode \in Modes, SetMode(mode) PROVE PlanInv'
  <2>1. CASE StopTurn
    BY <1>18, <2>1 DEF SetMode
  <2>2. CASE UNCHANGED turnVars
    BY <1>18, <2>2 DEF SetMode
  <2> QED BY <1>18, <2>1, <2>2 DEF SetMode
<1>19. CASE ShellStarts \/ ShellEnds \/ TaskStarts \/ TaskEnds
  BY <1>19 DEF ShellStarts, ShellEnds, TaskStarts, TaskEnds
<1>20. CASE UNCHANGED vars
  BY <1>20 DEF vars
<1> QED
  BY <1>1, <1>2, <1>3, <1>4, <1>5, <1>6, <1>7, <1>8, <1>9, <1>10, <1>11, <1>12, <1>13, <1>14,
     <1>15, <1>16, <1>17, <1>18, <1>19, <1>20 DEF Next

-----------------------------------------------------------------------------
(* What was cut does not come back.                                        *)

\* Nothing stands after a step that neither stood before nor is new.
NoRevival == \A id \in Standing(conversation') : id \in Standing(conversation) \/ id > said

\* The part of ResultInv that a step which only adds messages keeps.
LEMMA ResultGrows ==
    ASSUME ResultInv, NEW kinds \in Seq(Kinds), Say(kinds), UNCHANGED <<request, compact_pending>>,
           active_rx' = "compact" => active_rx = "compact"
    PROVE  ResultInv' /\ NoRevival
<1>1. /\ conversation' \in Seq(Messages) /\ said' \in Nat
      /\ Standing(conversation) \subseteq Standing(conversation')
      /\ NoRevival
  BY SayStands DEF NoRevival
<1> QED BY <1>1 DEF ResultInv

\* The same when the compaction is over.
LEMMA ResultDropped ==
    ASSUME conversation' \in Seq(Messages), said' \in Nat,
           active_rx' # "compact", compact_pending' = NoRequest
    PROVE  ResultInv'
BY DEF ResultInv

\* A slice of the conversation revives nothing.
LEMMA CutStands ==
    ASSUME ResultInv, NEW n \in Nat, n <= Len(conversation), conversation' = SubSeq(conversation, 1, n)
    PROVE  conversation' \in Seq(Messages) /\ NoRevival
BY StandingSlice DEF ResultInv, NoRevival

\* Unless the session is idle, StopIfWaiting ends a compaction.
LEMMA StoppedCompaction ==
    ASSUME BusyInv, StopIfWaiting
    PROVE  active_rx' # "compact" /\ compact_pending' = NoRequest
<1>1. CASE waiting
  BY <1>1 DEF StopIfWaiting, StopTurn, DropCompaction, BusyInv
<1>2. CASE ~waiting
  BY <1>2 DEF StopIfWaiting, BusyInv, turnVars, compactVars
<1> QED BY <1>1, <1>2

LEMMA ApplyStands ==
    ASSUME BusyInv, ResultInv, NEW result \in Requests, Of(result) \subseteq Standing(conversation),
           Apply(result)
    PROVE  ResultInv' /\ NoRevival
<1> DEFINE rebuilt == <<Summary(result)>> \o result.tail
<1>1. rebuilt \in Seq(Messages) /\ Standing(rebuilt) \subseteq Standing(conversation)
  BY RebuiltStands
<1> HIDE DEF rebuilt
<1>2. active_rx' # "compact" /\ compact_pending' = NoRequest
  BY DEF Apply, FailCompaction, DropCompaction, StartStream
<1>3. CASE UNCHANGED talkVars
  BY <1>2, <1>3, ResultDropped DEF ResultInv, NoRevival, talkVars
<1>4. CASE conversation' = rebuilt /\ UNCHANGED said
  BY <1>1, <1>2, <1>4, ResultDropped DEF ResultInv, NoRevival
<1>5. CASE conversation' = Pushed(rebuilt, <<"execute">>) /\ said' = said + 1
  <2>1. <<"execute">> \in Seq(Kinds)
    BY DEF Kinds
  <2>2. /\ conversation' \in Seq(Messages)
        /\ \A id \in Standing(conversation') : id \in Standing(rebuilt) \/ id > said
    BY <1>1, <1>5, <2>1, PushedStands DEF ResultInv
  <2> QED BY <1>1, <1>2, <1>5, <2>2, ResultDropped DEF ResultInv, NoRevival
<1> QED BY <1>3, <1>4, <1>5 DEF Apply, FailCompaction, rebuilt

\* A request that is made stands for what stands.
LEMMA AskedStands ==
    ASSUME conversation' \in Seq(Messages), said' \in Nat, compact_pending = NoRequest,
           active_rx # "compact", NEW preserve \in Nat, NEW asked \in {"user", "approval"},
           NEW seed, HandleCompact(conversation', preserve, asked, seed)
    PROVE  ResultInv'
<1>1. /\ Split(conversation', preserve, asked) \in Requests
      /\ Of(Split(conversation', preserve, asked)) \subseteq Standing(conversation')
  BY SplitRequests
<1>2. CASE UNCHANGED <<active_rx, compactVars>>
  BY <1>2, ResultDropped DEF compactVars
<1>3. CASE request' = Split(conversation', preserve, asked) /\ compact_pending' = NoRequest
  <2>1. Of(request') \subseteq Standing(conversation') /\ request' \in Requests
    BY <1>1, <1>3
  <2> QED BY <1>3, <2>1 DEF ResultInv, Of, Standing
<1> QED BY <1>2, <1>3 DEF HandleCompact

LEMMA ResultInit == Init => ResultInv
BY DEF Init, ResultInv

LEMMA ResultStep == ASSUME BusyInv, ResultInv, [Next]_vars PROVE ResultInv' /\ NoRevival
<1>0. {<<"user">>, <<"assistant">>, <<"tool">>, <<"note">>, <<"calls">>, <<"calls", "tool">>} \subseteq Seq(Kinds)
  BY DEF Kinds
<1>idle. ~waiting => active_rx # "compact" /\ compact_pending = NoRequest
  BY DEF BusyInv
<1>same. UNCHANGED <<conversation, said>> => NoRevival
  BY DEF NoRevival
<1>1. CASE Submit
  BY <1>0, <1>1, ResultGrows DEF Submit, StartStream, compactVars
<1>2. CASE Resend
  <2>1. ~waiting /\ active_rx' # "compact" /\ UNCHANGED <<said, compact_pending>>
    BY <1>2 DEF Resend, Idle, StartStream, compactVars
  <2>2. PICK n \in DOMAIN conversation : conversation' = SubSeq(conversation, 1, n)
    BY <1>2 DEF Resend
  <2>3. n \in Nat /\ n <= Len(conversation)
    BY DEF ResultInv
  <2>4. conversation' \in Seq(Messages) /\ NoRevival
    BY <2>2, <2>3, CutStands
  <2> QED BY <1>idle, <2>1, <2>4, ResultDropped DEF ResultInv
<1>3. CASE Answer
  BY <1>0, <1>3, ResultGrows DEF Answer, compactVars
<1>4. CASE StreamError
  <2>1. active_rx' # "compact" /\ compact_pending' = NoRequest
    BY <1>4 DEF StreamError, DropCompaction
  <2>2. CASE UNCHANGED talkVars
    BY <1>same, <2>1, <2>2, ResultDropped DEF ResultInv, talkVars
  <2>3. CASE Say(<<"assistant">>)
    BY <1>0, <2>1, <2>3, SayStands, ResultDropped DEF NoRevival
  <2> QED BY <1>4, <2>2, <2>3 DEF StreamError
<1>5. CASE PlanEnter
  BY <1>0, <1>5, ResultGrows DEF PlanEnter, StartStream, compactVars
<1>6. CASE ApprovePlan
  BY <1>0, <1>6, ResultGrows DEF ApprovePlan, StartStream, compactVars
<1>7. CASE ApprovePlanCompact
  <2>1. Say(<<"tool">>) /\ compact_pending = NoRequest /\ active_rx # "compact"
    BY <1>7 DEF ApprovePlanCompact, BusyInv
  <2>2. conversation' \in Seq(Messages) /\ said' \in Nat /\ NoRevival
    BY <1>0, <2>1, SayStands DEF NoRevival
  <2>3. HandleCompact(conversation', 0, "approval", parked)
    BY <1>7 DEF ApprovePlanCompact, Say
  <2> QED BY <2>1, <2>2, <2>3, AskedStands
<1>8. CASE DenyPlan
  BY <1>0, <1>8, ResultGrows DEF DenyPlan, StartStream, compactVars
<1>9. ASSUME NEW plan \in Plans, PlanReady(plan) PROVE ResultInv' /\ NoRevival
  <2>1. active_rx' # "compact" /\ UNCHANGED <<request, compact_pending>>
    BY <1>9 DEF PlanReady, StartStream, compactVars
  <2>2. Say(<<"calls">>) \/ Say(<<"calls", "tool">>)
    BY <1>9 DEF PlanReady
  <2> QED BY <1>0, <2>1, <2>2, ResultGrows
<1>10. CASE Compact
  <2>1. UNCHANGED <<conversation, said>>
    BY <1>10 DEF Compact, talkVars
  <2>2. CASE waiting
    <3>1. UNCHANGED <<active_rx, request, compact_pending>>
      BY <1>10, <2>2 DEF Compact, compactVars
    <3> QED BY <1>same, <2>1, <3>1 DEF ResultInv
  <2>3. CASE ~waiting
    <3>1. HandleCompact(conversation', PreserveN, "user", pending_plan_seed)
      BY <1>10, <2>1, <2>3 DEF Compact
    <3>2. conversation' \in Seq(Messages) /\ said' \in Nat /\ PreserveN \in Nat
      BY <2>1, CompactionAssumption DEF ResultInv
    <3> QED BY <1>idle, <1>same, <2>1, <2>3, <3>1, <3>2, AskedStands
  <2> QED BY <2>2, <2>3
<1>11. CASE Compacted
  <2>1. request \in Requests /\ Of(request) \subseteq Standing(conversation)
    BY <1>11 DEF Compacted, ResultInv
  <2>2. CASE Apply(request)
    BY <2>1, <2>2, ApplyStands
  <2>3. CASE compact_pending' = request /\ active_rx' = "none" /\ UNCHANGED talkVars
    BY <1>same, <2>1, <2>3 DEF ResultInv, talkVars
  <2> QED BY <1>11, <2>2, <2>3 DEF Compacted
<1>12. CASE ApplyDue
  BY <1>12, ApplyStands DEF ApplyDue, ResultInv
<1>13. CASE CompactorFails
  BY <1>13, <1>same, ResultDropped DEF CompactorFails, FailCompaction, DropCompaction, ResultInv, talkVars
<1>14. CASE Interrupt
  <2>1. active_rx' # "compact" /\ compact_pending' = NoRequest
    BY <1>14 DEF Interrupt, StopTurn, DropCompaction
  <2>2. CASE UNCHANGED talkVars
    BY <1>same, <2>1, <2>2, ResultDropped DEF ResultInv, talkVars
  <2>3. CASE Say(<<"assistant">>)
    BY <1>0, <2>1, <2>3, SayStands, ResultDropped DEF NoRevival
  <2> QED BY <1>14, <2>2, <2>3 DEF Interrupt, CommitPartial
<1>15. CASE Clear
  <2>1. conversation' = <<>> /\ StopIfWaiting /\ UNCHANGED said
    BY <1>15 DEF Clear
  <2>2. conversation' \in Seq(Messages) /\ NoRevival
    BY <2>1 DEF NoRevival, Standing
  <2> QED BY <2>1, <2>2, StoppedCompaction, ResultDropped DEF ResultInv
<1>16. CASE Rewind
  <2>1. StopIfWaiting /\ UNCHANGED said
    BY <1>16 DEF Rewind
  <2>2. PICK k \in DOMAIN conversation : conversation' = SubSeq(conversation, 1, k - 1)
    BY <1>16 DEF Rewind
  <2>3. k - 1 \in Nat /\ k - 1 <= Len(conversation)
    BY DEF ResultInv
  <2>4. conversation' \in Seq(Messages) /\ NoRevival
    BY <2>2, <2>3, CutStands
  <2> QED BY <2>1, <2>4, StoppedCompaction, ResultDropped DEF ResultInv
<1>17. CASE InterruptRewind
  <2>1. active_rx' # "compact" /\ compact_pending' = NoRequest /\ UNCHANGED said
    BY <1>17 DEF InterruptRewind, StopTurn, DropCompaction
  <2>2. PICK k \in DOMAIN conversation : conversation' = SubSeq(conversation, 1, k - 1)
    BY <1>17 DEF InterruptRewind
  <2>3. k - 1 \in Nat /\ k - 1 <= Len(conversation)
    BY DEF ResultInv
  <2>4. conversation' \in Seq(Messages) /\ NoRevival
    BY <2>2, <2>3, CutStands
  <2> QED BY <2>1, <2>4, ResultDropped DEF ResultInv
<1>18. ASSUME NEW mode \in Modes, SetMode(mode) PROVE ResultInv' /\ NoRevival
  <2>1. UNCHANGED <<request, compact_pending>>
    BY <1>18 DEF SetMode, compactVars
  <2>2. CASE StopTurn /\ CommitPartial
    <3>1. active_rx' # "compact"
      BY <2>2 DEF StopTurn
    <3>2. CASE UNCHANGED talkVars
      BY <1>same, <2>1, <3>1, <3>2 DEF ResultInv, talkVars
    <3>3. CASE Say(<<"assistant">>)
      BY <1>0, <2>1, <3>1, <3>3, ResultGrows
    <3> QED BY <2>2, <3>2, <3>3 DEF CommitPartial
  <2>3. CASE UNCHANGED <<talkVars, turnVars, tasks>>
    BY <1>same, <2>1, <2>3 DEF ResultInv, talkVars, turnVars
  <2> QED BY <1>18, <2>2, <2>3 DEF SetMode
<1>19. CASE ShellStarts \/ TaskStarts
  BY <1>same, <1>19 DEF ShellStarts, TaskStarts, ResultInv, talkVars, turnVars, compactVars
<1>20. CASE ShellEnds \/ TaskEnds
  BY <1>0, <1>20, ResultGrows DEF ShellEnds, TaskEnds, turnVars, compactVars
<1>21. CASE UNCHANGED vars
  BY <1>same, <1>21 DEF ResultInv, vars
<1> QED
  BY <1>1, <1>2, <1>3, <1>4, <1>5, <1>6, <1>7, <1>8, <1>9, <1>10, <1>11, <1>12, <1>13, <1>14,
     <1>15, <1>16, <1>17, <1>18, <1>19, <1>20, <1>21 DEF Next

-----------------------------------------------------------------------------
\* The session is held while it is compacted (handle_compact, fail_compaction):
\* no turn runs, no plan is shown, and no result is held back for nothing.
THEOREM HeldWhileCompacting == Spec => []BusyInv
<1>1. BusyInv /\ [Next]_vars => BusyInv'
  BY BusyStep
<1> QED BY <1>1, BusyInit, PTL DEF Spec

\* What a compaction may execute is the plan approved last, in a mode that
\* executes (apply_compaction_result, set_agent_mode_at).
THEOREM ArmedPlanIsApproved == Spec => []ArmedIsApproved
<1>1. BusyInv /\ PlanInv /\ [Next]_vars => BusyInv' /\ PlanInv'
  BY BusyStep, PlanStep
<1>2. PlanInv => ArmedIsApproved
  BY DEF PlanInv
<1> QED BY <1>1, <1>2, BusyInit, PlanInit, PTL DEF Spec

\* What was cut by /clear, a rewind or a resend stays cut, whatever compaction
\* was under way (abort_current, apply_compaction_result).
THEOREM CutIsFinal == Spec => NothingComesBack
<1>1. BusyInv /\ ResultInv /\ [Next]_vars => BusyInv' /\ ResultInv'
  BY BusyStep, ResultStep
<1>2. BusyInv /\ ResultInv /\ [Next]_vars =>
        [\A id \in Standing(conversation') : id \in Standing(conversation) \/ id > said]_vars
  BY ResultStep DEF NoRevival
<1> QED BY <1>1, <1>2, BusyInit, ResultInit, PTL DEF Spec, NothingComesBack

-----------------------------------------------------------------------------
(* What is applied is a summary of what stood.                             *)

\* What a request covers when its tail begins after `at`.
Covered(messages, at) ==
    UNION {messages[k].of : k \in {k \in 1..at : ~Torn(SubSeq(messages, 1, at), k)}}

\* The request was made of the first n messages, and the others are notes said since.
Based(result, messages, upto) ==
    /\ result.until <= upto
    /\ \E n, at \in 0..Len(messages) :
         /\ at <= n
         /\ result.tail = SubSeq(messages, at + 1, n)
         /\ result.covers = Covered(messages, at)
         /\ \A k \in n + 1..Len(messages) :
              messages[k].kind = "note" /\ \A id \in messages[k].of : id > result.until

\* While a compaction runs nothing but notes reach the conversation, and a result
\* that is held back is the only one.
BasisInv ==
    /\ request # NoRequest => active_rx = "compact" /\ Based(request, conversation, said)
    /\ active_rx = "compact" => request # NoRequest
    /\ compact_pending # NoRequest =>
         request = NoRequest /\ Based(compact_pending, conversation, said)

LEMMA SlicePrefix ==
    ASSUME NEW s \in Seq(Messages), NEW t \in Seq(Messages), NEW a \in Nat \ {0}, NEW b \in Nat,
           b <= Len(s), b <= Len(t), \A i \in 1..b : s[i] = t[i]
    PROVE  SubSeq(s, a, b) = SubSeq(t, a, b)
<1>1. /\ SubSeq(s, a, b) \in Seq(Messages) /\ SubSeq(t, a, b) \in Seq(Messages)
      /\ Len(SubSeq(s, a, b)) = Len(SubSeq(t, a, b))
  BY SMT
<1>2. \A i \in 1..Len(SubSeq(s, a, b)) : SubSeq(s, a, b)[i] = SubSeq(t, a, b)[i]
  BY SMT
<1> QED BY <1>1, <1>2, SeqEqual

\* A note leaves a request where it was.
LEMMA BasedNote ==
    ASSUME said \in Nat, NEW messages \in Seq(Messages), NEW result \in Requests,
           Based(result, messages, said)
    PROVE  Based(result, Pushed(messages, <<"note">>), said + 1)
<1> DEFINE g == Pushed(messages, <<"note">>)
           m == Message("note", said + 1)
<1>1. /\ g \in Seq(Messages) /\ Len(g) = Len(messages) + 1 /\ Len(messages) \in Nat
      /\ \A k \in 1..Len(messages) : g[k] = messages[k]
      /\ g[Len(messages) + 1] = m
  <2>1. m \in Messages
    BY DEF m, Message, Messages, Kinds
  <2>2. g = messages \o <<m>>
    BY DEF Pushed
  <2> HIDE DEF m, g
  <2>3. <<m>> \in Seq(Messages) /\ Len(<<m>>) = 1 /\ <<m>>[1] = m
    BY <2>1
  <2> QED BY <2>2, <2>3
<1>2. m.kind = "note" /\ m.of = {said + 1}
  BY DEF Message
<1> HIDE DEF g, m
<1>3. PICK n, at \in 0..Len(messages) :
         /\ at <= n
         /\ result.tail = SubSeq(messages, at + 1, n)
         /\ result.covers = Covered(messages, at)
         /\ \A k \in n + 1..Len(messages) :
              messages[k].kind = "note" /\ \A id \in messages[k].of : id > result.until
  BY DEF Based
<1>4. n \in 0..Len(g) /\ at \in 0..Len(g) /\ n \in Nat /\ at \in Nat /\ at <= n /\ n <= Len(messages)
  BY <1>1, <1>3
<1>5. SubSeq(g, at + 1, n) = SubSeq(messages, at + 1, n)
  <2>1. /\ at + 1 \in Nat \ {0} /\ n \in Nat /\ n <= Len(g) /\ n <= Len(messages)
        /\ \A i \in 1..n : g[i] = messages[i]
    BY <1>1, <1>4
  <2> QED BY <1>1, <2>1, SlicePrefix
<1>6. Covered(g, at) = Covered(messages, at)
  <2>1. SubSeq(g, 1, at) = SubSeq(messages, 1, at)
    <3>1. at \in Nat /\ at <= Len(g) /\ at <= Len(messages) /\ \A i \in 1..at : g[i] = messages[i]
      BY <1>1, <1>4
    <3> QED BY <1>1, <3>1, SlicePrefix
  <2>2. \A k \in 1..at : g[k] = messages[k]
    BY <1>1, <1>4
  <2> QED BY <2>1, <2>2 DEF Covered
<1>7. result.until \in Nat /\ result.until <= said
  BY DEF Based, Requests
<1>8. ASSUME NEW k \in n + 1..Len(g)
      PROVE  g[k].kind = "note" /\ \A id \in g[k].of : id > result.until
  <2>1. CASE k = Len(messages) + 1
    BY <1>1, <1>2, <1>7, <2>1
  <2>2. CASE k # Len(messages) + 1
    <3>1. k \in n + 1..Len(messages) /\ g[k] = messages[k]
      BY <1>1, <1>4, <2>2
    <3> QED BY <1>3, <3>1
  <2> QED BY <2>1, <2>2
<1>9. result.until <= said + 1
  BY <1>7
<1>10. Based(result, g, said + 1)
  BY <1>3, <1>4, <1>5, <1>6, <1>8, <1>9 DEF Based
<1> QED BY <1>10 DEF g

\* A request that is made is made of the whole conversation.
LEMMA BasedSplit ==
    ASSUME said' \in Nat, NEW messages \in Seq(Messages), NEW preserve \in Nat,
           NEW asked \in {"user", "approval"}
    PROVE  Based(Split(messages, preserve, asked), messages, said')
<1> DEFINE at  == IF Len(messages) > preserve THEN Len(messages) - preserve ELSE 0
           r   == Split(messages, preserve, asked)
           n   == Len(messages)
           old == SubSeq(messages, 1, at)
<1>1. at \in 0..n /\ n \in Nat /\ n \in 0..n /\ at <= n
  OBVIOUS
<1>2. /\ r.covers = UNION {old[k].of : k \in {k \in 1..at : ~Torn(old, k)}}
      /\ r.tail = SubSeq(messages, at + 1, n) /\ r.until = said'
  BY DEF Split, KeptTail
<1> HIDE DEF at
<1>3. \A k \in 1..at : old[k] = messages[k]
  BY <1>1
<1>4. r.covers = Covered(messages, at)
  BY <1>2, <1>3 DEF Covered
<1> HIDE DEF r
<1>5. \A k \in n + 1..Len(messages) : FALSE
  BY <1>1
<1>6. r.until <= said'
  BY <1>2
<1> HIDE DEF n
<1>7. Len(messages) = n
  BY DEF n
<1> QED BY <1>1, <1>2, <1>4, <1>5, <1>6, <1>7 DEF Based, r

\* Who stood when the request was made, whole, is in what it stands for.
LEMMA WholeStands ==
    ASSUME NEW messages \in Seq(Messages), NEW result \in Requests, NEW upto \in Nat,
           Based(result, messages, upto), NEW k \in DOMAIN messages, ~Torn(messages, k),
           ~(/\ messages[k].kind = "calls"
             /\ result.tail # <<>> /\ messages[k + 1] = Head(result.tail)),
           NEW id \in messages[k].of, id <= result.until
    PROVE  id \in Of(result)
<1>1. PICK n, at \in 0..Len(messages) :
         /\ at <= n
         /\ result.tail = SubSeq(messages, at + 1, n)
         /\ result.covers = Covered(messages, at)
         /\ \A j \in n + 1..Len(messages) :
              messages[j].kind = "note" /\ \A x \in messages[j].of : x > result.until
  BY DEF Based
<1>2. Len(messages) \in Nat /\ DOMAIN messages = 1..Len(messages) /\ result.until \in Nat
      /\ n \in Nat /\ at \in Nat /\ at <= n /\ n <= Len(messages)
  BY <1>1 DEF Requests
<1>3. k <= n
  <2>1. messages[k] \in Messages
    OBVIOUS
  <2>2. id \in Nat
    BY <2>1 DEF Messages
  <2>3. k \in n + 1..Len(messages) => id > result.until
    BY <1>1
  <2> QED BY <1>2, <2>2, <2>3
<1>4. CASE k > at
  <2>1. k - at \in DOMAIN SubSeq(messages, at + 1, n) /\ SubSeq(messages, at + 1, n)[k - at] = messages[k]
    BY <1>2, <1>3, <1>4
  <2> QED BY <1>1, <2>1 DEF Of, Standing
<1>5. CASE k <= at
  <2> DEFINE old == SubSeq(messages, 1, at)
  <2>1. Len(old) = at /\ \A j \in 1..at : old[j] = messages[j]
    BY <1>2
  <2>2. k \in 1..at /\ (k - 1 \in 1..at \/ k = 1)
    BY <1>2, <1>5
  <2> HIDE DEF old
  <2>3. ~Torn(old, k)
    <3>1. CASE messages[k].kind = "calls"
      <4>1. k # Len(messages) /\ messages[k + 1].kind = "tool" /\ k + 1 \in DOMAIN messages
        BY <1>2, <3>1 DEF Torn
      <4>2. CASE k < at
        <5>1. k + 1 \in 1..at
          BY <1>2, <4>2
        <5> QED BY <2>1, <2>2, <3>1, <4>1, <4>2, <5>1 DEF Torn
      <4>3. CASE k = at /\ at < n
        <5>1. result.tail # <<>> /\ Head(result.tail) = messages[at + 1]
          BY <1>1, <1>2, <4>3, HeadTailOfSubSeq
        <5> QED BY <3>1, <4>3, <5>1
      <4>4. CASE k = at /\ at = n
        <5>a. n # Len(messages) /\ Len(messages) \in Nat /\ n \in Nat /\ n <= Len(messages)
          BY <1>2, <4>1, <4>4
        <5>1. n + 1 \in n + 1..Len(messages)
          BY <5>a
        <5>2. messages[n + 1].kind = "note"
          BY <1>1, <5>1
        <5>3. messages[n + 1].kind = "tool"
          BY <4>1, <4>4
        <5> QED BY <5>2, <5>3
      <4> QED BY <1>2, <1>5, <4>2, <4>3, <4>4
    <3>2. CASE messages[k].kind = "tool"
      <4>1. k # 1 /\ messages[k - 1].kind = "calls"
        BY <3>2 DEF Torn
      <4> QED BY <2>1, <2>2, <3>2, <4>1 DEF Torn
    <3>3. CASE messages[k].kind \notin {"calls", "tool"}
      BY <2>1, <2>2, <3>3 DEF Torn
    <3> QED BY <3>1, <3>2, <3>3
  <2> QED BY <1>1, <2>2, <2>3 DEF Of, Covered, old
<1> QED BY <1>2, <1>4, <1>5

LEMMA BasisDead ==
    ASSUME request' = NoRequest, compact_pending' = NoRequest, active_rx' # "compact"
    PROVE  BasisInv'
BY DEF BasisInv

\* Nobody has asked, and nobody asks.
LEMMA BasisIdle ==
    ASSUME BusyInv, BasisInv, active_rx # "compact", ~compact_anim_start,
           UNCHANGED <<request, compact_pending>>, active_rx' # "compact"
    PROVE  BasisInv'
BY DEF BusyInv, BasisInv

\* What keeps the compaction as it is, and the conversation or all but for a note.
LEMMA BasisGoesOn ==
    ASSUME ResultInv, BasisInv, UNCHANGED <<request, compact_pending, active_rx>>,
           UNCHANGED talkVars \/ Say(<<"note">>)
    PROVE  BasisInv'
<1>1. CASE UNCHANGED talkVars
  BY <1>1 DEF BasisInv, talkVars
<1>2. CASE Say(<<"note">>)
  <2>1. conversation' = Pushed(conversation, <<"note">>) /\ said' = said + 1
    BY <1>2 DEF Say
  <2>2. ASSUME NEW result \in Requests, Based(result, conversation, said)
        PROVE  Based(result, conversation', said')
    BY <2>1, <2>2, BasedNote DEF ResultInv
  <2>3. request # NoRequest => request \in Requests /\ Based(request, conversation, said)
    BY DEF BasisInv, ResultInv
  <2>4. compact_pending # NoRequest =>
          compact_pending \in Requests /\ Based(compact_pending, conversation, said)
    BY DEF BasisInv, ResultInv
  <2> QED BY <2>2, <2>3, <2>4 DEF BasisInv
<1> QED BY <1>1, <1>2

LEMMA BasisAsked ==
    ASSUME conversation' \in Seq(Messages), said' \in Nat, BusyInv, BasisInv, ~compact_anim_start,
           NEW preserve \in Nat, NEW asked \in {"user", "approval"},
           NEW seed, HandleCompact(conversation', preserve, asked, seed)
    PROVE  BasisInv'
<1>1. CASE UNCHANGED <<active_rx, compactVars>>
  BY <1>1, BasisIdle DEF compactVars, BusyInv
<1>2. CASE /\ request' = Split(conversation', preserve, asked) /\ compact_pending' = NoRequest
           /\ active_rx' = "compact"
  <2>1. Based(Split(conversation', preserve, asked), conversation', said')
    BY BasedSplit
  <2>2. Split(conversation', preserve, asked) # NoRequest
    BY SplitRequests, CompactionAssumption
  <2> QED BY <1>2, <2>1, <2>2 DEF BasisInv
<1> QED BY <1>1, <1>2 DEF HandleCompact

LEMMA BasisInit == Init => BasisInv
BY DEF Init, BasisInv

LEMMA BasisStep == ASSUME BusyInv, ResultInv, BasisInv, [Next]_vars PROVE BasisInv'
<1>quiet. active_rx = "turn" \/ ~waiting \/ parked # NoPlan =>
            active_rx # "compact" /\ ~compact_anim_start
  BY DEF BusyInv
<1>1. CASE Submit \/ Resend
  <2>1. ~waiting /\ active_rx' # "compact" /\ UNCHANGED <<request, compact_pending>>
    BY <1>1 DEF Submit, Resend, Idle, StartStream, compactVars
  <2> QED BY <1>quiet, <2>1, BasisIdle
<1>2. CASE Answer \/ PlanEnter \/ \E plan \in Plans : PlanReady(plan)
  <2>1. active_rx = "turn" /\ active_rx' # "compact" /\ UNCHANGED <<request, compact_pending>>
    BY <1>2 DEF Answer, PlanEnter, PlanReady, StartStream, compactVars
  <2> QED BY <1>quiet, <2>1, BasisIdle
<1>3. CASE StreamError
  BY <1>3, BasisDead DEF StreamError, DropCompaction
<1>4. CASE ApprovePlan \/ DenyPlan
  <2>1. parked # NoPlan /\ active_rx' # "compact" /\ UNCHANGED <<request, compact_pending>>
    BY <1>4 DEF ApprovePlan, DenyPlan, StartStream, compactVars
  <2> QED BY <1>quiet, <2>1, BasisIdle
<1>5. CASE ApprovePlanCompact
  <2>1. Say(<<"tool">>) /\ parked # NoPlan
    BY <1>5 DEF ApprovePlanCompact
  <2>2. conversation' \in Seq(Messages) /\ said' \in Nat
    <3>1. <<"tool">> \in Seq(Kinds)
      BY DEF Kinds
    <3> QED BY <2>1, <3>1, SayStands
  <2>3. HandleCompact(conversation', 0, "approval", parked)
    BY <1>5 DEF ApprovePlanCompact, Say
  <2> QED BY <1>quiet, <2>1, <2>2, <2>3, BasisAsked
<1>6. CASE Compact
  <2>1. UNCHANGED talkVars /\ conversation' \in Seq(Messages) /\ said' \in Nat /\ PreserveN \in Nat
    BY <1>6, CompactionAssumption DEF Compact, talkVars, ResultInv
  <2>2. CASE waiting
    <3>1. UNCHANGED <<request, compact_pending, active_rx>>
      BY <1>6, <2>2 DEF Compact, compactVars
    <3> QED BY <2>1, <3>1, BasisGoesOn
  <2>3. CASE ~waiting
    <3>1. HandleCompact(conversation', PreserveN, "user", pending_plan_seed)
      BY <1>6, <2>1, <2>3 DEF Compact, talkVars
    <3> QED BY <1>quiet, <2>1, <2>3, <3>1, BasisAsked
  <2> QED BY <2>2, <2>3
<1>7. ASSUME NEW result, Apply(result) PROVE BasisInv'
  BY <1>7, BasisDead DEF Apply, FailCompaction, DropCompaction, StartStream
<1>8. CASE Compacted
  <2>1. CASE Apply(request)
    BY <1>7, <2>1
  <2>2. CASE /\ compact_pending' = request /\ request' = NoRequest /\ active_rx' = "none"
             /\ UNCHANGED talkVars
    BY <1>8, <2>2 DEF Compacted, BasisInv, talkVars
  <2> QED BY <1>8, <2>1, <2>2 DEF Compacted
<1>9. CASE ApplyDue
  BY <1>7, <1>9 DEF ApplyDue
<1>10. CASE CompactorFails \/ Interrupt \/ InterruptRewind
  BY <1>10, BasisDead DEF CompactorFails, FailCompaction, Interrupt, InterruptRewind, StopTurn, DropCompaction
<1>11. CASE Clear \/ Rewind
  <2>1. StopIfWaiting
    BY <1>11 DEF Clear, Rewind
  <2>2. CASE waiting
    BY <2>1, <2>2, BasisDead DEF StopIfWaiting, StopTurn, DropCompaction
  <2>3. CASE ~waiting
    <3>1. UNCHANGED <<request, compact_pending, active_rx>>
      BY <2>1, <2>3 DEF StopIfWaiting, turnVars, compactVars
    <3> QED BY <1>quiet, <2>3, <3>1, BasisIdle
  <2> QED BY <2>2, <2>3
<1>12. ASSUME NEW mode \in Modes, SetMode(mode) PROVE BasisInv'
  <2>1. UNCHANGED <<request, compact_pending>>
    BY <1>12 DEF SetMode, compactVars
  <2>2. CASE /\ (active_rx # "none" /\ ~compact_anim_start) \/ parked # NoPlan
             /\ StopTurn
    <3>1. active_rx # "compact" /\ ~compact_anim_start /\ active_rx' # "compact"
      BY <2>2 DEF BusyInv, StopTurn
    <3> QED BY <2>1, <3>1, BasisIdle
  <2>3. CASE UNCHANGED <<talkVars, turnVars, tasks>>
    BY <2>1, <2>3, BasisGoesOn DEF turnVars
  <2> QED BY <1>12, <2>2, <2>3 DEF SetMode
<1>13. CASE ShellStarts \/ ShellEnds \/ TaskStarts \/ TaskEnds \/ UNCHANGED vars
  <2>1. /\ UNCHANGED <<request, compact_pending, active_rx>>
        /\ UNCHANGED talkVars \/ Say(<<"note">>)
    BY <1>13 DEF ShellStarts, ShellEnds, TaskStarts, TaskEnds, turnVars, compactVars, talkVars, vars
  <2> QED BY <2>1, BasisGoesOn
<1> QED
  BY <1>1, <1>2, <1>3, <1>4, <1>5, <1>6, <1>8, <1>9, <1>10, <1>11, <1>12, <1>13, Zenon DEF Next

\* Whatever preserve_n, and whatever notes arrive while the compactor works, a
\* compaction that is applied loses nothing that stood whole when it was asked
\* (split_for_compaction, apply_compaction_result).
THEOREM NothingSaidIsLost == Spec => KeptOrSummarised
<1>1. BusyInv /\ ResultInv /\ BasisInv /\ [Next]_vars => BusyInv' /\ ResultInv' /\ BasisInv'
  BY BusyStep, ResultStep, BasisStep
<1>2. ASSUME BusyInv, ResultInv, BasisInv, Applies
      PROVE  \A k \in DOMAIN conversation :
                Whole(k) => \A id \in conversation[k].of :
                                id <= Result.until => id \in Standing(conversation')
  <2>1. Result \in Requests /\ Based(Result, conversation, said) /\ Apply(Result)
    <3>1. CASE Compacted
      <4>1. active_rx = "compact" /\ request # NoRequest /\ Result = request
        BY <1>2, <3>1 DEF Compacted, BasisInv, Result
      <4>2. Apply(request)
        BY <1>2, <3>1 DEF Compacted, Applies, talkVars
      <4> QED BY <1>2, <4>1, <4>2 DEF BasisInv, ResultInv
    <3>2. CASE ApplyDue
      <4>1. compact_pending # NoRequest /\ Result = compact_pending /\ Apply(compact_pending)
        BY <1>2, <3>2 DEF ApplyDue, BasisInv, Result
      <4> QED BY <1>2, <4>1 DEF BasisInv, ResultInv
    <3> QED BY <1>2, <3>1, <3>2 DEF Applies
  <2> DEFINE rebuilt == <<Summary(Result)>> \o Result.tail
  <2>2. rebuilt \in Seq(Messages) /\ Standing(rebuilt) = Of(Result)
    BY <2>1, RebuiltStands
  <2>3. Standing(rebuilt) \subseteq Standing(conversation')
    <3>1. conversation' = rebuilt \/ conversation' = Pushed(rebuilt, <<"execute">>)
      BY <1>2, <2>1 DEF Apply, FailCompaction, Applies, talkVars
    <3>2. <<"execute">> \in Seq(Kinds)
      BY DEF Kinds
    <3> HIDE DEF rebuilt
    <3>3. Standing(rebuilt) \subseteq Standing(Pushed(rebuilt, <<"execute">>))
      BY <1>2, <2>2, <3>2, PushedStands DEF ResultInv
    <3> QED BY <3>1, <3>3
  <2> HIDE DEF rebuilt
  <2>4. conversation \in Seq(Messages) /\ said \in Nat
    BY <1>2 DEF ResultInv
  <2> SUFFICES ASSUME NEW k \in DOMAIN conversation, Whole(k), NEW id \in conversation[k].of,
                      id <= Result.until
               PROVE  id \in Of(Result)
    BY <2>2, <2>3
  <2> QED BY <2>1, <2>4, WholeStands DEF Whole
<1>3. BusyInv /\ ResultInv /\ BasisInv /\ [Next]_vars =>
        [Applies =>
         \A k \in DOMAIN conversation :
            Whole(k) => \A id \in conversation[k].of :
                            id <= Result.until => id \in Standing(conversation')]_vars
  BY <1>2
<1> QED BY <1>1, <1>3, BusyInit, ResultInit, BasisInit, PTL DEF Spec, KeptOrSummarised
=============================================================================
