---- MODULE TurnAccountProofs ----
(***************************************************************************)
(* The account of a round is invariant when the provider numbers its calls *)
(* and a denial only answers a parked call; what follows from it.  First   *)
(* what the fragments of handlers do to it: walk past a call, end the      *)
(* round, fold a result, untie a worker, drain reports.                    *)
(***************************************************************************)
EXTENDS TurnPhaseProofs

USE DEF turnVars, queueVars, roundVars, classifyVars, taskVars, agentVars, offThread,
        nudgeVars, modeVars, counters, OutsideTools

\* The parts of an id the provider made.
LEMMA IdFacts ==
    ASSUME NativeIds
    PROVE  \A id \in Id : id[1] \in 1..MaxRounds /\ id[2] \in 1..MaxCalls /\ id = <<id[1], id[2]>>
BY DEF Id, CallId

\* The ids of the round, by the number of the call.
LEMMA RoundIds ==
    ASSUME PhaseInv, AccountInv
    PROVE  /\ WalkedIds = {<<round, k>> : k \in 1..tool_idx}
           /\ \A id \in AnsweredIds \cup pending_tool_tasks \cup pending_subagent_calls :
                /\ id[1] = round /\ id[2] \in 1..tool_idx /\ pending_tool_calls /= <<>>
           /\ tool_idx < Len(pending_tool_calls) => Current.id = <<round, tool_idx + 1>>
<1>1. /\ tool_idx \in Nat /\ tool_idx <= Len(pending_tool_calls) /\ Len(pending_tool_calls) \in Nat
      /\ DOMAIN pending_tool_calls = 1..Len(pending_tool_calls)
  BY DEF PhaseInv, TypeOK
<1>2. \A k \in 1..tool_idx : pending_tool_calls[k].id = <<round, k>>
  BY <1>1 DEF AccountInv, Numbered
<1>3. WalkedIds = {<<round, k>> : k \in 1..tool_idx}
  BY <1>2 DEF WalkedIds
<1>4. \A id \in AnsweredIds \cup pending_tool_tasks \cup pending_subagent_calls :
          id[1] = round /\ id[2] \in 1..tool_idx
  BY <1>3 DEF AccountInv, RoundAccounting
<1>5. tool_idx > 0 => pending_tool_calls /= <<>>
  BY <1>1
<1>6. tool_idx < Len(pending_tool_calls) => Current.id = <<round, tool_idx + 1>>
  BY <1>1 DEF AccountInv, Numbered, Current
<1> QED
  BY <1>1, <1>3, <1>4, <1>5, <1>6

\* Where the bookkeeping of the round is left alone.
LEMMA AccountSame ==
    ASSUME PhaseInv, AccountInv,
           UNCHANGED <<pending_tool_calls, tool_idx, tool_results, pending_tool_tasks,
                       pending_subagent_calls, subagents, bash_jobs, threads, round>>,
           \A work \in classifiers' \ classifiers : work.id[1] = work.from,
           \A p \in pending_classify_verdict' \ pending_classify_verdict : p.work.id[1] = p.work.from,
           Quiet', TasksStopTheLoop'
    PROVE  AccountInv'
<1>1. Numbered' /\ OneWorkerPerCall' /\ RunningIsAwaited' /\ RoundAccounting'
  BY DEF AccountInv, Numbered, OneWorkerPerCall, RunningIsAwaited, RoundAccounting, WalkedIds, AnsweredIds
<1>2. Owned'
  BY DEF AccountInv, Owned, HandedOut
<1> QED
  BY <1>1, <1>2 DEF AccountInv

\* Where the round is over and nothing of it is waited for.
LEMMA AccountClear ==
    ASSUME PhaseInv, AccountInv, NativeIds,
           pending_tool_calls' = <<>>, tool_idx' = 0, tool_results' = <<>>,
           pending_tool_tasks' = {}, pending_subagent_calls' = {},
           round' \in Nat, round' >= round,
           UNCHANGED threads, classifiers' \subseteq classifiers,
           pending_classify_verdict' \subseteq pending_classify_verdict,
           DOMAIN subagents' = DOMAIN subagents, DOMAIN bash_jobs' = DOMAIN bash_jobs,
           \A i \in DOMAIN subagents :
             /\ subagents'[i].call = subagents[i].call /\ subagents'[i].from = subagents[i].from
             /\ subagents'[i].detached = subagents[i].detached
             /\ subagents'[i].status = "running" => subagents'[i].call = None,
           \A j \in DOMAIN bash_jobs :
             /\ bash_jobs'[j].call \in {bash_jobs[j].call, None} /\ bash_jobs'[j].from = bash_jobs[j].from
             /\ bash_jobs'[j].status = "running" => bash_jobs'[j].call = None
    PROVE  AccountInv'
<1>1. Numbered' /\ Quiet' /\ TasksStopTheLoop'
  BY DEF Numbered, Quiet, TasksStopTheLoop
<1>2. \A work \in threads : work.id \in Id /\ work.id /= None
  BY NoneIsNoId DEF PhaseInv, TypeOK, Work
<1>2a. /\ \A work \in threads : work.id \in Id
       /\ \A j \in DOMAIN bash_jobs : bash_jobs[j].call /= None => bash_jobs[j].call \in Id
       /\ \A i \in DOMAIN subagents : subagents[i].call /= None => subagents[i].call \in Id
  <2>1. (\A j \in DOMAIN bash_jobs : bash_jobs[j] \in BashJob) /\ (\A i \in DOMAIN subagents : subagents[i] \in SubAgent)
    BY DEF PhaseInv, TypeOK
  <2> QED
    BY <1>2, <2>1 DEF BashJob, SubAgent
<1>3. \A id \in Id : HandedOut(id) => id[1] <= round'
  BY IdFacts DEF HandedOut, PhaseInv, TypeOK
<1>4. Owned'
  <2>1. /\ \A work \in threads' : work.id[1] = work.from /\ work.id[1] <= round'
        /\ \A work \in classifiers' : work.id[1] = work.from
        /\ \A p \in pending_classify_verdict' : p.work.id[1] = p.work.from
    BY <1>2a, <1>3 DEF AccountInv, Owned
  <2>2. \A j \in DOMAIN bash_jobs' : bash_jobs'[j].call /= None =>
         bash_jobs'[j].call[1] = bash_jobs'[j].from /\ bash_jobs'[j].call[1] <= round'
    BY <1>2a, <1>3 DEF AccountInv, Owned
  <2>3. \A i \in DOMAIN subagents' : subagents'[i].call /= None =>
         subagents'[i].call[1] = subagents'[i].from /\ subagents'[i].call[1] <= round'
    BY <1>2a, <1>3 DEF AccountInv, Owned
  <2> QED
    BY <2>1, <2>2, <2>3 DEF Owned, HandedOut
<1>5. OneWorkerPerCall'
  BY <1>2 DEF AccountInv, OneWorkerPerCall
<1>6. RunningIsAwaited'
  BY DEF AccountInv, RunningIsAwaited
<1>7. RoundAccounting'
  BY DEF RoundAccounting, WalkedIds, AnsweredIds
<1> QED
  BY <1>1, <1>4, <1>5, <1>6, <1>7 DEF AccountInv

\* The current call of a round is walked past.
LEMMA AccountWalk ==
    ASSUME PhaseInv, AccountInv, NativeIds, tool_idx < Len(pending_tool_calls),
           tool_idx' = tool_idx + 1, UNCHANGED <<pending_tool_calls, round>>
    PROVE  /\ Numbered' /\ Current.id \notin WalkedIds /\ WalkedIds' = WalkedIds \cup {Current.id}
           /\ \A id \in Id : HandedOut(id) \/ id = Current.id => HandedOut(id)'
           /\ WorkFor(Current).id = Current.id
           /\ Current.id[1] = round /\ WorkFor(Current).from = round
           /\ \A id \in Id : HandedOut(id) => id /= Current.id
           /\ Current.id \in Id /\ Current.id /= None
<1>1. /\ tool_idx \in Nat /\ Current.id = <<round, tool_idx + 1>> /\ Current.id \in Id
      /\ round \in Nat
  BY RoundIds, CurrentType DEF PhaseInv, TypeOK
<1>2. Numbered'
  BY DEF AccountInv, Numbered
<1>3. WalkedIds = {<<round, k>> : k \in 1..tool_idx}
  BY RoundIds
<1>4. WalkedIds' = {<<round, k>> : k \in 1..tool_idx + 1}
  <2>1. \A k \in 1..tool_idx + 1 : pending_tool_calls[k].id = <<round, k>>
    BY DEF AccountInv, Numbered, PhaseInv, TypeOK
  <2>2. WalkedIds' = {pending_tool_calls[k].id : k \in 1..tool_idx + 1}
    BY DEF WalkedIds
  <2> QED
    BY <2>1, <2>2
<1>5. 1..tool_idx + 1 = (1..tool_idx) \cup {tool_idx + 1}
  BY <1>1
<1>6. WalkedIds' = WalkedIds \cup {Current.id} /\ Current.id \notin WalkedIds
  BY <1>1, <1>3, <1>4, <1>5
<1>7. ASSUME NEW id \in Id, HandedOut(id) PROVE HandedOut(id)' /\ id /= Current.id
  BY <1>1, <1>7, IdFacts DEF HandedOut
<1>8. ASSUME NEW id \in Id, id = Current.id PROVE HandedOut(id)'
  BY <1>1, <1>8 DEF HandedOut
<1> QED
  BY <1>1, <1>2, <1>6, <1>7, <1>8, NoneIsNoId DEF WorkFor

\* Every id that is out was handed out.
LEMMA OutIds ==
    ASSUME PhaseInv, AccountInv
    PROVE  /\ \A work \in threads : work.id \in Id /\ HandedOut(work.id)
           /\ \A j \in DOMAIN bash_jobs : bash_jobs[j].call /= None =>
                bash_jobs[j].call \in Id /\ HandedOut(bash_jobs[j].call)
           /\ \A i \in DOMAIN subagents : subagents[i].call /= None =>
                subagents[i].call \in Id /\ HandedOut(subagents[i].call)
<1>1. /\ \A work \in threads : work \in Work
      /\ \A j \in DOMAIN bash_jobs : bash_jobs[j] \in BashJob
      /\ \A i \in DOMAIN subagents : subagents[i] \in SubAgent
  BY DEF PhaseInv, TypeOK
<1> QED
  BY <1>1 DEF AccountInv, Owned, Work, BashJob, SubAgent


\* The invariant of the workers where the current call is walked past, one list
\* of workers at a time.
LEMMA OwnedWalk ==
    ASSUME PhaseInv, AccountInv, NativeIds, tool_idx < Len(pending_tool_calls),
           tool_idx' = tool_idx + 1, UNCHANGED <<pending_tool_calls, round, classifiers>>,
           pending_classify_verdict' \subseteq pending_classify_verdict,
           tool_results' \in {tool_results, Append(tool_results, WorkFor(Current))},
           threads' \in {threads, threads \cup {WorkFor(Current)}},
           \/ UNCHANGED bash_jobs
           \/ \E c \in {None, Current.id} : bash_jobs' = Append(bash_jobs,
                [call |-> c, from |-> round, status |-> "running", suppress |-> FALSE]),
           \/ UNCHANGED subagents
           \/ \E c \in {None, Current.id}, d \in BOOLEAN : subagents' = Append(subagents, NewAgent(c, d))
    PROVE  Owned'
<1>1. /\ Current.id \in Id /\ Current.id[1] = round /\ Current.id /= None
      /\ WorkFor(Current) = [id |-> Current.id, from |-> round]
      /\ \A id \in Id : HandedOut(id) \/ id = Current.id => HandedOut(id)'
  BY AccountWalk DEF WorkFor
<1>2. /\ \A id \in Id : HandedOut(id) \/ id = Current.id =>
           id[1] <= round' /\ (id[1] = round' /\ pending_tool_calls' /= <<>> => id[2] <= tool_idx')
  BY <1>1 DEF HandedOut
<1>3. \A work \in threads' : work.id[1] = work.from /\ work.id \in Id /\ (HandedOut(work.id) \/ work.id = Current.id)
  BY <1>1, OutIds DEF AccountInv, Owned
<1>4. \A k \in DOMAIN tool_results' : tool_results'[k].id[1] = tool_results'[k].from
  <2>1. tool_results \in Seq(Work)
    BY DEF PhaseInv, TypeOK
  <2> QED
    BY <1>1, <2>1 DEF AccountInv, Owned
<1>5. \A j \in DOMAIN bash_jobs' : bash_jobs'[j].call /= None =>
        /\ bash_jobs'[j].call[1] = bash_jobs'[j].from
        /\ bash_jobs'[j].call \in Id /\ (HandedOut(bash_jobs'[j].call) \/ bash_jobs'[j].call = Current.id)
  <2>1. bash_jobs \in Seq(BashJob)
    BY DEF PhaseInv, TypeOK
  <2>2. CASE UNCHANGED bash_jobs
    BY <2>2, OutIds DEF AccountInv, Owned
  <2>3. ASSUME NEW c \in {None, Current.id},
               bash_jobs' = Append(bash_jobs, [call |-> c, from |-> round, status |-> "running", suppress |-> FALSE]),
               NEW j \in DOMAIN bash_jobs', bash_jobs'[j].call /= None
        PROVE  /\ bash_jobs'[j].call[1] = bash_jobs'[j].from
               /\ bash_jobs'[j].call \in Id /\ (HandedOut(bash_jobs'[j].call) \/ bash_jobs'[j].call = Current.id)
    <3>1. CASE j \in DOMAIN bash_jobs
      <4>1. bash_jobs'[j] = bash_jobs[j]
        BY <2>1, <2>3, <3>1
      <4> QED
        BY <2>3, <3>1, <4>1, OutIds DEF AccountInv, Owned
    <3>2. CASE j \notin DOMAIN bash_jobs
      <4>1. bash_jobs'[j] = [call |-> c, from |-> round, status |-> "running", suppress |-> FALSE]
        BY <2>1, <2>3, <3>2
      <4> QED
        BY <1>1, <2>3, <4>1
    <3> QED BY <3>1, <3>2
  <2> QED
    BY <2>2, <2>3
<1>6. \A i \in DOMAIN subagents' : subagents'[i].call /= None =>
        /\ subagents'[i].call[1] = subagents'[i].from
        /\ subagents'[i].call \in Id /\ (HandedOut(subagents'[i].call) \/ subagents'[i].call = Current.id)
  <2>1. subagents \in Seq(SubAgent)
    BY DEF PhaseInv, TypeOK
  <2>2. CASE UNCHANGED subagents
    BY <2>2, OutIds DEF AccountInv, Owned
  <2>3. ASSUME NEW c \in {None, Current.id}, NEW d \in BOOLEAN, subagents' = Append(subagents, NewAgent(c, d)),
               NEW i \in DOMAIN subagents', subagents'[i].call /= None
        PROVE  /\ subagents'[i].call[1] = subagents'[i].from
               /\ subagents'[i].call \in Id /\ (HandedOut(subagents'[i].call) \/ subagents'[i].call = Current.id)
    <3>1. CASE i \in DOMAIN subagents
      <4>1. subagents'[i] = subagents[i]
        BY <2>1, <2>3, <3>1
      <4> QED
        BY <2>3, <3>1, <4>1, OutIds DEF AccountInv, Owned
    <3>2. CASE i \notin DOMAIN subagents
      <4>1. subagents'[i] = NewAgent(c, d)
        BY <2>1, <2>3, <3>2
      <4> QED
        BY <1>1, <2>3, <4>1 DEF NewAgent
    <3> QED BY <3>1, <3>2
  <2> QED
    BY <2>2, <2>3
<1>7. /\ \A work \in classifiers' : work.id[1] = work.from
      /\ \A p \in pending_classify_verdict' : p.work.id[1] = p.work.from
  BY DEF AccountInv, Owned
<1> HIDE DEF Current
<1>8. \A work \in threads' : work.id[1] = work.from /\
        (work.id[1] <= round' /\ (work.id[1] = round' /\ pending_tool_calls' /= <<>> => work.id[2] <= tool_idx'))
  BY <1>2, <1>3
<1>9. \A j \in DOMAIN bash_jobs' : bash_jobs'[j].call /= None =>
        /\ bash_jobs'[j].call[1] = bash_jobs'[j].from /\ bash_jobs'[j].call[1] <= round'
        /\ bash_jobs'[j].call[1] = round' /\ pending_tool_calls' /= <<>> => bash_jobs'[j].call[2] <= tool_idx'
  BY <1>2, <1>5
<1>10. \A i \in DOMAIN subagents' : subagents'[i].call /= None =>
        /\ subagents'[i].call[1] = subagents'[i].from /\ subagents'[i].call[1] <= round'
        /\ subagents'[i].call[1] = round' /\ pending_tool_calls' /= <<>> => subagents'[i].call[2] <= tool_idx'
  BY <1>2, <1>6
<1> QED
  BY <1>4, <1>7, <1>8, <1>9, <1>10 DEF Owned, HandedOut

\* ... and no call gets a second worker.
LEMMA OneWorkerWalk ==
    ASSUME PhaseInv, AccountInv, NativeIds, tool_idx < Len(pending_tool_calls),
           tool_idx' = tool_idx + 1, UNCHANGED <<pending_tool_calls, round>>,
           \/ UNCHANGED <<bash_jobs, subagents>> /\ threads' \in {threads, threads \cup {WorkFor(Current)}}
           \/ /\ UNCHANGED <<subagents, threads>>
              /\ \E c \in {None, Current.id} : bash_jobs' = Append(bash_jobs,
                   [call |-> c, from |-> round, status |-> "running", suppress |-> FALSE])
           \/ /\ UNCHANGED <<bash_jobs, threads>>
              /\ \E c \in {None, Current.id}, d \in BOOLEAN : subagents' = Append(subagents, NewAgent(c, d))
    PROVE  OneWorkerPerCall'
<1>1. /\ Current.id \in Id /\ Current.id /= None
      /\ WorkFor(Current).id = Current.id
      /\ \A id \in Id : HandedOut(id) => id /= Current.id
  BY AccountWalk DEF WorkFor
<1>2. /\ \A work \in threads : work.id /= Current.id /\ work.id /= None
      /\ \A j \in DOMAIN bash_jobs : bash_jobs[j].call /= Current.id
      /\ \A i \in DOMAIN subagents : subagents[i].call /= Current.id
  BY <1>1, OutIds, NoneIsNoId
<1>3. /\ bash_jobs \in Seq(BashJob) /\ subagents \in Seq(SubAgent)
  BY DEF PhaseInv, TypeOK
<1>4. /\ \A i, j \in DOMAIN subagents : subagents[i].call = subagents[j].call =>
            i = j \/ subagents[i].call = None
      /\ \A i, j \in DOMAIN bash_jobs : bash_jobs[i].call = bash_jobs[j].call =>
            i = j \/ bash_jobs[i].call = None
      /\ \A j \in DOMAIN bash_jobs, work \in threads : bash_jobs[j].call /= work.id
  BY DEF AccountInv, OneWorkerPerCall
<1>5. CASE UNCHANGED <<bash_jobs, subagents>> /\ threads' \in {threads, threads \cup {WorkFor(Current)}}
  BY <1>1, <1>2, <1>4, <1>5 DEF OneWorkerPerCall
<1>6. ASSUME UNCHANGED <<subagents, threads>>, NEW c \in {None, Current.id},
             bash_jobs' = Append(bash_jobs, [call |-> c, from |-> round, status |-> "running", suppress |-> FALSE])
      PROVE  OneWorkerPerCall'
  <2>1. \A j \in DOMAIN bash_jobs' : IF j \in DOMAIN bash_jobs THEN bash_jobs'[j] = bash_jobs[j]
                                     ELSE j = Len(bash_jobs) + 1 /\ bash_jobs'[j].call = c
    BY <1>3, <1>6
  <2>2. \A i, j \in DOMAIN bash_jobs' : bash_jobs'[i].call = bash_jobs'[j].call =>
            i = j \/ bash_jobs'[i].call = None
    BY <1>2, <1>4, <2>1
  <2>3. \A j \in DOMAIN bash_jobs', work \in threads' : bash_jobs'[j].call /= work.id
    BY <1>2, <1>4, <1>6, <2>1
  <2> QED
    BY <1>4, <1>6, <2>2, <2>3 DEF OneWorkerPerCall
<1>7. ASSUME UNCHANGED <<bash_jobs, threads>>, NEW c \in {None, Current.id}, NEW d \in BOOLEAN,
             subagents' = Append(subagents, NewAgent(c, d))
      PROVE  OneWorkerPerCall'
  <2>1. \A i \in DOMAIN subagents' : IF i \in DOMAIN subagents THEN subagents'[i] = subagents[i]
                                     ELSE i = Len(subagents) + 1 /\ subagents'[i].call = c
    BY <1>3, <1>7 DEF NewAgent
  <2>2. \A i, j \in DOMAIN subagents' : subagents'[i].call = subagents'[j].call =>
            i = j \/ subagents'[i].call = None
    BY <1>2, <1>4, <2>1
  <2> QED
    BY <1>4, <1>7, <2>2 DEF OneWorkerPerCall
<1> QED
  BY <1>5, <1>6, <1>7

\* The current call is put in one of the places RoundAccounting names.
LEMMA AccountingWalk ==
    ASSUME PhaseInv, AccountInv, NativeIds, tool_idx < Len(pending_tool_calls),
           tool_idx' = tool_idx + 1, UNCHANGED <<pending_tool_calls, round>>,
           \/ /\ tool_results' = Append(tool_results, WorkFor(Current))
              /\ UNCHANGED <<pending_tool_tasks, pending_subagent_calls>>
           \/ /\ pending_tool_tasks' = pending_tool_tasks \cup {Current.id}
              /\ UNCHANGED <<tool_results, pending_subagent_calls>>
           \/ /\ pending_subagent_calls' = pending_subagent_calls \cup {Current.id}
              /\ UNCHANGED <<tool_results, pending_tool_tasks>>
    PROVE  RoundAccounting'
<1>1. /\ Current.id \notin WalkedIds /\ WalkedIds' = WalkedIds \cup {Current.id}
      /\ WorkFor(Current).id = Current.id
  BY AccountWalk
<1>2. /\ WalkedIds = AnsweredIds \cup pending_tool_tasks \cup pending_subagent_calls
      /\ AnsweredIds \cap (pending_tool_tasks \cup pending_subagent_calls) = {}
      /\ pending_tool_tasks \cap pending_subagent_calls = {}
      /\ \A k, l \in DOMAIN tool_results : tool_results[k].id = tool_results[l].id => k = l
  BY DEF AccountInv, RoundAccounting
<1>3. tool_results \in Seq(Work)
  BY DEF PhaseInv, TypeOK
<1>4. CASE /\ tool_results' = Append(tool_results, WorkFor(Current))
           /\ UNCHANGED <<pending_tool_tasks, pending_subagent_calls>>
  <2>1. \A k \in DOMAIN tool_results' : IF k \in DOMAIN tool_results THEN tool_results'[k] = tool_results[k]
                                       ELSE k = Len(tool_results) + 1 /\ tool_results'[k].id = Current.id
    BY <1>1, <1>3, <1>4
  <2>2. DOMAIN tool_results' = DOMAIN tool_results \cup {Len(tool_results) + 1}
        /\ Len(tool_results) + 1 \notin DOMAIN tool_results
    BY <1>3, <1>4
  <2>3. AnsweredIds' = AnsweredIds \cup {Current.id}
    BY <2>1, <2>2 DEF AnsweredIds
  <2>4. \A k \in DOMAIN tool_results : tool_results[k].id \in WalkedIds
    BY <1>2 DEF AnsweredIds
  <2>5. \A k, l \in DOMAIN tool_results' : tool_results'[k].id = tool_results'[l].id => k = l
    BY <1>1, <1>2, <2>1, <2>4
  <2> QED
    BY <1>1, <1>2, <1>4, <2>3, <2>5 DEF RoundAccounting
<1>5. CASE UNCHANGED tool_results
  BY <1>1, <1>2, <1>5 DEF RoundAccounting, AnsweredIds
<1> QED
  BY <1>4, <1>5

\* A result that is waited for is folded: its id moves.
LEMMA AccountingFold ==
    ASSUME PhaseInv, AccountInv, NEW work \in Work, work.id \in pending_tool_tasks \cup pending_subagent_calls,
           tool_results' = Append(tool_results, work), UNCHANGED <<pending_tool_calls, tool_idx>>,
           pending_tool_tasks' = pending_tool_tasks \ {work.id},
           pending_subagent_calls' = pending_subagent_calls \ {work.id}
    PROVE  RoundAccounting'
<1>1. WalkedIds' = WalkedIds
  BY DEF WalkedIds
<1>2. /\ WalkedIds = AnsweredIds \cup pending_tool_tasks \cup pending_subagent_calls
      /\ AnsweredIds \cap (pending_tool_tasks \cup pending_subagent_calls) = {}
      /\ pending_tool_tasks \cap pending_subagent_calls = {}
      /\ \A k, l \in DOMAIN tool_results : tool_results[k].id = tool_results[l].id => k = l
  BY DEF AccountInv, RoundAccounting
<1>3. tool_results \in Seq(Work)
  BY DEF PhaseInv, TypeOK
<1>4. \A k \in DOMAIN tool_results' : IF k \in DOMAIN tool_results THEN tool_results'[k] = tool_results[k]
                                     ELSE k = Len(tool_results) + 1 /\ tool_results'[k].id = work.id
  BY <1>3
<1>5. DOMAIN tool_results' = DOMAIN tool_results \cup {Len(tool_results) + 1}
      /\ Len(tool_results) + 1 \notin DOMAIN tool_results
  BY <1>3
<1>6. AnsweredIds' = AnsweredIds \cup {work.id}
  BY <1>4, <1>5 DEF AnsweredIds
<1>7. \A k \in DOMAIN tool_results : tool_results[k].id \in AnsweredIds
  BY DEF AnsweredIds
<1>8. \A k, l \in DOMAIN tool_results' : tool_results'[k].id = tool_results'[l].id => k = l
  BY <1>2, <1>4, <1>7
<1> QED
  BY <1>1, <1>2, <1>6, <1>8 DEF RoundAccounting

\* What a handler that only folds leaves alone.
FoldFrame == UNCHANGED <<pending_tool_calls, tool_idx, round, stream, waiting, walking, awaiting_approval,
                         awaiting_classify, pending_classify_verdict, classifiers>>

\* A handler that only folds opens no round and enters no loop.
LEMMA FoldQuiet ==
    ASSUME AccountInv, FoldFrame, pending_tool_tasks' \subseteq pending_tool_tasks,
           pending_subagent_calls' \subseteq pending_subagent_calls,
           pending_tool_tasks = {} /\ pending_subagent_calls = {} => UNCHANGED tool_results
    PROVE  Numbered' /\ Quiet' /\ TasksStopTheLoop'
BY DEF AccountInv, FoldFrame, Numbered, Quiet, TasksStopTheLoop

\* A deferred tool's result is drained.
LEMMA FoldTaskAccount ==
    ASSUME PhaseInv, AccountInv, NEW work \in threads, FoldTask(work)
    PROVE  AccountInv'
<1>1. /\ FoldFrame /\ threads' = threads \ {work} /\ FoldIfPending(work)
      /\ UNCHANGED <<bash_jobs, subagents, pending_subagent_calls>>
  BY DEF FoldTask, FoldFrame
<1>2. work \in Work /\ work.id[1] = work.from
  BY DEF PhaseInv, TypeOK, AccountInv, Owned
<1>3. /\ pending_tool_tasks' \subseteq pending_tool_tasks
      /\ \A id \in pending_tool_tasks \ pending_tool_tasks' : id = work.id
      /\ pending_tool_tasks = {} => UNCHANGED tool_results
      /\ tool_results' \in {tool_results, Append(tool_results, work)}
  BY <1>1 DEF FoldIfPending
<1>4. Numbered' /\ Quiet' /\ TasksStopTheLoop'
  BY <1>1, <1>3, FoldQuiet
<1>5. OneWorkerPerCall'
  BY <1>1 DEF AccountInv, OneWorkerPerCall
<1>6. RunningIsAwaited'
  <2>1. \A j \in DOMAIN bash_jobs : bash_jobs[j].call /= work.id
    BY DEF AccountInv, OneWorkerPerCall
  <2> QED
    BY <1>1, <1>3, <2>1 DEF AccountInv, RunningIsAwaited
<1>7. Owned'
  <2>1. tool_results \in Seq(Work)
    BY DEF PhaseInv, TypeOK
  <2>2. \A k \in DOMAIN tool_results' : tool_results'[k].id[1] = tool_results'[k].from
    BY <1>2, <1>3, <2>1 DEF AccountInv, Owned
  <2> QED
    BY <1>1, <2>2 DEF AccountInv, Owned, HandedOut, FoldFrame
<1>8. RoundAccounting'
  <2>1. CASE work.id \in pending_tool_tasks
    <3>1. pending_subagent_calls = pending_subagent_calls \ {work.id}
      BY <2>1 DEF AccountInv, RoundAccounting
    <3> QED
      BY <1>1, <1>2, <2>1, <3>1, AccountingFold DEF FoldIfPending, FoldFrame
  <2>2. CASE work.id \notin pending_tool_tasks
    BY <1>1, <2>2 DEF FoldIfPending, FoldFrame, AccountInv, RoundAccounting, WalkedIds, AnsweredIds
  <2> QED
    BY <2>1, <2>2
<1> QED
  BY <1>4, <1>5, <1>6, <1>7, <1>8 DEF AccountInv

\* A job's record changes where its completion or a Ctrl+B unties it.
LEMMA JobUntied ==
    ASSUME PhaseInv, AccountInv, NEW j \in DOMAIN bash_jobs,
           FoldFrame, UNCHANGED <<threads, subagents, pending_subagent_calls>>,
           NEW status, status /= "running" \/ bash_jobs[j].status = "running",
           bash_jobs' = [bash_jobs EXCEPT ![j] = [bash_jobs[j] EXCEPT !.status = status, !.call = None]],
           \/ UNCHANGED <<pending_tool_tasks, tool_results>>
           \/ /\ bash_jobs[j].call \in pending_tool_tasks
              /\ pending_tool_tasks' = pending_tool_tasks \ {bash_jobs[j].call}
              /\ tool_results' = Append(tool_results, [id |-> bash_jobs[j].call, from |-> bash_jobs[j].from])
    PROVE  AccountInv'
<1> DEFINE work == [id |-> bash_jobs[j].call, from |-> bash_jobs[j].from]
<1>1. /\ DOMAIN bash_jobs' = DOMAIN bash_jobs
      /\ \A i \in DOMAIN bash_jobs : i /= j => bash_jobs'[i] = bash_jobs[i]
      /\ bash_jobs'[j].call = None
  <2>1. bash_jobs[j] \in BashJob
    BY DEF PhaseInv, TypeOK
  <2> QED
    BY <2>1 DEF BashJob
<1>2. bash_jobs[j].call \in pending_tool_tasks => work \in Work /\ work.id[1] = work.from
  <2>1. bash_jobs[j] \in BashJob /\ pending_tool_tasks \subseteq Id
    BY DEF PhaseInv, TypeOK
  <2> QED
    BY <2>1, NoneIsNoId DEF BashJob, Work, AccountInv, Owned
<1>3. /\ pending_tool_tasks' \subseteq pending_tool_tasks
      /\ \A id \in pending_tool_tasks \ pending_tool_tasks' : id = bash_jobs[j].call
      /\ pending_tool_tasks = {} => UNCHANGED tool_results
  OBVIOUS
<1>4. Numbered' /\ Quiet' /\ TasksStopTheLoop'
  BY <1>3, FoldQuiet
<1>5. OneWorkerPerCall'
  <2>1. \A k \in DOMAIN bash_jobs' : bash_jobs'[k].call = None \/ (k /= j /\ bash_jobs'[k] = bash_jobs[k])
    BY <1>1
  <2>2. \A w \in threads : w.id /= None
    BY OutIds, NoneIsNoId
  <2> QED
    BY <1>1, <2>1, <2>2 DEF AccountInv, OneWorkerPerCall
<1>6. RunningIsAwaited'
  <2>1. ASSUME NEW k \in DOMAIN bash_jobs', bash_jobs'[k].status = "running", bash_jobs'[k].call /= None
        PROVE  bash_jobs'[k].call \in pending_tool_tasks'
    <3>1. k /= j /\ bash_jobs'[k] = bash_jobs[k] /\ k \in DOMAIN bash_jobs
      BY <1>1, <2>1
    <3>2. bash_jobs[k].call \in pending_tool_tasks /\ bash_jobs[k].call /= bash_jobs[j].call
      BY <2>1, <3>1 DEF AccountInv, RunningIsAwaited, OneWorkerPerCall
    <3> QED
      BY <1>3, <3>1, <3>2
  <2> QED
    BY <2>1 DEF AccountInv, RunningIsAwaited
<1>7. Owned'
  <2>1. tool_results \in Seq(Work)
    BY DEF PhaseInv, TypeOK
  <2>2. tool_results' \in {tool_results, Append(tool_results, work)}
    OBVIOUS
  <2>3. \A k \in DOMAIN tool_results' : tool_results'[k].id[1] = tool_results'[k].from
    <3>1. CASE UNCHANGED tool_results
      BY <3>1 DEF AccountInv, Owned
    <3>2. CASE bash_jobs[j].call \in pending_tool_tasks /\ tool_results' = Append(tool_results, work)
      <4> HIDE DEF work
      <4> QED BY <1>2, <2>1, <3>2 DEF AccountInv, Owned
    <3> QED BY <3>1, <3>2
  <2>4. \A k \in DOMAIN bash_jobs' : bash_jobs'[k].call = None \/ bash_jobs'[k] = bash_jobs[k]
    BY <1>1
  <2> QED
    BY <1>1, <2>3, <2>4 DEF AccountInv, Owned, HandedOut, FoldFrame
<1>8. RoundAccounting'
  <2>1. CASE UNCHANGED <<pending_tool_tasks, tool_results>>
    BY <2>1 DEF FoldFrame, AccountInv, RoundAccounting, WalkedIds, AnsweredIds
  <2>2. CASE /\ work.id \in pending_tool_tasks
             /\ pending_tool_tasks' = pending_tool_tasks \ {work.id}
             /\ tool_results' = Append(tool_results, work)
    <3> HIDE DEF work
    <3>0. work \in Work
      BY <1>2, <2>2 DEF work
    <3>1. pending_subagent_calls = pending_subagent_calls \ {work.id}
      BY <2>2 DEF AccountInv, RoundAccounting
    <3> QED
      BY <2>2, <3>0, <3>1, AccountingFold DEF FoldFrame
  <2> QED
    BY <2>1, <2>2
<1> QED
  BY <1>4, <1>5, <1>6, <1>7, <1>8 DEF AccountInv

\* The completion of a shell job is drained.
LEMMA DrainBashAccount ==
    ASSUME PhaseInv, AccountInv, NEW j \in DOMAIN bash_jobs, DrainBash(j)
    PROVE  AccountInv'
<1>1. /\ FoldFrame /\ UNCHANGED <<threads, subagents, pending_subagent_calls>>
      /\ bash_jobs' = [bash_jobs EXCEPT ![j] = [bash_jobs[j] EXCEPT !.status = "reported", !.call = None]]
      /\ IF bash_jobs[j].call /= None
         THEN FoldIfPending([id |-> bash_jobs[j].call, from |-> bash_jobs[j].from])
         ELSE UNCHANGED <<pending_tool_tasks, tool_results>>
  BY DEF DrainBash, FoldFrame
<1>2. \/ UNCHANGED <<pending_tool_tasks, tool_results>>
      \/ /\ bash_jobs[j].call \in pending_tool_tasks
         /\ pending_tool_tasks' = pending_tool_tasks \ {bash_jobs[j].call}
         /\ tool_results' = Append(tool_results, [id |-> bash_jobs[j].call, from |-> bash_jobs[j].from])
  BY <1>1 DEF FoldIfPending
<1>3. ASSUME NEW status, status = "reported" PROVE status /= "running"
  BY <1>3
<1> QED
  BY <1>1, <1>2, <1>3, JobUntied

\* A shell job exits, and nothing is answered yet.
LEMMA BashExitsAccount ==
    ASSUME PhaseInv, AccountInv, NEW j \in DOMAIN bash_jobs, BashExits(j)
    PROVE  AccountInv'
<1>1. /\ FoldFrame /\ UNCHANGED <<threads, subagents, pending_subagent_calls, pending_tool_tasks, tool_results>>
      /\ bash_jobs' = [bash_jobs EXCEPT ![j] = [bash_jobs[j] EXCEPT !.status = "exited"]]
  BY DEF BashExits, FoldFrame
<1>2. /\ DOMAIN bash_jobs' = DOMAIN bash_jobs
      /\ \A i \in DOMAIN bash_jobs : /\ bash_jobs'[i].call = bash_jobs[i].call /\ bash_jobs'[i].from = bash_jobs[i].from
                                     /\ bash_jobs'[i].status = "running" => bash_jobs[i].status = "running"
  <2>1. bash_jobs[j] \in BashJob
    BY DEF PhaseInv, TypeOK
  <2> QED
    BY <1>1, <2>1 DEF BashJob
<1>3. Numbered' /\ Quiet' /\ TasksStopTheLoop'
  BY <1>1, FoldQuiet
<1>4. Owned'
  BY <1>1, <1>2 DEF FoldFrame, AccountInv, Owned, HandedOut
<1>5. OneWorkerPerCall'
  BY <1>1, <1>2 DEF AccountInv, OneWorkerPerCall
<1>6. RunningIsAwaited'
  BY <1>1, <1>2 DEF AccountInv, RunningIsAwaited
<1>7. RoundAccounting'
  BY <1>1 DEF FoldFrame, AccountInv, RoundAccounting, WalkedIds, AnsweredIds
<1> QED
  BY <1>3, <1>4, <1>5, <1>6, <1>7 DEF AccountInv

\* Ctrl+B on a shell job.
LEMMA BackgroundBashAccount ==
    ASSUME PhaseInv, AccountInv, NEW j \in DOMAIN bash_jobs, BackgroundBash(j)
    PROVE  AccountInv'
<1>1. /\ FoldFrame /\ UNCHANGED <<threads, subagents, pending_subagent_calls>>
      /\ bash_jobs[j].status = "running" /\ bash_jobs[j].call /= None
      /\ bash_jobs' = [bash_jobs EXCEPT ![j] = [bash_jobs[j] EXCEPT !.call = None]]
      /\ pending_tool_tasks' = pending_tool_tasks \ {bash_jobs[j].call}
      /\ tool_results' = Append(tool_results, [id |-> bash_jobs[j].call, from |-> bash_jobs[j].from])
  BY DEF BackgroundBash, FoldFrame
<1>2. bash_jobs[j].call \in pending_tool_tasks
  BY <1>1 DEF AccountInv, RunningIsAwaited
<1>3. bash_jobs' = [bash_jobs EXCEPT ![j] = [bash_jobs[j] EXCEPT !.status = "running", !.call = None]]
  <2>1. bash_jobs[j] \in BashJob
    BY DEF PhaseInv, TypeOK
  <2>2. [bash_jobs[j] EXCEPT !.call = None] = [bash_jobs[j] EXCEPT !.status = "running", !.call = None]
    BY <1>1, <2>1 DEF BashJob
  <2> QED
    BY <1>1, <2>2
<1> QED
  BY <1>1, <1>2, <1>3, JobUntied

\* Ctrl+B on a sub-agent.
LEMMA BackgroundSubagentAccount ==
    ASSUME PhaseInv, AccountInv, NEW i \in DOMAIN subagents, BackgroundSubagent(i)
    PROVE  AccountInv'
<1> DEFINE work == [id |-> subagents[i].call, from |-> subagents[i].from]
<1>1. /\ FoldFrame /\ UNCHANGED <<threads, bash_jobs, pending_tool_tasks>>
      /\ subagents[i].status = "running" /\ subagents[i].call /= None
      /\ subagents' = [subagents EXCEPT ![i] = [subagents[i] EXCEPT !.call = None, !.detached = TRUE]]
      /\ pending_subagent_calls' = pending_subagent_calls \ {work.id}
      /\ tool_results' = Append(tool_results, work)
  BY DEF BackgroundSubagent, FoldFrame
<1>2. work.id \in pending_subagent_calls /\ work.id = subagents[i].call
  BY <1>1 DEF AccountInv, RunningIsAwaited
<1>3. /\ DOMAIN subagents' = DOMAIN subagents
      /\ \A k \in DOMAIN subagents : k /= i => subagents'[k] = subagents[k]
      /\ subagents'[i].call = None
  <2>1. subagents[i] \in SubAgent
    BY DEF PhaseInv, TypeOK
  <2> QED
    BY <1>1, <2>1 DEF SubAgent
<1>4. work \in Work /\ work.id[1] = work.from
  <2>1. subagents[i] \in SubAgent /\ pending_subagent_calls \subseteq Id /\ subagents[i].from > 0
    BY <1>1 DEF PhaseInv, TypeOK, Asked
  <2>2. subagents[i].from \in 1..MaxRounds
    BY <2>1, ConstantsAssumption DEF SubAgent
  <2> QED
    BY <1>1, <1>2, <2>1, <2>2 DEF Work, AccountInv, Owned
<1>5. Numbered' /\ Quiet' /\ TasksStopTheLoop'
  BY <1>1, <1>2, FoldQuiet
<1>6. OneWorkerPerCall'
  BY <1>1, <1>3 DEF AccountInv, OneWorkerPerCall
<1>7. RunningIsAwaited'
  <2>1. ASSUME NEW k \in DOMAIN subagents', subagents'[k].call /= None
        PROVE  /\ ~subagents'[k].detached
               /\ subagents'[k].status = "running" => subagents'[k].call \in pending_subagent_calls'
    <3>1. k /= i /\ k \in DOMAIN subagents /\ subagents'[k] = subagents[k]
      BY <1>3, <2>1
    <3>2. subagents[k].call /= subagents[i].call
      BY <2>1, <3>1 DEF AccountInv, OneWorkerPerCall
    <3> QED
      BY <1>1, <2>1, <3>1, <3>2 DEF AccountInv, RunningIsAwaited
  <2> QED
    BY <1>1, <2>1 DEF AccountInv, RunningIsAwaited
<1> HIDE DEF work
<1>8. Owned'
  <2>1. tool_results \in Seq(Work)
    BY DEF PhaseInv, TypeOK
  <2>2. \A k \in DOMAIN tool_results' : tool_results'[k].id[1] = tool_results'[k].from
    BY <1>1, <1>4, <2>1 DEF AccountInv, Owned
  <2>3. \A k \in DOMAIN subagents' : subagents'[k].call = None \/ subagents'[k] = subagents[k]
    BY <1>3
  <2> QED
    BY <1>1, <1>3, <2>2, <2>3 DEF AccountInv, Owned, HandedOut, FoldFrame
<1>9. RoundAccounting'
  <2>1. pending_tool_tasks' = pending_tool_tasks \ {work.id}
    BY <1>1, <1>2 DEF AccountInv, RoundAccounting
  <2> QED
    BY <1>1, <1>2, <1>4, <2>1, AccountingFold DEF FoldFrame
<1> QED
  BY <1>5, <1>6, <1>7, <1>8, <1>9 DEF AccountInv

\* The elements of a concatenation.
LEMMA ConcatFacts ==
    ASSUME NEW S, NEW s \in Seq(S), NEW T, NEW t \in Seq(T)
    PROVE  /\ Len(s) \in Nat /\ Len(t) \in Nat /\ DOMAIN s = 1..Len(s) /\ DOMAIN t = 1..Len(t)
           /\ DOMAIN (s \o t) = 1..(Len(s) + Len(t))
           /\ \A k \in 1..Len(s) : (s \o t)[k] = s[k]
           /\ \A k \in 1..Len(t) : (s \o t)[k + Len(s)] = t[k]
OBVIOUS

\* The reports a drain delivers answer calls of the round, each once.
LEMMA DrainAccounting ==
    ASSUME PhaseInv, AccountInv, NEW subs \in Seq(SubAgent), DrainSubagents(subs),
           \A i, j \in DOMAIN subs : subs[i].call = subs[j].call => i = j \/ subs[i].call = None
    PROVE  RoundAccounting'
<1> DEFINE Reported == {subs[i].call : i \in Deliverable(subs)}
           n == Cardinality(Deliverable(subs))
<1>1. PICK order \in [1..n -> Deliverable(subs)] :
         /\ \A k, l \in DOMAIN order : k < l => order[k] < order[l]
         /\ {order[k] : k \in DOMAIN order} = Deliverable(subs)
         /\ tool_results' = tool_results \o
              [k \in DOMAIN order |-> [id |-> subs[order[k]].call, from |-> subs[order[k]].from]]
  BY DEF DrainSubagents
<1>2. n \in Nat /\ Deliverable(subs) \subseteq DOMAIN subs /\ DOMAIN subs = 1..Len(subs) /\ Len(subs) \in Nat
  BY IndicesFinite DEF Deliverable
<1>3. \A i \in Deliverable(subs) : subs[i].call \in pending_subagent_calls /\ subs[i].call /= None
  BY NoneIsNoId DEF Deliverable, PhaseInv, TypeOK
<1>4. /\ WalkedIds = AnsweredIds \cup pending_tool_tasks \cup pending_subagent_calls
      /\ AnsweredIds \cap (pending_tool_tasks \cup pending_subagent_calls) = {}
      /\ pending_tool_tasks \cap pending_subagent_calls = {}
      /\ \A k, l \in DOMAIN tool_results : tool_results[k].id = tool_results[l].id => k = l
  BY DEF AccountInv, RoundAccounting
<1>5. /\ UNCHANGED <<pending_tool_calls, tool_idx, pending_tool_tasks>> /\ WalkedIds' = WalkedIds
      /\ pending_subagent_calls' = pending_subagent_calls \ Reported
  BY DEF DrainSubagents, WalkedIds
<1> DEFINE new == [k \in 1..n |-> [id |-> subs[order[k]].call, from |-> subs[order[k]].from]]
<1>6. tool_results' = tool_results \o new /\ new \in Seq([id : pending_subagent_calls, from : Nat])
      /\ Len(new) = n
  <2>1. tool_results' = tool_results \o new
    BY <1>1
  <2>2. \A k \in 1..n : order[k] \in DOMAIN subs /\ subs[order[k]] \in SubAgent /\ order[k] \in Deliverable(subs)
    BY <1>2
  <2>3. \A k \in 1..n : subs[order[k]].from \in Nat
    BY <2>2, ConstantsAssumption DEF SubAgent
  <2>4. new \in [1..n -> [id : pending_subagent_calls, from : Nat]]
    BY <1>3, <2>2, <2>3
  <2>5. new \in Seq([id : pending_subagent_calls, from : Nat])
    BY <1>2, <2>4, FunctionIsSeq
  <2>6. Len(new) = n
    BY <1>2, <2>4, <2>5
  <2> QED
    BY <2>1, <2>5, <2>6
<1>7. \A k \in 1..n : new[k].id = subs[order[k]].call /\ new[k].id \in Reported
  OBVIOUS
<1>8. \A k, l \in 1..n : new[k].id = new[l].id => k = l
  <2>1. \A k, l \in 1..n : order[k] = order[l] => k = l
    <3>1. \A k, l \in 1..n : k < l => order[k] /= order[l]
      BY <1>1, <1>2
    <3> QED
      BY <1>2, <3>1
  <2> QED
    BY <1>2, <1>3, <1>7, <2>1
<1>9. Reported = {new[k].id : k \in 1..n}
  BY <1>1
<1> HIDE DEF new, Reported, n
<1>10. tool_results \in Seq(Work) /\ Len(tool_results) \in Nat
  BY DEF PhaseInv, TypeOK
<1> DEFINE m == Len(tool_results)
<1>11. /\ m \in Nat /\ DOMAIN tool_results = 1..m /\ DOMAIN tool_results' = 1..(m + n)
       /\ \A k \in 1..m : tool_results'[k] = tool_results[k]
       /\ \A k \in 1..n : tool_results'[k + m] = new[k]
  BY <1>6, <1>10, ConcatFacts
<1> HIDE DEF m
<1>12. \A k \in 1..m : tool_results[k].id \in AnsweredIds
  BY <1>11 DEF AnsweredIds
<1>13. \A k \in 1..(m + n) : k \in 1..m \/ (k \notin 1..m /\ k - m \in 1..n /\ k = (k - m) + m)
  BY <1>2, <1>11
<1>14. \A k \in 1..(m + n) : k \in 1..m \/ (k \notin 1..m /\ k - m \in 1..n /\ tool_results'[k] = new[k - m])
  BY <1>11, <1>13
<1>15. AnsweredIds' = AnsweredIds \cup Reported
  <2>1. AnsweredIds' \subseteq AnsweredIds \cup Reported
    <3>1. ASSUME NEW k \in 1..(m + n) PROVE tool_results'[k].id \in AnsweredIds \cup Reported
      BY <1>7, <1>11, <1>12, <1>14
    <3> QED BY <1>11, <3>1 DEF AnsweredIds
  <2>2. AnsweredIds \subseteq AnsweredIds'
    <3>1. \A k \in DOMAIN tool_results : k \in DOMAIN tool_results' /\ tool_results'[k] = tool_results[k]
      BY <1>2, <1>11
    <3> QED BY <3>1 DEF AnsweredIds
  <2>3. Reported \subseteq AnsweredIds'
    <3>1. ASSUME NEW k \in 1..n PROVE new[k].id \in AnsweredIds'
      <4>1. k + m \in DOMAIN tool_results' /\ tool_results'[k + m] = new[k]
        BY <1>2, <1>11
      <4> QED BY <4>1 DEF AnsweredIds
    <3> QED BY <1>9, <3>1
  <2> QED BY <2>1, <2>2, <2>3
<1>16. Reported \subseteq pending_subagent_calls
  BY <1>3 DEF Reported
<1>17. \A k, l \in DOMAIN tool_results' : tool_results'[k].id = tool_results'[l].id => k = l
  <2> SUFFICES ASSUME NEW k \in DOMAIN tool_results', NEW l \in DOMAIN tool_results',
                      tool_results'[k].id = tool_results'[l].id
               PROVE  k = l
    OBVIOUS
  <2>1. \A i \in 1..(m + n) : IF i \in 1..m THEN tool_results'[i].id \in AnsweredIds
                              ELSE tool_results'[i].id \in pending_subagent_calls
    BY <1>7, <1>11, <1>12, <1>16, <1>14
  <2>2. k \in 1..m <=> l \in 1..m
    BY <1>4, <1>11, <2>1
  <2>3. CASE k \in 1..m
    BY <1>4, <1>11, <2>2, <2>3
  <2>4. CASE k \notin 1..m
    <3>1. /\ k - m \in 1..n /\ l - m \in 1..n
          /\ new[k - m].id = new[l - m].id
      BY <1>11, <1>14, <2>2, <2>4
    <3>2. k - m = l - m
      BY <1>8, <3>1
    <3> QED
      BY <1>2, <1>11, <3>2
  <2> QED BY <2>3, <2>4
<1> QED
  BY <1>4, <1>5, <1>15, <1>16, <1>17 DEF RoundAccounting

\* drain_subagents over records that differ from the session's in status only.
LEMMA DrainAccount ==
    ASSUME PhaseInv, AccountInv, NEW subs \in Seq(SubAgent), DrainSubagents(subs),
           DOMAIN subs = DOMAIN subagents,
           \A i \in DOMAIN subs :
             /\ subs[i].call = subagents[i].call /\ subs[i].from = subagents[i].from
             /\ subs[i].detached = subagents[i].detached
             /\ subs[i].status = "running" => subagents[i].status = "running"
    PROVE  AccountInv'
<1>1. /\ FoldFrame /\ UNCHANGED <<threads, bash_jobs, pending_tool_tasks>>
      /\ pending_subagent_calls' = pending_subagent_calls \ {subs[i].call : i \in Deliverable(subs)}
  BY DEF DrainSubagents, FoldFrame
<1>2. \A i, j \in DOMAIN subs : subs[i].call = subs[j].call => i = j \/ subs[i].call = None
  BY DEF AccountInv, OneWorkerPerCall
<1>3. /\ DOMAIN subagents' = DOMAIN subs
      /\ \A i \in DOMAIN subs :
           /\ subagents'[i].call = subs[i].call /\ subagents'[i].from = subs[i].from
           /\ subagents'[i].detached = subs[i].detached /\ subagents'[i].status = subs[i].status
  <2>1. \A i \in DOMAIN subs : subs[i] \in SubAgent
    OBVIOUS
  <2> QED
    BY <2>1 DEF DrainSubagents, SubAgent
<1>4. RoundAccounting'
  BY <1>2, DrainAccounting
<1>5. \A k \in DOMAIN tool_results' : tool_results'[k].id \in AnsweredIds'
  BY DEF AnsweredIds
<1>6. Numbered' /\ TasksStopTheLoop'
  BY <1>1 DEF AccountInv, FoldFrame, Numbered, TasksStopTheLoop
<1>7. Quiet'
  <2>1. CASE ~(stream \/ ~waiting)
    BY <1>1, <2>1 DEF FoldFrame, Quiet
  <2>2. CASE stream \/ ~waiting
    <3>1. /\ pending_tool_tasks = {} /\ pending_subagent_calls = {} /\ tool_results = <<>> /\ tool_idx = 0
      BY <2>2 DEF AccountInv, Quiet, PhaseInv, Phases
    <3>2. Deliverable(subs) = {}
      BY <3>1 DEF Deliverable
    <3>3. PICK order \in [1..Cardinality(Deliverable(subs)) -> Deliverable(subs)] :
            tool_results' = tool_results \o
              [k \in DOMAIN order |-> [id |-> subs[order[k]].call, from |-> subs[order[k]].from]]
      BY DEF DrainSubagents
    <3>4. DOMAIN order = {}
      BY <3>2, FS_EmptySet
    <3>5. tool_results' = <<>> \o [k \in {} |-> [id |-> subs[order[k]].call, from |-> subs[order[k]].from]]
      BY <3>1, <3>3, <3>4
    <3>6. [k \in {} |-> [id |-> subs[order[k]].call, from |-> subs[order[k]].from]] = <<>>
      OBVIOUS
    <3>7. tool_results' = <<>>
      BY <3>5, <3>6
    <3> QED
      BY <1>1, <3>1, <3>7 DEF Quiet
  <2> QED BY <2>1, <2>2
<1>8. OneWorkerPerCall'
  BY <1>1, <1>2, <1>3 DEF AccountInv, OneWorkerPerCall
<1>9. RunningIsAwaited'
  <2>1. ASSUME NEW i \in DOMAIN subagents', subagents'[i].call /= None
        PROVE  /\ ~subagents'[i].detached
               /\ subagents'[i].status = "running" => subagents'[i].call \in pending_subagent_calls'
    <3>1. i \in DOMAIN subs /\ subagents'[i].call = subagents[i].call /\ ~subagents'[i].detached
      BY <1>3, <2>1 DEF AccountInv, RunningIsAwaited
    <3>2. ASSUME subagents'[i].status = "running" PROVE subagents'[i].call \in pending_subagent_calls'
      <4>1. subs[i].call \in pending_subagent_calls
        BY <1>3, <2>1, <3>1, <3>2 DEF AccountInv, RunningIsAwaited
      <4>2. i \notin Deliverable(subs)
        BY <1>3, <3>1, <3>2 DEF Deliverable
      <4>3. \A k \in Deliverable(subs) : subs[k].call /= subs[i].call
        BY <1>2, <1>3, <2>1, <3>1, <4>2 DEF Deliverable
      <4> QED
        BY <1>1, <1>3, <3>1, <4>1, <4>3
    <3> QED BY <3>1, <3>2
  <2> QED
    BY <1>1, <2>1 DEF AccountInv, RunningIsAwaited
<1>10. \A k \in DOMAIN tool_results' : tool_results'[k].id[1] = tool_results'[k].from
  <2>1. PICK order \in [1..Cardinality(Deliverable(subs)) -> Deliverable(subs)] :
            tool_results' = tool_results \o
              [k \in DOMAIN order |-> [id |-> subs[order[k]].call, from |-> subs[order[k]].from]]
    BY DEF DrainSubagents
  <2> DEFINE new == [k \in 1..Cardinality(Deliverable(subs)) |-> [id |-> subs[order[k]].call, from |-> subs[order[k]].from]]
             Own == {w \in [id : Id, from : Nat] : w.id[1] = w.from}
  <2>2. \A i \in Deliverable(subs) : [id |-> subs[i].call, from |-> subs[i].from] \in Own
    <3>1. ASSUME NEW i \in Deliverable(subs) PROVE [id |-> subs[i].call, from |-> subs[i].from] \in Own
      <4>1. i \in DOMAIN subs /\ subs[i] \in SubAgent /\ subs[i].call \in Id
        BY DEF Deliverable, PhaseInv, TypeOK
      <4>2. subs[i].from \in Nat
        BY <4>1, ConstantsAssumption DEF SubAgent
      <4>3. subs[i].call[1] = subs[i].from
        BY <4>1, NoneIsNoId DEF AccountInv, Owned
      <4> QED BY <4>1, <4>2, <4>3
    <3> QED BY <3>1
  <2>3. new \in Seq(Own)
    <3>1. new \in [1..Cardinality(Deliverable(subs)) -> Own]
      BY <2>2
    <3>2. Cardinality(Deliverable(subs)) \in Nat
      BY IndicesFinite DEF Deliverable
    <3> QED BY <3>1, <3>2, FunctionIsSeq
  <2>4. tool_results \in Seq(Own)
    <3>1. tool_results \in Seq(Work) /\ \A k \in DOMAIN tool_results : tool_results[k].id[1] = tool_results[k].from
      BY DEF PhaseInv, TypeOK, AccountInv, Owned
    <3>2. \A w \in Work : w.id[1] = w.from => w \in Own
      BY ConstantsAssumption DEF Work
    <3>3. \A k \in DOMAIN tool_results : tool_results[k] \in Own
      BY <3>1, <3>2
    <3> HIDE DEF Own
    <3> QED BY <3>1, <3>3
  <2>5. tool_results' = tool_results \o new
    BY <2>1
  <2> HIDE DEF new
  <2>6. tool_results' \in Seq(Own)
    BY <2>3, <2>4, <2>5, ConcatType
  <2>7. \A k \in DOMAIN tool_results' : tool_results'[k] \in Own
    <3> HIDE DEF Own
    <3> QED BY <2>6
  <2> QED BY <2>7
<1>11. Owned'
  BY <1>1, <1>3, <1>10 DEF AccountInv, Owned, HandedOut, FoldFrame
<1> QED
  BY <1>4, <1>6, <1>7, <1>8, <1>9, <1>11 DEF AccountInv

-----------------------------------------------------------------------------

\* The elements of a list with one more.
LEMMA AppendFacts ==
    ASSUME NEW S, NEW s \in Seq(S), NEW e
    PROVE  /\ \A i \in DOMAIN s : i \in DOMAIN Append(s, e) /\ Append(s, e)[i] = s[i]
           /\ \A i \in DOMAIN Append(s, e) : i \in DOMAIN s \/ Append(s, e)[i] = e
OBVIOUS

\* A halt of a parked or blocked round leaves nothing of it behind.
LEMMA HaltAccount ==
    ASSUME PhaseInv, AccountInv, NativeIds, NEW stored, NEW calls, HaltRound(stored, calls),
           UNCHANGED offThread, round' \in Nat, round' >= round, pending_tool_tasks = {}
    PROVE  AccountInv'
<1>1. /\ ClearRound /\ KillBlockingAgents /\ pending_subagent_calls' = {}
      /\ pending_tool_tasks' = {} /\ pending_classify_verdict' = {}
  BY DEF HaltRound, AbortSubagents, ClearToolTasks, ClearClassify
<1>2. /\ DOMAIN subagents' = DOMAIN subagents
      /\ \A i \in DOMAIN subagents :
             /\ subagents'[i].call = subagents[i].call /\ subagents'[i].from = subagents[i].from
             /\ subagents'[i].detached = subagents[i].detached
             /\ subagents'[i].status = "running" => subagents'[i].call = None
  <2>1. DOMAIN subagents' = DOMAIN subagents
    BY <1>1 DEF KillBlockingAgents
  <2> QED
    BY <1>1, <2>1, KillBlockingAgentsType DEF PhaseInv, TypeOK, AccountInv, RunningIsAwaited
<1>3. \A j \in DOMAIN bash_jobs :
             bash_jobs[j].status = "running" => bash_jobs[j].call = None
  BY DEF AccountInv, RunningIsAwaited
<1> QED
  BY <1>1, <1>2, <1>3, AccountClear DEF ClearRound

\* Where nothing was waited for and the agents and the jobs are left alone.
LEMMA ResetAccount ==
    ASSUME PhaseInv, AccountInv, NativeIds, ClearRound,
           pending_tool_tasks = {}, pending_subagent_calls = {}, pending_tool_tasks' = {},
           UNCHANGED <<subagents, pending_subagent_calls, threads, bash_jobs, round>>,
           classifiers' \subseteq classifiers,
           pending_classify_verdict' \subseteq pending_classify_verdict
    PROVE  AccountInv'
<1>1. round \in Nat
  BY DEF PhaseInv, TypeOK
<1>2. /\ \A i \in DOMAIN subagents : subagents[i].status = "running" => subagents[i].call = None
      /\ \A j \in DOMAIN bash_jobs : bash_jobs[j].status = "running" => bash_jobs[j].call = None
  BY DEF AccountInv, RunningIsAwaited
<1> QED
  BY <1>1, <1>2, AccountClear DEF ClearRound

\* Every step keeps the account of the round.
LEMMA AccountStep ==
    ASSUME PhaseInv, PhaseInv', AccountInv, [Next]_vars, NativeIds, ~LateDeny
    PROVE  AccountInv'
<1>q. /\ stream \/ ~waiting => /\ tool_results = <<>> /\ tool_idx = 0
                               /\ pending_tool_tasks = {} /\ pending_subagent_calls = {}
      /\ walking \/ awaiting_approval \/ awaiting_classify => pending_tool_tasks = {}
      /\ round \in Nat /\ round' \in Nat
      /\ stream => waiting /\ ~walking /\ ~awaiting_approval /\ ~awaiting_classify
      /\ awaiting_approval => ~awaiting_classify
      /\ walking => ~awaiting_approval /\ ~awaiting_classify
  BY DEF PhaseInv, TypeOK, Phases, AccountInv, Quiet, TasksStopTheLoop
<1>s. ASSUME UNCHANGED <<pending_tool_calls, tool_idx, tool_results, pending_tool_tasks,
                         pending_subagent_calls, subagents, bash_jobs, threads, round>>,
             \A work \in classifiers' \ classifiers : work.id[1] = work.from,
             \A p \in pending_classify_verdict' \ pending_classify_verdict : p.work.id[1] = p.work.from,
             stream' \/ ~waiting' => stream \/ ~waiting,
             walking' \/ awaiting_approval' \/ awaiting_classify' => pending_tool_tasks = {}
      PROVE  AccountInv'
  <2>1. Quiet'
    BY <1>q, <1>s DEF Quiet
  <2>2. TasksStopTheLoop'
    BY <1>q, <1>s DEF TasksStopTheLoop
  <2> QED
    BY <1>s, <2>1, <2>2, AccountSame
<1>1. CASE Submit \/ Wakes
  <2>1. /\ ResetRound /\ UNCHANGED <<agentVars, offThread, round>>
        /\ ~waiting
    BY <1>1 DEF Submit, Wakes, WakeForBash, WakeForSubagent, Wake, IsWorking
  <2> QED
    BY <1>q, <2>1, ResetAccount DEF ResetRound, ClearToolTasks, ClearClassify
<1>2. CASE SubmitRefused \/ Steer \/ SetMode \/ Attach
  BY <1>q, <1>s, <1>2 DEF SubmitRefused, Steer, SetMode, Attach
<1>3. CASE Resend
  <2>1. /\ ~waiting /\ UNCHANGED <<queueVars, roundVars, awaiting_approval, classifyVars, taskVars, agentVars,
                   offThread, nudgeVars, modeVars, walking, round>>
    BY <1>3 DEF Resend
  <2> QED
    BY <1>q, <1>s, <2>1
<1>4. CASE StartTask
  <2>1. /\ FoldFrame /\ UNCHANGED <<threads, bash_jobs, pending_tool_tasks, pending_subagent_calls, tool_results>>
        /\ subagents' = Append(subagents, NewAgent(None, FALSE))
    BY <1>4 DEF StartTask, FoldFrame
  <2>2. \A i \in DOMAIN subagents' : subagents'[i].call = None \/ (i \in DOMAIN subagents /\ subagents'[i] = subagents[i])
    <3>1. subagents \in Seq(SubAgent) /\ NewAgent(None, FALSE).call = None
      BY DEF PhaseInv, TypeOK, NewAgent
    <3> QED
      BY <2>1, <3>1, AppendFacts
  <2>3. Numbered' /\ Quiet' /\ TasksStopTheLoop'
    BY <2>1, FoldQuiet
  <2>4. Owned'
    BY <2>1, <2>2 DEF FoldFrame, AccountInv, Owned, HandedOut
  <2>5. OneWorkerPerCall'
    <3>1. \A i, j \in DOMAIN subagents' : subagents'[i].call = subagents'[j].call =>
            i = j \/ subagents'[i].call = None
      BY <2>2 DEF AccountInv, OneWorkerPerCall
    <3>2. UNCHANGED <<threads, bash_jobs>>
      BY <2>1
    <3> QED
      BY <3>1, <3>2 DEF AccountInv, OneWorkerPerCall
  <2>6. RunningIsAwaited'
    BY <2>1, <2>2 DEF AccountInv, RunningIsAwaited
  <2>7. RoundAccounting'
    <3>1. UNCHANGED <<pending_tool_calls, tool_idx, tool_results, pending_tool_tasks, pending_subagent_calls>>
      BY <2>1 DEF FoldFrame
    <3> QED
      BY <3>1 DEF AccountInv, RoundAccounting, WalkedIds, AnsweredIds
  <2> QED
    BY <2>3, <2>4, <2>5, <2>6, <2>7 DEF AccountInv
<1>5. CASE Interrupt \/ InterruptRewind \/ SetModeStops
  <2>1. Cut
    BY <1>5 DEF Interrupt, InterruptRewind, SetModeStops
  <2>2. /\ ClearRound /\ KillBlockingAgents /\ KillBlockingJobs /\ pending_subagent_calls' = {}
        /\ pending_tool_tasks' = {} /\ pending_classify_verdict' = {} /\ classifiers' = {}
        /\ UNCHANGED <<threads, round>>
    BY <2>1 DEF Cut, AbortSubagents, ClearToolTasks, ClearClassify
  <2>3. DOMAIN subagents' = DOMAIN subagents /\ DOMAIN bash_jobs' = DOMAIN bash_jobs
    BY <2>2 DEF KillBlockingAgents, KillBlockingJobs
  <2>4. \A i \in DOMAIN subagents :
             /\ subagents'[i].call = subagents[i].call /\ subagents'[i].from = subagents[i].from
             /\ subagents'[i].detached = subagents[i].detached
             /\ subagents'[i].status = "running" => subagents'[i].call = None
    BY <2>2, KillBlockingAgentsType DEF PhaseInv, TypeOK, AccountInv, RunningIsAwaited
  <2>5. \A j \in DOMAIN bash_jobs :
             /\ bash_jobs'[j].call \in {bash_jobs[j].call, None} /\ bash_jobs'[j].from = bash_jobs[j].from
             /\ bash_jobs'[j].status = "running" => bash_jobs'[j].call = None
    BY <2>2, KillBlockingJobsType DEF PhaseInv, TypeOK
  <2> QED
    BY <1>q, <2>2, <2>3, <2>4, <2>5, AccountClear DEF ClearRound
<1>6. CASE Deny \/ ParkTimeout
  <2>1. /\ HaltRound(conversation, pending_tool_calls) /\ awaiting_approval
        /\ UNCHANGED offThread /\ UNCHANGED round
    BY <1>6 DEF Deny, ParkTimeout, Halt
  <2>2. pending_tool_tasks = {} /\ round' \in Nat /\ round' >= round
    BY <1>q, <2>1
  <2> QED
    BY <2>1, <2>2, HaltAccount
<1>7. CASE StreamToolCalls
  <2>1. /\ stream /\ pending_tool_calls' \in NewRounds /\ round < MaxRounds /\ round' = round + 1
        /\ UNCHANGED <<turnVars, tool_idx, tool_results, awaiting_approval, classifyVars, taskVars,
                       agentVars, offThread, walking>>
    BY <1>7 DEF StreamToolCalls
  <2>2. \A k \in DOMAIN pending_tool_calls' : pending_tool_calls'[k].id = <<round', k>>
    <3>1. \A k \in DOMAIN pending_tool_calls' : pending_tool_calls'[k].id = CallId(round + 1, k)
      BY <2>1, NewRoundsType DEF PhaseInv, TypeOK
    <3> QED
      BY <2>1, <3>1 DEF CallId
  <2>3. Numbered' /\ Quiet' /\ TasksStopTheLoop' /\ OneWorkerPerCall' /\ RunningIsAwaited'
    BY <2>1, <2>2 DEF AccountInv, Numbered, Quiet, TasksStopTheLoop, OneWorkerPerCall, RunningIsAwaited
  <2>4. \A id \in Id : HandedOut(id) => HandedOut(id)'
    BY <1>q, <2>1, IdFacts DEF HandedOut
  <2>5. \A id \in Id : HandedOut(id) =>
            id[1] <= round' /\ (id[1] = round' /\ pending_tool_calls' /= <<>> => id[2] <= tool_idx')
    BY <2>4 DEF HandedOut
  <2>6. Owned'
    BY <2>1, <2>5, OutIds DEF AccountInv, Owned, HandedOut
  <2>7. RoundAccounting'
    <3>1. 1..tool_idx = {} /\ AnsweredIds = {} /\ tool_results = <<>> /\ pending_tool_tasks = {}
          /\ pending_subagent_calls = {}
      BY <1>q, <2>1 DEF AnsweredIds
    <3>2. WalkedIds' = {} /\ AnsweredIds' = {}
      BY <2>1, <3>1 DEF WalkedIds, AnsweredIds
    <3> QED
      BY <2>1, <3>1, <3>2 DEF RoundAccounting
  <2> QED
    BY <2>3, <2>6, <2>7 DEF AccountInv
<1>8. ASSUME NEW calls, StreamDoneWithCalls(calls) PROVE AccountInv'
  <2>1. /\ stream /\ calls = pending_tool_calls /\ UNCHANGED <<round, waiting>>
        /\ pending_tool_calls' = calls /\ tool_idx' = 0 /\ tool_results' = <<>> /\ ~stream'
        /\ UNCHANGED <<classifyVars, taskVars, agentVars, offThread>>
    BY <1>8 DEF StreamDoneWithCalls, Harvested
  <2> QED
    BY <1>q, <1>s, <2>1
<1>9. ASSUME NEW calls, StreamDoneBlocked(calls) PROVE AccountInv'
  <2>1. /\ HaltRound(Append(conversation, Calling(IdsOf(calls), FALSE)), calls) /\ stream
        /\ UNCHANGED offThread /\ UNCHANGED round
    BY <1>9 DEF StreamDoneBlocked, Halt, Harvested
  <2>2. pending_tool_tasks = {} /\ round' \in Nat /\ round' >= round
    BY <1>q, <2>1
  <2> QED
    BY <2>1, <2>2, HaltAccount
<1>10. ASSUME NEW stored, NEW left, stream, EndTurn(stored, left),
              UNCHANGED <<agentVars, offThread, walking, round>>
       PROVE  AccountInv'
  <2>1. CASE pending_steer = 0
    <3>1. UNCHANGED <<roundVars, awaiting_approval, classifyVars, taskVars>>
      BY <1>10, <2>1 DEF EndTurn
    <3> QED
      BY <1>q, <1>s, <1>10, <3>1
  <2>2. CASE pending_steer /= 0
    <3>1. ResetRound
      BY <1>10, <2>2, Zenon DEF EndTurn
    <3> QED
      BY <1>q, <1>10, <3>1, ResetAccount DEF ResetRound, ClearToolTasks, ClearClassify
  <2> QED BY <2>1, <2>2
<1>11. CASE StreamDone
  BY <1>10, <1>11 DEF StreamDone
<1>12. CASE StreamStalled
  <2>1. /\ stream /\ UNCHANGED <<agentVars, offThread, walking, round>>
        /\ \/ \E stored, left : EndTurn(stored, left)
           \/ UNCHANGED <<roundVars, awaiting_approval, classifyVars, taskVars>>
    BY <1>12 DEF StreamStalled
  <2> QED
    BY <1>q, <1>s, <1>10, <2>1
<1>13. CASE StreamError
  <2>1. /\ stream /\ ClearRound /\ ClearClassify /\ UNCHANGED <<taskVars, agentVars, offThread, round>>
    BY <1>13 DEF StreamError
  <2> QED
    BY <1>q, <2>1, ResetAccount DEF ClearClassify
<1>14. CASE FinishToolRound
  <2>1. /\ ClearRound /\ pending_subagent_calls = {} /\ pending_tool_tasks = {}
        /\ UNCHANGED <<classifyVars, taskVars, agentVars, offThread, round>>
    BY <1>14 DEF FinishToolRound
  <2> QED
    BY <2>1, ResetAccount
<1>15. CASE WalkPark \/ WalkAsk
  BY <1>q, <1>s, <1>15 DEF WalkPark, WalkAsk, AtCall, AtEnd, TakeVerdict
<1>16. CASE WalkClassify
  <2>1. /\ walking /\ tool_idx < Len(pending_tool_calls) /\ classifiers' = classifiers \cup {WorkFor(Current)}
        /\ pending_classify_verdict' \subseteq pending_classify_verdict
        /\ UNCHANGED <<pending_tool_calls, tool_idx, tool_results, taskVars, agentVars, bash_jobs, threads,
                       round, waiting, stream>>
    BY <1>16 DEF WalkClassify, AtCall, TakeVerdict
  <2>2. WorkFor(Current).id[1] = WorkFor(Current).from
    BY <2>1, RoundIds DEF WorkFor
  <2> QED
    BY <1>q, <1>s, <2>1, <2>2
<1>17. CASE Resume
  BY <1>q, <1>s, <1>17 DEF Resume, GateOpen
<1>18. ASSUME NEW work \in classifiers, NEW verdict \in Verdict, DrainVerdict(work, verdict) PROVE AccountInv'
  <2>1. work.id[1] = work.from
    BY DEF AccountInv, Owned
  <2>2. /\ classifiers' \subseteq classifiers
        /\ pending_classify_verdict' \in {pending_classify_verdict, {[work |-> work, verdict |-> verdict]}}
        /\ walking' \/ awaiting_approval' \/ awaiting_classify' => walking \/ awaiting_approval \/ awaiting_classify
        /\ UNCHANGED <<turnVars, roundVars, taskVars, agentVars, threads, bash_jobs, counters>>
    BY <1>18 DEF DrainVerdict
  <2> QED
    BY <1>q, <1>s, <2>1, <2>2
<1>19. CASE UNCHANGED vars
  BY <1>q, <1>s, <1>19 DEF vars
<1>w. ASSUME tool_idx < Len(pending_tool_calls), tool_idx' = tool_idx + 1,
             UNCHANGED <<pending_tool_calls, round, stream, waiting, classifiers>>, waiting /\ ~stream,
             pending_classify_verdict' \subseteq pending_classify_verdict,
             walking' \/ awaiting_approval' \/ awaiting_classify' => pending_tool_tasks' = {},
             Owned', OneWorkerPerCall', RunningIsAwaited', RoundAccounting'
      PROVE  AccountInv'
  BY <1>w, AccountWalk DEF AccountInv, Quiet, TasksStopTheLoop
<1>20. CASE WalkInline \/ WalkImage \/ WalkRefuse
  <2>1. /\ walking /\ tool_idx < Len(pending_tool_calls) /\ tool_idx' = tool_idx + 1
        /\ tool_results' = Append(tool_results, WorkFor(Current)) /\ UNCHANGED <<walking, awaiting_approval, awaiting_classify>>
        /\ pending_classify_verdict' \subseteq pending_classify_verdict
        /\ UNCHANGED <<pending_tool_calls, round, stream, waiting, taskVars, agentVars, offThread>>
    BY <1>20 DEF WalkInline, WalkImage, WalkRefuse, AtCall, AnswerNow, TakeVerdict
  <2>2. Owned'
    BY <2>1, OwnedWalk
  <2>3. OneWorkerPerCall'
    BY <2>1, OneWorkerWalk
  <2>4. RoundAccounting'
    BY <2>1, AccountingWalk
  <2>5. RunningIsAwaited'
    BY <2>1 DEF AccountInv, RunningIsAwaited
  <2> QED
    BY <1>q, <1>w, <2>1, <2>2, <2>3, <2>4, <2>5 DEF PhaseInv, Phases
<1>21. CASE WalkDeferred \/ WalkRisky \/ Approve
  <2>1. /\ tool_idx < Len(pending_tool_calls) /\ tool_idx' = tool_idx + 1
        /\ waiting /\ ~stream /\ ~walking' /\ ~awaiting_approval' /\ ~awaiting_classify'
        /\ threads' = threads \cup {WorkFor(Current)}
        /\ pending_tool_tasks' = pending_tool_tasks \cup {Current.id}
        /\ pending_classify_verdict' \subseteq pending_classify_verdict
        /\ UNCHANGED <<pending_tool_calls, tool_results, round, stream, waiting, agentVars, classifiers, bash_jobs>>
    BY <1>q, <1>21 DEF WalkDeferred, WalkRisky, Approve, DispatchDeferred, AtCall, TakeVerdict, PhaseInv, Phases
  <2>2. Owned'
    BY <2>1, OwnedWalk
  <2>3. OneWorkerPerCall'
    BY <2>1, OneWorkerWalk
  <2>4. RoundAccounting'
    BY <2>1, AccountingWalk
  <2>5. RunningIsAwaited'
    BY <2>1 DEF AccountInv, RunningIsAwaited
  <2> QED
    BY <1>w, <2>1, <2>2, <2>3, <2>4, <2>5
<1>22. CASE WalkBash
  <2>1. /\ tool_idx < Len(pending_tool_calls) /\ tool_idx' = tool_idx + 1
        /\ waiting /\ ~stream /\ ~walking' /\ ~awaiting_approval' /\ ~awaiting_classify'
        /\ bash_jobs' = Append(bash_jobs, [call |-> Current.id, from |-> round,
                                           status |-> "running", suppress |-> FALSE])
        /\ pending_tool_tasks' = pending_tool_tasks \cup {Current.id}
        /\ UNCHANGED <<pending_tool_calls, tool_results, round, stream, waiting, agentVars, classifiers, threads,
                       pending_classify_verdict>>
    BY <1>q, <1>22 DEF WalkBash, AtCall, PhaseInv, Phases
  <2>2. Owned'
    BY <2>1, OwnedWalk
  <2>3. OneWorkerPerCall'
    BY <2>1, OneWorkerWalk
  <2>4. RoundAccounting'
    BY <2>1, AccountingWalk
  <2>5. RunningIsAwaited'
    <3>1. \A j \in DOMAIN bash_jobs' : bash_jobs'[j].call = Current.id \/ (j \in DOMAIN bash_jobs /\ bash_jobs'[j] = bash_jobs[j])
      BY <2>1 DEF PhaseInv, TypeOK
    <3> QED
      BY <2>1, <3>1 DEF AccountInv, RunningIsAwaited
  <2> QED
    BY <1>w, <2>1, <2>2, <2>3, <2>4, <2>5
<1>23. CASE WalkBackgroundBash
  <2>1. /\ walking /\ tool_idx < Len(pending_tool_calls) /\ tool_idx' = tool_idx + 1
        /\ tool_results' = Append(tool_results, WorkFor(Current)) /\ UNCHANGED <<walking, awaiting_approval, awaiting_classify>>
        /\ bash_jobs' = Append(bash_jobs, [call |-> None, from |-> round,
                                           status |-> "running", suppress |-> FALSE])
        /\ UNCHANGED <<pending_tool_calls, round, stream, waiting, taskVars, agentVars, threads, classifiers,
                       pending_classify_verdict>>
    BY <1>23 DEF WalkBackgroundBash, AtCall, AnswerNow
  <2>2. Owned'
    BY <2>1, OwnedWalk
  <2>3. OneWorkerPerCall'
    BY <2>1, OneWorkerWalk
  <2>4. RoundAccounting'
    BY <2>1, AccountingWalk
  <2>5. RunningIsAwaited'
    <3>0. bash_jobs \in Seq(BashJob)
      BY DEF PhaseInv, TypeOK
    <3>1. \A j \in DOMAIN bash_jobs' : bash_jobs'[j].call = None \/ (j \in DOMAIN bash_jobs /\ bash_jobs'[j] = bash_jobs[j])
      BY <2>1, <3>0, AppendFacts
    <3> QED
      BY <2>1, <3>1 DEF AccountInv, RunningIsAwaited
  <2> QED
    BY <1>q, <1>w, <2>1, <2>2, <2>3, <2>4, <2>5 DEF PhaseInv, Phases
<1>24. CASE WalkTask
  <2>1. /\ walking /\ tool_idx < Len(pending_tool_calls) /\ tool_idx' = tool_idx + 1
        /\ subagents' = Append(subagents, NewAgent(Current.id, FALSE))
        /\ pending_subagent_calls' = pending_subagent_calls \cup {Current.id}
        /\ UNCHANGED <<walking, awaiting_approval, awaiting_classify, pending_tool_calls, tool_results, round,
                       stream, waiting, taskVars, offThread, pending_classify_verdict>>
    BY <1>24 DEF WalkTask, AtCall
  <2>2. Owned'
    BY <2>1, OwnedWalk
  <2>3. OneWorkerPerCall'
    BY <2>1, OneWorkerWalk
  <2>4. RoundAccounting'
    BY <2>1, AccountingWalk
  <2>5. RunningIsAwaited'
    <3>1. \A i \in DOMAIN subagents' : \/ subagents'[i].call = Current.id /\ ~subagents'[i].detached
                                       \/ i \in DOMAIN subagents /\ subagents'[i] = subagents[i]
      BY <2>1 DEF PhaseInv, TypeOK, NewAgent
    <3> QED
      BY <2>1, <3>1 DEF AccountInv, RunningIsAwaited
  <2> QED
    BY <1>q, <1>w, <2>1, <2>2, <2>3, <2>4, <2>5 DEF PhaseInv, Phases
<1>25. CASE WalkBackgroundTask
  <2>1. /\ walking /\ tool_idx < Len(pending_tool_calls) /\ tool_idx' = tool_idx + 1
        /\ tool_results' = Append(tool_results, WorkFor(Current))
        /\ subagents' = Append(subagents, NewAgent(None, TRUE))
        /\ UNCHANGED <<walking, awaiting_approval, awaiting_classify, pending_tool_calls, round,
                       stream, waiting, taskVars, pending_subagent_calls, offThread, pending_classify_verdict>>
    BY <1>25 DEF WalkBackgroundTask, AtCall, AnswerNow
  <2>2. Owned'
    BY <2>1, OwnedWalk
  <2>3. OneWorkerPerCall'
    BY <2>1, OneWorkerWalk
  <2>4. RoundAccounting'
    BY <2>1, AccountingWalk
  <2>5. RunningIsAwaited'
    <3>0. subagents \in Seq(SubAgent) /\ NewAgent(None, TRUE).call = None
      BY DEF PhaseInv, TypeOK, NewAgent
    <3>1. \A i \in DOMAIN subagents' : subagents'[i].call = None \/ (i \in DOMAIN subagents /\ subagents'[i] = subagents[i])
      BY <2>1, <3>0, AppendFacts
    <3> QED
      BY <2>1, <3>1 DEF AccountInv, RunningIsAwaited
  <2> QED
    BY <1>q, <1>w, <2>1, <2>2, <2>3, <2>4, <2>5 DEF PhaseInv, Phases
<1>26. ASSUME NEW i \in DOMAIN subagents, SubagentEnds(i) PROVE AccountInv'
  <2>1. PICK end \in {"done", "killed"} : DrainSubagents([subagents EXCEPT ![i].status = end])
    BY <1>26 DEF SubagentEnds
  <2> DEFINE subs == [subagents EXCEPT ![i] = [subagents[i] EXCEPT !.status = end]]
  <2>2. subagents[i] \in SubAgent /\ subagents \in Seq(SubAgent)
    BY DEF PhaseInv, TypeOK
  <2>3. [subagents[i] EXCEPT !.status = end] \in SubAgent
    BY <2>2 DEF SubAgent
  <2>4. subs \in Seq(SubAgent) /\ DOMAIN subs = DOMAIN subagents
    BY <2>2, <2>3
  <2>5. \A k \in DOMAIN subs : /\ subs[k].call = subagents[k].call /\ subs[k].from = subagents[k].from
                               /\ subs[k].detached = subagents[k].detached
                               /\ subs[k].status = "running" => subagents[k].status = "running"
    BY <2>2 DEF SubAgent
  <2>6. DrainSubagents(subs)
    BY <2>1
  <2> HIDE DEF subs
  <2> QED
    BY <2>4, <2>5, <2>6, DrainAccount
<1>27. CASE RevisitSubagents
  <2>1. DrainSubagents(subagents) /\ subagents \in Seq(SubAgent)
    BY <1>27 DEF RevisitSubagents, PhaseInv, TypeOK
  <2> QED
    BY <2>1, DrainAccount
<1>28. CASE Request
  BY <1>28, <1>1, <1>2, <1>3, <1>4, <1>5, <1>6, <1>21, BackgroundSubagentAccount, BackgroundBashAccount, Zenon DEF Request
<1>29. CASE StreamToolCalls \/ StreamEnds
  BY <1>29, <1>7, <1>8, <1>9, <1>11, <1>12, <1>13, Zenon DEF StreamEnds
<1>30. CASE ProcessTools
  BY <1>30, <1>14, <1>15, <1>16, <1>20, <1>21, <1>22, <1>23, <1>24, <1>25, Zenon DEF ProcessTools
<1>31. CASE Reports
  BY <1>31, <1>18, <1>26, FoldTaskAccount, BashExitsAccount, DrainBashAccount, Zenon DEF Reports
<1> QED
  BY <1>1, <1>17, <1>19, <1>27, <1>28, <1>29, <1>30, <1>31, Zenon DEF Next

\* The account holds at the start, when there is no round.
LEMMA AccountInit == ASSUME Init PROVE AccountInv
<1>1. Numbered /\ Quiet /\ TasksStopTheLoop /\ Owned /\ OneWorkerPerCall /\ RunningIsAwaited
  BY DEF Init, Numbered, Quiet, TasksStopTheLoop, Owned, OneWorkerPerCall, RunningIsAwaited
<1>2. RoundAccounting
  BY DEF Init, RoundAccounting, WalkedIds, AnsweredIds
<1> QED
  BY <1>1, <1>2 DEF AccountInv

\* The two invariants hold together.
LEMMA Accounting == ASSUME NativeIds, ~LateDeny PROVE Spec => [](PhaseInv /\ AccountInv)
<1>1. Init => PhaseInv /\ AccountInv
  BY PhaseInit, AccountInit
<1>2. PhaseInv /\ AccountInv /\ [Next]_vars => PhaseInv' /\ AccountInv'
  <2>1. PhaseInv /\ [Next]_vars => PhaseInv'
    BY TypeStep, PhaseStep, AskedStep DEF PhaseInv
  <2> QED
    BY <2>1, AccountStep
<1> QED
  BY <1>1, <1>2, PTL DEF Spec

\* Whatever completes, is killed, is interrupted or goes to the background, and in
\* whatever order: every call process_tools has walked past is answered once or
\* waited for in one place.
THEOREM CallsAccountedFor == ASSUME NativeIds, ~LateDeny PROVE Spec => []RoundAccounting
<1>1. AccountInv => RoundAccounting
  BY DEF AccountInv
<1> QED
  BY <1>1, Accounting, PTL

\* No late result of an earlier round is folded into the round in progress.
THEOREM ResultsOfThisRound == ASSUME NativeIds, ~LateDeny PROVE Spec => []AnswersOwnCall
<1>1. PhaseInv /\ AccountInv => AnswersOwnCall
  <2>1. SUFFICES ASSUME PhaseInv, AccountInv, NEW k \in DOMAIN tool_results
                 PROVE  tool_results[k].from = round
    BY DEF AnswersOwnCall
  <2>2. tool_results[k].id \in AnsweredIds
    BY DEF AnsweredIds
  <2> QED
    BY <2>1, <2>2, RoundIds DEF AccountInv, Owned
<1> QED
  BY <1>1, Accounting, PTL

\* What handle_approve_tool dispatches is a risky call nobody has run or answered:
\* while the round is parked on it, process_tools does not walk.
THEOREM ApprovalParks == ASSUME NativeIds, ~LateDeny PROVE Spec => []ParkedOnRiskyCall
<1>1. PhaseInv /\ AccountInv => ParkedOnRiskyCall
  <2>1. SUFFICES ASSUME PhaseInv, AccountInv, awaiting_approval
                 PROVE  ParkedOnRiskyCall
    BY DEF ParkedOnRiskyCall
  <2>2. /\ ~walking /\ ~awaiting_classify /\ ~stream
        /\ tool_idx < Len(pending_tool_calls) /\ Current.kind = "risky"
    BY <2>1 DEF PhaseInv, TypeOK, Phases
  <2>3. Current.id = <<round, tool_idx + 1>> /\ tool_idx \in Nat
    BY <2>1, <2>2, RoundIds DEF PhaseInv, TypeOK
  <2>4. Current.id \notin AnsweredIds \cup pending_tool_tasks
    BY <2>1, <2>3, RoundIds
  <2> QED
    BY <2>2, <2>4 DEF ParkedOnRiskyCall
<1> QED
  BY <1>1, Accounting, PTL

\* The only steps that start a thread for a risky call.
LEMMA Dispatches ==
    ASSUME [Next]_vars, NEW work \in threads' \ threads, Current.kind = "risky"
    PROVE  (WalkRisky \/ Approve) /\ work = WorkFor(Current)
<1>1. CASE UNCHANGED threads
  BY <1>1
<1>2. CASE WalkDeferred
  BY <1>2 DEF WalkDeferred, AtCall
<1>3. CASE WalkRisky \/ Approve
  BY <1>3 DEF WalkRisky, Approve, DispatchDeferred
<1>4. CASE \E done \in threads : FoldTask(done)
  BY <1>4 DEF FoldTask
<1>5. CASE Request
  BY <1>1, <1>3, <1>5 DEF Request, Submit, SubmitRefused, Steer, Resend, Interrupt, InterruptRewind, Cut, SetModeStops,
                          Deny, ParkTimeout, Halt, SetMode, Attach, StartTask, BackgroundSubagent, BackgroundBash
<1>6. CASE StreamToolCalls \/ StreamEnds
  BY <1>1, <1>6 DEF StreamToolCalls, StreamEnds, StreamDoneWithCalls, StreamDoneBlocked, Halt, StreamDone,
                    StreamStalled, StreamError
<1>7. CASE ProcessTools
  BY <1>1, <1>2, <1>3, <1>7 DEF ProcessTools, WalkInline, WalkImage, WalkBash, WalkBackgroundBash, WalkTask,
                    WalkBackgroundTask, WalkClassify, WalkAsk, WalkRefuse, WalkPark, FinishToolRound
<1>8. CASE Reports \/ RevisitSubagents
  BY <1>1, <1>4, <1>8 DEF Reports, BashExits, DrainBash, DrainVerdict, SubagentEnds, RevisitSubagents, DrainSubagents
<1>9. CASE Resume \/ Wakes \/ UNCHANGED vars
  BY <1>1, <1>9 DEF Resume, Wakes, WakeForBash, WakeForSubagent, Wake, vars
<1> QED
  BY <1>5, <1>6, <1>7, <1>8, <1>9 DEF Next

\* The gate of process_tools lets no risky call run that the user, the mode or the
\* classifier's verdict on that very call did not allow.
THEOREM GateHolds == ASSUME NativeIds, ~LateDeny PROVE Spec => NoUngatedRun
<1> DEFINE Gated(work) == Current.kind = "risky" =>
            \/ awaiting_approval
            \/ agent_mode = "yolo"
            \/ agent_mode = "auto" /\ ~Classifier
            \/ agent_mode = "auto" /\ \E p \in pending_classify_verdict :
                                        p.verdict = "allow" /\ p.work = work
<1>1. ASSUME PhaseInv, AccountInv, [Next]_vars, NEW work \in threads' \ threads
      PROVE  Gated(work)
  <2> SUFFICES ASSUME Current.kind = "risky" PROVE Gated(work)
    OBVIOUS
  <2>1. (WalkRisky \/ Approve) /\ work = WorkFor(Current)
    BY <1>1, Dispatches
  <2>2. CASE Approve
    BY <2>2 DEF Approve
  <2>3. CASE WalkRisky
    <3>1. MayRun /\ tool_idx < Len(pending_tool_calls)
      BY <2>3 DEF WalkRisky, AtCall
    <3>2. CASE agent_mode = "auto" /\ "allow" \in Staged
      <4>1. PICK p \in pending_classify_verdict : p.work.id = Current.id /\ p.verdict = "allow"
        BY <3>2 DEF Staged
      <4>2. p.work \in Work /\ p.work.from = p.work.id[1]
        BY <1>1 DEF PhaseInv, TypeOK, AccountInv, Owned
      <4>3. Current.id[1] = round
        BY <1>1, <3>1, RoundIds
      <4>4. p.work = [id |-> Current.id, from |-> round]
        BY <4>1, <4>2, <4>3 DEF Work
      <4>5. p.work = work
        BY <2>1, <4>4 DEF WorkFor
      <4> QED
        BY <3>2, <4>1, <4>5
    <3> QED
      BY <3>1, <3>2 DEF MayRun
  <2> QED
    BY <2>1, <2>2, <2>3
<1>2. PhaseInv /\ AccountInv /\ [Next]_vars =>
        [\A work \in threads' \ threads : Gated(work)]_vars
  BY <1>1
<1> QED
  BY <1>2, Accounting, PTL DEF Spec, NoUngatedRun

====
