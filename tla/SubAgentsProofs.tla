---- MODULE SubAgentsProofs ----
(***************************************************************************)
(* The pool of sub-agents keeps its promises for any number of slots and   *)
(* of agents.                                                              *)
(***************************************************************************)
EXTENDS SubAgentsProperties, FiniteSetTheorems, TLAPS

LEMMA IdsFinite == ASSUME NEW S \in SUBSET Ids PROVE IsFiniteSet(S) /\ Cardinality(S) \in Nat
<1>1. 0 \in Int /\ MaxAgents - 1 \in Int
  BY SubAgentsAssumption
<1>2. IsFiniteSet(Ids)
  BY <1>1, FS_Interval DEF Ids
<1>3. IsFiniteSet(S)
  BY <1>2, FS_Subset
<1> QED
  BY <1>3, FS_CardinalityType

LEMMA Fewer == ASSUME NEW S \in SUBSET Ids, NEW T \in SUBSET S PROVE Cardinality(T) <= Cardinality(S)
BY IdsFinite, FS_Subset

\* What told becomes on a channel.
LEMMA TellGives ==
    ASSUME NEW says, Tell(says), NEW i \in Ids, NEW ch \in Channels
    PROVE  told'[i][ch] = IF ch \in DOMAIN says /\ i \in says[ch] THEN told[i][ch] + 1 ELSE told[i][ch]
BY DEF Tell

LEMMA ToldType ==
    ASSUME NEW says, Tell(says), told \in [Ids -> [Channels -> Nat]]
    PROVE  told' \in [Ids -> [Channels -> Nat]]
BY DEF Tell

LEMMA InvInit == Init => PoolInv
<1> SUFFICES ASSUME Init PROVE PoolInv
  OBVIOUS
<1>1. Running = {} /\ Records = {} /\ Cardinality(Running) = 0
  BY FS_EmptySet DEF Init, Running, Records
<1> QED
  BY <1>1, SubAgentsAssumption DEF Init, PoolInv, TypeOK, NoTrace, Untold, SlotsRespected, IdsFresh,
     CallsBacked, ToldOnce, ExtensionsSilent, RecordsTrue, ToldOf, Ids, Statuses, Ended, Origins,
     Workers, Channels


LEMMA KillInv == ASSUME PoolInv, NEW i \in Ids, Kill(i) PROVE PoolInv'
<1> USE DEF PoolInv, Kill, Set, Abort, Statuses, Ended, Workers, Channels, pool, agents, Running, Records
<1>1. TypeOK'
  BY DEF TypeOK
<1>2. Running' \subseteq Running
  BY DEF TypeOK
<1>3. SlotsRespected'
  BY <1>2, Fewer, IdsFinite, SubAgentsAssumption DEF SlotsRespected
<1>4. \A j \in Ids : j >= next_subagent_id' => NoTrace(j)'
  BY DEF NoTrace, TypeOK, IdsFresh
<1>5. Untold' /\ ToldOnce' /\ ExtensionsSilent'
  BY <1>2 DEF Untold, IdsFresh, CallsBacked, ToldOnce, ExtensionsSilent, TypeOK
<1>6. IdsFresh' /\ CallsBacked'
  BY <1>2 DEF IdsFresh, CallsBacked, TypeOK
<1>7. RecordsTrue'
  BY DEF RecordsTrue, TypeOK
<1> QED
  BY <1>1, <1>2, <1>3, <1>4, <1>5, <1>6, <1>7 DEF TypeOK

LEMMA FinishInv == ASSUME PoolInv, NEW i \in Ids, Finish(i) PROVE PoolInv'
<1> USE DEF PoolInv, Finish, Set, Abort, Statuses, Ended, Workers, Channels, pool, agents, Running, Records
<1>1. TypeOK'
  BY DEF TypeOK
<1>2. Running' \subseteq Running
  BY DEF TypeOK
<1>3. SlotsRespected'
  BY <1>2, Fewer, IdsFinite, SubAgentsAssumption DEF SlotsRespected
<1>4. \A j \in Ids : j >= next_subagent_id' => NoTrace(j)'
  BY DEF NoTrace, TypeOK, IdsFresh
<1>5. Untold' /\ ToldOnce' /\ ExtensionsSilent'
  BY <1>2 DEF Untold, IdsFresh, CallsBacked, ToldOnce, ExtensionsSilent, TypeOK
<1>6. IdsFresh' /\ CallsBacked'
  BY <1>2 DEF IdsFresh, CallsBacked, TypeOK
<1>7. RecordsTrue'
  BY DEF RecordsTrue, TypeOK
<1> QED
  BY <1>1, <1>2, <1>3, <1>4, <1>5, <1>6, <1>7 DEF TypeOK

LEMMA InterruptInv == ASSUME PoolInv, Interrupt PROVE PoolInv'
<1> USE DEF PoolInv, Interrupt, Set, Abort, Statuses, Ended, Workers, Channels, pool, agents, Running, Records, AbortAgents
<1>1. TypeOK'
  BY DEF TypeOK
<1>2. Running' \subseteq Running
  BY DEF TypeOK
<1>3. SlotsRespected'
  BY <1>2, Fewer, IdsFinite, SubAgentsAssumption DEF SlotsRespected
<1>4. \A j \in Ids : j >= next_subagent_id' => NoTrace(j)'
  BY DEF NoTrace, TypeOK, IdsFresh
<1>5. Untold' /\ ToldOnce' /\ ExtensionsSilent'
  BY <1>2 DEF Untold, IdsFresh, CallsBacked, ToldOnce, ExtensionsSilent, TypeOK
<1>6. IdsFresh' /\ CallsBacked'
  BY <1>2 DEF IdsFresh, CallsBacked, TypeOK
<1>7. RecordsTrue'
  BY DEF RecordsTrue, TypeOK
<1>8. \A j \in Ids : status'[j] = "none" => worker'[j] = "off"
  BY DEF TypeOK
<1>9. \A j \in Running' \cup pending_subagents' : origin'[j] = "call" => j \in pending_subagent_calls'
  BY DEF TypeOK
<1> QED
  BY <1>1, <1>3, <1>4, <1>5, <1>6, <1>7, <1>8, <1>9

LEMMA BrokerKillInv == ASSUME PoolInv, NEW i \in Ids, BrokerKill(i) PROVE PoolInv'
<1> USE DEF PoolInv, BrokerKill, Set, Abort, Statuses, Ended, Workers, Channels, pool, agents, Running, Records, Persist
<1>1. TypeOK'
  BY TellGives, ToldType DEF TypeOK
<1>2. Running' \subseteq Running
  BY DEF TypeOK
<1>3. SlotsRespected'
  BY <1>2, Fewer, IdsFinite, SubAgentsAssumption DEF SlotsRespected
<1>4. \A j \in Ids : j >= next_subagent_id' => NoTrace(j)'
  BY TellGives, ToldType DEF NoTrace, TypeOK, IdsFresh
<1>5. Untold' /\ ToldOnce' /\ ExtensionsSilent'
  BY TellGives, ToldType, <1>2 DEF Untold, IdsFresh, CallsBacked, ToldOnce, ExtensionsSilent, TypeOK
<1>6. IdsFresh' /\ CallsBacked'
  BY <1>2 DEF IdsFresh, CallsBacked, TypeOK
<1>7. RecordsTrue'
  BY DEF RecordsTrue, TypeOK
<1> QED
  BY <1>1, <1>2, <1>3, <1>4, <1>5, <1>6, <1>7 DEF TypeOK

LEMMA BackgroundInv == ASSUME PoolInv, NEW S \in SUBSET Eligible, Background(S) PROVE PoolInv'
<1> USE DEF PoolInv, Background, Set, Statuses, Ended, Workers, Channels, Running, Records, Eligible
<1>1. TypeOK'
  BY TellGives, ToldType DEF TypeOK, Origins
<1>2. Running' = Running /\ Records' = Records /\ S \subseteq pending_subagent_calls
  BY DEF TypeOK
<1>3. SlotsRespected'
  BY <1>2 DEF SlotsRespected
<1>4. \A j \in Ids : /\ told'[j]["result"] = IF j \in S THEN told[j]["result"] + 1 ELSE told[j]["result"]
                     /\ \A ch \in {"nudge", "fold", "event"} : told'[j][ch] = told[j][ch]
  BY TellGives
<1>5. \A j \in S : told[j]["result"] = 0 /\ told'[j]["result"] = 1
  BY <1>2, <1>4 DEF Untold, TypeOK
<1>6. \A j \in Ids : j >= next_subagent_id' => NoTrace(j)'
  BY <1>2, <1>4, <1>5 DEF NoTrace, TypeOK, IdsFresh
<1>7. Untold'
  BY <1>2, <1>4, <1>5 DEF Untold, TypeOK
<1>8. ToldOnce'
  BY <1>4, <1>5 DEF ToldOnce, TypeOK
<1>9. ExtensionsSilent'
  <2> SUFFICES ASSUME NEW j \in Ids, origin'[j] = "extension"
      PROVE  \A ch \in {"result", "nudge", "fold"} : told'[j][ch] = 0
    BY DEF ExtensionsSilent
  <2>1. j \notin S /\ origin[j] = "extension"
    BY DEF TypeOK
  <2> QED
    BY <2>1, <1>4 DEF ExtensionsSilent
<1>10. IdsFresh' /\ CallsBacked'
  BY <1>2 DEF IdsFresh, CallsBacked, TypeOK
<1>11. RecordsTrue'
  BY DEF RecordsTrue, agents
<1>12. \A j \in Ids : status'[j] = "none" => worker'[j] = "off"
  BY DEF TypeOK
<1>13. \A j \in Running' \cup pending_subagents' : origin'[j] = "call" => j \in pending_subagent_calls'
  BY DEF TypeOK
<1> QED
  BY <1>1, <1>3, <1>6, <1>7, <1>8, <1>9, <1>10, <1>11, <1>12, <1>13

LEMMA WakeInv == ASSUME PoolInv, Wake PROVE PoolInv'
<1> USE DEF PoolInv, Wake, Set, Statuses, Ended, Workers, Channels, pool, agents, Running, Records
<1>1. TypeOK'
  BY TellGives, ToldType DEF TypeOK
<1>2. Running' = Running /\ Records' = Records
  OBVIOUS
<1>3. SlotsRespected'
  BY <1>2 DEF SlotsRespected
<1>4. \A j \in Ids : /\ told'[j]["nudge"] = IF j \in pending_subagent_nudges THEN 1 ELSE told[j]["nudge"]
                     /\ \A ch \in {"result", "fold", "event"} : told'[j][ch] = told[j][ch]
  BY TellGives DEF Untold, TypeOK
<1>5. \A j \in pending_subagent_nudges : nudged[j] /\ origin[j] = "background" /\ j < next_subagent_id
  <2> SUFFICES ASSUME NEW j \in pending_subagent_nudges
      PROVE  nudged[j] /\ origin[j] = "background" /\ j < next_subagent_id
    OBVIOUS
  <2>1. j \in Ids /\ ~(j >= next_subagent_id)
    BY DEF NoTrace, TypeOK
  <2>2. j \in Int /\ next_subagent_id \in Int
    BY <2>1, SubAgentsAssumption DEF Ids, TypeOK
  <2> QED
    BY <2>1, <2>2 DEF Untold
<1>6. \A j \in Ids : j >= next_subagent_id' => NoTrace(j)'
  BY <1>2, <1>4, <1>5 DEF NoTrace, TypeOK, IdsFresh
<1>7. Untold'
  <2> SUFFICES ASSUME NEW j \in Ids
      PROVE  /\ j \in pending_subagent_calls => told'[j]["result"] = 0
             /\ ~nudged[j] => told'[j]["nudge"] = 0 /\ told'[j]["fold"] = 0
             /\ status[j] \in {"none", "running"} => told'[j]["event"] = 0
    BY DEF Untold
  <2> QED
    BY <1>4, <1>5 DEF Untold
<1>8. ToldOnce'
  BY <1>4 DEF ToldOnce, TypeOK
<1>9. ExtensionsSilent'
  BY <1>4, <1>5 DEF ExtensionsSilent
<1>10. IdsFresh' /\ CallsBacked'
  BY <1>2 DEF IdsFresh, CallsBacked, TypeOK
<1>11. RecordsTrue'
  BY DEF RecordsTrue
<1>12. \A j \in Ids : status'[j] = "none" => worker'[j] = "off"
  OBVIOUS
<1>13. \A j \in Running' \cup pending_subagents' : origin'[j] = "call" => j \in pending_subagent_calls'
  OBVIOUS
<1> QED
  BY <1>1, <1>3, <1>6, <1>7, <1>8, <1>9, <1>10, <1>11, <1>12, <1>13

LEMMA DelegateInv == ASSUME PoolInv, NEW o \in Delegators, Delegate(o) PROVE PoolInv'
<1> DEFINE i == next_subagent_id
           free == SlotsLeft(Running) > 0
<1> USE DEF PoolInv, Statuses, Ended, Workers, Channels, Running, Records
<1>1. i \in Ids /\ NoTrace(i) /\ next_subagent_id' = i + 1 /\ i \in Nat /\ MaxAgents \in Nat
  BY SubAgentsAssumption DEF Delegate, Ids, TypeOK
<1>2. /\ status' = [j \in Ids |-> IF free /\ j = i THEN "running" ELSE status[j]]
      /\ worker' = [j \in Ids |-> IF free /\ j = i THEN "working" ELSE worker[j]]
      /\ saved' = IF free THEN status' ELSE saved
  BY <1>1 DEF Delegate, Persist, Set, TypeOK
<1>3. /\ origin' = [origin EXCEPT ![i] = o]
      /\ pending_subagent_calls' = pending_subagent_calls \cup (IF o = "call" THEN {i} ELSE {})
      /\ pending_subagents' = pending_subagents \cup (IF free THEN {} ELSE {i})
      /\ UNCHANGED <<pending_subagent_nudges, nudged, told>>
  BY DEF Delegate
<1> HIDE DEF i, free
<1>4. TypeOK'
  <2>1. i + 1 \in 0 .. MaxAgents + 1
    BY <1>1 DEF Ids
  <2>2. status' \in [Ids -> Statuses] /\ worker' \in [Ids -> Workers] /\ saved' \in [Ids -> Statuses]
    BY <1>2 DEF TypeOK
  <2>3. origin' \in [Ids -> Origins]
    BY <1>1, <1>3, SubAgentsAssumption DEF TypeOK
  <2> QED
    BY <1>1, <1>3, <2>1, <2>2, <2>3 DEF TypeOK
<1>5. Running' = IF free THEN Running \cup {i} ELSE Running
  BY <1>1, <1>2 DEF TypeOK
<1>6. SlotsRespected'
  <2>1. Cardinality(Running') = IF free THEN Cardinality(Running) + 1 ELSE Cardinality(Running)
    <3>1. i \notin Running
      BY <1>1 DEF NoTrace
    <3>2. IsFiniteSet(Running) /\ Cardinality(Running) \in Nat
      BY IdsFinite
    <3> QED
      BY <1>5, <3>1, <3>2, FS_AddElement
  <2> QED
    <3>1. Cardinality(Running) \in Nat
      BY IdsFinite
    <3> QED
      BY <2>1, <3>1, SubAgentsAssumption DEF SlotsRespected, free, SlotsLeft
<1>7. \A j \in Ids : j >= next_subagent_id' => NoTrace(j)'
  <2> SUFFICES ASSUME NEW j \in Ids, j >= i + 1
      PROVE  NoTrace(j)'
    BY <1>1
  <2>1. j /= i /\ j >= i /\ NoTrace(j)
    BY <1>1 DEF Ids, i
  <2> QED
    BY <2>1, <1>2, <1>3 DEF NoTrace, TypeOK
<1>8. Untold'
  <2> SUFFICES ASSUME NEW j \in Ids
      PROVE  /\ j \in pending_subagent_calls' => told[j]["result"] = 0
             /\ j \in pending_subagent_nudges =>
                    nudged[j] /\ origin'[j] = "background" /\ told[j]["nudge"] = 0
             /\ ~nudged[j] => told[j]["nudge"] = 0 /\ told[j]["fold"] = 0
             /\ status'[j] \in {"none", "running"} => told[j]["event"] = 0
    BY <1>3 DEF Untold
  <2> QED
    BY <1>1, <1>2, <1>3 DEF Untold, NoTrace, TypeOK
<1>9. ToldOnce' /\ ExtensionsSilent'
  BY <1>1, <1>3 DEF ToldOnce, ExtensionsSilent, NoTrace, TypeOK
<1>10. IdsFresh'
  <2>1. Records' \cup pending_subagents' \subseteq Records \cup pending_subagents \cup {i}
    BY <1>2, <1>3 DEF TypeOK
  <2>2. \A j \in Records' \cup pending_subagents' : j < i + 1
    <3>1. \A j \in Records \cup pending_subagents : j < i
      BY DEF IdsFresh, i
    <3>2. \A j \in Ids : j \in Int
      BY SubAgentsAssumption DEF Ids
    <3>3. Records \cup pending_subagents \cup {i} \subseteq Ids
      BY <1>1 DEF TypeOK
    <3> QED
      BY <1>1, <2>1, <3>1, <3>2, <3>3
  <2>3. pending_subagents' \cap Records' = {}
    BY <1>1, <1>2, <1>3 DEF IdsFresh, NoTrace, TypeOK
  <2> QED
    BY <1>1, <2>2, <2>3 DEF IdsFresh
<1>11. CallsBacked'
  BY <1>1, <1>2, <1>3 DEF CallsBacked, NoTrace, TypeOK
<1>12. RecordsTrue'
  BY <1>2 DEF RecordsTrue, TypeOK
<1>13. \A j \in Ids : status'[j] = "none" => worker'[j] = "off"
  BY <1>2 DEF TypeOK
<1>14. \A j \in Running' \cup pending_subagents' : origin'[j] = "call" => j \in pending_subagent_calls'
  BY <1>1, <1>3, <1>5 DEF TypeOK
<1> QED
  BY <1>4, <1>6, <1>7, <1>8, <1>9, <1>10, <1>11, <1>12, <1>13, <1>14

LEMMA RestoreInv == ASSUME PoolInv, Restore PROVE PoolInv'
<1> DEFINE recorded == {i \in Ids : saved[i] /= "none"}
<1> USE DEF PoolInv, Statuses, Ended, Workers, Channels, Running, Records
<1>1. /\ status' = [i \in Ids |-> IF saved[i] = "running" THEN "killed" ELSE saved[i]]
      /\ pending_subagents' = {} /\ pending_subagent_calls' = {} /\ pending_subagent_nudges' = {}
      /\ origin' = [i \in Ids |-> "task"]
      /\ nudged' = [i \in Ids |-> i \in recorded]
      /\ worker' = [i \in Ids |-> "off"]
      /\ told' = [i \in Ids |-> [ch \in Channels |-> IF i \in recorded THEN 1 ELSE 0]]
      /\ saved' = saved
  BY DEF Restore, Set, ToldOf, TypeOK
<1>2. PICK n \in 1 .. MaxAgents + 1 : FollowsHighest(n, recorded) /\ next_subagent_id' = n
  BY DEF Restore
<1>3. /\ n \in Nat
      /\ \A i \in recorded : i < n
  BY <1>2, SubAgentsAssumption DEF FollowsHighest
<1> HIDE DEF recorded
<1>4. Running' = {} /\ Records' = recorded /\ Cardinality(Running') = 0
  BY <1>1, FS_EmptySet DEF recorded, TypeOK
<1>5. TypeOK'
  BY <1>1, <1>2, SubAgentsAssumption DEF TypeOK, Origins
<1>6. SlotsRespected'
  BY <1>4, SubAgentsAssumption DEF SlotsRespected
<1>7. \A j \in Ids : j >= next_subagent_id' => NoTrace(j)'
  <2> SUFFICES ASSUME NEW j \in Ids, j >= n
      PROVE  NoTrace(j)'
    BY <1>2
  <2>1. j \notin recorded
    BY <1>3, SubAgentsAssumption DEF Ids
  <2>2. saved[j] = "none"
    BY <2>1 DEF recorded
  <2> QED
    BY <2>1, <2>2, <1>1 DEF NoTrace
<1>8. Untold' /\ ToldOnce' /\ ExtensionsSilent'
  <2>1. \A j \in Ids : status'[j] \in {"none", "running"} => j \notin recorded
    BY <1>1 DEF recorded
  <2> QED
    <3>1. \A j \in Ids, ch \in Channels : told'[j][ch] = IF j \in recorded THEN 1 ELSE 0
      BY <1>1
    <3>2. Untold'
      BY <1>1, <2>1, <3>1 DEF Untold
    <3>3. ToldOnce' /\ ExtensionsSilent'
      BY <1>1, <3>1 DEF ToldOnce, ExtensionsSilent
    <3> QED
      BY <3>2, <3>3
<1>9. IdsFresh' /\ CallsBacked'
  BY <1>1, <1>2, <1>3, <1>4 DEF IdsFresh, CallsBacked
<1>10. RecordsTrue'
  BY <1>1 DEF RecordsTrue
<1> QED
  BY <1>1, <1>4, <1>5, <1>6, <1>7, <1>8, <1>9, <1>10

\* The end an agent has come to is one of its statuses, and it is its status
\* unless its task has sent one.
LEMMA SettledType ==
    ASSUME TypeOK, NEW i \in Ids
    PROVE  /\ Settled(i) \in Statuses
           /\ Settled(i) = "running" <=> status[i] = "running" /\ Settled(i) \notin Ended
           /\ Settled(i) = status[i] \/ Settled(i) \in Ended
           /\ worker[i] = "off" => Settled(i) = status[i]
BY DEF TypeOK, Settled, Statuses, Ended, Workers

\* An entry taken off the queue is started, unless its agent does not resolve.
LEMMA PoppedStarted ==
    ASSUME TypeOK, NEW bad \in SUBSET pending_subagents,
           NEW started \in SUBSET (pending_subagents \ bad),
           NEW staying \in SUBSET Ids, StartPending(staying, bad, started)
    PROVE  /\ started \subseteq Popped(staying, started)
           /\ Popped(staying, started) \ bad = started
           /\ Popped(staying, started) \subseteq pending_subagents
<1>1. \A i \in pending_subagents : i \in Int
  BY SubAgentsAssumption DEF TypeOK, Ids
<1>2. Cardinality(started) \in Nat /\ SlotsLeft(staying) \in Int
  BY IdsFinite, SubAgentsAssumption DEF TypeOK, SlotsLeft
<1>3. started \subseteq Popped(staying, started)
  BY <1>1 DEF Popped
<1>4. ASSUME NEW i \in Popped(staying, started), i \notin bad, i \notin started
      PROVE  FALSE
  <2>1. i \in (pending_subagents \ bad) \ started
    BY <1>4 DEF Popped
  <2>2. Cardinality(started) = SlotsLeft(staying)
    BY <2>1 DEF StartPending
  <2>3. PICK j \in started : i <= j
    BY <1>4, <2>2, <1>2 DEF Popped
  <2>4. j < i
    BY <2>1, <2>3 DEF StartPending
  <2> QED
    BY <2>1, <2>3, <2>4, <1>1
<1> QED
  BY <1>3, <1>4 DEF Popped

LEMMA DrainInv == ASSUME PoolInv, Drain PROVE PoolInv'
<1> DEFINE ended == {i \in Records : Settled(i) \in Ended}
           fresh == {i \in ended : Settled(i) /= status[i]}
           mute == Mute(ended)
           answered == Answered(ended)
           staying == Running \ ended
<1>0. PICK bad \in SUBSET pending_subagents :
      \E started \in SUBSET (pending_subagents \ bad) :
        LET popped == Popped(staying, started)
            refused == popped \cap bad \cap pending_subagent_calls IN
        /\ StartPending(staying, bad, started)
        /\ pending_subagents' = pending_subagents \ popped
        /\ pending_subagent_calls' = pending_subagent_calls \ (answered \cup refused)
        /\ status' = [i \in Ids |-> IF i \in started THEN "running" ELSE Settled(i)]
        /\ worker' = [i \in Ids |-> IF i \in started THEN "working"
                                     ELSE IF worker[i] \in {"done", "error", "gone"} THEN "off"
                                     ELSE worker[i]]
        /\ Persist(fresh \cup started /= {})
        /\ Tell([result |-> answered \cup refused,
                  fold |-> Folds(mute), event |-> ended \cap Running])
  BY DEF Drain
<1>1. PICK started \in SUBSET (pending_subagents \ bad) :
        LET popped == Popped(staying, started)
            refused == popped \cap bad \cap pending_subagent_calls IN
        /\ StartPending(staying, bad, started)
        /\ pending_subagents' = pending_subagents \ popped
        /\ pending_subagent_calls' = pending_subagent_calls \ (answered \cup refused)
        /\ status' = [i \in Ids |-> IF i \in started THEN "running" ELSE Settled(i)]
        /\ worker' = [i \in Ids |-> IF i \in started THEN "working"
                                     ELSE IF worker[i] \in {"done", "error", "gone"} THEN "off"
                                     ELSE worker[i]]
        /\ Persist(fresh \cup started /= {})
        /\ Tell([result |-> answered \cup refused,
                  fold |-> Folds(mute), event |-> ended \cap Running])
  BY <1>0
<1> DEFINE popped == Popped(staying, started)
           refused == popped \cap bad \cap pending_subagent_calls
<1>2. /\ pending_subagent_nudges' = pending_subagent_nudges \cup Nudges(mute)
      /\ nudged' = Set(nudged, {i \in mute : origin[i] /= "call"}, TRUE)
      /\ UNCHANGED <<next_subagent_id, origin>>
  BY DEF Drain
<1>3. TypeOK /\ staying \subseteq Running /\ Running \subseteq Records /\ Records \subseteq Ids
  BY DEF PoolInv, Running, Records
<1>4. started \subseteq popped /\ popped \ bad = started /\ popped \subseteq pending_subagents
  <2>1. staying \in SUBSET Ids /\ StartPending(staying, bad, started)
    BY <1>1, <1>3
  <2> HIDE DEF staying
  <2> QED
    BY <1>3, <2>1, PoppedStarted
<1>5. \A i \in started : status[i] = "none" /\ i \in Ids /\ i \notin Records
  BY <1>3 DEF PoolInv, IdsFresh, Records, TypeOK
<1>6. pending_subagents \cap Records = {}
  BY DEF PoolInv, IdsFresh
<1>7. \A i \in Ids : /\ told'[i]["result"] = IF i \in answered \cup refused THEN told[i]["result"] + 1 ELSE told[i]["result"]
                     /\ told'[i]["fold"] = IF i \in Folds(mute) THEN told[i]["fold"] + 1 ELSE told[i]["fold"]
                     /\ told'[i]["event"] = IF i \in ended \cap Running THEN told[i]["event"] + 1 ELSE told[i]["event"]
                     /\ told'[i]["nudge"] = told[i]["nudge"]
  <2> DEFINE says == [result |-> answered \cup refused,
                      fold |-> Folds(mute), event |-> ended \cap Running]
  <2>1. Tell(says)
    BY <1>1
  <2>2. /\ DOMAIN says = {"result", "fold", "event"}
        /\ says["result"] = answered \cup refused
        /\ says["fold"] = Folds(mute) /\ says["event"] = ended \cap Running
    OBVIOUS
  <2> HIDE DEF says, answered, refused, mute, ended
  <2> QED
    BY <2>1, <2>2, TellGives DEF Channels
<1>8. \A i \in Ids : status'[i] = IF i \in started THEN "running" ELSE Settled(i)
  BY <1>1
<1>9. /\ answered \subseteq pending_subagent_calls /\ refused \subseteq pending_subagent_calls
      /\ answered \subseteq ended /\ mute \subseteq ended /\ ended \subseteq Records
      /\ Folds(mute) \subseteq mute /\ Nudges(mute) \subseteq mute
      /\ \A i \in mute : ~nudged[i]
  BY DEF Answered, Folds, Nudges, Mute
<1>10. Running' = staying \cup started
  <2>1. \A i \in Ids : status'[i] = "running" <=> i \in staying \cup started
    BY <1>3, <1>8, SettledType DEF Running, Records
  <2> QED
    BY <2>1, <1>3, <1>5 DEF Running
<1>11. Records' = Records \cup started
  <2>1. \A i \in Ids : status'[i] /= "none" <=> i \in Records \cup started
    <3> SUFFICES ASSUME NEW i \in Ids, i \notin started
        PROVE  Settled(i) /= "none" <=> status[i] /= "none"
      BY <1>8 DEF Records
    <3>1. status[i] = "none" => worker[i] = "off"
      BY DEF PoolInv
    <3> QED
      BY <3>1, <1>3, SettledType DEF Ended
  <2> QED
    BY <2>1, <1>3, <1>5 DEF Records
<1>12. status' \in [Ids -> Statuses]
  BY <1>1, <1>3, SettledType DEF Statuses
<1>13. TypeOK'
  <2>1. worker' \in [Ids -> Workers]
    BY <1>1, <1>3 DEF TypeOK, Workers
  <2>2. saved' \in [Ids -> Statuses]
    BY <1>1, <1>3, <1>12 DEF TypeOK, Persist
  <2>3. told' \in [Ids -> [Channels -> Nat]]
    BY <1>1, <1>3, ToldType DEF TypeOK
  <2>4. nudged' \in [Ids -> BOOLEAN]
    BY <1>2, <1>3 DEF TypeOK, Set
  <2>5. pending_subagents' \subseteq Ids /\ pending_subagent_calls' \subseteq Ids
    BY <1>1, <1>3 DEF TypeOK
  <2>6. pending_subagent_nudges' \subseteq Ids
    BY <1>2, <1>3, <1>9 DEF TypeOK
  <2> QED
    BY <1>2, <1>3, <1>12, <2>1, <2>2, <2>3, <2>4, <2>5, <2>6 DEF TypeOK
<1>14. SlotsRespected'
  <2>1. started \subseteq Ids /\ staying \subseteq Ids
    BY <1>3, <1>5
  <2>2. /\ IsFiniteSet(started) /\ Cardinality(started) \in Nat
        /\ IsFiniteSet(staying) /\ Cardinality(staying) \in Nat
        /\ Cardinality(staying \cap started) \in Nat
    BY <2>1, IdsFinite
  <2>3. Cardinality(Running') = Cardinality(staying) + Cardinality(started)
                                  - Cardinality(staying \cap started)
    BY <1>10, <2>2, FS_Union
  <2>4. Cardinality(started) <= MaxSubagents - Cardinality(staying)
    BY <1>1 DEF StartPending, SlotsLeft
  <2> QED
    BY <2>2, <2>3, <2>4, SubAgentsAssumption DEF SlotsRespected
<1>15. IdsFresh'
  <2>1. pending_subagents' \subseteq pending_subagents \ started
    BY <1>1, <1>4
  <2> QED
    BY <2>1, <1>2, <1>4, <1>11 DEF PoolInv, IdsFresh
<1>16. \A i \in pending_subagent_calls : origin[i] = "call" /\ i \in pending_subagents \cup Records
  BY DEF PoolInv, CallsBacked
<1>17. CallsBacked'
  <2> SUFFICES ASSUME NEW i \in pending_subagent_calls'
      PROVE  i \in pending_subagents' \cup Records' /\ origin'[i] = "call"
    BY DEF CallsBacked
  <2>1. i \in pending_subagent_calls /\ i \notin refused
    BY <1>1
  <2> QED
    BY <2>1, <1>1, <1>2, <1>4, <1>11, <1>16
<1>18. \A i \in Running' \cup pending_subagents' : origin'[i] = "call" => i \in pending_subagent_calls'
  <2> SUFFICES ASSUME NEW i \in Running' \cup pending_subagents', origin[i] = "call"
      PROVE  i \in pending_subagent_calls /\ i \notin answered /\ i \notin refused
    BY <1>1, <1>2
  <2>1. i \in Running \cup pending_subagents
    BY <1>1, <1>10
  <2>2. i \in pending_subagent_calls
    BY <2>1 DEF PoolInv
  <2>3. i \notin answered
    BY <1>1, <1>3, <1>5, <1>6, <1>9, <1>10
  <2>4. i \notin refused
    BY <1>1, <1>3, <1>4, <1>6, <1>10
  <2> QED
    BY <2>2, <2>3, <2>4
<1>19. \A i \in Ids : status'[i] = "none" => worker'[i] = "off"
  <2> SUFFICES ASSUME NEW i \in Ids, status'[i] = "none"
      PROVE  worker'[i] = "off"
    OBVIOUS
  <2>1. i \notin started /\ status[i] = "none"
    BY <1>3, <1>8, SettledType DEF Ended
  <2>2. worker[i] = "off"
    BY <2>1 DEF PoolInv
  <2> QED
    BY <1>1, <2>1, <2>2
<1>20. Untold'
  <2> SUFFICES ASSUME NEW i \in Ids
      PROVE  /\ i \in pending_subagent_calls' => told'[i]["result"] = 0
             /\ i \in pending_subagent_nudges' =>
                    nudged'[i] /\ origin'[i] = "background" /\ told'[i]["nudge"] = 0
             /\ ~nudged'[i] => told'[i]["nudge"] = 0 /\ told'[i]["fold"] = 0
             /\ status'[i] \in {"none", "running"} => told'[i]["event"] = 0
    BY DEF Untold
  <2>1. nudged'[i] = (nudged[i] \/ (i \in mute /\ origin[i] /= "call"))
    BY <1>2, <1>3 DEF Set, TypeOK
  <2>2. i \in pending_subagent_calls' => told'[i]["result"] = 0
    BY <1>1, <1>7 DEF PoolInv, Untold
  <2>3. i \in pending_subagent_nudges' =>
                    nudged'[i] /\ origin'[i] = "background" /\ told'[i]["nudge"] = 0
    <3>1. CASE i \in pending_subagent_nudges
      BY <3>1, <2>1, <1>2, <1>7 DEF PoolInv, Untold
    <3>2. CASE i \in Nudges(mute)
      BY <3>2, <2>1, <1>2, <1>7 DEF PoolInv, Untold, Nudges, Mute
    <3> QED
      BY <3>1, <3>2, <1>2
  <2>4. ~nudged'[i] => told'[i]["nudge"] = 0 /\ told'[i]["fold"] = 0
    BY <2>1, <1>7 DEF PoolInv, Untold, Folds
  <2>5. status'[i] \in {"none", "running"} => told'[i]["event"] = 0
    <3> SUFFICES ASSUME status'[i] \in {"none", "running"}
        PROVE  told'[i]["event"] = 0
      OBVIOUS
    <3>1. status[i] \in {"none", "running"} /\ i \notin ended
      BY <1>3, <1>5, <1>8, <1>9, SettledType DEF Ended
    <3> QED
      BY <3>1, <1>7 DEF PoolInv, Untold
  <2> QED
    BY <2>2, <2>3, <2>4, <2>5
<1>21. ToldOnce'
  <2> SUFFICES ASSUME NEW i \in Ids
      PROVE  /\ told'[i]["result"] <= 1 /\ told'[i]["fold"] <= 1
             /\ told'[i]["event"] <= 1 /\ told'[i]["nudge"] <= 1
    BY DEF ToldOnce, Channels
  <2>1. /\ told[i]["result"] <= 1 /\ told[i]["fold"] <= 1
        /\ told[i]["event"] <= 1 /\ told[i]["nudge"] <= 1
    BY DEF PoolInv, ToldOnce, Channels
  <2>2. i \in answered \cup refused => told[i]["result"] = 0
    BY <1>9 DEF PoolInv, Untold
  <2>3. i \in Folds(mute) => told[i]["fold"] = 0
    BY <1>9 DEF PoolInv, Untold
  <2>4. i \in Running => told[i]["event"] = 0
    BY DEF PoolInv, Untold, Running
  <2> QED
    BY <2>1, <2>2, <2>3, <2>4, <1>7
<1>22. ExtensionsSilent'
  <2> SUFFICES ASSUME NEW i \in Ids, origin[i] = "extension"
      PROVE  told'[i]["result"] = 0 /\ told'[i]["nudge"] = 0 /\ told'[i]["fold"] = 0
    BY <1>2 DEF ExtensionsSilent
  <2>1. told[i]["result"] = 0 /\ told[i]["nudge"] = 0 /\ told[i]["fold"] = 0
    BY DEF PoolInv, ExtensionsSilent
  <2>2. i \notin answered \cup refused /\ i \notin Folds(mute)
    BY <1>9, <1>16 DEF Folds
  <2> QED
    BY <2>1, <2>2, <1>7
<1>23. RecordsTrue'
  <2>1. CASE fresh \cup started /= {}
    BY <2>1, <1>1 DEF Persist, RecordsTrue
  <2>2. CASE fresh \cup started = {}
    <3>1. \A i \in Ids : status'[i] = status[i]
      <4> SUFFICES ASSUME NEW i \in Ids
          PROVE  Settled(i) = status[i]
        BY <2>2, <1>8
      <4>1. status[i] = "none" => worker[i] = "off"
        BY DEF PoolInv
      <4> QED
        BY <4>1, <2>2, <1>3, SettledType DEF Records
    <3>2. saved' = saved
      BY <2>2, <1>1 DEF Persist
    <3> QED
      BY <3>1, <3>2 DEF PoolInv, RecordsTrue
  <2> QED
    BY <2>1, <2>2
<1>24. \A i \in Ids : i >= next_subagent_id' => NoTrace(i)'
  <2> SUFFICES ASSUME NEW i \in Ids, i >= next_subagent_id
      PROVE  NoTrace(i)'
    BY <1>2
  <2>1. NoTrace(i)
    BY DEF PoolInv
  <2>2. i \notin Records \cup pending_subagents \cup pending_subagent_calls
    BY <2>1 DEF NoTrace, Records
  <2>3. i \notin started /\ i \notin ended
    BY <2>2, <1>4, <1>9
  <2>4. status'[i] = "none"
    BY <2>2, <2>3, <1>11 DEF Records
  <2>5. saved'[i] = "none"
    BY <2>1, <2>4, <1>1 DEF NoTrace, Persist
  <2>6. \A ch \in Channels : told'[i][ch] = 0
    BY <2>1, <2>2, <2>3, <1>7, <1>9 DEF NoTrace, Channels
  <2>7. i \notin pending_subagents' \cup pending_subagent_calls' \cup pending_subagent_nudges'
    BY <2>1, <2>3, <1>1, <1>2, <1>9 DEF NoTrace
  <2> QED
    BY <2>4, <2>5, <2>6, <2>7 DEF NoTrace
<1> QED
  BY <1>13, <1>14, <1>15, <1>17, <1>18, <1>19, <1>20, <1>21, <1>22, <1>23, <1>24 DEF PoolInv

-----------------------------------------------------------------------------

\* Every reachable state of the pool satisfies PoolInv, for any number of slots,
\* of delegators and of ids.
THEOREM PoolHolds == Spec => []PoolInv
<1>1. ASSUME PoolInv, [Next]_vars
      PROVE  PoolInv'
  <2>1. CASE \E o \in Delegators : Delegate(o)
    BY <1>1, <2>1, DelegateInv
  <2>2. CASE \E i \in Ids : Finish(i)
    BY <1>1, <2>2, FinishInv
  <2>3. CASE \E i \in Ids : Kill(i)
    BY <1>1, <2>3, KillInv
  <2>4. CASE \E i \in Ids : BrokerKill(i)
    BY <1>1, <2>4, BrokerKillInv
  <2>5. CASE \E S \in {{i} : i \in Eligible} \cup {Eligible} : Background(S)
    BY <1>1, <2>5, BackgroundInv
  <2>6. CASE Interrupt
    BY <1>1, <2>6, InterruptInv
  <2>7. CASE Drain
    BY <1>1, <2>7, DrainInv
  <2>8. CASE Wake
    BY <1>1, <2>8, WakeInv
  <2>9. CASE Restore
    BY <1>1, <2>9, RestoreInv
  <2>10. CASE UNCHANGED vars
    BY <1>1, <2>10 DEF vars, pool, agents, PoolInv, TypeOK, NoTrace, Untold, SlotsRespected, IdsFresh,
       CallsBacked, ToldOnce, ExtensionsSilent, RecordsTrue, Running, Records
  <2> QED
    BY <1>1, <2>1, <2>2, <2>3, <2>4, <2>5, <2>6, <2>7, <2>8, <2>9, <2>10 DEF Next
<1> QED
  BY InvInit, <1>1, PTL DEF Spec

\* No more agents run than there are slots (running_subagents and
\* try_start_pending agree, whatever is killed, ends or is delegated between).
THEOREM SlotsAlways == Spec => []SlotsRespected
<1>1. PoolInv => SlotsRespected
  BY DEF PoolInv
<1> QED
  BY <1>1, PoolHolds, PTL

\* An id is never handed out twice, restarts included (restore_bg_records).
THEOREM IdsFreshAlways == Spec => []IdsFresh
<1>1. PoolInv => IdsFresh
  BY DEF PoolInv
<1> QED
  BY <1>1, PoolHolds, PTL

\* A call that parks the round has a delegation behind it that drain_subagents
\* or a stop will settle.
THEOREM CallsBackedAlways == Spec => []CallsBacked
<1>1. PoolInv => CallsBacked
  BY DEF PoolInv
<1> QED
  BY <1>1, PoolHolds, PTL

\* drain_subagents visits a finished record on every tick and tells its end once.
THEOREM ToldOnceAlways == Spec => []ToldOnce
<1>1. PoolInv => ToldOnce
  BY DEF PoolInv
<1> QED
  BY <1>1, PoolHolds, PTL

\* An extension's agent leaves no trace in the user's conversation.
THEOREM ExtensionsAlwaysSilent == Spec => []ExtensionsSilent
<1>1. PoolInv => ExtensionsSilent
  BY DEF PoolInv
<1> QED
  BY <1>1, PoolHolds, PTL

\* A crash at any point restores each agent with the end it had, or as killed.
THEOREM RecordsAlwaysTrue == Spec => []RecordsTrue
<1>1. PoolInv => RecordsTrue
  BY DEF PoolInv
<1> QED
  BY <1>1, PoolHolds, PTL

-----------------------------------------------------------------------------
(* The pool implements Delegations.                                        *)

LEMMA SameCardinality == \A S : Served!Cardinality(S) = Cardinality(S)
BY DEF Served!Cardinality, Cardinality

LEMMA DelegateAccepts ==
    ASSUME PoolInv, NEW o \in Delegators, Delegate(o)
    PROVE  \E i \in Ids : Served!Accept(i)
<1> DEFINE i == next_subagent_id
           free == SlotsLeft(Running) > 0
<1>1. TypeOK /\ i \in Ids /\ NoTrace(i)
  BY SubAgentsAssumption DEF Delegate, Ids, PoolInv, TypeOK
<1>2. i \notin Running /\ \A j \in pending_subagents : j < i
  BY <1>1 DEF PoolInv, IdsFresh, NoTrace, Running
<1>3. status' = [j \in Ids |-> IF free /\ j = i THEN "running" ELSE status[j]]
  BY <1>1 DEF Delegate, Set, TypeOK
<1>4. Running' = IF free THEN Running \cup {i} ELSE Running
  BY <1>1, <1>3 DEF Running, TypeOK
<1>5. free <=> Cardinality(Running) < MaxSubagents
  <2>1. Cardinality(Running) \in Nat
    BY IdsFinite DEF Running
  <2> QED
    BY <2>1, SubAgentsAssumption DEF SlotsLeft
<1>6. pending_subagents' = pending_subagents \cup (IF free THEN {} ELSE {i})
  BY DEF Delegate
<1> HIDE DEF i, free
<1>7. Served!Accept(i)
  BY <1>2, <1>4, <1>5, <1>6, SameCardinality DEF Served!Accept
<1> QED
  BY <1>1, <1>7

LEMMA DrainAdvances == ASSUME PoolInv, Drain PROVE Served!Advance
<1> DEFINE ended == {i \in Records : Settled(i) \in Ended}
           staying == Running \ ended
<1>1. PICK bad \in SUBSET pending_subagents :
      \E started \in SUBSET (pending_subagents \ bad) :
        /\ StartPending(staying, bad, started)
        /\ pending_subagents' = pending_subagents \ Popped(staying, started)
        /\ status' = [i \in Ids |-> IF i \in started THEN "running" ELSE Settled(i)]
  BY DEF Drain
<1>2. PICK started \in SUBSET (pending_subagents \ bad) :
        /\ StartPending(staying, bad, started)
        /\ pending_subagents' = pending_subagents \ Popped(staying, started)
        /\ status' = [i \in Ids |-> IF i \in started THEN "running" ELSE Settled(i)]
  BY <1>1
<1>3. TypeOK /\ staying \in SUBSET Ids
  BY DEF PoolInv, Running
<1>4. \A i \in Ids : Settled(i) = "running" => i \in Running
  BY <1>3, SettledType DEF Running
<1>5. Running' \subseteq Running \cup started
  BY <1>2, <1>4 DEF Running
<1> HIDE DEF staying
<1>6. started \subseteq Popped(staying, started)
  BY <1>2, <1>3, PoppedStarted
<1>7. \A i \in started, j \in pending_subagents' : i < j
  <2> SUFFICES ASSUME NEW i \in started, NEW j \in pending_subagents'
      PROVE  i < j
    OBVIOUS
  <2>1. i \in Int /\ j \in Int
    BY <1>2, <1>3, SubAgentsAssumption DEF TypeOK, Ids
  <2>2. ~(j <= i)
    BY <1>2 DEF Popped
  <2> QED
    BY <2>1, <2>2
<1>8. Cardinality(Running') <= MaxSubagents
  BY DrainInv DEF PoolInv, SlotsRespected
<1> QED
  BY <1>2, <1>5, <1>6, <1>7, <1>8, SameCardinality DEF Served!Advance

\* spawn_or_queue and drain_subagents serve delegations in the slots there are,
\* and those that wait in the order they were accepted.
THEOREM PoolImplements == Spec => FairlyServed
<1>1. Init => Served!Init
  BY DEF Init, Served!Init, Running
<1>2. ASSUME PoolInv, [Next]_vars
      PROVE  [Served!Next]_<<pending_subagents, Running>>
  <2>1. CASE \E o \in Delegators : Delegate(o)
    BY <1>2, <2>1, DelegateAccepts DEF Served!Next
  <2>2. CASE Drain
    BY <1>2, <2>2, DrainAdvances DEF Served!Next
  <2>3. CASE \E i \in Ids : Kill(i) \/ BrokerKill(i)
    <3>1. pending_subagents' \subseteq pending_subagents /\ Running' \subseteq Running
      BY <1>2, <2>3 DEF Kill, BrokerKill, Set, pool, Running, PoolInv, TypeOK
    <3> QED
      BY <3>1 DEF Served!Next, Served!GiveUp
  <2>4. CASE Interrupt \/ Restore
    <3>1. pending_subagents' \subseteq pending_subagents
      BY <2>4 DEF Interrupt, Restore
    <3>2. \A i \in Ids : status'[i] = "running" => status[i] = "running"
      <4>1. CASE Interrupt
        BY <1>2, <4>1 DEF Interrupt, AbortAgents, Set, PoolInv, TypeOK
      <4>2. CASE Restore
        BY <1>2, <4>2 DEF Restore, Set, PoolInv, TypeOK
      <4> QED
        BY <2>4, <4>1, <4>2
    <3>3. Running' \subseteq Running
      BY <3>2 DEF Running
    <3> QED
      BY <3>1, <3>3 DEF Served!Next, Served!GiveUp
  <2>5. CASE \E i \in Ids : Finish(i)
    BY <2>5 DEF Finish, pool, Running
  <2>6. CASE \E S \in {{i} : i \in Eligible} \cup {Eligible} : Background(S)
    BY <2>6 DEF Background, Running
  <2>7. CASE Wake
    BY <2>7 DEF Wake, agents, Running
  <2>8. CASE UNCHANGED vars
    BY <2>8 DEF vars, pool, agents, Running
  <2> QED
    BY <1>2, <2>1, <2>2, <2>3, <2>4, <2>5, <2>6, <2>7, <2>8 DEF Next
<1> QED
  BY <1>1, <1>2, PoolHolds, PTL DEF Spec, FairlyServed, Served!Spec

====
