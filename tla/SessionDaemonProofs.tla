---- MODULE SessionDaemonProofs ----
(***************************************************************************)
(* One process at a time owns a session, for any number of daemons: proved *)
(* for commands that are given one at a time, whose spawn timeout outlasts *)
(* a start-up, over daemons whose teardown does not outlast one either.    *)
(***************************************************************************)
EXTENDS SessionDaemonProperties, TLAPS

OneCommandAtATime == \A b, c \in Clients : b = c
Calm == OneCommandAtATime /\ ~Impatient /\ ~SlowTeardown

USE DEF files, clients

LEMMA InvInit == Init => DaemonInv
BY DaemonAssumption DEF Init, DaemonInv, TypeOK, OneAtATime, Awaited, Recorded, LeftBefore, NothingUp,
   Phases, Starting, Listening, Leaving, Steps, Goals

\* Every step keeps the invariant, one action at a time.
LEMMA InvStep == ASSUME DaemonInv, [Next]_vars, Calm PROVE DaemonInv'
<1> USE DaemonAssumption DEF DaemonInv, Calm, OneCommandAtATime, TypeOK, Phases, Starting, Listening, Leaving, Steps, Goals, OneAtATime, Awaited, Recorded, LeftBefore, NothingUp, Move, Goto, Begin, Accepting, pid_alive
<1>1. ASSUME NEW d \in Daemons, TakeLock(d) PROVE DaemonInv'
  BY <1>1 DEF TakeLock
<1>2. ASSUME NEW d \in Daemons, Record(d) PROVE DaemonInv'
  BY <1>2 DEF Record
<1>3. ASSUME NEW d \in Daemons, UnlinkStale(d) PROVE DaemonInv'
  BY <1>3 DEF UnlinkStale
<1>4. ASSUME NEW d \in Daemons, Bind(d) PROVE DaemonInv'
  BY <1>4 DEF Bind
<1>5. ASSUME NEW d \in Daemons, Teardown(d) PROVE DaemonInv'
  BY <1>5 DEF Teardown
<1>6. ASSUME NEW d \in Daemons, CloseListener(d) PROVE DaemonInv'
  BY <1>6 DEF CloseListener
<1>7. ASSUME NEW d \in Daemons, RemoveSock(d) PROVE DaemonInv'
  BY <1>7 DEF RemoveSock
<1>8. ASSUME NEW d \in Daemons, RemovePid(d) PROVE DaemonInv'
  BY <1>8 DEF RemovePid
<1>9. ASSUME NEW d \in Daemons, Crash(d) PROVE DaemonInv'
  BY <1>9 DEF Crash
<1>10. ASSUME NEW c \in Clients, Clear(c) PROVE DaemonInv'
  BY <1>10 DEF Clear
<1>11. ASSUME NEW c \in Clients, AwaitAlive(c) PROVE DaemonInv'
  BY <1>11 DEF AwaitAlive
<1>12. ASSUME NEW c \in Clients, GiveUp(c) PROVE DaemonInv'
  BY <1>12 DEF GiveUp
<1>13. ASSUME NEW c \in Clients, SendQuit(c) PROVE DaemonInv'
  BY <1>13 DEF SendQuit
<1>14. ASSUME NEW c \in Clients, WaitQuit(c) PROVE DaemonInv'
  BY <1>14 DEF WaitQuit
<1>15. ASSUME NEW c \in Clients, SignalPid(c) PROVE DaemonInv'
  BY <1>15 DEF SignalPid
<1>16. ASSUME NEW c \in Clients, WaitTerm(c) PROVE DaemonInv'
  BY <1>16 DEF WaitTerm
<1>17. ASSUME NEW c \in Clients, Kill(c) PROVE DaemonInv'
  BY <1>17 DEF Kill
<1>18. ASSUME NEW c \in Clients, SweepSock(c) PROVE DaemonInv'
  BY <1>18 DEF SweepSock
<1>19. ASSUME NEW c \in Clients, SweepPid(c) PROVE DaemonInv'
  BY <1>19 DEF SweepPid
<1>20. ASSUME NEW c \in Clients, SweepLock(c) PROVE DaemonInv'
  BY <1>20 DEF SweepLock
<1>21. ASSUME NEW c \in Clients, Probe(c) PROVE DaemonInv'
  BY <1>21 DEF Probe
<1>22. ASSUME NEW c \in Clients, Clean(c) PROVE DaemonInv'
  BY <1>22 DEF Clean
<1>23. ASSUME NEW c \in Clients, is_locked(c) PROVE DaemonInv'
  BY <1>23 DEF is_locked
<1>24. ASSUME NEW c \in Clients, NEW d \in Daemons, Spawn(c, d) PROVE DaemonInv'
  BY <1>24 DEF Spawn
<1>25. ASSUME NEW c \in Clients, NEW g \in {"kill", "restart"}, Stop(c, g) PROVE DaemonInv'
  BY <1>25 DEF Stop
<1>26. CASE UNCHANGED vars
  BY <1>26 DEF vars
<1> QED
  BY <1>1, <1>2, <1>3, <1>4, <1>5, <1>6, <1>7, <1>8, <1>9, <1>10, <1>11, <1>12, <1>13, <1>14, <1>15, <1>16, <1>17, <1>18, <1>19, <1>20, <1>21, <1>22, <1>23, <1>24, <1>25, <1>26 DEF Next, Start, Leave, Proceed

\* The inductive invariant of the lifecycle holds of every behaviour.
THEOREM DaemonsInOrder == ASSUME Calm PROVE Spec => []DaemonInv
<1>1. DaemonInv /\ [Next]_vars => DaemonInv'
  BY InvStep
<1> QED
  BY <1>1, InvInit, PTL DEF Spec

\* At most one process holds the listener of a session.
THEOREM OneOwnerAlways == ASSUME Calm PROVE Spec => []OneOwner
<1>1. DaemonInv => OneOwner
  BY DEF DaemonInv, OneAtATime, OneOwner, Owners
<1> QED
  BY <1>1, DaemonsInOrder, PTL

\* No cleanup orphans a daemon that owns the session.
THEOREM NobodyIsOrphaned == ASSUME Calm PROVE Spec => []LiveIsReachable
<1>1. DaemonInv => LiveIsReachable
  BY DEF DaemonInv, Recorded, LiveIsReachable, Owners
<1> QED
  BY <1>1, DaemonsInOrder, PTL

\* The lock names the daemon that serves the session.
THEOREM LockIsTheDaemons == ASSUME Calm PROVE Spec => []LockTells
<1>1. DaemonInv => LockTells
  BY DEF DaemonInv, Recorded, LockTells
<1> QED
  BY <1>1, DaemonsInOrder, PTL

\* When the escalation of a stop is done, nobody owns the session.
THEOREM StopStops == ASSUME Calm PROVE Spec => StopLeavesNoOwner
<1> DEFINE Done == \A c \in Clients :
             pc[c] = "sweepPid" /\ pc'[c] /= "sweepPid" => Owners' = {}
<1>1. ASSUME DaemonInv, DaemonInv', [Next]_vars PROVE Done
  <2>1. SUFFICES ASSUME NEW c \in Clients, pc[c] = "sweepPid", pc'[c] /= "sweepPid"
                 PROVE  Owners' = {}
    OBVIOUS
  <2>2. SweepPid(c)
    BY <1>1, <2>1 DEF DaemonInv, TypeOK, Next, Start, Leave, Proceed, vars, TakeLock, Record,
       UnlinkStale, Bind, Teardown, CloseListener, RemoveSock, RemovePid, Crash, Probe, Clear, Spawn,
       AwaitAlive, GiveUp, Stop, SendQuit, WaitQuit, SignalPid, WaitTerm, Kill, SweepSock, SweepPid,
       Clean, is_locked, SweepLock, Begin, Goto
  <2>3. \A d \in Daemons : phase[d] \notin Listening
    BY <1>1, <2>1 DEF DaemonInv, NothingUp
  <2> QED
    BY <2>2, <2>3 DEF SweepPid, Owners
<1> QED
  BY <1>1, DaemonsInOrder, PTL DEF Spec, StopLeavesNoOwner

-----------------------------------------------------------------------------

\* A daemon that moves while nobody starts or stops listening or retires.
LEMMA OwnStutters ==
    ASSUME \A d \in Daemons : /\ phase'[d] \in Listening <=> phase[d] \in Listening
                              /\ phase'[d] \in Leaving \cup {"dead"} <=> phase[d] \in Leaving \cup {"dead"}
    PROVE  UNCHANGED <<Owners, {d \in Daemons : phase[d] \in Leaving \cup {"dead"}}>>
BY DEF Owners

\* Every step of the files and processes is one of the abstract owner, or none.
LEMMA OwnStep ==
    ASSUME DaemonInv, DaemonInv', [Next]_vars, Calm
    PROVE  [Own!Next]_<<Owners, {d \in Daemons : phase[d] \in Leaving \cup {"dead"}}>>
<1> DEFINE retired == {d \in Daemons : phase[d] \in Leaving \cup {"dead"}}
<1> USE DEF DaemonInv, TypeOK, Phases, Starting, Listening, Leaving, Move
<1>1. ASSUME NEW d \in Daemons, Bind(d) PROVE Own!Next
  <2>1. sock = NoDaemon /\ \A e \in Daemons : phase[e] \notin Listening
    BY <1>1 DEF Bind, Recorded, OneAtATime
  <2>2. Own!Acquire(d)
    BY <1>1, <2>1 DEF Bind, Own!Acquire, Owners
  <2> QED
    BY <2>2 DEF Own!Next
<1>2. ASSUME NEW d \in Daemons, phase[d] \in Listening, phase'[d] \in Leaving \cup {"dead"},
             phase' = [phase EXCEPT ![d] = phase'[d]]
      PROVE  Own!Next
  <2>1. Own!Release(d)
    BY <1>2 DEF Own!Release, Owners
  <2> QED
    BY <2>1 DEF Own!Next
<1>3. ASSUME NEW d \in Daemons, phase[d] \in Starting \cup {"unborn"}, phase'[d] = "dead",
             phase' = [phase EXCEPT ![d] = "dead"]
      PROVE  Own!Next
  <2>1. Own!Discard(d)
    BY <1>3 DEF Own!Discard, Owners
  <2> QED
    BY <2>1 DEF Own!Next
<1>4. ASSUME NEW d \in Daemons, phase' = [phase EXCEPT ![d] = "dead"]
      PROVE  Own!Next \/ UNCHANGED <<Owners, retired>>
  <2>1. CASE phase[d] \in Leaving \cup {"dead"}
    BY <1>4, <2>1, OwnStutters
  <2> QED
    BY <1>2, <1>3, <1>4, <2>1
<1>5. ASSUME NEW d \in Daemons, TakeLock(d) \/ Record(d) \/ UnlinkStale(d) \/ Teardown(d) \/ RemoveSock(d) \/ RemovePid(d)
      PROVE  UNCHANGED <<Owners, retired>>
  BY <1>5, OwnStutters DEF TakeLock, Record, UnlinkStale, Teardown, RemoveSock, RemovePid
<1>6. ASSUME NEW d \in Daemons, CloseListener(d) PROVE Own!Next
  BY <1>2, <1>6 DEF CloseListener
<1>7. ASSUME NEW d \in Daemons, Crash(d) PROVE Own!Next \/ UNCHANGED <<Owners, retired>>
  BY <1>4, <1>7 DEF Crash
<1>8. ASSUME NEW c \in Clients, Kill(c) PROVE Own!Next \/ UNCHANGED <<Owners, retired>>
  <2>1. target[c] \in Daemons
    BY <1>8 DEF Kill, NothingUp
  <2> QED
    BY <1>4, <1>8, <2>1 DEF Kill
<1>9. ASSUME NEW c \in Clients, NEW d \in Daemons, Spawn(c, d) PROVE UNCHANGED <<Owners, retired>>
  BY <1>9, OwnStutters DEF Spawn
<1>10. CASE UNCHANGED phase
  BY <1>10, OwnStutters
<1>11. ASSUME NEW c \in Clients,
              \/ Clear(c) \/ AwaitAlive(c) \/ GiveUp(c) \/ SendQuit(c) \/ WaitQuit(c) \/ SignalPid(c)
              \/ WaitTerm(c) \/ SweepSock(c) \/ SweepPid(c) \/ SweepLock(c) \/ Probe(c) \/ Clean(c)
              \/ is_locked(c) \/ (\E g \in {"kill", "restart"} : Stop(c, g))
       PROVE  UNCHANGED phase
  BY <1>11 DEF Clear, AwaitAlive, GiveUp, SendQuit, WaitQuit, SignalPid, WaitTerm, SweepSock, SweepPid,
     SweepLock, Probe, Clean, is_locked, Stop
<1> QED
  BY <1>1, <1>5, <1>6, <1>7, <1>8, <1>9, <1>10, <1>11 DEF Next, Start, Leave, Proceed, vars

\* The lifecycle implements exclusive ownership of the session.
THEOREM Implements == ASSUME Calm PROVE Spec => ExclusiveOwnership
<1>1. Init => Own!Init
  BY DEF Init, Own!Init, Owners, Listening, Leaving
<1>2. DaemonInv /\ DaemonInv' /\ [Next]_vars =>
          [Own!Next]_<<Owners, {d \in Daemons : phase[d] \in Leaving \cup {"dead"}}>>
  BY OwnStep
<1> QED
  BY <1>1, <1>2, DaemonsInOrder, PTL DEF Spec, Own!Spec, ExclusiveOwnership

====
