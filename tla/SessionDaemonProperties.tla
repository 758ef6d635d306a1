---- MODULE SessionDaemonProperties ----
(***************************************************************************)
(* What the lifecycle of a session's daemon promises, and the inductive    *)
(* invariant behind it.                                                    *)
(***************************************************************************)
EXTENDS SessionDaemon

TypeOK ==
    /\ phase \in [Daemons -> Phases]
    /\ {sock, pidfile, lock} \subseteq Daemons \cup {NoDaemon}
    /\ pc \in [Clients -> Steps] /\ goal \in [Clients -> Goals]
    /\ child \in [Clients -> Daemons \cup {NoDaemon}]
    /\ target \in [Clients -> Daemons \cup {NoDaemon}]

Owners == {d \in Daemons : phase[d] \in Listening}

\* At most one process holds a listener for the session, so that its state has
\* one writer (server.rs: bind is the liveness oracle).
OneOwner == \A d, e \in Owners : d = e

\* A daemon that owns the session can be reached through the socket and
\* signalled through the pidfile: nobody's cleanup has orphaned it.
LiveIsReachable == \A d \in Owners : sock = d /\ pidfile = d

\* The lock names the daemon that serves the session, so that no picker calls
\* the session free: no sweep of a stale lock has taken a live one.
LockTells == \A d \in Daemons : phase[d] = "serving" => lock = d

\* When stop_session_daemon is done (restart goes on to spawn, kill reports),
\* no daemon owns the session: the escalation ends with it dead.
StopLeavesNoOwner ==
    [][\A c \in Clients :
         pc[c] = "sweepPid" /\ pc'[c] /= "sweepPid" => Owners' = {}]_vars

\* A client's command returns, whatever the daemons do: every wait has a
\* deadline. (The bound: ids for daemons may run out.)
ClientReturns ==
    \A c \in Clients :
        pc[c] /= "idle" ~>
            \/ pc[c] = "idle"
            \/ pc[c] = "spawn" /\ \A d \in Daemons : phase[d] /= "unborn"

\* The files, signals and timeouts implement exclusive ownership: owners are
\* the listeners, a process whose listener is gone never owns again.
Own == INSTANCE Ownership WITH
           owners  <- Owners,
           retired <- {d \in Daemons : phase[d] \in Leaving \cup {"dead"}}
ExclusiveOwnership == Own!Spec

-----------------------------------------------------------------------------

\* One daemon at a time starts or owns the session, and its client waits for it.
OneAtATime == \A d, e \in Daemons :
    phase[d] \in Starting \cup Listening /\ phase[e] \in Starting \cup Listening => d = e

Awaited == \A d \in Daemons :
    phase[d] \in Starting => \E c \in Clients : pc[c] = "await" /\ child[c] = d

\* What a starting daemon has written so far is still there.
Recorded == \A d \in Daemons :
    /\ phase[d] \in {"locked", "recorded", "cleared", "serving"} => lock = d
    /\ phase[d] \in {"recorded", "cleared"} \cup Listening => pidfile = d
    /\ phase[d] = "cleared" => sock = NoDaemon
    /\ phase[d] \in Listening => sock = d

\* A daemon that leaves is gone before the next one touches its files.
LeftBefore == \A d, e \in Daemons :
    phase[d] \in Leaving => phase[e] \notin {"recorded", "cleared"} \cup Listening

\* A client about to spawn or to unlink files knows that nothing is up.
NothingUp == \A c \in Clients :
    /\ pc[c] \in {"clear", "spawn", "sweepSock", "sweepPid"} =>
           \A d \in Daemons : phase[d] \notin Starting \cup Listening
    /\ pc[c] = "sweepLock" => \A d \in Daemons : phase[d] \notin Starting \cup {"serving"}
    /\ pc[c] \in {"waitTerm", "kill"} =>
           target[c] \in Daemons /\ \A d \in Daemons : phase[d] \in Listening => target[c] = d

DaemonInv == TypeOK /\ OneAtATime /\ Awaited /\ Recorded /\ LeftBefore /\ NothingUp

====
