---- MODULE SessionDaemon ----
(***************************************************************************)
(* Who owns a session: its daemon process, found through a socket, a       *)
(* pidfile and a lock file that clients, daemons and crashes leave behind. *)
(* Every access to one of the files is a step of its own.                  *)
(***************************************************************************)
CONSTANTS
    Clients,      \* processes that launch, restart, kill, sweep or look at the session
    Daemons,      \* process ids of daemons, each used once
    NoDaemon,     \* a file that does not exist
    Impatient,    \* SPAWN_CONNECT_TIMEOUT may pass before a daemon is up
    SlowTeardown  \* dropping the runtime may outlast the start of the next daemon

ASSUME DaemonAssumption ==
    /\ NoDaemon \notin Daemons
    /\ Impatient \in BOOLEAN /\ SlowTeardown \in BOOLEAN

VARIABLES
    phase,        \* where each daemon is between spawn and exit
    sock, pidfile, lock,   \* the daemon each file names
    pc, goal,     \* where each client is, and what it does
    child,        \* the daemon a client spawned last
    target        \* the pid a client read from the pidfile

files   == <<sock, pidfile, lock>>
clients == <<pc, goal, child, target>>
vars    == <<phase, files, clients>>

Starting  == {"starting", "locked", "recorded", "cleared"}
Listening == {"serving", "unlocked"}
Leaving   == {"closed", "swept"}
Phases    == {"unborn", "dead"} \cup Starting \cup Listening \cup Leaving
Goals     == {"launch", "restart", "kill", "clean", "look"}
Steps     == {"idle", "clear", "spawn", "await", "probe", "quit", "waitQuit", "pid",
              "waitTerm", "kill", "sweepSock", "sweepPid", "sweepLock"}

\* A connect to the socket succeeds: daemon_alive, the liveness oracle.
Accepting == sock \in Daemons /\ phase[sock] \in Listening

pid_alive(d) == d \in Daemons /\ phase[d] \notin {"unborn", "dead"}

Init ==
    /\ phase = [d \in Daemons |-> "unborn"]
    /\ sock = NoDaemon /\ pidfile = NoDaemon /\ lock = NoDaemon
    /\ pc = [c \in Clients |-> "idle"]
    /\ goal = [c \in Clients |-> "look"]
    /\ child = [c \in Clients |-> NoDaemon]
    /\ target = [c \in Clients |-> NoDaemon]

Goto(c, step) == pc' = [pc EXCEPT ![c] = step]
Move(d, from, to) == phase[d] = from /\ phase' = [phase EXCEPT ![d] = to]
Begin(c, g, step) == pc[c] = "idle" /\ goal' = [goal EXCEPT ![c] = g] /\ Goto(c, step)

-----------------------------------------------------------------------------
(* The daemon: run_daemon and install_daemon_session.                      *)

\* (Mutant: a lock file that is there, if stale, is left alone.)
TakeFreeLock(d) ==
    /\ Move(d, "starting", "locked")
    /\ lock' = IF lock = NoDaemon THEN d ELSE lock
    /\ UNCHANGED <<sock, pidfile, clients>>

TakeLock(d) ==
    /\ Move(d, "starting", "locked")
    /\ lock' = d
    /\ UNCHANGED <<sock, pidfile, clients>>

\* A daemon that is being torn down is gone before its successor gets here,
\* unless its teardown is slow.
Record(d) ==
    /\ SlowTeardown \/ \A e \in Daemons : phase[e] \notin Leaving
    /\ Move(d, "locked", "recorded")
    /\ pidfile' = d
    /\ UNCHANGED <<sock, lock, clients>>

\* bind removes the socket file, whosever it is,
UnlinkStale(d) ==
    /\ Move(d, "recorded", "cleared")
    /\ sock' = NoDaemon
    /\ UNCHANGED <<pidfile, lock, clients>>

\* and binds; with the address in use run_daemon returns the error.
Bind(d) ==
    /\ Move(d, "cleared", IF sock = NoDaemon THEN "serving" ELSE "dead")
    /\ sock' = IF sock = NoDaemon THEN d ELSE sock
    /\ UNCHANGED <<pidfile, lock, clients>>

\* daemon_loop returns, for QuitDaemon, a signal, or its own reasons:
\* shutdown_runtime removes the lock, the listener is still open.
Teardown(d) ==
    /\ Move(d, "serving", "unlocked")
    /\ lock' = NoDaemon
    /\ UNCHANGED <<sock, pidfile, clients>>

\* drop(rt) closes the listener, and waits for blocking work.
CloseListener(d) ==
    /\ Move(d, "unlocked", "closed")
    /\ UNCHANGED <<files, clients>>

RemoveSock(d) ==
    /\ Move(d, "closed", "swept")
    /\ sock' = NoDaemon
    /\ UNCHANGED <<pidfile, lock, clients>>

RemovePid(d) ==
    /\ Move(d, "swept", "dead")
    /\ pidfile' = NoDaemon
    /\ UNCHANGED <<sock, lock, clients>>

\* Also a second SIGTERM during teardown, and a start-up that fails.
Crash(d) ==
    /\ pid_alive(d)
    /\ phase' = [phase EXCEPT ![d] = "dead"]
    /\ UNCHANGED <<files, clients>>

-----------------------------------------------------------------------------
(* Launching: probe_or_clear, spawn_and_wait_until_alive.                  *)

\* Nothing is started when a daemon accepts.
Probe(c) ==
    /\ \/ Begin(c, "launch", IF sock = NoDaemon THEN "spawn" ELSE "clear") /\ ~Accepting
       \/ /\ pc[c] = "probe"
          /\ Goto(c, IF Accepting THEN "idle" ELSE IF sock = NoDaemon THEN "spawn" ELSE "clear")
          /\ UNCHANGED goal
    /\ UNCHANGED <<phase, files, child, target>>

Clear(c) ==
    /\ pc[c] = "clear"
    /\ sock' = NoDaemon
    /\ Goto(c, "spawn")
    /\ UNCHANGED <<phase, pidfile, lock, goal, child, target>>

Spawn(c, d) ==
    /\ pc[c] = "spawn"
    /\ Move(d, "unborn", "starting")
    /\ child' = [child EXCEPT ![c] = d]
    /\ Goto(c, "await")
    /\ UNCHANGED <<files, goal, target>>

AwaitAlive(c) ==
    /\ pc[c] = "await" /\ Accepting
    /\ Goto(c, "idle")
    /\ UNCHANGED <<phase, files, goal, child, target>>

\* SPAWN_CONNECT_TIMEOUT.
GiveUp(c) ==
    /\ pc[c] = "await" /\ ~Accepting
    /\ Impatient \/ ~pid_alive(child[c]) \/ phase[child[c]] \in Leaving
    /\ Goto(c, "idle")
    /\ UNCHANGED <<phase, files, goal, child, target>>

-----------------------------------------------------------------------------
(* Stopping: stop_session_daemon, for kill and as first half of restart.   *)

\* (Mutant: the files are unlinked without asking who listens.)
StopUnasked(c, g) ==
    /\ Begin(c, g, "sweepSock")
    /\ UNCHANGED <<phase, files, child, target>>

Stop(c, g) ==
    /\ Begin(c, g, IF Accepting THEN "quit" ELSE "sweepSock")
    /\ UNCHANGED <<phase, files, child, target>>

\* QuitDaemon is sent; the daemon may refuse it, or the send may fail.
SendQuit(c) ==
    /\ pc[c] = "quit"
    /\ Goto(c, "waitQuit") \/ Goto(c, "pid")
    /\ UNCHANGED <<phase, files, goal, child, target>>

\* (Mutant: the wait for a graceful exit is taken for the exit.)
WaitNoEscalation(c) ==
    /\ pc[c] = "waitQuit"
    /\ Goto(c, "sweepSock")
    /\ UNCHANGED <<phase, files, goal, child, target>>

\* wait_until_dead, with KILL_GRACE.
WaitQuit(c) ==
    /\ pc[c] = "waitQuit"
    /\ Goto(c, IF Accepting THEN "pid" ELSE "sweepSock")
    /\ UNCHANGED <<phase, files, goal, child, target>>

\* SIGTERM to the pid on file: its daemon may, or may not, begin its teardown.
SignalPid(c) ==
    /\ pc[c] = "pid"
    /\ Goto(c, IF pidfile = NoDaemon THEN "sweepSock" ELSE "waitTerm")
    /\ target' = [target EXCEPT ![c] = pidfile]
    /\ UNCHANGED <<phase, files, goal, child>>

\* (Mutant: the wait after SIGTERM has no deadline.)
WaitForever(c) ==
    /\ pc[c] = "waitTerm" /\ ~Accepting
    /\ Goto(c, "sweepSock")
    /\ UNCHANGED <<phase, files, goal, child, target>>

\* wait_until_dead, with SIGNAL_GRACE.
WaitTerm(c) ==
    /\ pc[c] = "waitTerm"
    /\ Goto(c, IF Accepting THEN "kill" ELSE "sweepSock")
    /\ UNCHANGED <<phase, files, goal, child, target>>

\* (Mutant: the last signal is one a daemon may ignore.)
KillPolitely(c) ==
    /\ pc[c] = "kill"
    /\ Goto(c, "sweepSock")
    /\ UNCHANGED <<phase, files, goal, child, target>>

\* SIGKILL, and the last wait.
Kill(c) ==
    /\ pc[c] = "kill"
    /\ phase' = [phase EXCEPT ![target[c]] = "dead"]
    /\ Goto(c, "sweepSock")
    /\ UNCHANGED <<files, goal, child, target>>

\* unlink_daemon_files.
SweepSock(c) ==
    /\ pc[c] = "sweepSock"
    /\ sock' = NoDaemon
    /\ Goto(c, "sweepPid")
    /\ UNCHANGED <<phase, pidfile, lock, goal, child, target>>

SweepPid(c) ==
    /\ pc[c] = "sweepPid"
    /\ pidfile' = NoDaemon
    /\ Goto(c, IF goal[c] = "restart" THEN "probe" ELSE "idle")
    /\ UNCHANGED <<phase, sock, lock, goal, child, target>>

-----------------------------------------------------------------------------
(* Sweeping: sweep_stale_files for a dead daemon, is_locked for its lock.  *)

\* (Mutant: a daemon that accepts is swept too.)
CleanLive(c) ==
    /\ Begin(c, "clean", IF sock = NoDaemon THEN "sweepPid" ELSE "sweepSock")
    /\ UNCHANGED <<phase, files, child, target>>

Clean(c) ==
    /\ ~Accepting
    /\ Begin(c, "clean", IF sock = NoDaemon THEN "sweepPid" ELSE "sweepSock")
    /\ UNCHANGED <<phase, files, child, target>>

is_locked(c) ==
    /\ lock /= NoDaemon /\ ~pid_alive(lock)
    /\ Begin(c, "look", "sweepLock")
    /\ UNCHANGED <<phase, files, child, target>>

SweepLock(c) ==
    /\ pc[c] = "sweepLock"
    /\ lock' = NoDaemon
    /\ Goto(c, "idle")
    /\ UNCHANGED <<phase, sock, pidfile, goal, child, target>>

-----------------------------------------------------------------------------

Start(d) == TakeLock(d) \/ Record(d) \/ UnlinkStale(d) \/ Bind(d)
Leave(d) == CloseListener(d) \/ RemoveSock(d) \/ RemovePid(d)

Proceed(c) ==
    \/ Clear(c) \/ AwaitAlive(c) \/ GiveUp(c)
    \/ \E d \in Daemons : Spawn(c, d)
    \/ SendQuit(c) \/ WaitQuit(c) \/ SignalPid(c) \/ WaitTerm(c) \/ Kill(c)
    \/ SweepSock(c) \/ SweepPid(c) \/ SweepLock(c)

Next ==
    \/ \E d \in Daemons : Start(d) \/ Teardown(d) \/ Leave(d) \/ Crash(d)
    \/ \E c \in Clients : Proceed(c) \/ Probe(c) \/ Clean(c) \/ is_locked(c)
    \/ \E c \in Clients, g \in {"kill", "restart"} : Stop(c, g)

Spec == Init /\ [][Next]_vars

\* A process runs, and a client's waits are bounded by their timeouts.
FairSpec ==
    /\ Spec
    /\ \A d \in Daemons : WF_vars(Start(d)) /\ WF_vars(Leave(d))
    /\ \A c \in Clients : WF_vars(Proceed(c)) /\ WF_vars(pc[c] = "probe" /\ Probe(c))

====
