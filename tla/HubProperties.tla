---- MODULE HubProperties ----
(* What the hub and the shadows of its clients must do.                    *)
EXTENDS Hub, TLC

Symmetry == Permutations(Clients)

\* While anybody is enrolled exactly one of them holds the controller's seat,
\* whatever order clients come, leave and die in: deregister passes it on.
OneController ==
    /\ controller \subseteq Enrolled
    /\ clients /= <<>> => \E c \in Enrolled : controller = {c}

\* A connection that has ended, and of which all was handled, is enrolled no
\* more, whether it detached or died: it would keep the daemon alive for ever.
NoGhost ==
    \A c \in Clients : conn[c] = "closed" /\ requests[c] = <<>> => c \notin Enrolled

\* The daemon never leaves on its own while somebody is connected: a client
\* that came during the grace is seen by the last drain.
ExitsAlone == [][up /\ ~up' => \A c \in Clients : conn[c] /= "open"]_vars

\* c has had a snapshot, has folded all it was sent since and missed nothing.
Current(c) ==
    /\ conn[c] = "open" /\ c \in attached /\ frames[c] = <<>>
    /\ shadow[c] /= NoView /\ ~awaiting_resync[c] /\ expected[c] = last_seq[c] + 1

\* v shows what w shows; a hidden agent's output is not shown.
Agrees(c, v, w) ==
    /\ v.page = w.page /\ v.stream = w.stream /\ v.input = w.input
    /\ Shown(c, w) => v.agent = w.agent

\* The hub diffs against what it last sent, never against what a client holds:
\* a client that is current shows what the hub thinks it does, through resets
\* of the buffer, lost frames, resyncs and agents that come into view. One that
\* is watched as of now is due with the next pass.
ShadowTrue ==
    \A c \in Clients : Current(c) =>
        \/ Agrees(c, shadow[c], baseline[c])
        \/ force_resync /\ Agrees(c, [shadow[c] EXCEPT !.agent = baseline[c].agent], baseline[c])

\* What the differ passes over can be seen by nobody: a current client to whom
\* stream_deltas would send nothing shows the session as it is.
NothingMissing ==
    \A c \in Clients : Current(c) /\ Owed(c) = <<>> => Agrees(c, shadow[c], view)

\* A client that waits for a snapshot has asked for one that is still to come,
\* unless a second frame is lost: apply_frame asks once.
SnapshotComes ==
    \A c \in Clients : awaiting_resync[c] /\ conn[c] = "open" /\ losses <= 1 =>
        \/ "resync" \in Range(requests[c])
        \/ \E i \in DOMAIN frames[c] : frames[c][i].event = "snapshot"

====
