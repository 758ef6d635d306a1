---- MODULE Hub ----
(***************************************************************************)
(* The hub of a session daemon and the shadows of its clients: what each   *)
(* client was sent last is diffed against the live view, the differences   *)
(* travel as numbered frames, and the client folds them into its shadow.   *)
(* A client is one connection; the daemon's loop is one thread.            *)
(***************************************************************************)
EXTENDS Naturals, Sequences, Functions

CONSTANTS
    Clients,    \* connections, each used once
    Tokens,     \* of the stream
    NoView,     \* a shadow or baseline before the first snapshot
    NoStream,   \* no stream buffer
    Grace,      \* SELF_EXIT_GRACE_TICKS
    MaxLength,  \* bound: tokens of a stream
    MaxEvents,  \* bound: changes of the view, and requests about what is shown
    MaxLosses   \* frames that cannot be serialised

Streams == {NoStream} \cup Seq(Tokens)

\* page stands for all that only a full snapshot carries, the viewer of agents
\* among it; agent for what a detached agent has written.
Views == [page : {"chat", "viewer"}, stream : Streams, input : BOOLEAN, agent : BOOLEAN]

ASSUME HubAssumption ==
    /\ Grace \in Nat \ {0} /\ MaxLength \in Nat /\ MaxEvents \in Nat /\ MaxLosses \in Nat
    /\ NoStream \notin Seq(Tokens) /\ NoView \notin Views

VARIABLES
    view,         \* the live projection of the session
    closed,       \* every session is closed
    clients,      \* enrolled, in order
    controller, attached, streaming,   \* those that hold the seat, get deltas, view the agent
    baseline,     \* last_snapshot
    last_seq, force_resync,
    quiesce_ticks, up,                 \* daemon_loop runs
    requests, frames,                  \* in flight, by client
    conn, seeded, expected, awaiting_resync, shadow,   \* by client
    events, losses

session == <<view, closed>>
hub     == <<clients, controller, attached, streaming, baseline, last_seq, force_resync>>
loop    == <<quiesce_ticks, up>>
wire    == <<requests, frames>>
peer    == <<conn, seeded, expected, awaiting_resync, shadow>>
bounds  == <<events, losses>>
vars    == <<session, hub, loop, wire, peer, bounds>>

Enrolled == Range(clients)

Init ==
    /\ view = [page |-> "chat", stream |-> NoStream, input |-> FALSE, agent |-> FALSE]
    /\ closed = FALSE
    /\ clients = <<>> /\ controller = {} /\ attached = {} /\ streaming = {}
    /\ baseline = [c \in Clients |-> NoView]
    /\ last_seq = [c \in Clients |-> 0]
    /\ force_resync = FALSE
    /\ quiesce_ticks = 0 /\ up = TRUE
    /\ requests = [c \in Clients |-> <<>>]
    /\ frames = [c \in Clients |-> <<>>]
    /\ conn = [c \in Clients |-> "new"]
    /\ seeded = [c \in Clients |-> FALSE]
    /\ expected = [c \in Clients |-> 0]
    /\ awaiting_resync = [c \in Clients |-> FALSE]
    /\ shadow = [c \in Clients |-> NoView]
    /\ events = 0 /\ losses = 0

-----------------------------------------------------------------------------
(* The session moves.                                                      *)

Event == events < MaxEvents /\ events' = events + 1 /\ UNCHANGED losses

Grown(from) ==
    IF from = NoStream THEN {<<>>}
    ELSE {NoStream, <<>>} \cup {Append(from, t) : t \in {u \in Tokens : Len(from) < MaxLength}}

Change ==
    /\ up /\ ~closed /\ Event
    /\ \/ \E s \in Grown(view.stream) : view' = [view EXCEPT !.stream = s]
       \/ \E p \in {"chat", "viewer"} : view' = [view EXCEPT !.page = p]
       \/ view' = [view EXCEPT !.input = ~@]
       \/ view' = [view EXCEPT !.agent = ~@]
    /\ UNCHANGED <<closed, hub, loop, wire, peer>>

CloseSessions ==
    /\ up /\ closed' = TRUE
    /\ UNCHANGED <<view, hub, loop, wire, peer, bounds>>

-----------------------------------------------------------------------------
(* Deltas.                                                                 *)

Extends(p, n) == Len(p) <= Len(n) /\ SubSeq(n, 1, Len(p)) = p

Text(s) == IF s = NoStream THEN <<>> ELSE s

\* (Mutant: no buffer and an empty one are alike.)
IsResetOfText(p, n) == ~Extends(Text(p), Text(n))

\* append_suffix: only a buffer that grew is no reset.
IsReset(p, n) == (p = NoStream) /= (n = NoStream) \/ ~Extends(Text(p), Text(n))

\* An agent that is detached is compared where it is shown: in the viewer, or
\* to a client that streams it.
Shown(c, v) == v.page = "viewer" \/ c \in streaming

\* (Mutant: the tab of a client is forgotten.)
NeedsFullInViewer(c, prev, next) ==
    \/ prev.page /= next.page
    \/ next.page = "viewer" /\ prev.agent /= next.agent
    \/ IsReset(prev.stream, next.stream)

\* diff_for_client: what no delta carries.
NeedsFull(c, prev, next) ==
    \/ prev.page /= next.page
    \/ Shown(c, next) /\ prev.agent /= next.agent
    \/ IsReset(prev.stream, next.stream)

Suffix(p, n) == SubSeq(Text(n), Len(Text(p)) + 1, Len(Text(n)))

Deltas(prev, next) ==
    (IF Suffix(prev.stream, next.stream) = <<>> THEN <<>>
     ELSE <<[event |-> "append", body |-> Suffix(prev.stream, next.stream)]>>)
    \o (IF prev.input = next.input THEN <<>>
        ELSE <<[event |-> "input", body |-> next.input]>>)

\* apply_snapshot and apply_delta, on a shadow that need not be the right one.
Apply(e, v) ==
    CASE e.event = "snapshot" -> e.body
      [] e.event = "append" /\ v /= NoView ->
            [v EXCEPT !.stream = Text(@) \o e.body]
      [] e.event = "input" /\ v /= NoView -> [v EXCEPT !.input = e.body]
      [] OTHER -> v

Snapshot == [event |-> "snapshot", body |-> view]
Hello    == [event |-> "hello", body |-> NoView]
Ack      == [event |-> "ack", body |-> NoView]

\* send_to, for a list of events: each takes the client's next number, unless
\* the client has gone.
Numbered(es, n) ==
    [i \in DOMAIN es |-> [seq |-> n + i, event |-> es[i].event, body |-> es[i].body]]

Sends(es) ==
    /\ frames' = [c \in Clients |->
            IF conn[c] = "open" THEN frames[c] \o Numbered(es[c], last_seq[c]) ELSE frames[c]]
    /\ last_seq' = [c \in Clients |->
            IF conn[c] = "open" THEN last_seq[c] + Len(es[c]) ELSE last_seq[c]]

Send(c, es) == Sends([d \in Clients |-> IF d = c THEN es ELSE <<>>])

-----------------------------------------------------------------------------
(* Requests, handled by the daemon's thread in the order they were sent.   *)

Seat(c) == CHOOSE i \in DOMAIN clients : clients[i] = c

\* Everybody but c, in order.
Rest(c) ==
    [i \in 1 .. Len(clients) - 1 |-> IF i < Seat(c) THEN clients[i] ELSE clients[i + 1]]

\* (Mutant: the seat leaves with its holder.)
NobodyElected(c) == controller \ {c}

\* The first of the others takes the seat.
Elected(c) ==
    IF controller = {c} /\ Rest(c) /= <<>> THEN {Head(Rest(c))} ELSE controller \ {c}

Deregister(c) ==
    /\ clients' = Rest(c)
    /\ controller' = Elected(c)
    /\ attached' = attached \ {c}
    /\ streaming' = streaming \ {c}

Register(c) ==
    /\ clients' = Append(clients, c)
    /\ controller' = IF clients = <<>> THEN {c} ELSE controller
    /\ UNCHANGED <<attached, streaming, baseline, last_seq, force_resync, frames>>

\* attach and resync: the snapshot sent is the client's new baseline.
Reseed(c, es) ==
    /\ Send(c, es)
    /\ attached' = attached \cup {c}
    /\ baseline' = [baseline EXCEPT ![c] = view]
    /\ UNCHANGED <<clients, controller, streaming, force_resync>>

SetStreamView(c, watch) ==
    /\ streaming' = IF watch THEN streaming \cup {c} ELSE streaming \ {c}
    /\ force_resync' = (force_resync \/ streaming' /= streaming)
    /\ Send(c, <<Ack>>)
    /\ UNCHANGED <<clients, controller, attached, baseline>>

Interrupt(c) ==
    /\ force_resync' = TRUE
    /\ Send(c, <<Ack>>)
    /\ UNCHANGED <<clients, controller, attached, streaming, baseline>>

\* (Mutant: only those that say so are struck off.)
GoesPolitely(c, req) ==
    /\ IF req = "detach" THEN Deregister(c)
       ELSE UNCHANGED <<clients, controller, attached, streaming>>
    /\ UNCHANGED <<baseline, last_seq, force_resync, frames>>

\* Detach and Disconnect.
Goes(c, req) == Deregister(c) /\ UNCHANGED <<baseline, last_seq, force_resync, frames>>

Handle(c) ==
    /\ up /\ requests[c] /= <<>>
    /\ requests' = [requests EXCEPT ![c] = Tail(@)]
    /\ LET req == Head(requests[c]) IN
       \/ req = "register" /\ Register(c)
       \/ req /= "register" /\ c \notin Enrolled /\ UNCHANGED <<hub, frames>>
       \/ /\ c \in Enrolled
          /\ \/ req = "attach" /\ Reseed(c, <<Hello, Snapshot>>)
             \/ req = "resync" /\ Reseed(c, <<Snapshot>>)
             \/ req = "watch" /\ SetStreamView(c, TRUE)
             \/ req = "unwatch" /\ SetStreamView(c, FALSE)
             \/ req = "interrupt" /\ Interrupt(c)
             \/ req \in {"detach", "disconnect"} /\ Goes(c, req)
    /\ UNCHANGED <<session, loop, peer, bounds>>

-----------------------------------------------------------------------------
(* The rest of a tick.                                                     *)

NextBaseline(c, es) == IF es = <<>> THEN baseline[c] ELSE view

Owed(c) ==
    IF c \notin attached THEN <<>>
    ELSE IF force_resync \/ NeedsFull(c, baseline[c], view) THEN <<Snapshot>>
    ELSE Deltas(baseline[c], view)

\* stream_deltas. force_resync waits for somebody to be attached.
Stream ==
    /\ up /\ attached /= {}
    /\ LET es == [c \in Clients |-> Owed(c)] IN
       /\ Sends(es)
       /\ baseline' = [c \in Clients |-> NextBaseline(c, es[c])]
    /\ force_resync' = FALSE
    /\ UNCHANGED <<session, clients, controller, attached, streaming, loop, requests, peer, bounds>>

\* (Mutant: nobody looks for a connection that came in the meantime.)
NoRecheck == TRUE

\* The bridge is drained once more before the loop ends; Handle drains it.
Recheck == \A c \in Clients : requests[c] = <<>>

\* daemon_loop: a second without a session or a client.
QuiesceTick ==
    /\ up
    /\ \/ /\ ~(closed /\ clients = <<>>)
          /\ quiesce_ticks' = 0 /\ up' = TRUE
       \/ /\ closed /\ clients = <<>> /\ quiesce_ticks + 1 < Grace
          /\ quiesce_ticks' = quiesce_ticks + 1 /\ up' = TRUE
       \/ /\ closed /\ clients = <<>> /\ quiesce_ticks + 1 >= Grace /\ Recheck
          /\ quiesce_ticks' = quiesce_ticks + 1 /\ up' = FALSE
    /\ UNCHANGED <<session, hub, wire, peer, bounds>>

-----------------------------------------------------------------------------
(* Clients.                                                                *)

\* The accept loop enrolls a connection; the client attaches at once.
Connect(c) ==
    /\ up /\ conn[c] = "new"
    /\ conn' = [conn EXCEPT ![c] = "open"]
    /\ requests' = [requests EXCEPT ![c] = <<"register", "attach">>]
    /\ UNCHANGED <<session, hub, loop, frames, seeded, expected, awaiting_resync, shadow, bounds>>

Ask(c) ==
    /\ conn[c] = "open" /\ Event
    /\ \E req \in {"watch", "unwatch", "interrupt"} :
          requests' = [requests EXCEPT ![c] = Append(@, req)]
    /\ UNCHANGED <<session, hub, loop, frames, peer>>

\* A client that leaves says so, one that dies does not; its socket's end is
\* reported either way.
Leave(c) ==
    /\ conn[c] = "open"
    /\ conn' = [conn EXCEPT ![c] = "closed"]
    /\ \E last \in {<<"detach", "disconnect">>, <<"disconnect">>} :
          requests' = [requests EXCEPT ![c] = @ \o last]
    /\ frames' = [frames EXCEPT ![c] = <<>>]
    /\ UNCHANGED <<session, hub, loop, seeded, expected, awaiting_resync, shadow, bounds>>

\* The handshake takes the Hello before the client counts frames.
Handshake(c, f) ==
    /\ ~seeded[c] /\ f.event = "hello"
    /\ UNCHANGED <<requests, peer>>

\* (Mutant: the flag is raised before it is tested.)
AskedNever(c) == requests

\* A client asks once.
AskedIn(c) ==
    IF awaiting_resync[c] THEN requests ELSE [requests EXCEPT ![c] = Append(@, "resync")]

\* apply_frame. A frame out of turn asks for a snapshot, unless it is one.
Gap(c, f) ==
    /\ seeded[c] /\ f.seq /= expected[c] /\ f.event /= "snapshot"
    /\ awaiting_resync' = [awaiting_resync EXCEPT ![c] = TRUE]
    /\ requests' = AskedIn(c)
    /\ expected' = [expected EXCEPT ![c] = f.seq + 1]
    /\ UNCHANGED <<conn, seeded, shadow>>

\* What may touch the shadow.
Takes(c, f) == f.event = "snapshot" \/ ~awaiting_resync[c]

InTurn(c, f) ==
    /\ IF seeded[c] THEN f.seq = expected[c] \/ f.event = "snapshot" ELSE f.event /= "hello"
    /\ seeded' = [seeded EXCEPT ![c] = TRUE]
    /\ expected' = [expected EXCEPT ![c] = f.seq + 1]
    /\ awaiting_resync' = [awaiting_resync EXCEPT ![c] = @ /\ f.event /= "snapshot"]
    /\ shadow' = [shadow EXCEPT ![c] = IF Takes(c, f) THEN Apply(f, @) ELSE @]
    /\ UNCHANGED <<conn, requests>>

Receive(c) ==
    /\ frames[c] /= <<>>
    /\ frames' = [frames EXCEPT ![c] = Tail(@)]
    /\ LET f == Head(frames[c]) IN Handshake(c, f) \/ Gap(c, f) \/ InTurn(c, f)
    /\ UNCHANGED <<session, hub, loop, bounds>>

\* write_batch skips a frame it cannot serialise.
Lose(c) ==
    /\ frames[c] /= <<>> /\ losses < MaxLosses
    /\ frames' = [frames EXCEPT ![c] = Tail(@)]
    /\ losses' = losses + 1
    /\ UNCHANGED <<session, hub, loop, requests, peer, events>>

-----------------------------------------------------------------------------

Next ==
    \/ Change \/ CloseSessions \/ Stream \/ QuiesceTick
    \/ \E c \in Clients :
          Handle(c) \/ Connect(c) \/ Ask(c) \/ Leave(c) \/ Receive(c) \/ Lose(c)

Spec == Init /\ [][Next]_vars

====
