---- MODULE HubProofs ----
(***************************************************************************)
(* Seats, frames and shadows, for any number of clients, events and losses.*)
(***************************************************************************)
EXTENDS HubProperties, SequenceTheorems, TLAPS

Requests ==
    {"register", "attach", "resync", "watch", "unwatch", "interrupt", "detach", "disconnect"}

Frames(S) ==
    [seq : S, event : {"snapshot"}, body : Views]
    \cup [seq : S, event : {"append"}, body : Seq(Tokens)]
    \cup [seq : S, event : {"input"}, body : BOOLEAN]
    \cup [seq : S, event : {"hello", "ack"}, body : {NoView}]

Events ==
    [event : {"snapshot"}, body : Views]
    \cup [event : {"append"}, body : Seq(Tokens)]
    \cup [event : {"input"}, body : BOOLEAN]
    \cup [event : {"hello", "ack"}, body : {NoView}]

Shadows == Views \cup {NoView}

\* Every variable holds what it may, and nobody gets deltas without a baseline.
TypeOK ==
    /\ view \in Views /\ closed \in BOOLEAN
    /\ clients \in Seq(Clients)
    /\ controller \subseteq Clients /\ attached \subseteq Clients /\ streaming \subseteq Clients
    /\ baseline \in [Clients -> Shadows] /\ \A c \in attached : baseline[c] \in Views
    /\ last_seq \in [Clients -> Nat] /\ force_resync \in BOOLEAN
    /\ quiesce_ticks \in Nat /\ up \in BOOLEAN
    /\ requests \in [Clients -> Seq(Requests)]
    /\ frames \in [Clients -> Seq(Frames(Nat))]
    /\ conn \in [Clients -> {"new", "open", "closed"}]
    /\ seeded \in [Clients -> BOOLEAN] /\ expected \in [Clients -> Nat]
    /\ awaiting_resync \in [Clients -> BOOLEAN] /\ shadow \in [Clients -> Shadows]
    /\ events \in Nat /\ losses \in Nat

LEMMA NumberedType ==
    ASSUME NEW es \in Seq(Events), NEW n \in Nat
    PROVE  /\ Numbered(es, n) \in Seq(Frames(Nat))
           /\ Len(Numbered(es, n)) = Len(es) /\ DOMAIN Numbered(es, n) = DOMAIN es
<1>1. \A i \in DOMAIN es : es[i] \in Events /\ n + i \in Nat
  OBVIOUS
<1>2. \A i \in DOMAIN es :
        [seq |-> n + i, event |-> es[i].event, body |-> es[i].body] \in Frames(Nat)
  BY <1>1 DEF Events, Frames
<1> QED
  BY <1>2 DEF Numbered

LEMMA SendsType ==
    ASSUME TypeOK, NEW es \in [Clients -> Seq(Events)], Sends(es)
    PROVE  frames' \in [Clients -> Seq(Frames(Nat))] /\ last_seq' \in [Clients -> Nat]
<1>1. \A c \in Clients : /\ frames[c] \o Numbered(es[c], last_seq[c]) \in Seq(Frames(Nat))
                         /\ last_seq[c] + Len(es[c]) \in Nat
  BY NumberedType DEF TypeOK
<1> QED
  BY <1>1 DEF Sends, TypeOK

LEMMA SendType ==
    ASSUME TypeOK, NEW c \in Clients, NEW es \in Seq(Events), Send(c, es)
    PROVE  frames' \in [Clients -> Seq(Frames(Nat))] /\ last_seq' \in [Clients -> Nat]
<1>1. [d \in Clients |-> IF d = c THEN es ELSE <<>>] \in [Clients -> Seq(Events)]
  OBVIOUS
<1> QED
  BY <1>1, SendsType DEF Send

LEMMA EventsAre ==
    ASSUME TypeOK
    PROVE  /\ <<Snapshot>> \in Seq(Events) /\ <<Hello, Snapshot>> \in Seq(Events)
           /\ <<Ack>> \in Seq(Events)
BY DEF TypeOK, Snapshot, Hello, Ack, Events

LEMMA TextType == ASSUME NEW v \in Views PROVE Text(v.stream) \in Seq(Tokens)
BY DEF Views, Streams, Text

LEMMA SuffixType ==
    ASSUME NEW p \in Views, NEW n \in Views PROVE Suffix(p.stream, n.stream) \in Seq(Tokens)
<1>1. Text(n.stream) \in Seq(Tokens) /\ Len(Text(p.stream)) + 1 \in 1 .. Len(Text(p.stream)) + 1
  BY TextType
<1> QED
  BY <1>1, TextType DEF Suffix

LEMMA DeltasType ==
    ASSUME NEW p \in Views, NEW n \in Views PROVE Deltas(p, n) \in Seq(Events)
<1>1. [event |-> "append", body |-> Suffix(p.stream, n.stream)] \in Events
  BY SuffixType DEF Events
<1>2. [event |-> "input", body |-> n.input] \in Events
  BY DEF Events, Views
<1> QED
  BY <1>1, <1>2 DEF Deltas

LEMMA OwedType == ASSUME TypeOK, NEW c \in Clients PROVE Owed(c) \in Seq(Events)
BY DeltasType, EventsAre DEF Owed, TypeOK

LEMMA ApplyType ==
    ASSUME NEW f \in Frames(Nat), NEW v \in Shadows PROVE Apply(f, v) \in Shadows
<1>1. CASE f.event = "append" /\ v /= NoView
  <2>1. f.body \in Seq(Tokens) /\ v \in Views
    BY <1>1 DEF Frames, Shadows
  <2>a. Text(v.stream) \in Seq(Tokens)
    BY <2>1, TextType
  <2>b. Text(v.stream) \o f.body \in Seq(Tokens)
    BY <2>a, <2>1
  <2>2. Text(v.stream) \o f.body \in Streams
    BY <2>b DEF Streams
  <2> QED
    BY <1>1, <2>1, <2>2 DEF Apply, Shadows, Views
<1>2. CASE f.event = "input" /\ v /= NoView
  BY <1>2 DEF Apply, Shadows, Views, Frames
<1>3. CASE f.event = "snapshot"
  BY <1>3 DEF Apply, Shadows, Frames
<1> QED
  BY <1>1, <1>2, <1>3 DEF Apply

LEMMA RestType ==
    ASSUME TypeOK, NEW c \in Enrolled
    PROVE  /\ Seat(c) \in DOMAIN clients /\ clients[Seat(c)] = c
           /\ Rest(c) \in Seq(Clients) /\ Len(Rest(c)) = Len(clients) - 1
<1>1. Seat(c) \in DOMAIN clients /\ clients[Seat(c)] = c
  BY DEF Seat, Enrolled, Range
<1>2. Len(clients) \in Nat \ {0} /\ Len(clients) - 1 \in Nat
  BY <1>1 DEF TypeOK
<1>3. \A i \in 1 .. Len(clients) - 1 : clients[i] \in Clients /\ clients[i + 1] \in Clients
  BY <1>2 DEF TypeOK
<1> QED
  BY <1>1, <1>2, <1>3 DEF Rest

LEMMA TypeInit == Init => TypeOK
<1> SUFFICES ASSUME Init PROVE TypeOK
  OBVIOUS
<1>1. view \in Views
  BY DEF Init, Views, Streams
<1>2. requests \in [Clients -> Seq(Requests)] /\ frames \in [Clients -> Seq(Frames(Nat))]
  BY DEF Init
<1>3. baseline \in [Clients -> Shadows] /\ shadow \in [Clients -> Shadows]
  BY DEF Init, Shadows
<1>4. clients \in Seq(Clients) /\ attached = {}
  BY DEF Init
<1> QED
  BY <1>1, <1>2, <1>3, <1>4 DEF Init, TypeOK

LEMMA TypeChange == TypeOK /\ Change => TypeOK'
<1> SUFFICES ASSUME TypeOK, Change PROVE TypeOK'
  OBVIOUS
<1>1. \A s \in Grown(view.stream) : s \in Streams
  <2>1. CASE view.stream = NoStream
    BY <2>1 DEF Grown, Streams
  <2>2. CASE view.stream /= NoStream
    <3>1. view.stream \in Seq(Tokens)
      BY <2>2 DEF TypeOK, Views, Streams
    <3>2. \A t \in Tokens : Append(view.stream, t) \in Seq(Tokens)
      BY <3>1
    <3>3. <<>> \in Seq(Tokens)
      OBVIOUS
    <3> QED
      BY <2>2, <3>2, <3>3 DEF Grown, Streams
  <2> QED
    BY <2>1, <2>2
<1>2. view' \in Views
  BY <1>1 DEF Change, TypeOK, Views
<1> QED
  BY <1>2 DEF Change, Event, TypeOK, hub, loop, wire, peer

LEMMA TypeHandle == ASSUME TypeOK, NEW c \in Clients, Handle(c) PROVE TypeOK'
<1> DEFINE req == Head(requests[c])
<1> USE DEF TypeOK
<1>1. requests' \in [Clients -> Seq(Requests)]
  BY DEF Handle
<1> DEFINE HubTyped ==
      /\ clients' \in Seq(Clients) /\ controller' \subseteq Clients
      /\ attached' \subseteq Clients /\ streaming' \subseteq Clients
      /\ baseline' \in [Clients -> Shadows] /\ \A d \in attached' : baseline'[d] \in Views
      /\ last_seq' \in [Clients -> Nat] /\ force_resync' \in BOOLEAN
      /\ frames' \in [Clients -> Seq(Frames(Nat))]
<1>2. HubTyped
  <2>1. CASE Register(c)
    BY <2>1 DEF Register
  <2>2. CASE UNCHANGED <<hub, frames>>
    BY <2>2 DEF hub
  <2>3. ASSUME NEW es \in Seq(Events), Reseed(c, es)
        PROVE  HubTyped
    BY <2>3, SendType DEF Reseed, Shadows
  <2>4. CASE \E watch \in BOOLEAN : SetStreamView(c, watch)
    BY <2>4, SendType, EventsAre DEF SetStreamView
  <2>5. CASE Interrupt(c)
    BY <2>5, SendType, EventsAre DEF Interrupt
  <2>6. CASE c \in Enrolled /\ Goes(c, req)
    <3>1. Rest(c) \in Seq(Clients) /\ (Rest(c) /= <<>> => Head(Rest(c)) \in Clients)
      BY <2>6, RestType
    <3> QED
      BY <2>6, <3>1 DEF Goes, Deregister, Elected
  <2> QED
    <3>1. \/ Register(c)
          \/ UNCHANGED <<hub, frames>>
          \/ Reseed(c, <<Hello, Snapshot>>)
          \/ Reseed(c, <<Snapshot>>)
          \/ \E watch \in BOOLEAN : SetStreamView(c, watch)
          \/ Interrupt(c)
          \/ c \in Enrolled /\ Goes(c, req)
      BY DEF Handle
    <3>2. CASE Reseed(c, <<Hello, Snapshot>>)
      BY <3>2, <2>3, EventsAre
    <3>3. CASE Reseed(c, <<Snapshot>>)
      BY <3>3, <2>3, EventsAre
    <3> QED
      BY <3>1, <3>2, <3>3, <2>1, <2>2, <2>4, <2>5, <2>6
<1> QED
  BY <1>1, <1>2 DEF Handle, session, loop, peer, bounds

LEMMA TypeStream == TypeOK /\ Stream => TypeOK'
<1> SUFFICES ASSUME TypeOK, Stream PROVE TypeOK'
  OBVIOUS
<1> DEFINE es == [c \in Clients |-> Owed(c)]
<1>1. es \in [Clients -> Seq(Events)] /\ Sends(es)
  BY OwedType DEF Stream
<1>2. frames' \in [Clients -> Seq(Frames(Nat))] /\ last_seq' \in [Clients -> Nat]
  BY <1>1, SendsType
<1>3. \A c \in Clients : NextBaseline(c, es[c]) \in Shadows
                      /\ (c \in attached => NextBaseline(c, es[c]) \in Views)
  BY DEF NextBaseline, TypeOK, Shadows
<1> QED
  BY <1>2, <1>3 DEF Stream, TypeOK, session, loop, peer, bounds

LEMMA TypeReceive == ASSUME TypeOK, NEW c \in Clients, Receive(c) PROVE TypeOK'
<1> DEFINE f == Head(frames[c])
<1> USE DEF TypeOK
<1>1. /\ f \in Frames(Nat) /\ f.seq + 1 \in Nat
      /\ frames' \in [Clients -> Seq(Frames(Nat))]
  BY DEF Receive, Frames
<1>2. Apply(f, shadow[c]) \in Shadows
  BY <1>1, ApplyType
<1>3. CASE Handshake(c, f)
  BY <1>1, <1>3 DEF Receive, Handshake, session, hub, loop, bounds, peer
<1>4. CASE Gap(c, f)
  <2>1. AskedIn(c) \in [Clients -> Seq(Requests)]
    BY DEF AskedIn, Requests
  <2> QED
    BY <1>1, <1>4, <2>1 DEF Receive, Gap, session, hub, loop, bounds
<1>5. CASE InTurn(c, f)
  BY <1>1, <1>2, <1>5 DEF Receive, InTurn, session, hub, loop, bounds
<1> QED
  BY <1>3, <1>4, <1>5 DEF Receive

LEMMA TypeStep == TypeOK /\ [Next]_vars => TypeOK'
<1> SUFFICES ASSUME TypeOK, [Next]_vars PROVE TypeOK'
  OBVIOUS
<1>1. CASE CloseSessions
  BY <1>1 DEF CloseSessions, TypeOK, hub, loop, wire, peer, bounds
<1>2. CASE QuiesceTick
  <2>1. (quiesce_ticks' = 0 \/ quiesce_ticks' = quiesce_ticks + 1) /\ (up' = TRUE \/ up' = FALSE)
    BY <1>2, Zenon DEF QuiesceTick
  <2>a. quiesce_ticks' \in Nat
    BY <2>1 DEF TypeOK
  <2>2. quiesce_ticks' \in Nat /\ up' \in BOOLEAN
    BY <2>a, <2>1, Zenon
  <2>3. UNCHANGED <<session, hub, wire, peer, bounds>>
    BY <1>2 DEF QuiesceTick
  <2> QED
    BY <2>2, <2>3 DEF TypeOK, session, hub, wire, peer, bounds
<1>3. ASSUME NEW c \in Clients, Connect(c) PROVE TypeOK'
  <2>1. <<"register", "attach">> \in Seq(Requests)
    BY DEF Requests
  <2>2. requests' \in [Clients -> Seq(Requests)] /\ conn' \in [Clients -> {"new", "open", "closed"}]
    BY <1>3, <2>1 DEF Connect, TypeOK
  <2> QED
    BY <1>3, <2>2 DEF Connect, TypeOK, session, hub, loop, bounds
<1>4. ASSUME NEW c \in Clients, Ask(c) PROVE TypeOK'
  <2>1. PICK req \in Requests : requests' = [requests EXCEPT ![c] = Append(@, req)]
    BY <1>4 DEF Ask, Requests
  <2>2. Append(requests[c], req) \in Seq(Requests)
    BY DEF TypeOK
  <2>3. requests' \in [Clients -> Seq(Requests)]
    BY <2>1, <2>2 DEF TypeOK
  <2> QED
    BY <1>4, <2>3 DEF Ask, Event, TypeOK, session, hub, loop, peer
<1>5. ASSUME NEW c \in Clients, Leave(c) PROVE TypeOK'
  <2>1. PICK last \in {<<"detach", "disconnect">>, <<"disconnect">>} :
          requests' = [requests EXCEPT ![c] = @ \o last]
    BY <1>5 DEF Leave
  <2>a. last \in Seq(Requests)
    <3>1. <<"detach", "disconnect">> \in Seq(Requests) /\ <<"disconnect">> \in Seq(Requests)
      BY DEF Requests
    <3> QED
      BY <3>1
  <2>b. requests[c] \o last \in Seq(Requests)
    BY <2>a DEF TypeOK
  <2>2. requests' \in [Clients -> Seq(Requests)]
    BY <2>1, <2>b DEF TypeOK
  <2> QED
    BY <1>5, <2>2 DEF Leave, TypeOK, session, hub, loop, bounds
<1>6. ASSUME NEW c \in Clients, Lose(c) PROVE TypeOK'
  BY <1>6 DEF Lose, TypeOK, session, hub, loop, peer
<1>7. CASE UNCHANGED vars
  BY <1>7 DEF vars, TypeOK, session, hub, loop, wire, peer, bounds
<1> QED
  BY <1>1, <1>2, <1>3, <1>4, <1>5, <1>6, <1>7, TypeChange, TypeHandle, TypeStream, TypeReceive
  DEF Next

-----------------------------------------------------------------------------
(* Seats.                                                                  *)

Distinct == \A i, j \in DOMAIN clients : clients[i] = clients[j] => i = j

\* What is in flight from c: its registration first if at all, and the end of
\* its socket last.
Booked(c) ==
    /\ \A i \in DOMAIN requests[c] : requests[c][i] = "register" => i = 1 /\ c \notin Enrolled
    /\ conn[c] = "new" => requests[c] = <<>> /\ c \notin Enrolled
    /\ conn[c] = "open" =>
          /\ c \in Enrolled \/ (requests[c] /= <<>> /\ requests[c][1] = "register")
          /\ \A i \in DOMAIN requests[c] : requests[c][i] \notin {"detach", "disconnect"}
    /\ conn[c] = "closed" =>
          /\ requests[c] /= <<>> => requests[c][Len(requests[c])] = "disconnect"
          /\ c \in Enrolled => requests[c] /= <<>>

\* Nothing is on the way to one that is not there.
Silent == \A c \in Clients : conn[c] /= "open" => frames[c] = <<>>

SeatInv == TypeOK /\ Silent /\ Distinct /\ OneController /\ \A c \in Clients : Booked(c)

LEMMA SilentStep == TypeOK /\ Silent /\ [Next]_vars => Silent'
<1> SUFFICES ASSUME TypeOK, Silent, [Next]_vars PROVE Silent'
  OBVIOUS
<1> USE DEF TypeOK, Silent
<1>1. ASSUME NEW es, Sends(es), UNCHANGED conn PROVE Silent'
  BY <1>1 DEF Sends
<1>2. ASSUME NEW c \in Clients, Handle(c) PROVE Silent'
  <2>1. CASE UNCHANGED frames
    BY <1>2, <2>1 DEF Handle, peer
  <2>2. CASE \E es : Send(c, es)
    BY <1>1, <1>2, <2>2 DEF Handle, Send, peer
  <2> QED
    BY <1>2, <2>1, <2>2 DEF Handle, Register, Reseed, SetStreamView, Interrupt, Goes
<1>3. CASE Stream
  BY <1>1, <1>3 DEF Stream, peer
<1>4. ASSUME NEW c \in Clients, Receive(c) PROVE Silent'
  <2>1. conn' = conn /\ conn[c] = "open" /\ frames' = [frames EXCEPT ![c] = Tail(@)]
    BY <1>4 DEF Receive, Handshake, Gap, InTurn, peer
  <2> QED
    BY <2>1
<1>5. ASSUME NEW c \in Clients, Connect(c) \/ Ask(c) \/ Leave(c) \/ Lose(c) PROVE Silent'
  BY <1>5 DEF Connect, Ask, Leave, Lose, peer
<1>6. CASE Change \/ CloseSessions \/ QuiesceTick \/ UNCHANGED vars
  BY <1>6 DEF Change, CloseSessions, QuiesceTick, vars, wire, peer
<1> QED
  BY <1>2, <1>3, <1>4, <1>5, <1>6 DEF Next

LEMMA RestIs ==
    ASSUME TypeOK, Distinct, NEW c \in Enrolled
    PROVE  /\ Range(Rest(c)) = Enrolled \ {c}
           /\ \A i, j \in DOMAIN Rest(c) : Rest(c)[i] = Rest(c)[j] => i = j
           /\ Rest(c) /= <<>> => Head(Rest(c)) \in Enrolled \ {c}
<1> DEFINE k == Seat(c)
           r == Rest(c)
<1>0. Len(clients) \in Nat /\ DOMAIN clients = 1 .. Len(clients)
  BY DEF TypeOK
<1>1. k \in 1 .. Len(clients) /\ clients[k] = c /\ Len(clients) \in Nat /\ DOMAIN clients = 1 .. Len(clients)
  BY <1>0, RestType
<1>2. DOMAIN r = 1 .. Len(clients) - 1
  BY DEF Rest
<1>3. \A i \in DOMAIN r : r[i] = clients[IF i < k THEN i ELSE i + 1]
  BY <1>2 DEF Rest
<1>4. \A i \in DOMAIN r : (IF i < k THEN i ELSE i + 1) \in DOMAIN clients \ {k}
  BY <1>1, <1>2
<1>5. \A i \in DOMAIN r : r[i] \in Enrolled \ {c}
  BY <1>1, <1>3, <1>4 DEF Distinct, Enrolled, Range
<1>6. \A j \in DOMAIN clients \ {k} : clients[j] \in Range(r)
  <2> SUFFICES ASSUME NEW j \in DOMAIN clients \ {k} PROVE clients[j] \in Range(r)
    OBVIOUS
  <2>1. CASE j < k
    <3>1. j \in DOMAIN r /\ r[j] = clients[j]
      BY <2>1, <1>1, <1>2, <1>3
    <3> QED
      BY <3>1 DEF Range
  <2>2. CASE j > k
    <3>1. j - 1 \in DOMAIN r /\ r[j - 1] = clients[j]
      BY <2>2, <1>1, <1>2, <1>3
    <3> QED
      BY <3>1 DEF Range
  <2> QED
    BY <2>1, <2>2, <1>1
<1>7. Range(r) = Enrolled \ {c}
  BY <1>1, <1>5, <1>6 DEF Range, Enrolled
<1>8. \A i, j \in DOMAIN r : r[i] = r[j] => i = j
  BY <1>1, <1>2, <1>3, <1>4 DEF Distinct
<1>9. r /= <<>> => Head(r) \in Enrolled \ {c}
  <2>1. r \in Seq(Clients)
    BY RestType
  <2> QED
    BY <2>1, <1>5
<1> QED
  BY <1>7, <1>8, <1>9

LEMMA SeatInit == Init => SeatInv
<1> SUFFICES ASSUME Init PROVE SeatInv
  OBVIOUS
<1>1. Enrolled = {} /\ Distinct
  BY DEF Init, Enrolled, Range, Distinct
<1> QED
  BY <1>1, TypeInit DEF Init, SeatInv, OneController, Booked, Silent

\* Who is enrolled, after a request of c.
LEMMA SeatHandle == ASSUME SeatInv, NEW c \in Clients, Handle(c) PROVE SeatInv'
<1> DEFINE q == requests[c]
<1>0. /\ TypeOK /\ TypeOK' /\ Distinct /\ OneController /\ \A d \in Clients : Booked(d)
      /\ Silent'
  BY TypeHandle, SilentStep DEF SeatInv, Next
<1>1. /\ q \in Seq(Requests) /\ q /= <<>> /\ Head(q) = q[1] /\ Len(q) \in Nat \ {0}
      /\ requests' = [requests EXCEPT ![c] = Tail(q)] /\ conn' = conn
      /\ DOMAIN q = 1 .. Len(q) /\ DOMAIN Tail(q) = 1 .. Len(q) - 1
      /\ \A i \in 1 .. Len(q) - 1 : Tail(q)[i] = q[i + 1]
      /\ Len(Tail(q)) = Len(q) - 1
  BY <1>0 DEF Handle, TypeOK, peer
<1>2. CASE q[1] = "register"
  <2>1. Register(c)
    BY <1>1, <1>2 DEF Handle
  <2>2. c \notin Enrolled
    BY <1>0, <1>1, <1>2 DEF Booked
  <2>a. /\ Len(clients) \in Nat /\ DOMAIN clients = 1 .. Len(clients)
        /\ DOMAIN clients' = 1 .. Len(clients) + 1 /\ clients'[Len(clients) + 1] = c
        /\ \A i \in 1 .. Len(clients) : clients'[i] = clients[i]
    BY <2>1, <1>0 DEF Register, TypeOK
  <2>3. Enrolled' = Enrolled \cup {c}
    <3>1. \A i \in DOMAIN clients' : i \in DOMAIN clients \/ i = Len(clients) + 1
      BY <2>a
    <3> QED
      BY <2>a, <3>1 DEF Enrolled, Range
  <2>4. Distinct'
    <3>1. \A i \in 1 .. Len(clients) : clients[i] /= c
      BY <2>a, <2>2 DEF Enrolled, Range
    <3>2. \A i, j \in 1 .. Len(clients) : clients[i] = clients[j] => i = j
      BY <2>a, <1>0 DEF Distinct
    <3>3. \A i \in DOMAIN clients' : i \in 1 .. Len(clients) \/ i = Len(clients) + 1
      BY <2>a
    <3> QED
      BY <2>a, <3>1, <3>2, <3>3 DEF Distinct
  <2>5. OneController'
    <3>1. CASE clients = <<>>
      BY <3>1, <2>1, <2>3 DEF Register, OneController
    <3>2. CASE clients /= <<>>
      BY <3>2, <2>1, <2>3, <1>0 DEF Register, OneController
    <3> QED
      BY <3>1, <3>2
  <2>6. ASSUME NEW d \in Clients PROVE Booked(d)'
    <3>1. CASE d = c
      <4>1. requests'[c] = Tail(q) /\ Booked(c) /\ c \in Enrolled'
        BY <1>0, <1>1, <2>3 DEF TypeOK
      <4>2. \A i \in 1 .. Len(q) - 1 : Tail(q)[i] /= "register"
        BY <4>1, <1>1 DEF Booked
      <4>3. conn[c] = "closed" => Len(q) > 1
        BY <4>1, <1>1, <1>2 DEF Booked
      <4>4. conn[c] /= "new"
        BY <4>1, <1>1 DEF Booked
      <4>5. conn[c] = "open" => \A i \in 1 .. Len(q) - 1 : Tail(q)[i] \notin {"detach", "disconnect"}
        BY <4>1, <1>1 DEF Booked
      <4>6. conn[c] = "closed" => Tail(q) /= <<>> /\ Tail(q)[Len(Tail(q))] = "disconnect"
        BY <4>1, <4>3, <1>1 DEF Booked
      <4>7. conn'[c] = conn[c] /\ DOMAIN requests'[c] = 1 .. Len(q) - 1
        BY <1>1, <4>1
      <4>8. Booked(c)'
        BY <4>1, <4>2, <4>4, <4>5, <4>6, <4>7 DEF Booked
      <4> QED
        BY <3>1, <4>8
    <3>2. CASE d /= c
      BY <3>2, <1>0, <1>1, <2>3 DEF Booked, TypeOK
    <3> QED
      BY <3>1, <3>2
  <2> QED
    BY <1>0, <2>4, <2>5, <2>6 DEF SeatInv
<1>3. CASE c \in Enrolled /\ Goes(c, q[1]) /\ conn[c] = "closed"
  <2>1. Enrolled' = Enrolled \ {c} /\ Distinct'
    BY <1>3, <1>0, RestIs DEF Goes, Deregister, Enrolled, Distinct
  <2>2. OneController'
    <3>1. PICK x \in Enrolled : controller = {x}
      BY <1>0, <1>3 DEF OneController, Enrolled, Range
    <3>2. clients' = <<>> => Enrolled' = {}
      BY DEF Enrolled, Range
    <3>3. CASE x = c /\ clients' /= <<>>
      BY <3>1, <3>3, <2>1, <1>0, <1>3, RestIs DEF Goes, Deregister, Elected, OneController
    <3>4. CASE x = c /\ clients' = <<>>
      BY <3>1, <3>4, <2>1, <1>0, <1>3, RestIs DEF Goes, Deregister, Elected, OneController
    <3>5. CASE x /= c
      BY <3>1, <3>5, <2>1, <1>0, <1>3, RestIs DEF Goes, Deregister, Elected, OneController
    <3> QED
      BY <3>3, <3>4, <3>5
  <2>3. ASSUME NEW d \in Clients PROVE Booked(d)'
    <3>1. CASE d = c
      <4>1. requests'[c] = Tail(q) /\ Booked(c) /\ c \notin Enrolled'
        BY <1>0, <1>1, <2>1 DEF TypeOK
      <4>2. Tail(q) /= <<>> => Tail(q)[Len(Tail(q))] = "disconnect"
        BY <4>1, <1>1, <1>3 DEF Booked
      <4>3. \A i \in 1 .. Len(q) - 1 : Tail(q)[i] /= "register"
        BY <4>1, <1>1 DEF Booked
      <4> QED
        BY <3>1, <4>1, <4>2, <4>3, <1>1, <1>3 DEF Booked
    <3>2. CASE d /= c
      BY <3>2, <1>0, <1>1, <2>1 DEF Booked, TypeOK
    <3> QED
      BY <3>1, <3>2
  <2> QED
    BY <1>0, <2>1, <2>2, <2>3 DEF SeatInv
<1>4. CASE UNCHANGED <<clients, controller>> /\ q[1] /= "register" /\ (c \in Enrolled => q[1] /= "disconnect")
  <2>1. Enrolled' = Enrolled /\ Distinct' /\ OneController'
    BY <1>4, <1>0 DEF Distinct, OneController, Enrolled, Range
  <2>2. ASSUME NEW d \in Clients PROVE Booked(d)'
    <3>1. CASE d = c
      <4>1. requests'[c] = Tail(q) /\ Booked(c)
        BY <1>0, <1>1 DEF TypeOK
      <4>2. \A i \in 1 .. Len(q) - 1 : Tail(q)[i] /= "register"
        BY <4>1, <1>1 DEF Booked
      <4>3. conn[c] /= "new"
        BY <4>1, <1>1 DEF Booked
      <4>4. conn[c] = "open" => /\ c \in Enrolled
                                /\ \A i \in 1 .. Len(q) - 1 : Tail(q)[i] \notin {"detach", "disconnect"}
        BY <4>1, <1>1, <1>4 DEF Booked
      <4>5. conn[c] = "closed" /\ Tail(q) /= <<>> => Tail(q)[Len(Tail(q))] = "disconnect"
        BY <4>1, <1>1 DEF Booked
      <4>6. conn[c] = "closed" /\ c \in Enrolled => Tail(q) /= <<>>
        BY <4>1, <1>1, <1>4 DEF Booked
      <4> QED
        BY <3>1, <4>1, <4>2, <4>3, <4>4, <4>5, <4>6, <2>1, <1>1 DEF Booked
    <3>2. CASE d /= c
      BY <3>2, <1>0, <1>1, <2>1 DEF Booked, TypeOK
    <3> QED
      BY <3>1, <3>2
  <2> QED
    BY <1>0, <2>1, <2>2 DEF SeatInv
<1> QED
  <2>1. \/ q[1] = "register"
        \/ q[1] /= "register" /\ c \notin Enrolled /\ UNCHANGED <<hub, frames>>
        \/ q[1] \in {"attach", "resync", "watch", "unwatch", "interrupt"} /\ UNCHANGED <<clients, controller>>
        \/ q[1] \in {"detach", "disconnect"} /\ c \in Enrolled /\ Goes(c, q[1])
    BY <1>1 DEF Handle, Reseed, SetStreamView, Interrupt
  <2>2. q[1] \in {"detach", "disconnect"} /\ c \in Enrolled => conn[c] = "closed"
    <3>1. Booked(c) /\ conn[c] \in {"new", "open", "closed"}
      BY <1>0 DEF TypeOK
    <3> QED
      BY <3>1, <1>1 DEF Booked
  <2> QED
    BY <2>1, <2>2, <1>2, <1>3, <1>4 DEF hub

\* A step that enrolls nobody and sends nothing keeps every booking.
LEMMA SeatQuiet ==
    ASSUME SeatInv, TypeOK', Silent', UNCHANGED <<clients, controller, requests, conn>>
    PROVE  SeatInv'
BY DEF SeatInv, Distinct, OneController, Booked, Enrolled, Range

\* More is sent, by one client.
LEMMA SeatSends ==
    ASSUME SeatInv, TypeOK', Silent', UNCHANGED <<clients, controller>>, NEW c \in Clients,
           \A d \in Clients \ {c} : requests'[d] = requests[d] /\ conn'[d] = conn[d],
           Booked(c)'
    PROVE  SeatInv'
BY DEF SeatInv, Distinct, OneController, Booked, Enrolled, Range

LEMMA SeatStep == SeatInv /\ [Next]_vars => SeatInv'
<1> SUFFICES ASSUME SeatInv, [Next]_vars PROVE SeatInv'
  OBVIOUS
<1>0. TypeOK /\ TypeOK' /\ Silent /\ Silent' /\ \A c \in Clients : Booked(c)
  BY TypeStep, SilentStep DEF SeatInv
<1>1. ASSUME NEW c \in Clients, Connect(c) PROVE SeatInv'
  <2>1. /\ requests' = [requests EXCEPT ![c] = <<"register", "attach">>]
        /\ conn' = [conn EXCEPT ![c] = "open"] /\ UNCHANGED <<clients, controller>>
    BY <1>1 DEF Connect, hub
  <2>2. c \notin Enrolled /\ Enrolled' = Enrolled
    BY <1>0, <1>1, <2>1 DEF Connect, Booked, Enrolled, Range
  <2>3. requests'[c] = <<"register", "attach">> /\ conn'[c] = "open"
    BY <2>1, <1>0 DEF TypeOK
  <2>a. /\ DOMAIN requests'[c] = {1, 2} /\ requests'[c][1] = "register"
        /\ requests'[c][2] = "attach" /\ requests'[c] /= <<>>
    BY <2>3
  <2>4. Booked(c)'
    BY <2>a, <2>2, <2>3 DEF Booked
  <2> QED
    BY <1>0, <2>1, <2>4, SeatSends DEF TypeOK
<1>2. ASSUME NEW c \in Clients, NEW req \in {"watch", "unwatch", "interrupt", "resync"},
             requests' = [requests EXCEPT ![c] = Append(@, req)],
             conn[c] = "open", UNCHANGED <<clients, controller, conn>>
      PROVE  SeatInv'
  <2>1. requests[c] \in Seq(Requests) /\ requests'[c] = Append(requests[c], req)
    BY <1>0, <1>2 DEF TypeOK
  <2>2. /\ requests'[c] /= <<>> /\ Len(requests'[c]) = Len(requests[c]) + 1
        /\ DOMAIN requests'[c] = 1 .. Len(requests[c]) + 1
        /\ \A i \in DOMAIN requests[c] : requests'[c][i] = requests[c][i]
        /\ requests'[c][Len(requests[c]) + 1] = req
        /\ DOMAIN requests[c] = 1 .. Len(requests[c]) /\ Len(requests[c]) \in Nat
    BY <2>1
  <2>3. Enrolled' = Enrolled /\ conn'[c] = "open" /\ conn[c] = "open" /\ Booked(c)
    BY <1>0, <1>2 DEF Enrolled, Range
  <2>a. \A i \in DOMAIN requests'[c] : i \in DOMAIN requests[c] \/ requests'[c][i] = req
    BY <2>2
  <2>b. \A i \in DOMAIN requests[c] : /\ requests[c][i] \notin {"detach", "disconnect"}
                                      /\ requests[c][i] = "register" => i = 1 /\ c \notin Enrolled
    BY <2>3 DEF Booked
  <2>c. c \in Enrolled \/ requests'[c][1] = "register"
    <3>1. requests[c] /= <<>> => 1 \in DOMAIN requests[c]
      BY <2>1, <2>2
    <3> QED
      BY <3>1, <2>2, <2>3 DEF Booked
  <2>4. Booked(c)'
    BY <2>2, <2>3, <2>a, <2>b, <2>c DEF Booked
  <2> QED
    BY <1>0, <1>2, <2>4, SeatSends DEF TypeOK
<1>3. ASSUME NEW c \in Clients, Leave(c) PROVE SeatInv'
  <2>1. PICK last \in {<<"detach", "disconnect">>, <<"disconnect">>} :
          requests' = [requests EXCEPT ![c] = @ \o last]
    BY <1>3 DEF Leave
  <2>2. last \in Seq(Requests) /\ Len(last) \in {1, 2} /\ last[Len(last)] = "disconnect"
        /\ \A i \in DOMAIN last : last[i] /= "register"
    <3>1. CASE last = <<"disconnect">>
      BY <3>1 DEF Requests
    <3>2. CASE last = <<"detach", "disconnect">>
      BY <3>2 DEF Requests
    <3> QED
      BY <3>1, <3>2
  <2>3. requests[c] \in Seq(Requests) /\ requests'[c] = requests[c] \o last
    BY <1>0, <2>1 DEF TypeOK
  <2>4. /\ requests'[c] /= <<>> /\ Len(requests'[c]) = Len(requests[c]) + Len(last)
        /\ requests'[c][Len(requests'[c])] = "disconnect"
        /\ \A i \in DOMAIN requests'[c] : requests'[c][i] = "register" =>
              i \in DOMAIN requests[c] /\ requests[c][i] = "register"
    BY <2>2, <2>3
  <2>5. Enrolled' = Enrolled /\ conn'[c] = "closed" /\ Booked(c)
        /\ conn' = [conn EXCEPT ![c] = "closed"] /\ UNCHANGED <<clients, controller>>
    BY <1>0, <1>3 DEF Enrolled, Range, Leave, hub, TypeOK
  <2>6. Booked(c)'
    BY <2>4, <2>5 DEF Booked
  <2> QED
    BY <1>0, <2>1, <2>5, <2>6, SeatSends DEF TypeOK
<1>4. ASSUME NEW c \in Clients, Receive(c) PROVE SeatInv'
  <2>0. conn[c] = "open"
    BY <1>0, <1>4 DEF Receive, Silent
  <2>1. CASE requests' = requests
    BY <1>0, <1>4, <2>1, SeatQuiet DEF Receive, hub, Handshake, Gap, InTurn, peer
  <2>2. CASE Gap(c, Head(frames[c])) /\ ~awaiting_resync[c]
    BY <1>2, <1>4, <2>0, <2>2 DEF Receive, Gap, AskedIn, hub
  <2> QED
    BY <1>4, <2>1, <2>2 DEF Receive, Handshake, Gap, InTurn, AskedIn
<1>5. ASSUME NEW c \in Clients, Ask(c) PROVE SeatInv'
  BY <1>2, <1>5 DEF Ask, hub, peer
<1>6. CASE Change \/ CloseSessions \/ Stream \/ QuiesceTick \/ UNCHANGED vars
  BY <1>0, <1>6, SeatQuiet DEF Change, CloseSessions, Stream, QuiesceTick, vars, hub, wire, peer
<1>7. ASSUME NEW c \in Clients, Lose(c) PROVE SeatInv'
  BY <1>0, <1>7, SeatQuiet DEF Lose, hub, peer
<1> QED
  BY <1>1, <1>3, <1>4, <1>5, <1>6, <1>7, SeatHandle DEF Next

LEMMA SeatsHold == Spec => []SeatInv
<1>1. SeatInv /\ [Next]_vars => SeatInv'
  BY SeatStep
<1> QED
  BY SeatInit, <1>1, PTL DEF Spec

\* One client, and only one, may write while anybody is there (core.rs,
\* deregister), however many come and go.
THEOREM OneControllerAlways == Spec => []OneController
<1>1. SeatInv => OneController
  BY DEF SeatInv
<1> QED
  BY SeatsHold, <1>1, PTL

\* A connection that ended does not keep the daemon alive (requests.rs, the
\* Disconnect arm).
THEOREM NobodyLingers == Spec => []NoGhost
<1>1. SeatInv => NoGhost
  BY DEF SeatInv, NoGhost, Booked
<1> QED
  BY SeatsHold, <1>1, PTL

\* The loop ends on its own only when no connection is open (mod.rs, the
\* accept-drain).
THEOREM LeavesNobody == Spec => ExitsAlone
<1>1. SeatInv /\ [Next]_vars => [up /\ ~up' => \A c \in Clients : conn[c] /= "open"]_vars
  <2> SUFFICES ASSUME SeatInv, [Next]_vars, up, ~up' PROVE \A c \in Clients : conn[c] /= "open"
    BY DEF vars
  <2>1. QuiesceTick
    BY DEF Next, vars, Change, CloseSessions, Stream, Handle, Connect, Ask, Leave, Receive, Lose, loop
  <2>2. clients = <<>> /\ Recheck
    BY <2>1 DEF QuiesceTick
  <2>3. Enrolled = {}
    BY <2>2 DEF Enrolled, Range
  <2> QED
    BY <2>2, <2>3 DEF SeatInv, Booked, Recheck
<1> QED
  BY SeatsHold, <1>1, PTL DEF Spec, ExitsAlone

-----------------------------------------------------------------------------
(* Numbers.                                                                *)

At(e, n) == [seq |-> n, event |-> e.event, body |-> e.body]

LEMMA PairIs == ASSUME NEW S, NEW a \in S, NEW b \in S PROVE <<a>> \o <<b>> = <<a, b>>
<1> DEFINE s == <<a>> \o <<b>>
           t == <<a, b>>
<1>1. <<a>> \in Seq(S) /\ Len(<<a>>) = 1 /\ <<a>>[1] = a
  OBVIOUS
<1>2. <<b>> \in Seq(S) /\ Len(<<b>>) = 1 /\ <<b>>[1] = b
  OBVIOUS
<1>3. s \in Seq(S) /\ Len(s) = 2 /\ s[1] = a /\ s[2] = b
  BY <1>1, <1>2, ConcatProperties
<1>4. t \in Seq(S) /\ Len(t) = 2 /\ t[1] = a /\ t[2] = b
  OBVIOUS
<1> HIDE DEF s, t
<1>5. \A i \in 1 .. Len(s) : s[i] = t[i]
  BY <1>3, <1>4
<1>6. s = t
  BY <1>3, <1>4, <1>5, SeqEqual
<1> QED
  BY <1>6 DEF s, t

LEMMA NumberedIs ==
    ASSUME NEW fs \in Seq(Frames(Nat)), NEW l \in Nat
    PROVE  /\ fs \o Numbered(<<>>, l) = fs
           /\ \A a \in Events : /\ At(a, l + 1) \in Frames(Nat)
                                /\ fs \o Numbered(<<a>>, l) = Append(fs, At(a, l + 1))
           /\ \A a, b \in Events : fs \o Numbered(<<a, b>>, l)
                                     = Append(Append(fs, At(a, l + 1)), At(b, l + 2))
<1>1. \A a \in Events, n \in Nat : At(a, n) \in Frames(Nat)
  BY DEF Events, Frames, At
<1>2. fs \o Numbered(<<>>, l) = fs
  BY DEF Numbered
<1>3. ASSUME NEW a \in Events PROVE fs \o Numbered(<<a>>, l) = Append(fs, At(a, l + 1))
  <2>1. Numbered(<<a>>, l) = <<At(a, l + 1)>>
    BY DEF Numbered, At
  <2>2. At(a, l + 1) \in Frames(Nat)
    BY <1>1
  <2>3. Append(fs, At(a, l + 1)) = fs \o <<At(a, l + 1)>>
    BY <2>2, AppendIsConcat
  <2> QED
    BY <2>1, <2>3
<1>4. ASSUME NEW a \in Events, NEW b \in Events
      PROVE  fs \o Numbered(<<a, b>>, l) = Append(Append(fs, At(a, l + 1)), At(b, l + 2))
  <2>1. Numbered(<<a, b>>, l) = <<At(a, l + 1), At(b, l + 2)>>
    BY DEF Numbered, At
  <2> DEFINE p == At(a, l + 1)
             r == At(b, l + 2)
  <2>2. p \in Frames(Nat) /\ r \in Frames(Nat)
    BY <1>1
  <2> HIDE DEF p, r
  <2>a. <<p>> \in Seq(Frames(Nat)) /\ <<r>> \in Seq(Frames(Nat))
    BY <2>2
  <2>3. <<p>> \in Seq(Frames(Nat)) /\ <<r>> \in Seq(Frames(Nat)) /\ <<p>> \o <<r>> = <<p, r>>
    BY <2>2, <2>a, PairIs
  <2>b. (fs \o <<p>>) \o <<r>> = fs \o (<<p>> \o <<r>>)
    BY <2>a, ConcatAssociative
  <2>4. fs \o <<p, r>> = (fs \o <<p>>) \o <<r>>
    BY <2>3, <2>b
  <2>5. Append(fs, p) \in Seq(Frames(Nat)) /\ Append(fs, p) = fs \o <<p>>
    BY <2>2, AppendIsConcat, AppendProperties
  <2>6. Append(Append(fs, p), r) = Append(fs, p) \o <<r>>
    BY <2>2, <2>5, AppendIsConcat
  <2> QED
    BY <2>1, <2>4, <2>5, <2>6 DEF p, r
<1> QED
  BY <1>1, <1>2, <1>3, <1>4

\* What is sent at once is one or two events, if any.
Bunch(e) ==
    \/ e = <<>>
    \/ \E a \in Events : e = <<a>>
    \/ \E a \in Events : \E b \in Events : e = <<a, b>>

LEMMA OwedFew == ASSUME TypeOK, NEW c \in Clients PROVE Bunch(Owed(c))
<1>1. CASE c \notin attached
  BY <1>1 DEF Owed, Bunch
<1>2. CASE c \in attached /\ (force_resync \/ NeedsFull(c, baseline[c], view))
  BY <1>2 DEF Owed, Bunch, Events, Snapshot, TypeOK
<1>3. CASE c \in attached /\ ~(force_resync \/ NeedsFull(c, baseline[c], view))
  <2>1. baseline[c] \in Views /\ view \in Views
    BY <1>3 DEF TypeOK
  <2> DEFINE a == [event |-> "append", body |-> Suffix(baseline[c].stream, view.stream)]
             b == [event |-> "input", body |-> view.input]
  <2>2. a \in Events /\ b \in Events
    BY <2>1, SuffixType DEF Events, Views
  <2>3. Owed(c) \in {<<>> \o <<>>, <<a>> \o <<>>, <<>> \o <<b>>, <<a>> \o <<b>>}
    BY <1>3 DEF Owed, Deltas
  <2>4. <<>> \o <<>> = <<>> /\ <<a>> \o <<>> = <<a>> /\ <<>> \o <<b>> = <<b>> /\ <<a>> \o <<b>> = <<a, b>>
    <3>1. <<>> \in Seq(Events) /\ <<a>> \in Seq(Events) /\ <<b>> \in Seq(Events)
      BY <2>2
    <3>2. <<a>> \o <<>> = <<a>> /\ <<>> \o <<b>> = <<b>> /\ <<>> \o <<>> = <<>>
      BY <3>1, ConcatEmptySeq
    <3>3. <<a>> \o <<b>> = <<a, b>>
      BY <2>2, PairIs
    <3> QED
      BY <3>2, <3>3
  <2>5. Owed(c) \in {<<>>, <<a>>, <<b>>, <<a, b>>}
    BY <2>3, <2>4
  <2> QED
    BY <2>2, <2>5 DEF Bunch
<1> QED
  BY <1>1, <1>2, <1>3

\* A client that is served gets the next numbers; another gets nothing.
LEMMA SendsGive ==
    ASSUME TypeOK, NEW es \in [Clients -> Seq(Events)], Sends(es), NEW c \in Clients
    PROVE  /\ conn[c] = "open" => /\ frames'[c] = frames[c] \o Numbered(es[c], last_seq[c])
                                  /\ last_seq'[c] = last_seq[c] + Len(es[c])
           /\ conn[c] /= "open" => frames'[c] = frames[c] /\ last_seq'[c] = last_seq[c]
BY DEF Sends

\* Frames rise, below last_seq, from what the client expects.
Rising(fs, x, s, l) ==
    /\ \A i \in DOMAIN fs : fs[i].seq <= l /\ (s => x <= fs[i].seq)
    /\ s => x <= l + 1
    /\ \A i, j \in DOMAIN fs : i < j => fs[i].seq < fs[j].seq

\* Nothing is missing between what the client expects and last_seq.
Complete(fs, x, s, l) ==
    /\ \A i \in DOMAIN fs : fs[i].seq + Len(fs) = l + i
    /\ s => x + Len(fs) = l + 1

LEMMA GrowNumbers ==
    ASSUME NEW fs \in Seq(Frames(Nat)), NEW f \in Frames(Nat), NEW x \in Nat, NEW s \in BOOLEAN,
           NEW l \in Nat, f.seq = l + 1
    PROVE  /\ Rising(fs, x, s, l) => Rising(Append(fs, f), x, s, l + 1)
           /\ Complete(fs, x, s, l) => Complete(Append(fs, f), x, s, l + 1)
<1> DEFINE g == Append(fs, f)
<1>1. /\ Len(fs) \in Nat /\ Len(g) = Len(fs) + 1 /\ DOMAIN fs = 1 .. Len(fs)
      /\ DOMAIN g = 1 .. Len(fs) + 1 /\ g[Len(fs) + 1] = f
      /\ \A i \in 1 .. Len(fs) : g[i] = fs[i] /\ fs[i].seq \in Nat
  BY DEF Frames
<1>2. \A i \in DOMAIN g : i \in 1 .. Len(fs) \/ i = Len(fs) + 1
  BY <1>1
<1>3. ASSUME Rising(fs, x, s, l) PROVE Rising(g, x, s, l + 1)
  BY <1>1, <1>2, <1>3 DEF Rising
<1>4. ASSUME Complete(fs, x, s, l) PROVE Complete(g, x, s, l + 1)
  <2>1. ASSUME NEW i \in 1 .. Len(fs) PROVE g[i].seq + Len(g) = l + 1 + i
    <3>1. fs[i].seq + Len(fs) = l + i /\ g[i] = fs[i] /\ fs[i].seq \in Nat
      BY <1>1, <1>4 DEF Complete
    <3>2. i \in Nat /\ Len(fs) \in Nat /\ Len(g) = Len(fs) + 1
      BY <1>1
    <3>3. \A p, q, m, n \in Nat : p + q = m + n => p + (q + 1) = m + 1 + n
      OBVIOUS
    <3> HIDE DEF g
    <3> QED
      BY <3>1, <3>2, <3>3
  <2>2. g[Len(fs) + 1].seq + Len(g) = l + 1 + (Len(fs) + 1)
    BY <1>1
  <2> QED
    <3> HIDE DEF g
    <3>1. s => x + Len(g) = l + 1 + 1
      BY <1>1, <1>4 DEF Complete
    <3>2. \A i \in DOMAIN g : g[i].seq + Len(g) = l + 1 + i
      BY <1>2, <2>1, <2>2
    <3> QED
      BY <3>1, <3>2 DEF Complete
<1> QED
  BY <1>3, <1>4

\* What a client knows of the numbers.
Counted(c) ==
    /\ Rising(frames[c], expected[c], seeded[c], last_seq[c])
    /\ shadow[c] /= NoView => seeded[c]
    /\ conn[c] = "new" => ~seeded[c] /\ ~awaiting_resync[c]
    /\ losses = 0 /\ conn[c] /= "closed" =>
          ~awaiting_resync[c] /\ Complete(frames[c], expected[c], seeded[c], last_seq[c])

CountInv == SeatInv /\ (\A c \in Clients : Counted(c)) /\ SnapshotComes

\* A bunch of frames keeps the numbers in order and what was in flight.
LEMMA GrowBunch ==
    ASSUME NEW fs \in Seq(Frames(Nat)), NEW x \in Nat, NEW s \in BOOLEAN, NEW l \in Nat,
           NEW e \in Seq(Events), Bunch(e)
    PROVE  /\ Rising(fs, x, s, l) => Rising(fs \o Numbered(e, l), x, s, l + Len(e))
           /\ Complete(fs, x, s, l) => Complete(fs \o Numbered(e, l), x, s, l + Len(e))
           /\ \A i \in DOMAIN fs : /\ i \in DOMAIN (fs \o Numbered(e, l))
                                   /\ (fs \o Numbered(e, l))[i] = fs[i]
<1> DEFINE g == fs \o Numbered(e, l)
<1>1. CASE e = <<>>
  <2>1. g = fs /\ l + Len(e) = l
    BY <1>1, NumberedIs
  <2> QED
    BY <2>1
<1>2. ASSUME NEW a \in Events, e = <<a>> PROVE
           /\ Rising(fs, x, s, l) => Rising(g, x, s, l + Len(e))
           /\ Complete(fs, x, s, l) => Complete(g, x, s, l + Len(e))
  <2>1. /\ g = Append(fs, At(a, l + 1)) /\ At(a, l + 1) \in Frames(Nat)
        /\ At(a, l + 1).seq = l + 1 /\ Len(e) = 1
    BY <1>2, NumberedIs DEF At
  <2> QED
    BY <2>1, GrowNumbers
<1>3. ASSUME NEW a \in Events, NEW b \in Events, e = <<a, b>> PROVE
           /\ Rising(fs, x, s, l) => Rising(g, x, s, l + Len(e))
           /\ Complete(fs, x, s, l) => Complete(g, x, s, l + Len(e))
  <2> DEFINE p == At(a, l + 1)
             r == At(b, l + 2)
             h == Append(fs, p)
  <2>a. g = Append(h, r) /\ p \in Frames(Nat)
    BY <1>3, NumberedIs
  <2>b. p.seq = l + 1 /\ r.seq = l + 2 /\ Len(e) = 2
    BY <1>3 DEF At
  <2>1. /\ g = Append(h, r) /\ p \in Frames(Nat) /\ l + 1 \in Nat /\ l + 2 = (l + 1) + 1
        /\ p.seq = l + 1 /\ r.seq = l + 2 /\ Len(e) = 2
    BY <2>a, <2>b
  <2>2. r \in Frames(Nat) /\ h \in Seq(Frames(Nat))
    <3>1. r \in Frames(Nat)
      BY DEF Events, Frames, At
    <3> QED
      BY <3>1, <2>a, AppendProperties
  <2> HIDE DEF p, r
  <2>3. /\ Rising(fs, x, s, l) => Rising(h, x, s, l + 1)
        /\ Complete(fs, x, s, l) => Complete(h, x, s, l + 1)
    BY <2>1, GrowNumbers
  <2> HIDE DEF h
  <2>4. /\ Rising(h, x, s, l + 1) => Rising(Append(h, r), x, s, (l + 1) + 1)
        /\ Complete(h, x, s, l + 1) => Complete(Append(h, r), x, s, (l + 1) + 1)
    BY <2>1, <2>2, GrowNumbers
  <2> HIDE DEF g
  <2> QED
    BY <2>1, <2>3, <2>4
<1>4. \A i \in DOMAIN fs : i \in DOMAIN g /\ g[i] = fs[i]
  <2>1. Numbered(e, l) \in Seq(Frames(Nat))
    BY NumberedType
  <2> QED
    BY <2>1
<1> QED
  BY <1>1, <1>2, <1>3, <1>4 DEF Bunch

\* c waits for a snapshot that is on its way.
InFlight(c) == \E i \in DOMAIN frames[c] : frames[c][i].event = "snapshot"

Comes(c) ==
    awaiting_resync[c] /\ conn[c] = "open" /\ losses <= 1 =>
        "resync" \in Range(requests[c]) \/ InFlight(c)

LEMMA ComesIs == SnapshotComes <=> \A c \in Clients : Comes(c)
BY DEF SnapshotComes, Comes, InFlight

LEMMA CountSends ==
    ASSUME TypeOK, NEW es \in [Clients -> Seq(Events)], Sends(es), NEW c \in Clients,
           Bunch(es[c]), Counted(c), UNCHANGED <<peer, losses>>
    PROVE  Counted(c)' /\ (InFlight(c) => InFlight(c)')
<1>1. /\ frames[c] \in Seq(Frames(Nat)) /\ expected[c] \in Nat /\ seeded[c] \in BOOLEAN
      /\ last_seq[c] \in Nat /\ es[c] \in Seq(Events)
  BY DEF TypeOK
<1>2. CASE conn[c] = "open"
  <2>1. /\ frames'[c] = frames[c] \o Numbered(es[c], last_seq[c])
        /\ last_seq'[c] = last_seq[c] + Len(es[c])
    BY <1>2, SendsGive
  <2> DEFINE fs == frames[c]
             l == last_seq[c]
             e == es[c]
             g == fs \o Numbered(e, l)
  <2>a. /\ Rising(fs, expected[c], seeded[c], l) => Rising(g, expected[c], seeded[c], l + Len(e))
        /\ Complete(fs, expected[c], seeded[c], l) => Complete(g, expected[c], seeded[c], l + Len(e))
        /\ \A i \in DOMAIN fs : i \in DOMAIN g /\ g[i] = fs[i]
    <3>1. fs \in Seq(Frames(Nat)) /\ l \in Nat /\ e \in Seq(Events) /\ Bunch(e)
      BY <1>1
    <3> HIDE DEF fs, l, e
    <3> QED
      BY <1>1, <3>1, GrowBunch
  <2>2. /\ Rising(frames[c], expected[c], seeded[c], last_seq[c]) =>
             Rising(frames'[c], expected[c], seeded[c], last_seq'[c])
        /\ Complete(frames[c], expected[c], seeded[c], last_seq[c]) =>
             Complete(frames'[c], expected[c], seeded[c], last_seq'[c])
        /\ \A i \in DOMAIN frames[c] : i \in DOMAIN frames'[c] /\ frames'[c][i] = frames[c][i]
    BY <2>1, <2>a
  <2> QED
    BY <2>2 DEF Counted, InFlight, peer, Rising, Complete
<1>3. CASE conn[c] /= "open"
  <2>1. frames'[c] = frames[c] /\ last_seq'[c] = last_seq[c]
    BY <1>3, SendsGive
  <2> QED
    BY <2>1 DEF Counted, InFlight, peer, Rising, Complete
<1> QED
  BY <1>2, <1>3

LEMMA TailIs ==
    ASSUME NEW S, NEW s \in Seq(S), s /= <<>>
    PROVE  /\ Len(s) \in Nat \ {0} /\ Len(Tail(s)) = Len(s) - 1 /\ Head(s) = s[1] /\ s[1] \in S
           /\ DOMAIN s = 1 .. Len(s) /\ DOMAIN Tail(s) = 1 .. Len(s) - 1
           /\ \A i \in 1 .. Len(s) - 1 : Tail(s)[i] = s[i + 1]
           /\ \A i \in DOMAIN s : i = 1 \/ (i - 1 \in DOMAIN Tail(s) /\ Tail(s)[i - 1] = s[i])
OBVIOUS

\* What is left in the queue after the head.
LEMMA TailNumbers ==
    ASSUME NEW fs \in Seq(Frames(Nat)), fs /= <<>>, NEW x \in Nat, NEW s \in BOOLEAN,
           NEW l \in Nat, Rising(fs, x, s, l), NEW t \in BOOLEAN
    PROVE  /\ Rising(Tail(fs), fs[1].seq + 1, t, l)
           /\ Rising(Tail(fs), x, s, l)
           /\ Complete(fs, x, s, l) => Complete(Tail(fs), fs[1].seq + 1, t, l)
           /\ Complete(fs, x, s, l) /\ ~s => Complete(Tail(fs), x, s, l)
           /\ Complete(fs, x, s, l) /\ s => fs[1].seq = x
<1> DEFINE g == Tail(fs)
<1>1. /\ Len(fs) \in Nat \ {0} /\ Len(g) = Len(fs) - 1
      /\ DOMAIN fs = 1 .. Len(fs) /\ DOMAIN g = 1 .. Len(fs) - 1
      /\ \A i \in 1 .. Len(fs) - 1 : g[i] = fs[i + 1] /\ i + 1 \in DOMAIN fs
      /\ \A i \in 1 .. Len(fs) : fs[i].seq \in Nat
      /\ 1 \in DOMAIN fs
  BY TailIs DEF Frames
<1> HIDE DEF g
<1>a. \A i \in DOMAIN g : /\ i + 1 \in DOMAIN fs /\ g[i] = fs[i + 1] /\ 1 < i + 1 /\ i \in Nat
                          /\ g[i].seq \in Nat
  BY <1>1
<1>b. /\ \A i \in DOMAIN fs : fs[i].seq <= l /\ (s => x <= fs[i].seq)
      /\ \A i, j \in DOMAIN fs : i < j => fs[i].seq < fs[j].seq
      /\ s => x <= l + 1
  BY DEF Rising
<1>2. \A i \in DOMAIN g : fs[1].seq < g[i].seq
  BY <1>1, <1>a, <1>b
<1>c. \A i, j \in DOMAIN g : i < j => g[i].seq < g[j].seq
  <2> SUFFICES ASSUME NEW i \in DOMAIN g, NEW j \in DOMAIN g, i < j PROVE g[i].seq < g[j].seq
    OBVIOUS
  <2>1. i + 1 < j + 1
    BY <1>a
  <2> QED
    BY <2>1, <1>a, <1>b
<1>3. Rising(g, fs[1].seq + 1, t, l) /\ Rising(g, x, s, l)
  <2>1. \A i \in DOMAIN g : g[i].seq <= l /\ (s => x <= g[i].seq) /\ fs[1].seq + 1 <= g[i].seq
    BY <1>1, <1>2, <1>a, <1>b
  <2>2. fs[1].seq + 1 <= l + 1
    BY <1>1, <1>b
  <2> QED
    BY <1>b, <1>c, <2>1, <2>2 DEF Rising
<1>4. ASSUME Complete(fs, x, s, l)
      PROVE  /\ \A i \in DOMAIN g : g[i].seq + Len(g) = l + i
             /\ fs[1].seq + 1 + Len(g) = l + 1
             /\ s => fs[1].seq = x
  <2>1. fs[1].seq + Len(fs) = l + 1
    BY <1>1, <1>4 DEF Complete
  <2>2. ASSUME NEW i \in DOMAIN g PROVE g[i].seq + Len(g) = l + i
    <3>1. fs[i + 1].seq + Len(fs) = l + (i + 1) /\ g[i] = fs[i + 1] /\ fs[i + 1].seq \in Nat
      BY <1>1, <1>4 DEF Complete
    <3>2. i \in Nat /\ Len(fs) \in Nat /\ Len(fs) = Len(g) + 1 /\ Len(g) \in Nat
      BY <1>1, <1>a
    <3>3. \A p, q, m, n \in Nat : p + (q + 1) = m + (n + 1) => p + q = m + n
      OBVIOUS
    <3>4. fs[i + 1].seq + (Len(g) + 1) = l + (i + 1)
      BY <3>1, <3>2
    <3>5. fs[i + 1].seq + Len(g) = l + i
      <4> DEFINE p == fs[i + 1].seq
                 q == Len(g)
      <4>1. p \in Nat /\ q \in Nat /\ i \in Nat /\ l \in Nat /\ p + (q + 1) = l + (i + 1)
        BY <3>1, <3>2, <3>4
      <4> HIDE DEF p, q
      <4>2. p + q = l + i
        BY <4>1, <3>3
      <4> QED
        BY <4>2 DEF p, q
    <3> QED
      BY <3>1, <3>5
  <2>3. s => x + Len(fs) = l + 1
    BY <1>4 DEF Complete
  <2> QED
    BY <1>1, <2>1, <2>2, <2>3
<1> QED
  BY <1>3, <1>4 DEF g, Complete

LEMMA CountReceive ==
    ASSUME CountInv, SeatInv', NEW c \in Clients, Receive(c) PROVE CountInv'
<1> DEFINE f == Head(frames[c])
<1>1. /\ TypeOK /\ Counted(c) /\ frames[c] \in Seq(Frames(Nat)) /\ frames[c] /= <<>>
      /\ f = frames[c][1] /\ frames'[c] = Tail(frames[c]) /\ f.seq \in Nat
      /\ expected[c] \in Nat /\ seeded[c] \in BOOLEAN /\ last_seq[c] \in Nat /\ last_seq' = last_seq
      /\ conn[c] = "open" /\ conn' = conn /\ losses' = losses
      /\ seeded'[c] \in BOOLEAN
  BY TailIs DEF Receive, CountInv, SeatInv, Silent, TypeOK, Frames, hub, bounds, Handshake, Gap, InTurn, peer
<1>2. /\ Rising(Tail(frames[c]), f.seq + 1, seeded'[c], last_seq[c])
      /\ Rising(Tail(frames[c]), expected[c], seeded[c], last_seq[c])
      /\ losses = 0 => /\ ~awaiting_resync[c]
                       /\ Complete(Tail(frames[c]), f.seq + 1, seeded'[c], last_seq[c])
                       /\ ~seeded[c] => Complete(Tail(frames[c]), expected[c], seeded[c], last_seq[c])
                       /\ seeded[c] => f.seq = expected[c]
  BY <1>1, TailNumbers DEF Counted
<1>3. f.event /= "snapshot" => (InFlight(c) => InFlight(c)')
  <2> SUFFICES ASSUME frames[c][1].event /= "snapshot", NEW i \in DOMAIN frames[c],
                      frames[c][i].event = "snapshot"
               PROVE  InFlight(c)'
    BY <1>1 DEF InFlight
  <2>1. i - 1 \in DOMAIN Tail(frames[c]) /\ Tail(frames[c])[i - 1] = frames[c][i]
    BY <1>1, TailIs
  <2> QED
    BY <1>1, <2>1 DEF InFlight
<1>4. \A d \in Clients \ {c} : /\ frames'[d] = frames[d] /\ expected'[d] = expected[d]
                               /\ seeded'[d] = seeded[d] /\ awaiting_resync'[d] = awaiting_resync[d]
                               /\ shadow'[d] = shadow[d] /\ requests'[d] = requests[d]
  BY <1>1 DEF Receive, Handshake, Gap, InTurn, AskedIn, TypeOK, peer
<1>5. \A d \in Clients \ {c} : Counted(d)'
  BY <1>1, <1>4 DEF CountInv, Counted, Rising, Complete
<1>a. \A d \in Clients : Comes(d)
  BY ComesIs DEF CountInv
<1>b. \A d \in Clients \ {c} : Comes(d)'
  BY <1>1, <1>4, <1>a DEF Comes, InFlight
<1>c. Comes(c)' => SnapshotComes'
  <2>1. (\A d \in Clients : Comes(d)') => SnapshotComes'
    BY DEF SnapshotComes, Comes, InFlight
  <2> QED
    BY <1>b, <2>1
<1>6. CASE Handshake(c, f)
  <2>1. UNCHANGED peer /\ UNCHANGED requests /\ ~seeded[c] /\ f.event /= "snapshot"
    BY <1>6 DEF Handshake
  <2>2. Counted(c)'
    BY <2>1, <1>1, <1>2 DEF Counted, peer
  <2>3. SnapshotComes'
    BY <2>1, <1>1, <1>3, <1>a, <1>c DEF Comes, peer
  <2> QED
    BY <2>2, <2>3, <1>5 DEF CountInv
<1>7. CASE Gap(c, f)
  <2>1. /\ expected'[c] = f.seq + 1 /\ seeded' = seeded /\ shadow' = shadow /\ awaiting_resync'[c]
        /\ seeded[c] /\ f.seq /= expected[c] /\ f.event /= "snapshot" /\ requests' = AskedIn(c)
    BY <1>1, <1>7 DEF Gap, TypeOK
  <2>2. losses /= 0
    BY <2>1, <1>2
  <2>3. Counted(c)'
    BY <2>1, <2>2, <1>1, <1>2 DEF Counted
  <2>4. losses <= 1 => "resync" \in Range(requests'[c]) \/ InFlight(c)'
    <3>1. CASE awaiting_resync[c]
      BY <3>1, <2>1, <1>1, <1>3, <1>a DEF AskedIn, Comes
    <3>2. CASE ~awaiting_resync[c]
      <4>1. requests[c] \in Seq(Requests) /\ requests'[c] = Append(requests[c], "resync")
        BY <3>2, <2>1, <1>1 DEF AskedIn, TypeOK
      <4>2. Len(requests[c]) + 1 \in DOMAIN requests'[c] /\ requests'[c][Len(requests[c]) + 1] = "resync"
        BY <4>1
      <4> QED
        BY <4>2 DEF Range
    <3> QED
      BY <3>1, <3>2
  <2>5. SnapshotComes'
    BY <2>4, <1>1, <1>c DEF Comes
  <2> QED
    BY <2>3, <2>5, <1>5 DEF CountInv
<1>8. CASE InTurn(c, f)
  <2>1. /\ expected'[c] = f.seq + 1 /\ seeded'[c] /\ requests' = requests
        /\ awaiting_resync'[c] <=> awaiting_resync[c] /\ f.event /= "snapshot"
    BY <1>1, <1>8 DEF InTurn, TypeOK
  <2>2. Counted(c)'
    BY <2>1, <1>1, <1>2 DEF Counted
  <2>3. SnapshotComes'
    BY <2>1, <1>1, <1>3, <1>a, <1>c DEF Comes
  <2> QED
    BY <2>2, <2>3, <1>5 DEF CountInv
<1> QED
  BY <1>6, <1>7, <1>8 DEF Receive

\* What the hub sends is a bunch for everybody.
LEMMA BunchOne ==
    ASSUME TypeOK, NEW c \in Clients, NEW e \in Seq(Events), Bunch(e), Send(c, e)
    PROVE  \E es \in [Clients -> Seq(Events)] :
              Sends(es) /\ (\A d \in Clients : Bunch(es[d])) /\ es[c] = e
                /\ \A d \in Clients \ {c} : es[d] = <<>>
<1> DEFINE es == [d \in Clients |-> IF d = c THEN e ELSE <<>>]
<1>1. es \in [Clients -> Seq(Events)] /\ Sends(es) /\ es[c] = e
      /\ \A d \in Clients \ {c} : es[d] = <<>>
  BY DEF Send
<1>2. \A d \in Clients : Bunch(es[d])
  BY DEF Bunch
<1> QED
  BY <1>1, <1>2

LEMMA BunchesAre ==
    ASSUME TypeOK
    PROVE  /\ Bunch(<<Snapshot>>) /\ Bunch(<<Ack>>) /\ Bunch(<<Hello, Snapshot>>)
           /\ Snapshot \in Events /\ Ack \in Events /\ Hello \in Events
BY DEF Bunch, TypeOK, Snapshot, Hello, Ack, Events

LEMMA CountHandle ==
    ASSUME CountInv, SeatInv', NEW c \in Clients, Handle(c) PROVE CountInv'
<1> DEFINE q == requests[c]
<1>1. /\ TypeOK /\ SeatInv /\ \A d \in Clients : Counted(d) /\ Comes(d)
      /\ q \in Seq(Requests) /\ q /= <<>> /\ Head(q) = q[1] /\ UNCHANGED <<peer, losses>>
      /\ requests' = [requests EXCEPT ![c] = Tail(q)]
      /\ requests'[c] = Tail(q) /\ \A d \in Clients \ {c} : requests'[d] = requests[d]
  BY TailIs, ComesIs DEF CountInv, SeatInv, TypeOK, Handle, bounds
<1>2. ASSUME NEW d \in Clients, InFlight(d) => InFlight(d)',
             d = c /\ conn[c] = "open" /\ q[1] = "resync" => InFlight(c)'
      PROVE  Comes(d)'
  <2>1. CASE d /= c
    BY <1>1, <1>2, <2>1 DEF Comes, peer
  <2>2. CASE d = c /\ q[1] = "resync"
    BY <1>1, <1>2, <2>2 DEF Comes, peer
  <2>3. CASE d = c /\ q[1] /= "resync"
    <3>1. "resync" \in Range(q) => "resync" \in Range(Tail(q))
      <4> SUFFICES ASSUME NEW i \in DOMAIN q, q[i] = "resync" PROVE "resync" \in Range(Tail(q))
        BY DEF Range
      <4>1. i - 1 \in DOMAIN Tail(q) /\ Tail(q)[i - 1] = q[i]
        BY <1>1, <2>3, TailIs
      <4> QED
        BY <4>1 DEF Range
    <3> QED
      BY <1>1, <1>2, <2>3, <3>1 DEF Comes, peer
  <2> QED
    BY <2>1, <2>2, <2>3
<1>3. (\A d \in Clients : Counted(d)' /\ Comes(d)') => CountInv'
  BY DEF CountInv, SnapshotComes, Comes, InFlight
<1>4. conn[c] = "open" /\ q[1] /= "register" => c \in Enrolled
  BY <1>1 DEF SeatInv, Booked
<1>5. CASE UNCHANGED <<frames, last_seq>> /\ ~(conn[c] = "open" /\ q[1] = "resync")
  <2>1. ASSUME NEW d \in Clients PROVE Counted(d)' /\ (InFlight(d) => InFlight(d)')
    BY <1>1, <1>5 DEF Counted, InFlight, peer, Rising, Complete
  <2> QED
    BY <1>2, <1>3, <1>5, <2>1
<1>6. ASSUME NEW e \in Seq(Events), Bunch(e), Send(c, e), q[1] = "resync" => e = <<Snapshot>>
      PROVE  CountInv'
  <2>1. PICK es \in [Clients -> Seq(Events)] :
          Sends(es) /\ (\A d \in Clients : Bunch(es[d])) /\ es[c] = e
    BY <1>1, <1>6, BunchOne
  <2>2. \A d \in Clients : Counted(d)' /\ (InFlight(d) => InFlight(d)')
    BY <1>1, <2>1, CountSends
  <2>3. conn[c] = "open" /\ q[1] = "resync" => InFlight(c)'
    <3> SUFFICES ASSUME conn[c] = "open", q[1] = "resync" PROVE InFlight(c)'
      OBVIOUS
    <3>1. frames[c] \in Seq(Frames(Nat)) /\ last_seq[c] \in Nat /\ Snapshot \in Events
      BY <1>1, BunchesAre DEF TypeOK
    <3>2. frames'[c] = frames[c] \o Numbered(<<Snapshot>>, last_seq[c])
      BY <1>1, <1>6, <2>1, SendsGive
    <3>3. /\ At(Snapshot, last_seq[c] + 1) \in Frames(Nat)
          /\ frames'[c] = Append(frames[c], At(Snapshot, last_seq[c] + 1))
      BY <3>1, <3>2, NumberedIs
    <3>4. /\ Len(frames[c]) + 1 \in DOMAIN frames'[c]
          /\ frames'[c][Len(frames[c]) + 1] = At(Snapshot, last_seq[c] + 1)
      BY <3>1, <3>3
    <3> QED
      BY <3>4 DEF InFlight, At, Snapshot
  <2> QED
    BY <1>2, <1>3, <2>2, <2>3
<1> QED
  <2>1. \/ UNCHANGED <<frames, last_seq>> /\ ~(conn[c] = "open" /\ q[1] = "resync")
        \/ Send(c, <<Hello, Snapshot>>) /\ q[1] /= "resync"
        \/ Send(c, <<Snapshot>>)
        \/ Send(c, <<Ack>>) /\ q[1] /= "resync"
    BY <1>1, <1>4 DEF Handle, Register, Reseed, SetStreamView, Interrupt, Goes, hub
  <2> QED
    BY <1>1, <1>5, <1>6, <2>1, EventsAre, BunchesAre

LEMMA CountStream == ASSUME CountInv, SeatInv', Stream PROVE CountInv'
<1> DEFINE es == [c \in Clients |-> Owed(c)]
<1>1. /\ TypeOK /\ \A d \in Clients : Counted(d) /\ Comes(d)
      /\ UNCHANGED <<peer, losses, requests>>
      /\ es \in [Clients -> Seq(Events)] /\ Sends(es) /\ \A c \in Clients : Bunch(es[c])
  BY OwedType, OwedFew, ComesIs DEF CountInv, SeatInv, Stream, bounds
<1> HIDE DEF es
<1>2. \A d \in Clients : Counted(d)' /\ (InFlight(d) => InFlight(d)')
  BY <1>1, CountSends
<1>3. \A d \in Clients : Comes(d)'
  BY <1>1, <1>2 DEF Comes, peer
<1> QED
  BY <1>2, <1>3 DEF CountInv, SnapshotComes, Comes, InFlight

LEMMA CountStep == CountInv /\ [Next]_vars => CountInv'
<1> SUFFICES ASSUME CountInv, [Next]_vars PROVE CountInv'
  OBVIOUS
<1>0. SeatInv /\ SeatInv' /\ TypeOK /\ TypeOK' /\ \A d \in Clients : Counted(d) /\ Comes(d)
  BY SeatStep, ComesIs DEF CountInv, SeatInv
<1>a. (\A d \in Clients : Counted(d)' /\ Comes(d)') => CountInv'
  BY <1>0 DEF CountInv, SnapshotComes, Comes, InFlight
<1>1. CASE UNCHANGED <<wire, peer, losses, last_seq>>
  <2>1. \A d \in Clients : Counted(d)' /\ Comes(d)'
    BY <1>0, <1>1 DEF Counted, Comes, InFlight, wire, peer, Rising, Complete
  <2> QED
    BY <1>a, <2>1
<1>2. ASSUME NEW c \in Clients, Connect(c) PROVE CountInv'
  <2>1. ASSUME NEW d \in Clients PROVE Counted(d)' /\ Comes(d)'
    <3>1. CASE d = c
      <4>1. conn[c] = "new" /\ conn'[c] = "open" /\ UNCHANGED <<losses, last_seq, frames, expected, seeded, awaiting_resync, shadow>>
        BY <1>0, <1>2 DEF Connect, TypeOK, hub, bounds
      <4> QED
        BY <1>0, <3>1, <4>1 DEF Counted, Comes, Rising, Complete
    <3>2. CASE d /= c
      <4>1. conn'[d] = conn[d] /\ requests'[d] = requests[d] /\ UNCHANGED <<losses, last_seq, frames, expected, seeded, awaiting_resync, shadow>>
        BY <1>0, <1>2, <3>2 DEF Connect, TypeOK, hub, bounds
      <4> QED
        BY <1>0, <4>1 DEF Counted, Comes, InFlight, Rising, Complete
    <3> QED
      BY <3>1, <3>2
  <2> QED
    BY <1>a, <2>1
<1>3. ASSUME NEW c \in Clients, Ask(c) PROVE CountInv'
  <2>1. PICK req \in Requests : requests' = [requests EXCEPT ![c] = Append(@, req)]
    BY <1>3 DEF Ask, Requests
  <2>2. UNCHANGED <<losses, last_seq, frames, peer>>
    BY <1>3 DEF Ask, Event, hub
  <2>3. ASSUME NEW d \in Clients PROVE "resync" \in Range(requests[d]) => "resync" \in Range(requests'[d])
    <3>1. CASE d = c
      <4>1. requests[c] \in Seq(Requests) /\ requests'[c] = Append(requests[c], req)
        BY <1>0, <2>1 DEF TypeOK
      <4>2. \A i \in DOMAIN requests[c] : i \in DOMAIN requests'[c] /\ requests'[c][i] = requests[c][i]
        BY <4>1
      <4> QED
        BY <3>1, <4>2 DEF Range
    <3>2. CASE d /= c
      BY <1>0, <2>1, <3>2 DEF TypeOK
    <3> QED
      BY <3>1, <3>2
  <2>4. \A d \in Clients : Counted(d)' /\ Comes(d)'
    BY <1>0, <2>2, <2>3 DEF Counted, Comes, InFlight, peer, Rising, Complete
  <2> QED
    BY <1>a, <2>4
<1>4. ASSUME NEW c \in Clients, Leave(c) PROVE CountInv'
  <2>1. ASSUME NEW d \in Clients PROVE Counted(d)' /\ Comes(d)'
    <3>1. CASE d = c
      <4>1. conn'[c] = "closed" /\ frames'[c] = <<>> /\ UNCHANGED <<losses, last_seq, expected, seeded, awaiting_resync, shadow>>
        BY <1>0, <1>4 DEF Leave, TypeOK, hub, bounds
      <4> QED
        BY <1>0, <3>1, <4>1 DEF Counted, Comes, Rising
    <3>2. CASE d /= c
      <4>1. conn'[d] = conn[d] /\ requests'[d] = requests[d] /\ frames'[d] = frames[d]
            /\ UNCHANGED <<losses, last_seq, expected, seeded, awaiting_resync, shadow>>
        BY <1>0, <1>4, <3>2 DEF Leave, TypeOK, hub, bounds
      <4> QED
        BY <1>0, <4>1 DEF Counted, Comes, InFlight, Rising, Complete
    <3> QED
      BY <3>1, <3>2
  <2> QED
    BY <1>a, <2>1
<1>5. ASSUME NEW c \in Clients, Lose(c) PROVE CountInv'
  <2>0. /\ losses' = losses + 1 /\ UNCHANGED <<last_seq, requests, peer>> /\ frames[c] /= <<>>
        /\ frames'[c] = Tail(frames[c]) /\ losses \in Nat
    BY <1>0, <1>5 DEF Lose, TypeOK, hub
  <2>1. ASSUME NEW d \in Clients PROVE Counted(d)' /\ Comes(d)'
    <3>1. CASE d = c
      <4>1. /\ frames[c] \in Seq(Frames(Nat)) /\ expected[c] \in Nat /\ seeded[c] \in BOOLEAN
            /\ last_seq[c] \in Nat /\ Rising(frames[c], expected[c], seeded[c], last_seq[c])
        BY <1>0 DEF TypeOK, Counted
      <4>2. Rising(Tail(frames[c]), expected[c], seeded[c], last_seq[c])
        BY <2>0, <4>1, TailNumbers
      <4>3. losses' /= 0
        BY <2>0
      <4>4. Counted(c)'
        BY <1>0, <2>0, <4>2, <4>3 DEF Counted, peer
      <4>5. awaiting_resync[c] /\ conn[c] = "open" => losses' > 1
        BY <1>0, <2>0 DEF Counted
      <4>6. Comes(c)'
        BY <2>0, <4>5 DEF Comes, peer
      <4> QED
        BY <3>1, <4>4, <4>6
    <3>2. CASE d /= c
      <4>1. frames'[d] = frames[d]
        BY <1>0, <1>5, <3>2 DEF Lose, TypeOK
      <4>2. losses' <= 1 => losses <= 1
        BY <2>0
      <4>3. losses' /= 0
        BY <2>0
      <4> QED
        BY <1>0, <2>0, <4>1, <4>2, <4>3 DEF Counted, Comes, InFlight, peer, Rising
    <3> QED
      BY <3>1, <3>2
  <2> QED
    BY <1>a, <2>1
<1>6. CASE Change \/ CloseSessions \/ QuiesceTick \/ UNCHANGED vars
  BY <1>1, <1>6 DEF Change, Event, CloseSessions, QuiesceTick, vars, hub, bounds
<1> QED
  BY <1>0, <1>2, <1>3, <1>4, <1>5, <1>6, CountHandle, CountStream, CountReceive DEF Next

LEMMA CountInit == Init => CountInv
<1> SUFFICES ASSUME Init PROVE CountInv
  OBVIOUS
<1>1. \A c \in Clients : Counted(c) /\ Comes(c)
  BY DEF Init, Counted, Comes, Rising, Complete
<1> QED
  BY <1>1, SeatInit, ComesIs DEF CountInv

LEMMA CountsHold == Spec => []CountInv
BY CountInit, CountStep, PTL DEF Spec

\* A client that noticed a gap is sent a snapshot (shadow.rs, apply_frame;
\* requests_read.rs, resync_or_list_sessions), if no second frame is lost.
THEOREM SnapshotAlwaysComes == Spec => []SnapshotComes
<1>1. CountInv => SnapshotComes
  BY DEF CountInv
<1> QED
  BY CountsHold, <1>1, PTL

-----------------------------------------------------------------------------
(* Shadows.  A frame in flight stands for the view that c holds once it has *)
(* taken it; what it holds now is w[0], what the last frame leads to w[n].   *)

\* What the client expects before frame i of those in flight, and after them all.
Before(fs, x, i) == IF i = 1 THEN x ELSE fs[i - 1].seq + 1
After(fs, x) == IF fs = <<>> THEN x ELSE fs[Len(fs)].seq + 1

Leads(fs, x, w) ==
    /\ w \in [0 .. Len(fs) -> Views]
    /\ \A i \in DOMAIN fs :
         /\ fs[i].event = "snapshot" => w[i] = fs[i].body
         /\ fs[i].event /= "snapshot" /\ fs[i].seq = Before(fs, x, i) => w[i] = Apply(fs[i], w[i - 1])

\* v shows what b shows, the output of an agent if it is asked about.
Matches(v, b, agents) ==
    /\ v.page = b.page /\ v.stream = b.stream /\ v.input = b.input
    /\ agents => v.agent = b.agent

\* The output of an agent that c is shown must be right, unless the next pass
\* sends everything anyway.
Due(c, b) == Shown(c, b) /\ ~force_resync

\* What c holds leads along w to the hub's baseline of it, if no frame of the last
\* is lost.
Carried(c, w) ==
    /\ Leads(frames[c], expected[c], w)
    /\ awaiting_resync[c] \/ shadow[c] = NoView \/ w[0] = shadow[c]
    /\ c \in attached /\ After(frames[c], expected[c]) = last_seq[c] + 1 =>
         Matches(w[Len(frames[c])], baseline[c], Due(c, baseline[c]))

Told(c) ==
    /\ seeded[c] \/ expected[c] = 0
    /\ conn[c] = "open" => \E w : Carried(c, w)

ShadowInv == CountInv /\ \A c \in Clients : Told(c)

\* A frame leads from a view to a view; without a view only a snapshot gives one.
LEMMA ApplyView ==
    ASSUME NEW f, f \in Frames(Nat) \/ f \in Events
    PROVE  /\ \A v \in Views : Apply(f, v) \in Views
           /\ f.event = "snapshot" => f.body \in Views /\ \A v : Apply(f, v) = f.body
           /\ f.event /= "snapshot" => Apply(f, NoView) = NoView
<1>1. ASSUME NEW v \in Views PROVE Apply(f, v) \in Views
  <2>1. v /= NoView
    BY HubAssumption
  <2>2. CASE f.event = "append"
    <3>1. f.body \in Seq(Tokens)
      BY <2>2 DEF Frames, Events
    <3>2. Text(v.stream) \in Seq(Tokens)
      BY TextType
    <3>3. Text(v.stream) \o f.body \in Seq(Tokens)
      BY <3>1, <3>2
    <3>4. Text(v.stream) \o f.body \in Streams
      BY <3>3 DEF Streams
    <3> QED
      BY <2>1, <2>2, <3>4 DEF Apply, Views
  <2>3. CASE f.event = "input"
    BY <2>1, <2>3 DEF Apply, Views, Frames, Events
  <2>4. CASE f.event = "snapshot"
    BY <2>4 DEF Apply, Frames, Events
  <2> QED
    BY <2>2, <2>3, <2>4 DEF Apply
<1>2. f.event = "snapshot" => f.body \in Views /\ \A v : Apply(f, v) = f.body
  BY DEF Frames, Events, Apply
<1>3. f.event /= "snapshot" => Apply(f, NoView) = NoView
  BY DEF Apply
<1> QED
  BY <1>1, <1>2, <1>3

\* One frame more leads to any view it may lead to.
LEMMA LeadsOn ==
    ASSUME NEW fs \in Seq(Frames(Nat)), NEW x \in Nat, NEW w, Leads(fs, x, w),
           NEW f \in Frames(Nat), NEW y \in Views,
           f.event = "snapshot" => y = f.body,
           f.event /= "snapshot" /\ f.seq = After(fs, x) => y = Apply(f, w[Len(fs)])
    PROVE  \E u : /\ Leads(Append(fs, f), x, u) /\ u[0] = w[0] /\ u[Len(fs) + 1] = y
                  /\ Len(Append(fs, f)) = Len(fs) + 1 /\ After(Append(fs, f), x) = f.seq + 1
<1> DEFINE g == Append(fs, f)
           n == Len(fs)
           u == [i \in 0 .. n + 1 |-> IF i = n + 1 THEN y ELSE w[i]]
<1>1. /\ n \in Nat /\ Len(g) = n + 1 /\ DOMAIN fs = 1 .. n /\ DOMAIN g = 1 .. n + 1
      /\ g[n + 1] = f /\ g /= <<>> /\ (n = 0 <=> fs = <<>>)
      /\ \A i \in 1 .. n : g[i] = fs[i]
  OBVIOUS
<1> HIDE DEF g
<1>2. w \in [0 .. n -> Views]
  BY DEF Leads
<1> HIDE DEF n
<1>3. u \in [0 .. n + 1 -> Views] /\ u[n + 1] = y /\ \A i \in 0 .. n : u[i] = w[i]
  BY <1>1, <1>2
<1> HIDE DEF u
<1>4. ASSUME NEW i \in 1 .. n PROVE Before(g, x, i) = Before(fs, x, i)
  BY <1>1 DEF Before
<1>5. Before(g, x, n + 1) = After(fs, x)
  BY <1>1 DEF Before, After, n
<1>6. ASSUME NEW i \in DOMAIN g
      PROVE  /\ g[i].event = "snapshot" => u[i] = g[i].body
             /\ g[i].event /= "snapshot" /\ g[i].seq = Before(g, x, i) => u[i] = Apply(g[i], u[i - 1])
  <2>1. CASE i = n + 1
    <3>1. g[i] = f /\ u[i] = y /\ u[i - 1] = w[n]
      BY <1>1, <1>3, <2>1
    <3> QED
      BY <1>5, <2>1, <3>1 DEF n
  <2>2. CASE i \in 1 .. n
    <3>1. g[i] = fs[i] /\ u[i] = w[i] /\ u[i - 1] = w[i - 1] /\ i \in DOMAIN fs
      BY <1>1, <1>3, <2>2
    <3> QED
      BY <1>4, <2>2, <3>1 DEF Leads
  <2> QED
    BY <1>1, <2>1, <2>2
<1>7. Leads(g, x, u)
  BY <1>1, <1>3, <1>6 DEF Leads
<1>8. u[0] = w[0] /\ u[n + 1] = y
  BY <1>1, <1>3
<1>9. After(g, x) = f.seq + 1
  BY <1>1 DEF After
<1> QED
  BY <1>1, <1>7, <1>8, <1>9 DEF g, n

\* Taking the first frame, or losing it, leaves the others where they lead.
LEMMA LeadsTail ==
    ASSUME NEW fs \in Seq(Frames(Nat)), fs /= <<>>, NEW x \in Nat, NEW w, Leads(fs, x, w),
           NEW z \in Nat, NEW v \in Views,
           \/ z = fs[1].seq + 1 /\ v = w[1]
           \/ \A i \in 2 .. Len(fs) : fs[i].seq /= z
    PROVE  \E u : /\ Leads(Tail(fs), z, u) /\ u[0] = v
                  /\ fs[1] \in Frames(Nat)
                  /\ After(Tail(fs), z) \in {z, After(fs, x)}
                  /\ z = fs[1].seq + 1 => After(Tail(fs), z) = After(fs, x)
                  /\ Tail(fs) /= <<>> \/ v = w[1] => u[Len(Tail(fs))] = w[Len(fs)]
                  /\ Tail(fs) /= <<>> => After(Tail(fs), z) = After(fs, x)
<1> DEFINE g == Tail(fs)
           n == Len(fs)
           u == [i \in 0 .. n - 1 |-> IF i = 0 THEN v ELSE w[i + 1]]
<1>1. /\ n \in Nat \ {0} /\ Len(g) = n - 1 /\ DOMAIN fs = 1 .. n /\ DOMAIN g = 1 .. n - 1
      /\ \A i \in 1 .. n - 1 : g[i] = fs[i + 1]
      /\ fs[1] \in Frames(Nat)
      /\ (g = <<>> <=> n = 1)
  <2>1. /\ n \in Nat \ {0} /\ Len(g) = n - 1 /\ DOMAIN fs = 1 .. n /\ DOMAIN g = 1 .. n - 1
        /\ \A i \in 1 .. n - 1 : g[i] = fs[i + 1]
        /\ fs[1] \in Frames(Nat)
    BY TailIs
  <2>a. g \in Seq(Frames(Nat))
    OBVIOUS
  <2>2. g = <<>> <=> Len(g) = 0
    <3> HIDE DEF g
    <3> QED
      BY <2>a, EmptySeq
  <2> HIDE DEF g, n
  <2> QED
    BY <2>1, <2>2
<1>2. w \in [0 .. n -> Views]
  BY DEF Leads
<1> HIDE DEF g, n
<1>3. u \in [0 .. n - 1 -> Views] /\ u[0] = v /\ \A i \in 1 .. n - 1 : u[i] = w[i + 1]
  BY <1>1, <1>2
<1> HIDE DEF u
<1>4. ASSUME NEW i \in 2 .. n - 1 PROVE Before(g, z, i) = Before(fs, x, i + 1)
  <2>1. i - 1 \in 1 .. n - 1 /\ i /= 1 /\ i + 1 /= 1 /\ (i + 1) - 1 = i /\ (i - 1) + 1 = i
    BY <1>1
  <2>2. g[i - 1] = fs[i]
    BY <1>1, <2>1
  <2> QED
    BY <2>1, <2>2 DEF Before
<1>5. ASSUME NEW i \in DOMAIN g
      PROVE  /\ g[i].event = "snapshot" => u[i] = g[i].body
             /\ g[i].event /= "snapshot" /\ g[i].seq = Before(g, z, i) => u[i] = Apply(g[i], u[i - 1])
  <2>0. i + 1 \in DOMAIN fs /\ g[i] = fs[i + 1] /\ u[i] = w[i + 1] /\ (i + 1) - 1 = i
    BY <1>1, <1>3
  <2>1. CASE i = 1
    <3>1. g[1] = fs[2] /\ u[1] = w[2] /\ 2 \in DOMAIN fs /\ 2 - 1 = 1 /\ 1 - 1 = 0
      BY <2>0, <2>1
    <3>2. Before(g, z, 1) = z /\ Before(fs, x, 2) = fs[1].seq + 1
      BY <3>1 DEF Before
    <3>3. /\ fs[2].event = "snapshot" => w[2] = fs[2].body
          /\ fs[2].event /= "snapshot" /\ fs[2].seq = fs[1].seq + 1 => w[2] = Apply(fs[2], w[1])
      BY <3>1, <3>2 DEF Leads
    <3> QED
      BY <1>3, <2>1, <3>1, <3>2, <3>3
  <2>2. CASE i /= 1
    <3>1. i \in 2 .. n - 1 /\ i - 1 \in 1 .. n - 1 /\ (i - 1) + 1 = i
      BY <1>1, <2>2
    <3>2. u[i - 1] = w[i]
      BY <1>3, <3>1
    <3> QED
      BY <1>4, <2>0, <3>1, <3>2 DEF Leads
  <2> QED
    BY <2>1, <2>2
<1>6. Leads(g, z, u)
  BY <1>1, <1>3, <1>5 DEF Leads
<1>7. g /= <<>> => After(g, z) = After(fs, x) /\ u[Len(g)] = w[n]
  <2> SUFFICES ASSUME g /= <<>> PROVE After(g, z) = After(fs, x) /\ u[Len(g)] = w[n]
    OBVIOUS
  <2>1. n - 1 \in 1 .. n - 1 /\ (n - 1) + 1 = n /\ fs /= <<>> /\ Len(fs) = n
    BY <1>1 DEF n
  <2>2. g[n - 1] = fs[n] /\ u[n - 1] = w[n]
    BY <1>1, <1>3, <2>1
  <2> QED
    BY <1>1, <2>1, <2>2 DEF After
<1>8. g = <<>> => /\ After(g, z) = z /\ n = 1 /\ Len(g) = 0
                  /\ z = fs[1].seq + 1 => After(fs, x) = z
  BY <1>1 DEF After, n
<1>9. v = w[1] => u[Len(g)] = w[n]
  BY <1>3, <1>7, <1>8
<1> QED
  BY <1>1, <1>3, <1>6, <1>7, <1>8, <1>9 DEF g, n

\* Where a bunch leads from v, if it is taken in turn.
Folded(e, v) ==
    IF e = <<>> THEN v
    ELSE IF Len(e) = 1 THEN Apply(e[1], v) ELSE Apply(e[2], Apply(e[1], v))

\* A bunch leads where its events do: the client gets there from what the last
\* frame in flight leaves it with, if that is the one before.
LEMMA BunchLeads ==
    ASSUME NEW fs \in Seq(Frames(Nat)), NEW x \in Nat, NEW l \in Nat, NEW w, Leads(fs, x, w),
           NEW e \in Seq(Events), Bunch(e), e /= <<>>, NEW v \in Views,
           After(fs, x) = l + 1 => v = w[Len(fs)]
    PROVE  LET g == fs \o Numbered(e, l) IN
           /\ \E u : Leads(g, x, u) /\ u[0] = w[0] /\ u[Len(g)] = Folded(e, v)
           /\ After(g, x) = l + Len(e) + 1
<1> DEFINE g == fs \o Numbered(e, l)
<1>1. ASSUME NEW a \in Events, e = <<a>>
      PROVE  /\ \E u : Leads(g, x, u) /\ u[0] = w[0] /\ u[Len(g)] = Folded(e, v)
             /\ After(g, x) = l + Len(e) + 1
  <2> DEFINE p == At(a, l + 1)
             y == Apply(a, v)
  <2>1. g = Append(fs, p) /\ p \in Frames(Nat) /\ Len(e) = 1 /\ e[1] = a
    BY <1>1, NumberedIs
  <2>2. p.seq = l + 1 /\ p.event = a.event /\ p.body = a.body /\ (\A z : Apply(p, z) = Apply(a, z))
    BY DEF At, Apply
  <2>3. y \in Views /\ (a.event = "snapshot" => y = a.body)
    BY ApplyView
  <2>4. Folded(e, v) = y
    BY <1>1, <2>1 DEF Folded
  <2> HIDE DEF p, y
  <2>5. /\ p.event = "snapshot" => y = p.body
        /\ p.event /= "snapshot" /\ p.seq = After(fs, x) => y = Apply(p, w[Len(fs)])
    BY <2>2, <2>3 DEF y
  <2>6. \E u : /\ Leads(Append(fs, p), x, u) /\ u[0] = w[0] /\ u[Len(fs) + 1] = y
               /\ Len(Append(fs, p)) = Len(fs) + 1 /\ After(Append(fs, p), x) = p.seq + 1
    BY <2>1, <2>3, <2>5, LeadsOn
  <2> QED
    BY <2>1, <2>2, <2>4, <2>6
<1>2. ASSUME NEW a \in Events, NEW b \in Events, e = <<a, b>>
      PROVE  /\ \E u : Leads(g, x, u) /\ u[0] = w[0] /\ u[Len(g)] = Folded(e, v)
             /\ After(g, x) = l + Len(e) + 1
  <2> DEFINE p == At(a, l + 1)
             r == At(b, l + 2)
             y == Apply(a, v)
             z == Apply(b, y)
             h == Append(fs, p)
  <2>1. g = Append(h, r) /\ p \in Frames(Nat) /\ Len(e) = 2 /\ e[1] = a /\ e[2] = b
    BY <1>2, NumberedIs
  <2>2. /\ p.seq = l + 1 /\ p.event = a.event /\ p.body = a.body
        /\ r.seq = l + 2 /\ r.event = b.event /\ r.body = b.body
        /\ \A q : Apply(p, q) = Apply(a, q)
        /\ \A q : Apply(r, q) = Apply(b, q)
    BY DEF At, Apply
  <2>3. y \in Views /\ (a.event = "snapshot" => y = a.body)
    BY ApplyView
  <2>4. z \in Views /\ (b.event = "snapshot" => z = b.body)
    BY <2>3, ApplyView
  <2>5. Folded(e, v) = z
    BY <1>2, <2>1 DEF Folded
  <2>6. r \in Frames(Nat) /\ h \in Seq(Frames(Nat))
    <3>1. r \in Frames(Nat)
      BY DEF Events, Frames, At
    <3> QED
      BY <3>1, <2>1, AppendProperties
  <2>7. /\ p.event = "snapshot" => y = p.body
        /\ p.event /= "snapshot" /\ p.seq = After(fs, x) => y = Apply(p, w[Len(fs)])
    <3> HIDE DEF p
    <3> QED
      BY <2>2, <2>3
  <2> HIDE DEF p, y, r
  <2>8. PICK u : /\ Leads(h, x, u) /\ u[0] = w[0] /\ u[Len(fs) + 1] = y
                 /\ Len(h) = Len(fs) + 1 /\ After(h, x) = p.seq + 1
    BY <2>1, <2>3, <2>7, LeadsOn
  <2> HIDE DEF h, z
  <2>9. /\ r.event = "snapshot" => z = r.body
        /\ r.event /= "snapshot" /\ r.seq = After(h, x) => z = Apply(r, u[Len(h)])
    BY <2>2, <2>4, <2>8 DEF z
  <2>10. \E t : /\ Leads(Append(h, r), x, t) /\ t[0] = u[0] /\ t[Len(h) + 1] = z
                /\ Len(Append(h, r)) = Len(h) + 1 /\ After(Append(h, r), x) = r.seq + 1
    BY <2>4, <2>6, <2>8, <2>9, LeadsOn
  <2> HIDE DEF g
  <2> QED
    BY <2>1, <2>2, <2>5, <2>8, <2>10
<1> QED
  BY <1>1, <1>2 DEF Bunch

\* What append_suffix leaves out the client has.
LEMMA SuffixCompletes ==
    ASSUME NEW p \in Streams, NEW n \in Streams, ~IsReset(p, n)
    PROVE  /\ Suffix(p, n) = <<>> => p = n
           /\ Suffix(p, n) /= <<>> => Text(p) \o Suffix(p, n) = n
<1> DEFINE a == Text(p)
           b == Text(n)
<1>1. a \in Seq(Tokens) /\ b \in Seq(Tokens)
  BY DEF Text, Streams
<1>2. /\ p = NoStream <=> n = NoStream
      /\ Len(a) <= Len(b) /\ SubSeq(b, 1, Len(a)) = a
  BY DEF IsReset, Extends
<1>3. Suffix(p, n) = SubSeq(b, Len(a) + 1, Len(b))
  BY DEF Suffix
<1>4. p /= NoStream => p = a /\ n = b
  BY <1>2 DEF Text
<1>5. p = NoStream => a = <<>> /\ b = <<>>
  BY <1>2 DEF Text
<1> HIDE DEF a, b
<1>6. a \o SubSeq(b, Len(a) + 1, Len(b)) = b
  <2>1. Len(a) \in Nat /\ Len(b) \in Nat
    BY <1>1
  <2>2. 1 \in 1 .. Len(b) + 1 /\ Len(a) \in 1 - 1 .. Len(b) /\ Len(b) \in Len(a) .. Len(b)
    BY <1>2, <2>1
  <2> QED
    BY <1>1, <1>2, <2>2, ConcatAdjacentSubSeq, SubSeqFull
<1>7. SubSeq(b, Len(a) + 1, Len(b)) = <<>> => a = b
  BY <1>1, <1>6, ConcatEmptySeq
<1>8. p = NoStream => SubSeq(b, Len(a) + 1, Len(b)) = <<>>
  <2> SUFFICES ASSUME a = <<>>, b = <<>> PROVE SubSeq(b, Len(a) + 1, Len(b)) = <<>>
    BY <1>5
  <2>1. Len(b) = 0 /\ Len(a) + 1 = 1
    OBVIOUS
  <2> QED
    BY <2>1, SubSeqEmpty
<1> QED
  BY <1>2, <1>3, <1>4, <1>6, <1>7, <1>8 DEF a

LEMMA TwoParts ==
    ASSUME NEW S, NEW a \in S, NEW b \in S
    PROVE  /\ <<>> \o <<>> = <<>> /\ <<a>> \o <<>> = <<a>> /\ <<>> \o <<b>> = <<b>>
           /\ <<a>> \o <<b>> = <<a, b>>
<1>1. <<>> \in Seq(S) /\ <<a>> \in Seq(S) /\ <<b>> \in Seq(S)
  OBVIOUS
<1>2. <<a>> \o <<>> = <<a>> /\ <<>> \o <<b>> = <<b>> /\ <<>> \o <<>> = <<>>
  BY <1>1, ConcatEmptySeq
<1>3. <<a>> \o <<b>> = <<a, b>>
  BY PairIs
<1> QED
  BY <1>2, <1>3

\* Without a full snapshot the deltas bring a client that has p to n, but for
\* the output of an agent.
LEMMA DeltasLead ==
    ASSUME NEW p \in Views, NEW n \in Views, NEW v \in Views,
           v.page = p.page, v.stream = p.stream, v.input = p.input,
           p.page = n.page, ~IsReset(p.stream, n.stream)
    PROVE  LET u == Folded(Deltas(p, n), v) IN
           u.page = n.page /\ u.stream = n.stream /\ u.input = n.input /\ u.agent = v.agent
<1> DEFINE t == Suffix(p.stream, n.stream)
           a == [event |-> "append", body |-> t]
           b == [event |-> "input", body |-> n.input]
           Good(u, s, i) == u.page = n.page /\ u.stream = s /\ u.input = i /\ u.agent = v.agent
<1>1. a \in Events /\ b \in Events
  BY SuffixType DEF Events, Views
<1>2. /\ p.stream \in Streams /\ n.stream \in Streams
      /\ t = <<>> => p.stream = n.stream
      /\ t /= <<>> => Text(p.stream) \o t = n.stream
  <2>1. p.stream \in Streams /\ n.stream \in Streams
    BY DEF Views
  <2> QED
    BY <2>1, SuffixCompletes
<1>3. Deltas(p, n) = (IF t = <<>> THEN <<>> ELSE <<a>>) \o (IF p.input = n.input THEN <<>> ELSE <<b>>)
  BY DEF Deltas
<1>4. /\ Folded(<<>>, v) = v
      /\ Folded(<<a>>, v) = Apply(a, v) /\ Folded(<<b>>, v) = Apply(b, v)
      /\ Folded(<<a, b>>, v) = Apply(b, Apply(a, v))
  <2> HIDE DEF a, b
  <2> QED
    BY DEF Folded
<1>5. v /= NoView
  BY HubAssumption
<1>6. t /= <<>> => /\ Apply(a, v) \in Views /\ Apply(a, v) /= NoView
                   /\ Good(Apply(a, v), n.stream, v.input)
  <2> SUFFICES ASSUME t /= <<>> PROVE Apply(a, v) = [v EXCEPT !.stream = n.stream]
    BY <1>2, HubAssumption DEF Views
  <2>1. Apply(a, v) = [v EXCEPT !.stream = Text(v.stream) \o t]
    BY <1>5 DEF Apply, Views
  <2> QED
    BY <1>2, <2>1
<1>7. ASSUME NEW u \in Views, u /= NoView
      PROVE  /\ Apply(b, u) = [u EXCEPT !.input = n.input]
             /\ Apply(b, u).page = u.page /\ Apply(b, u).stream = u.stream
             /\ Apply(b, u).input = n.input /\ Apply(b, u).agent = u.agent
  <2>1. Apply(b, u) = [u EXCEPT !.input = n.input]
    BY <1>7 DEF Apply, Views
  <2> QED
    BY <2>1 DEF Views
<1> SUFFICES Good(Folded(Deltas(p, n), v), n.stream, n.input)
  OBVIOUS
<1>8. CASE t = <<>> /\ p.input = n.input
  <2>1. Deltas(p, n) = <<>>
    BY <1>1, <1>3, <1>8, TwoParts
  <2> QED
    BY <1>2, <1>4, <1>8, <2>1
<1>9. CASE t = <<>> /\ p.input /= n.input
  <2>1. Deltas(p, n) = <<b>>
    BY <1>1, <1>3, <1>9, TwoParts
  <2> HIDE DEF a, b, t
  <2>2. /\ Apply(b, v).page = v.page /\ Apply(b, v).stream = v.stream
        /\ Apply(b, v).input = n.input /\ Apply(b, v).agent = v.agent
    BY <1>5, <1>7
  <2>3. Folded(Deltas(p, n), v) = Apply(b, v)
    BY <1>4, <2>1
  <2> QED
    BY <1>2, <1>9, <2>2, <2>3
<1>10. CASE t /= <<>> /\ p.input = n.input
  <2>1. Deltas(p, n) = <<a>>
    BY <1>1, <1>3, <1>10, TwoParts
  <2> QED
    BY <1>4, <1>6, <1>10, <2>1
<1>11. CASE t /= <<>> /\ p.input /= n.input
  <2>1. Deltas(p, n) = <<a, b>>
    BY <1>1, <1>3, <1>11, TwoParts
  <2> HIDE DEF a, b, t
  <2> DEFINE u == Apply(a, v)
  <2>2. u \in Views /\ u /= NoView /\ u.page = n.page /\ u.stream = n.stream /\ u.agent = v.agent
    BY <1>6, <1>11
  <2>3. Folded(Deltas(p, n), v) = Apply(b, u)
    BY <1>4, <2>1
  <2> HIDE DEF u
  <2>4. /\ Apply(b, u).page = u.page /\ Apply(b, u).stream = u.stream
        /\ Apply(b, u).input = n.input /\ Apply(b, u).agent = u.agent
    BY <1>7, <2>2
  <2> QED
    BY <2>2, <2>3, <2>4
<1> QED
  BY <1>8, <1>9, <1>10, <1>11

\* A client that is sent nothing and takes nothing stays told.
LEMMA ToldSame ==
    ASSUME NEW c \in Clients, Told(c),
           UNCHANGED <<expected[c], seeded[c]>>,
           conn'[c] = "open" =>
             /\ conn[c] = "open"
             /\ UNCHANGED <<frames[c], awaiting_resync[c], shadow[c], last_seq[c]>>,
           c \in attached' =>
             /\ c \in attached /\ baseline'[c] = baseline[c]
             /\ force_resync => force_resync'
             /\ c \in streaming' => c \in streaming \/ force_resync'
    PROVE  Told(c)'
<1>1. c \in attached' => (Due(c, baseline[c])' => Due(c, baseline[c]))
  BY DEF Due, Shown
<1>2. ASSUME NEW v, c \in attached', Matches(v, baseline[c], Due(c, baseline[c]))
      PROVE  Matches(v, baseline'[c], Due(c, baseline[c])')
  BY <1>1, <1>2 DEF Matches
<1>3. ASSUME conn'[c] = "open", NEW w, Carried(c, w) PROVE Carried(c, w)'
  BY <1>2, <1>3 DEF Carried
<1> QED
  BY <1>3 DEF Told

\* A client that is sent what brings its last view to the new baseline stays told.
LEMMA ToldSent ==
    ASSUME TypeOK, NEW c \in Clients, Told(c), conn[c] = "open",
           UNCHANGED <<expected[c], seeded[c], conn[c], awaiting_resync[c], shadow[c]>>,
           NEW e \in Seq(Events), Bunch(e), e /= <<>>,
           frames'[c] = frames[c] \o Numbered(e, last_seq[c]),
           last_seq'[c] = last_seq[c] + Len(e),
           \A v \in Views :
              /\ c \in attached => Matches(v, baseline[c], Due(c, baseline[c]))
              /\ c \in attached'
              => Matches(Folded(e, v), baseline'[c], Due(c, baseline[c])')
    PROVE  Told(c)'
<1>0. PICK w : Carried(c, w)
  BY DEF Told
<1>1. /\ Leads(frames[c], expected[c], w)
      /\ awaiting_resync[c] \/ shadow[c] = NoView \/ w[0] = shadow[c]
      /\ c \in attached /\ After(frames[c], expected[c]) = last_seq[c] + 1 =>
           Matches(w[Len(frames[c])], baseline[c], Due(c, baseline[c]))
  BY <1>0 DEF Carried
<1>2. /\ frames[c] \in Seq(Frames(Nat)) /\ expected[c] \in Nat /\ last_seq[c] \in Nat
      /\ view \in Views /\ (c \in attached => baseline[c] \in Views)
      /\ Len(frames[c]) \in 0 .. Len(frames[c])
  BY DEF TypeOK
<1> DEFINE v == IF After(frames[c], expected[c]) = last_seq[c] + 1 THEN w[Len(frames[c])]
                ELSE IF c \in attached THEN baseline[c] ELSE view
<1>3. /\ v \in Views
      /\ After(frames[c], expected[c]) = last_seq[c] + 1 => v = w[Len(frames[c])]
      /\ c \in attached => Matches(v, baseline[c], Due(c, baseline[c]))
  <2>1. w[Len(frames[c])] \in Views
    BY <1>1, <1>2 DEF Leads
  <2>2. Matches(baseline[c], baseline[c], Due(c, baseline[c]))
    BY DEF Matches
  <2> QED
    BY <1>1, <1>2, <2>1, <2>2
<1> HIDE DEF v
<1> DEFINE g == frames[c] \o Numbered(e, last_seq[c])
<1>4. /\ \E u : Leads(g, expected[c], u) /\ u[0] = w[0] /\ u[Len(g)] = Folded(e, v)
      /\ After(g, expected[c]) = last_seq[c] + Len(e) + 1
  <2> DEFINE fs == frames[c]
             x == expected[c]
             l == last_seq[c]
  <2>1. /\ fs \in Seq(Frames(Nat)) /\ x \in Nat /\ l \in Nat /\ Leads(fs, x, w)
        /\ (After(fs, x) = l + 1 => v = w[Len(fs)])
    BY <1>1, <1>2, <1>3
  <2> HIDE DEF fs, x, l
  <2>2. LET h == fs \o Numbered(e, l) IN
        /\ \E u : Leads(h, x, u) /\ u[0] = w[0] /\ u[Len(h)] = Folded(e, v)
        /\ After(h, x) = l + Len(e) + 1
    BY <1>3, <2>1, BunchLeads
  <2> QED
    BY <2>2 DEF fs, x, l
<1> HIDE DEF g
<1>5. PICK u : Leads(g, expected[c], u) /\ u[0] = w[0] /\ u[Len(g)] = Folded(e, v)
  BY <1>4
<1>6. c \in attached' => Matches(u[Len(g)], baseline'[c], Due(c, baseline[c])')
  BY <1>3, <1>5
<1>7. frames'[c] = g
  BY DEF g
<1>8. Carried(c, u)'
  BY <1>1, <1>5, <1>6, <1>7 DEF Carried
<1> QED
  BY <1>8 DEF Told

LEMMA SentNothing ==
    ASSUME TypeOK, NEW es \in [Clients -> Seq(Events)], Sends(es), NEW c \in Clients, es[c] = <<>>
    PROVE  frames'[c] = frames[c] /\ last_seq'[c] = last_seq[c]
<1>1. frames[c] \in Seq(Frames(Nat)) /\ last_seq[c] \in Nat
  BY DEF TypeOK
<1> DEFINE fs == frames[c]
           l == last_seq[c]
<1>2. fs \o Numbered(<<>>, l) = fs /\ l + Len(<<>>) = l
  <2> HIDE DEF fs, l
  <2>1. fs \in Seq(Frames(Nat)) /\ l \in Nat
    BY <1>1 DEF fs, l
  <2>2. l + 0 = l /\ Len(<<>>) = 0
    BY <2>1
  <2> QED
    BY <2>1, <2>2, NumberedIs
<1> QED
  BY <1>2, SendsGive

\* A snapshot brings anything to the view, an acknowledgement leaves it.
LEMMA FoldedIs ==
    ASSUME TypeOK
    PROVE  \A v : /\ Folded(<<Snapshot>>, v) = view /\ Folded(<<Hello, Snapshot>>, v) = view
                  /\ Folded(<<Ack>>, v) = v
<1> TAKE v
<1>1. /\ \A u : Apply(Snapshot, u) = view
      /\ Apply(Ack, v) = v
  BY DEF Apply, Snapshot, Ack
<1> DEFINE s == Snapshot
           h == Hello
           a == Ack
<1> HIDE DEF s, h, a
<1>2. /\ Folded(<<s>>, v) = Apply(s, v) /\ Folded(<<a>>, v) = Apply(a, v)
      /\ Folded(<<h, s>>, v) = Apply(s, Apply(h, v))
  BY DEF Folded
<1> QED
  BY <1>1, <1>2 DEF s, h, a

LEMMA ToldHandle ==
    ASSUME CountInv, \A d \in Clients : Told(d), NEW c \in Clients, Handle(c)
    PROVE  \A d \in Clients : Told(d)'
<1>1. TypeOK /\ UNCHANGED peer /\ Told(c)
  BY DEF CountInv, SeatInv, Handle
<1>2. ASSUME NEW d \in Clients \ {c} PROVE Told(d)'
  <2>1. frames'[d] = frames[d] /\ last_seq'[d] = last_seq[d]
    <3>1. CASE UNCHANGED <<frames, last_seq>>
      BY <3>1
    <3>2. ASSUME NEW e \in Seq(Events), Bunch(e), Send(c, e)
          PROVE  frames'[d] = frames[d] /\ last_seq'[d] = last_seq[d]
      <4>1. PICK es \in [Clients -> Seq(Events)] :
              Sends(es) /\ (\A x \in Clients : Bunch(es[x])) /\ es[c] = e
                /\ \A x \in Clients \ {c} : es[x] = <<>>
        BY <1>1, <3>2, BunchOne
      <4> QED
        BY <1>1, <4>1, SentNothing
    <3>3. \/ UNCHANGED <<frames, last_seq>>
          \/ Send(c, <<Hello, Snapshot>>) \/ Send(c, <<Snapshot>>) \/ Send(c, <<Ack>>)
      BY DEF Handle, Register, Reseed, SetStreamView, Interrupt, Goes, hub
    <3> QED
      BY <1>1, <3>1, <3>2, <3>3, EventsAre, BunchesAre
  <2>2. /\ d \in attached' => d \in attached /\ baseline'[d] = baseline[d]
        /\ force_resync => force_resync'
        /\ d \in streaming' => d \in streaming
    BY <1>1 DEF Handle, Register, Reseed, SetStreamView, Interrupt, Goes, Deregister, hub, TypeOK
  <2> QED
    BY <1>1, <2>1, <2>2, ToldSame DEF peer
<1>3. conn[c] /= "open" => Told(c)'
  BY <1>1 DEF Told, peer
<1> DEFINE Brings(e) == \A v \in Views :
              /\ c \in attached => Matches(v, baseline[c], Due(c, baseline[c]))
              /\ c \in attached'
              => Matches(Folded(e, v), baseline'[c], Due(c, baseline[c])')
<1>4. ASSUME conn[c] = "open", NEW e \in Seq(Events), Bunch(e), e /= <<>>, Send(c, e), Brings(e)
      PROVE  Told(c)'
  <2>1. PICK es \in [Clients -> Seq(Events)] :
          Sends(es) /\ (\A x \in Clients : Bunch(es[x])) /\ es[c] = e
    BY <1>1, <1>4, BunchOne
  <2>2. frames'[c] = frames[c] \o Numbered(e, last_seq[c]) /\ last_seq'[c] = last_seq[c] + Len(e)
    BY <1>1, <1>4, <2>1, SendsGive
  <2>3. UNCHANGED <<expected[c], seeded[c], conn[c], awaiting_resync[c], shadow[c]>>
    BY <1>1 DEF peer
  <2> QED
    BY <1>1, <1>4, <2>2, <2>3, ToldSent
<1>5. ASSUME conn[c] = "open", NEW e \in {<<Snapshot>>, <<Hello, Snapshot>>}, Reseed(c, e)
      PROVE  Told(c)'
  <2>1. Send(c, e) /\ baseline'[c] = view
    BY <1>1, <1>5 DEF Reseed, TypeOK
  <2>2. Brings(e)
    BY <1>1, <1>5, <2>1, FoldedIs DEF Matches
  <2> HIDE DEF Brings
  <2>3. e \in Seq(Events) /\ Bunch(e) /\ e /= <<>>
    <3>1. CASE e = <<Snapshot>>
      BY <1>1, <3>1, EventsAre, BunchesAre
    <3>2. CASE e = <<Hello, Snapshot>>
      BY <1>1, <3>2, EventsAre, BunchesAre
    <3> QED
      BY <1>5, <3>1, <3>2
  <2> QED
    BY <1>4, <1>5, <2>1, <2>2, <2>3
<1>6. ASSUME conn[c] = "open", Send(c, <<Ack>>), UNCHANGED <<attached, baseline>>,
             Due(c, baseline[c])' => Due(c, baseline[c])
      PROVE  Told(c)'
  <2>1. Brings(<<Ack>>)
    <3> SUFFICES ASSUME NEW v \in Views, Matches(v, baseline[c], Due(c, baseline[c]))
                 PROVE  Matches(v, baseline'[c], Due(c, baseline[c])')
      BY <1>1, <1>6, FoldedIs
    <3> QED
      BY <1>6 DEF Matches
  <2> HIDE DEF Brings
  <2>2. <<Ack>> \in Seq(Events) /\ Bunch(<<Ack>>) /\ <<Ack>> /= <<>>
    BY <1>1, EventsAre, BunchesAre
  <2> QED
    BY <1>4, <1>6, <2>1, <2>2
<1>7. ASSUME conn[c] = "open" PROVE Told(c)'
  <2>1. CASE UNCHANGED <<hub, frames>> \/ Register(c)
    <3>1. /\ UNCHANGED <<attached, streaming, baseline, last_seq, force_resync, frames>>
      BY <2>1 DEF Register, hub
    <3> QED
      BY <1>1, <3>1, ToldSame DEF peer
  <2>2. CASE Reseed(c, <<Hello, Snapshot>>) \/ Reseed(c, <<Snapshot>>)
    BY <1>5, <1>7, <2>2
  <2>3. CASE \E watch \in BOOLEAN : SetStreamView(c, watch)
    <3>1. /\ Send(c, <<Ack>>) /\ UNCHANGED <<attached, baseline>>
          /\ force_resync' = (force_resync \/ streaming' /= streaming)
      BY <2>3 DEF SetStreamView
    <3>2. Due(c, baseline[c])' => Due(c, baseline[c])
      BY <3>1 DEF Due, Shown
    <3> QED
      BY <1>6, <1>7, <3>1, <3>2
  <2>4. CASE Interrupt(c)
    <3>1. Send(c, <<Ack>>) /\ UNCHANGED <<attached, baseline>> /\ force_resync' = TRUE
      BY <2>4 DEF Interrupt
    <3>2. ~Due(c, baseline[c])'
      BY <3>1 DEF Due
    <3> QED
      BY <1>6, <1>7, <3>1, <3>2
  <2>5. ASSUME NEW req, Goes(c, req) PROVE Told(c)'
    <3>1. UNCHANGED <<baseline, last_seq, force_resync, frames>> /\ c \notin attached'
      BY <2>5 DEF Goes, Deregister
    <3> QED
      BY <1>1, <3>1, ToldSame DEF peer
  <2> QED
    BY <2>1, <2>2, <2>3, <2>4, <2>5 DEF Handle
<1> QED
  BY <1>2, <1>3, <1>7

LEMMA ToldStream ==
    ASSUME CountInv, \A d \in Clients : Told(d), Stream, NEW c \in Clients
    PROVE  Told(c)'
<1> DEFINE es == [d \in Clients |-> Owed(d)]
           e == Owed(c)
<1>1. /\ TypeOK /\ Told(c) /\ UNCHANGED <<peer, attached, streaming, view>> /\ force_resync' = FALSE
      /\ es \in [Clients -> Seq(Events)] /\ Sends(es) /\ es[c] = e
      /\ Bunch(e) /\ e \in Seq(Events)
      /\ baseline'[c] = IF e = <<>> THEN baseline[c] ELSE view
  BY OwedType, OwedFew DEF CountInv, SeatInv, Stream, NextBaseline, session
<1>2. c \in attached => /\ baseline[c] \in Views /\ view \in Views
                        /\ e = IF force_resync \/ NeedsFull(c, baseline[c], view) THEN <<Snapshot>>
                               ELSE Deltas(baseline[c], view)
  BY <1>1 DEF Owed, TypeOK
<1>3. c \notin attached => e = <<>>
  BY DEF Owed
<1> HIDE DEF es, e
<1>4. CASE conn[c] /= "open"
  BY <1>1, <1>4 DEF Told, peer
<1>5. CASE conn[c] = "open" /\ e = <<>>
  <2>1. frames'[c] = frames[c] /\ last_seq'[c] = last_seq[c]
    BY <1>1, <1>5, SentNothing
  <2>2. c \in attached => ~force_resync
    BY <1>2, <1>5
  <2> QED
    BY <1>1, <1>5, <2>1, <2>2, ToldSame DEF peer
<1>6. CASE conn[c] = "open" /\ e /= <<>>
  <2>1. frames'[c] = frames[c] \o Numbered(e, last_seq[c]) /\ last_seq'[c] = last_seq[c] + Len(e)
    BY <1>1, <1>6, SendsGive
  <2>2. ASSUME NEW v \in Views, c \in attached, Matches(v, baseline[c], Due(c, baseline[c]))
        PROVE  Matches(Folded(e, v), view, Due(c, baseline[c])')
    <3>1. CASE force_resync \/ NeedsFull(c, baseline[c], view)
      <4>1. Folded(e, v) = view
        BY <1>1, <1>2, <2>2, <3>1, FoldedIs
      <4> QED
        BY <4>1 DEF Matches
    <3>2. CASE ~(force_resync \/ NeedsFull(c, baseline[c], view))
      <4>1. /\ e = Deltas(baseline[c], view) /\ baseline[c].page = view.page
            /\ Shown(c, view) => baseline[c].agent = view.agent
            /\ ~IsReset(baseline[c].stream, view.stream)
        BY <1>2, <2>2, <3>2 DEF NeedsFull
      <4>2. /\ v.page = baseline[c].page /\ v.stream = baseline[c].stream
            /\ v.input = baseline[c].input
        BY <2>2 DEF Matches
      <4> DEFINE u == Folded(e, v)
      <4>3. u.page = view.page /\ u.stream = view.stream /\ u.input = view.input /\ u.agent = v.agent
        BY <1>2, <2>2, <4>1, <4>2, DeltasLead
      <4> HIDE DEF u
      <4>4. Due(c, baseline[c])' => Shown(c, view)
        BY <1>1, <1>6 DEF Due, Shown
      <4>5. Shown(c, view) => v.agent = baseline[c].agent
        BY <2>2, <3>2, <4>1 DEF Matches, Due, Shown
      <4>6. Matches(u, view, Due(c, baseline[c])')
        BY <4>1, <4>3, <4>4, <4>5 DEF Matches
      <4> QED
        BY <4>6 DEF u
    <3> QED
      BY <3>1, <3>2
  <2>3. UNCHANGED <<expected[c], seeded[c], conn[c], awaiting_resync[c], shadow[c]>>
        /\ c \in attached /\ baseline'[c] = view
    BY <1>1, <1>3, <1>6 DEF peer
  <2> QED
    BY <1>1, <1>6, <2>1, <2>2, <2>3, ToldSent
<1> QED
  BY <1>4, <1>5, <1>6

LEMMA ToldReceive ==
    ASSUME CountInv, \A d \in Clients : Told(d), NEW c \in Clients, Receive(c)
    PROVE  \A d \in Clients : Told(d)'
<1> DEFINE f == frames[c][1]
           z == expected'[c]
<1>1. /\ TypeOK /\ Counted(c) /\ Told(c) /\ frames[c] \in Seq(Frames(Nat)) /\ frames[c] /= <<>>
      /\ f = Head(frames[c]) /\ f \in Frames(Nat) /\ f.seq \in Nat
      /\ frames'[c] = Tail(frames[c]) /\ UNCHANGED hub /\ conn' = conn /\ conn[c] = "open"
      /\ expected[c] \in Nat
  BY TailIs DEF Receive, CountInv, SeatInv, Silent, TypeOK, Frames, Handshake, Gap, InTurn, peer
<1>2. ASSUME NEW d \in Clients \ {c} PROVE Told(d)'
  <2>1. UNCHANGED <<frames[d], expected[d], seeded[d], awaiting_resync[d], shadow[d], conn[d]>>
    BY <1>1, <1>2 DEF Receive, Handshake, Gap, InTurn, TypeOK, peer
  <2> QED
    BY <1>1, <2>1, ToldSame DEF hub
<1>3. PICK w : Carried(c, w)
  BY <1>1 DEF Told
<1>4. /\ Leads(frames[c], expected[c], w) /\ w[1] \in Views
      /\ f.event = "snapshot" => w[1] = f.body
      /\ f.event /= "snapshot" /\ f.seq = expected[c] => w[1] = Apply(f, w[0])
  <2>1. 1 \in DOMAIN frames[c] /\ 1 \in 0 .. Len(frames[c])
    BY <1>1
  <2>2. Before(frames[c], expected[c], 1) = expected[c] /\ 1 - 1 = 0
    BY DEF Before
  <2> QED
    BY <1>3, <2>1, <2>2 DEF Carried, Leads
<1>5. \/ /\ z = f.seq + 1 /\ seeded'[c]
         /\ awaiting_resync'[c] \/ shadow'[c] = NoView \/ w[1] = shadow'[c]
      \/ z = 0 /\ ~seeded'[c] /\ shadow'[c] = NoView
  <2>1. CASE Handshake(c, f)
    BY <1>1, <2>1 DEF Handshake, Counted, Told, peer
  <2>2. CASE Gap(c, f)
    BY <1>1, <2>2 DEF Gap, TypeOK
  <2>3. CASE InTurn(c, f)
    <3>1. /\ z = f.seq + 1 /\ seeded'[c]
          /\ awaiting_resync'[c] = (awaiting_resync[c] /\ f.event /= "snapshot")
          /\ shadow'[c] = IF Takes(c, f) THEN Apply(f, shadow[c]) ELSE shadow[c]
          /\ f.event /= "snapshot" => ~seeded[c] \/ f.seq = expected[c]
      BY <1>1, <2>3 DEF InTurn, TypeOK
    <3>2. CASE f.event = "snapshot"
      BY <1>1, <1>4, <3>1, <3>2, ApplyView DEF Takes
    <3>3. CASE f.event /= "snapshot" /\ awaiting_resync[c]
      BY <3>1, <3>3
    <3>4. CASE f.event /= "snapshot" /\ ~awaiting_resync[c]
      <4>1. shadow'[c] = Apply(f, shadow[c])
        BY <3>1, <3>4 DEF Takes
      <4>2. CASE shadow[c] = NoView
        BY <1>1, <3>1, <3>4, <4>1, <4>2, ApplyView
      <4>3. CASE shadow[c] /= NoView
        BY <1>1, <1>3, <1>4, <3>1, <3>4, <4>1, <4>3 DEF Counted, Carried
      <4> QED
        BY <4>2, <4>3
    <3> QED
      BY <3>2, <3>3, <3>4
  <2> QED
    BY <1>1, <2>1, <2>2, <2>3 DEF Receive
<1>6. \A i \in 2 .. Len(frames[c]) : frames[c][i].seq /= 0
  <2> SUFFICES ASSUME NEW i \in 2 .. Len(frames[c]) PROVE frames[c][i].seq /= 0
    OBVIOUS
  <2>1. i \in DOMAIN frames[c] /\ 1 \in DOMAIN frames[c] /\ 1 < i
    BY <1>1
  <2>2. frames[c][1].seq < frames[c][i].seq
    BY <1>1, <2>1 DEF Counted, Rising
  <2>3. frames[c][i].seq \in Nat
    BY <1>1, <2>1 DEF Frames
  <2> QED
    BY <1>1, <2>2, <2>3
<1> HIDE DEF f, z
<1>7. \E u : /\ Leads(frames'[c], z, u) /\ u[0] = w[1]
             /\ u[Len(frames'[c])] = w[Len(frames[c])]
             /\ After(frames'[c], z) \in {z, After(frames[c], expected[c])}
             /\ z = f.seq + 1 => After(frames'[c], z) = After(frames[c], expected[c])
             /\ frames'[c] /= <<>> => After(frames'[c], z) = After(frames[c], expected[c])
             /\ frames'[c] = <<>> => After(frames'[c], z) = z
  <2> DEFINE fs == frames[c]
             x == expected[c]
             v == w[1]
  <2>1. /\ fs \in Seq(Frames(Nat)) /\ fs /= <<>> /\ x \in Nat /\ v \in Views /\ z \in Nat
        /\ Leads(fs, x, w)
        /\ \/ z = fs[1].seq + 1 /\ v = w[1]
           \/ \A i \in 2 .. Len(fs) : fs[i].seq /= z
    BY <1>1, <1>4, <1>5, <1>6 DEF f
  <2> HIDE DEF fs, x
  <2>2. \E u : /\ Leads(Tail(fs), z, u) /\ u[0] = v
               /\ fs[1] \in Frames(Nat)
               /\ After(Tail(fs), z) \in {z, After(fs, x)}
               /\ z = fs[1].seq + 1 => After(Tail(fs), z) = After(fs, x)
               /\ Tail(fs) /= <<>> \/ v = w[1] => u[Len(Tail(fs))] = w[Len(fs)]
               /\ Tail(fs) /= <<>> => After(Tail(fs), z) = After(fs, x)
    BY <2>1, LeadsTail
  <2>3. Tail(fs) = <<>> => After(Tail(fs), z) = z
    BY DEF After
  <2>4. frames'[c] = Tail(fs) /\ f = fs[1]
    BY <1>1 DEF fs, f
  <2> QED
    BY <2>2, <2>3, <2>4 DEF fs, x
<1>8. PICK u : /\ Leads(frames'[c], z, u) /\ u[0] = w[1]
               /\ u[Len(frames'[c])] = w[Len(frames[c])]
               /\ z = f.seq + 1 => After(frames'[c], z) = After(frames[c], expected[c])
               /\ frames'[c] /= <<>> => After(frames'[c], z) = After(frames[c], expected[c])
               /\ frames'[c] = <<>> => After(frames'[c], z) = z
  BY <1>7
<1>9. After(frames'[c], z) = last_seq[c] + 1 =>
        After(frames[c], expected[c]) = last_seq[c] + 1
  <2>1. last_seq[c] \in Nat /\ 0 /= last_seq[c] + 1
    BY <1>1 DEF TypeOK
  <2> QED
    BY <1>5, <1>8, <2>1
<1>10. c \in attached' /\ After(frames'[c], z) = last_seq'[c] + 1 =>
         Matches(u[Len(frames'[c])], baseline'[c], Due(c, baseline[c])')
  <2>1. UNCHANGED <<attached, streaming, baseline, last_seq, force_resync>>
    BY <1>1 DEF hub
  <2>2. Due(c, baseline[c])' => Due(c, baseline[c])
    BY <2>1 DEF Due, Shown
  <2> QED
    BY <1>3, <1>8, <1>9, <2>1, <2>2 DEF Carried, Matches
<1>11. Carried(c, u)'
  BY <1>5, <1>8, <1>10 DEF Carried, z
<1>12. Told(c)'
  BY <1>5, <1>11 DEF Told, z
<1> QED
  BY <1>2, <1>12

LEMMA ToldLose ==
    ASSUME CountInv, \A d \in Clients : Told(d), NEW c \in Clients, Lose(c)
    PROVE  \A d \in Clients : Told(d)'
<1> DEFINE z == expected[c]
<1>1. /\ TypeOK /\ Counted(c) /\ Told(c) /\ frames[c] \in Seq(Frames(Nat)) /\ frames[c] /= <<>>
      /\ frames'[c] = Tail(frames[c]) /\ UNCHANGED <<hub, peer>> /\ conn[c] = "open"
      /\ z \in Nat /\ last_seq[c] \in Nat
  BY DEF Lose, CountInv, SeatInv, Silent, TypeOK
<1>2. ASSUME NEW d \in Clients \ {c} PROVE Told(d)'
  <2>1. UNCHANGED <<frames[d], expected[d], seeded[d], awaiting_resync[d], shadow[d], conn[d]>>
    BY <1>1, <1>2 DEF Lose, TypeOK, peer
  <2> QED
    BY <1>1, <2>1, ToldSame DEF hub
<1>3. PICK w : Carried(c, w)
  BY <1>1 DEF Told
<1>4. /\ Leads(frames[c], expected[c], w) /\ w[0] \in Views
  <2>1. 0 \in 0 .. Len(frames[c])
    BY <1>1
  <2> QED
    BY <1>3, <2>1 DEF Carried, Leads
<1>5. /\ \A i \in 2 .. Len(frames[c]) : frames[c][i].seq /= z
      /\ z /= last_seq[c] + 1
  <2>1. 1 \in DOMAIN frames[c] /\ \A i \in DOMAIN frames[c] : frames[c][i].seq \in Nat
    BY <1>1 DEF Frames
  <2>2. \A i \in 2 .. Len(frames[c]) : i \in DOMAIN frames[c] /\ 1 < i
    BY <1>1
  <2>3. \A i \in 2 .. Len(frames[c]) : frames[c][1].seq < frames[c][i].seq
    BY <1>1, <2>1, <2>2 DEF Counted, Rising
  <2>4. z <= frames[c][1].seq /\ frames[c][1].seq <= last_seq[c]
    <3>1. seeded[c] => z <= frames[c][1].seq
      BY <1>1, <2>1 DEF Counted, Rising
    <3>2. frames[c][1].seq <= last_seq[c]
      BY <1>1, <2>1 DEF Counted, Rising
    <3>3. ~seeded[c] => z = 0
      BY <1>1 DEF Told
    <3> QED
      BY <2>1, <3>1, <3>2, <3>3
  <2> HIDE DEF z
  <2> QED
    BY <1>1, <2>1, <2>2, <2>3, <2>4
<1> HIDE DEF z
<1>7. \E u : /\ Leads(frames'[c], z, u) /\ u[0] = w[0]
             /\ frames'[c] /= <<>> =>
                  /\ u[Len(frames'[c])] = w[Len(frames[c])]
                  /\ After(frames'[c], z) = After(frames[c], expected[c])
             /\ frames'[c] = <<>> => After(frames'[c], z) = z
  <2> DEFINE fs == frames[c]
             x == expected[c]
             v == w[0]
  <2>1. /\ fs \in Seq(Frames(Nat)) /\ fs /= <<>> /\ x \in Nat /\ v \in Views /\ z \in Nat
        /\ Leads(fs, x, w) /\ \A i \in 2 .. Len(fs) : fs[i].seq /= z
    BY <1>1, <1>4, <1>5 DEF z
  <2> HIDE DEF fs, x, v
  <2>2. \E u : /\ Leads(Tail(fs), z, u) /\ u[0] = v
               /\ fs[1] \in Frames(Nat)
               /\ After(Tail(fs), z) \in {z, After(fs, x)}
               /\ z = fs[1].seq + 1 => After(Tail(fs), z) = After(fs, x)
               /\ Tail(fs) /= <<>> \/ v = w[1] => u[Len(Tail(fs))] = w[Len(fs)]
               /\ Tail(fs) /= <<>> => After(Tail(fs), z) = After(fs, x)
    BY <2>1, LeadsTail
  <2>3. Tail(fs) = <<>> => After(Tail(fs), z) = z
    BY DEF After
  <2>4. frames'[c] = Tail(fs)
    BY <1>1 DEF fs
  <2> QED
    BY <2>2, <2>3, <2>4 DEF fs, x, v
<1>8. PICK u : /\ Leads(frames'[c], z, u) /\ u[0] = w[0]
               /\ frames'[c] /= <<>> =>
                    /\ u[Len(frames'[c])] = w[Len(frames[c])]
                    /\ After(frames'[c], z) = After(frames[c], expected[c])
               /\ frames'[c] = <<>> => After(frames'[c], z) = z
  BY <1>7
<1>9. UNCHANGED <<attached, streaming, baseline, last_seq, force_resync>>
  BY <1>1 DEF hub
<1>10. c \in attached' /\ After(frames'[c], z) = last_seq'[c] + 1 =>
         Matches(u[Len(frames'[c])], baseline'[c], Due(c, baseline[c])')
  <2>1. Due(c, baseline[c])' => Due(c, baseline[c])
    BY <1>9 DEF Due, Shown
  <2> QED
    BY <1>3, <1>5, <1>8, <1>9, <2>1 DEF Carried, Matches
<1>11. UNCHANGED <<conn, seeded, expected, awaiting_resync, shadow>>
  BY <1>1 DEF peer
<1>12. Carried(c, u)'
  BY <1>3, <1>8, <1>10, <1>11 DEF Carried, z
<1>13. Told(c)'
  BY <1>1, <1>11, <1>12 DEF Told
<1> QED
  BY <1>2, <1>13

LEMMA ShadowStep == ShadowInv /\ [Next]_vars => ShadowInv'
<1> SUFFICES ASSUME ShadowInv, [Next]_vars PROVE \A d \in Clients : Told(d)'
  BY CountStep DEF ShadowInv
<1>0. CountInv /\ TypeOK /\ Silent /\ \A d \in Clients : Told(d) /\ Counted(d)
  BY DEF ShadowInv, CountInv, SeatInv
<1>1. ASSUME UNCHANGED <<hub, peer, frames>>, NEW d \in Clients PROVE Told(d)'
  <2>1. UNCHANGED <<attached, streaming, baseline, last_seq, force_resync, frames,
                    conn, seeded, expected, awaiting_resync, shadow>>
    BY <1>1 DEF hub, peer
  <2> QED
    BY <1>0, <2>1, ToldSame
<1>2. ASSUME NEW c \in Clients, Connect(c), NEW d \in Clients PROVE Told(d)'
  <2>1. UNCHANGED <<attached, streaming, baseline, last_seq, force_resync, frames,
                    seeded, expected, awaiting_resync, shadow>>
        /\ conn[c] = "new" /\ conn' = [conn EXCEPT ![c] = "open"]
    BY <1>2 DEF Connect, hub
  <2>2. CASE d /= c
    <3>1. conn'[d] = conn[d]
      BY <1>0, <2>1, <2>2 DEF TypeOK
    <3> QED
      BY <1>0, <2>1, <3>1, ToldSame
  <2>3. CASE d = c
    <3>1. /\ frames[c] = <<>> /\ ~seeded[c] /\ expected[c] = 0 /\ shadow[c] = NoView
          /\ view \in Views /\ last_seq[c] \in Nat
      BY <1>0, <2>1 DEF Silent, Counted, Told, TypeOK
    <3>2. \E v : Leads(<<>>, 0, v)
      <4> DEFINE u == [i \in {0} |-> view]
      <4>1. Len(<<>>) = 0 /\ 0 .. 0 = {0} /\ DOMAIN <<>> = {}
        OBVIOUS
      <4>2. Leads(<<>>, 0, u)
        BY <3>1, <4>1 DEF Leads
      <4> QED
        BY <4>2
    <3> PICK w : Leads(<<>>, 0, w)
      BY <3>2
    <3>3. After(<<>>, 0) /= last_seq[c] + 1
      BY <3>1 DEF After
    <3>4. frames'[c] = <<>> /\ expected'[c] = 0 /\ shadow'[c] = NoView /\ last_seq'[c] = last_seq[c]
      BY <2>1, <3>1
    <3>5. Leads(frames'[c], expected'[c], w) /\ After(frames'[c], expected'[c]) /= last_seq'[c] + 1
      BY <3>3, <3>4
    <3>6. Carried(c, w)'
      BY <3>4, <3>5, Zenon DEF Carried
    <3> QED
      BY <2>1, <2>3, <3>1, <3>6 DEF Told
  <2> QED
    BY <2>2, <2>3
<1>3. ASSUME NEW c \in Clients, Leave(c), NEW d \in Clients PROVE Told(d)'
  <2>1. UNCHANGED <<attached, streaming, baseline, last_seq, force_resync,
                    seeded, expected, awaiting_resync, shadow>>
        /\ conn' = [conn EXCEPT ![c] = "closed"] /\ frames' = [frames EXCEPT ![c] = <<>>]
    BY <1>3 DEF Leave, hub
  <2>2. /\ conn'[d] = "open" => conn[d] = "open" /\ frames'[d] = frames[d]
    BY <1>0, <2>1 DEF TypeOK
  <2> QED
    BY <1>0, <2>1, <2>2, ToldSame
<1>4. CASE Change \/ CloseSessions \/ QuiesceTick \/ UNCHANGED vars \/ \E c \in Clients : Ask(c)
  <2>1. UNCHANGED <<hub, peer, frames>>
    BY <1>4 DEF Change, CloseSessions, QuiesceTick, Ask, vars, wire
  <2> QED
    BY <1>1, <2>1
<1>5. CASE Stream
  BY <1>0, <1>5, ToldStream
<1>6. ASSUME NEW c \in Clients, Handle(c) \/ Receive(c) \/ Lose(c)
      PROVE  \A d \in Clients : Told(d)'
  BY <1>0, <1>6, ToldHandle, ToldReceive, ToldLose
<1> QED
  BY <1>2, <1>3, <1>4, <1>5, <1>6, Zenon DEF Next

LEMMA ShadowsHold == Spec => []ShadowInv
<1>1. Init => ShadowInv
  BY CountInit DEF Init, ShadowInv, Told
<1> QED
  BY <1>1, ShadowStep, PTL DEF Spec

\* A current client holds what the hub sent it last, but for an agent the next
\* pass is due to show.
LEMMA CurrentIs ==
    ASSUME ShadowInv, NEW c \in Clients, Current(c)
    PROVE  /\ shadow[c] \in Views /\ baseline[c] \in Views /\ view \in Views
           /\ Matches(shadow[c], baseline[c], Due(c, baseline[c]))
<1>1. TypeOK /\ Told(c)
  BY DEF ShadowInv, CountInv, SeatInv
<1>2. PICK w : Carried(c, w)
  BY <1>1 DEF Told, Current
<1>3. After(frames[c], expected[c]) = last_seq[c] + 1 /\ Len(frames[c]) = 0
  BY DEF After, Current
<1> QED
  BY <1>1, <1>2, <1>3 DEF Current, Carried, TypeOK, Shadows

\* A client that had a snapshot and missed nothing since shows what the hub
\* diffs its next deltas against (streaming.rs, stream_deltas; shadow.rs,
\* apply_frame), for any number of clients, resets, losses and resyncs.
THEOREM ShadowsAreTrue == Spec => []ShadowTrue
<1>1. ASSUME ShadowInv, NEW c \in Clients, Current(c)
      PROVE  \/ Agrees(c, shadow[c], baseline[c])
             \/ force_resync /\ Agrees(c, [shadow[c] EXCEPT !.agent = baseline[c].agent], baseline[c])
  <2>1. CASE ~force_resync
    BY <1>1, <2>1, CurrentIs DEF Agrees, Matches, Due
  <2>2. CASE force_resync
    <3> DEFINE v == [shadow[c] EXCEPT !.agent = baseline[c].agent]
    <3>1. shadow[c] \in Views /\ Matches(shadow[c], baseline[c], FALSE)
      BY <1>1, CurrentIs DEF Matches
    <3>2. v.page = shadow[c].page /\ v.stream = shadow[c].stream /\ v.input = shadow[c].input
          /\ v.agent = baseline[c].agent
      BY <3>1 DEF Views
    <3> HIDE DEF v
    <3>3. Agrees(c, v, baseline[c])
      BY <3>1, <3>2 DEF Agrees, Matches
    <3> QED
      BY <2>2, <3>3 DEF v
  <2> QED
    BY <2>1, <2>2
<1>2. ShadowInv => ShadowTrue
  BY <1>1 DEF ShadowTrue
<1> QED
  BY <1>2, ShadowsHold, PTL

\* When stream_deltas sends a current client nothing, the client shows the
\* session as it is (diff.rs, diff_for_client): what is passed over,
\* a hidden agent's output, nobody sees.
THEOREM NothingIsMissing == Spec => []NothingMissing
<1>1. ASSUME ShadowInv, NEW c \in Clients, Current(c), Owed(c) = <<>>
      PROVE  Agrees(c, shadow[c], view)
  <2> DEFINE b == baseline[c]
             t == Suffix(b.stream, view.stream)
  <2>1. /\ shadow[c] \in Views /\ b \in Views /\ view \in Views /\ c \in attached
        /\ Matches(shadow[c], b, Due(c, b))
    BY <1>1, CurrentIs DEF Current
  <2>2. ~force_resync /\ ~NeedsFull(c, b, view) /\ Deltas(b, view) = <<>>
    BY <1>1, <2>1 DEF Owed
  <2>3. t = <<>> /\ b.input = view.input
    <3> DEFINE p == [event |-> "append", body |-> t]
               q == [event |-> "input", body |-> view.input]
    <3>1. p \in Events /\ q \in Events
      BY <2>1, SuffixType DEF Events, Views
    <3>2. (IF t = <<>> THEN <<>> ELSE <<p>>) \o (IF b.input = view.input THEN <<>> ELSE <<q>>) = <<>>
      BY <2>2 DEF Deltas
    <3> HIDE DEF p, q, t, b
    <3> QED
      BY <3>1, <3>2, TwoParts
  <2>4. b.stream = view.stream
    <3>1. b.stream \in Streams /\ view.stream \in Streams /\ ~IsReset(b.stream, view.stream)
      BY <2>1, <2>2 DEF Views, NeedsFull
    <3> QED
      BY <2>3, <3>1, SuffixCompletes
  <2>5. b.page = view.page /\ (Shown(c, view) => b.agent = view.agent)
    BY <2>2 DEF NeedsFull
  <2> HIDE DEF b, t
  <2>6. Shown(c, view) => Due(c, b)
    BY <2>2, <2>5 DEF Due, Shown
  <2> QED
    BY <2>1, <2>3, <2>4, <2>5, <2>6 DEF Agrees, Matches
<1>2. ShadowInv => NothingMissing
  BY <1>1 DEF NothingMissing
<1> QED
  BY <1>2, ShadowsHold, PTL
====
