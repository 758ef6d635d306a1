---- MODULE Conversation ----
(***************************************************************************)
(* The stored chat of one session and what of it reaches the model.        *)
(*                                                                         *)
(* A message is a record of its role, the tool-call ids it names (the ids  *)
(* an assistant message requests, or the single id a tool message answers) *)
(* and whether its text is worth keeping without those calls.  The system  *)
(* message at index 0 never moves and is left out: index i here is index i *)
(* of the Rust vector.                                                     *)
(***************************************************************************)
EXTENDS Naturals, Sequences, FiniteSets

Role == {"user", "assistant", "promoted", "tool"}

\* push_user / push_user_with_attachments: notes, nudges and steers are all of
\* this form, whoever wrote them.
User == [role |-> "user", ids |-> {}, text |-> TRUE]

\* push_assistant: a final answer; "promoted" when its text is raw reasoning.
Assistant == [role |-> "assistant", ids |-> {}, text |-> TRUE]
Promoted == [role |-> "promoted", ids |-> {}, text |-> TRUE]

\* push_assistant_with_tools
Calling(ids, text) == [role |-> "assistant", ids |-> ids, text |-> text]

\* push_tool
Answer(id) == [role |-> "tool", ids |-> {id}, text |-> TRUE]

Message(Id) == {User, Assistant, Promoted}
               \cup {Calling(ids, t) : ids \in (SUBSET Id) \ {{}}, t \in BOOLEAN}
               \cup {Answer(id) : id \in Id}

-----------------------------------------------------------------------------

\* The ids answered by the contiguous run of tool messages right after i.
Responded(msgs, i) ==
    UNION {msgs[j].ids : j \in {k \in (i+1)..Len(msgs) :
                                  \A l \in (i+1)..k : msgs[l].role = "tool"}}

\* A tool-call group is complete when every id is answered in that run.
\* (Mutant: when some id is.)
CompleteIfAny(msgs, i) ==
    /\ msgs[i].role = "assistant"
    /\ msgs[i].ids \cap Responded(msgs, i) /= {}
Complete(msgs, i) ==
    /\ msgs[i].role = "assistant"
    /\ msgs[i].ids /= {}
    /\ msgs[i].ids \subseteq Responded(msgs, i)

\* Pass 1 of history(): the ids of all complete groups, in one flat set.
ValidIds(msgs) == UNION {msgs[i].ids : i \in {k \in DOMAIN msgs : Complete(msgs, k)}}

\* Pass 2: what is dropped, and what an assistant message loses.
Kept(m, valid) ==
    \/ m.role = "user"
    \/ m.role = "assistant" /\ (m.ids \subseteq valid \/ m.text)
    \/ m.role = "tool" /\ m.ids \subseteq valid

Wire(m, valid) ==
    IF m.role = "assistant" /\ ~(m.ids \subseteq valid) THEN [m EXCEPT !.ids = {}] ELSE m

\* The k-th index that survives, in the order of the conversation.
UpTo(places, i) == {j \in places : j <= i}
Place(places, k) == CHOOSE i \in places : Cardinality(UpTo(places, i)) = k

\* history(): the message list sent to the model.
History(msgs) ==
    LET valid  == ValidIds(msgs)
        places == {i \in DOMAIN msgs : Kept(msgs[i], valid)}
    IN  [k \in 1..Cardinality(places) |-> Wire(msgs[Place(places, k)], valid)]

-----------------------------------------------------------------------------

\* pop_trailing_assistants: what /resend removes before it streams again.
TrailingAssistant(msgs, i) ==
    \A j \in i..Len(msgs) : msgs[j].role \in {"assistant", "promoted"}

PopTrailingAssistants(msgs) ==
    SubSeq(msgs, 1, Cardinality({i \in DOMAIN msgs : ~TrailingAssistant(msgs, i)}))

\* truncate_to_before_index at the last user message, if there is one.
BeforeLastUser(msgs) ==
    IF \A i \in DOMAIN msgs : msgs[i].role /= "user" THEN msgs
    ELSE SubSeq(msgs, 1, Cardinality({i \in DOMAIN msgs :
                                        \E j \in DOMAIN msgs : i < j /\ msgs[j].role = "user"}))

-----------------------------------------------------------------------------
(***************************************************************************)
(* What the provider's API demands of a request, stated without reference  *)
(* to how history() computes it.                                           *)
(***************************************************************************)

\* Every requested id is answered right after its request, and every answer
\* stands in the run that follows the request for it.
ApiValid(msgs) ==
    /\ \A i \in DOMAIN msgs :
         msgs[i].role = "assistant" => msgs[i].ids \subseteq Responded(msgs, i)
    /\ \A j \in DOMAIN msgs : msgs[j].role = "tool" =>
         \E i \in 1..(j-1) : /\ msgs[i].role = "assistant"
                             /\ msgs[j].ids \subseteq msgs[i].ids
                             /\ \A k \in (i+1)..j : msgs[k].role = "tool"

\* The ids whose answers a request carries.
AnswersSeen(msgs) == UNION {msgs[i].ids : i \in {k \in DOMAIN msgs : msgs[k].role = "tool"}}

====
