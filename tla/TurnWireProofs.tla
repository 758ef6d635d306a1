---- MODULE TurnWireProofs ----
(***************************************************************************)
(* What history() sends is a request the provider accepts.  First the      *)
(* algorithm: on a list that asks for an id once and answers it once, it   *)
(* returns a valid request, whatever was cut, denied or left unanswered.   *)
(* Then the handlers: they keep the conversation such a list.              *)
(* Last, the answers: a round that ends or is denied reaches the model.    *)
(***************************************************************************)
EXTENDS TurnAccountProofs, WellFoundedInduction

USE DEF turnVars, queueVars, roundVars, classifyVars, taskVars, agentVars, offThread,
        nudgeVars, modeVars, counters, OutsideTools

-----------------------------------------------------------------------------
(* The indices history() keeps, in their order.                            *)

\* A set of numbers that is not empty has a least one.
LEMMA Least == ASSUME NEW T \in SUBSET Nat, T /= {} PROVE \E x \in T : \A y \in T : x <= y
<1> DEFINE R == OpToRel(<, Nat)
<1>1. IsWellFoundedOn(R, Nat)
  BY NatLessThanWellFounded
<1>2. \A x, y \in Nat : <<x, y>> \in R <=> x < y
  BY DEF OpToRel
<1> HIDE DEF R
<1>3. PICK x \in T : \A y \in T : ~(<<y, x>> \in R)
  BY <1>1, WFMin
<1>4. \A y \in T : y \in Nat
  OBVIOUS
<1>5. \A y \in T : ~(y < x)
  BY <1>2, <1>3, <1>4
<1> QED
  BY <1>3, <1>4, <1>5

\* The indices of some list.
Indices(places) == \E n \in Nat : places \subseteq 1..n

\* The members of a set of indices up to i: their number grows by one at each member.
LEMMA UpToMembers == \A places, i, j : j \in UpTo(places, i) <=> j \in places /\ j <= i
BY DEF UpTo

LEMMA UpToFacts ==
    ASSUME NEW places, Indices(places)
    PROVE  /\ IsFiniteSet(places) /\ Cardinality(places) \in Nat
           /\ \A j \in places : j \in Nat
           /\ \A i \in Nat : /\ IsFiniteSet(UpTo(places, i))
                             /\ Cardinality(UpTo(places, i)) \in 0..Cardinality(places)
           /\ Cardinality(UpTo(places, 0)) = 0
           /\ \E n \in Nat : UpTo(places, n) = places
           /\ \A i \in Nat : Cardinality(UpTo(places, i + 1)) =
                IF i + 1 \in places THEN Cardinality(UpTo(places, i)) + 1
                ELSE Cardinality(UpTo(places, i))
<1> PICK n \in Nat : places \subseteq 1..n
  BY DEF Indices
<1>1. IsFiniteSet(places) /\ Cardinality(places) \in Nat
  <2>1. IsFiniteSet(1..n) /\ places \in SUBSET (1..n)
    BY FS_Interval
  <2>2. IsFiniteSet(places)
    BY <2>1, FS_Subset
  <2> QED
    BY <2>2, FS_CardinalityType
<1>2. \A j \in places : j \in 1..n
  OBVIOUS
<1>3. ASSUME NEW i \in Nat
      PROVE  /\ IsFiniteSet(UpTo(places, i))
             /\ Cardinality(UpTo(places, i)) \in 0..Cardinality(places)
  <2>1. UpTo(places, i) \in SUBSET places
    BY UpToMembers
  <2>2. /\ IsFiniteSet(UpTo(places, i))
        /\ Cardinality(UpTo(places, i)) <= Cardinality(places)
    BY <1>1, <2>1, FS_Subset
  <2>3. Cardinality(UpTo(places, i)) \in Nat
    BY <2>2, FS_CardinalityType
  <2> QED
    BY <1>1, <2>2, <2>3
<1>4. Cardinality(UpTo(places, 0)) = 0
  <2>1. \A j \in places : ~(j <= 0)
    BY <1>2
  <2>2. UpTo(places, 0) = {}
    BY <2>1, UpToMembers
  <2> QED
    BY <2>2, FS_EmptySet
<1>5. UpTo(places, n) = places
  <2>1. \A j \in places : j <= n
    BY <1>2
  <2>2. \A j : j \in UpTo(places, n) <=> j \in places
    BY <2>1, UpToMembers
  <2> QED
    BY <2>2, Zenon
<1>6. ASSUME NEW i \in Nat
      PROVE  Cardinality(UpTo(places, i + 1)) =
                IF i + 1 \in places THEN Cardinality(UpTo(places, i)) + 1
                ELSE Cardinality(UpTo(places, i))
  <2>1. \A j \in places : (j <= i + 1 <=> j <= i \/ j = i + 1) /\ (j <= i => j /= i + 1)
    BY <1>2
  <2>2. CASE i + 1 \in places
    <3>1. ~(i + 1 <= i) /\ i + 1 <= i + 1
      OBVIOUS
    <3>2. UpTo(places, i + 1) = UpTo(places, i) \cup {i + 1} /\ i + 1 \notin UpTo(places, i)
      BY <2>1, <2>2, <3>1, UpToMembers
    <3> QED
      BY <1>3, <2>2, <3>2, FS_AddElement
  <2>3. CASE i + 1 \notin places
    <3>1. UpTo(places, i + 1) = UpTo(places, i)
      BY <2>1, <2>3, UpToMembers
    <3> QED
      BY <2>3, <3>1
  <2> QED
    BY <2>2, <2>3
<1> QED
  BY <1>1, <1>2, <1>3, <1>4, <1>5, <1>6

\* The k-th index is there, and is the k-th.
LEMMA PlaceFacts ==
    ASSUME NEW places, Indices(places), NEW k \in 1..Cardinality(places)
    PROVE  Place(places, k) \in places /\ Cardinality(UpTo(places, Place(places, k))) = k
<1> DEFINE T == {i \in Nat : k <= Cardinality(UpTo(places, i))}
<1>1. Cardinality(places) \in Nat /\ k \in Nat /\ 0 < k /\ k <= Cardinality(places)
  BY UpToFacts
<1>a. T /= {} /\ T \subseteq Nat
  BY <1>1, UpToFacts
<1>2. PICK i \in T : \A y \in T : i <= y
  BY <1>a, Least
<1>3. i \in Nat /\ i /= 0 /\ k <= Cardinality(UpTo(places, i))
  BY <1>1, <1>2, UpToFacts
<1>4. i - 1 \in Nat /\ i - 1 \notin T /\ (i - 1) + 1 = i
  BY <1>2, <1>3
<1>5. Cardinality(UpTo(places, i - 1)) \in Nat /\ Cardinality(UpTo(places, i - 1)) < k
  BY <1>1, <1>4, UpToFacts
<1>6. Cardinality(UpTo(places, i)) =
        IF i \in places THEN Cardinality(UpTo(places, i - 1)) + 1
        ELSE Cardinality(UpTo(places, i - 1))
  BY <1>4, UpToFacts
<1>7. i \in places /\ Cardinality(UpTo(places, i)) = k
  BY <1>1, <1>3, <1>5, <1>6
<1> QED
  BY <1>7 DEF Place

\* A later index has more members up to it.
LEMMA UpToGrows ==
    ASSUME NEW places, Indices(places), NEW a \in places, NEW b \in places
    PROVE  a < b <=> Cardinality(UpTo(places, a)) < Cardinality(UpTo(places, b))
<1>1. ASSUME NEW x \in places, NEW y \in places, x < y
      PROVE  Cardinality(UpTo(places, x)) < Cardinality(UpTo(places, y))
  <2>1. x \in Nat /\ y \in Nat /\ \A j \in places : j \in Nat
    BY UpToFacts
  <2>2. (\A j \in places : j <= x => j <= y) /\ ~(y <= x) /\ y <= y
    BY <1>1, <2>1
  <2>3. UpTo(places, x) \in SUBSET UpTo(places, y) /\ UpTo(places, x) /= UpTo(places, y)
    BY <2>2, UpToMembers
  <2>4. /\ IsFiniteSet(UpTo(places, y)) /\ Cardinality(UpTo(places, x)) \in Nat
        /\ Cardinality(UpTo(places, y)) \in Nat
    BY <2>1, UpToFacts
  <2>5. /\ Cardinality(UpTo(places, x)) <= Cardinality(UpTo(places, y))
        /\ Cardinality(UpTo(places, x)) /= Cardinality(UpTo(places, y))
    BY <2>3, <2>4, FS_Subset
  <2> QED
    BY <2>4, <2>5
<1>2. a \in Nat /\ b \in Nat
  BY UpToFacts
<1>3. Cardinality(UpTo(places, a)) \in Nat /\ Cardinality(UpTo(places, b)) \in Nat
  BY <1>2, UpToFacts
<1>4. a < b \/ b < a \/ a = b
  BY <1>2
<1> QED
  BY <1>1, <1>2, <1>3, <1>4

\* The places follow the order of the conversation and leave no index out.
LEMMA Places ==
    ASSUME NEW places, Indices(places)
    PROVE  /\ Cardinality(places) \in Nat
           /\ \A k \in 1..Cardinality(places) : Place(places, k) \in places
           /\ \A k, l \in 1..Cardinality(places) : k < l <=> Place(places, k) < Place(places, l)
           /\ \A i \in places : \E k \in 1..Cardinality(places) : Place(places, k) = i
<1>1. Cardinality(places) \in Nat
  BY UpToFacts
<1>2. \A k \in 1..Cardinality(places) :
        Place(places, k) \in places /\ Cardinality(UpTo(places, Place(places, k))) = k
  BY PlaceFacts
<1>3. \A k, l \in 1..Cardinality(places) : k < l <=> Place(places, k) < Place(places, l)
  BY <1>2, UpToGrows
<1>4. ASSUME NEW i \in places PROVE \E k \in 1..Cardinality(places) : Place(places, k) = i
  <2> DEFINE k == Cardinality(UpTo(places, i))
  <2>1. i \in Nat
    BY UpToFacts
  <2>2. IsFiniteSet(UpTo(places, i)) /\ k \in 0..Cardinality(places) /\ i \in UpTo(places, i)
    BY <2>1, UpToFacts, UpToMembers
  <2>3. k /= 0
    BY <2>2, FS_EmptySet
  <2>4. k \in 1..Cardinality(places)
    BY <1>1, <2>2, <2>3
  <2>5. Place(places, k) \in places /\ Cardinality(UpTo(places, Place(places, k))) = k
    BY <1>2, <2>4
  <2>6. ~(Place(places, k) < i) /\ ~(i < Place(places, k))
    BY <2>5, <2>2, <1>1, UpToGrows
  <2>7. Place(places, k) \in Nat
    BY <2>5, UpToFacts
  <2>8. Place(places, k) = i
    BY <2>1, <2>6, <2>7
  <2> QED
    BY <2>4, <2>8
<1> QED
  BY <1>1, <1>2, <1>3, <1>4

-----------------------------------------------------------------------------
(* history().                                                              *)

\* What a message can be.
LEMMA MessageShape ==
    ASSUME NEW S, NEW m \in Message(S)
    PROVE  /\ m.role \in Role /\ m.ids \subseteq S /\ m.text \in BOOLEAN
           /\ m = [role |-> m.role, ids |-> m.ids, text |-> m.text]
           /\ m.role = "tool" => m.ids /= {} /\ \A a, b \in m.ids : a = b
           /\ m.role \in {"user", "promoted"} => m.ids = {}
<1>a. CASE m = User
  BY <1>a DEF User, Role
<1>b. CASE m = Assistant
  BY <1>b DEF Assistant, Role
<1>c. CASE m = Promoted
  BY <1>c DEF Promoted, Role
<1>1. CASE m \in {User, Assistant, Promoted}
  BY <1>1, <1>a, <1>b, <1>c
<1>2. ASSUME NEW ids \in SUBSET S, NEW t \in BOOLEAN, m = Calling(ids, t)
      PROVE  /\ m.role = "assistant" /\ m.ids = ids /\ m.text = t
             /\ m = [role |-> m.role, ids |-> m.ids, text |-> m.text]
  BY <1>2 DEF Calling
<1>3. ASSUME NEW id \in S, m = Answer(id)
      PROVE  /\ m.role = "tool" /\ m.ids = {id} /\ m.text = TRUE
             /\ m = [role |-> m.role, ids |-> m.ids, text |-> m.text]
  BY <1>3 DEF Answer
<1>4. \/ m \in {User, Assistant, Promoted}
      \/ \E ids \in SUBSET S, t \in BOOLEAN : m = Calling(ids, t)
      \/ \E id \in S : m = Answer(id)
  BY DEF Message
<1>5. CASE \E ids \in SUBSET S, t \in BOOLEAN : m = Calling(ids, t)
  BY <1>2, <1>5 DEF Role
<1>6. CASE \E id \in S : m = Answer(id)
  BY <1>3, <1>6 DEF Role
<1> QED
  BY <1>1, <1>4, <1>5, <1>6

\* What a conversation answers after i.
LEMMA RespondedMember ==
    ASSUME NEW msgs, NEW i, NEW id
    PROVE  id \in Responded(msgs, i) <=>
             \E j \in (i+1)..Len(msgs) : id \in msgs[j].ids /\ \A l \in (i+1)..j : msgs[l].role = "tool"
BY DEF Responded

\* The request that history() sends keeps the conversation's order: its messages are
\* those at the places, each as Wire leaves it.
LEMMA HistoryPlaces ==
    ASSUME NEW S, NEW msgs \in Seq(Message(S))
    PROVE  \E places :
             /\ places = {i \in DOMAIN msgs : Kept(msgs[i], ValidIds(msgs))}
             /\ Len(History(msgs)) = Cardinality(places)
             /\ DOMAIN History(msgs) = 1..Cardinality(places)
             /\ \A k \in DOMAIN History(msgs) :
                  History(msgs)[k] = Wire(msgs[Place(places, k)], ValidIds(msgs))
             /\ Cardinality(places) \in Nat
             /\ \A k \in 1..Cardinality(places) : Place(places, k) \in places
             /\ \A k, l \in 1..Cardinality(places) : k < l <=> Place(places, k) < Place(places, l)
             /\ \A i \in places : \E k \in 1..Cardinality(places) : Place(places, k) = i
<1> DEFINE places == {i \in DOMAIN msgs : Kept(msgs[i], ValidIds(msgs))}
<1>1. Indices(places)
  BY DEF Indices
<1>2. History(msgs) = [k \in 1..Cardinality(places) |-> Wire(msgs[Place(places, k)], ValidIds(msgs))]
  BY DEF History
<1>3. places = {i \in DOMAIN msgs : Kept(msgs[i], ValidIds(msgs))}
  OBVIOUS
<1> HIDE DEF places
<1>4. /\ Cardinality(places) \in Nat
      /\ \A k \in 1..Cardinality(places) : Place(places, k) \in places
      /\ \A k, l \in 1..Cardinality(places) : k < l <=> Place(places, k) < Place(places, l)
      /\ \A i \in places : \E k \in 1..Cardinality(places) : Place(places, k) = i
  BY <1>1, Places
<1>5. Len(History(msgs)) = Cardinality(places)
  BY <1>2, <1>4
<1>6. /\ DOMAIN History(msgs) = 1..Cardinality(places)
      /\ \A k \in DOMAIN History(msgs) : History(msgs)[k] = Wire(msgs[Place(places, k)], ValidIds(msgs))
  BY <1>2, Zenon
<1> QED
  BY <1>3, <1>4, <1>5, <1>6, Zenon

\* history() makes a valid request of any conversation in which an id is asked for
\* once and answered once, wherever the groups it strips stand.
THEOREM HistoryValid ==
    ASSUME NEW S, NEW msgs \in Seq(Message(S)), NamedOnce(msgs)
    PROVE  ApiValid(History(msgs))
<1> DEFINE H == History(msgs)
           valid == ValidIds(msgs)
<1>1. PICK places :
             /\ places = {i \in DOMAIN msgs : Kept(msgs[i], valid)}
             /\ Len(H) = Cardinality(places)
             /\ DOMAIN H = 1..Cardinality(places)
             /\ \A k \in DOMAIN H : H[k] = Wire(msgs[Place(places, k)], valid)
             /\ Cardinality(places) \in Nat
             /\ \A k \in 1..Cardinality(places) : Place(places, k) \in places
             /\ \A k, l \in 1..Cardinality(places) : k < l <=> Place(places, k) < Place(places, l)
             /\ \A i \in places : \E k \in 1..Cardinality(places) : Place(places, k) = i
  BY HistoryPlaces
<1>2. \A i \in DOMAIN msgs : msgs[i] \in Message(S)
  OBVIOUS
\* An id that is kept is asked for by a complete group.
<1>3. \A id \in valid : \E i \in DOMAIN msgs : Complete(msgs, i) /\ id \in msgs[i].ids
  BY DEF ValidIds
<1>4. ASSUME NEW i \in DOMAIN msgs, Complete(msgs, i) PROVE msgs[i].ids \subseteq valid
  BY <1>4 DEF ValidIds
<1> HIDE DEF valid, H
\* Such an id is answered in the run after the group, and the answer is kept.
<1>5. ASSUME NEW i \in DOMAIN msgs, Complete(msgs, i), NEW id \in msgs[i].ids
      PROVE  \E j \in DOMAIN msgs : /\ i < j /\ id \in msgs[j].ids /\ msgs[j].role = "tool"
                                    /\ j \in places
                                    /\ \A l \in (i+1)..j : msgs[l].role = "tool"
  <2>1. PICK j \in (i+1)..Len(msgs) : id \in msgs[j].ids /\ \A l \in (i+1)..j : msgs[l].role = "tool"
    BY <1>5, RespondedMember DEF Complete
  <2>2. j \in DOMAIN msgs /\ i < j /\ msgs[j].role = "tool"
    BY <2>1
  <2>3. id \in valid /\ msgs[j].ids \subseteq valid
    BY <1>2, <1>4, <1>5, <2>1, <2>2, MessageShape
  <2>4. j \in places
    BY <1>1, <2>2, <2>3 DEF Kept
  <2> QED
    BY <2>1, <2>2, <2>4
\* Roles survive; the ids of an assistant message do if all are valid, else none.
<1>6. ASSUME NEW k \in DOMAIN H
      PROVE  /\ Place(places, k) \in DOMAIN msgs
             /\ H[k].role = msgs[Place(places, k)].role
             /\ H[k].role = "tool" => H[k].ids = msgs[Place(places, k)].ids /\ H[k].ids \subseteq valid
             /\ H[k].role = "assistant" => /\ H[k].ids \subseteq valid
                                           /\ H[k].ids \in {{}, msgs[Place(places, k)].ids}
             /\ msgs[Place(places, k)].ids \subseteq valid => H[k].ids = msgs[Place(places, k)].ids
  <2> DEFINE m == msgs[Place(places, k)]
  <2>1. Place(places, k) \in DOMAIN msgs /\ Kept(m, valid) /\ H[k] = Wire(m, valid)
    BY <1>1
  <2>2. m \in Message(S)
    BY <1>2, <2>1
  <2> HIDE DEF m
  <2>3. m = [role |-> m.role, ids |-> m.ids, text |-> m.text]
    BY <2>2, MessageShape
  <2>4. IF m.role = "assistant" /\ ~(m.ids \subseteq valid)
        THEN H[k].ids = {} /\ H[k].role = m.role ELSE H[k] = m
    BY <2>1, <2>3 DEF Wire
  <2>5. m.role = "tool" => m.ids \subseteq valid
    BY <2>1 DEF Kept
  <2> QED
    BY <2>1, <2>4, <2>5 DEF m
<1>7. ASSUME NEW a \in DOMAIN H, NEW b \in DOMAIN H, a < b,
             \A l \in (Place(places, a) + 1)..Place(places, b) : msgs[l].role = "tool"
      PROVE  \A l \in (a+1)..b : H[l].role = "tool"
  <2> SUFFICES ASSUME NEW l \in (a+1)..b PROVE H[l].role = "tool"
    OBVIOUS
  <2>1. l \in DOMAIN H /\ a < l /\ (l < b \/ l = b)
    BY <1>1
  <2>2. Place(places, a) \in Nat /\ Place(places, b) \in Nat /\ Place(places, l) \in Nat
    BY <1>6, <2>1
  <2>3. Place(places, a) < Place(places, l) /\ (Place(places, l) < Place(places, b) \/ l = b)
    BY <1>1, <2>1
  <2>4. Place(places, l) \in (Place(places, a) + 1)..Place(places, b)
    BY <2>2, <2>3
  <2> QED
    BY <1>6, <1>7, <2>1, <2>4
<1>8. ASSUME NEW a \in DOMAIN H, H[a].role = "assistant", NEW id \in H[a].ids
      PROVE  id \in Responded(H, a)
  <2> DEFINE i == Place(places, a)
  <2>1. i \in DOMAIN msgs /\ msgs[i].role = "assistant" /\ id \in msgs[i].ids /\ id \in valid
    BY <1>6, <1>8
  <2>2. PICK g \in DOMAIN msgs : Complete(msgs, g) /\ id \in msgs[g].ids
    BY <1>3, <2>1
  <2>3. g = i
    BY <2>1, <2>2 DEF NamedOnce, Complete
  <2>4. PICK j \in DOMAIN msgs : /\ i < j /\ id \in msgs[j].ids /\ msgs[j].role = "tool"
                                 /\ j \in places
                                 /\ \A l \in (i+1)..j : msgs[l].role = "tool"
    BY <1>5, <2>1, <2>2, <2>3
  <2>5. PICK b \in DOMAIN H : Place(places, b) = j
    BY <1>1, <2>4
  <2>6. a < b
    BY <1>1, <2>4, <2>5
  <2>7. id \in H[b].ids
    BY <1>6, <2>4, <2>5
  <2>8. b \in (a+1)..Len(H)
    BY <1>1, <2>6
  <2>9. \A l \in (a+1)..b : H[l].role = "tool"
    BY <1>7, <2>4, <2>5, <2>6
  <2> QED
    BY <2>7, <2>8, <2>9, RespondedMember
<1>9. ASSUME NEW b \in DOMAIN H, H[b].role = "tool"
      PROVE  \E a \in 1..(b-1) : /\ H[a].role = "assistant" /\ H[b].ids \subseteq H[a].ids
                                  /\ \A l \in (a+1)..b : H[l].role = "tool"
  <2> DEFINE j == Place(places, b)
  <2>1. j \in DOMAIN msgs /\ msgs[j].role = "tool" /\ H[b].ids = msgs[j].ids /\ H[b].ids \subseteq valid
    BY <1>6, <1>9
  <2>2. msgs[j].ids /= {} /\ \A x, y \in msgs[j].ids : x = y
    BY <1>2, <2>1, MessageShape
  <2>3. PICK id \in msgs[j].ids : TRUE
    BY <2>2
  <2>4. PICK i \in DOMAIN msgs : Complete(msgs, i) /\ id \in msgs[i].ids
    BY <1>3, <2>1, <2>3
  <2>5. PICK k \in DOMAIN msgs : /\ i < k /\ id \in msgs[k].ids /\ msgs[k].role = "tool"
                                 /\ k \in places
                                 /\ \A l \in (i+1)..k : msgs[l].role = "tool"
    BY <1>5, <2>4
  <2>6. k = j
    BY <2>1, <2>3, <2>5 DEF NamedOnce
  <2>7. msgs[i].role = "assistant" /\ msgs[i].ids \subseteq valid
    BY <1>4, <2>4 DEF Complete
  <2>8. i \in places
    BY <1>1, <2>7 DEF Kept
  <2>9. PICK a \in DOMAIN H : Place(places, a) = i
    BY <1>1, <2>8
  <2>10. a < b
    BY <1>1, <2>5, <2>6, <2>9
  <2>11. H[a].role = "assistant" /\ H[a].ids = msgs[i].ids
    BY <1>6, <2>7, <2>9
  <2>12. H[b].ids \subseteq H[a].ids
    BY <2>1, <2>2, <2>3, <2>4, <2>11
  <2>13. \A l \in (a+1)..b : H[l].role = "tool"
    BY <1>7, <2>5, <2>6, <2>9, <2>10
  <2>14. a \in 1..(b-1)
    BY <1>1, <2>10
  <2> QED
    BY <2>11, <2>12, <2>13, <2>14
<1> QED
  BY <1>8, <1>9 DEF ApiValid, H

-----------------------------------------------------------------------------
(* What the handlers write into the conversation.                          *)

\* The messages of a list that goes on.
LEMMA ConcatMembers ==
    ASSUME NEW S, NEW s \in Seq(S), NEW t \in Seq(S)
    PROVE  \A i \in DOMAIN (s \o t) :
             \/ i \in DOMAIN s /\ (s \o t)[i] = s[i]
             \/ i - Len(s) \in DOMAIN t /\ (s \o t)[i] = t[i - Len(s)] /\ i > Len(s)
<1>1. /\ Len(s) \in Nat /\ Len(t) \in Nat /\ DOMAIN s = 1..Len(s) /\ DOMAIN t = 1..Len(t)
      /\ DOMAIN (s \o t) = 1..(Len(s) + Len(t))
      /\ \A k \in 1..Len(s) : (s \o t)[k] = s[k]
      /\ \A k \in 1..Len(t) : (s \o t)[k + Len(s)] = t[k]
  BY ConcatFacts
<1> SUFFICES ASSUME NEW i \in DOMAIN (s \o t), ~(i \in DOMAIN s)
             PROVE  i - Len(s) \in DOMAIN t /\ (s \o t)[i] = t[i - Len(s)] /\ i > Len(s)
  BY <1>1
<1>2. i - Len(s) \in 1..Len(t) /\ (i - Len(s)) + Len(s) = i /\ i > Len(s)
  BY <1>1
<1>3. (s \o t)[(i - Len(s)) + Len(s)] = t[i - Len(s)]
  BY <1>1, <1>2
<1> QED
  BY <1>1, <1>2, <1>3

\* Two lists that name different ids, where they have the same role, make one that
\* names each id once.
LEMMA NamedConcat ==
    ASSUME NEW S, NEW s \in Seq(S), NEW t \in Seq(S), NamedOnce(s), NamedOnce(t),
           \A i \in DOMAIN s, j \in DOMAIN t : s[i].role = t[j].role => s[i].ids \cap t[j].ids = {}
    PROVE  NamedOnce(s \o t)
<1> SUFFICES ASSUME NEW i \in DOMAIN (s \o t), NEW j \in DOMAIN (s \o t),
                    (s \o t)[i].role = (s \o t)[j].role, (s \o t)[i].ids \cap (s \o t)[j].ids /= {}
             PROVE  i = j
  BY DEF NamedOnce
<1> DEFINE st == s \o t
<1>1. \/ i \in DOMAIN s /\ st[i] = s[i]
      \/ i - Len(s) \in DOMAIN t /\ st[i] = t[i - Len(s)] /\ i > Len(s)
  BY ConcatMembers
<1>2. \/ j \in DOMAIN s /\ st[j] = s[j]
      \/ j - Len(s) \in DOMAIN t /\ st[j] = t[j - Len(s)] /\ j > Len(s)
  BY ConcatMembers
<1>3. st[i].role = st[j].role /\ st[i].ids \cap st[j].ids /= {} /\ st[j].ids \cap st[i].ids /= {}
  OBVIOUS
<1>4. i \in Nat /\ j \in Nat /\ Len(s) \in Nat
  OBVIOUS
<1> HIDE DEF st
<1>5. CASE i \in DOMAIN s /\ st[i] = s[i]
  <2>1. j \in DOMAIN s /\ st[j] = s[j]
    BY <1>2, <1>3, <1>5
  <2> QED
    BY <1>3, <1>5, <2>1 DEF NamedOnce
<1>6. CASE i - Len(s) \in DOMAIN t /\ st[i] = t[i - Len(s)] /\ i > Len(s)
  <2>1. j - Len(s) \in DOMAIN t /\ st[j] = t[j - Len(s)]
    BY <1>2, <1>3, <1>6
  <2>2. i - Len(s) = j - Len(s)
    BY <1>3, <1>6, <2>1 DEF NamedOnce
  <2> QED
    BY <1>4, <2>2
<1> QED
  BY <1>1, <1>5, <1>6

\* Messages that name no id.
Plain(msgs) == \A i \in DOMAIN msgs : msgs[i].ids = {}

LEMMA PlainOnes ==
    /\ User.ids = {} /\ Assistant.ids = {} /\ Promoted.ids = {}
    /\ User \in Message(Id) /\ Assistant \in Message(Id) /\ Promoted \in Message(Id)
BY MessageTypes DEF User, Assistant, Promoted

\* Plain messages added to the conversation name no id, wherever the round stands.
LEMMA WirePlain ==
    ASSUME PhaseInv, WireInv, NEW more \in Seq(Message(Id)), Plain(more),
           conversation' = conversation \o more, UNCHANGED round,
           \/ pending_tool_calls' = <<>>
           \/ UNCHANGED <<pending_tool_calls, stream>> /\ (waiting => waiting')
    PROVE  WireInv'
<1>1. conversation \in Seq(Message(Id))
  BY DEF PhaseInv, TypeOK
<1>a. NamedOnce(conversation) /\ NamedOnce(more)
  BY DEF WireInv, Plain, NamedOnce
<1>b. \A i \in DOMAIN conversation, j \in DOMAIN more :
        conversation[i].role = more[j].role => conversation[i].ids \cap more[j].ids = {}
  BY DEF Plain
<1>2. NamedOnce(conversation')
  BY <1>1, <1>a, <1>b, NamedConcat
<1>3. \A i \in DOMAIN conversation' : \/ i \in DOMAIN conversation /\ conversation'[i] = conversation[i]
                                      \/ conversation'[i].ids = {}
  BY <1>1, ConcatMembers DEF Plain
<1>4. NamesThePast'
  BY <1>3 DEF WireInv, NamesThePast
<1>5. CallsOfATurn'
  BY DEF WireInv, CallsOfATurn
<1> QED
  BY <1>2, <1>4, <1>5 DEF WireInv, NamedOnce

\* Nothing is written.
LEMMA WireSame ==
    ASSUME WireInv, UNCHANGED <<conversation, round>>,
           \/ pending_tool_calls' = <<>>
           \/ UNCHANGED <<pending_tool_calls, stream>> /\ (waiting => waiting')
    PROVE  WireInv'
BY DEF WireInv, NamesThePast, CallsOfATurn, NamedOnce

\* Some of the indices of a list are no more than its length.
LEMMA CountIndices ==
    ASSUME NEW S, NEW s \in Seq(S), NEW I \in SUBSET DOMAIN s
    PROVE  Cardinality(I) \in Nat /\ Cardinality(I) <= Len(s)
<1>1. Len(s) \in Nat /\ DOMAIN s = 1..Len(s)
  OBVIOUS
<1>2. IsFiniteSet(1..Len(s)) /\ Cardinality(1..Len(s)) = Len(s)
  <2>1. /\ IsFiniteSet(1..Len(s))
        /\ Cardinality(1..Len(s)) = IF 1 > Len(s) THEN 0 ELSE Len(s) - 1 + 1
    BY <1>1, FS_Interval
  <2> QED
    BY <1>1, <2>1
<1> QED
  BY <1>1, <1>2, FS_Subset, IndicesFinite

\* A prefix of the conversation stays.
LEMMA WirePrefix ==
    ASSUME PhaseInv, WireInv, NEW I \in SUBSET DOMAIN conversation,
           conversation' = SubSeq(conversation, 1, Cardinality(I)) \/ UNCHANGED conversation,
           UNCHANGED round, pending_tool_calls' = <<>>
    PROVE  WireInv'
<1>1. conversation \in Seq(Message(Id))
  BY DEF PhaseInv, TypeOK
<1>2. Cardinality(I) \in Nat /\ Cardinality(I) <= Len(conversation)
  BY <1>1, CountIndices
<1>3. \A i \in DOMAIN conversation' : i \in DOMAIN conversation /\ conversation'[i] = conversation[i]
  <2> DEFINE n == Cardinality(I)
  <2>1. n \in Nat /\ n <= Len(conversation)
    BY <1>2
  <2> HIDE DEF n
  <2>2. /\ DOMAIN SubSeq(conversation, 1, n) = 1..n
        /\ \A i \in 1..n : i \in DOMAIN conversation /\ SubSeq(conversation, 1, n)[i] = conversation[i]
    BY <1>1, <2>1
  <2> QED
    BY <2>2 DEF n
<1> QED
  BY <1>3 DEF WireInv, NamesThePast, CallsOfATurn, NamedOnce

\* The answers to works or calls with different ids name each id once.
LEMMA AnswersNamedOnce ==
    ASSUME NEW works, \A k, l \in DOMAIN works : works[k].id = works[l].id => k = l
    PROVE  NamedOnce(Answers(works))
BY DEF NamedOnce, Answers, Answer

\* A list of answers to the round in progress and of the user's messages, after a
\* conversation that names none of them, leaves one that names each id once.
LEMMA WireAnswers ==
    ASSUME PhaseInv, NEW stored \in Seq(Message(Id)), NamedOnce(stored), NEW r \in Nat,
           \A i \in DOMAIN stored : \A id \in stored[i].ids :
             id[1] <= r /\ (stored[i].role = "tool" => id[1] < r),
           NEW more \in Seq(Message(Id)), NamedOnce(more),
           \A i \in DOMAIN more : more[i].role = "tool" \/ more[i].ids = {},
           \A i \in DOMAIN more : \A id \in more[i].ids : id[1] = r,
           conversation' = stored \o more, round' = r, pending_tool_calls' = <<>>
    PROVE  WireInv'
<1>1. \A i \in DOMAIN stored, j \in DOMAIN more : stored[i].role = more[j].role => stored[i].ids \cap more[j].ids = {}
  <2> SUFFICES ASSUME NEW i \in DOMAIN stored, NEW j \in DOMAIN more, stored[i].role = more[j].role,
                      NEW id \in stored[i].ids, id \in more[j].ids
               PROVE  FALSE
    OBVIOUS
  <2>1. stored[i].role = "tool"
    OBVIOUS
  <2>2. id[1] < r /\ id[1] = r
    BY <2>1
  <2> QED
    BY <2>2
<1>2. NamedOnce(conversation')
  BY <1>1, NamedConcat
<1>3. \A i \in DOMAIN conversation' : \A id \in conversation'[i].ids : id[1] <= round'
  <2> SUFFICES ASSUME NEW i \in DOMAIN conversation', NEW id \in conversation'[i].ids PROVE id[1] <= r
    OBVIOUS
  <2>1. \/ i \in DOMAIN stored /\ conversation'[i] = stored[i]
        \/ \E j \in DOMAIN more : conversation'[i] = more[j]
    BY ConcatMembers
  <2> QED
    BY <2>1
<1> QED
  BY <1>2, <1>3 DEF WireInv, NamesThePast, CallsOfATurn, NamedOnce

\* The answers of the round that were collected: of this round, each once.
LEMMA CollectedAnswers ==
    ASSUME PhaseInv, AccountInv
    PROVE  /\ Answers(tool_results) \in Seq(Message(Id)) /\ NamedOnce(Answers(tool_results))
           /\ DOMAIN Answers(tool_results) = DOMAIN tool_results
           /\ \A k \in DOMAIN tool_results :
                /\ Answers(tool_results)[k].role = "tool"
                /\ Answers(tool_results)[k].ids = {tool_results[k].id}
                /\ tool_results[k].id[1] = round /\ tool_results[k].id[2] \in 1..tool_idx
           /\ pending_tool_calls = <<>> => tool_results = <<>>
<1>1. tool_results \in Seq(Work)
  BY DEF PhaseInv, TypeOK
<1>2. Answers(tool_results) \in Seq(Message(Id))
  BY <1>1, AnswersType
<1>3. NamedOnce(Answers(tool_results))
  BY AnswersNamedOnce DEF AccountInv, RoundAccounting
<1>4. \A k \in DOMAIN tool_results : tool_results[k].id \in AnsweredIds
  BY DEF AnsweredIds
<1>5. \A k \in DOMAIN tool_results : /\ tool_results[k].id[1] = round /\ tool_results[k].id[2] \in 1..tool_idx
                                     /\ pending_tool_calls /= <<>>
  BY <1>4, RoundIds
<1>6. pending_tool_calls = <<>> => tool_results = <<>>
  BY <1>1, <1>5
<1> QED
  BY <1>2, <1>3, <1>5, <1>6 DEF Answers, Answer

\* The answers a halt gives to the rest of the round.
LEMMA UnansweredAnswers ==
    ASSUME PhaseInv, AccountInv
    PROVE  LET rest == Answers(Unanswered(pending_tool_calls)) IN
           /\ rest \in Seq(Message(Id)) /\ NamedOnce(rest)
           /\ DOMAIN rest = 1..(Len(pending_tool_calls) - tool_idx)
           /\ \A k \in DOMAIN rest : rest[k].role = "tool" /\ rest[k].ids = {<<round, tool_idx + k>>}
<1> DEFINE un == Unanswered(pending_tool_calls)
<1>1. /\ pending_tool_calls \in Seq(Call) /\ tool_idx \in 0..Len(pending_tool_calls)
      /\ Len(pending_tool_calls) \in Nat /\ tool_idx \in Nat
      /\ \A k \in 1..Len(pending_tool_calls) : pending_tool_calls[k].id = <<round, k>>
  BY DEF PhaseInv, TypeOK, AccountInv, Numbered
<1>2. /\ un \in Seq(Call) /\ DOMAIN un = 1..(Len(pending_tool_calls) - tool_idx)
      /\ \A k \in DOMAIN un : un[k] = pending_tool_calls[tool_idx + k]
  BY <1>1 DEF Unanswered
<1>3. \A k \in DOMAIN un : tool_idx + k \in 1..Len(pending_tool_calls)
  BY <1>1, <1>2
<1>4. \A k \in DOMAIN un : un[k].id = <<round, tool_idx + k>>
  BY <1>1, <1>2, <1>3
<1> HIDE DEF un
<1>5. \A k, l \in DOMAIN un : un[k].id = un[l].id => k = l
  BY <1>1, <1>2, <1>4
<1>6. Answers(un) \in Seq(Message(Id)) /\ NamedOnce(Answers(un))
  BY <1>2, <1>5, AnswersType, AnswersNamedOnce
<1>7. DOMAIN Answers(un) = DOMAIN un /\ \A k \in DOMAIN un : Answers(un)[k].role = "tool" /\ Answers(un)[k].ids = {un[k].id}
  BY DEF Answers, Answer
<1> QED
  BY <1>2, <1>4, <1>6, <1>7 DEF un

\* A halt answers every call of the round it has not answered yet, once.
LEMMA WireHalt ==
    ASSUME PhaseInv, AccountInv, NEW stored \in Seq(Message(Id)), NamedOnce(stored),
           \A i \in DOMAIN stored : \A id \in stored[i].ids :
             id[1] <= round /\ (stored[i].role = "tool" => id[1] < round),
           HaltRound(stored, pending_tool_calls), UNCHANGED round
    PROVE  WireInv'
<1> DEFINE done == Answers(tool_results)
           rest == Answers(Unanswered(pending_tool_calls))
<1>1. /\ done \in Seq(Message(Id)) /\ NamedOnce(done) /\ DOMAIN done = DOMAIN tool_results
      /\ \A k \in DOMAIN done : /\ done[k].role = "tool" /\ done[k].ids = {tool_results[k].id}
                                /\ tool_results[k].id[1] = round /\ tool_results[k].id[2] \in 1..tool_idx
  BY CollectedAnswers
<1>2. /\ rest \in Seq(Message(Id)) /\ NamedOnce(rest)
      /\ DOMAIN rest = 1..(Len(pending_tool_calls) - tool_idx)
      /\ \A k \in DOMAIN rest : rest[k].role = "tool" /\ rest[k].ids = {<<round, tool_idx + k>>}
  BY UnansweredAnswers
<1>3. conversation' = (stored \o done) \o rest /\ pending_tool_calls' = <<>>
  BY DEF HaltRound, ClearRound
<1> HIDE DEF done, rest
<1>4. tool_idx \in Nat /\ round \in Nat /\ Len(pending_tool_calls) \in Nat
  BY DEF PhaseInv, TypeOK
<1>5. \A i \in DOMAIN done, j \in DOMAIN rest : done[i].ids \cap rest[j].ids = {}
  <2> SUFFICES ASSUME NEW i \in DOMAIN done, NEW j \in DOMAIN rest, tool_results[i].id = <<round, tool_idx + j>>
               PROVE  FALSE
    BY <1>1, <1>2
  <2>1. tool_results[i].id[2] <= tool_idx /\ j \in Nat /\ j >= 1
    BY <1>1, <1>2, <1>4
  <2> QED
    BY <1>4, <2>1
<1>6. done \o rest \in Seq(Message(Id)) /\ NamedOnce(done \o rest)
  <2>1. \A i \in DOMAIN done, j \in DOMAIN rest : done[i].role = rest[j].role => done[i].ids \cap rest[j].ids = {}
    BY <1>5
  <2>2. NamedOnce(done) /\ NamedOnce(rest) /\ done \in Seq(Message(Id)) /\ rest \in Seq(Message(Id))
    BY <1>1, <1>2
  <2> QED
    BY <2>1, <2>2, NamedConcat, ConcatType
<1>7. \A i \in DOMAIN (done \o rest) : /\ (done \o rest)[i].role = "tool"
                                       /\ \A id \in (done \o rest)[i].ids : id[1] = round
  <2> SUFFICES ASSUME NEW i \in DOMAIN (done \o rest)
               PROVE  /\ (done \o rest)[i].role = "tool"
                      /\ \A id \in (done \o rest)[i].ids : id[1] = round
    OBVIOUS
  <2>1. \/ i \in DOMAIN done /\ (done \o rest)[i] = done[i]
        \/ \E j \in DOMAIN rest : (done \o rest)[i] = rest[j]
    <3>1. done \in Seq(Message(Id)) /\ rest \in Seq(Message(Id))
      BY <1>1, <1>2
    <3> QED
      BY <3>1, ConcatMembers
  <2> QED
    BY <1>1, <1>2, <2>1
<1>8. conversation' = stored \o (done \o rest)
  BY <1>1, <1>2, <1>3
<1> QED
  BY <1>3, <1>4, <1>6, <1>7, <1>8, WireAnswers

\* The message that asks for a round names calls no message has named.
LEMMA RequestStored ==
    ASSUME PhaseInv, AccountInv, WireInv, stream, pending_tool_calls /= <<>>
    PROVE  LET stored == Append(conversation, Calling(IdsOf(pending_tool_calls), FALSE)) IN
           /\ stored \in Seq(Message(Id)) /\ NamedOnce(stored)
           /\ \A i \in DOMAIN stored : \A id \in stored[i].ids :
                id[1] <= round /\ (stored[i].role = "tool" => id[1] < round)
<1> DEFINE request == Calling(IdsOf(pending_tool_calls), FALSE)
           stored == Append(conversation, request)
<1>1. /\ conversation \in Seq(Message(Id)) /\ pending_tool_calls \in Seq(Call) /\ round \in Nat
      /\ \A k \in DOMAIN pending_tool_calls : pending_tool_calls[k].id = <<round, k>>
  BY DEF PhaseInv, TypeOK, AccountInv, Numbered
<1>2. request \in Message(Id)
  BY <1>1, IdsOfType, MessageTypes
<1>3. request.role = "assistant" /\ request.ids = IdsOf(pending_tool_calls)
  BY DEF Calling
<1>4. \A id \in request.ids : id[1] = round
  <2> SUFFICES ASSUME NEW id \in request.ids PROVE id[1] = round
    OBVIOUS
  <2>1. PICK k \in DOMAIN pending_tool_calls : id = pending_tool_calls[k].id
    BY <1>3 DEF IdsOf
  <2>2. id = <<round, k>>
    BY <1>1, <2>1
  <2> QED
    BY <2>2
<1> HIDE DEF request
<1>5. <<request>> \in Seq(Message(Id)) /\ DOMAIN <<request>> = {1} /\ <<request>>[1] = request
  BY <1>2
<1>6. NamedOnce(<<request>>) /\ NamedOnce(conversation)
  BY <1>5 DEF NamedOnce, WireInv
<1>7. \A i \in DOMAIN conversation : \A id \in conversation[i].ids : id[1] < round
  BY DEF WireInv, NamesThePast
<1>8. \A i \in DOMAIN conversation, j \in DOMAIN <<request>> : conversation[i].ids \cap <<request>>[j].ids = {}
  <2> SUFFICES ASSUME NEW i \in DOMAIN conversation, NEW id \in conversation[i].ids, id \in request.ids PROVE FALSE
    BY <1>5
  <2>1. id[1] < round /\ id[1] = round
    BY <1>4, <1>7
  <2> QED
    BY <1>1, <2>1
<1>9. stored = conversation \o <<request>>
  BY <1>1, <1>2
<1>10. NamedOnce(stored) /\ stored \in Seq(Message(Id))
  <2>1. \A i \in DOMAIN conversation, j \in DOMAIN <<request>> :
          conversation[i].role = <<request>>[j].role => conversation[i].ids \cap <<request>>[j].ids = {}
    BY <1>8
  <2>2. NamedOnce(conversation \o <<request>>)
    BY <1>1, <1>5, <1>6, <2>1, NamedConcat
  <2>3. conversation \o <<request>> \in Seq(Message(Id))
    BY <1>1, <1>5, ConcatType
  <2> QED
    BY <1>9, <2>2, <2>3
<1>11. \A i \in DOMAIN stored : \/ i \in DOMAIN conversation /\ stored[i] = conversation[i]
                               \/ stored[i] = request
  BY <1>1, <1>2
<1>12. \A i \in DOMAIN stored : \A id \in stored[i].ids :
                id[1] <= round /\ (stored[i].role = "tool" => id[1] < round)
  <2> SUFFICES ASSUME NEW i \in DOMAIN stored, NEW id \in stored[i].ids
               PROVE  id[1] <= round /\ (stored[i].role = "tool" => id[1] < round)
    OBVIOUS
  <2>1. CASE i \in DOMAIN conversation /\ stored[i] = conversation[i]
    BY <1>7, <2>1 DEF WireInv, NamesThePast
  <2>2. CASE stored[i] = request
    BY <1>1, <1>3, <1>4, <2>2
  <2> QED
    BY <1>11, <2>1, <2>2
<1> QED
  BY <1>10, <1>12 DEF request

\* A round that ends leaves its answers and the steers.
LEMMA WireFinish == ASSUME PhaseInv, AccountInv, WireInv, FinishToolRound PROVE WireInv'
<1> DEFINE done == Answers(tool_results)
<1>1. /\ done \in Seq(Message(Id)) /\ NamedOnce(done) /\ DOMAIN done = DOMAIN tool_results
      /\ \A k \in DOMAIN done : /\ done[k].role = "tool" /\ done[k].ids = {tool_results[k].id}
                                /\ tool_results[k].id[1] = round
      /\ pending_tool_calls = <<>> => tool_results = <<>>
  BY CollectedAnswers
<1> HIDE DEF done
<1>2. Followups \in Seq(Message(Id)) /\ Plain(Followups)
  <2>1. Followups \in {<<>>, <<User>>}
    BY DEF Followups
  <2>2. <<User>> \in Seq(Message(Id)) /\ Plain(<<User>>)
    BY PlainOnes DEF Plain
  <2>3. <<>> \in Seq(Message(Id)) /\ Plain(<<>>)
    BY DEF Plain
  <2> QED
    BY <2>1, <2>2, <2>3
<1>3. /\ conversation' = conversation \o (done \o Followups) /\ pending_tool_calls' = <<>> /\ round' = round
      /\ conversation \in Seq(Message(Id)) /\ round \in Nat
  BY DEF FinishToolRound, ClearRound, RoundFlush, PhaseInv, TypeOK, done
<1>4. CASE pending_tool_calls = <<>>
  <2>1. Plain(done)
    BY <1>1, <1>4 DEF Plain
  <2>2. done \o Followups \in Seq(Message(Id)) /\ Plain(done \o Followups)
    BY <1>1, <1>2, <2>1, ConcatMembers, ConcatType DEF Plain
  <2> QED
    BY <1>3, <2>2, WirePlain
<1>5. CASE pending_tool_calls /= <<>>
  <2>1. NamedOnce(Followups) /\ \A i \in DOMAIN done, j \in DOMAIN Followups : done[i].ids \cap Followups[j].ids = {}
    BY <1>2 DEF NamedOnce, Plain
  <2>2. done \o Followups \in Seq(Message(Id)) /\ NamedOnce(done \o Followups)
    BY <1>1, <1>2, <2>1, NamedConcat, ConcatType
  <2>3. \A i \in DOMAIN (done \o Followups) :
          \/ i \in DOMAIN done /\ (done \o Followups)[i] = done[i]
          \/ i - Len(done) \in DOMAIN Followups /\ (done \o Followups)[i] = Followups[i - Len(done)]
    BY <1>1, <1>2, ConcatMembers
  <2>4. \A i \in DOMAIN (done \o Followups) :
          /\ (done \o Followups)[i].role = "tool" \/ (done \o Followups)[i].ids = {}
          /\ \A id \in (done \o Followups)[i].ids : id[1] = round
    BY <1>1, <1>2, <2>3 DEF Plain
  <2>5. /\ NamedOnce(conversation)
        /\ \A i \in DOMAIN conversation : \A id \in conversation[i].ids :
             id[1] <= round /\ (conversation[i].role = "tool" => id[1] < round)
    BY <1>5 DEF WireInv, NamesThePast
  <2> QED
    BY <1>3, <2>2, <2>4, <2>5, WireAnswers
<1> QED
  BY <1>4, <1>5

\* Every step keeps the ids of the conversation apart.
LEMMA WireStep ==
    ASSUME PhaseInv, AccountInv, WireInv, [Next]_vars, NativeIds, ~LateDeny
    PROVE  WireInv'
<1>1. /\ conversation \in Seq(Message(Id)) /\ (stream => waiting)
      /\ (~waiting => pending_tool_calls = <<>>) /\ (awaiting_approval => pending_tool_calls /= <<>> /\ ~stream)
  <2>1. awaiting_approval => pending_tool_calls /= <<>>
    BY DEF PhaseInv, Phases, TypeOK
  <2> QED
    BY <2>1 DEF PhaseInv, TypeOK, Phases, WireInv, CallsOfATurn
<1>2. /\ <<>> \in Seq(Message(Id)) /\ Plain(<<>>)
      /\ <<User>> \in Seq(Message(Id)) /\ Plain(<<User>>)
      /\ <<Assistant>> \in Seq(Message(Id)) /\ Plain(<<Assistant>>)
      /\ <<Promoted>> \in Seq(Message(Id)) /\ Plain(<<Promoted>>)
  BY PlainOnes DEF Plain
<1>3. \A s, t \in Seq(Message(Id)) : Plain(s) /\ Plain(t) => s \o t \in Seq(Message(Id)) /\ Plain(s \o t)
  BY ConcatMembers, ConcatType DEF Plain
<1>4. \A m \in Message(Id) : Append(conversation, m) = conversation \o <<m>>
  BY <1>1
<1>5. ASSUME NEW more \in Seq(Message(Id)), Plain(more), conversation' = conversation \o more, UNCHANGED round,
             \/ pending_tool_calls' = <<>>
             \/ UNCHANGED <<pending_tool_calls, stream>> /\ (waiting => waiting')
      PROVE  WireInv'
  BY <1>5, WirePlain
<1>6. CASE Submit \/ Wakes
  <2>1. conversation' = Append(conversation, User) /\ pending_tool_calls' = <<>> /\ UNCHANGED round
    BY <1>6 DEF Submit, Wakes, WakeForBash, WakeForSubagent, Wake, ResetRound, ClearRound
  <2> QED
    BY <1>2, <1>4, <1>5, <2>1, PlainOnes
<1>7. CASE SubmitRefused
  <2>1. PICK notice \in {<<>>, <<Assistant>>} : conversation' = (conversation \o <<User>>) \o notice
    BY <1>7 DEF SubmitRefused
  <2>2. <<User>> \o notice \in Seq(Message(Id)) /\ Plain(<<User>> \o notice) /\ notice \in Seq(Message(Id))
    BY <1>2, <1>3
  <2>3. conversation' = conversation \o (<<User>> \o notice)
    BY <1>1, <1>2, <2>1, <2>2
  <2> QED
    BY <1>5, <1>7, <2>2, <2>3 DEF SubmitRefused
<1>8. CASE Resend
  <2>1. PICK I \in SUBSET DOMAIN conversation : conversation' = SubSeq(conversation, 1, Cardinality(I))
    BY <1>8 DEF Resend, PopTrailingAssistants
  <2>2. UNCHANGED round /\ pending_tool_calls' = <<>>
    BY <1>1, <1>8 DEF Resend
  <2> QED
    BY <2>1, <2>2, WirePrefix
<1>9. CASE Interrupt \/ SetModeStops
  <2>1. \E partial \in {<<>>, <<Assistant>>} : conversation' = conversation \o partial
    BY <1>9 DEF Interrupt, SetModeStops, KeepPartial
  <2>2. UNCHANGED round /\ pending_tool_calls' = <<>>
    BY <1>9 DEF Interrupt, SetModeStops, Cut, ClearRound
  <2> QED
    BY <1>2, <1>5, <2>1, <2>2
<1>10. CASE InterruptRewind
  <2>1. \E I \in SUBSET DOMAIN conversation :
          conversation' = SubSeq(conversation, 1, Cardinality(I)) \/ UNCHANGED conversation
    BY <1>10 DEF InterruptRewind, BeforeLastUser
  <2>2. UNCHANGED round /\ pending_tool_calls' = <<>>
    BY <1>10 DEF InterruptRewind, Cut, ClearRound
  <2> QED
    BY <2>1, <2>2, WirePrefix
<1>11. CASE Deny \/ ParkTimeout
  <2>1. awaiting_approval /\ HaltRound(conversation, pending_tool_calls) /\ UNCHANGED round
    BY <1>11 DEF Deny, ParkTimeout, Halt
  <2>2. /\ NamedOnce(conversation)
        /\ \A i \in DOMAIN conversation : \A id \in conversation[i].ids :
             id[1] <= round /\ (conversation[i].role = "tool" => id[1] < round)
    BY <1>1, <2>1 DEF WireInv, NamesThePast
  <2> QED
    BY <1>1, <2>1, <2>2, WireHalt
<1>12. CASE StreamToolCalls
  <2>1. /\ UNCHANGED <<conversation, stream, waiting>> /\ stream /\ round' = round + 1
    BY <1>12 DEF StreamToolCalls
  <2>2. \A i \in DOMAIN conversation : \A id \in conversation[i].ids : id \in Id /\ id[1] <= round
    <3>1. \A i \in DOMAIN conversation : conversation[i] \in Message(Id)
      BY <1>1
    <3> QED
      BY <3>1, MessageShape DEF WireInv, NamesThePast
  <2>3. \A i \in DOMAIN conversation : \A id \in conversation[i].ids : id[1] <= round' /\ id[1] < round'
    BY <2>1, <2>2, IdFacts, ConstantsAssumption DEF PhaseInv, TypeOK
  <2> QED
    BY <1>1, <2>1, <2>3 DEF WireInv, NamesThePast, CallsOfATurn, NamedOnce
<1>13. ASSUME NEW calls, Harvested(calls)
       PROVE  calls = pending_tool_calls /\ pending_tool_calls /= <<>> /\ stream /\ UNCHANGED round
  BY <1>13 DEF Harvested
<1>14. ASSUME NEW calls, StreamDoneWithCalls(calls) PROVE WireInv'
  <2>1. /\ conversation' = Append(conversation, Calling(IdsOf(pending_tool_calls), FALSE))
        /\ UNCHANGED <<pending_tool_calls, round, waiting>> /\ ~stream' /\ stream /\ pending_tool_calls /= <<>>
    BY <1>13, <1>14 DEF StreamDoneWithCalls
  <2>2. /\ NamedOnce(conversation')
        /\ \A i \in DOMAIN conversation' : \A id \in conversation'[i].ids :
                id[1] <= round /\ (conversation'[i].role = "tool" => id[1] < round)
    BY <2>1, RequestStored
  <2> QED
    BY <2>1, <2>2 DEF WireInv, NamesThePast, CallsOfATurn, NamedOnce
<1>15. ASSUME NEW calls, StreamDoneBlocked(calls) PROVE WireInv'
  <2>1. /\ HaltRound(Append(conversation, Calling(IdsOf(pending_tool_calls), FALSE)), pending_tool_calls)
        /\ UNCHANGED round /\ stream /\ pending_tool_calls /= <<>>
    <3>1. calls = pending_tool_calls /\ pending_tool_calls /= <<>> /\ stream /\ UNCHANGED round
      BY <1>13, <1>15 DEF StreamDoneBlocked
    <3>2. HaltRound(Append(conversation, Calling(IdsOf(calls), FALSE)), calls)
      BY <1>15, Zenon DEF StreamDoneBlocked, Halt
    <3> QED
      BY <3>1, <3>2, Zenon
  <2> QED
    BY <2>1, RequestStored, WireHalt
<1>16. ASSUME NEW plain \in Seq(Message(Id)), Plain(plain), NEW left, EndTurn(conversation \o plain, left),
              pending_tool_calls = <<>>, UNCHANGED round
       PROVE  WireInv'
  <2>1. pending_tool_calls' = <<>>
    BY <1>16, Zenon DEF EndTurn, ResetRound, ClearRound, roundVars
  <2>2. \E end \in {<<>>, <<User>>} : conversation' = (conversation \o plain) \o end
    <3>1. conversation \o plain \in Seq(Message(Id))
      BY <1>1, ConcatType
    <3>2. (conversation \o plain) \o <<>> = conversation \o plain
      BY <3>1
    <3>3. Append(conversation \o plain, User) = (conversation \o plain) \o <<User>>
      BY <3>1, PlainOnes
    <3> QED
      BY <1>16, <3>2, <3>3, Zenon DEF EndTurn
  <2>3. PICK end \in {<<>>, <<User>>} : conversation' = (conversation \o plain) \o end
    BY <2>2
  <2>4. plain \o end \in Seq(Message(Id)) /\ Plain(plain \o end) /\ end \in Seq(Message(Id))
    <3>1. plain \in Seq(Message(Id)) /\ Plain(plain)
      BY <1>16
    <3>2. CASE end = <<>>
      BY <1>2, <1>3, <3>1, <3>2
    <3>3. CASE end = <<User>>
      BY <1>2, <1>3, <3>1, <3>3
    <3> QED
      BY <3>2, <3>3
  <2>5. conversation' = conversation \o (plain \o end)
    BY <1>1, <2>3, <2>4
  <2> QED
    BY <1>5, <1>16, <2>1, <2>4, <2>5
<1>17. CASE StreamDone
  <2>1. /\ \E plain \in {<<>>, <<Assistant>>, <<Promoted>>} : EndTurn(conversation \o plain, FALSE)
        /\ pending_tool_calls = <<>> /\ UNCHANGED round
    BY <1>17 DEF StreamDone
  <2> QED
    BY <1>2, <1>16, <2>1
<1>18. CASE StreamStalled
  <2> DEFINE nudge == <<Assistant, User>>
  <2>1. nudge = <<Assistant>> \o <<User>>
    OBVIOUS
  <2>2. nudge \in Seq(Message(Id)) /\ Plain(nudge)
    BY <1>2, <1>3, <2>1
  <2> HIDE DEF nudge
  <2>3. /\ pending_tool_calls = <<>> /\ UNCHANGED round
        /\ \/ conversation' = conversation \o nudge /\ pending_tool_calls' = <<>>
           \/ EndTurn(conversation \o nudge, TRUE)
    BY <1>18, Zenon DEF StreamStalled, roundVars, counters, nudge
  <2> QED
    BY <1>5, <1>16, <2>2, <2>3
<1>19. CASE StreamError
  <2>1. \E partial \in {<<>>, <<Assistant>>} : conversation' = conversation \o partial
    BY <1>19 DEF StreamError
  <2>2. UNCHANGED round /\ pending_tool_calls' = <<>>
    BY <1>19 DEF StreamError, ClearRound
  <2> QED
    BY <1>2, <1>5, <2>1, <2>2
<1>20. CASE WalkImage
  <2>1. conversation' = Append(conversation, User) /\ UNCHANGED <<pending_tool_calls, stream, waiting, round>>
    BY <1>20 DEF WalkImage
  <2> QED
    BY <1>2, <1>4, <1>5, <2>1, PlainOnes
<1>21. ASSUME NEW subs \in Seq(SubAgent), DrainSubagents(subs) PROVE WireInv'
  <2> DEFINE notes == [k \in 1..Cardinality(TaskNotes(subs)) |-> User]
  <2>1. Cardinality(TaskNotes(subs)) \in Nat
    BY IndicesFinite DEF TaskNotes, Unannounced
  <2>2. notes \in [1..Cardinality(TaskNotes(subs)) -> Message(Id)]
    BY MessageTypes
  <2>3. notes \in Seq(Message(Id)) /\ Plain(notes)
    BY <2>1, <2>2, FunctionIsSeq, PlainOnes DEF Plain
  <2>4. conversation' = conversation \o notes /\ UNCHANGED <<pending_tool_calls, stream, waiting, round>>
    BY <1>21 DEF DrainSubagents
  <2> QED
    BY <1>5, <2>3, <2>4
<1>22. ASSUME UNCHANGED <<conversation, round, pending_tool_calls, stream, waiting>> PROVE WireInv'
  BY <1>22, WireSame
<1>23. ASSUME NEW i \in DOMAIN subagents, SubagentEnds(i) PROVE WireInv'
  <2>1. PICK end \in {"done", "killed"} : DrainSubagents([subagents EXCEPT ![i].status = end])
    BY <1>23 DEF SubagentEnds
  <2>2. subagents \in Seq(SubAgent) /\ subagents[i] \in SubAgent
    BY DEF PhaseInv, TypeOK
  <2>3. [subagents[i] EXCEPT !.status = end] \in SubAgent
    BY <2>2 DEF SubAgent
  <2>4. [subagents EXCEPT ![i].status = end] \in Seq(SubAgent)
    BY <2>2, <2>3
  <2> QED
    BY <1>21, <2>1, <2>4
<1>24. CASE RevisitSubagents
  BY <1>21, <1>24 DEF RevisitSubagents, PhaseInv, TypeOK
<1>25. CASE Steer \/ Approve \/ SetMode \/ Attach \/ StartTask
  BY <1>22, <1>25 DEF Steer, Approve, SetMode, Attach, StartTask
<1>26. ASSUME NEW i, BackgroundSubagent(i) \/ BackgroundBash(i) \/ FoldTask(i) \/ BashExits(i) \/ DrainBash(i)
       PROVE  WireInv'
  BY <1>22, <1>26 DEF BackgroundSubagent, BackgroundBash, FoldTask, BashExits, DrainBash
<1>27. CASE WalkInline \/ WalkDeferred \/ WalkBash \/ WalkBackgroundBash \/ WalkTask \/ WalkBackgroundTask
  BY <1>22, <1>27 DEF WalkInline, WalkDeferred, WalkBash, WalkBackgroundBash, WalkTask, WalkBackgroundTask
<1>28. CASE WalkClassify \/ WalkRisky \/ WalkAsk \/ WalkRefuse \/ WalkPark
  BY <1>22, <1>28 DEF WalkClassify, WalkRisky, WalkAsk, WalkRefuse, WalkPark
<1>29. ASSUME NEW work, NEW verdict, DrainVerdict(work, verdict) PROVE WireInv'
  BY <1>22, <1>29 DEF DrainVerdict
<1>30. CASE Resume \/ UNCHANGED vars
  BY <1>22, <1>30 DEF Resume, vars
<1>31. CASE Request
  BY <1>31, <1>6, <1>7, <1>8, <1>9, <1>10, <1>11, <1>25, <1>26, Zenon DEF Request
<1>32. CASE StreamToolCalls \/ StreamEnds
  BY <1>32, <1>12, <1>14, <1>15, <1>17, <1>18, <1>19, Zenon DEF StreamEnds
<1>33. CASE ProcessTools
  BY <1>33, <1>20, <1>27, <1>28, WireFinish, Zenon DEF ProcessTools
<1>34. CASE Reports
  BY <1>34, <1>23, <1>26, <1>29, Zenon DEF Reports
<1> QED
  BY <1>6, <1>24, <1>30, <1>31, <1>32, <1>33, <1>34, Zenon DEF Next

\* The ids of the conversation stay apart.
LEMMA WireHolds == ASSUME NativeIds, ~LateDeny PROVE Spec => [](PhaseInv /\ AccountInv /\ WireInv)
<1>1. Init => WireInv
  BY DEF Init, WireInv, NamedOnce, NamesThePast, CallsOfATurn
<1>2. PhaseInv /\ AccountInv /\ WireInv /\ [Next]_vars => WireInv'
  BY WireStep
<1>3. Spec => [](PhaseInv /\ AccountInv)
  BY Accounting
<1> QED
  BY <1>1, <1>2, <1>3, PTL DEF Spec

\* What history() sends is a request the provider accepts, whatever earlier rounds
\* were cut, denied, abandoned or left without answers.
THEOREM RequestsAreValid == ASSUME NativeIds, ~LateDeny PROVE Spec => []WireValid
<1>1. PhaseInv /\ WireInv => WireValid
  <2> SUFFICES ASSUME PhaseInv, WireInv PROVE WireValid
    OBVIOUS
  <2>1. conversation \in Seq(Message(Id)) /\ NamedOnce(conversation)
    BY DEF PhaseInv, TypeOK, WireInv
  <2> QED
    BY <2>1, HistoryValid DEF WireValid
<1> QED
  BY <1>1, WireHolds, PTL

-----------------------------------------------------------------------------
(* The answers of a round reach the model: history() keeps the answers     *)
(* that follow their request, and nothing comes between the two when no    *)
(* tool attaches a picture and the user runs no sub-agent of his own.      *)

\* history() sends every answer of a group whose answers follow it at once, all of
\* them, whatever else the conversation holds.
THEOREM AnswersReachModel ==
    ASSUME NEW S, NEW msgs \in Seq(Message(S)), NEW n \in DOMAIN msgs,
           msgs[n].role = "assistant", msgs[n].ids /= {},
           \A id \in msgs[n].ids : \E k \in DOMAIN msgs :
             n < k /\ id \in msgs[k].ids /\ \A l \in (n+1)..k : msgs[l].role = "tool"
    PROVE  msgs[n].ids \subseteq AnswersSeen(History(msgs))
<1> DEFINE H == History(msgs)
           valid == ValidIds(msgs)
<1>1. PICK places :
             /\ places = {i \in DOMAIN msgs : Kept(msgs[i], valid)}
             /\ DOMAIN H = 1..Cardinality(places)
             /\ \A k \in DOMAIN H : H[k] = Wire(msgs[Place(places, k)], valid)
             /\ \A i \in places : \E k \in 1..Cardinality(places) : Place(places, k) = i
  BY HistoryPlaces
<1>2. n \in Nat /\ Len(msgs) \in Nat /\ DOMAIN msgs = 1..Len(msgs) /\ \A i \in DOMAIN msgs : msgs[i] \in Message(S)
  OBVIOUS
<1>3. msgs[n].ids \subseteq Responded(msgs, n)
  <2> SUFFICES ASSUME NEW id \in msgs[n].ids PROVE id \in Responded(msgs, n)
    OBVIOUS
  <2>1. PICK k \in DOMAIN msgs : n < k /\ id \in msgs[k].ids /\ \A l \in (n+1)..k : msgs[l].role = "tool"
    OBVIOUS
  <2>2. k \in (n+1)..Len(msgs)
    BY <1>2, <2>1
  <2> QED
    BY <2>1, <2>2, RespondedMember
<1>4. msgs[n].ids \subseteq valid
  BY <1>3 DEF ValidIds, Complete
<1>5. \A k \in DOMAIN H : H[k] = Wire(msgs[Place(places, k)], valid)
  BY <1>1
<1> HIDE DEF H, valid
<1> SUFFICES ASSUME NEW id \in msgs[n].ids PROVE id \in AnswersSeen(H)
  BY DEF H
<1>6. PICK k \in DOMAIN msgs : n < k /\ id \in msgs[k].ids /\ \A l \in (n+1)..k : msgs[l].role = "tool"
  OBVIOUS
<1>7. msgs[k].role = "tool"
  BY <1>2, <1>6
<1>8. \A a \in msgs[k].ids : a = id
  BY <1>2, <1>6, <1>7, MessageShape
<1>9. k \in places
  BY <1>1, <1>4, <1>7, <1>8 DEF Kept
<1>10. PICK a \in DOMAIN H : Place(places, a) = k
  BY <1>1, <1>9
<1>11. H[a] = msgs[k]
  BY <1>5, <1>7, <1>10 DEF Wire
<1> QED
  BY <1>6, <1>7, <1>11 DEF AnswersSeen

\* Answers written right after the request are seen, whatever comes after them.
LEMMA FlushSeen ==
    ASSUME PhaseInv, RequestIsLast, pending_tool_calls /= <<>>, ~stream,
           NEW done \in Seq(Message(Id)), NEW after \in Seq(Message(Id)),
           \A k \in DOMAIN done : done[k].role = "tool",
           \A id \in IdsOf(pending_tool_calls) : \E k \in DOMAIN done : id \in done[k].ids
    PROVE  IdsOf(pending_tool_calls) \subseteq AnswersSeen(History(conversation \o (done \o after)))
<1> DEFINE n == Len(conversation)
           msgs == conversation \o (done \o after)
<1>1. conversation \in Seq(Message(Id)) /\ done \o after \in Seq(Message(Id))
  BY ConcatType DEF PhaseInv, TypeOK
<1>2. msgs \in Seq(Message(Id))
  BY <1>1, ConcatType
<1>3. n \in Nat /\ n > 0 /\ conversation[n] = Calling(IdsOf(pending_tool_calls), FALSE)
  <2>1. conversation /= <<>> /\ conversation[n] = Calling(IdsOf(pending_tool_calls), FALSE)
    BY DEF RequestIsLast
  <2>2. n \in Nat /\ (n = 0 => conversation = <<>>)
    BY <1>1
  <2> QED
    BY <2>1, <2>2
<1>4. /\ Len(done) \in Nat /\ DOMAIN done = 1..Len(done)
      /\ Len(done \o after) \in Nat /\ Len(done \o after) >= Len(done)
      /\ \A k \in 1..Len(done) : (done \o after)[k] = done[k]
  OBVIOUS
<1>5. /\ DOMAIN msgs = 1..(n + Len(done \o after)) /\ msgs[n] = conversation[n]
      /\ \A k \in 1..Len(done) : msgs[k + n] = done[k]
  <2>1. /\ DOMAIN conversation = 1..n
        /\ DOMAIN msgs = 1..(n + Len(done \o after))
        /\ \A k \in 1..n : msgs[k] = conversation[k]
        /\ \A k \in 1..Len(done \o after) : msgs[k + n] = (done \o after)[k]
    BY <1>1, ConcatFacts
  <2> HIDE DEF n, msgs
  <2>2. n \in 1..n
    BY <1>3
  <2>3. 1..Len(done) \subseteq 1..Len(done \o after)
    BY <1>4
  <2> QED
    BY <1>4, <2>1, <2>2, <2>3
<1> HIDE DEF n, msgs
<1>6. msgs[n].role = "assistant" /\ msgs[n].ids = IdsOf(pending_tool_calls)
  BY <1>3, <1>5 DEF Calling
<1>7. msgs[n].ids /= {}
  BY <1>6, IdsOfType DEF PhaseInv, TypeOK
<1>8. n \in DOMAIN msgs
  BY <1>3, <1>4, <1>5
<1>9. ASSUME NEW id \in msgs[n].ids
      PROVE  \E k \in DOMAIN msgs : n < k /\ id \in msgs[k].ids /\ \A l \in (n+1)..k : msgs[l].role = "tool"
  <2>1. PICK k \in DOMAIN done : id \in done[k].ids
    BY <1>6, <1>9
  <2>2. k + n \in DOMAIN msgs /\ n < k + n /\ id \in msgs[k + n].ids
    BY <1>3, <1>4, <1>5, <2>1
  <2>3. ASSUME NEW l \in (n+1)..(k + n) PROVE msgs[l].role = "tool"
    <3>1. l - n \in 1..Len(done) /\ (l - n) + n = l
      BY <1>3, <1>4
    <3>2. msgs[(l - n) + n] = done[l - n]
      BY <1>5, <3>1
    <3> QED
      BY <1>4, <3>1, <3>2
  <2> QED
    BY <2>2, <2>3
<1> QED
  BY <1>2, <1>6, <1>7, <1>8, <1>9, AnswersReachModel DEF msgs

-----------------------------------------------------------------------------
(* Between a request and its answers nothing is written.                   *)

\* A step that leaves the agents tied to what they were, or starts one that answers
\* a call or runs detached, leaves the user none.
LEMMA AgentsTied ==
    ASSUME NoUsersAgent,
           \A i \in DOMAIN subagents' :
             \/ subagents'[i].call = None => subagents'[i].detached
             \/ /\ i \in DOMAIN subagents /\ subagents'[i].call = subagents[i].call
                /\ subagents'[i].detached = subagents[i].detached
    PROVE  NoUsersAgent'
BY DEF NoUsersAgent

\* What abort_running_subagents does to the agents.
LEMMA KilledTied == ASSUME PhaseInv, NoUsersAgent, KillBlockingAgents PROVE NoUsersAgent'
<1>1. \A i \in DOMAIN subagents : subagents[i] \in SubAgent
  BY DEF PhaseInv, TypeOK
<1>2. DOMAIN subagents' = DOMAIN subagents
  BY DEF KillBlockingAgents
<1>3. ASSUME NEW i \in DOMAIN subagents
      PROVE  subagents'[i].call = subagents[i].call /\ subagents'[i].detached = subagents[i].detached
  <2>1. subagents'[i] \in {subagents[i], [subagents[i] EXCEPT !.status = "killed", !.nudged = TRUE]}
    BY DEF KillBlockingAgents
  <2> QED
    BY <1>1, <2>1 DEF SubAgent
<1> QED
  BY <1>2, <1>3, AgentsTied

\* What a drain does to them.
LEMMA DrainedTied ==
    ASSUME NEW subs \in Seq(SubAgent), DrainSubagents(subs), DOMAIN subs = DOMAIN subagents, NoUsersAgent,
           \A i \in DOMAIN subs : subs[i].call = subagents[i].call /\ subs[i].detached = subagents[i].detached
    PROVE  NoUsersAgent' /\ UNCHANGED conversation
<1>1. \A i \in DOMAIN subs : subs[i] \in SubAgent
  OBVIOUS
<1>2. subagents' = [i \in DOMAIN subs |->
                       IF i \in Unannounced(subs) THEN [subs[i] EXCEPT !.nudged = TRUE] ELSE subs[i]]
  BY DEF DrainSubagents
<1>3. DOMAIN subagents' = DOMAIN subagents
  BY <1>2
<1>4. ASSUME NEW i \in DOMAIN subagents
      PROVE  subagents'[i].call = subagents[i].call /\ subagents'[i].detached = subagents[i].detached
  <2>1. subagents'[i] \in {subs[i], [subs[i] EXCEPT !.nudged = TRUE]}
    BY <1>2
  <2> QED
    BY <1>1, <2>1 DEF SubAgent
<1>5. NoUsersAgent'
  BY <1>3, <1>4, AgentsTied
<1>6. TaskNotes(subs) = {}
  BY DEF TaskNotes, Unannounced, NoUsersAgent
<1>7. Cardinality(TaskNotes(subs)) = 0
  BY <1>6, FS_EmptySet
<1>8. conversation' = conversation \o [k \in 1..0 |-> User]
  BY <1>7 DEF DrainSubagents
<1> QED
  BY <1>5, <1>8

\* The call the loop stands at has an id, and a kind the model may call.
LEMMA CurrentKind ==
    ASSUME PhaseInv, tool_idx < Len(pending_tool_calls)
    PROVE  Current.kind \in Kinds /\ Current.id /= None
<1>1. tool_idx + 1 \in DOMAIN pending_tool_calls /\ \A k \in DOMAIN pending_tool_calls : pending_tool_calls[k] \in Call
  BY DEF PhaseInv, TypeOK
<1>2. Current \in Call
  BY <1>1 DEF Current
<1>3. Current.id \in Id /\ Current.kind \in Kinds
  BY <1>2 DEF Call
<1> QED
  BY <1>3 DEF Id, CallId, None

\* Every step keeps the round's request the last message, and the user without agents.
LEMMA OpenRoundStep ==
    ASSUME PhaseInv, WireInv, OpenRoundInv, [Next]_vars,
           NativeIds, ~LateDeny, ~TaskCommand, "image" \notin Kinds
    PROVE  OpenRoundInv'
<1>1. /\ RequestIsLast /\ NoUsersAgent /\ (~waiting => pending_tool_calls = <<>>)
      /\ conversation \in Seq(Message(Id)) /\ subagents \in Seq(SubAgent)
  BY DEF OpenRoundInv, WireInv, CallsOfATurn, PhaseInv, TypeOK
<1>2. ASSUME \/ UNCHANGED <<conversation, pending_tool_calls, stream, buffer>>
             \/ pending_tool_calls' = <<>>
             \/ stream',
             UNCHANGED subagents \/ KillBlockingAgents \/ NoUsersAgent'
      PROVE  OpenRoundInv'
  <2>1. RequestIsLast'
    <3>1. CASE UNCHANGED <<conversation, pending_tool_calls, stream, buffer>>
      BY <1>1, <3>1 DEF RequestIsLast, IdsOf
    <3>2. CASE pending_tool_calls' = <<>> \/ stream'
      BY <3>2 DEF RequestIsLast
    <3> QED
      BY <1>2, <3>1, <3>2
  <2>2. NoUsersAgent'
    BY <1>1, <1>2, KilledTied DEF NoUsersAgent
  <2> QED
    BY <2>1, <2>2 DEF OpenRoundInv
<1>3. CASE Submit \/ Wakes
  BY <1>2, <1>3 DEF Submit, Wakes, WakeForBash, WakeForSubagent, Wake, ResetRound, ClearRound
<1>4. CASE SubmitRefused \/ Resend
  <2>1. pending_tool_calls' = <<>> /\ UNCHANGED subagents
    BY <1>1, <1>4 DEF SubmitRefused, Resend
  <2> QED
    BY <1>2, <2>1
<1>5. CASE Interrupt \/ InterruptRewind \/ SetModeStops
  BY <1>2, <1>5 DEF Interrupt, InterruptRewind, SetModeStops, Cut, ClearRound, AbortSubagents
<1>6. CASE Deny \/ ParkTimeout
  BY <1>2, <1>6 DEF Deny, ParkTimeout, Halt, HaltRound, ClearRound, AbortSubagents
<1>7. CASE StreamToolCalls
  BY <1>2, <1>7 DEF StreamToolCalls
<1>8. ASSUME NEW calls, StreamDoneWithCalls(calls) PROVE OpenRoundInv'
  <2>1. /\ conversation' = Append(conversation, Calling(IdsOf(calls), FALSE))
        /\ pending_tool_calls' = calls /\ ~buffer' /\ UNCHANGED subagents
    BY <1>8 DEF StreamDoneWithCalls
  <2>2. conversation' /= <<>> /\ conversation'[Len(conversation')] = Calling(IdsOf(calls), FALSE)
    <3>1. ASSUME NEW m PROVE Append(conversation, m) /= <<>> /\ Append(conversation, m)[Len(conversation) + 1] = m
      BY <1>1
    <3>2. \A m : Len(Append(conversation, m)) = Len(conversation) + 1
      BY <1>1
    <3> QED
      BY <2>1, <3>1, <3>2
  <2>3. RequestIsLast'
    BY <2>1, <2>2, Zenon DEF RequestIsLast, IdsOf
  <2>4. NoUsersAgent'
    BY <1>1, <2>1 DEF NoUsersAgent
  <2> QED
    BY <2>3, <2>4 DEF OpenRoundInv
<1>9. ASSUME NEW calls, StreamDoneBlocked(calls) PROVE OpenRoundInv'
  <2>1. HaltRound(Append(conversation, Calling(IdsOf(calls), FALSE)), calls)
    BY <1>9, Zenon DEF StreamDoneBlocked, Halt
  <2>2. pending_tool_calls' = <<>> /\ KillBlockingAgents
    BY <2>1, Zenon DEF HaltRound, ClearRound, AbortSubagents
  <2> QED
    BY <1>2, <2>2
<1>10. ASSUME NEW stored, NEW left, EndTurn(stored, left), pending_tool_calls = <<>>
       PROVE  pending_tool_calls' = <<>>
  BY <1>10, Zenon DEF EndTurn, ResetRound, ClearRound, roundVars
<1>11. CASE StreamDone
  <2>1. /\ \E plain \in {<<>>, <<Assistant>>, <<Promoted>>} : EndTurn(conversation \o plain, FALSE)
        /\ pending_tool_calls = <<>> /\ UNCHANGED subagents
    BY <1>11 DEF StreamDone
  <2> QED
    BY <1>2, <1>10, <2>1
<1>12. CASE StreamStalled
  <2>1. /\ pending_tool_calls = <<>> /\ UNCHANGED subagents
        /\ pending_tool_calls' = <<>> \/ \E stored : EndTurn(stored, TRUE)
    BY <1>12, Zenon DEF StreamStalled, roundVars, agentVars
  <2> QED
    BY <1>2, <1>10, <2>1
<1>13. CASE StreamError \/ FinishToolRound
  BY <1>2, <1>13 DEF StreamError, FinishToolRound, ClearRound
<1>14. ~WalkImage /\ ~StartTask
  BY CurrentKind DEF WalkImage, AtCall, StartTask
<1>15. CASE Steer \/ Approve \/ SetMode \/ Attach
  BY <1>2, <1>15 DEF Steer, Approve, SetMode, Attach
<1>16. ASSUME NEW i, BackgroundBash(i) \/ FoldTask(i) \/ BashExits(i) \/ DrainBash(i)
       PROVE  OpenRoundInv'
  BY <1>2, <1>16 DEF BackgroundBash, FoldTask, BashExits, DrainBash
<1>17. ASSUME NEW i \in DOMAIN subagents, BackgroundSubagent(i) PROVE OpenRoundInv'
  <2>1. /\ subagents' = [subagents EXCEPT ![i] = [subagents[i] EXCEPT !.call = None, !.detached = TRUE]]
        /\ UNCHANGED <<conversation, pending_tool_calls, stream, buffer>>
    BY <1>17 DEF BackgroundSubagent
  <2>2. subagents[i] \in SubAgent
    BY <1>1
  <2>3. DOMAIN subagents' = DOMAIN subagents
    BY <2>1
  <2>4. subagents'[i].detached /\ \A k \in DOMAIN subagents : k /= i => subagents'[k] = subagents[k]
    BY <2>1, <2>2 DEF SubAgent
  <2>5. NoUsersAgent'
    BY <1>1, <2>3, <2>4, AgentsTied
  <2> QED
    BY <1>2, <2>1, <2>5
<1>18. ASSUME NEW agent, agent.call = None => agent.detached, subagents' = Append(subagents, agent)
       PROVE  NoUsersAgent'
  <2>1. \A i \in DOMAIN subagents' :
          (i \in DOMAIN subagents /\ subagents'[i] = subagents[i]) \/ subagents'[i] = agent
    BY <1>1, <1>18
  <2> QED
    BY <1>1, <1>18, <2>1, AgentsTied
<1>19. CASE WalkTask
  <2>1. Current.id /= None
    BY <1>19, CurrentKind DEF WalkTask, AtCall
  <2>2. NewAgent(Current.id, FALSE).call /= None /\ subagents' = Append(subagents, NewAgent(Current.id, FALSE))
    BY <1>19, <2>1 DEF WalkTask, NewAgent
  <2>3. NoUsersAgent'
    BY <1>18, <2>2
  <2> QED
    BY <1>2, <1>19, <2>3 DEF WalkTask
<1>20. CASE WalkBackgroundTask
  <2>1. NewAgent(None, TRUE).detached /\ subagents' = Append(subagents, NewAgent(None, TRUE))
    BY <1>20 DEF WalkBackgroundTask, NewAgent
  <2>2. NoUsersAgent'
    BY <1>18, <2>1
  <2> QED
    BY <1>2, <1>20, <2>2 DEF WalkBackgroundTask
<1>21. CASE WalkInline \/ WalkDeferred \/ WalkBash \/ WalkBackgroundBash
  BY <1>2, <1>21 DEF WalkInline, WalkDeferred, WalkBash, WalkBackgroundBash
<1>22. CASE WalkClassify \/ WalkRisky \/ WalkAsk \/ WalkRefuse \/ WalkPark
  BY <1>2, <1>22 DEF WalkClassify, WalkRisky, WalkAsk, WalkRefuse, WalkPark
<1>23. ASSUME NEW work, NEW verdict, DrainVerdict(work, verdict) PROVE OpenRoundInv'
  BY <1>2, <1>23 DEF DrainVerdict
<1>24. ASSUME NEW subs \in Seq(SubAgent), DrainSubagents(subs), DOMAIN subs = DOMAIN subagents,
              \A i \in DOMAIN subs : subs[i].call = subagents[i].call /\ subs[i].detached = subagents[i].detached
       PROVE  OpenRoundInv'
  <2>1. NoUsersAgent' /\ UNCHANGED conversation
    BY <1>1, <1>24, DrainedTied
  <2>2. UNCHANGED <<pending_tool_calls, stream, buffer>>
    BY <1>24 DEF DrainSubagents
  <2> QED
    BY <1>2, <2>1, <2>2
<1>25. ASSUME NEW i \in DOMAIN subagents, SubagentEnds(i) PROVE OpenRoundInv'
  <2>1. PICK end \in {"done", "killed"} : DrainSubagents([subagents EXCEPT ![i].status = end])
    BY <1>25 DEF SubagentEnds
  <2> DEFINE subs == [subagents EXCEPT ![i].status = end]
  <2>2. subagents[i] \in SubAgent
    BY <1>1
  <2>3. [subagents[i] EXCEPT !.status = end] \in SubAgent
    BY <2>2 DEF SubAgent
  <2>4. subs \in Seq(SubAgent) /\ DOMAIN subs = DOMAIN subagents
    BY <1>1, <2>3
  <2>5. \A k \in DOMAIN subs : subs[k].call = subagents[k].call /\ subs[k].detached = subagents[k].detached
    BY <2>2 DEF SubAgent
  <2> HIDE DEF subs
  <2>6. DrainSubagents(subs)
    BY <2>1 DEF subs
  <2> QED
    BY <1>24, <2>4, <2>5, <2>6
<1>26. CASE RevisitSubagents
  BY <1>1, <1>24, <1>26 DEF RevisitSubagents
<1>27. CASE Resume \/ UNCHANGED vars
  BY <1>2, <1>27 DEF Resume, vars
<1>28. CASE Request
  BY <1>28, <1>3, <1>4, <1>5, <1>6, <1>14, <1>15, <1>16, <1>17, Zenon DEF Request
<1>29. CASE StreamEnds
  BY <1>29, <1>8, <1>9, <1>11, <1>12, <1>13, Zenon DEF StreamEnds
<1>30. CASE ProcessTools
  BY <1>30, <1>13, <1>14, <1>19, <1>20, <1>21, <1>22, Zenon DEF ProcessTools
<1>31. CASE Reports
  BY <1>31, <1>16, <1>23, <1>25, Zenon DEF Reports
<1> QED
  BY <1>3, <1>7, <1>26, <1>27, <1>28, <1>29, <1>30, <1>31, Zenon DEF Next

\* A round that is not streamed any more goes with its last call, with a refusal, or
\* with the turn the user cuts.
LEMMA RoundGoes ==
    ASSUME PhaseInv, WireInv, [Next]_vars, ~LateDeny,
           ~stream, pending_tool_calls /= <<>>, pending_tool_calls' = <<>>
    PROVE  \/ FinishToolRound
           \/ ~walking /\ (Interrupt \/ InterruptRewind)
           \/ ~walking /\ HaltRound(conversation, pending_tool_calls)
<1>1. waiting /\ ~(pending_tool_calls' = pending_tool_calls)
  BY DEF WireInv, CallsOfATurn
<1>2. ~Submit /\ ~SubmitRefused /\ ~Resend /\ ~Wakes
  BY <1>1 DEF Submit, SubmitRefused, Resend, Wakes, WakeForBash, WakeForSubagent, Wake, IsWorking
<1>3. ~Steer /\ ~Approve /\ ~SetMode /\ ~SetModeStops /\ ~Attach /\ ~StartTask
  BY <1>1 DEF Steer, Approve, SetMode, SetModeStops, Attach, StartTask
<1>4. \A i : /\ ~BackgroundSubagent(i) /\ ~BackgroundBash(i) /\ ~FoldTask(i) /\ ~BashExits(i) /\ ~DrainBash(i)
             /\ ~SubagentEnds(i)
  BY <1>1 DEF BackgroundSubagent, BackgroundBash, FoldTask, BashExits, DrainBash, SubagentEnds, DrainSubagents
<1>5. /\ \A work, verdict : ~DrainVerdict(work, verdict)
      /\ ~RevisitSubagents /\ ~Resume /\ ~(UNCHANGED vars)
  BY <1>1 DEF DrainVerdict, RevisitSubagents, DrainSubagents, Resume, vars
<1>6. /\ ~StreamToolCalls /\ ~StreamDone /\ ~StreamStalled /\ ~StreamError
      /\ \A calls : ~StreamDoneWithCalls(calls) /\ ~StreamDoneBlocked(calls)
  BY DEF StreamToolCalls, StreamDone, StreamStalled, StreamError, StreamDoneWithCalls, StreamDoneBlocked, Harvested
<1>7. ~StreamEnds /\ ~Reports
  BY <1>4, <1>5, <1>6, Zenon DEF StreamEnds, Reports
<1>8. ~WalkInline /\ ~WalkImage /\ ~WalkDeferred /\ ~WalkBash /\ ~WalkBackgroundBash /\ ~WalkTask /\ ~WalkBackgroundTask
  BY <1>1 DEF WalkInline, WalkImage, WalkDeferred, WalkBash, WalkBackgroundBash, WalkTask, WalkBackgroundTask
<1>9. ~WalkClassify /\ ~WalkRisky /\ ~WalkAsk /\ ~WalkRefuse /\ ~WalkPark
  BY <1>1 DEF WalkClassify, WalkRisky, WalkAsk, WalkRefuse, WalkPark
<1>10. ProcessTools => FinishToolRound
  BY <1>8, <1>9, Zenon DEF ProcessTools
<1>11. Request => Interrupt \/ InterruptRewind \/ Deny \/ ParkTimeout
  BY <1>2, <1>3, <1>4, Zenon DEF Request
<1>12. Interrupt \/ InterruptRewind => ~walking
  BY DEF Interrupt, InterruptRewind, Cut
<1>13. Deny \/ ParkTimeout => ~walking /\ HaltRound(conversation, pending_tool_calls)
  BY DEF Deny, ParkTimeout, Halt
<1> QED
  BY <1>2, <1>5, <1>6, <1>7, <1>10, <1>11, <1>12, <1>13, Zenon DEF Next

\* The calls of a round, by their number.
LEMMA RoundCalls ==
    ASSUME PhaseInv, AccountInv, NEW id \in IdsOf(pending_tool_calls)
    PROVE  \E k \in 1..Len(pending_tool_calls) : id = <<round, k>>
<1>1. PICK k \in DOMAIN pending_tool_calls : id = pending_tool_calls[k].id
  BY DEF IdsOf
<1>2. DOMAIN pending_tool_calls = 1..Len(pending_tool_calls) /\ id = <<round, k>>
  BY <1>1 DEF PhaseInv, TypeOK, AccountInv, Numbered
<1> QED
  BY <1>2

\* A walked call that nothing is awaited for has its answer among the collected ones.
LEMMA WalkedAnswered ==
    ASSUME PhaseInv, AccountInv, pending_tool_tasks = {}, pending_subagent_calls = {},
           NEW k \in 1..tool_idx
    PROVE  \E i \in DOMAIN Answers(tool_results) : <<round, k>> \in Answers(tool_results)[i].ids
<1>1. <<round, k>> \in WalkedIds
  BY RoundIds
<1>2. <<round, k>> \in AnsweredIds
  BY <1>1 DEF AccountInv, RoundAccounting
<1>3. PICK i \in DOMAIN tool_results : tool_results[i].id = <<round, k>>
  BY <1>2 DEF AnsweredIds
<1> QED
  BY <1>3, CollectedAnswers

\* The end of a round shows the model the answer of every call.
LEMMA FinishSeen ==
    ASSUME PhaseInv, AccountInv, RequestIsLast, FinishToolRound, pending_tool_calls /= <<>>
    PROVE  IdsOf(pending_tool_calls) \subseteq AnswersSeen(History(conversation'))
<1>1. /\ pending_tool_tasks = {} /\ pending_subagent_calls = {} /\ walking /\ tool_idx >= Len(pending_tool_calls)
      /\ conversation' = conversation \o (Answers(tool_results) \o Followups)
  BY DEF FinishToolRound, AtEnd, RoundFlush
<1>2. ~stream /\ tool_idx \in Nat /\ Len(pending_tool_calls) \in Nat
  BY <1>1 DEF PhaseInv, Phases, TypeOK
<1>3. Followups \in Seq(Message(Id))
  BY PlainOnes DEF Followups
<1>4. /\ Answers(tool_results) \in Seq(Message(Id))
      /\ \A k \in DOMAIN Answers(tool_results) : Answers(tool_results)[k].role = "tool"
  BY CollectedAnswers
<1>5. \A id \in IdsOf(pending_tool_calls) :
        \E k \in DOMAIN Answers(tool_results) : id \in Answers(tool_results)[k].ids
  <2> SUFFICES ASSUME NEW id \in IdsOf(pending_tool_calls)
               PROVE  \E k \in DOMAIN Answers(tool_results) : id \in Answers(tool_results)[k].ids
    OBVIOUS
  <2>1. PICK k \in 1..Len(pending_tool_calls) : id = <<round, k>>
    BY RoundCalls
  <2>2. k \in 1..tool_idx
    BY <1>1, <1>2
  <2> QED
    BY <1>1, <2>1, <2>2, WalkedAnswered
<1> QED
  BY <1>1, <1>2, <1>3, <1>4, <1>5, FlushSeen

\* So does a refusal, when no delegation is out: it answers the calls from the parked
\* one on itself.
LEMMA HaltSeen ==
    ASSUME PhaseInv, AccountInv, RequestIsLast, HaltRound(conversation, pending_tool_calls),
           pending_tool_calls /= <<>>, ~stream, pending_tool_tasks = {}, pending_subagent_calls = {}
    PROVE  IdsOf(pending_tool_calls) \subseteq AnswersSeen(History(conversation'))
<1> DEFINE done == Answers(tool_results)
           rest == Answers(Unanswered(pending_tool_calls))
<1>1. /\ done \in Seq(Message(Id)) /\ \A k \in DOMAIN done : done[k].role = "tool"
      /\ \A k \in 1..tool_idx : \E i \in DOMAIN done : <<round, k>> \in done[i].ids
  BY CollectedAnswers, WalkedAnswered
<1>2. /\ rest \in Seq(Message(Id)) /\ DOMAIN rest = 1..(Len(pending_tool_calls) - tool_idx)
      /\ \A k \in DOMAIN rest : rest[k].role = "tool" /\ rest[k].ids = {<<round, tool_idx + k>>}
  BY UnansweredAnswers
<1>3. conversation' = (conversation \o done) \o rest
  BY DEF HaltRound
<1> HIDE DEF done, rest
<1>4. conversation' = conversation \o ((done \o rest) \o <<>>) /\ <<>> \in Seq(Message(Id))
  <2>1. conversation \in Seq(Message(Id)) /\ done \in Seq(Message(Id)) /\ rest \in Seq(Message(Id))
    BY <1>1, <1>2 DEF PhaseInv, TypeOK
  <2> QED
    BY <1>3, <2>1
<1>5. done \o rest \in Seq(Message(Id))
  BY <1>1, <1>2, ConcatType
<1>6. \A i \in DOMAIN (done \o rest) : (done \o rest)[i].role = "tool"
  <2> SUFFICES ASSUME NEW i \in DOMAIN (done \o rest) PROVE (done \o rest)[i].role = "tool"
    OBVIOUS
  <2>1. done \in Seq(Message(Id)) /\ rest \in Seq(Message(Id))
    BY <1>1, <1>2
  <2>2. \/ i \in DOMAIN done /\ (done \o rest)[i] = done[i]
        \/ \E j \in DOMAIN rest : (done \o rest)[i] = rest[j]
    BY <2>1, ConcatMembers
  <2> QED
    BY <1>1, <1>2, <2>2
<1>7. /\ Len(done) \in Nat /\ Len(rest) \in Nat /\ DOMAIN done = 1..Len(done) /\ DOMAIN rest = 1..Len(rest)
      /\ DOMAIN (done \o rest) = 1..(Len(done) + Len(rest))
      /\ \A k \in 1..Len(done) : (done \o rest)[k] = done[k]
      /\ \A k \in 1..Len(rest) : (done \o rest)[k + Len(done)] = rest[k]
  BY <1>1, <1>2, ConcatFacts
<1>8. \A id \in IdsOf(pending_tool_calls) : \E i \in DOMAIN (done \o rest) : id \in (done \o rest)[i].ids
  <2> SUFFICES ASSUME NEW id \in IdsOf(pending_tool_calls)
               PROVE  \E i \in DOMAIN (done \o rest) : id \in (done \o rest)[i].ids
    OBVIOUS
  <2>1. PICK k \in 1..Len(pending_tool_calls) : id = <<round, k>>
    BY RoundCalls
  <2>2. tool_idx \in Nat /\ Len(pending_tool_calls) \in Nat /\ k \in Nat
    BY DEF PhaseInv, TypeOK
  <2>3. CASE k <= tool_idx
    <3>1. PICK i \in DOMAIN done : id \in done[i].ids
      BY <1>1, <2>1, <2>2, <2>3
    <3> QED
      BY <1>7, <3>1
  <2>4. CASE k > tool_idx
    <3>1. k - tool_idx \in DOMAIN rest /\ tool_idx + (k - tool_idx) = k
      BY <1>2, <2>2, <2>4
    <3>2. id \in rest[k - tool_idx].ids
      BY <1>2, <2>1, <3>1
    <3>3. (k - tool_idx) + Len(done) \in DOMAIN (done \o rest)
      BY <1>7, <3>1
    <3> QED
      BY <1>7, <3>1, <3>2, <3>3
  <2> QED
    BY <2>2, <2>3, <2>4
<1> QED
  BY <1>4, <1>5, <1>6, <1>8, FlushSeen

\* The open round's invariant.
LEMMA OpenRoundHolds ==
    ASSUME NativeIds, ~LateDeny, ~TaskCommand, "image" \notin Kinds
    PROVE  Spec => [](PhaseInv /\ AccountInv /\ WireInv /\ OpenRoundInv)
<1>1. Init => OpenRoundInv
  BY DEF Init, OpenRoundInv, RequestIsLast, NoUsersAgent
<1>2. PhaseInv /\ WireInv /\ OpenRoundInv /\ [Next]_vars => OpenRoundInv'
  BY OpenRoundStep
<1> QED
  BY <1>1, <1>2, WireHolds, PTL DEF Spec

\* The request that finish_tool_round starts carries the answer of every call of the
\* round, whatever parked it, went to the background or arrived out of order.
THEOREM ResultsReachModel ==
    ASSUME NativeIds, ~LateDeny, ~TaskCommand, "image" \notin Kinds
    PROVE  Spec => ModelSeesResults
<1>1. ASSUME PhaseInv, AccountInv, WireInv, OpenRoundInv, [Next]_vars
      PROVE  [walking /\ pending_tool_calls /= <<>> /\ pending_tool_calls' = <<>> =>
                IdsOf(pending_tool_calls) \subseteq AnswersSeen(History(conversation'))]_vars
  <2> SUFFICES ASSUME walking, pending_tool_calls /= <<>>, pending_tool_calls' = <<>>
               PROVE  IdsOf(pending_tool_calls) \subseteq AnswersSeen(History(conversation'))
    OBVIOUS
  <2>1. ~stream /\ RequestIsLast
    BY <1>1 DEF PhaseInv, Phases, OpenRoundInv
  <2>2. FinishToolRound
    BY <1>1, <2>1, RoundGoes
  <2> QED
    BY <1>1, <2>1, <2>2, FinishSeen
<1> QED
  BY <1>1, OpenRoundHolds, PTL DEF Spec, ModelSeesResults

\* No delegation is out when the model may call none.
LEMMA NoDelegation ==
    ASSUME ~LateDeny, "task" \notin Kinds
    PROVE  Spec => [](PhaseInv /\ pending_subagent_calls = {})
<1>1. ASSUME PhaseInv, pending_subagent_calls = {}, [Next]_vars PROVE (pending_subagent_calls = {})'
  <2>1. ~WalkTask
    BY <1>1, CurrentKind DEF WalkTask, AtCall
  <2>2. CASE Submit \/ SubmitRefused \/ Steer \/ Resend \/ Approve \/ SetMode \/ Attach \/ StartTask \/ Wakes
    BY <1>1, <2>2 DEF Submit, SubmitRefused, Steer, Resend, Approve, SetMode, Attach, StartTask,
                      Wakes, WakeForBash, WakeForSubagent, Wake
  <2>3. CASE Interrupt \/ InterruptRewind \/ SetModeStops
    BY <2>3 DEF Interrupt, InterruptRewind, SetModeStops, Cut, AbortSubagents
  <2>4. CASE Deny \/ ParkTimeout
    BY <2>4 DEF Deny, ParkTimeout, Halt, HaltRound, AbortSubagents
  <2>5. ASSUME NEW i, BackgroundSubagent(i) \/ BackgroundBash(i) \/ FoldTask(i) \/ BashExits(i) \/ DrainBash(i)
        PROVE  pending_subagent_calls' = {}
    BY <1>1, <2>5 DEF BackgroundSubagent, BackgroundBash, FoldTask, BashExits, DrainBash
  <2>6. ASSUME NEW subs, DrainSubagents(subs) PROVE pending_subagent_calls' = {}
    BY <1>1, <2>6 DEF DrainSubagents
  <2>7. CASE RevisitSubagents \/ \E i : SubagentEnds(i)
    BY <2>6, <2>7 DEF RevisitSubagents, SubagentEnds
  <2>8. ASSUME NEW calls, StreamDoneWithCalls(calls) \/ StreamDoneBlocked(calls)
        PROVE  pending_subagent_calls' = {}
    BY <1>1, <2>8 DEF StreamDoneWithCalls, StreamDoneBlocked, Halt, HaltRound, AbortSubagents
  <2>9. CASE StreamToolCalls \/ StreamDone \/ StreamStalled \/ StreamError
    BY <1>1, <2>9 DEF StreamToolCalls, StreamDone, StreamStalled, StreamError
  <2>10. CASE WalkInline \/ WalkImage \/ WalkDeferred \/ WalkBash \/ WalkBackgroundBash \/ WalkBackgroundTask
    BY <1>1, <2>10 DEF WalkInline, WalkImage, WalkDeferred, WalkBash, WalkBackgroundBash, WalkBackgroundTask
  <2>11. CASE WalkClassify \/ WalkRisky \/ WalkAsk \/ WalkRefuse \/ WalkPark \/ FinishToolRound
    BY <1>1, <2>11 DEF WalkClassify, WalkRisky, WalkAsk, WalkRefuse, WalkPark, FinishToolRound
  <2>12. ASSUME NEW work, NEW verdict, DrainVerdict(work, verdict) PROVE pending_subagent_calls' = {}
    BY <1>1, <2>12 DEF DrainVerdict
  <2>13. CASE Resume \/ UNCHANGED vars
    BY <1>1, <2>13 DEF Resume, vars
  <2>14. CASE Request
    BY <2>14, <2>2, <2>3, <2>4, <2>5, Zenon DEF Request
  <2>15. CASE StreamEnds
    BY <2>15, <2>8, <2>9, Zenon DEF StreamEnds
  <2>16. CASE ProcessTools
    BY <2>16, <2>1, <2>10, <2>11, Zenon DEF ProcessTools
  <2>17. CASE Reports
    BY <2>17, <2>5, <2>7, <2>12, Zenon DEF Reports
  <2> QED
    BY <1>1, <2>2, <2>7, <2>9, <2>13, <2>14, <2>15, <2>16, <2>17, Zenon DEF Next
<1>2. Init => pending_subagent_calls = {}
  BY DEF Init
<1>3. Spec => []PhaseInv
  BY PhasesHold
<1> QED
  BY <1>1, <1>2, <1>3, PTL DEF Spec

\* Denying a parked call, or its park timing out, leaves a request that carries the
\* whole round: what ran, what was refused and what was never reached.
THEOREM DenialsAnswerRound ==
    ASSUME NativeIds, ~LateDeny, ~TaskCommand, Kinds \cap {"image", "task"} = {}
    PROVE  Spec => DenialAnswersRound
<1>1. ASSUME PhaseInv, AccountInv, WireInv, OpenRoundInv, pending_subagent_calls = {}, [Next]_vars
      PROVE  [awaiting_approval /\ pending_tool_calls' = <<>> /\ Len(conversation') > Len(conversation) =>
                IdsOf(pending_tool_calls) \subseteq AnswersSeen(History(conversation'))]_vars
  <2> SUFFICES ASSUME awaiting_approval, pending_tool_calls' = <<>>, Len(conversation') > Len(conversation)
               PROVE  IdsOf(pending_tool_calls) \subseteq AnswersSeen(History(conversation'))
    OBVIOUS
  <2>1. /\ ~stream /\ ~walking /\ pending_tool_calls /= <<>> /\ pending_tool_tasks = {}
        /\ RequestIsLast /\ conversation \in Seq(Message(Id)) /\ Len(conversation) \in Nat
    <3>1. tool_idx < Len(pending_tool_calls) /\ tool_idx \in Nat
      BY <1>1 DEF PhaseInv, Phases, TypeOK
    <3>2. pending_tool_calls /= <<>>
      BY <3>1
    <3> QED
      BY <1>1, <3>2 DEF PhaseInv, TypeOK, Phases, AccountInv, TasksStopTheLoop, OpenRoundInv
  <2>2. ~FinishToolRound
    BY <2>1 DEF FinishToolRound, AtEnd
  <2>3. ~Interrupt
    <3> SUFFICES ASSUME Interrupt PROVE FALSE
      OBVIOUS
    <3>1. ~buffer
      BY <2>1 DEF RequestIsLast
    <3>2. conversation' = conversation \o <<>>
      BY <3>1 DEF Interrupt, KeepPartial
    <3> QED
      BY <2>1, <3>2
  <2>4. ~InterruptRewind
    <3> SUFFICES ASSUME InterruptRewind PROVE FALSE
      OBVIOUS
    <3>1. conversation' = BeforeLastUser(conversation)
      BY DEF InterruptRewind
    <3>2. \E I \in SUBSET DOMAIN conversation :
            conversation' = SubSeq(conversation, 1, Cardinality(I)) \/ UNCHANGED conversation
      BY <3>1 DEF BeforeLastUser
    <3>3. PICK I \in SUBSET DOMAIN conversation :
            conversation' = SubSeq(conversation, 1, Cardinality(I)) \/ UNCHANGED conversation
      BY <3>2
    <3>4. Cardinality(I) \in Nat /\ Cardinality(I) <= Len(conversation)
      BY <2>1, CountIndices
    <3>5. \A m \in Nat : Len(SubSeq(conversation, 1, m)) = m
      BY <2>1
    <3> QED
      BY <2>1, <3>3, <3>4, <3>5
  <2>5. HaltRound(conversation, pending_tool_calls)
    BY <1>1, <2>1, <2>2, <2>3, <2>4, RoundGoes
  <2> QED
    BY <1>1, <2>1, <2>5, HaltSeen
<1>2. Spec => [](PhaseInv /\ pending_subagent_calls = {})
  BY NoDelegation
<1>3. Spec => [](PhaseInv /\ AccountInv /\ WireInv /\ OpenRoundInv)
  BY OpenRoundHolds
<1> QED
  BY <1>1, <1>2, <1>3, PTL DEF Spec, DenialAnswersRound

====
