----------------------------- MODULE MissionProofs -----------------------------
(***************************************************************************)
(* Proofs about a mission, for any tasks, plans and agents, and whether    *)
(* saves fail or not.                                                      *)
(***************************************************************************)
EXTENDS MissionProperties, TLAPS

USE DEF session

States == {"absent", "pending", "active", "blocked", "done", "cancelled"}

Typed(g) == g \in [status : [Nodes -> States], parent : [Nodes -> Nodes \cup {NoNode}]]

\* No task is deeper than three levels.
Low(p) == \A n \in Nodes : p[n] # NoNode =>
            (p[p[n]] # NoNode => p[p[p[n]]] = NoNode)

\* A task that has a parent exists, and so does the parent.
Rooted(g) == \A n \in Nodes : g.parent[n] # NoNode =>
                g.status[n] # "absent" /\ g.status[g.parent[n]] # "absent"

\* NoFalseDone, of any graph.
Honest(g) == \A n \in Live(g) : g.status[n] = "done" =>
                \A k \in Children(g, n) : g.status[k] = "done"

Sound(g) == Typed(g) /\ Low(g.parent) /\ Rooted(g) /\ Honest(g)

-----------------------------------------------------------------------------
(* The operators on graphs.                                                *)

LEMMA MarkedIs ==
    ASSUME NEW g, Typed(g), NEW S \in SUBSET Nodes, NEW s \in States
    PROVE  /\ Typed(Marked(g, S, s)) /\ Marked(g, S, s).parent = g.parent
           /\ \A n \in Nodes : Marked(g, S, s).status[n] = IF n \in S THEN s ELSE g.status[n]
BY DEF Typed, Marked

\* Marking tasks that exist as ones that exist leaves the shape as it is.
LEMMA MarkedShape ==
    ASSUME NEW g, Typed(g), NEW S \in SUBSET Live(g), NEW s \in States \ {"absent", "cancelled"}
    PROVE  /\ Live(Marked(g, S, s)) = Live(g)
           /\ \A n : Children(Marked(g, S, s), n) = Children(g, n)
           /\ Rooted(g) => Rooted(Marked(g, S, s))
<1> DEFINE h == Marked(g, S, s)
<1>1. S \in SUBSET Nodes /\ s \in States
  BY DEF Live
<1>2. /\ h.parent = g.parent /\ Typed(h)
      /\ \A n \in Nodes : h.status[n] = IF n \in S THEN s ELSE g.status[n]
  BY <1>1, MarkedIs
<1> HIDE DEF h
<1>3. Live(h) = Live(g)
  BY <1>2 DEF Live
<1>4. \A n : Children(h, n) = Children(g, n)
  BY <1>2, <1>3 DEF Children
<1>5. Rooted(g) => Rooted(h)
  BY <1>2 DEF Rooted, Live, Typed
<1> QED
  BY <1>3, <1>4, <1>5 DEF h

LEMMA ShallowIsLow ==
    ASSUME NEW p \in [Nodes -> Nodes \cup {NoNode}], \A n \in Nodes : Shallow(p, n)
    PROVE  Low(p)
<1> SUFFICES ASSUME NEW n \in Nodes, p[n] # NoNode, p[p[n]] # NoNode, p[p[p[n]]] # NoNode
             PROVE  FALSE
  BY DEF Low
<1>1. p[n] \in Lift(p, {n})
  BY DEF Lift
<1>2. p[p[n]] \in Lift(p, Lift(p, {n}))
  BY <1>1 DEF Lift
<1>3. p[p[p[n]]] \in Lift(p, Lift(p, Lift(p, {n})))
  BY <1>2 DEF Lift
<1> QED
  BY <1>3 DEF Shallow

LEMMA StructureType == ASSUME NEW g, Typed(g) PROVE Structure(g) \in [Live(g) -> Nodes \cup {NoNode}]
BY DEF Typed, Structure, Live

\* One pass closes the parents whose children were done, and opens the others.
LEMMA RollPassIs ==
    ASSUME NEW g, Typed(g)
    PROVE  /\ Typed(RollPass(g)) /\ RollPass(g).parent = g.parent
           /\ Live(RollPass(g)) = Live(g)
           /\ \A n : Children(RollPass(g), n) = Children(g, n)
           /\ Rooted(g) => Rooted(RollPass(g))
           /\ \A n \in Nodes : n \notin Live(g) \/ Children(g, n) = {} =>
                RollPass(g).status[n] = g.status[n]
           /\ \A n \in Live(g) : Children(g, n) # {} =>
                (RollPass(g).status[n] = "done" <=> \A k \in Children(g, n) : g.status[k] = "done")
<1> DEFINE h == Marked(g, Finished(g), "done")
           i == Marked(h, Reopened(g), "active")
<1>1. /\ Finished(g) \in SUBSET Live(g) /\ Reopened(g) \in SUBSET Live(g)
      /\ Finished(g) \in SUBSET Nodes /\ Reopened(g) \in SUBSET Nodes
  BY DEF Finished, Reopened, Live
<1>1a. /\ "done" \in States /\ "active" \in States
       /\ "done" \in States \ {"absent", "cancelled"}
       /\ "active" \in States \ {"absent", "cancelled"}
  BY DEF States
<1>2. /\ Typed(h) /\ h.parent = g.parent
      /\ \A n \in Nodes : h.status[n] = IF n \in Finished(g) THEN "done" ELSE g.status[n]
  BY <1>1, <1>1a, MarkedIs
<1>3. /\ Live(h) = Live(g) /\ \A n : Children(h, n) = Children(g, n)
      /\ Rooted(g) => Rooted(h)
  BY <1>1, <1>1a, MarkedShape
<1> HIDE DEF h
<1>4. /\ Typed(i) /\ i.parent = g.parent
      /\ \A n \in Nodes : i.status[n] = IF n \in Reopened(g) THEN "active" ELSE h.status[n]
  BY <1>1, <1>1a, <1>2, MarkedIs
<1>5. /\ Live(i) = Live(g) /\ \A n : Children(i, n) = Children(g, n)
      /\ Rooted(g) => Rooted(i)
  BY <1>1, <1>1a, <1>2, <1>3, MarkedShape
<1> HIDE DEF i
<1>6. RollPass(g) = i
  BY DEF RollPass, h, i
<1>7. ASSUME NEW n \in Nodes, n \notin Live(g) \/ Children(g, n) = {}
      PROVE  i.status[n] = g.status[n]
  BY <1>7, <1>2, <1>4 DEF Finished, Reopened
<1>8. ASSUME NEW n \in Live(g), Children(g, n) # {}
      PROVE  i.status[n] = "done" <=> \A k \in Children(g, n) : g.status[k] = "done"
  <2>1. n \in Nodes
    BY DEF Live
  <2>2. CASE n \in Finished(g)
    BY <2>1, <2>2, <1>2, <1>4 DEF Finished, Reopened
  <2>3. CASE n \notin Finished(g)
    BY <2>1, <2>3, <1>8, <1>2, <1>4 DEF Finished, Reopened
  <2> QED
    BY <2>2, <2>3
<1> QED
  BY <1>4, <1>5, <1>6, <1>7, <1>8

\* With at most three levels, two passes make the graph honest.
LEMMA RolledIs ==
    ASSUME NEW g, Typed(g), Low(g.parent), Rooted(g)
    PROVE  /\ Sound(Rolled(g)) /\ Rolled(g).parent = g.parent /\ Live(Rolled(g)) = Live(g)
           /\ \A n : Children(Rolled(g), n) = Children(g, n)
           /\ \A n \in Nodes : n \notin Live(g) \/ Children(g, n) = {} =>
                Rolled(g).status[n] = g.status[n]
<1> DEFINE h == RollPass(g)
           i == RollPass(h)
<1>1. /\ Typed(h) /\ h.parent = g.parent /\ Live(h) = Live(g) /\ Rooted(h)
      /\ \A n : Children(h, n) = Children(g, n)
      /\ \A n \in Nodes : n \notin Live(g) \/ Children(g, n) = {} => h.status[n] = g.status[n]
      /\ \A n \in Live(g) : Children(g, n) # {} =>
            (h.status[n] = "done" <=> \A k \in Children(g, n) : g.status[k] = "done")
  BY RollPassIs
<1> HIDE DEF h
<1>2. /\ Typed(i) /\ i.parent = g.parent /\ Live(i) = Live(g) /\ Rooted(i)
      /\ \A n : Children(i, n) = Children(g, n)
      /\ \A n \in Nodes : n \notin Live(g) \/ Children(g, n) = {} => i.status[n] = h.status[n]
      /\ \A n \in Live(g) : Children(g, n) # {} =>
            (i.status[n] = "done" <=> \A k \in Children(g, n) : h.status[k] = "done")
  BY <1>1, RollPassIs
<1> HIDE DEF i
<1>3. Honest(i)
  <2> SUFFICES ASSUME NEW n \in Live(g), i.status[n] = "done", NEW k \in Children(g, n)
               PROVE  i.status[k] = "done"
    BY <1>2 DEF Honest
  <2>1. k \in Live(g) /\ k \in Nodes /\ g.parent[k] = n /\ n \in Nodes
    BY DEF Children, Live
  <2>2. h.status[k] = "done"
    BY <1>2
  <2>3. CASE Children(g, k) = {}
    BY <2>1, <2>2, <2>3, <1>2
  <2>4. CASE Children(g, k) # {}
    <3>1. ASSUME NEW j \in Children(g, k) PROVE Children(g, j) = {} /\ j \in Nodes
      <4>1. j \in Nodes /\ g.parent[j] = k
        BY DEF Children, Live
      <4>2. ASSUME NEW l \in Children(g, j) PROVE FALSE
        <5>1. l \in Nodes /\ g.parent[l] = j
          BY DEF Children, Live
        <5>2. n # NoNode /\ k # NoNode /\ j # NoNode
          BY <2>1, <4>1, MissionAssumption
        <5> QED
          BY <5>1, <5>2, <4>1, <2>1 DEF Low
      <4> QED
        BY <4>1, <4>2
    <3>2. \A j \in Children(g, k) : g.status[j] = "done"
      BY <1>1, <2>1, <2>2, <2>4
    <3>3. \A j \in Children(g, k) : h.status[j] = "done"
      BY <3>1, <3>2, <1>1
    <3> QED
      BY <3>3, <2>1, <2>4, <1>2
  <2> QED
    BY <2>3, <2>4
<1>4. Rolled(g) = i
  BY DEF Rolled, h, i
<1> QED
  BY <1>1, <1>2, <1>3, <1>4 DEF Sound

\* A task that is not done may start, block or stay as it is.
LEMMA OpenMarked ==
    ASSUME NEW g, Sound(g), NEW n \in Live(g), g.status[n] # "done",
           NEW s \in {"pending", "active", "blocked"}
    PROVE  /\ Sound(Marked(g, {n}, s)) /\ Marked(g, {n}, s).parent = g.parent
           /\ Live(Marked(g, {n}, s)) = Live(g)
           /\ \A m \in Nodes : Marked(g, {n}, s).status[m] = IF m = n THEN s ELSE g.status[m]
<1> DEFINE h == Marked(g, {n}, s)
<1>1. /\ {n} \in SUBSET Live(g) /\ {n} \in SUBSET Nodes /\ n \in Nodes
      /\ s \in States \ {"absent", "cancelled"} /\ s \in States /\ s # "done" /\ Typed(g)
  BY DEF Live, States, Sound
<1>2. /\ Typed(h) /\ h.parent = g.parent
      /\ \A m \in Nodes : h.status[m] = IF m = n THEN s ELSE g.status[m]
  BY <1>1, MarkedIs
<1>3. /\ Live(h) = Live(g) /\ \A m : Children(h, m) = Children(g, m)
      /\ Rooted(h)
  BY <1>1, MarkedShape DEF Sound
<1> HIDE DEF h
<1>4. Honest(h)
  <2> SUFFICES ASSUME NEW m \in Live(g), h.status[m] = "done", NEW k \in Children(g, m)
               PROVE  h.status[k] = "done"
    BY <1>3 DEF Honest
  <2>1. m \in Nodes /\ k \in Nodes /\ m # n
    BY <1>1, <1>2 DEF Live, Children
  <2>2. g.status[k] = "done"
    BY <2>1, <1>2 DEF Sound, Honest
  <2> QED
    BY <2>1, <2>2, <1>2
<1>5. Sound(h)
  BY <1>2, <1>3, <1>4 DEF Sound
<1> QED
  BY <1>2, <1>3, <1>5 DEF h

LEMMA ParentsType ==
    ASSUME NEW g, Typed(g), NEW plan, NEW status, CanReplace(g, plan, status),
           DOMAIN plan \subseteq Nodes
    PROVE  /\ Parents(g, plan) \in [Nodes -> Nodes \cup {NoNode}]
           /\ \A n \in DOMAIN plan : plan[n] \in DOMAIN plan \cup {NoNode}
BY DEF Typed, CanReplace, Parents

\* Whatever is listed, the graph that replaces another is sound, and the leaves
\* of it that are done were done.
LEMMA ReplacedIs ==
    ASSUME NEW g, Typed(g), Rooted(g), NEW plan, DOMAIN plan \subseteq Nodes,
           NEW status, \A n \in DOMAIN plan : status[n] \in States \ {"absent"},
           CanReplace(g, plan, status)
    PROVE  /\ Sound(Replaced(g, plan, status))
           /\ \A n \in Nodes : /\ Replaced(g, plan, status).status[n] = "done"
                               /\ Children(Replaced(g, plan, status), n) = {}
                               => g.status[n] = "done"
<1> DEFINE f == [n \in Nodes |->
                    IF n \in DOMAIN plan THEN status[n]
                    ELSE IF g.status[n] \in {"pending", "active", "blocked"} THEN "cancelled"
                    ELSE g.status[n]]
           p == Parents(g, plan)
           h == [parent |-> p, status |-> f]
<1>1. f \in [Nodes -> States]
  BY DEF Typed, States
<1>2. p \in [Nodes -> Nodes \cup {NoNode}]
  BY ParentsType
<1>3. Typed(h)
  BY <1>1, <1>2 DEF Typed
<1>4. Low(h.parent)
  BY <1>2, ShallowIsLow DEF CanReplace
<1>5. ASSUME NEW n \in Nodes, g.status[n] # "absent" \/ n \in DOMAIN plan
      PROVE  f[n] # "absent"
  BY <1>5
<1>6. Rooted(h)
  <2> SUFFICES ASSUME NEW n \in Nodes, p[n] # NoNode PROVE f[n] # "absent" /\ f[p[n]] # "absent"
    BY DEF Rooted
  <2>1. CASE n \in DOMAIN plan /\ plan[n] # NoNode
    <3>1. p[n] = plan[n] /\ plan[n] \in DOMAIN plan /\ plan[n] \in Nodes
      BY <2>1, ParentsType DEF Parents
    <3> QED
      BY <3>1, <2>1, <1>5
  <2>2. CASE ~(n \in DOMAIN plan /\ plan[n] # NoNode)
    <3>1. p[n] = g.parent[n] /\ p[n] \in Nodes
      BY <2>2, <1>2 DEF Parents
    <3>2. g.status[n] # "absent" /\ g.status[p[n]] # "absent"
      BY <3>1 DEF Rooted
    <3> QED
      BY <3>1, <3>2, <1>5
  <2> QED
    BY <2>1, <2>2
<1>7. Replaced(g, plan, status) = Rolled(h)
  BY DEF Replaced
<1>8. \A n \in Nodes : f[n] = "done" => g.status[n] = "done"
  BY DEF CanReplace
<1>9. h.status = f
  OBVIOUS
<1> HIDE DEF h, f, p
<1>10. /\ Sound(Rolled(h))
       /\ \A n : Children(Rolled(h), n) = Children(h, n)
       /\ \A n \in Nodes : n \notin Live(h) \/ Children(h, n) = {} =>
            Rolled(h).status[n] = h.status[n]
  BY <1>3, <1>4, <1>6, RolledIs
<1> QED
  BY <1>7, <1>8, <1>9, <1>10

\* A snapshot that is written back, if it is.
LEMMA RestoredIs ==
    ASSUME NEW g, Sound(g), NEW old, Typed(old)
    PROVE  Sound(Restored(g, old))
<1> DEFINE listed == Structure(old)
<1>1. DOMAIN listed = Live(old) /\ DOMAIN listed \subseteq Nodes
  BY DEF Structure, Live
<1>2. \A n \in DOMAIN listed : old.status[n] \in States \ {"absent"}
  BY <1>1 DEF Typed, Live
<1> HIDE DEF listed
<1>3. CanReplace(g, listed, old.status) => Sound(Replaced(g, listed, old.status))
  BY <1>1, <1>2, ReplacedIs DEF Sound
<1> QED
  BY <1>3 DEF Restored, listed

\* A failed check reopens the task and all above it.
LEMMA ReopenedIs ==
    ASSUME NEW g, Sound(g), NEW n \in Leaves(g)
    PROVE  Sound(Marked(g, {n} \cup (Ancestors(g.parent, n) \cap Live(g)), "active"))
<1> DEFINE p == g.parent
           S == {n} \cup (Ancestors(p, n) \cap Live(g))
           h == Marked(g, S, "active")
<1>1. /\ S \in SUBSET Live(g) /\ S \in SUBSET Nodes /\ n \in Nodes /\ Typed(g)
      /\ "active" \in States /\ "active" \in States \ {"absent", "cancelled"}
  BY DEF Leaves, Live, Sound, States
<1> HIDE DEF S
<1>2. /\ Typed(h) /\ h.parent = p
      /\ \A m \in Nodes : h.status[m] = IF m \in S THEN "active" ELSE g.status[m]
  BY <1>1, MarkedIs
<1>3. /\ Live(h) = Live(g) /\ \A m : Children(h, m) = Children(g, m)
      /\ Rooted(h)
  BY <1>1, MarkedShape DEF Sound
<1>4. ASSUME NEW m \in Live(g), NEW k \in Children(g, m), k \in S PROVE m \in S
  <2>1. p[k] = m /\ m # NoNode /\ m \in Nodes /\ k \in Nodes
    BY MissionAssumption DEF Children, Live
  <2>2. CASE k = n
    <3>1. m \in Lift(p, {n})
      BY <2>1, <2>2 DEF Lift
    <3> QED
      BY <3>1 DEF Ancestors, S
  <2>3. CASE k \in Lift(p, {n})
    <3>1. m \in Lift(p, Lift(p, {n}))
      BY <2>1, <2>3 DEF Lift
    <3> QED
      BY <3>1 DEF Ancestors, S
  <2>4. CASE k \in Lift(p, Lift(p, {n}))
    <3>1. k = p[p[n]] /\ p[n] # NoNode /\ k # NoNode
      BY <2>4 DEF Lift
    <3> QED
      BY <3>1, <2>1, <1>1 DEF Sound, Low
  <2> QED
    BY <1>4, <2>2, <2>3, <2>4 DEF Ancestors, S
<1> HIDE DEF h
<1>5. Honest(h)
  <2> SUFFICES ASSUME NEW m \in Live(g), h.status[m] = "done", NEW k \in Children(g, m)
               PROVE  h.status[k] = "done"
    BY <1>3 DEF Honest
  <2>1. m \in Nodes /\ k \in Nodes
    BY DEF Live, Children
  <2>2. m \notin S /\ k \notin S
    BY <2>1, <1>2, <1>4
  <2> QED
    BY <2>1, <2>2, <1>2 DEF Sound, Honest
<1> QED
  BY <1>2, <1>3, <1>5 DEF Sound, h, S

\* A task that an agent has split has a new child.
LEMMA SplitIs ==
    ASSUME NEW g, Sound(g), NEW n \in ActiveLeaves(g), Kid[n] # NoNode,
           g.status[Kid[n]] = "absent", Lift(g.parent, Lift(g.parent, {n})) = {}
    PROVE  Sound([Marked(g, {Kid[n]}, "pending") EXCEPT !.parent[Kid[n]] = n])
<1> DEFINE c == Kid[n]
           h == [Marked(g, {c}, "pending") EXCEPT !.parent[c] = n]
<1>1. /\ n \in Nodes /\ n \in Live(g) /\ g.status[n] = "active" /\ c \in Nodes /\ c # n
      /\ NoNode \notin Nodes /\ Typed(g)
  BY MissionAssumption DEF ActiveLeaves, Leaves, Live, Sound
<1>2. /\ Typed(Marked(g, {c}, "pending")) /\ Marked(g, {c}, "pending").parent = g.parent
      /\ \A m \in Nodes : Marked(g, {c}, "pending").status[m] =
            IF m \in {c} THEN "pending" ELSE g.status[m]
  BY <1>1, MarkedIs DEF States
<1>3. /\ Typed(h)
      /\ h.parent = [g.parent EXCEPT ![c] = n]
      /\ \A m \in Nodes : h.status[m] = IF m = c THEN "pending" ELSE g.status[m]
  BY <1>1, <1>2 DEF Typed
<1> HIDE DEF h
<1>4. \A m \in Nodes : h.parent[m] = IF m = c THEN n ELSE g.parent[m]
  BY <1>1, <1>3 DEF Typed
<1>5. \A m \in Nodes : g.parent[m] # c
  BY <1>1 DEF Sound, Rooted
<1>6. g.parent[n] # NoNode => g.parent[g.parent[n]] = NoNode
  BY DEF Lift
<1>7. \A m \in Nodes : g.parent[m] \in Nodes \cup {NoNode}
  BY <1>1 DEF Typed
<1>8. Low(h.parent)
  BY <1>1, <1>4, <1>5, <1>6, <1>7 DEF Sound, Low
<1>9. Rooted(h)
  BY <1>1, <1>3, <1>4, <1>7 DEF Sound, Rooted
<1>10. Honest(h)
  <2> SUFFICES ASSUME NEW m \in Live(h), h.status[m] = "done", NEW k \in Children(h, m)
               PROVE  h.status[k] = "done"
    BY DEF Honest
  <2>1. m \in Nodes /\ k \in Nodes /\ k \in Live(h) /\ h.parent[k] = m
    BY DEF Live, Children
  <2>2. m # c /\ m # n
    BY <2>1, <1>1, <1>3
  <2>3. k # c
    BY <2>1, <2>2, <1>4
  <2>4. m \in Live(g) /\ k \in Children(g, m)
    BY <2>1, <2>2, <2>3, <1>3, <1>4 DEF Live, Children
  <2>5. g.status[m] = "done"
    BY <2>1, <2>2, <1>3
  <2>6. g.status[k] = "done"
    BY <2>4, <2>5 DEF Sound, Honest
  <2> QED
    BY <2>1, <2>3, <2>6, <1>3
<1> QED
  BY <1>3, <1>8, <1>9, <1>10 DEF Sound, h

\* The first leaf is claimed.
LEMMA ClaimedIs ==
    ASSUME NEW g, Sound(g), AutoClaim(g)
    PROVE  Sound(graph') /\ \A n \in Nodes : graph'.status[n] = "done" => g.status[n] = "done"
<1>1. CASE \E n \in IF ActiveLeaves(g) # {} THEN ActiveLeaves(g) ELSE Waiting(g) :
            graph' = Marked(g, {n}, "active")
  <2>1. PICK n \in ActiveLeaves(g) \cup Waiting(g) : graph' = Marked(g, {n}, "active")
    BY <1>1
  <2>2. n \in Live(g) /\ g.status[n] # "done"
    BY DEF ActiveLeaves, Waiting, Leaves
  <2>3. /\ Sound(Marked(g, {n}, "active"))
        /\ \A m \in Nodes : Marked(g, {n}, "active").status[m] =
                IF m = n THEN "active" ELSE g.status[m]
    BY <2>2, OpenMarked
  <2> QED
    BY <2>1, <2>3
<1>2. CASE graph' = g
  BY <1>2
<1> QED
  BY <1>1, <1>2 DEF AutoClaim

-----------------------------------------------------------------------------
(* The graph of a mission.                                                 *)

\* What SealIsEarned asks of a step.
Earned ==
    \A n \in Nodes : graph.status[n] # "done" /\ graph'.status[n] = "done" =>
        \/ Children(graph', n) # {} /\ \A k \in Children(graph', n) : graph'.status[k] = "done"
        \/ Active(mission) /\ BindingLive /\ phase \in {"execute", "integrate"}
        \/ Ready /\ parked' = NotParked

\* In a sound graph only leaves need to be looked at.
LEMMA LeavesEarn ==
    ASSUME Sound(graph'),
           \A n \in Nodes : Children(graph', n) = {} /\ graph'.status[n] = "done" =>
                graph.status[n] = "done"
    PROVE  Earned
BY DEF Earned, Sound, Honest, Live

LEMMA SoundInit == Init => Sound(graph)
BY DEF Init, Sound, Typed, States, Low, Rooted, Honest, Live

LEMMA ReadyGraph == ASSUME Sound(graph), Ready PROVE Sound(graph') /\ Earned
<1> DEFINE fresh == [n \in Nodes |-> "pending"]
<1>1. PICK plan \in Plans :
        /\ CanReplace(graph, plan, fresh)
        /\ \/ graph' = Replaced(graph, plan, fresh)
           \/ /\ graph' = Restored(Replaced(graph, plan, fresh), graph)
              /\ parked' = parked
        /\ parked = NotParked
  BY DEF Ready, Calls
<1>2. /\ DOMAIN plan \subseteq Nodes
      /\ \A n \in DOMAIN plan : fresh[n] \in States \ {"absent"}
  BY MissionAssumption DEF States
<1>3. /\ Sound(Replaced(graph, plan, fresh))
      /\ \A n \in Nodes : /\ Replaced(graph, plan, fresh).status[n] = "done"
                          /\ Children(Replaced(graph, plan, fresh), n) = {}
                          => graph.status[n] = "done"
  BY <1>1, <1>2, ReplacedIs DEF Sound
<1>4. CASE graph' = Replaced(graph, plan, fresh)
  BY <1>3, <1>4, LeavesEarn
<1>5. CASE graph' = Restored(Replaced(graph, plan, fresh), graph) /\ parked' = parked
  <2>1. Sound(graph')
    BY <1>3, <1>5, RestoredIs DEF Sound
  <2>2. Earned
    BY <1>1, <1>5 DEF Earned
  <2> QED
    BY <2>1, <2>2
<1> QED
  BY <1>1, <1>4, <1>5

LEMMA ChecklistGraph == ASSUME Sound(graph), Checklist PROVE Sound(graph') /\ Earned
<1>1. PICK listed \in [Live(graph) -> Statuses] :
        /\ MaySet(listed)
        /\ graph' = Rolled([graph EXCEPT !.status =
                [n \in Nodes |-> IF n \in Live(graph) THEN listed[n] ELSE @[n]]])
  BY DEF Checklist
<1> DEFINE f == [n \in Nodes |-> IF n \in Live(graph) THEN listed[n] ELSE graph.status[n]]
           g == [graph EXCEPT !.status = f]
<1>2. f \in [Nodes -> States] /\ \A n \in Live(graph) : f[n] \in Statuses
  BY DEF Sound, Typed, States, Statuses, Live
<1>3. Typed(g) /\ g.parent = graph.parent /\ g.status = f
  BY <1>2 DEF Sound, Typed
<1>4. graph' = Rolled(g)
  BY <1>1 DEF Sound, Typed
<1>5. \A n \in Nodes : (f[n] = "absent" => graph.status[n] = "absent")
                       /\ (f[n] = "done" => graph.status[n] = "done")
  BY <1>1 DEF MaySet, Live, Statuses
<1> HIDE DEF g, f
<1>6. Rooted(g)
  BY <1>3, <1>5 DEF Sound, Rooted, Typed
<1>7. Low(g.parent)
  BY <1>3 DEF Sound
<1>8. /\ Sound(graph')
      /\ \A n : Children(graph', n) = Children(g, n)
      /\ \A n \in Nodes : Children(g, n) = {} => graph'.status[n] = g.status[n]
  BY <1>3, <1>4, <1>6, <1>7, RolledIs
<1> QED
  BY <1>3, <1>5, <1>8, LeavesEarn

LEMMA DraftGraph == ASSUME Sound(graph), DraftChecklist PROVE Sound(graph') /\ Earned
<1>1. PICK plan \in Plans : \E listed \in [DOMAIN plan -> Statuses] :
        CanReplace(graph, plan, listed) /\ graph' = Replaced(graph, plan, listed)
  BY DEF DraftChecklist
<1>2. PICK listed \in [DOMAIN plan -> Statuses] :
        CanReplace(graph, plan, listed) /\ graph' = Replaced(graph, plan, listed)
  BY <1>1
<1>3. DOMAIN plan \subseteq Nodes /\ \A n \in DOMAIN plan : listed[n] \in States \ {"absent"}
  BY MissionAssumption DEF States, Statuses
<1> QED
  BY <1>2, <1>3, ReplacedIs, LeavesEarn DEF Sound

LEMMA VerifyGraph == ASSUME Sound(graph), Verify PROVE Sound(graph') /\ Earned
<1>1. Active(mission) /\ BindingLive /\ phase \in {"execute", "integrate"}
  BY DEF Verify
<1>2. Earned
  BY <1>1 DEF Earned
<1>3. PICK n \in Leaves(graph) :
        \/ AutoClaim(Rolled(Marked(graph, {n}, "done")))
        \/ graph' = Marked(graph, {n} \cup (Ancestors(graph.parent, n) \cap Live(graph)), "active")
  BY DEF Verify
<1>4. CASE AutoClaim(Rolled(Marked(graph, {n}, "done")))
  <2> DEFINE g == Marked(graph, {n}, "done")
  <2>1. /\ {n} \in SUBSET Live(graph) /\ {n} \in SUBSET Nodes /\ Typed(graph)
        /\ "done" \in States /\ "done" \in States \ {"absent", "cancelled"}
    BY DEF Leaves, Live, Sound, States
  <2>2. Typed(g) /\ g.parent = graph.parent
    BY <2>1, MarkedIs
  <2>3. Rooted(g)
    BY <2>1, MarkedShape DEF Sound
  <2>4. Low(g.parent)
    BY <2>2 DEF Sound
  <2> HIDE DEF g
  <2>5. Sound(Rolled(g))
    BY <2>2, <2>3, <2>4, RolledIs
  <2>6. AutoClaim(Rolled(g))
    BY <1>4 DEF g
  <2>7. Sound(graph')
    BY <2>5, <2>6, ClaimedIs
  <2> QED
    BY <1>2, <2>7
<1>5. CASE graph' = Marked(graph, {n} \cup (Ancestors(graph.parent, n) \cap Live(graph)), "active")
  BY <1>2, <1>5, ReopenedIs
<1> QED
  BY <1>3, <1>4, <1>5

LEMMA ApproveGraph == ASSUME Sound(graph), Approve PROVE Sound(graph') /\ Earned
<1>1. AutoClaim(graph) \/ graph' = graph
  BY DEF Approve
<1>2. Sound(graph') /\ \A n \in Nodes : graph'.status[n] = "done" => graph.status[n] = "done"
  BY <1>1, ClaimedIs
<1> QED
  BY <1>2, LeavesEarn

LEMMA DelegateGraph == ASSUME Sound(graph), Delegate PROVE Sound(graph') /\ Earned
<1>1. PICK n \in Waiting(graph) : graph' = Marked(graph, {n}, "active")
  BY DEF Delegate
<1>2. n \in Live(graph) /\ graph.status[n] # "done"
  BY DEF Waiting, Leaves
<1>3. /\ Sound(Marked(graph, {n}, "active"))
      /\ \A m \in Nodes : Marked(graph, {n}, "active").status[m] =
            IF m = n THEN "active" ELSE graph.status[m]
  BY <1>2, OpenMarked
<1> QED
  BY <1>1, <1>3, LeavesEarn

LEMMA HandoffGraph == ASSUME Sound(graph), Handoff PROVE Sound(graph') /\ Earned
<1>1. PICK n \in ActiveLeaves(graph) :
        \/ graph' = Marked(graph, {n}, "blocked")
        \/ /\ Kid[n] # NoNode /\ graph.status[Kid[n]] = "absent"
           /\ Lift(graph.parent, Lift(graph.parent, {n})) = {}
           /\ graph' = [Marked(graph, {Kid[n]}, "pending") EXCEPT !.parent[Kid[n]] = n]
  BY DEF Handoff
<1>2. n \in Live(graph) /\ graph.status[n] # "done"
  BY DEF ActiveLeaves, Leaves
<1>3. CASE graph' = Marked(graph, {n}, "blocked")
  <2>1. /\ Sound(Marked(graph, {n}, "blocked"))
        /\ \A m \in Nodes : Marked(graph, {n}, "blocked").status[m] =
                IF m = n THEN "blocked" ELSE graph.status[m]
    BY <1>2, OpenMarked
  <2> QED
    BY <1>3, <2>1, LeavesEarn
<1>4. CASE /\ Kid[n] # NoNode /\ graph.status[Kid[n]] = "absent"
           /\ Lift(graph.parent, Lift(graph.parent, {n})) = {}
           /\ graph' = [Marked(graph, {Kid[n]}, "pending") EXCEPT !.parent[Kid[n]] = n]
  <2>1. Sound(graph')
    BY <1>4, SplitIs
  <2>2. Kid[n] \in Nodes /\ Typed(graph)
    BY <1>2, <1>4, MissionAssumption DEF Live, Sound
  <2>3. /\ Typed(Marked(graph, {Kid[n]}, "pending"))
        /\ \A m \in Nodes : Marked(graph, {Kid[n]}, "pending").status[m] =
                IF m \in {Kid[n]} THEN "pending" ELSE graph.status[m]
    BY <2>2, MarkedIs DEF States
  <2>4. \A m \in Nodes : graph'.status[m] = IF m \in {Kid[n]} THEN "pending" ELSE graph.status[m]
    BY <1>4, <2>3 DEF Typed
  <2> QED
    BY <2>1, <2>4, LeavesEarn
<1> QED
  BY <1>1, <1>3, <1>4

\* Every step leaves the graph sound, and what it seals is earned.
LEMMA GraphStep == ASSUME Sound(graph), [Next]_vars PROVE Sound(graph') /\ Earned
<1>1. CASE graph' = graph
  BY <1>1, LeavesEarn
<1>2. CASE Ready \/ Checklist \/ DraftChecklist \/ Verify \/ Approve \/ Delegate \/ Handoff
  BY <1>2, ReadyGraph, ChecklistGraph, DraftGraph, VerifyGraph, ApproveGraph, DelegateGraph,
     HandoffGraph
<1>3. CASE Deny \/ Interrupt \/ Prepare \/ Integrate \/ Clear \/ Spawn \/ AgentEnds
  BY <1>1, <1>3 DEF Deny, Interrupt, Prepare, Integrate, Clear, Spawn, AgentEnds
<1>4. CASE EnterSdlc \/ LeaveSdlc \/ LoseWorktree \/ Restart \/ CrashInApprove
  BY <1>1, <1>4 DEF EnterSdlc, LeaveSdlc, LoseWorktree, Restart, CrashInApprove
<1>5. CASE UNCHANGED vars
  BY <1>1, <1>5 DEF vars
<1> QED
  BY <1>2, <1>3, <1>4, <1>5 DEF Next

-----------------------------------------------------------------------------
(* The contract.                                                           *)

Phases == {"none", "assess", "prepare", "execute", "integrate", "done", "paused"}
Structures == UNION {[S -> Nodes \cup {NoNode}] : S \in SUBSET Nodes}
Contracts == [approved : BOOLEAN, needs : BOOLEAN, phase : Phases,
              hash : Structures \cup {NotParked, Fingerprint}, bound : BOOLEAN]

\* Whoever works does so under the contract on disk, whatever is approved there
\* has the structure approved last, and what waits for the user's decision is
\* not approved and is what he is shown.
ContractInv ==
    /\ mission \in Contracts
    /\ parked \in Structures \cup {NotParked}
    /\ phase \in Working =>
        mission.approved /\ ~mission.needs /\ mission.bound /\ mission.phase = phase
    /\ mission.approved => mission.hash \in {blessed, Fingerprint}
    /\ parked # NotParked => ~mission.approved /\ mission.hash \in {parked, Fingerprint}

LEMMA ContractInit == Init => ContractInv
BY DEF Init, ContractInv, Contracts, Phases, Working

LEMMA StructureIs == ASSUME NEW g, Typed(g) PROVE Structure(g) \in Structures
<1>1. Live(g) \in SUBSET Nodes
  BY DEF Live
<1> QED
  BY <1>1, StructureType DEF Structures

LEMMA ReadyContract == ASSUME ContractInv, Sound(graph), Ready PROVE ContractInv'
<1> DEFINE fresh == [n \in Nodes |-> "pending"]
<1>1. PICK plan \in Plans :
        LET g     == Replaced(graph, plan, fresh)
            draft == [approved |-> FALSE, needs |-> Amending \/ mission.needs,
                      phase |-> "assess", hash |-> Structure(g), bound |-> FALSE]
        IN  /\ CanReplace(graph, plan, fresh)
            /\ \/ mission' = draft /\ StopWork /\ parked' = Structure(g)
               \/ mission' = draft /\ StopWork /\ UNCHANGED parked
               \/ UNCHANGED <<mission, phase, parked>>
  BY DEF Ready
<1> DEFINE g     == Replaced(graph, plan, fresh)
           draft == [approved |-> FALSE, needs |-> Amending \/ mission.needs,
                     phase |-> "assess", hash |-> Structure(g), bound |-> FALSE]
<1>2. parked = NotParked /\ UNCHANGED blessed
  BY DEF Ready, Calls
<1>3. /\ DOMAIN plan \subseteq Nodes
      /\ \A n \in DOMAIN plan : fresh[n] \in States \ {"absent"}
  BY MissionAssumption DEF States
<1>4. Sound(g)
  BY <1>1, <1>3, ReplacedIs DEF Sound
<1> HIDE DEF g
<1>5. Structure(g) \in Structures
  BY <1>4, StructureIs DEF Sound
<1>6. draft \in Contracts
  BY <1>5 DEF Contracts, Phases, Amending, ContractInv
<1>7. CASE mission' = draft /\ StopWork /\ parked' \in {Structure(g), parked}
  BY <1>2, <1>5, <1>6, <1>7 DEF ContractInv, StopWork, Working
<1>8. CASE UNCHANGED <<mission, phase, parked>>
  BY <1>2, <1>8 DEF ContractInv
<1> QED
  BY <1>1, <1>7, <1>8 DEF g

\* Every other step.
LEMMA ContractStep == ASSUME ContractInv, Sound(graph), [Next]_vars PROVE ContractInv'
<1> USE DEF ContractInv, Contracts, Phases, Working
<1>1. CASE Ready
  BY <1>1, ReadyContract
<1>2. CASE Approve
  BY <1>2 DEF Approve, StopWork, Unbound, Unapproved
<1>3. CASE Deny
  BY <1>3 DEF Deny, StopWork
<1>4. CASE Interrupt
  BY <1>4 DEF Interrupt
<1>5. CASE Checklist
  BY <1>5 DEF Checklist
<1>6. CASE DraftChecklist \/ UNCHANGED vars
  BY <1>6 DEF DraftChecklist, vars
<1>7. CASE Verify
  BY <1>7 DEF Verify
<1>8. CASE Prepare
  BY <1>8 DEF Prepare, Resumable
<1>9. CASE Integrate
  BY <1>9 DEF Integrate, IntegrateGate, Active
<1>10. CASE Clear
  BY <1>10 DEF Clear, Unbound, Unapproved
<1>11. CASE Delegate
  BY <1>11 DEF Delegate
<1>12. CASE Spawn \/ AgentEnds \/ LoseWorktree
  BY <1>12 DEF Spawn, AgentEnds, LoseWorktree
<1>13. CASE Handoff
  BY <1>13 DEF Handoff
<1>14. CASE EnterSdlc
  BY <1>14 DEF EnterSdlc, Resume, Resumable, Unapproved
<1>15. CASE LeaveSdlc
  BY <1>15 DEF LeaveSdlc, Unbound, Unapproved
<1>16. CASE Restart
  BY <1>16 DEF Restart, Resume, Resumable, Unapproved
<1>17. CASE CrashInApprove
  BY <1>17 DEF CrashInApprove
<1> QED
  BY <1>1, <1>2, <1>3, <1>4, <1>5, <1>6, <1>7, <1>8, <1>9, <1>10, <1>11, <1>12, <1>13, <1>14,
     <1>15, <1>16, <1>17 DEF Next

-----------------------------------------------------------------------------
(* The theorems.                                                           *)

\* The graph is sound and the contract as it should be, in every state.
LEMMA MissionInvariant == Spec => [](Sound(graph) /\ ContractInv)
<1>1. Init => Sound(graph) /\ ContractInv
  BY SoundInit, ContractInit
<1>2. Sound(graph) /\ ContractInv /\ [Next]_vars => (Sound(graph) /\ ContractInv)'
  BY GraphStep, ContractStep
<1> QED
  BY <1>1, <1>2, PTL DEF Spec

\* No task is done while a child of it is not, for any tasks and plans
\* (rollup_parents_in_tx).
THEOREM NothingFalselyDone == Spec => []NoFalseDone
<1>1. Sound(graph) => NoFalseDone
  BY DEF Sound, Honest, NoFalseDone
<1> QED
  BY <1>1, MissionInvariant, PTL

\* A session that executes does so under an approved contract on disk and its
\* structure (apply_sdlc_phase).
THEOREM ExecutesApprovedAlways == Spec => []ExecutesApproved
<1>1. ContractInv => ExecutesApproved
  BY DEF ContractInv, ExecutesApproved, Active, Contracts, Working
<1> QED
  BY <1>1, MissionInvariant, PTL

\* Only verification seals (graph.rs, set_verify_bit_with_evidence).
THEOREM SealAlwaysEarned == Spec => SealIsEarned
<1>1. Sound(graph) /\ [Next]_vars =>
        [\A n \in Nodes : graph.status[n] # "done" /\ graph'.status[n] = "done" =>
            \/ Children(graph', n) # {} /\ \A k \in Children(graph', n) : graph'.status[k] = "done"
            \/ Active(mission) /\ BindingLive /\ phase \in {"execute", "integrate"}
            \/ Ready /\ parked' = NotParked]_vars
  BY GraphStep DEF Earned
<1> QED
  BY <1>1, MissionInvariant, PTL DEF Spec, SealIsEarned

\* A mission is done only with what the user approved, all of it verified
\* (integrate_gate).
THEOREM ShippedAlwaysApproved == Spec => ShippedAsApproved
<1>1. ASSUME Sound(graph), ContractInv, [Next]_vars, mission.phase # "done",
             mission'.phase = "done"
      PROVE  Structure(graph) = blessed /\ AllVerified(graph) /\ inside
  <2> USE DEF ContractInv, Contracts, Phases, Working
  <2>1. CASE Integrate
    <3>1. /\ mission.hash = Structure(graph) /\ mission.approved /\ AllVerified(graph) /\ inside
      BY <2>1 DEF Integrate, IntegrateGate, Active, BindingLive
    <3>2. Structure(graph) # Fingerprint
      <4>1. Live(graph) \in SUBSET Nodes
        BY DEF Live
      <4>2. Structure(graph) \in [Live(graph) -> Nodes \cup {NoNode}]
        BY <1>1, StructureType DEF Sound
      <4>3. Fingerprint \notin [Live(graph) -> Nodes \cup {NoNode}]
        BY <4>1, MissionAssumption
      <4> QED
        BY <4>2, <4>3
    <3> QED
      BY <1>1, <3>1, <3>2
  <2>2. CASE Ready
    <3>1. mission'.phase = "assess" \/ mission' = mission
      BY <2>2 DEF Ready
    <3> QED
      BY <1>1, <3>1
  <2>2a. CASE Deny \/ Clear
    BY <1>1, <2>2a DEF Deny, Clear, Unbound, Unapproved
  <2>3. CASE Approve \/ CrashInApprove
    BY <1>1, <2>3 DEF Approve, CrashInApprove, Unbound, Unapproved
  <2>4. CASE Interrupt \/ Checklist \/ DraftChecklist \/ Verify \/ Prepare \/ Delegate
    BY <1>1, <2>4 DEF Interrupt, Checklist, DraftChecklist, Verify, Prepare, Delegate
  <2>5. CASE Spawn \/ AgentEnds \/ Handoff \/ LoseWorktree \/ UNCHANGED vars
    BY <1>1, <2>5 DEF Spawn, AgentEnds, Handoff, LoseWorktree, vars
  <2>6. CASE EnterSdlc \/ Restart
    BY <1>1, <2>6 DEF EnterSdlc, Restart, Resume, Unapproved
  <2>7. CASE LeaveSdlc
    BY <1>1, <2>7 DEF LeaveSdlc, Unbound, Unapproved
  <2> QED
    BY <1>1, <2>1, <2>2, <2>2a, <2>3, <2>4, <2>5, <2>6, <2>7 DEF Next
<1>2. Sound(graph) /\ ContractInv /\ [Next]_vars =>
        [mission.phase # "done" /\ mission'.phase = "done" =>
            Structure(graph) = blessed /\ AllVerified(graph) /\ inside]_vars
  BY <1>1
<1> QED
  BY <1>2, MissionInvariant, PTL DEF Spec, ShippedAsApproved

================================================================================
