----------------------------- MODULE KnowledgeGraph ---------------------------
(***************************************************************************)
(* knowledge/graph/store.py: InMemoryGraphStore.  A node stands for the    *)
(* artifact it wraps; edges are stored once per key, the symmetric ones    *)
(* with the older node first.  The lists of outgoing and incoming edges of *)
(* the code are read off the set of edges here.                            *)
(***************************************************************************)
EXTENDS KnowledgeArtifacts

VARIABLES
  created, \* _node_id_by_wraps: the wrapped artifacts, in the order of their node ids
  edges    \* _edges: [source, rel, target]

graph == <<created, edges>>

Symmetric == {"conflicts_with", "related_to"}

Nodes == {created[i] : i \in 1..Len(created)}
NodeId(a) == CHOOSE i \in 1..Len(created) : created[i] = a

GraphInit == created = <<>> /\ edges = {}

\* _wraps_type_for_id: the artifact type an id begins with.
KindOf(id) == id[1]

\* create_node: the node there is, or a new one.  A second type for one
\* artifact is refused.
CreateNode(a, kind) ==
  /\ kind = KindOf(a)
  /\ created' = IF a \in Nodes THEN created ELSE Append(created, a)
  /\ UNCHANGED edges

EdgeKey(s, rel, t) ==
  IF rel \in Symmetric /\ NodeId(t) < NodeId(s)
  THEN [source |-> t, rel |-> rel, target |-> s]
  ELSE [source |-> s, rel |-> rel, target |-> t]

Dependencies(a) == {e.target : e \in {f \in edges : f.rel = "depends_on" /\ f.source = a}}

\* S holds every dependency of what it holds.
Closed(S) == \A e \in edges : e.rel = "depends_on" /\ e.source \in S => e.target \in S

\* _can_reach: a breadth-first search along depends_on finds b, started at a.
CanReach(a, b) == \A S \in SUBSET Nodes : a \in S /\ Closed(S) => b \in S

ClosesCycle_Direct(s, t) == s = t \/ s \in Dependencies(t) \* mutant: looks one edge ahead only

ClosesCycle(s, t) == s = t \/ CanReach(t, s)

Refused(s, rel, t) == rel = "depends_on" /\ EdgeKey(s, rel, t) \notin edges /\ ClosesCycle(s, t)

\* create_edge: the edge there is, or a new one.
CreateEdge(s, rel, t) ==
  /\ {s, t} \subseteq Nodes
  /\ ~Refused(s, rel, t)
  /\ edges' = edges \cup {EdgeKey(s, rel, t)}
  /\ UNCHANGED created

(* Reads: neighbors and traverse.                                          *)

Outgoing(a, rels) == {e \in edges : e.rel \in rels /\ (e.source = a \/ (e.rel \in Symmetric /\ e.target = a))}
Incoming(a, rels) == {e \in edges : e.rel \in rels /\ (e.target = a \/ (e.rel \in Symmetric /\ e.source = a))}

Neighbors(a, rels, direction) ==
  (IF direction \in {"outgoing", "both"}
   THEN {IF e.source = a THEN e.target ELSE e.source : e \in Outgoing(a, rels)} ELSE {})
  \cup
  (IF direction \in {"incoming", "both"}
   THEN {IF e.target = a THEN e.source ELSE e.target : e \in Incoming(a, rels)} ELSE {})

\* traverse: the nodes at most depth steps away from the seeds the graph has.
Traverse(seeds, rels, depth, direction) ==
  LET within[d \in 0..depth] ==
        IF d = 0 THEN seeds \cap Nodes
        ELSE within[d - 1] \cup UNION {Neighbors(a, rels, direction) : a \in within[d - 1]}
  IN within[depth]

------------------------------------------------------------------------------
(* Properties.                                                             *)

\* store.py:168: whatever edges were added in whatever order, by however many
\* artifacts, no artifact depends on itself through others.
DependenciesNeverCycle ==
  \A e \in edges : e.rel = "depends_on" => ~CanReach(e.target, e.source)
==============================================================================
