------------------------- MODULE KnowledgeFactoryProofs -----------------------
(***************************************************************************)
(* Proofs about the knowledge factory, for any batches, artifacts, links,  *)
(* providers' answers and number of runs, and any order in which gates,    *)
(* humans and projections take their steps: the graph stays free of        *)
(* cycles; what is validated was sourced, checked and consented to; what   *)
(* is held can be resolved; what the graph tells was validated; what a     *)
(* requirement states can be asked for.                                    *)
(*                                                                         *)
(* What documents and conflicts become is computed by recursive functions  *)
(* over lists.  Their results are typed by least counterexample: a set of  *)
(* numbers has a least one, so a recursion that starts in a set and never  *)
(* leaves it has all its values there.                                     *)
(***************************************************************************)
EXTENDS KnowledgeFactory, FiniteSetTheorems, WellFoundedInduction, TLAPS

------------------------------------------------------------------------------
(* The graph.                                                              *)

\* All the graph's own steps rely on: its nodes are a list.
NodesAreListed == created \in Seq(Nodes)

\* One more node: all the old ones stay.
LEMMA NodesGrow ==
  ASSUME NodesAreListed, NEW a, NEW kind, CreateNode(a, kind)
  PROVE  Nodes \subseteq Nodes' /\ NodesAreListed'
<1>1. CASE a \in Nodes
  BY <1>1 DEF CreateNode, Nodes, NodesAreListed
<1>2. CASE a \notin Nodes
  <2> DEFINE known == Nodes
  <2>1. created' = Append(created, a) /\ created \in Seq(known)
    BY <1>2 DEF CreateNode, NodesAreListed
  <2>2. /\ Len(created') = Len(created) + 1 /\ Len(created) \in Nat
        /\ \A i \in 1..Len(created) : created'[i] = created[i]
        /\ created'[Len(created) + 1] = a
        /\ created' \in Seq(known \cup {a})
    BY <2>1
  <2>3. Nodes \subseteq Nodes' /\ a \in Nodes'
    BY <2>2 DEF Nodes
  <2>4. Nodes' = Nodes \cup {a}
    <3>1. \A i \in 1..Len(created') : created'[i] \in Nodes \cup {a}
      BY <2>2
    <3> QED BY <2>3, <3>1 DEF Nodes
  <2> QED BY <2>2, <2>4 DEF NodesAreListed
<1> QED BY <1>1, <1>2

\* What is stored of a link that is no dependency is none either.
LEMMA EdgeKeepsRelationship ==
  ASSUME NEW s, NEW t, NEW rel
  PROVE  EdgeKey(s, rel, t).rel = rel
BY DEF EdgeKey

\* A dependency is stored the way round it was asked for.
LEMMA DependencyKey ==
  ASSUME NEW s, NEW t
  PROVE  EdgeKey(s, "depends_on", t) = [source |-> s, rel |-> "depends_on", target |-> t]
BY DEF EdgeKey, Symmetric

\* A dependency nobody could follow backwards closes no cycle: neither its own,
\* nor one through an edge that was there.
LEMMA DependencyAdded ==
  ASSUME DependenciesNeverCycle,
         NEW s \in Nodes, NEW t \in Nodes, ~CanReach(t, s),
         Nodes' = Nodes,
         edges' = edges \cup {[source |-> s, rel |-> "depends_on", target |-> t]}
  PROVE  DependenciesNeverCycle'
<1>1. PICK T \in SUBSET Nodes : t \in T /\ Closed(T) /\ s \notin T
  BY DEF CanReach
<1>2. ASSUME NEW S \in SUBSET Nodes, Closed(S), s \notin S \/ t \in S
      PROVE  Closed(S)'
  BY <1>2 DEF Closed
<1> SUFFICES ASSUME NEW e \in edges', e.rel = "depends_on"
             PROVE  ~CanReach(e.target, e.source)'
  BY DEF DependenciesNeverCycle
<1>3. CASE e \in edges
  <2>1. PICK S \in SUBSET Nodes : e.target \in S /\ Closed(S) /\ e.source \notin S
    BY <1>3 DEF DependenciesNeverCycle, CanReach
  <2>2. CASE s \notin S
    BY <1>2, <2>1, <2>2 DEF CanReach
  <2>3. CASE e.source \in T
    <3>1. e.target \in T
      BY <1>1, <1>3, <2>3 DEF Closed
    <3>2. Closed(S \cap T)
      BY <1>1, <2>1 DEF Closed
    <3>3. Closed(S \cap T)'
      BY <1>1, <1>2, <3>2
    <3> QED BY <2>1, <3>1, <3>3 DEF CanReach
  <2>4. CASE e.source \notin T
    <3>1. Closed(S \cup T)
      BY <1>1, <2>1 DEF Closed
    <3>2. Closed(S \cup T)'
      BY <1>1, <1>2, <3>1
    <3> QED BY <2>1, <2>4, <3>2 DEF CanReach
  <2> QED BY <2>2, <2>3, <2>4
<1>4. CASE e = [source |-> s, rel |-> "depends_on", target |-> t]
  BY <1>1, <1>2, <1>4 DEF CanReach
<1> QED BY <1>3, <1>4

\* What both operations of the graph keep, and steps that leave it alone.
GraphInvariant == NodesAreListed /\ DependenciesNeverCycle

LEMMA NodeCreated ==
  ASSUME GraphInvariant, NEW a, NEW kind, CreateNode(a, kind)
  PROVE  GraphInvariant'
<1>1. edges' = edges /\ Nodes \subseteq Nodes' /\ NodesAreListed'
  BY NodesGrow DEF CreateNode, GraphInvariant
<1> QED BY <1>1 DEF GraphInvariant, DependenciesNeverCycle, CanReach, Closed

LEMMA EdgeCreated ==
  ASSUME GraphInvariant, NEW s, NEW rel, NEW t, CreateEdge(s, rel, t)
  PROVE  GraphInvariant'
<1>1. Nodes' = Nodes /\ NodesAreListed' /\ s \in Nodes /\ t \in Nodes
  BY DEF CreateEdge, Nodes, NodesAreListed, GraphInvariant
<1>2. CASE rel = "depends_on" /\ EdgeKey(s, rel, t) \notin edges
  <2>1. ~CanReach(t, s)
    BY <1>2 DEF CreateEdge, Refused, ClosesCycle
  <2>2. edges' = edges \cup {[source |-> s, rel |-> "depends_on", target |-> t]}
    BY <1>2, DependencyKey DEF CreateEdge
  <2> QED BY <1>1, <2>1, <2>2, DependencyAdded DEF GraphInvariant
<1>3. CASE EdgeKey(s, rel, t) \in edges
  <2>1. edges' = edges
    BY <1>3 DEF CreateEdge
  <2> QED BY <1>1, <2>1 DEF GraphInvariant, DependenciesNeverCycle, CanReach, Closed
<1>4. CASE rel # "depends_on"
  <2>1. EdgeKey(s, rel, t).rel # "depends_on"
    BY <1>4, EdgeKeepsRelationship
  <2>2. \A S : Closed(S)' = Closed(S)
    BY <2>1 DEF CreateEdge, Closed
  <2> QED BY <1>1, <2>1, <2>2 DEF CreateEdge, GraphInvariant, DependenciesNeverCycle, CanReach
<1> QED BY <1>2, <1>3, <1>4

LEMMA GraphUntouched ==
  ASSUME GraphInvariant, UNCHANGED graph
  PROVE  GraphInvariant'
BY SMTT(30) DEF graph, GraphInvariant, NodesAreListed, DependenciesNeverCycle, CanReach, Closed, Nodes

\* store.py:168: whatever is extracted, promoted, validated, approved and
\* projected, by interleaved runs and projections that end half way, checking
\* each new dependency when it arrives keeps the whole graph free of cycles.
THEOREM NeverCycles == Spec => []DependenciesNeverCycle
<1>1. Init => GraphInvariant
  <2> SUFFICES ASSUME Init PROVE GraphInvariant
    OBVIOUS
  <2>1. created = <<>> /\ edges = {}
    BY DEF Init, GraphInit
  <2>2. created \in Seq(Nodes)
    BY <2>1
  <2> QED BY <2>1, <2>2 DEF GraphInvariant, NodesAreListed, DependenciesNeverCycle
<1>2. GraphInvariant /\ [Next]_factory => GraphInvariant'
  <2> SUFFICES ASSUME GraphInvariant, [Next]_factory PROVE GraphInvariant'
    OBVIOUS
  <2>1. CASE Project
    <3>1. ASSUME NEW artifact \in returned, BeginProjection(artifact) PROVE GraphInvariant'
      BY <3>1, NodeCreated DEF BeginProjection
    <3>2. CASE ProjectTarget
      BY <3>2, NodeCreated DEF ProjectTarget
    <3>3. CASE ProjectLink
      BY <3>3, EdgeCreated DEF ProjectLink
    <3>4. CASE ProjectionRaises
      BY <3>4, GraphUntouched DEF ProjectionRaises
    <3> QED BY <2>1, <3>1, <3>2, <3>3, <3>4 DEF Project
  <2>2. CASE UNCHANGED graph
    BY <2>2, GraphUntouched
  <2> QED BY <2>1, <2>2 DEF Next, factory
<1>3. GraphInvariant => DependenciesNeverCycle
  BY DEF GraphInvariant
<1> QED BY <1>1, <1>2, <1>3, PTL DEF Spec

------------------------------------------------------------------------------
(* Recursion over the natural numbers.                                     *)

\* A set of numbers has a least one.
LEMMA LeastNumber ==
  ASSUME NEW T \in SUBSET Nat, T # {}
  PROVE  \E x \in T : \A y \in T : x <= y
<1> DEFINE R == OpToRel(<, Nat)
<1>1. \A x, y \in Nat : x < y => <<x, y>> \in R
  BY DEF OpToRel
<1>2. \E x \in T : \A y \in T : <<y, x>> \notin R
  <2>1. IsWellFoundedOn(R, Nat)
    BY NatLessThanWellFounded
  <2> HIDE DEF R
  <2> QED BY <2>1, WFMin
<1> HIDE DEF R
<1>3. PICK x \in T : \A y \in T : <<y, x>> \notin R
  BY <1>2
<1>4. \A y \in T : ~(y < x)
  BY <1>1, <1>3
<1> QED BY <1>4

\* What starts in a set and never leaves it is always in it.
LEMMA StaysIn ==
  ASSUME NEW S, NEW n \in Nat, NEW f, f[0] \in S, \A k \in 1..n : f[k - 1] \in S => f[k] \in S
  PROVE  \A k \in 0..n : f[k] \in S
<1> DEFINE T == {k \in 0..n : f[k] \notin S}
<1> SUFFICES ASSUME T # {} PROVE FALSE
  OBVIOUS
<1>1. PICK k \in T : \A j \in T : k <= j
  <2>1. T \in SUBSET Nat
    OBVIOUS
  <2> HIDE DEF T
  <2> QED BY <2>1, LeastNumber
<1>2. k \in 1..n /\ k - 1 \in 0..n /\ k - 1 \notin T
  BY <1>1
<1> QED BY <1>1, <1>2

\* f is what n applications of step make of base.
Unfolds(f, n, base, step) == f[0] = base /\ \A k \in 1..n : f[k] = step[<<k, f[k - 1]>>]

LEMMA Recursion ==
  ASSUME NEW S, NEW base \in S, NEW n \in Nat, NEW step \in [(1..n) \X S -> S]
  PROVE  \E f \in [0..n -> S] : Unfolds(f, n, base, step)
<1> DEFINE Ok(m, f) == f[0] = base /\ \A k \in 1..m : f[k] = step[<<k, f[k - 1]>>]
           Reached(m) == \E f \in [0..m -> S] : Ok(m, f)
           T == {m \in 0..n : ~Reached(m)}
<1>1. Reached(0)
  <2>1. [k \in 0..0 |-> base] \in [0..0 -> S] /\ Ok(0, [k \in 0..0 |-> base])
    OBVIOUS
  <2> QED BY <2>1
<1>2. ASSUME NEW m \in 1..n, Reached(m - 1)
      PROVE  Reached(m)
  <2>1. PICK f \in [0..(m - 1) -> S] : Ok(m - 1, f)
    BY <1>2
  <2> DEFINE g == [k \in 0..m |-> IF k = m THEN step[<<m, f[m - 1]>>] ELSE f[k]]
  <2>2. step[<<m, f[m - 1]>>] \in S
    BY <2>1
  <2>3. g \in [0..m -> S]
    BY <2>1, <2>2
  <2>4. g[0] = base
    BY <2>1
  <2>5. \A k \in 1..m : g[k] = step[<<k, g[k - 1]>>]
    <3>1. ASSUME NEW k \in 1..m
          PROVE  g[k - 1] = f[k - 1] /\ (k # m => g[k] = f[k])
      OBVIOUS
    <3>2. ASSUME NEW k \in 1..m, k # m
          PROVE  g[k] = step[<<k, g[k - 1]>>]
      <4>1. k \in 1..(m - 1)
        BY <3>2
      <4>2. f[k] = step[<<k, f[k - 1]>>]
        BY <2>1, <4>1
      <4> QED BY <3>1, <3>2, <4>2
    <3>3. g[m] = step[<<m, g[m - 1]>>]
      <4>1. m \in 1..m /\ g[m] = step[<<m, f[m - 1]>>]
        OBVIOUS
      <4> QED BY <3>1, <4>1
    <3> QED BY <3>2, <3>3
  <2> QED BY <2>3, <2>4, <2>5
<1>3. T = {}
  <2> HIDE DEF Reached
  <2> SUFFICES ASSUME T # {} PROVE FALSE
    OBVIOUS
  <2>1. PICK m \in T : \A j \in T : m <= j
    <3>1. T \in SUBSET Nat
      OBVIOUS
    <3> HIDE DEF T
    <3> QED BY <3>1, LeastNumber
  <2>2. m \in 0..n /\ ~Reached(m)
    BY <2>1
  <2>3. m \in 1..n /\ m - 1 \in 0..n
    BY <1>1, <2>2
  <2>4. m - 1 \notin T
    BY <2>1, <2>3
  <2>5. Reached(m - 1)
    BY <2>3, <2>4
  <2> QED BY <1>2, <2>2, <2>3, <2>5
<1>4. Reached(n)
  <2> HIDE DEF Reached
  <2>1. n \in 0..n
    OBVIOUS
  <2> QED BY <1>3, <2>1
<1> QED BY <1>4 DEF Unfolds

------------------------------------------------------------------------------
(* Lists.                                                                  *)

Elements(q) == {q[i] : i \in 1..Len(q)}

LEMMA ListIsSeq ==
  ASSUME NEW q, IsList(q)
  PROVE  q \in Seq(Elements(q))
<1> DEFINE n == Len(q)
           E == Elements(q)
<1>1. n \in Nat /\ q = [i \in 1..n |-> q[i]]
  BY DEF IsList
<1>2. \A i \in 1..n : q[i] \in E
  BY DEF Elements
<1> HIDE DEF n, E
<1>3. q \in [1..n -> E]
  BY <1>1, <1>2
<1>4. q \in Seq(E)
  BY <1>1, <1>3
<1> QED BY <1>4 DEF E

LEMMA SeqIsList ==
  ASSUME NEW S, NEW q \in Seq(S)
  PROVE  IsList(q) /\ Elements(q) \subseteq S
BY DEF IsList, Elements

\* What two lists become when one is appended to the other.
LEMMA Concatenated ==
  ASSUME NEW s, IsList(s), NEW t, IsList(t)
  PROVE  IsList(s \o t) /\ Elements(s \o t) \subseteq Elements(s) \cup Elements(t)
<1> DEFINE S == Elements(s) \cup Elements(t)
<1>1. s \in Seq(Elements(s)) /\ t \in Seq(Elements(t))
  BY ListIsSeq
<1> HIDE DEF S
<1>2. Elements(s) \subseteq S /\ Elements(t) \subseteq S
  BY DEF S
<1>3. s \in Seq(S) /\ t \in Seq(S)
  BY <1>1, <1>2
<1>4. s \o t \in Seq(S)
  BY <1>3
<1> QED BY <1>4, SeqIsList DEF S

------------------------------------------------------------------------------
(* Extraction.                                                             *)

Ids == ContentKinds \X Nat
Counters == [ContentKinds -> Nat]

LEMMA IdsAreTaken ==
  ASSUME NEW c \in Counters, NEW k \in ContentKinds
  PROVE  NextId(c, k) \in Ids /\ Take(c, k) \in Counters
BY DEF Counters, Ids, NextId, Take

\* What a document may yield.
Fresh(document) == {Artifact(id, document, item) : id \in Ids, item \in Elements(document.items)}

LEMMA FreshAreDrafts ==
  ASSUME NEW document, NEW a \in Fresh(document)
  PROVE  IsArtifact(a) /\ a.status = "draft"
<1>1. PICK id \in Ids, item \in Elements(document.items) : a = Artifact(id, document, item)
  BY DEF Fresh
<1>2. a.refs = <<SourceReference(document)>> /\ a.links = <<>> /\ a.status = "draft"
  BY <1>1 DEF Artifact
<1>3. a = [f \in ArtifactFields |-> a[f]]
  BY <1>1 DEF Artifact, ArtifactFields
<1>4. IsList(a.refs) /\ IsList(a.links)
  BY <1>2 DEF IsList
<1> QED BY <1>2, <1>3, <1>4 DEF IsArtifact, Statuses

Extracted(document) == [ids : Counters, artifacts : Seq(Fresh(document)), raised : BOOLEAN]

LEMMA ItemExtracted ==
  ASSUME NEW document, NEW r \in Extracted(document), NEW item \in Elements(document.items)
  PROVE  ExtractItem(r, document, item) \in Extracted(document)
<1> DEFINE k == KindOfSection(item.section)
<1>1. CASE r.raised \/ item.section \notin Sections(document.method)
  BY <1>1 DEF ExtractItem
<1>2. CASE ~(r.raised \/ item.section \notin Sections(document.method))
  <2>1. k \in ContentKinds
    BY DEF KindOfSection, ContentKinds
  <2>2. r.ids \in Counters /\ r.artifacts \in Seq(Fresh(document))
    BY DEF Extracted
  <2>3. NextId(r.ids, k) \in Ids /\ Take(r.ids, k) \in Counters
    BY <2>1, <2>2, IdsAreTaken
  <2>4. Artifact(NextId(r.ids, k), document, item) \in Fresh(document)
    BY <2>3 DEF Fresh
  <2>5. Append(r.artifacts, Artifact(NextId(r.ids, k), document, item)) \in Seq(Fresh(document))
    BY <2>2, <2>4
  <2>6. ExtractItem(r, document, item) =
          [ids |-> Take(r.ids, k),
           artifacts |-> Append(r.artifacts, Artifact(NextId(r.ids, k), document, item)),
           raised |-> ~item.wellFormed]
    BY <1>2 DEF ExtractItem
  <2>7. (~item.wellFormed) \in BOOLEAN
    OBVIOUS
  <2> HIDE DEF k
  <2> QED BY <2>3, <2>5, <2>6, <2>7 DEF Extracted
<1> QED BY <1>1, <1>2

\* stage.py: an extraction takes ids and makes drafts, if it does not raise.
LEMMA Extracts ==
  ASSUME NEW document, IsList(document.items), NEW counters \in Counters
  PROVE  Extract(document, counters) \in Extracted(document)
<1> DEFINE S == Extracted(document)
           n == Len(document.items)
           base == [ids |-> counters, artifacts |-> <<>>, raised |-> FALSE]
           step == [p \in (1..n) \X S |-> ExtractItem(p[2], document, document.items[p[1]])]
           Eq(u) == u = [k \in 0..n |-> IF k = 0 THEN base ELSE ExtractItem(u[k - 1], document, document.items[k])]
           upTo == CHOOSE u : Eq(u)
<1>1. n \in Nat /\ \A k \in 1..n : document.items[k] \in Elements(document.items)
  BY DEF IsList, Elements
<1>2. base \in S
  BY DEF Extracted
<1>3. step \in [(1..n) \X S -> S]
  <2> HIDE DEF n
  <2> QED BY <1>1, ItemExtracted
<1>4. PICK f \in [0..n -> S] : Unfolds(f, n, base, step)
  <2> HIDE DEF step, n, base, S
  <2> QED BY <1>1, <1>2, <1>3, Recursion
<1>5. Eq(f)
  <2> HIDE DEF n, base, S
  <2>1. ASSUME NEW k \in 1..n PROVE f[k] = ExtractItem(f[k - 1], document, document.items[k])
    <3>1. <<k, f[k - 1]>> \in (1..n) \X S
      BY <1>1, <1>4
    <3>2. step[<<k, f[k - 1]>>] = ExtractItem(f[k - 1], document, document.items[k])
      BY <3>1
    <3> QED BY <1>4, <3>2 DEF Unfolds
  <2> QED BY <1>1, <1>4, <2>1 DEF Unfolds
<1>6. Eq(upTo)
  <2> HIDE DEF Eq
  <2> QED BY <1>5
<1>7. upTo[0] = base /\ \A k \in 1..n : upTo[k] = ExtractItem(upTo[k - 1], document, document.items[k])
  <2> HIDE DEF upTo, n, base
  <2> QED BY <1>1, <1>6
<1>8. upTo[n] \in S
  <2> HIDE DEF upTo, n, base
  <2>1. \A k \in 1..n : upTo[k - 1] \in S => upTo[k] \in S
    BY <1>1, <1>7, ItemExtracted
  <2> HIDE DEF S
  <2>2. \A k \in 0..n : upTo[k] \in S
    BY <1>1, <1>2, <1>7, <2>1, StaysIn
  <2> QED BY <1>1, <2>2
<1> QED BY <1>8 DEF Extract

------------------------------------------------------------------------------
(* Patterns.  U are the artifacts they are looked for in.                  *)

ShapesOf(U, kind) == {ShapeKey(a, kind) : a \in U}
GroupsOf(U, kind) == [shape : ShapesOf(U, kind), members : Seq(U)]

LEMMA GroupJoined ==
  ASSUME NEW U, NEW kind, NEW g \in Seq(GroupsOf(U, kind)), NEW a \in U
  PROVE  Join(g, a, ShapeKey(a, kind)) \in Seq(GroupsOf(U, kind))
<1> DEFINE G == GroupsOf(U, kind)
           shape == ShapeKey(a, kind)
<1>1. shape \in ShapesOf(U, kind)
  BY DEF ShapesOf
<1>2. CASE shape = None
  BY <1>2 DEF Join
<1>3. CASE shape # None /\ \E i \in 1..Len(g) : g[i].shape = shape
  <2> DEFINE joined(i) == IF g[i].shape = shape THEN [g[i] EXCEPT !.members = Append(@, a)] ELSE g[i]
  <2>1. ASSUME NEW i \in 1..Len(g) PROVE joined(i) \in G
    <3>1. g[i] \in G
      OBVIOUS
    <3>2. g[i].members \in Seq(U)
      BY <3>1 DEF GroupsOf
    <3>3. Append(g[i].members, a) \in Seq(U)
      BY <3>2
    <3> QED BY <3>1, <3>3 DEF GroupsOf
  <2>2. Join(g, a, shape) = [i \in 1..Len(g) |-> joined(i)]
    BY <1>3 DEF Join
  <2>3. Len(g) \in Nat
    OBVIOUS
  <2> HIDE DEF joined, G, shape
  <2>4. [i \in 1..Len(g) |-> joined(i)] \in Seq(G)
    BY <2>1, <2>3
  <2> QED BY <2>2, <2>4 DEF G, shape
<1>4. CASE shape # None /\ ~\E i \in 1..Len(g) : g[i].shape = shape
  <2>1. <<a>> \in Seq(U)
    OBVIOUS
  <2>2. [shape |-> shape, members |-> <<a>>] \in G
    BY <1>1, <2>1 DEF GroupsOf
  <2>3. Join(g, a, shape) = Append(g, [shape |-> shape, members |-> <<a>>])
    BY <1>4 DEF Join
  <2> HIDE DEF G, shape
  <2> QED BY <2>2, <2>3 DEF G, shape
<1> QED BY <1>2, <1>3, <1>4

LEMMA Grouped ==
  ASSUME NEW artifacts, IsList(artifacts), NEW kind
  PROVE  Groups(artifacts, kind) \in Seq(GroupsOf(Elements(artifacts), kind))
<1> DEFINE S == Seq(GroupsOf(Elements(artifacts), kind))
           n == Len(artifacts)
           step == [p \in (1..n) \X S |-> Join(p[2], artifacts[p[1]], ShapeKey(artifacts[p[1]], kind))]
           Eq(u) == u = [k \in 0..n |-> IF k = 0 THEN <<>>
                                        ELSE Join(u[k - 1], artifacts[k], ShapeKey(artifacts[k], kind))]
           upTo == CHOOSE u : Eq(u)
<1>1. n \in Nat /\ \A k \in 1..n : artifacts[k] \in Elements(artifacts)
  BY DEF IsList, Elements
<1>2. <<>> \in S
  OBVIOUS
<1>3. step \in [(1..n) \X S -> S]
  <2> HIDE DEF n
  <2> QED BY <1>1, GroupJoined
<1>4. PICK f \in [0..n -> S] : Unfolds(f, n, <<>>, step)
  <2> HIDE DEF step, n, S
  <2> QED BY <1>1, <1>2, <1>3, Recursion
<1>5. Eq(f)
  <2> HIDE DEF n, S
  <2>1. ASSUME NEW k \in 1..n PROVE f[k] = Join(f[k - 1], artifacts[k], ShapeKey(artifacts[k], kind))
    <3>1. <<k, f[k - 1]>> \in (1..n) \X S
      BY <1>1, <1>4
    <3>2. step[<<k, f[k - 1]>>] = Join(f[k - 1], artifacts[k], ShapeKey(artifacts[k], kind))
      BY <3>1
    <3> QED BY <1>4, <3>2 DEF Unfolds
  <2> QED BY <1>1, <1>4, <2>1 DEF Unfolds
<1>6. Eq(upTo)
  <2> HIDE DEF Eq
  <2> QED BY <1>5
<1>7. upTo[0] = <<>> /\ \A k \in 1..n : upTo[k] = Join(upTo[k - 1], artifacts[k], ShapeKey(artifacts[k], kind))
  <2> HIDE DEF upTo, n
  <2> QED BY <1>1, <1>6
<1>8. upTo[n] \in S
  <2> HIDE DEF upTo, n
  <2>1. \A k \in 1..n : upTo[k - 1] \in S => upTo[k] \in S
    BY <1>1, <1>7, GroupJoined
  <2> HIDE DEF S
  <2>2. \A k \in 0..n : upTo[k] \in S
    BY <1>1, <1>2, <1>7, <2>1, StaysIn
  <2> QED BY <1>1, <2>2
<1> QED BY <1>8 DEF Groups

\* A pattern has all the references of its members.
LEMMA RefsCollected ==
  ASSUME NEW U, \A a \in U : IsList(a.refs), NEW group \in Seq(U)
  PROVE  IsList(AllRefs(group))
<1> DEFINE R == UNION {Elements(a.refs) : a \in U}
           S == Seq(R)
           n == Len(group)
           more(s, k) == s \o group[k].refs
           step == [p \in (1..n) \X S |-> more(p[2], p[1])]
           Eq(u) == u = [k \in 0..n |-> IF k = 0 THEN <<>> ELSE more(u[k - 1], k)]
           upTo == CHOOSE u : Eq(u)
<1>1. n \in Nat /\ \A k \in 1..n : group[k] \in U
  OBVIOUS
<1>2. <<>> \in S
  OBVIOUS
<1>a. ASSUME NEW a \in U PROVE a.refs \in Seq(R)
  <2>1. a.refs \in Seq(Elements(a.refs))
    BY ListIsSeq
  <2>2. Elements(a.refs) \subseteq R
    OBVIOUS
  <2> HIDE DEF R
  <2> QED BY <2>1, <2>2
<1>b. ASSUME NEW k \in 1..n, NEW s \in S PROVE more(s, k) \in S
  <2>1. group[k].refs \in Seq(R)
    BY <1>1, <1>a
  <2> HIDE DEF R
  <2> QED BY <2>1
<1>3. step \in [(1..n) \X S -> S]
  <2> HIDE DEF n, S, more
  <2> QED BY <1>b
<1>4. PICK f \in [0..n -> S] : Unfolds(f, n, <<>>, step)
  <2> HIDE DEF step, n, S, more
  <2> QED BY <1>1, <1>2, <1>3, Recursion
<1>5. Eq(f)
  <2> HIDE DEF n, S, more
  <2>1. ASSUME NEW k \in 1..n PROVE f[k] = more(f[k - 1], k)
    <3>1. <<k, f[k - 1]>> \in (1..n) \X S
      BY <1>1, <1>4
    <3>2. step[<<k, f[k - 1]>>] = more(f[k - 1], k)
      BY <3>1
    <3> QED BY <1>4, <3>2 DEF Unfolds
  <2> QED BY <1>1, <1>4, <2>1 DEF Unfolds
<1>6. Eq(upTo)
  <2> HIDE DEF Eq
  <2> QED BY <1>5
<1>7. upTo[0] = <<>> /\ \A k \in 1..n : upTo[k] = more(upTo[k - 1], k)
  <2> HIDE DEF upTo, n, more
  <2> QED BY <1>1, <1>6
<1>8. upTo[n] \in S
  <2> HIDE DEF upTo, n, S, more
  <2>1. \A k \in 1..n : upTo[k - 1] \in S => upTo[k] \in S
    BY <1>7, <1>b
  <2>2. \A k \in 0..n : upTo[k] \in S
    BY <1>1, <1>2, <1>7, <2>1, StaysIn
  <2> QED BY <1>1, <2>2
<1>9. AllRefs(group) \in S
  BY <1>8 DEF AllRefs
<1> HIDE DEF R
<1> QED BY <1>9, SeqIsList

LEMMA PatternIsArtifact ==
  ASSUME NEW U, \A a \in U : IsArtifact(a), NEW group \in Seq(U), Len(group) >= 2, NEW id, NEW shape
  PROVE  IsArtifact(BuildPattern(id, shape, group)) /\ BuildPattern(id, shape, group).status = "draft"
<1> DEFINE p == BuildPattern(id, shape, group)
           links == [i \in 1..Len(group) |-> [target |-> group[i].id, rel |-> "references"]]
<1>1. group[1] = [f \in ArtifactFields |-> group[1][f]]
  BY DEF IsArtifact
<1>2. p = [f \in ArtifactFields |-> p[f]]
  BY <1>1 DEF BuildPattern
<1>3. p.status = "draft" /\ p.links = links
  BY <1>1 DEF BuildPattern, ArtifactFields
<1>4. p.refs = AllRefs(group)
  BY <1>1 DEF BuildPattern, ArtifactFields
<1>5. IsList(links)
  <2>1. Len(group) \in Nat
    OBVIOUS
  <2>2. links \in Seq({links[i] : i \in 1..Len(group)})
    BY <2>1, SMTT(30)
  <2> QED BY <2>2, SeqIsList
<1>6. IsList(AllRefs(group))
  BY RefsCollected DEF IsArtifact
<1> HIDE DEF p, links
<1> QED BY <1>2, <1>3, <1>4, <1>5, <1>6 DEF IsArtifact, Statuses, p

\* What may be promoted: groups of at least two.
Promotable(U, kind) ==
  {BuildPattern(id, shape, group) :
     id \in Ids, shape \in ShapesOf(U, kind), group \in {g \in Seq(U) : Len(g) >= 2}}

Promotions(U, kind) == [ids : Counters, artifacts : Seq(Promotable(U, kind))]

LEMMA GroupPromoted ==
  ASSUME NEW U, NEW kind \in ContentKinds, NEW r \in Promotions(U, kind), NEW g \in GroupsOf(U, kind)
  PROVE  PromoteGroup(r, kind, g) \in Promotions(U, kind)
<1> DEFINE p == BuildPattern(NextId(r.ids, kind), g.shape, g.members)
<1>1. CASE ~Recurs(g.members)
  BY <1>1 DEF PromoteGroup
<1>2. CASE Recurs(g.members)
  <2>1. r.ids \in Counters /\ r.artifacts \in Seq(Promotable(U, kind))
    BY DEF Promotions
  <2>2. NextId(r.ids, kind) \in Ids /\ Take(r.ids, kind) \in Counters
    BY <2>1, IdsAreTaken
  <2>3. g.members \in {m \in Seq(U) : Len(m) >= 2} /\ g.shape \in ShapesOf(U, kind)
    BY <1>2 DEF GroupsOf, Recurs
  <2>4. p \in Promotable(U, kind)
    BY <2>2, <2>3 DEF Promotable
  <2> HIDE DEF p
  <2>5. Append(r.artifacts, p) \in Seq(Promotable(U, kind))
    BY <2>1, <2>4
  <2>6. PromoteGroup(r, kind, g) = [ids |-> Take(r.ids, kind), artifacts |-> Append(r.artifacts, p)]
    BY <1>2 DEF PromoteGroup, p
  <2> QED BY <2>2, <2>5, <2>6 DEF Promotions
<1> QED BY <1>1, <1>2

LEMMA Promoted ==
  ASSUME NEW artifacts, IsList(artifacts), NEW kind \in ContentKinds, NEW counters \in Counters
  PROVE  Promote(artifacts, kind, counters) \in Promotions(Elements(artifacts), kind)
<1> DEFINE groups == Groups(artifacts, kind)
           G == GroupsOf(Elements(artifacts), kind)
           S == Promotions(Elements(artifacts), kind)
           n == Len(groups)
           base == [ids |-> counters, artifacts |-> <<>>]
           step == [p \in (1..n) \X S |-> PromoteGroup(p[2], kind, groups[p[1]])]
           Eq(u) == u = [k \in 0..n |-> IF k = 0 THEN base ELSE PromoteGroup(u[k - 1], kind, groups[k])]
           upTo == CHOOSE u : Eq(u)
<1>a. groups \in Seq(G)
  BY Grouped
<1>1. n \in Nat /\ \A k \in 1..n : groups[k] \in G
  <2> HIDE DEF groups, G
  <2> QED BY <1>a
<1>2. base \in S
  BY DEF Promotions
<1>3. step \in [(1..n) \X S -> S]
  <2> HIDE DEF n, groups
  <2> QED BY <1>1, GroupPromoted
<1>4. PICK f \in [0..n -> S] : Unfolds(f, n, base, step)
  <2> HIDE DEF step, n, base, S
  <2> QED BY <1>1, <1>2, <1>3, Recursion
<1>5. Eq(f)
  <2> HIDE DEF n, base, S, groups
  <2>1. ASSUME NEW k \in 1..n PROVE f[k] = PromoteGroup(f[k - 1], kind, groups[k])
    <3>1. <<k, f[k - 1]>> \in (1..n) \X S
      BY <1>1, <1>4
    <3>2. step[<<k, f[k - 1]>>] = PromoteGroup(f[k - 1], kind, groups[k])
      BY <3>1
    <3> QED BY <1>4, <3>2 DEF Unfolds
  <2> QED BY <1>1, <1>4, <2>1 DEF Unfolds
<1>6. Eq(upTo)
  <2> HIDE DEF Eq
  <2> QED BY <1>5
<1>7. upTo[0] = base /\ \A k \in 1..n : upTo[k] = PromoteGroup(upTo[k - 1], kind, groups[k])
  <2> HIDE DEF upTo, n, base, groups
  <2> QED BY <1>1, <1>6
<1>8. upTo[n] \in S
  <2> HIDE DEF upTo, n, base, groups
  <2>1. \A k \in 1..n : upTo[k - 1] \in S => upTo[k] \in S
    BY <1>1, <1>7, GroupPromoted
  <2> HIDE DEF S
  <2>2. \A k \in 0..n : upTo[k] \in S
    BY <1>1, <1>2, <1>7, <2>1, StaysIn
  <2> QED BY <1>1, <2>2
<1> QED BY <1>8 DEF Promote

\* What is made out of the documents can be submitted to the gates.
Ready(a) == IsArtifact(a) /\ (a.status \in Held => a.refs # <<>>)
AllReady(q) == IsList(q) /\ \A a \in Elements(q) : Ready(a)

LEMMA DraftsAreReady ==
  ASSUME NEW a, IsArtifact(a), a.status = "draft"
  PROVE  Ready(a)
BY DEF Ready, Held

LEMMA ReadyConcatenated ==
  ASSUME NEW s, NEW t, AllReady(s), AllReady(t)
  PROVE  AllReady(s \o t)
BY Concatenated DEF AllReady

LEMMA PatternsAreReady ==
  ASSUME NEW artifacts, AllReady(artifacts), NEW kind \in ContentKinds, NEW counters \in Counters
  PROVE  Promote(artifacts, kind, counters).ids \in Counters /\ AllReady(Promote(artifacts, kind, counters).artifacts)
<1> DEFINE r == Promote(artifacts, kind, counters)
           U == Elements(artifacts)
<1>1. r \in Promotions(U, kind)
  BY Promoted DEF AllReady
<1> HIDE DEF r
<1>2. r.ids \in Counters /\ r.artifacts \in Seq(Promotable(U, kind))
  BY <1>1 DEF Promotions
<1>3. IsList(r.artifacts) /\ Elements(r.artifacts) \subseteq Promotable(U, kind)
  BY <1>2, SeqIsList
<1>4. ASSUME NEW p \in Promotable(U, kind) PROVE Ready(p)
  <2>1. PICK id \in Ids, shape \in ShapesOf(U, kind), group \in {g \in Seq(U) : Len(g) >= 2} :
          p = BuildPattern(id, shape, group)
    BY DEF Promotable
  <2>2. \A a \in U : IsArtifact(a)
    BY DEF AllReady, Ready
  <2> HIDE DEF U
  <2>3. IsArtifact(p) /\ p.status = "draft"
    BY <2>1, <2>2, PatternIsArtifact
  <2> QED BY <2>3, DraftsAreReady
<1> QED BY <1>2, <1>3, <1>4 DEF AllReady, r

LEMMA PatternsExtracted ==
  ASSUME NEW artifacts, AllReady(artifacts), NEW counters \in Counters
  PROVE  /\ ExtractPatterns(artifacts, counters).ids \in Counters
         /\ AllReady(ExtractPatterns(artifacts, counters).artifacts)
<1> DEFINE p == Promote(artifacts, "pattern", counters)
           a == Promote(artifacts, "anti_pattern", p.ids)
<1>1. p.ids \in Counters /\ AllReady(p.artifacts)
  BY PatternsAreReady DEF ContentKinds
<1>2. a.ids \in Counters /\ AllReady(a.artifacts)
  <2> HIDE DEF p
  <2> QED BY <1>1, PatternsAreReady DEF ContentKinds
<1>3. ExtractPatterns(artifacts, counters) = [ids |-> a.ids, artifacts |-> artifacts \o p.artifacts \o a.artifacts]
  BY DEF ExtractPatterns
<1> HIDE DEF p, a
<1>4. AllReady((artifacts \o p.artifacts) \o a.artifacts)
  BY <1>1, <1>2, ReadyConcatenated
<1> QED BY <1>2, <1>3, <1>4

------------------------------------------------------------------------------
(* The conflicts of a batch.                                               *)

Settled(U) == U \cup {[a EXCEPT !.status = "superseded"] : a \in U}

LEMMA SettledAreReady ==
  ASSUME NEW U, \A a \in U : Ready(a), NEW b \in Settled(U)
  PROVE  Ready(b) /\ [b EXCEPT !.status = "superseded"] \in Settled(U)
<1>1. CASE b \in U
  BY <1>1 DEF Settled
<1>2. ASSUME NEW a \in U, b = [a EXCEPT !.status = "superseded"]
      PROVE  Ready(b) /\ [b EXCEPT !.status = "superseded"] \in Settled(U)
  <2>1. a = [f \in ArtifactFields |-> a[f]] /\ IsList(a.refs) /\ IsList(a.links)
    BY DEF Ready, IsArtifact
  <2>2. b = [f \in ArtifactFields |-> IF f = "status" THEN "superseded" ELSE a[f]]
    BY <1>2, <2>1 DEF ArtifactFields
  <2>3. b.refs = a.refs /\ b.links = a.links /\ b.status = "superseded"
    BY <2>2 DEF ArtifactFields
  <2>4. b = [f \in ArtifactFields |-> b[f]]
    BY <2>2
  <2>5. [b EXCEPT !.status = "superseded"] = b
    BY <2>3, <2>4
  <2>6. Ready(b)
    BY <2>1, <2>3, <2>4 DEF Ready, IsArtifact, Statuses, Held
  <2> QED BY <1>2, <2>5, <2>6 DEF Settled
<1> QED BY <1>1, <1>2 DEF Settled

\* Artifacts by their ids.
Settlings(I, U) == {f \in [I -> Settled(U)] : \A i \in I : f[i].id = i}

LEMMA ConflictSettled ==
  ASSUME NEW I, NEW U, \A a \in U : Ready(a), NEW f \in Settlings(I, U), NEW id
  PROVE  Demoted(f, id) \in Settlings(I, U)
<1>0. f \in [I -> Settled(U)] /\ \A i \in I : f[i].id = i
  BY DEF Settlings
<1>1. CASE id \in I
  <2> DEFINE b == [f[id] EXCEPT !.status = "superseded"]
  <2>1. b \in Settled(U)
    BY <1>0, <1>1, SettledAreReady
  <2>2. f[id] = [g \in ArtifactFields |-> f[id][g]]
    BY <1>0, <1>1, SettledAreReady DEF Ready, IsArtifact
  <2>3. b.id = id
    BY <1>0, <1>1, <2>2 DEF ArtifactFields
  <2>4. Demoted(f, id) = [i \in I |-> IF i = id THEN b ELSE f[i]]
    BY <1>0, <1>1 DEF Demoted
  <2> HIDE DEF b
  <2> QED BY <1>0, <2>1, <2>3, <2>4 DEF Settlings
<1>2. CASE id \notin I
  BY <1>0, <1>2 DEF Demoted
<1> QED BY <1>1, <1>2

\* What is made of the artifacts; conflicts is what may be left unresolved.
Resolving(I, U, conflicts) == [artifacts : Settlings(I, U), unresolved : Seq(conflicts)]

LEMMA OneResolved ==
  ASSUME NEW I, NEW U, \A a \in U : Ready(a), NEW C, NEW r \in Resolving(I, U, C), NEW c \in C, NEW tierOf
  PROVE  ResolveInBatch(r, c, tierOf) \in Resolving(I, U, C)
<1>1. r.artifacts \in Settlings(I, U) /\ r.unresolved \in Seq(C)
  BY DEF Resolving
<1>2. Append(r.unresolved, c) \in Seq(C)
  BY <1>1
<1>3. [r EXCEPT !.unresolved = Append(@, c)] \in Resolving(I, U, C)
  BY <1>2 DEF Resolving
<1>4. ASSUME NEW id PROVE [r EXCEPT !.artifacts = Demoted(@, id)] \in Resolving(I, U, C)
  <2>1. Demoted(r.artifacts, id) \in Settlings(I, U)
    BY <1>1, ConflictSettled
  <2> QED BY <2>1 DEF Resolving
<1> QED BY <1>3, <1>4 DEF ResolveInBatch

LEMMA Resolves ==
  ASSUME NEW I, NEW U, \A a \in U : Ready(a), NEW artifacts \in [I -> U], \A i \in I : artifacts[i].id = i,
         NEW conflicts, IsList(conflicts), NEW tierOf
  PROVE  ResolveBatch(artifacts, conflicts, tierOf).artifacts \in Settlings(I, U)
<1> DEFINE C == Elements(conflicts)
           S == Resolving(I, U, C)
           n == Len(conflicts)
           base == [artifacts |-> artifacts, unresolved |-> <<>>]
           step == [p \in (1..n) \X S |-> ResolveInBatch(p[2], conflicts[p[1]], tierOf)]
           Eq(u) == u = [k \in 0..n |-> IF k = 0 THEN base ELSE ResolveInBatch(u[k - 1], conflicts[k], tierOf)]
           upTo == CHOOSE u : Eq(u)
<1>1. n \in Nat /\ \A k \in 1..n : conflicts[k] \in C
  BY DEF IsList, Elements
<1>2. base \in S
  <2>1. artifacts \in Settlings(I, U)
    BY DEF Settled, Settlings
  <2> HIDE DEF C
  <2> QED BY <2>1 DEF Resolving
<1>3. step \in [(1..n) \X S -> S]
  <2> HIDE DEF n, C
  <2> QED BY <1>1, OneResolved
<1>4. PICK f \in [0..n -> S] : Unfolds(f, n, base, step)
  <2> HIDE DEF step, n, base, S
  <2> QED BY <1>1, <1>2, <1>3, Recursion
<1>5. Eq(f)
  <2> HIDE DEF n, base, S
  <2>1. ASSUME NEW k \in 1..n PROVE f[k] = ResolveInBatch(f[k - 1], conflicts[k], tierOf)
    <3>1. <<k, f[k - 1]>> \in (1..n) \X S
      BY <1>1, <1>4
    <3>2. step[<<k, f[k - 1]>>] = ResolveInBatch(f[k - 1], conflicts[k], tierOf)
      BY <3>1
    <3> QED BY <1>4, <3>2 DEF Unfolds
  <2> QED BY <1>1, <1>4, <2>1 DEF Unfolds
<1>6. Eq(upTo)
  <2> HIDE DEF Eq
  <2> QED BY <1>5
<1>7. upTo[0] = base /\ \A k \in 1..n : upTo[k] = ResolveInBatch(upTo[k - 1], conflicts[k], tierOf)
  <2> HIDE DEF upTo, n, base
  <2> QED BY <1>1, <1>6
<1>8. upTo[n] \in S
  <2> HIDE DEF upTo, n, base, C
  <2>1. \A k \in 1..n : upTo[k - 1] \in S => upTo[k] \in S
    BY <1>1, <1>7, OneResolved
  <2> HIDE DEF S
  <2>2. \A k \in 0..n : upTo[k] \in S
    BY <1>1, <1>2, <1>7, <2>1, StaysIn
  <2> QED BY <1>1, <2>2
<1>9. upTo[n] = ResolveBatch(artifacts, conflicts, tierOf)
  BY DEF ResolveBatch
<1> HIDE DEF upTo, C, n
<1> QED BY <1>8, <1>9 DEF Resolving

\* resolution.py:101: see ResolutionIgnoresOrder.
LEMMA VersionsAreOrdered ==
  ASSUME NEW v \in Versions, NEW w \in Versions, v # w
  PROVE  Newer(v, w) <=> ~Newer(w, v)
<1>1. v.text \in Nat /\ w.text \in Nat /\ v.text # w.text
  BY VersionsAssumption
<1>2. CASE None \notin {v.number, w.number} /\ v.number # w.number
  <2>1. v.number \in Nat /\ w.number \in Nat
    BY <1>2, VersionsAssumption
  <2> QED BY <1>2, <2>1 DEF Newer
<1>3. CASE ~(None \notin {v.number, w.number} /\ v.number # w.number)
  BY <1>1, <1>3 DEF Newer
<1> QED BY <1>2, <1>3

LEMMA OrderIgnored ==
  ASSUME NEW x \in Claims({1}, Versions), NEW y \in Claims({2}, Versions)
  PROVE  LET r == Resolve(x, y) IN
         /\ r = Resolve(y, x)
         /\ r.human <=> r.winner = None
         /\ ~r.human => {r.winner, r.loser} = {1, 2}
<1>1. /\ x.id = 1 /\ y.id = 2 /\ x # y
      /\ x.tier \in 1..9 /\ y.tier \in 1..9
      /\ x.version \in Versions \cup {None} /\ y.version \in Versions \cup {None}
  BY DEF Claims, Tiers
<1>2. None # 1 /\ None # 2
  BY NoneAssumption
<1>3. RuleContradiction(x, y) <=> RuleContradiction(y, x)
  BY DEF RuleContradiction
<1>4. VersionScoped(x, y) <=> VersionScoped(y, x)
  BY DEF VersionScoped
<1>5. DocsMayBeStale(x, y) <=> DocsMayBeStale(y, x)
  BY DEF DocsMayBeStale
<1>6. CASE RuleContradiction(x, y)
  BY <1>3, <1>6 DEF Resolve, Resolution
<1>7. CASE ~RuleContradiction(x, y) /\ VersionScoped(x, y)
  <2>1. x.version \in Versions /\ y.version \in Versions /\ x.version # y.version
    BY <1>1, <1>7 DEF VersionScoped
  <2>2. Newer(x.version, y.version) <=> ~Newer(y.version, x.version)
    BY <2>1, VersionsAreOrdered
  <2> QED BY <1>1, <1>2, <1>3, <1>4, <1>7, <2>2 DEF Resolve, Resolution
<1>8. CASE ~RuleContradiction(x, y) /\ ~VersionScoped(x, y) /\ DocsMayBeStale(x, y)
  BY <1>3, <1>4, <1>5, <1>8 DEF Resolve, Resolution
<1>9. CASE ~RuleContradiction(x, y) /\ ~VersionScoped(x, y) /\ ~DocsMayBeStale(x, y)
  <2>1. CASE x.tier = y.tier
    BY <1>2, <1>3, <1>4, <1>5, <1>9, <2>1 DEF Resolve, Resolution
  <2>2. CASE x.tier < y.tier
    <3>1. x.tier # y.tier /\ ~(y.tier < x.tier)
      BY <1>1, <2>2
    <3>2. Resolve(x, y) = Resolution("winner_by_precedence", 1, 2, FALSE)
      BY <1>1, <1>9, <2>2, <3>1 DEF Resolve
    <3>3. Resolve(y, x) = Resolution("winner_by_precedence", 1, 2, FALSE)
      BY <1>1, <1>3, <1>4, <1>5, <1>9, <2>2, <3>1 DEF Resolve
    <3> QED BY <1>2, <3>2, <3>3 DEF Resolution
  <2>3. CASE y.tier < x.tier
    <3>1. x.tier # y.tier /\ ~(x.tier < y.tier)
      BY <1>1, <2>3
    <3>2. Resolve(x, y) = Resolution("winner_by_precedence", 2, 1, FALSE)
      BY <1>1, <1>9, <2>3, <3>1 DEF Resolve
    <3>3. Resolve(y, x) = Resolution("winner_by_precedence", 2, 1, FALSE)
      BY <1>1, <1>3, <1>4, <1>5, <1>9, <2>3, <3>1 DEF Resolve
    <3> QED BY <1>2, <3>2, <3>3 DEF Resolution
  <2> QED BY <1>1, <2>1, <2>2, <2>3
<1> QED BY <1>6, <1>7, <1>8, <1>9

------------------------------------------------------------------------------
(* The invariant of the gates.                                             *)

\* What a gate that ran leaves true of the artifact, if it is still draft.
Stops(a) == a.status \in PassesThrough
Sourced(a) == a.status \notin {"rejected", "superseded"} => a.refs # <<>>
Verified(a) == ~Stops(a) => SourceOk[a.id]
Reviewed(a) == ~Stops(a) => "contradicts-stable-rule" \notin a.tags
Clear(a) == ~Stops(a) => ~Ambiguous(a)

PastHuman == {"confidence_scoring"}
PastReview == {"human_approval_gate"} \cup PastHuman
PastSource == {"trust_verification", "engineering_review"} \cup PastReview
PastSchema == {"duplicate_detection", "remember", "version_conflict_detection", "source_verification"} \cup PastSource
InGates == {"schema_validation"} \cup PastSchema

Known(a) == IsArtifact(a) /\ a.refs # <<>> /\ ~Stops(a)

RunOK(r) ==
  LET a == run[r].artifact IN
  /\ run[r].at \in InGates => Ready(a)
  /\ run[r].at \in PastSchema => Sourced(a)
  /\ run[r].at = "remember" => \A e \in run[r].found : Known(e)
  /\ run[r].at \in PastSource => Verified(a)
  /\ run[r].at \in PastReview => Reviewed(a)
  /\ run[r].at \in PastHuman => Clear(a)

RunFields == {"at", "artifact", "found", "brought"}
RunsTyped ==
  /\ run = [r \in Runs |-> run[r]]
  /\ \A r \in Runs : run[r] = [f \in RunFields |-> run[r][f]]

ContentsOK == \A key \in DOMAIN contents : Known(contents[key])

PendingOK ==
  \A id \in DOMAIN pending :
    /\ IsArtifact(pending[id]) /\ pending[id].refs # <<>>
    /\ pending[id].id = id /\ pending[id].status = "pending-human-approval"

Consented(a) ==
  /\ a.id \in approved \/ ("contradicts-stable-rule" \notin a.tags /\ ~Ambiguous(a))
  /\ a.refs # <<>> /\ (a.id \in approved \/ SourceOk[a.id])

ReturnedOK ==
  \A a \in returned :
    /\ IsArtifact(a)
    /\ a.status = "validated" => Consented(a)

GatesInvariant == RunsTyped /\ (\A r \in Runs : RunOK(r)) /\ ContentsOK /\ PendingOK /\ ReturnedOK

LEMMA GatesStart ==
  ASSUME GatesInit
  PROVE  GatesInvariant
<1>1. RunsTyped
  BY DEF GatesInit, RunsTyped, RunFields
<1>2. ASSUME NEW r \in Runs PROVE RunOK(r)
  BY <1>2 DEF GatesInit, RunOK, InGates, PastSchema, PastSource, PastReview, PastHuman
<1>3. ContentsOK /\ PendingOK /\ ReturnedOK
  BY DEF GatesInit, ContentsOK, PendingOK, ReturnedOK
<1> QED BY <1>1, <1>2, <1>3 DEF GatesInvariant

\* The gates follow each other.
LEMMA GatesFollow ==
  /\ NextGate("schema_validation") = "duplicate_detection"
  /\ NextGate("remember") = "version_conflict_detection"
  /\ NextGate("version_conflict_detection") = "source_verification"
  /\ NextGate("source_verification") = "trust_verification"
  /\ NextGate("trust_verification") = "engineering_review"
  /\ NextGate("engineering_review") = "human_approval_gate"
  /\ NextGate("human_approval_gate") = "confidence_scoring"
  /\ NextGate("confidence_scoring") = "done"
<1>1. ASSUME NEW g, NEW k \in 1..9, \A i \in 1..10 : Gates[i] = g <=> i = k
      PROVE  NextGate(g) = Gates[k + 1]
  <2>1. Len(Gates) = 10
    BY DEF Gates
  <2>2. (CHOOSE i \in 1..Len(Gates) : Gates[i] = g) = k
    BY <1>1, <2>1
  <2> DEFINE at == CHOOSE i \in 1..Len(Gates) : Gates[i] = g
  <2>3. NextGate(g) = Gates[1 + at]
    BY DEF NextGate
  <2>4. at = k
    BY <2>2
  <2> HIDE DEF at
  <2>5. 1 + at = k + 1
    BY <2>4
  <2> QED BY <2>3, <2>5
<1>2. NextGate("schema_validation") = Gates[2]
  <2>1. \A i \in 1..10 : Gates[i] = "schema_validation" <=> i = 1
    BY DEF Gates
  <2> QED BY <1>1, <2>1
<1>3. NextGate("remember") = Gates[4]
  <2>1. \A i \in 1..10 : Gates[i] = "remember" <=> i = 3
    BY DEF Gates
  <2> QED BY <1>1, <2>1
<1>4. NextGate("version_conflict_detection") = Gates[5]
  <2>1. \A i \in 1..10 : Gates[i] = "version_conflict_detection" <=> i = 4
    BY DEF Gates
  <2> QED BY <1>1, <2>1
<1>5. NextGate("source_verification") = Gates[6]
  <2>1. \A i \in 1..10 : Gates[i] = "source_verification" <=> i = 5
    BY DEF Gates
  <2> QED BY <1>1, <2>1
<1>6. NextGate("trust_verification") = Gates[7]
  <2>1. \A i \in 1..10 : Gates[i] = "trust_verification" <=> i = 6
    BY DEF Gates
  <2> QED BY <1>1, <2>1
<1>7. NextGate("engineering_review") = Gates[8]
  <2>1. \A i \in 1..10 : Gates[i] = "engineering_review" <=> i = 7
    BY DEF Gates
  <2> QED BY <1>1, <2>1
<1>8. NextGate("human_approval_gate") = Gates[9]
  <2>1. \A i \in 1..10 : Gates[i] = "human_approval_gate" <=> i = 8
    BY DEF Gates
  <2> QED BY <1>1, <2>1
<1>9. NextGate("confidence_scoring") = Gates[10]
  <2>1. \A i \in 1..10 : Gates[i] = "confidence_scoring" <=> i = 9
    BY DEF Gates
  <2> QED BY <1>1, <2>1
<1> QED BY <1>2, <1>3, <1>4, <1>5, <1>6, <1>7, <1>8, <1>9 DEF Gates

\* An artifact keeps everything but the field that is set.
LEMMA FieldSet ==
  ASSUME NEW a, a = [f \in ArtifactFields |-> a[f]], NEW g \in ArtifactFields, NEW v
  PROVE  /\ [a EXCEPT ![g] = v] = [f \in ArtifactFields |-> [a EXCEPT ![g] = v][f]]
         /\ [a EXCEPT ![g] = v][g] = v
         /\ \A f \in ArtifactFields \ {g} : [a EXCEPT ![g] = v][f] = a[f]
OBVIOUS

LEMMA StatusSet ==
  ASSUME NEW a, IsArtifact(a), NEW s \in Statuses
  PROVE  LET b == [a EXCEPT !.status = s] IN
         /\ IsArtifact(b) /\ b.status = s
         /\ b.refs = a.refs /\ b.id = a.id /\ b.tags = a.tags /\ b.method = a.method
<1>1. a = [f \in ArtifactFields |-> a[f]] /\ "status" \in ArtifactFields
  BY DEF IsArtifact, ArtifactFields
<1> DEFINE b == [a EXCEPT !.status = s]
<1>2. b = [f \in ArtifactFields |-> b[f]] /\ b.status = s
  BY <1>1
<1>3. \A f \in ArtifactFields \ {"status"} : b[f] = a[f]
  BY <1>1
<1>4. b.refs = a.refs /\ b.id = a.id /\ b.tags = a.tags /\ b.method = a.method /\ b.links = a.links
  BY <1>3 DEF ArtifactFields
<1> HIDE DEF b
<1>5. IsArtifact(b)
  BY <1>2, <1>4 DEF IsArtifact
<1> QED BY <1>2, <1>4, <1>5 DEF b

\* Moving one run along leaves the others where they are.
LEMMA Carried ==
  ASSUME RunsTyped, NEW r \in Runs, NEW a, Carry(r, a)
  PROVE  /\ RunsTyped'
         /\ run'[r].at = NextGate(run[r].at) /\ run'[r].artifact = a
         /\ \A s \in Runs \ {r} : run'[s] = run[s]
<1>1. run' = [run EXCEPT ![r] = [run[r] EXCEPT !.at = NextGate(@), !.artifact = a]]
  BY DEF Carry
<1>2. DOMAIN run = Runs /\ DOMAIN run[r] = RunFields
  BY DEF RunsTyped
<1>3. run' = [s \in Runs |-> IF s = r THEN [run[r] EXCEPT !.at = NextGate(@), !.artifact = a] ELSE run[s]]
  BY <1>1, <1>2 DEF RunsTyped
<1>4. run'[r] = [run[r] EXCEPT !.at = NextGate(@), !.artifact = a] /\ \A s \in Runs \ {r} : run'[s] = run[s]
  BY <1>3
<1>5. run'[r].at = NextGate(run[r].at) /\ run'[r].artifact = a
  BY <1>2, <1>4 DEF RunFields
<1>6. run'[r] = [f \in RunFields |-> run'[r][f]]
  BY <1>2, <1>4 DEF RunFields
<1> QED BY <1>3, <1>4, <1>5, <1>6 DEF RunsTyped

LEMMA Failed ==
  ASSUME RunsTyped, NEW r \in Runs, Fail(r)
  PROVE  /\ RunsTyped'
         /\ run'[r].at = "failed"
         /\ \A s \in Runs \ {r} : run'[s] = run[s]
<1>1. run' = [run EXCEPT ![r] = [run[r] EXCEPT !.at = "failed"]]
  BY DEF Fail
<1>2. DOMAIN run = Runs /\ DOMAIN run[r] = RunFields
  BY DEF RunsTyped
<1>3. run' = [s \in Runs |-> IF s = r THEN [run[r] EXCEPT !.at = "failed"] ELSE run[s]]
  BY <1>1, <1>2 DEF RunsTyped
<1>4. run'[r] = [run[r] EXCEPT !.at = "failed"] /\ \A s \in Runs \ {r} : run'[s] = run[s]
  BY <1>3
<1>5. run'[r].at = "failed"
  BY <1>2, <1>4 DEF RunFields
<1>6. run'[r] = [f \in RunFields |-> run'[r][f]]
  BY <1>2, <1>4 DEF RunFields
<1> QED BY <1>3, <1>4, <1>5, <1>6 DEF RunsTyped

LEMMA OthersStay ==
  ASSUME GatesInvariant, NEW s \in Runs, run'[s] = run[s]
  PROVE  RunOK(s)'
<1>1. RunOK(s)
  BY DEF GatesInvariant
<1>2. (run[s].at \in InGates => Ready(run[s].artifact))'
  BY <1>1 DEF RunOK, Ready, IsArtifact
<1>3. (run[s].at \in PastSchema => Sourced(run[s].artifact))'
  BY <1>1 DEF RunOK, Sourced
<1>4. (run[s].at = "remember" => \A e \in run[s].found : Known(e))'
  BY <1>1 DEF RunOK, Known, IsArtifact, Stops
<1>5. (run[s].at \in PastSource => Verified(run[s].artifact))'
  BY <1>1 DEF RunOK, Verified, Stops
<1>6. (run[s].at \in PastReview => Reviewed(run[s].artifact))'
  BY <1>1 DEF RunOK, Reviewed, Stops
<1>7. (run[s].at \in PastHuman => Clear(run[s].artifact))'
  BY <1>1 DEF RunOK, Clear, Stops
<1> QED BY <1>2, <1>3, <1>4, <1>5, <1>6, <1>7 DEF RunOK

\* A gate that changes nothing but its run.
LEMMA OneRunMoved ==
  ASSUME GatesInvariant, NEW r \in Runs, RunsTyped', RunOK(r)',
         \A s \in Runs \ {r} : run'[s] = run[s],
         UNCHANGED <<store, pending, returned, approved, decided>>
  PROVE  GatesInvariant'
<1>1. /\ contents' = contents /\ pending' = pending /\ returned' = returned
      /\ approved' = approved
  BY DEF store
<1>3. \A s \in Runs : RunOK(s)'
  BY OthersStay
<1>4. ContentsOK'
  BY <1>1 DEF GatesInvariant, ContentsOK, Known, IsArtifact, Stops
<1>5. PendingOK'
  BY <1>1 DEF GatesInvariant, PendingOK
<1>6. ReturnedOK'
  BY <1>1 DEF GatesInvariant, ReturnedOK, Consented
<1> QED BY <1>3, <1>4, <1>5, <1>6 DEF GatesInvariant

LEMMA FailedRun ==
  ASSUME NEW r \in Runs, run'[r].at = "failed" \/ run'[r].at = "done" \/ run'[r].at = "none"
  PROVE  RunOK(r)'
BY DEF RunOK, InGates, PastSchema, PastSource, PastReview, PastHuman

LEMMA OneRunFailed ==
  ASSUME GatesInvariant, NEW r \in Runs, Fail(r), UNCHANGED <<store, pending, returned, approved, decided>>
  PROVE  GatesInvariant'
BY Failed, FailedRun, OneRunMoved DEF GatesInvariant

LEMMA StepSubmit ==
  ASSUME GatesInvariant, NEW r \in Runs, NEW a, Ready(a), Submit(r, a)
  PROVE  GatesInvariant'
<1>1. run' = [run EXCEPT ![r] = [run[r] EXCEPT !.at = "schema_validation", !.artifact = a]]
  BY DEF Submit, Gates
<1>2. DOMAIN run = Runs /\ DOMAIN run[r] = RunFields
  BY DEF GatesInvariant, RunsTyped
<1>3. run' = [s \in Runs |-> IF s = r THEN [run[r] EXCEPT !.at = "schema_validation", !.artifact = a] ELSE run[s]]
  BY <1>1, <1>2 DEF GatesInvariant, RunsTyped
<1>4. run'[r] = [run[r] EXCEPT !.at = "schema_validation", !.artifact = a] /\ \A s \in Runs \ {r} : run'[s] = run[s]
  BY <1>3
<1>5. run'[r].at = "schema_validation" /\ run'[r].artifact = a
  BY <1>2, <1>4 DEF RunFields
<1>6. run'[r] = [f \in RunFields |-> run'[r][f]]
  BY <1>2, <1>4 DEF RunFields
<1>7. RunsTyped'
  BY <1>3, <1>4, <1>6 DEF GatesInvariant, RunsTyped
<1>8. RunOK(r)'
  BY <1>5 DEF RunOK, InGates, PastSchema, PastSource, PastReview, PastHuman, Ready, IsArtifact
<1> QED BY <1>4, <1>7, <1>8, OneRunMoved DEF Submit

\* What a gate has to show for the artifact it hands on.
LEMMA HandedOn ==
  ASSUME GatesInvariant, NEW r \in Runs, NEW a, Carry(r, a), NEW g, NextGate(run[r].at) = g,
         UNCHANGED <<store, pending, returned, approved, decided>>,
         g \in PastSchema, g # "remember", Ready(a), Sourced(a),
         g \in PastSource => Verified(a),
         g \in PastReview => Reviewed(a),
         g \notin PastHuman
  PROVE  GatesInvariant'
<1>1. /\ RunsTyped' /\ run'[r].at = g /\ run'[r].artifact = a
      /\ \A s \in Runs \ {r} : run'[s] = run[s]
  BY Carried DEF GatesInvariant
<1>2. RunOK(r)'
  BY <1>1 DEF RunOK, InGates, Ready, IsArtifact, Sourced, Verified, Reviewed, Stops
<1> QED BY <1>1, <1>2, OneRunMoved

LEMMA StepSchema ==
  ASSUME GatesInvariant, NEW r \in Runs, SchemaValidation(r)
  PROVE  GatesInvariant'
<1> DEFINE a == run[r].artifact
           b == AfterSchema(a)
<1>1. run[r].at = "schema_validation" /\ Ready(a)
  BY DEF SchemaValidation, At, GatesInvariant, RunOK, InGates
<1>2. Ready(b) /\ Sourced(b)
  <2>1. CASE a.status \notin PassesThrough /\ (a.refs = <<>> \/ ~a.schema)
    <3>1. b = [a EXCEPT !.status = "rejected"]
      BY <2>1 DEF AfterSchema, Rejected
    <3>2. IsArtifact(a) /\ "rejected" \in Statuses
      BY <1>1 DEF Ready, Statuses
    <3> HIDE DEF a, b
    <3>3. IsArtifact(b) /\ b.status = "rejected"
      BY <3>1, <3>2, StatusSet
    <3> QED BY <3>3 DEF Ready, Sourced, Held
  <2>2. CASE ~(a.status \notin PassesThrough /\ (a.refs = <<>> \/ ~a.schema))
    <3>1. b = a
      BY <2>2 DEF AfterSchema
    <3> HIDE DEF a, b
    <3> QED BY <1>1, <2>2, <3>1 DEF Ready, Sourced, PassesThrough
  <2> QED BY <2>1, <2>2
<1>3. Carry(r, b) /\ UNCHANGED <<store, pending, returned, approved, decided>>
  BY DEF SchemaValidation
<1>4. NextGate(run[r].at) = "duplicate_detection"
  BY <1>1, GatesFollow
<1> HIDE DEF a, b
<1>5. /\ "duplicate_detection" \in PastSchema /\ "duplicate_detection" \notin PastSource
      /\ "duplicate_detection" \notin PastReview /\ "duplicate_detection" \notin PastHuman
  BY DEF PastSchema, PastSource, PastReview, PastHuman
<1> QED BY <1>2, <1>3, <1>4, <1>5, HandedOn

LEMMA StepDuplicate ==
  ASSUME GatesInvariant, NEW r \in Runs, DuplicateDetection(r)
  PROVE  GatesInvariant'
<1> DEFINE a == run[r].artifact
           found == IF Stopped(r) THEN {} ELSE FindExactDuplicate(a)
<1>1. run[r].at = "duplicate_detection" /\ Ready(a) /\ Sourced(a)
  BY DEF DuplicateDetection, At, GatesInvariant, RunOK, InGates, PastSchema
<1>2. \A e \in found : Known(e)
  BY DEF FindExactDuplicate, GatesInvariant, ContentsOK
<1>3. run' = [run EXCEPT ![r] = [run[r] EXCEPT !.at = "remember", !.found = found]]
  BY DEF DuplicateDetection
<1> HIDE DEF found
<1>4. DOMAIN run = Runs /\ DOMAIN run[r] = RunFields
  BY DEF GatesInvariant, RunsTyped
<1>5. run' = [s \in Runs |-> IF s = r THEN [run[r] EXCEPT !.at = "remember", !.found = found] ELSE run[s]]
  BY <1>3, <1>4 DEF GatesInvariant, RunsTyped
<1>6. run'[r] = [run[r] EXCEPT !.at = "remember", !.found = found] /\ \A s \in Runs \ {r} : run'[s] = run[s]
  BY <1>5
<1>7. run'[r].at = "remember" /\ run'[r].artifact = a /\ run'[r].found = found
  BY <1>4, <1>6 DEF RunFields
<1>8. run'[r] = [f \in RunFields |-> run'[r][f]]
  BY <1>4, <1>6 DEF RunFields
<1>9. RunsTyped'
  BY <1>5, <1>6, <1>8 DEF GatesInvariant, RunsTyped
<1> HIDE DEF a
<1>10. RunOK(r)'
  <2>1. "remember" \notin PastSource /\ "remember" \notin PastReview /\ "remember" \notin PastHuman
    BY DEF PastSource, PastReview, PastHuman
  <2> QED BY <1>1, <1>2, <1>7, <2>1 DEF RunOK, Ready, IsArtifact, Sourced, Known, Stops
<1> QED BY <1>6, <1>9, <1>10, OneRunMoved DEF DuplicateDetection

\* A merged artifact has references if the stored one has.
LEMMA MergedIsKnown ==
  ASSUME NEW e, NEW a, Known(e), IsArtifact(a)
  PROVE  Known([e EXCEPT !.refs = MergedRefs(e, a)])
<1> DEFINE b == [e EXCEPT !.refs = MergedRefs(e, a)]
<1>1. e = [f \in ArtifactFields |-> e[f]] /\ "refs" \in ArtifactFields
  BY DEF Known, IsArtifact, ArtifactFields
<1>2. b = [f \in ArtifactFields |-> b[f]] /\ b.refs = MergedRefs(e, a)
  BY <1>1
<1>3. b.links = e.links /\ b.status = e.status
  BY <1>1 DEF ArtifactFields
<1>4. IsList(e.refs) /\ IsList(a.refs) /\ e.refs # <<>>
  BY DEF Known, IsArtifact
<1>5. IsList(MergedRefs(e, a)) /\ MergedRefs(e, a) # <<>>
  <2>1. IsList(e.refs \o a.refs)
    BY <1>4, Concatenated
  <2>2. Len(e.refs) \in Nat /\ Len(e.refs) # 0
    BY <1>4 DEF IsList
  <2>3. e.refs \in Seq(Elements(e.refs)) /\ a.refs \in Seq(Elements(a.refs))
    BY <1>4, ListIsSeq
  <2>4. Len(e.refs \o a.refs) = Len(e.refs) + Len(a.refs) /\ Len(a.refs) \in Nat
    BY <2>3
  <2>5. e.refs \o a.refs # <<>>
    BY <2>2, <2>4
  <2> QED BY <2>1, <2>5 DEF MergedRefs
<1> HIDE DEF b
<1>6. IsArtifact(b)
  BY <1>2, <1>3, <1>5 DEF Known, IsArtifact
<1> QED BY <1>2, <1>3, <1>5, <1>6 DEF Known, Stops, b

LEMMA StepRemember ==
  ASSUME GatesInvariant, NEW r \in Runs, RememberArtifact(r)
  PROVE  GatesInvariant'
<1> DEFINE a == run[r].artifact
           m == Merged(r)
<1>1. /\ run[r].at = "remember" /\ Ready(a) /\ Sourced(a)
      /\ \A e \in run[r].found : Known(e)
  BY DEF RememberArtifact, At, GatesInvariant, RunOK, InGates, PastSchema
<1>2. NextGate(run[r].at) = "version_conflict_detection"
  BY <1>1, GatesFollow
<1>3. /\ "version_conflict_detection" \in PastSchema /\ "version_conflict_detection" \in InGates
      /\ "version_conflict_detection" \notin PastSource /\ "version_conflict_detection" \notin PastReview
      /\ "version_conflict_detection" \notin PastHuman
  BY DEF InGates, PastSchema, PastSource, PastReview, PastHuman
<1>4. CASE Stopped(r)
  <2>1. Carry(r, a) /\ UNCHANGED <<store, pending, returned, approved, decided>>
    BY <1>4 DEF RememberArtifact
  <2> HIDE DEF a
  <2> QED BY <1>1, <1>2, <1>3, <2>1, HandedOn
<1>5. CASE ~Stopped(r)
  <2>1. Known(m)
    <3>1. CASE run[r].found = {}
      <4>1. m = a
        BY <3>1 DEF Merged
      <4> QED BY <1>1, <1>5, <4>1 DEF Stopped, Known, Ready, Sourced, Stops, PassesThrough
    <3>2. CASE run[r].found # {}
      <4>1. PICK e \in run[r].found : m = [e EXCEPT !.refs = MergedRefs(e, a)]
        BY <3>2 DEF Merged
      <4>2. IsArtifact(a) /\ Known(e)
        BY <1>1, <3>2 DEF Ready
      <4> HIDE DEF a, m
      <4> QED BY <4>1, <4>2, MergedIsKnown
    <3> QED BY <3>1, <3>2
  <2>2. /\ contents' = With(contents, Key(m), m)
        /\ run' = [run EXCEPT ![r] = [run[r] EXCEPT !.at = NextGate(@), !.artifact = m, !.brought = a.refs]]
        /\ UNCHANGED <<pending, returned, approved, decided>>
    BY <1>5 DEF RememberArtifact, Remember
  <2> HIDE DEF m, a
  <2>3. DOMAIN run = Runs /\ DOMAIN run[r] = RunFields
    BY DEF GatesInvariant, RunsTyped
  <2>4. run' = [s \in Runs |->
                  IF s = r THEN [run[r] EXCEPT !.at = NextGate(@), !.artifact = m, !.brought = a.refs] ELSE run[s]]
    BY <2>2, <2>3 DEF GatesInvariant, RunsTyped
  <2>5. /\ run'[r] = [run[r] EXCEPT !.at = NextGate(@), !.artifact = m, !.brought = a.refs]
        /\ \A s \in Runs \ {r} : run'[s] = run[s]
    BY <2>4
  <2>6. run'[r].at = "version_conflict_detection" /\ run'[r].artifact = m
    BY <1>2, <2>3, <2>5 DEF RunFields
  <2>7. run'[r] = [f \in RunFields |-> run'[r][f]]
    BY <2>3, <2>5 DEF RunFields
  <2>8. RunsTyped'
    BY <2>4, <2>5, <2>7 DEF GatesInvariant, RunsTyped
  <2>9. RunOK(r)'
    <3>1. Ready(m) /\ Sourced(m)
      BY <2>1 DEF Known, Ready, Sourced
    <3> QED BY <1>3, <2>6, <3>1 DEF RunOK, Ready, IsArtifact, Sourced
  <2>11. \A s \in Runs : RunOK(s)'
    BY <2>5, <2>9, OthersStay
  <2>12. ContentsOK'
    <3> SUFFICES ASSUME NEW key \in DOMAIN contents' PROVE Known(contents[key])'
      BY DEF ContentsOK
    <3>1. contents'[key] = m \/ (key \in DOMAIN contents /\ contents'[key] = contents[key])
      BY <2>2 DEF With
    <3>2. Known(m) /\ \A k \in DOMAIN contents : Known(contents[k])
      BY <2>1 DEF GatesInvariant, ContentsOK
    <3> QED BY <3>1, <3>2 DEF Known, IsArtifact, Stops
  <2>13. PendingOK'
    BY <2>2 DEF GatesInvariant, PendingOK
  <2>14. ReturnedOK'
    BY <2>2 DEF GatesInvariant, ReturnedOK, Consented
  <2> QED BY <2>8, <2>11, <2>12, <2>13, <2>14 DEF GatesInvariant
<1> QED BY <1>4, <1>5

LEMMA VerdictIsStatus ==
  ASSUME NEW a, IsArtifact(a), NEW e
  PROVE  Verdict(a, e) \in Statuses /\ (Verdict(a, e) # "superseded" => Verdict(a, e) \in {"pending-conflict-resolution", a.status})
BY DEF Verdict, IsArtifact, Statuses, Held

LEMMA StepVersions ==
  ASSUME GatesInvariant, NEW r \in Runs, VersionConflictDetection(r)
  PROVE  GatesInvariant'
<1> DEFINE a == run[r].artifact
           compared == ~Stopped(r) /\ a.version # None
           b == IF compared THEN AfterConflicts(a) ELSE a
<1>1. run[r].at = "version_conflict_detection" /\ Ready(a) /\ Sourced(a)
  BY DEF VersionConflictDetection, At, GatesInvariant, RunOK, InGates, PastSchema
<1>2. UNCHANGED <<store, pending, returned, approved, decided>> /\ (Carry(r, b) \/ Fail(r))
  BY DEF VersionConflictDetection
<1>3. NextGate(run[r].at) = "source_verification"
  BY <1>1, GatesFollow
<1>4. /\ "source_verification" \in PastSchema /\ "source_verification" \notin PastSource
      /\ "source_verification" \notin PastReview /\ "source_verification" \notin PastHuman
  BY DEF PastSchema, PastSource, PastReview, PastHuman
<1>5. Ready(b) /\ Sourced(b)
  <2>1. CASE ~compared \/ Stronger(a) = <<>>
    <3>1. b = a
      BY <2>1 DEF AfterConflicts
    <3> HIDE DEF b
    <3> QED BY <1>1, <3>1
  <2>2. CASE compared /\ Stronger(a) # <<>>
    <3> DEFINE v == Verdict(a, Head(Stronger(a)))
    <3>1. b = [a EXCEPT !.status = v]
      BY <2>2 DEF AfterConflicts
    <3>2. a.refs # <<>> /\ IsArtifact(a)
      BY <1>1, <2>2 DEF Stopped, Sourced, Ready, PassesThrough
    <3> HIDE DEF a, b
    <3>3. v \in Statuses
      BY <3>2, VerdictIsStatus
    <3> HIDE DEF v
    <3>4. IsArtifact(b) /\ b.refs = a.refs
      BY <3>1, <3>2, <3>3, StatusSet
    <3> QED BY <3>2, <3>4 DEF Ready, Sourced
  <2> QED BY <2>1, <2>2
<1> HIDE DEF a, b
<1>6. CASE Carry(r, b)
  BY <1>2, <1>3, <1>4, <1>5, <1>6, HandedOn
<1>7. CASE Fail(r)
  BY <1>2, <1>7, OneRunFailed
<1> QED BY <1>2, <1>6, <1>7

LEMMA StepSource ==
  ASSUME GatesInvariant, NEW r \in Runs, SourceVerification(r)
  PROVE  GatesInvariant'
<1> DEFINE a == run[r].artifact
           b == IF Stopped(r) \/ SourceOk[a.id] THEN a ELSE Rejected(a)
<1>1. run[r].at = "source_verification" /\ Ready(a) /\ Sourced(a)
  BY DEF SourceVerification, At, GatesInvariant, RunOK, InGates, PastSchema
<1>2. UNCHANGED <<store, pending, returned, approved, decided>> /\ Carry(r, b)
  BY DEF SourceVerification
<1>3. NextGate(run[r].at) = "trust_verification"
  BY <1>1, GatesFollow
<1>4. /\ "trust_verification" \in PastSchema /\ "trust_verification" \in PastSource
      /\ "trust_verification" \notin PastReview /\ "trust_verification" \notin PastHuman
  BY DEF PastSchema, PastSource, PastReview, PastHuman
<1>5. Ready(b) /\ Sourced(b) /\ Verified(b)
  <2>1. CASE Stopped(r) \/ SourceOk[a.id]
    <3>1. b = a
      BY <2>1
    <3>2. Verified(a)
      BY <2>1 DEF Verified, Stopped, Stops
    <3> HIDE DEF b
    <3> QED BY <1>1, <3>1, <3>2
  <2>2. CASE ~(Stopped(r) \/ SourceOk[a.id])
    <3>1. b = [a EXCEPT !.status = "rejected"]
      BY <2>2 DEF Rejected
    <3>2. IsArtifact(a) /\ "rejected" \in Statuses
      BY <1>1 DEF Ready, Statuses
    <3> HIDE DEF a, b
    <3>3. IsArtifact(b) /\ b.status = "rejected"
      BY <3>1, <3>2, StatusSet
    <3> QED BY <3>3 DEF Ready, Sourced, Verified, Stops, PassesThrough, Held
  <2> QED BY <2>1, <2>2
<1> HIDE DEF a, b
<1> QED BY <1>2, <1>3, <1>4, <1>5, HandedOn

LEMMA StepTrust ==
  ASSUME GatesInvariant, NEW r \in Runs, TrustVerification(r)
  PROVE  GatesInvariant'
<1> DEFINE a == run[r].artifact
           low == ~Stopped(r) /\ TrustScore[a.id] < Threshold(a)
           b == IF low THEN [a EXCEPT !.tags = @ \cup {"low-confidence"}] ELSE a
<1>1. run[r].at = "trust_verification" /\ Ready(a) /\ Sourced(a) /\ Verified(a)
  BY DEF TrustVerification, At, GatesInvariant, RunOK, InGates, PastSchema, PastSource
<1>2. UNCHANGED <<store, pending, returned, approved, decided>> /\ Carry(r, b)
  BY DEF TrustVerification
<1>3. NextGate(run[r].at) = "engineering_review"
  BY <1>1, GatesFollow
<1>4. /\ "engineering_review" \in PastSchema /\ "engineering_review" \in PastSource
      /\ "engineering_review" \notin PastReview /\ "engineering_review" \notin PastHuman
  BY DEF PastSchema, PastSource, PastReview, PastHuman
<1>5. Ready(b) /\ Sourced(b) /\ Verified(b)
  <2>1. CASE ~low
    <3>1. b = a
      BY <2>1
    <3> HIDE DEF b
    <3> QED BY <1>1, <3>1
  <2>2. CASE low
    <3>1. b = [a EXCEPT !.tags = a.tags \cup {"low-confidence"}]
      BY <2>2
    <3>2. a = [f \in ArtifactFields |-> a[f]] /\ "tags" \in ArtifactFields
      BY <1>1 DEF Ready, IsArtifact, ArtifactFields
    <3> HIDE DEF a, b
    <3>3. b = [f \in ArtifactFields |-> b[f]] /\ \A f \in ArtifactFields \ {"tags"} : b[f] = a[f]
      BY <3>1, <3>2
    <3>4. b.refs = a.refs /\ b.links = a.links /\ b.status = a.status /\ b.id = a.id
      BY <3>3 DEF ArtifactFields
    <3>5. IsArtifact(b)
      BY <1>1, <3>3, <3>4 DEF Ready, IsArtifact
    <3> QED BY <1>1, <3>4, <3>5 DEF Ready, Sourced, Verified, Stops
  <2> QED BY <2>1, <2>2
<1> HIDE DEF a, b
<1> QED BY <1>2, <1>3, <1>4, <1>5, HandedOn

LEMMA StepReview ==
  ASSUME GatesInvariant, NEW r \in Runs, EngineeringReview(r)
  PROVE  GatesInvariant'
<1> DEFINE a == run[r].artifact
           contradicts == ~Stopped(r) /\ "contradicts-stable-rule" \in a.tags
           b == IF contradicts THEN [a EXCEPT !.status = "pending-human-approval"] ELSE a
<1>1. run[r].at = "engineering_review" /\ Ready(a) /\ Sourced(a) /\ Verified(a)
  BY DEF EngineeringReview, At, GatesInvariant, RunOK, InGates, PastSchema, PastSource
<1>2. UNCHANGED <<store, pending, returned, approved, decided>> /\ Carry(r, b)
  BY DEF EngineeringReview
<1>3. NextGate(run[r].at) = "human_approval_gate"
  BY <1>1, GatesFollow
<1>4. /\ "human_approval_gate" \in PastSchema /\ "human_approval_gate" \in PastSource
      /\ "human_approval_gate" \in PastReview /\ "human_approval_gate" \notin PastHuman
  BY DEF PastSchema, PastSource, PastReview, PastHuman
<1>5. Ready(b) /\ Sourced(b) /\ Verified(b) /\ Reviewed(b)
  <2>1. CASE ~contradicts
    <3>1. b = a
      BY <2>1
    <3>2. Reviewed(a)
      BY <2>1 DEF Reviewed, Stopped, Stops
    <3> HIDE DEF b
    <3> QED BY <1>1, <3>1, <3>2
  <2>2. CASE contradicts
    <3>1. b = [a EXCEPT !.status = "pending-human-approval"]
      BY <2>2
    <3>2. IsArtifact(a) /\ a.refs # <<>> /\ "pending-human-approval" \in Statuses
      BY <1>1, <2>2 DEF Ready, Sourced, Stopped, PassesThrough, Statuses, Held
    <3> HIDE DEF a, b
    <3>3. IsArtifact(b) /\ b.status = "pending-human-approval" /\ b.refs = a.refs
      BY <3>1, <3>2, StatusSet
    <3> QED BY <3>2, <3>3 DEF Ready, Sourced, Verified, Reviewed, Stops, PassesThrough, Held
  <2> QED BY <2>1, <2>2
<1> HIDE DEF a, b
<1> QED BY <1>2, <1>3, <1>4, <1>5, HandedOn

LEMMA StepHuman ==
  ASSUME GatesInvariant, NEW r \in Runs, HumanApprovalGate(r)
  PROVE  GatesInvariant'
<1> DEFINE a == run[r].artifact
           held == [a EXCEPT !.status = "pending-human-approval"]
<1>1. run[r].at = "human_approval_gate" /\ Ready(a) /\ Sourced(a) /\ Verified(a) /\ Reviewed(a)
  BY DEF HumanApprovalGate, At, GatesInvariant, RunOK, InGates, PastSchema, PastSource, PastReview
<1>2. NextGate(run[r].at) = "confidence_scoring"
  BY <1>1, GatesFollow
<1>3. /\ "confidence_scoring" \in InGates /\ "confidence_scoring" \in PastSchema /\ "confidence_scoring" \in PastSource
      /\ "confidence_scoring" \in PastReview /\ "confidence_scoring" \in PastHuman
  BY DEF InGates, PastSchema, PastSource, PastReview, PastHuman
<1>4. UNCHANGED <<store, returned, approved, decided>>
  BY DEF HumanApprovalGate
<1>5. CASE NeedsHuman(a)
  <2>1. pending' = With(pending, a.id, held) /\ (Carry(r, held) \/ Fail(r))
    BY <1>5 DEF HumanApprovalGate
  <2>2. IsArtifact(a) /\ a.refs # <<>> /\ "pending-human-approval" \in Statuses
    BY <1>1, <1>5 DEF NeedsHuman, Ready, Sourced, Statuses, Held
  <2>3. IsArtifact(held) /\ held.status = "pending-human-approval" /\ held.refs = a.refs /\ held.id = a.id
    BY <2>2, StatusSet
  <2> HIDE DEF a, held
  <2>4. /\ DOMAIN pending' = DOMAIN pending \cup {a.id}
        /\ \A id \in DOMAIN pending' : pending'[id] = IF id = a.id THEN held ELSE pending[id]
    BY <2>1 DEF With
  <2>5. PendingOK'
    <3> SUFFICES ASSUME NEW id \in DOMAIN pending'
                 PROVE  /\ IsArtifact(pending[id])' /\ pending'[id].refs # <<>>
                        /\ pending'[id].id = id /\ pending'[id].status = "pending-human-approval"
      BY DEF PendingOK
    <3>1. CASE id = a.id
      BY <2>2, <2>3, <2>4, <3>1 DEF IsArtifact
    <3>2. CASE id # a.id
      <4>1. id \in DOMAIN pending /\ pending'[id] = pending[id]
        BY <2>4, <3>2
      <4> QED BY <4>1 DEF GatesInvariant, PendingOK, IsArtifact
    <3> QED BY <3>1, <3>2
  <2>7. RunsTyped' /\ RunOK(r)' /\ \A s \in Runs \ {r} : run'[s] = run[s]
    <3>1. CASE Carry(r, held)
      <4>1. /\ RunsTyped' /\ run'[r].at = "confidence_scoring" /\ run'[r].artifact = held
            /\ \A s \in Runs \ {r} : run'[s] = run[s]
        BY <1>2, <3>1, Carried DEF GatesInvariant
      <4>2. Ready(held) /\ Sourced(held) /\ Stops(held)
        BY <2>2, <2>3 DEF Ready, Sourced, Stops, PassesThrough, Held
      <4>4. RunOK(r)'
        BY <4>1, <4>2 DEF RunOK, Ready, IsArtifact, Sourced, Verified, Reviewed, Clear, Stops
      <4> QED BY <4>1, <4>4
    <3>2. CASE Fail(r)
      BY <3>2, Failed, FailedRun DEF GatesInvariant
    <3> QED BY <2>1, <3>1, <3>2
  <2>8. \A s \in Runs : RunOK(s)'
    BY <2>7, OthersStay
  <2>9. ContentsOK'
    BY <1>4 DEF store, GatesInvariant, ContentsOK, Known, IsArtifact, Stops
  <2>10. ReturnedOK'
    BY <1>4 DEF GatesInvariant, ReturnedOK, Consented
  <2> QED BY <2>5, <2>7, <2>8, <2>9, <2>10 DEF GatesInvariant
<1>6. CASE ~NeedsHuman(a)
  <2>1. Carry(r, a) /\ pending' = pending
    BY <1>6 DEF HumanApprovalGate
  <2>2. /\ RunsTyped' /\ run'[r].at = "confidence_scoring" /\ run'[r].artifact = a
        /\ \A s \in Runs \ {r} : run'[s] = run[s]
    BY <1>2, <2>1, Carried DEF GatesInvariant
  <2>3. a.status \notin Held /\ Clear(a)
    BY <1>6 DEF NeedsHuman, Clear, Stops, PassesThrough, Held
  <2> HIDE DEF a
  <2>4. RunOK(r)'
    BY <1>1, <1>3, <2>2, <2>3 DEF RunOK, Ready, IsArtifact, Sourced, Verified, Reviewed, Clear, Stops
  <2> QED BY <1>4, <2>1, <2>2, <2>4, OneRunMoved
<1> QED BY <1>5, <1>6

\* Scoring changes the status and the confidence, nothing consent looks at.
LEMMA ValidatedArtifact ==
  ASSUME NEW a, IsArtifact(a)
  PROVE  LET b == Validated(a) IN
         /\ IsArtifact(b) /\ b.status = "validated"
         /\ b.refs = a.refs /\ b.id = a.id /\ b.tags = a.tags
         /\ Ambiguous(b) = Ambiguous(a)
<1> DEFINE c == ConfidenceOf(a)
           b == [a EXCEPT !.status = "validated", !.confidence = c]
<1>1. a = [f \in ArtifactFields |-> a[f]] /\ "status" \in ArtifactFields /\ "confidence" \in ArtifactFields
  BY DEF IsArtifact, ArtifactFields
<1>2. b = Validated(a)
  BY DEF Validated
<1> HIDE DEF c
<1>3. b = [f \in ArtifactFields |-> b[f]] /\ b.status = "validated"
  BY <1>1
<1>4. \A f \in ArtifactFields \ {"status", "confidence"} : b[f] = a[f]
  BY <1>1
<1>5. b.refs = a.refs /\ b.links = a.links /\ b.id = a.id /\ b.tags = a.tags /\ b.method = a.method
  BY <1>4 DEF ArtifactFields
<1> HIDE DEF b
<1>6. IsArtifact(b)
  BY <1>3, <1>5 DEF IsArtifact, Statuses
<1>7. ConfidenceOf(b) = ConfidenceOf(a)
  BY <1>5 DEF ConfidenceOf, Corroboration
<1>8. Ambiguous(b) = Ambiguous(a)
  BY <1>7 DEF Ambiguous
<1> QED BY <1>2, <1>3, <1>5, <1>6, <1>8

\* What is returned once more.
LEMMA OneReturned ==
  ASSUME GatesInvariant, NEW a, IsArtifact(a), returned' = returned \cup {a},
         approved \subseteq approved', a.status = "validated" => Consented(a)'
  PROVE  ReturnedOK'
<1> SUFFICES ASSUME NEW b \in returned'
             PROVE  IsArtifact(b) /\ (b.status = "validated" => Consented(b)')
  BY DEF ReturnedOK
<1>1. CASE b = a
  BY <1>1
<1>2. CASE b \in returned
  BY <1>2 DEF GatesInvariant, ReturnedOK, Consented
<1> QED BY <1>1, <1>2

LEMMA StepScoring ==
  ASSUME GatesInvariant, NEW r \in Runs, ConfidenceScoring(r)
  PROVE  GatesInvariant'
<1> DEFINE a == run[r].artifact
           result == IF Scored(a) THEN Validated(a) ELSE a
<1>1. run[r].at = "confidence_scoring" /\ Ready(a) /\ Sourced(a) /\ Verified(a) /\ Reviewed(a) /\ Clear(a)
  BY DEF ConfidenceScoring, At, GatesInvariant, RunOK, InGates, PastSchema, PastSource, PastReview, PastHuman
<1>2. UNCHANGED <<store, pending, approved, decided>>
  BY DEF ConfidenceScoring
<1>3. CASE Carry(r, result) /\ returned' = returned \cup {result}
  <2>1. /\ IsArtifact(result)
        /\ result.status = "validated" => Consented(result)
    <3>1. CASE Scored(a)
      <4>1. result = Validated(a) /\ IsArtifact(a)
        BY <1>1, <3>1 DEF Ready
      <4>2. ~Stops(a)
        BY <3>1 DEF Scored, Stops
      <4>3. a.refs # <<>> /\ SourceOk[a.id] /\ "contradicts-stable-rule" \notin a.tags /\ ~Ambiguous(a)
        BY <1>1, <4>2 DEF Sourced, Verified, Reviewed, Clear, Stops, PassesThrough
      <4> HIDE DEF a, result
      <4>4. /\ IsArtifact(result) /\ result.status = "validated"
            /\ result.refs = a.refs /\ result.id = a.id /\ result.tags = a.tags
            /\ Ambiguous(result) = Ambiguous(a)
        BY <4>1, ValidatedArtifact
      <4> QED BY <4>3, <4>4 DEF Consented, Held
    <3>2. CASE ~Scored(a)
      <4>1. result = a /\ a.status \in PassesThrough
        BY <3>2 DEF Scored
      <4> HIDE DEF result
      <4> QED BY <1>1, <4>1 DEF Ready, PassesThrough, Held
    <3> QED BY <3>1, <3>2
  <2> HIDE DEF a, result
  <2>3. ReturnedOK'
    <3>1. PICK x : x = result
      OBVIOUS
    <3>2. /\ IsArtifact(x) /\ returned' = returned \cup {x}
          /\ x.status = "validated" => Consented(x)
      BY <1>3, <2>1, <3>1
    <3>3. x.status = "validated" => Consented(x)'
      BY <1>2, <3>2 DEF Consented
    <3>4. approved \subseteq approved'
      BY <1>2
    <3> QED BY <3>2, <3>3, <3>4, OneReturned
  <2>4. RunsTyped' /\ run'[r].at = "done" /\ \A s \in Runs \ {r} : run'[s] = run[s]
    BY <1>1, <1>3, Carried, GatesFollow DEF GatesInvariant
  <2>5. \A s \in Runs : RunOK(s)'
    BY <2>4, OthersStay, FailedRun
  <2>6. ContentsOK'
    BY <1>2 DEF store, GatesInvariant, ContentsOK, Known, IsArtifact, Stops
  <2>7. PendingOK'
    BY <1>2 DEF GatesInvariant, PendingOK
  <2> QED BY <2>3, <2>4, <2>5, <2>6, <2>7 DEF GatesInvariant
<1>4. CASE Fail(r) /\ UNCHANGED returned
  BY <1>2, <1>4, OneRunFailed
<1> QED BY <1>3, <1>4 DEF ConfidenceScoring

LEMMA StepResolved ==
  ASSUME GatesInvariant, NEW id \in DOMAIN pending, NEW decision \in {"approved", "rejected"}, Resolved(id, decision)
  PROVE  GatesInvariant'
<1> DEFINE a == pending[id]
           answer == Answered(id, decision)
<1>1. IsArtifact(a) /\ a.refs # <<>> /\ a.id = id
  BY DEF GatesInvariant, PendingOK
<1>2. /\ UNCHANGED <<run, store>>
      /\ pending' = Restrict(pending, DOMAIN pending \ {id})
      /\ approved' = IF decision = "approved" THEN approved \cup {id} ELSE approved
  BY DEF Resolved
<1>3. returned' = returned \cup {answer} \/ returned' = returned
  BY DEF Resolved
<1>4. /\ IsArtifact(answer) /\ answer.id = id /\ answer.status \in {"validated", "rejected"}
      /\ answer.refs # <<>> /\ (answer.status = "validated" => decision = "approved")
  <2>1. CASE decision = "approved"
    <3>1. answer = Validated(a)
      BY <2>1 DEF Answered
    <3> HIDE DEF a, answer
    <3> QED BY <1>1, <2>1, <3>1, ValidatedArtifact
  <2>2. CASE decision = "rejected"
    <3>1. answer = [a EXCEPT !.status = "rejected"] /\ "rejected" \in Statuses
      BY <2>2 DEF Answered, Rejected, Statuses
    <3> HIDE DEF a, answer
    <3> QED BY <1>1, <3>1, StatusSet
  <2> QED BY <2>1, <2>2
<1> HIDE DEF a, answer
<1>5. DOMAIN pending' = DOMAIN pending \ {id} /\ \A i \in DOMAIN pending' : pending'[i] = pending[i]
  BY <1>2 DEF Restrict
<1>7. \A s \in Runs : RunOK(s)'
  BY <1>2, OthersStay
<1>8. RunsTyped'
  BY <1>2 DEF GatesInvariant, RunsTyped
<1>9. ContentsOK'
  BY <1>2 DEF store, GatesInvariant, ContentsOK, Known, IsArtifact, Stops
<1>10. PendingOK'
  <2> SUFFICES ASSUME NEW i \in DOMAIN pending'
               PROVE  /\ IsArtifact(pending[i])' /\ pending'[i].refs # <<>>
                      /\ pending'[i].id = i /\ pending'[i].status = "pending-human-approval"
    BY DEF PendingOK
  <2>1. i \in DOMAIN pending /\ pending'[i] = pending[i]
    BY <1>5
  <2> QED BY <2>1 DEF GatesInvariant, PendingOK, IsArtifact
<1>11. ReturnedOK'
  <2>1. approved \subseteq approved'
    BY <1>2
  <2>2. CASE returned' = returned \cup {answer}
    <3>1. PICK x : x = answer
      OBVIOUS
    <3>2. /\ IsArtifact(x) /\ returned' = returned \cup {x} /\ x.id = id /\ x.refs # <<>>
          /\ x.status \in {"validated", "rejected"} /\ (x.status = "validated" => decision = "approved")
      BY <1>4, <2>2, <3>1
    <3>3. x.status = "validated" => Consented(x)'
      BY <1>2, <3>2 DEF Consented
    <3> QED BY <2>1, <3>2, <3>3, OneReturned
  <2>3. CASE returned' = returned
    <3> SUFFICES ASSUME NEW b \in returned
                 PROVE  IsArtifact(b) /\ (b.status = "validated" => Consented(b)')
      BY <2>3 DEF ReturnedOK
    <3> QED BY <2>1 DEF GatesInvariant, ReturnedOK, Consented
  <2> QED BY <1>3, <2>2, <2>3
<1> QED BY <1>7, <1>8, <1>9, <1>10, <1>11 DEF GatesInvariant

LEMMA StepGate ==
  ASSUME GatesInvariant, NEW r \in Runs, Gate(r)
  PROVE  GatesInvariant'
BY StepSchema, StepDuplicate, StepRemember, StepVersions, StepSource, StepTrust, StepReview, StepHuman, StepScoring
   DEF Gate

------------------------------------------------------------------------------
(* The batch.                                                              *)

BuildInvariant ==
  /\ DOMAIN batch = {"documents", "given", "conflicts"}
  /\ IsList(batch.documents) /\ \A d \in Elements(batch.documents) : IsList(d.items)
  /\ AllReady(batch.given) /\ IsList(batch.conflicts)
  /\ ids \in Counters
  /\ AllReady(drafts)

LEMMA EmptyIsReady == AllReady(<<>>)
BY DEF AllReady, IsList, Elements

LEMMA WellFormedIsArtifact ==
  ASSUME NEW a, WellFormed(a)
  PROVE  IsArtifact(a)
BY DEF WellFormed

LEMMA BuildStarts ==
  ASSUME Init
  PROVE  BuildInvariant
<1>1. batch \in Batches /\ ids = NoIds /\ drafts = <<>>
  BY DEF Init
<1>2. /\ DOMAIN batch = {"documents", "given", "conflicts"}
      /\ IsList(batch.documents) /\ IsList(batch.given) /\ IsList(batch.conflicts)
      /\ \A d \in Elements(batch.documents) : IsList(d.items)
  BY <1>1, BatchesAssumption DEF Elements
<1>3. AllReady(batch.given)
  <2>1. ASSUME NEW a \in Elements(batch.given) PROVE Ready(a)
    <3>1. PICK i \in 1..Len(batch.given) : a = batch.given[i]
      BY DEF Elements
    <3>2. WellFormed(batch.given[i]) /\ (batch.given[i].status \in Held => batch.given[i].refs # <<>>)
      BY <1>1, BatchesAssumption
    <3>3. IsArtifact(batch.given[i])
      BY <3>2, WellFormedIsArtifact
    <3>4. Ready(batch.given[i])
      BY <3>2, <3>3 DEF Ready
    <3> QED BY <3>1, <3>4
  <2> QED BY <1>2, <2>1 DEF AllReady
<1>4. ids \in Counters
  BY <1>1 DEF NoIds, Counters
<1> QED BY <1>1, <1>2, <1>3, <1>4, EmptyIsReady DEF BuildInvariant

LEMMA HeadTaken ==
  ASSUME NEW q, IsList(q), q # <<>>
  PROVE  Head(q) \in Elements(q) /\ IsList(Tail(q)) /\ Elements(Tail(q)) \subseteq Elements(q)
<1>1. q \in Seq(Elements(q))
  BY ListIsSeq
<1>2. Head(q) \in Elements(q) /\ Tail(q) \in Seq(Elements(q))
  BY <1>1
<1> QED BY <1>2, SeqIsList

LEMMA StepDocument ==
  ASSUME BuildInvariant, ExtractDocument
  PROVE  BuildInvariant'
<1> DEFINE d == Head(batch.documents)
           result == Extract(d, ids)
<1>1. batch.documents # <<>> /\ batch' = [batch EXCEPT !.documents = Tail(batch.documents)]
  BY DEF ExtractDocument
<1>2. d \in Elements(batch.documents) /\ IsList(Tail(batch.documents)) /\ Elements(Tail(batch.documents)) \subseteq Elements(batch.documents)
  BY <1>1, HeadTaken DEF BuildInvariant
<1>3. IsList(d.items)
  BY <1>2 DEF BuildInvariant
<1>4. result \in Extracted(d)
  <2> HIDE DEF d
  <2> QED BY <1>3, Extracts DEF BuildInvariant
<1>5. ids' = result.ids /\ (drafts' = drafts \o result.artifacts \/ drafts' = drafts)
  BY DEF ExtractDocument
<1> HIDE DEF result, d
<1>6. result.ids \in Counters /\ result.artifacts \in Seq(Fresh(d))
  BY <1>4 DEF Extracted
<1>7. AllReady(result.artifacts)
  BY <1>6, SeqIsList, FreshAreDrafts, DraftsAreReady DEF AllReady
<1>8. AllReady(drafts')
  BY <1>5, <1>7, ReadyConcatenated DEF BuildInvariant
<1>9. /\ DOMAIN batch' = DOMAIN batch
      /\ batch'.documents = Tail(batch.documents) /\ batch'.given = batch.given /\ batch'.conflicts = batch.conflicts
  BY <1>1 DEF BuildInvariant
<1>10. AllReady(drafts)' /\ AllReady(batch.given)'
  BY <1>8, <1>9 DEF BuildInvariant
<1>11. IsList(batch.documents)' /\ IsList(batch.conflicts)' /\ (\A e \in Elements(batch.documents) : IsList(e.items))'
  BY <1>2, <1>9 DEF BuildInvariant
<1> QED BY <1>5, <1>6, <1>9, <1>10, <1>11 DEF BuildInvariant

LEMMA SameDrafts ==
  ASSUME BuildInvariant, UNCHANGED batch, ids' \in Counters, NEW q, AllReady(q), drafts' = q
  PROVE  BuildInvariant'
<1>1. AllReady(drafts)'
  OBVIOUS
<1>2. AllReady(batch.given)'
  BY DEF BuildInvariant
<1>3. IsList(batch.documents)' /\ IsList(batch.conflicts)' /\ (\A e \in Elements(batch.documents) : IsList(e.items))'
  BY DEF BuildInvariant
<1> QED BY <1>1, <1>2, <1>3 DEF BuildInvariant

LEMMA StepPatterns ==
  ASSUME BuildInvariant, PatternExtraction
  PROVE  BuildInvariant'
<1> DEFINE result == ExtractPatterns(drafts \o batch.given, ids)
<1>1. AllReady(drafts \o batch.given)
  BY ReadyConcatenated DEF BuildInvariant
<1>2. result.ids \in Counters /\ AllReady(result.artifacts)
  BY <1>1, PatternsExtracted DEF BuildInvariant
<1>3. ids' = result.ids /\ (drafts' = result.artifacts \/ drafts' = drafts) /\ UNCHANGED batch
  BY DEF PatternExtraction
<1> HIDE DEF result
<1>4. PICK q : q = drafts'
  OBVIOUS
<1>5. AllReady(q) /\ ids' \in Counters
  BY <1>2, <1>3, <1>4 DEF BuildInvariant
<1> QED BY <1>3, <1>4, <1>5, SameDrafts

\* Somewhere in the list is the last artifact with an id.
LEMMA LastWithId ==
  ASSUME NEW id, Len(drafts) \in Nat, \E i \in 1..Len(drafts) : drafts[i].id = id
  PROVE  \E i \in 1..Len(drafts) : WithId(id) = drafts[i] /\ drafts[i].id = id
<1> DEFINE IsLast(i) == drafts[i].id = id /\ \A j \in 1..Len(drafts) : drafts[j].id = id => j <= i
<1> SUFFICES \E i \in 1..Len(drafts) : IsLast(i)
  BY DEF WithId
<1>1. PICK n \in Nat : n = Len(drafts)
  OBVIOUS
<1> DEFINE T == {n - i : i \in {j \in 1..n : drafts[j].id = id}}
<1>2. T \in SUBSET Nat /\ T # {}
  BY <1>1
<1>3. PICK x \in T : \A y \in T : x <= y
  <2> HIDE DEF T
  <2> QED BY <1>2, LeastNumber
<1>4. PICK i \in 1..n : drafts[i].id = id /\ x = n - i
  BY <1>3
<1>5. \A j \in 1..n : drafts[j].id = id => n - i <= n - j
  BY <1>3, <1>4
<1>6. \A j \in 1..n : drafts[j].id = id => j <= i
  BY <1>4, <1>5
<1> HIDE DEF T
<1> QED BY <1>1, <1>4, <1>6

\* The conflicts of the batch change what its artifacts say, never their ids.
LEMMA BatchSettled ==
  ASSUME BuildInvariant, ConflictResolution
  PROVE  \E f \in Settlings({drafts[i].id : i \in 1..Len(drafts)}, Elements(drafts)) :
           drafts' = [i \in 1..Len(drafts) |-> f[drafts[i].id]]
<1> DEFINE n == Len(drafts)
           I == {drafts[i].id : i \in 1..n}
           U == Elements(drafts)
           byId == [id \in I |-> WithId(id)]
           resolved == ResolveBatch(byId, batch.conflicts, TierOf).artifacts
<1>1. drafts' = [i \in 1..n |-> resolved[drafts[i].id]]
  BY DEF ConflictResolution
<1>2. n \in Nat /\ \A i \in 1..n : drafts[i] \in U
  BY DEF BuildInvariant, AllReady, IsList, Elements
<1>3. byId \in [I -> U] /\ \A id \in I : byId[id].id = id
  <2>1. ASSUME NEW id \in I PROVE WithId(id) \in U /\ WithId(id).id = id
    <3>1. \E i \in 1..n : drafts[i].id = id
      OBVIOUS
    <3>2. PICK i \in 1..n : WithId(id) = drafts[i] /\ drafts[i].id = id
      BY <1>2, <3>1, LastWithId
    <3> QED BY <1>2, <3>2
  <2> HIDE DEF n, I, U
  <2> QED BY <2>1
<1>4. IsList(batch.conflicts) /\ \A a \in U : Ready(a)
  BY DEF BuildInvariant, AllReady
<1>5. resolved \in Settlings(I, U)
  <2> HIDE DEF I, U, byId
  <2> QED BY <1>3, <1>4, Resolves
<1> HIDE DEF resolved
<1> QED BY <1>1, <1>5

LEMMA StepConflicts ==
  ASSUME BuildInvariant, ConflictResolution
  PROVE  BuildInvariant'
<1> DEFINE n == Len(drafts)
           U == Elements(drafts)
<1>1. PICK f \in Settlings({drafts[i].id : i \in 1..n}, U) : drafts' = [i \in 1..n |-> f[drafts[i].id]]
  BY BatchSettled
<1>2. n \in Nat /\ (\A a \in U : Ready(a)) /\ UNCHANGED <<batch, ids>>
  BY DEF BuildInvariant, AllReady, IsList, ConflictResolution
<1>3. PICK q : q = drafts'
  OBVIOUS
<1>4. q \in Seq(Settled(U))
  <2>1. \A i \in 1..n : f[drafts[i].id] \in Settled(U)
    BY <1>1 DEF Settlings
  <2> HIDE DEF n, U
  <2> QED BY <1>1, <1>2, <1>3, <2>1
<1>5. AllReady(q)
  <2>1. IsList(q) /\ Elements(q) \subseteq Settled(U)
    BY <1>4, SeqIsList
  <2>2. \A b \in Settled(U) : Ready(b)
    <3> HIDE DEF U
    <3> QED BY <1>2, SettledAreReady
  <2> HIDE DEF U
  <2> QED BY <2>1, <2>2 DEF AllReady
<1>6. ids' \in Counters
  BY <1>2 DEF BuildInvariant
<1> QED BY <1>2, <1>3, <1>5, <1>6, SameDrafts

------------------------------------------------------------------------------
(* The projection.                                                         *)

Told(a, link) == \E e \in edges : Tells(e, a, link)

Projecting ==
  /\ DOMAIN projection = {"artifact", "next", "node"}
  /\ projection.artifact \in Valid
  /\ projection.next \in 1..Len(projection.artifact.links)
  /\ \A i \in 1..(projection.next - 1) : Told(projection.artifact, projection.artifact.links[i])

EdgesAreTrue == \A e \in edges : \E a \in Valid : \E link \in ToSet(a.links) : Tells(e, a, link)
ProjectedAreTold == \A a \in projected : \A link \in ToSet(a.links) : Told(a, link)

ProjectionInvariant ==
  /\ projection = Idle \/ Projecting
  /\ EdgesAreTrue /\ ProjectedAreTold

LEMMA ToldStays ==
  ASSUME edges \subseteq edges', NEW a, NEW link, Told(a, link)
  PROVE  Told(a, link)'
<1>1. PICK e \in edges : Tells(e, a, link)
  BY DEF Told
<1> QED BY <1>1 DEF Told

\* More validated artifacts and the same edges.
LEMMA ProjectionUntouched ==
  ASSUME ProjectionInvariant, UNCHANGED <<edges, projecting>>, returned \subseteq returned'
  PROVE  ProjectionInvariant'
<1>1. edges' = edges /\ projection' = projection /\ projected' = projected /\ Valid \subseteq Valid'
  BY DEF projecting, Valid
<1>2. EdgesAreTrue'
  BY <1>1 DEF ProjectionInvariant, EdgesAreTrue
<1>3. \A a, link : Told(a, link) => Told(a, link)'
  BY <1>1, ToldStays
<1>4. ProjectedAreTold'
  BY <1>1, <1>3 DEF ProjectionInvariant, ProjectedAreTold
<1>5. CASE projection = Idle
  BY <1>1, <1>2, <1>4, <1>5 DEF ProjectionInvariant, Idle
<1>6. CASE Projecting
  <2> DEFINE a == projection.artifact
  <2>1. PICK b, n : b = projection.artifact /\ n = projection.next
    OBVIOUS
  <2>2. /\ DOMAIN projection = {"artifact", "next", "node"} /\ b \in Valid /\ n \in 1..Len(b.links)
        /\ \A i \in 1..(n - 1) : Told(b, b.links[i])
    BY <1>6, <2>1 DEF Projecting
  <2>3. projection'.artifact = b /\ projection'.next = n
    BY <1>1, <2>1
  <2>4. \A i \in 1..(n - 1) : Told(b, b.links[i])'
    BY <1>3, <2>2
  <2>5. Projecting'
    BY <1>1, <2>2, <2>3, <2>4 DEF Projecting
  <2> QED BY <1>2, <1>4, <2>5 DEF ProjectionInvariant
<1> QED BY <1>5, <1>6 DEF ProjectionInvariant

LEMMA LinksAreListed ==
  ASSUME GatesInvariant, NEW a \in Valid
  PROVE  Len(a.links) \in Nat /\ ToSet(a.links) = {a.links[i] : i \in 1..Len(a.links)}
<1>1. IsList(a.links)
  BY DEF GatesInvariant, ReturnedOK, Valid, IsArtifact
<1>2. DOMAIN a.links = 1..Len(a.links) /\ Len(a.links) \in Nat
  BY <1>1 DEF IsList
<1> QED BY <1>2 DEF ToSet

LEMMA StepBegin ==
  ASSUME ProjectionInvariant, GatesInvariant, NEW a \in returned, BeginProjection(a), UNCHANGED returned
  PROVE  ProjectionInvariant'
<1>1. /\ a.status = "validated" /\ a.links # <<>> /\ edges' = edges /\ projected' = projected
      /\ projection' = [artifact |-> a, next |-> 1, node |-> FALSE]
  BY DEF BeginProjection, Projectable, CreateNode
<1>2. a \in Valid /\ Valid' = Valid
  BY <1>1 DEF Valid
<1>3. IsList(a.links)
  BY <1>2 DEF GatesInvariant, ReturnedOK, Valid, IsArtifact
<1>4. 1 \in 1..Len(a.links)
  BY <1>1, <1>3 DEF IsList
<1>5. Projecting'
  BY <1>1, <1>2, <1>4 DEF Projecting
<1>6. EdgesAreTrue'
  BY <1>1, <1>2 DEF ProjectionInvariant, EdgesAreTrue
<1>7. ProjectedAreTold'
  BY <1>1 DEF ProjectionInvariant, ProjectedAreTold, Told
<1> QED BY <1>5, <1>6, <1>7 DEF ProjectionInvariant

LEMMA StepTarget ==
  ASSUME ProjectionInvariant, ProjectTarget, UNCHANGED returned
  PROVE  ProjectionInvariant'
<1>1. Projecting
  BY DEF ProjectTarget, ProjectionInvariant
<1>2. edges' = edges /\ projected' = projected /\ projection' = [projection EXCEPT !.node = TRUE] /\ Valid' = Valid
  BY DEF ProjectTarget, CreateNode, Valid
<1>3. PICK b, n : b = projection.artifact /\ n = projection.next
  OBVIOUS
<1>4. /\ DOMAIN projection = {"artifact", "next", "node"} /\ b \in Valid /\ n \in 1..Len(b.links)
      /\ \A i \in 1..(n - 1) : Told(b, b.links[i])
  BY <1>1, <1>3 DEF Projecting
<1>5. DOMAIN projection' = {"artifact", "next", "node"} /\ projection'.artifact = b /\ projection'.next = n
  BY <1>2, <1>3, <1>4
<1>6. \A i \in 1..(n - 1) : Told(b, b.links[i])'
  BY <1>2, <1>4, ToldStays
<1>7. Projecting'
  BY <1>2, <1>4, <1>5, <1>6 DEF Projecting
<1>8. EdgesAreTrue'
  BY <1>2 DEF ProjectionInvariant, EdgesAreTrue
<1>9. ProjectedAreTold'
  BY <1>2 DEF ProjectionInvariant, ProjectedAreTold, Told
<1> QED BY <1>7, <1>8, <1>9 DEF ProjectionInvariant

\* What is stored of a link tells it.
LEMMA KeyTells ==
  ASSUME NEW a, NEW link
  PROVE  Tells(EdgeKey(a.id, link.rel, link.target), a, link)
BY DEF Tells, EdgeKey

LEMMA StepLink ==
  ASSUME ProjectionInvariant, GatesInvariant, ProjectLink, UNCHANGED returned
  PROVE  ProjectionInvariant'
<1>1. Projecting
  BY DEF ProjectLink, ProjectionInvariant, Idle
<1>2. PICK b, n : b = projection.artifact /\ n = projection.next
  OBVIOUS
<1>3. /\ DOMAIN projection = {"artifact", "next", "node"} /\ b \in Valid /\ n \in 1..Len(b.links)
      /\ \A i \in 1..(n - 1) : Told(b, b.links[i])
  BY <1>1, <1>2 DEF Projecting
<1>4. PICK key : key = EdgeKey(b.id, b.links[n].rel, b.links[n].target)
  OBVIOUS
<1>5. edges' = edges \cup {key} /\ Valid' = Valid
  BY <1>2, <1>4 DEF ProjectLink, CreateEdge, Link, Valid
<1>6. Tells(key, b, b.links[n])
  BY <1>4, KeyTells
<1>7. Len(b.links) \in Nat /\ ToSet(b.links) = {b.links[i] : i \in 1..Len(b.links)}
  BY <1>3, LinksAreListed
<1>8. \A i \in 1..n : Told(b, b.links[i])'
  <2>1. Told(b, b.links[n])'
    BY <1>5, <1>6 DEF Told
  <2>2. ASSUME NEW i \in 1..(n - 1) PROVE Told(b, b.links[i])'
    BY <1>3, <1>5, ToldStays
  <2>3. ASSUME NEW i \in 1..n, i # n PROVE i \in 1..(n - 1)
    BY <1>3, <1>7, <2>3
  <2> QED BY <2>1, <2>2, <2>3
<1>9. EdgesAreTrue'
  <2> SUFFICES ASSUME NEW e \in edges'
               PROVE  \E a \in Valid : \E link \in ToSet(a.links) : Tells(e, a, link)
    BY <1>5 DEF EdgesAreTrue
  <2>1. CASE e \in edges
    BY <2>1 DEF ProjectionInvariant, EdgesAreTrue
  <2>2. CASE e = key
    <3>1. b.links[n] \in ToSet(b.links)
      BY <1>3, <1>7
    <3> QED BY <1>3, <1>6, <2>2, <3>1
  <2> QED BY <1>5, <2>1, <2>2
<1>10. \A a \in projected : \A link \in ToSet(a.links) : Told(a, link)'
  BY <1>5, ToldStays DEF ProjectionInvariant, ProjectedAreTold
<1>11. CASE projection.next = Len(projection.artifact.links)
  <2>1. projection' = Idle /\ projected' = projected \cup {b} /\ n = Len(b.links)
    BY <1>2, <1>11 DEF ProjectLink
  <2>2. \A link \in ToSet(b.links) : Told(b, link)'
    BY <1>7, <1>8, <2>1
  <2>3. ProjectedAreTold'
    BY <1>10, <2>1, <2>2 DEF ProjectedAreTold
  <2>4. (projection = Idle)'
    BY <2>1 DEF Idle
  <2> QED BY <1>9, <2>3, <2>4 DEF ProjectionInvariant
<1>12. CASE projection.next # Len(projection.artifact.links)
  <2>1. /\ projection' = [projection EXCEPT !.next = n + 1, !.node = FALSE] /\ projected' = projected
        /\ n # Len(b.links)
    BY <1>2, <1>12 DEF ProjectLink
  <2>2. DOMAIN projection' = {"artifact", "next", "node"} /\ projection'.artifact = b /\ projection'.next = n + 1
    BY <1>2, <1>3, <2>1
  <2>3. n + 1 \in 1..Len(b.links) /\ (n + 1) - 1 = n
    BY <1>3, <1>7, <2>1
  <2>4. PICK m : m = n + 1
    OBVIOUS
  <2>5. projection'.next = m /\ m \in 1..Len(b.links) /\ \A i \in 1..(m - 1) : Told(b, b.links[i])'
    BY <1>8, <2>2, <2>3, <2>4
  <2>6. Projecting'
    BY <1>3, <1>5, <2>2, <2>5 DEF Projecting
  <2>7. ProjectedAreTold'
    BY <1>10, <2>1 DEF ProjectedAreTold
  <2> QED BY <1>9, <2>6, <2>7 DEF ProjectionInvariant
<1> QED BY <1>11, <1>12

LEMMA StepRaises ==
  ASSUME ProjectionInvariant, ProjectionRaises, UNCHANGED returned
  PROVE  ProjectionInvariant'
<1>1. edges' = edges /\ projected' = projected /\ projection' = Idle /\ Valid' = Valid
  BY DEF ProjectionRaises, graph, Valid
<1>2. EdgesAreTrue'
  BY <1>1 DEF ProjectionInvariant, EdgesAreTrue
<1>3. ProjectedAreTold'
  BY <1>1 DEF ProjectionInvariant, ProjectedAreTold, Told
<1>4. (projection = Idle)'
  BY <1>1 DEF Idle
<1> QED BY <1>2, <1>3, <1>4 DEF ProjectionInvariant

------------------------------------------------------------------------------
(* The factory.                                                            *)

FactoryInvariant == BuildInvariant /\ GatesInvariant /\ ProjectionInvariant

LEMMA FactoryStarts == Init => FactoryInvariant
<1> SUFFICES ASSUME Init PROVE FactoryInvariant
  OBVIOUS
<1>1. edges = {} /\ projection = Idle /\ projected = {}
  BY DEF Init, GraphInit
<1>2. ProjectionInvariant
  BY <1>1 DEF ProjectionInvariant, EdgesAreTrue, ProjectedAreTold
<1> QED BY <1>2, BuildStarts, GatesStart DEF FactoryInvariant, Init

LEMMA BuildUntouched ==
  ASSUME BuildInvariant, UNCHANGED building
  PROVE  BuildInvariant'
<1>1. PICK q : q = drafts
  OBVIOUS
<1> QED BY <1>1, SameDrafts DEF building, BuildInvariant

LEMMA GatesUntouched ==
  ASSUME GatesInvariant, UNCHANGED validation
  PROVE  GatesInvariant'
<1>1. /\ run' = run /\ contents' = contents /\ pending' = pending /\ returned' = returned
      /\ approved' = approved
  BY DEF validation, store
<1>3. \A s \in Runs : RunOK(s)'
  BY <1>1, OthersStay
<1>4. ContentsOK'
  BY <1>1 DEF GatesInvariant, ContentsOK
<1>5. PendingOK'
  BY <1>1 DEF GatesInvariant, PendingOK
<1>6. ReturnedOK'
  BY <1>1 DEF GatesInvariant, ReturnedOK, Consented
<1>7. RunsTyped'
  BY <1>1 DEF GatesInvariant, RunsTyped
<1> QED BY <1>3, <1>4, <1>5, <1>6, <1>7 DEF GatesInvariant

LEMMA ReturnedGrows ==
  ASSUME Validate
  PROVE  returned \subseteq returned'
<1>1. ASSUME NEW r \in Runs, NEW a, Submit(r, a) PROVE returned' = returned
  BY <1>1 DEF Submit
<1>2. ASSUME NEW r \in Runs, Gate(r) PROVE returned \subseteq returned'
  BY <1>2 DEF Gate, SchemaValidation, DuplicateDetection, RememberArtifact, VersionConflictDetection,
     SourceVerification, TrustVerification, EngineeringReview, HumanApprovalGate, ConfidenceScoring
<1>3. ASSUME NEW id, NEW decision, Resolved(id, decision) PROVE returned \subseteq returned'
  BY <1>3 DEF Resolved
<1> QED BY <1>1, <1>2, <1>3 DEF Validate

LEMMA StepValidate ==
  ASSUME BuildInvariant, GatesInvariant, Validate
  PROVE  GatesInvariant'
<1>1. ASSUME NEW r \in Runs, NEW i \in 1..Len(drafts), Submit(r, drafts[i]) PROVE GatesInvariant'
  <2>1. PICK a : a = drafts[i]
    OBVIOUS
  <2>2. Ready(a)
    BY <2>1 DEF BuildInvariant, AllReady, Elements
  <2> QED BY <1>1, <2>1, <2>2, StepSubmit
<1>2. ASSUME NEW r \in Runs, Gate(r) PROVE GatesInvariant'
  BY <1>2, StepGate
<1>3. ASSUME NEW id \in DOMAIN pending, NEW decision \in {"approved", "rejected"}, Resolved(id, decision)
      PROVE  GatesInvariant'
  BY <1>3, StepResolved
<1> QED BY <1>1, <1>2, <1>3 DEF Validate

LEMMA StepFactory == FactoryInvariant /\ [Next]_factory => FactoryInvariant'
<1> SUFFICES ASSUME FactoryInvariant, [Next]_factory PROVE FactoryInvariant'
  OBVIOUS
<1>0. BuildInvariant /\ GatesInvariant /\ ProjectionInvariant
  BY DEF FactoryInvariant
<1>1. CASE Build /\ UNCHANGED <<validation, graph, projecting, overlapped>>
  <2>1. BuildInvariant'
    BY <1>0, <1>1, StepDocument, StepPatterns, StepConflicts DEF Build
  <2>2. GatesInvariant'
    BY <1>0, <1>1, GatesUntouched
  <2>3. UNCHANGED <<edges, projecting>> /\ returned \subseteq returned'
    BY <1>1 DEF graph, validation
  <2> QED BY <1>0, <2>1, <2>2, <2>3, ProjectionUntouched DEF FactoryInvariant
<1>2. CASE Validate /\ UNCHANGED <<building, graph, projecting>>
  <2>1. BuildInvariant'
    BY <1>0, <1>2, BuildUntouched
  <2>2. GatesInvariant'
    BY <1>0, <1>2, StepValidate
  <2>3. UNCHANGED <<edges, projecting>> /\ returned \subseteq returned'
    BY <1>2, ReturnedGrows DEF graph
  <2> QED BY <1>0, <2>1, <2>2, <2>3, ProjectionUntouched DEF FactoryInvariant
<1>3. CASE Project /\ UNCHANGED <<validation, building, overlapped>>
  <2>1. BuildInvariant' /\ GatesInvariant'
    BY <1>0, <1>3, BuildUntouched, GatesUntouched
  <2>2. UNCHANGED returned
    BY <1>3 DEF validation
  <2>3. ProjectionInvariant'
    BY <1>0, <1>3, <2>2, StepBegin, StepTarget, StepLink, StepRaises DEF Project
  <2> QED BY <2>1, <2>3 DEF FactoryInvariant
<1>4. CASE UNCHANGED factory
  <2>1. UNCHANGED building /\ UNCHANGED validation /\ UNCHANGED <<edges, projecting>> /\ returned \subseteq returned'
    BY <1>4 DEF factory, graph, validation
  <2> QED BY <1>0, <2>1, BuildUntouched, GatesUntouched, ProjectionUntouched DEF FactoryInvariant
<1> QED BY <1>1, <1>2, <1>3, <1>4 DEF Next

LEMMA AlwaysFactoryInvariant == Spec => []FactoryInvariant
BY FactoryStarts, StepFactory, PTL DEF Spec

\* gates.py:287-393, approval.py:48: however runs, store and approvals are
\* interleaved, an artifact that contradicts a stable rule or whose confidence
\* is ambiguous is validated only if a human approved it, and none is without
\* sources or, unless approved, from one that does not check out.
THEOREM ConsentComesBeforeValidation == Spec => []ConsentBeforeValidation
<1>1. FactoryInvariant => ConsentBeforeValidation
  BY DEF FactoryInvariant, GatesInvariant, ReturnedOK, Consented, ConsentBeforeValidation, Valid
<1> QED BY <1>1, AlwaysFactoryInvariant, PTL

\* builder.py:58: every edge tells a link of a validated artifact, however the
\* projections before it ended, and what project() returned for is told fully.
THEOREM EdgesTellValidatedLinks == Spec => []GraphTellsValidatedLinks
<1>1. FactoryInvariant => GraphTellsValidatedLinks
  BY DEF FactoryInvariant, ProjectionInvariant, EdgesAreTrue, ProjectedAreTold, Told, GraphTellsValidatedLinks
<1> QED BY <1>1, AlwaysFactoryInvariant, PTL

\* resolution.py:101: for any versions, which claim is named first makes no
\* difference, and a winner is named exactly when no human has to look.
THEOREM ResolutionHasNoOrder == Spec => []ResolutionIgnoresOrder
<1>1. ResolutionIgnoresOrder
  BY OrderIgnored DEF ResolutionIgnoresOrder
<1> QED BY <1>1, PTL
------------------------------------------------------------------------------
(* What is on hold.                                                        *)

\* The same thing said of the same thing: only what a gate adds may differ.
Same(a, b) == a.id = b.id /\ a.kind = b.kind /\ a.content = b.content
Drafted(a) == \E i \in 1..Len(drafts) : Same(drafts[i], a)

OneContentEach ==
  \A i, j \in 1..Len(drafts) : drafts[i].id = drafts[j].id => Same(drafts[i], drafts[j])

NothingBegun ==
  /\ \A r \in Runs : run[r].at = "none"
  /\ DOMAIN contents = {} /\ DOMAIN pending = {}

RunDrafted(r) ==
  /\ run[r].at # "none" => Drafted(run[r].artifact)
  /\ run[r].at = "remember" => \A e \in run[r].found : Drafted(e)

Awaited(r) == Holds(r) => r \in decided \/ run[r].artifact.id \in DOMAIN pending

StoredDrafted ==
  /\ \A key \in DOMAIN contents : Drafted(contents[key])
  /\ \A id \in DOMAIN pending : Drafted(pending[id])

\* Ids tell contents apart once the conflicts of the batch are settled, and
\* nothing in the gates says anything but what a draft with its id says.
HeldInvariant ==
  /\ stage = "validation" => OneContentEach
  /\ stage # "validation" => NothingBegun
  /\ \A r \in Runs : RunDrafted(r) /\ Awaited(r)
  /\ StoredDrafted

LEMMA DraftedAlike ==
  ASSUME NEW a, NEW b, Same(a, b), Drafted(a)
  PROVE  Drafted(b)
BY DEF Drafted, Same

LEMMA AlteredIsSame ==
  ASSUME NEW a, IsArtifact(a), NEW v
  PROVE  Same(a, [a EXCEPT !.status = v]) /\ Same(a, [a EXCEPT !.tags = v]) /\ Same(a, [a EXCEPT !.refs = v])
BY DEF IsArtifact, ArtifactFields, Same

LEMMA HeldStarts ==
  ASSUME Init
  PROVE  HeldInvariant
<1>1. stage = "extraction" /\ (\A r \in Runs : run[r].at = "none") /\ DOMAIN contents = {} /\ DOMAIN pending = {}
  BY DEF Init, GatesInit
<1> QED BY <1>1 DEF HeldInvariant, NothingBegun, RunDrafted, Awaited, Holds, StoredDrafted

LEMMA HeldBuild ==
  ASSUME BuildInvariant, HeldInvariant, Build, UNCHANGED validation
  PROVE  HeldInvariant'
<1>1. stage # "validation"
  BY DEF Build, ExtractDocument, PatternExtraction, ConflictResolution
<1>2. NothingBegun /\ NothingBegun'
  BY <1>1 DEF HeldInvariant, NothingBegun, validation, store
<1>3. (stage = "validation" => OneContentEach)'
  <2>1. CASE ExtractDocument \/ PatternExtraction
    BY <1>1, <2>1 DEF ExtractDocument, PatternExtraction
  <2>2. CASE ConflictResolution
    <3> DEFINE n == Len(drafts)
    <3>1. PICK f \in Settlings({drafts[i].id : i \in 1..n}, Elements(drafts)) :
            drafts' = [i \in 1..n |-> f[drafts[i].id]]
      BY <2>2, BatchSettled
    <3>2. n \in Nat
      BY DEF BuildInvariant, AllReady, IsList
    <3>3. Len(drafts') = n
      <4> HIDE DEF n
      <4> QED BY <3>1, <3>2
    <3>4. \A i \in 1..n : drafts'[i] = f[drafts[i].id] /\ drafts'[i].id = drafts[i].id
      BY <3>1 DEF Settlings
    <3> QED BY <3>3, <3>4 DEF OneContentEach, Same
  <2> QED BY <2>1, <2>2 DEF Build
<1>4. (\A r \in Runs : RunDrafted(r) /\ Awaited(r))' /\ StoredDrafted'
  BY <1>2 DEF NothingBegun, RunDrafted, Awaited, Holds, StoredDrafted
<1> QED BY <1>2, <1>3, <1>4 DEF HeldInvariant

LEMMA HeldUntouched ==
  ASSUME HeldInvariant, UNCHANGED <<validation, building>>
  PROVE  HeldInvariant'
BY DEF HeldInvariant, OneContentEach, NothingBegun, RunDrafted, Awaited, Holds, StoredDrafted, Drafted,
   validation, store, building

\* A step of one run that puts nothing new on hold.
LEMMA HeldKept ==
  ASSUME HeldInvariant, stage = "validation", UNCHANGED building, NEW r \in Runs,
         \A s \in Runs \ {r} : run'[s] = run[s], RunDrafted(r)', Awaited(r)',
         decided' = decided, DOMAIN pending \subseteq DOMAIN pending', StoredDrafted'
  PROVE  HeldInvariant'
<1>1. stage' = stage /\ drafts' = drafts
  BY DEF building
<1>2. ASSUME NEW s \in Runs, s # r PROVE RunDrafted(s)' /\ Awaited(s)'
  BY <1>1, <1>2 DEF HeldInvariant, RunDrafted, Awaited, Holds, Drafted
<1>3. OneContentEach'
  BY <1>1 DEF HeldInvariant, OneContentEach
<1> QED BY <1>1, <1>2, <1>3 DEF HeldInvariant

LEMMA StoredUntouched ==
  ASSUME HeldInvariant, UNCHANGED <<contents, pending, drafts>>
  PROVE  StoredDrafted'
BY DEF HeldInvariant, StoredDrafted, Drafted

\* A gate before the human's hands on an artifact that says the same.
LEMMA HeldCarried ==
  ASSUME HeldInvariant, stage = "validation", GatesInvariant, UNCHANGED building,
         NEW r \in Runs, run[r].at # "none", NEW b, Same(run[r].artifact, b), Carry(r, b),
         NextGate(run[r].at) \in InGates \ ({"remember"} \cup PastHuman),
         UNCHANGED <<store, pending, returned, approved, decided>>
  PROVE  HeldInvariant'
<1>1. run'[r].at = NextGate(run[r].at) /\ run'[r].artifact = b /\ \A s \in Runs \ {r} : run'[s] = run[s]
  BY Carried DEF GatesInvariant
<1>2. Drafted(b)
  BY DraftedAlike DEF HeldInvariant, RunDrafted
<1>3. drafts' = drafts
  BY DEF building
<1>4. RunDrafted(r)' /\ Awaited(r)'
  BY <1>1, <1>2, <1>3 DEF RunDrafted, Drafted, Awaited, Holds, InGates, PastSchema, PastSource, PastReview, PastHuman
<1>5. StoredDrafted'
  BY <1>3, StoredUntouched DEF store
<1> QED BY <1>1, <1>4, <1>5, HeldKept

LEMMA HeldFailed ==
  ASSUME HeldInvariant, stage = "validation", GatesInvariant, UNCHANGED building,
         NEW r \in Runs, run[r].at # "none", Fail(r),
         DOMAIN pending \subseteq DOMAIN pending', decided' = decided, StoredDrafted'
  PROVE  HeldInvariant'
<1>1. run' = [run EXCEPT ![r] = [run[r] EXCEPT !.at = "failed"]]
  BY DEF Fail
<1>2. run'[r].at = "failed" /\ run'[r].artifact = run[r].artifact /\ \A s \in Runs \ {r} : run'[s] = run[s]
  BY <1>1 DEF GatesInvariant, RunsTyped, RunFields
<1>3. RunDrafted(r)' /\ Awaited(r)'
  BY <1>2 DEF HeldInvariant, RunDrafted, Drafted, Awaited, Holds, building
<1> QED BY <1>2, <1>3, HeldKept

LEMMA HeldSubmit ==
  ASSUME HeldInvariant, stage = "validation", GatesInvariant, UNCHANGED building,
         NEW r \in Runs, NEW i \in 1..Len(drafts), Submit(r, drafts[i])
  PROVE  HeldInvariant'
<1>1. PICK a : a = drafts[i]
  OBVIOUS
<1>2. run' = [run EXCEPT ![r] = [run[r] EXCEPT !.at = "schema_validation", !.artifact = a]]
  BY <1>1 DEF Submit, Gates
<1>3. run'[r].at = "schema_validation" /\ run'[r].artifact = a /\ \A s \in Runs \ {r} : run'[s] = run[s]
  BY <1>2 DEF GatesInvariant, RunsTyped, RunFields
<1>4. drafts' = drafts /\ Drafted(a)
  BY <1>1 DEF building, Drafted, Same
<1>5. RunDrafted(r)' /\ Awaited(r)'
  BY <1>3, <1>4 DEF RunDrafted, Drafted, Awaited, Holds
<1>6. /\ DOMAIN pending \subseteq DOMAIN pending' /\ decided' = decided
      /\ StoredDrafted'
  BY <1>4, StoredUntouched DEF Submit, store
<1> QED BY <1>3, <1>5, <1>6, HeldKept

LEMMA HeldDuplicate ==
  ASSUME HeldInvariant, stage = "validation", GatesInvariant, UNCHANGED building,
         NEW r \in Runs, DuplicateDetection(r)
  PROVE  HeldInvariant'
<1>1. PICK found : found = IF Stopped(r) THEN {} ELSE FindExactDuplicate(run[r].artifact)
  OBVIOUS
<1>2. run' = [run EXCEPT ![r] = [run[r] EXCEPT !.at = "remember", !.found = found]] /\ run[r].at = "duplicate_detection"
  BY <1>1 DEF DuplicateDetection, At
<1>3. /\ run'[r].at = "remember" /\ run'[r].artifact = run[r].artifact /\ run'[r].found = found
      /\ \A s \in Runs \ {r} : run'[s] = run[s]
  BY <1>2 DEF GatesInvariant, RunsTyped, RunFields
<1>4. drafts' = drafts /\ \A e \in found : Drafted(e)
  BY <1>1 DEF building, HeldInvariant, StoredDrafted, FindExactDuplicate
<1>5. RunDrafted(r)' /\ Awaited(r)'
  BY <1>2, <1>3, <1>4 DEF HeldInvariant, RunDrafted, Drafted, Awaited, Holds
<1>6. /\ DOMAIN pending \subseteq DOMAIN pending' /\ decided' = decided
      /\ StoredDrafted'
  BY <1>4, StoredUntouched DEF DuplicateDetection, store
<1> QED BY <1>3, <1>5, <1>6, HeldKept

LEMMA HeldRemember ==
  ASSUME HeldInvariant, stage = "validation", GatesInvariant, UNCHANGED building,
         NEW r \in Runs, RememberArtifact(r)
  PROVE  HeldInvariant'
<1> DEFINE a == run[r].artifact
<1>1. /\ run[r].at = "remember" /\ NextGate(run[r].at) = "version_conflict_detection"
      /\ IsArtifact(a) /\ \A e \in run[r].found : Known(e) /\ Drafted(e)
      /\ Drafted(a)
  BY GatesFollow DEF RememberArtifact, At, GatesInvariant, RunOK, Ready, InGates, PastSchema, HeldInvariant, RunDrafted
<1>2. CASE Stopped(r)
  <2>1. Carry(r, a) /\ UNCHANGED <<store, pending, returned, approved, decided>>
    BY <1>2 DEF RememberArtifact
  <2>2. NextGate(run[r].at) \in InGates \ ({"remember"} \cup PastHuman)
    BY <1>1 DEF InGates, PastSchema, PastHuman
  <2>3. Same(a, a)
    BY DEF Same
  <2> QED BY <1>1, <2>1, <2>2, <2>3, HeldCarried
<1>3. CASE ~Stopped(r)
  <2>1. PICK m : m = Merged(r)
    OBVIOUS
  <2>2. Drafted(m)
    <3>1. CASE run[r].found = {}
      BY <1>1, <2>1, <3>1 DEF Merged
    <3>2. CASE run[r].found # {}
      <4>1. PICK e \in run[r].found : m = [e EXCEPT !.refs = MergedRefs(e, a)]
        BY <2>1, <3>2 DEF Merged
      <4>2. Same(e, m)
        BY <1>1, <4>1, AlteredIsSame DEF Known
      <4> QED BY <1>1, <4>1, <4>2, DraftedAlike
    <3> QED BY <3>1, <3>2
  <2>3. /\ contents' = With(contents, Key(m), m)
        /\ run' = [run EXCEPT ![r] = [run[r] EXCEPT !.at = NextGate(@), !.artifact = m, !.brought = a.refs]]
        /\ UNCHANGED <<pending, decided>> /\ drafts' = drafts
    BY <1>3, <2>1 DEF RememberArtifact, Remember, building
  <2> HIDE DEF a
  <2>4. run'[r].at = "version_conflict_detection" /\ run'[r].artifact = m /\ \A s \in Runs \ {r} : run'[s] = run[s]
    BY <1>1, <2>3 DEF GatesInvariant, RunsTyped, RunFields
  <2>5. RunDrafted(r)' /\ Awaited(r)'
    BY <2>2, <2>3, <2>4 DEF RunDrafted, Drafted, Awaited, Holds
  <2>6. StoredDrafted'
    <3>1. \A key \in DOMAIN contents' : contents'[key] = m \/ (key \in DOMAIN contents /\ contents'[key] = contents[key])
      BY <2>3 DEF With
    <3>2. \A key \in DOMAIN contents' : Drafted(contents'[key])
      BY <2>2, <3>1 DEF HeldInvariant, StoredDrafted
    <3>3. \A x : Drafted(x) => Drafted(x)'
      BY <2>3 DEF Drafted
    <3> QED BY <2>3, <3>2, <3>3 DEF HeldInvariant, StoredDrafted, Drafted
  <2> QED BY <2>3, <2>4, <2>5, <2>6, HeldKept
<1> QED BY <1>2, <1>3

\* The gates that change the status or the tags at most.
LEMMA HeldSimple ==
  ASSUME HeldInvariant, stage = "validation", GatesInvariant, UNCHANGED building, NEW r \in Runs,
         \/ SchemaValidation(r) \/ VersionConflictDetection(r) \/ SourceVerification(r)
         \/ TrustVerification(r) \/ EngineeringReview(r)
  PROVE  HeldInvariant'
<1> DEFINE a == run[r].artifact
<1>1. /\ run[r].at # "none" /\ IsArtifact(a)
      /\ NextGate(run[r].at) \in InGates \ ({"remember"} \cup PastHuman)
      /\ UNCHANGED <<store, pending, returned, approved, decided>>
  BY GatesFollow DEF SchemaValidation, VersionConflictDetection, SourceVerification, TrustVerification, EngineeringReview,
     At, GatesInvariant, RunOK, Ready, InGates, PastSchema, PastSource, PastReview, PastHuman
<1>2. Fail(r) \/ \E v : Carry(r, a) \/ Carry(r, [a EXCEPT !.status = v]) \/ Carry(r, [a EXCEPT !.tags = v])
  <2>1. CASE SchemaValidation(r)
    BY <2>1 DEF SchemaValidation, AfterSchema, Rejected
  <2>2. CASE VersionConflictDetection(r)
    BY <2>2 DEF VersionConflictDetection, AfterConflicts
  <2>3. CASE SourceVerification(r)
    BY <2>3 DEF SourceVerification, Rejected
  <2>4. CASE TrustVerification(r)
    BY <2>4 DEF TrustVerification
  <2>5. CASE EngineeringReview(r)
    BY <2>5 DEF EngineeringReview
  <2> QED BY <2>1, <2>2, <2>3, <2>4, <2>5
<1>3. CASE Fail(r)
  <2>1. DOMAIN pending \subseteq DOMAIN pending' /\ decided' = decided /\ StoredDrafted'
    BY <1>1, StoredUntouched DEF store, building
  <2> QED BY <1>1, <1>3, <2>1, HeldFailed
<1>4. ASSUME NEW v, Carry(r, a) \/ Carry(r, [a EXCEPT !.status = v]) \/ Carry(r, [a EXCEPT !.tags = v])
      PROVE  HeldInvariant'
  <2>1. PICK b : Carry(r, b) /\ Same(a, b)
    <3>1. Same(a, a)
      BY DEF Same
    <3> HIDE DEF a
    <3> QED BY <1>1, <1>4, <3>1, AlteredIsSame
  <2> QED BY <1>1, <2>1, HeldCarried
<1> QED BY <1>2, <1>3, <1>4

LEMMA HeldHuman ==
  ASSUME HeldInvariant, stage = "validation", GatesInvariant, UNCHANGED building,
         NEW r \in Runs, HumanApprovalGate(r)
  PROVE  HeldInvariant'
<1> DEFINE a == run[r].artifact
           held == [a EXCEPT !.status = "pending-human-approval"]
<1>1. run[r].at = "human_approval_gate" /\ NextGate(run[r].at) = "confidence_scoring" /\ Ready(a) /\ Drafted(a)
  BY GatesFollow DEF HumanApprovalGate, At, GatesInvariant, RunOK, InGates, PastSchema, PastSource, PastReview,
     HeldInvariant, RunDrafted
<1>2. contents' = contents /\ decided' = decided /\ drafts' = drafts
  BY DEF HumanApprovalGate, store, building
<1>3. CASE NeedsHuman(a)
  <2>1. pending' = With(pending, a.id, held) /\ (Carry(r, held) \/ Fail(r))
    BY <1>3 DEF HumanApprovalGate
  <2>2. Same(a, held)
    BY <1>1, AlteredIsSame DEF Ready
  <2>3. Drafted(held)
    <3> HIDE DEF a, held
    <3> QED BY <1>1, <2>2, DraftedAlike
  <2> HIDE DEF a, held
  <2>4. /\ DOMAIN pending' = DOMAIN pending \cup {a.id}
        /\ \A id \in DOMAIN pending' : pending'[id] = IF id = a.id THEN held ELSE pending[id]
    BY <2>1 DEF With
  <2>5. StoredDrafted'
    <3>1. \A id \in DOMAIN pending' : Drafted(pending'[id])
      BY <2>3, <2>4 DEF HeldInvariant, StoredDrafted
    <3> QED BY <1>2, <3>1 DEF HeldInvariant, StoredDrafted, Drafted
  <2>6. CASE Carry(r, held)
    <3>1. /\ run'[r].at = "confidence_scoring" /\ run'[r].artifact = held
          /\ \A s \in Runs \ {r} : run'[s] = run[s]
      BY <1>1, <2>6, Carried DEF GatesInvariant
    <3>2. RunDrafted(r)'
      BY <1>2, <2>3, <3>1 DEF RunDrafted, Drafted
    <3>3. held.id \in DOMAIN pending'
      BY <2>2, <2>4 DEF Same
    <3>4. Awaited(r)'
      BY <3>1, <3>3 DEF Awaited
    <3> QED BY <1>2, <2>4, <2>5, <3>1, <3>2, <3>4, HeldKept
  <2>7. CASE Fail(r)
    BY <1>1, <1>2, <2>4, <2>5, <2>7, HeldFailed
  <2> QED BY <2>1, <2>6, <2>7
<1>4. CASE ~NeedsHuman(a)
  <2>1. Carry(r, a) /\ pending' = pending
    BY <1>4 DEF HumanApprovalGate
  <2>2. /\ run'[r].at = "confidence_scoring" /\ run'[r].artifact = a
        /\ \A s \in Runs \ {r} : run'[s] = run[s]
    BY <1>1, <2>1, Carried DEF GatesInvariant
  <2>3. a.status \notin Held
    BY <1>4 DEF NeedsHuman, Held
  <2> HIDE DEF a
  <2>4. RunDrafted(r)' /\ Awaited(r)'
    BY <1>1, <1>2, <2>2, <2>3 DEF RunDrafted, Drafted, Awaited, Holds
  <2>5. StoredDrafted'
    BY <1>2, <2>1, StoredUntouched
  <2> QED BY <1>2, <2>1, <2>2, <2>4, <2>5, HeldKept
<1> QED BY <1>3, <1>4

LEMMA HeldScoring ==
  ASSUME HeldInvariant, stage = "validation", GatesInvariant, UNCHANGED building,
         NEW r \in Runs, ConfidenceScoring(r)
  PROVE  HeldInvariant'
<1> DEFINE a == run[r].artifact
           result == IF Scored(a) THEN Validated(a) ELSE a
<1>1. run[r].at = "confidence_scoring" /\ NextGate(run[r].at) = "done" /\ IsArtifact(a) /\ Drafted(a) /\ Awaited(r)
  BY GatesFollow DEF ConfidenceScoring, At, GatesInvariant, RunOK, Ready, InGates, PastSchema, PastSource, PastReview, PastHuman,
     HeldInvariant, RunDrafted
<1>2. /\ UNCHANGED <<contents, pending, decided, drafts>> /\ DOMAIN pending \subseteq DOMAIN pending'
      /\ StoredDrafted'
  BY StoredUntouched DEF ConfidenceScoring, store, building
<1>3. CASE Carry(r, result)
  <2>1. run'[r].at = "done" /\ run'[r].artifact = result /\ \A s \in Runs \ {r} : run'[s] = run[s]
    BY <1>1, <1>3, Carried DEF GatesInvariant
  <2>2. Same(a, result) /\ (result.status \in Held => result = a)
    <3>1. CASE Scored(a)
      <4>1. PICK c : result = [a EXCEPT !.status = "validated", !.confidence = c]
        BY <3>1 DEF Validated
      <4>2. a = [f \in ArtifactFields |-> a[f]]
        BY <1>1 DEF IsArtifact
      <4> HIDE DEF a, result
      <4> QED BY <4>1, <4>2 DEF ArtifactFields, Same, Held
    <3>2. CASE ~Scored(a)
      BY <3>2 DEF Same
    <3> QED BY <3>1, <3>2
  <2> HIDE DEF result
  <2>3. Drafted(result)
    <3> HIDE DEF a
    <3> QED BY <1>1, <2>2, DraftedAlike
  <2>4. RunDrafted(r)'
    BY <1>2, <2>1, <2>3 DEF RunDrafted, Drafted
  <2>5. Awaited(r)'
    BY <1>1, <1>2, <2>1, <2>2 DEF Awaited, Holds
  <2> QED BY <1>2, <2>1, <2>4, <2>5, HeldKept
<1>4. CASE Fail(r)
  BY <1>1, <1>2, <1>4, HeldFailed
<1> QED BY <1>3, <1>4 DEF ConfidenceScoring

LEMMA HeldResolved ==
  ASSUME HeldInvariant, stage = "validation", UNCHANGED building,
         NEW id \in DOMAIN pending, NEW decision \in {"approved", "rejected"}, Resolved(id, decision)
  PROVE  HeldInvariant'
<1>1. /\ run' = run /\ contents' = contents /\ drafts' = drafts /\ stage' = stage
      /\ pending' = Restrict(pending, DOMAIN pending \ {id})
      /\ decided' = decided \cup {r \in Runs : Holds(r) /\ run[r].artifact.id = id}
  BY DEF Resolved, store, building
<1>2. DOMAIN pending' = DOMAIN pending \ {id} /\ \A i \in DOMAIN pending' : pending'[i] = pending[i]
  BY <1>1 DEF Restrict
<1>3. ASSUME NEW r \in Runs PROVE RunDrafted(r)' /\ Awaited(r)'
  BY <1>1, <1>2 DEF HeldInvariant, RunDrafted, Drafted, Awaited, Holds
<1>4. StoredDrafted'
  BY <1>1, <1>2 DEF HeldInvariant, StoredDrafted, Drafted
<1>5. OneContentEach'
  BY <1>1 DEF HeldInvariant, OneContentEach
<1> QED BY <1>1, <1>3, <1>4, <1>5 DEF HeldInvariant

LEMMA HeldValidate ==
  ASSUME HeldInvariant, GatesInvariant, Validate, UNCHANGED building
  PROVE  HeldInvariant'
<1>1. stage = "validation"
  BY DEF Validate
<1>2. ASSUME NEW r \in Runs, Gate(r) PROVE HeldInvariant'
  BY <1>1, <1>2, HeldSimple, HeldDuplicate, HeldRemember, HeldHuman, HeldScoring DEF Gate
<1> QED BY <1>1, <1>2, HeldSubmit, HeldResolved DEF Validate

LEMMA AlwaysHeld == Spec => [](FactoryInvariant /\ HeldInvariant)
<1>1. Init => HeldInvariant
  BY HeldStarts
<1>2. FactoryInvariant /\ HeldInvariant /\ [Next]_factory => HeldInvariant'
  <2> SUFFICES ASSUME FactoryInvariant, HeldInvariant, [Next]_factory PROVE HeldInvariant'
    OBVIOUS
  <2>1. BuildInvariant /\ GatesInvariant
    BY DEF FactoryInvariant
  <2>2. CASE Build /\ UNCHANGED <<validation, graph, projecting, overlapped>>
    BY <2>1, <2>2, HeldBuild
  <2>3. CASE Validate /\ UNCHANGED <<building, graph, projecting>>
    BY <2>1, <2>3, HeldValidate
  <2>4. CASE Project /\ UNCHANGED <<validation, building, overlapped>>
    BY <2>4, HeldUntouched
  <2>5. CASE UNCHANGED factory
    BY <2>5, HeldUntouched DEF factory
  <2> QED BY <2>2, <2>3, <2>4, <2>5 DEF Next
<1> QED BY <1>1, <1>2, AlwaysFactoryInvariant, PTL DEF Spec

\* approval.py:40, 55: for any batch, runs and providers, an artifact a run left
\* on hold has its entry, which says what the run's artifact says, until a
\* decision on it is made.
THEOREM HoldsAwaitADecision == Spec => []HeldArtifactsAwaitDecision
<1>1. FactoryInvariant /\ HeldInvariant => HeldArtifactsAwaitDecision
  <2> SUFFICES ASSUME FactoryInvariant, HeldInvariant PROVE HeldArtifactsAwaitDecision
    OBVIOUS
  <2>1. PendingOK
    BY DEF FactoryInvariant, GatesInvariant
  <2>2. ASSUME NEW r \in Runs \ decided, Holds(r)
        PROVE  /\ run[r].artifact.id \in DOMAIN pending
               /\ Key(pending[run[r].artifact.id]) = Key(run[r].artifact)
    <3>1. PICK a, id : a = run[r].artifact /\ id = a.id
      OBVIOUS
    <3>2. id \in DOMAIN pending /\ Drafted(a) /\ Drafted(pending[id]) /\ pending[id].id = id
      BY <2>1, <2>2, <3>1 DEF HeldInvariant, RunDrafted, Awaited, Holds, StoredDrafted, PendingOK
    <3>3. PICK i, j \in 1..Len(drafts) : Same(drafts[i], a) /\ Same(drafts[j], pending[id])
      BY <3>2 DEF Drafted
    <3>4. OneContentEach
      BY <2>2 DEF HeldInvariant, NothingBegun, Holds
    <3>5. Same(drafts[i], drafts[j])
      BY <3>1, <3>2, <3>3, <3>4 DEF OneContentEach, Same
    <3>6. Key(pending[id]) = Key(a)
      BY <3>3, <3>5 DEF Same, Key
    <3> QED BY <3>1, <3>2, <3>6
  <2> QED BY <2>1, <2>2 DEF HeldArtifactsAwaitDecision, PendingOK
<1> QED BY <1>1, AlwaysHeld, PTL

------------------------------------------------------------------------------
(* Counting references.                                                    *)

LEMMA PlacesAreFinite ==
  ASSUME NEW q, IsList(q), NEW x
  PROVE  IsFiniteSet(Places(q, x)) /\ Cardinality(Places(q, x)) \in Nat
<1>1. Len(q) \in Nat
  BY DEF IsList
<1>2. IsFiniteSet(1..Len(q)) /\ Places(q, x) \in SUBSET (1..Len(q))
  BY <1>1, FS_Interval DEF Places
<1>3. IsFiniteSet(Places(q, x))
  BY <1>2, FS_Subset
<1> QED BY <1>3, FS_CardinalityType

\* The places of one submission, counted with its run.
PlacesIn(r, q, x) == {r} \X Places(q, x)

LEMMA PlacesOfRun ==
  ASSUME NEW r, NEW q, IsList(q), NEW x
  PROVE  /\ IsFiniteSet(PlacesIn(r, q, x))
         /\ Cardinality(PlacesIn(r, q, x)) = Cardinality(Places(q, x))
<1>1. IsFiniteSet({r}) /\ Cardinality({r}) = 1
  BY FS_Singleton
<1>2. IsFiniteSet(Places(q, x)) /\ Cardinality(Places(q, x)) \in Nat
  BY PlacesAreFinite
<1>3. /\ IsFiniteSet(PlacesIn(r, q, x))
      /\ Cardinality(PlacesIn(r, q, x)) = Cardinality({r}) * Cardinality(Places(q, x))
  BY <1>1, <1>2, FS_Product DEF PlacesIn
<1> QED BY <1>1, <1>2, <1>3

\* Finite sets that have nothing in common.
LEMMA DisjointUnion ==
  ASSUME NEW S, IsFiniteSet(S), NEW T, IsFiniteSet(T), S \cap T = {}
  PROVE  IsFiniteSet(S \cup T) /\ Cardinality(S \cup T) = Cardinality(S) + Cardinality(T)
<1>1. Cardinality(S) \in Nat /\ Cardinality(T) \in Nat /\ Cardinality(S \cap T) = 0
  BY FS_CardinalityType, FS_EmptySet
<1>2. IsFiniteSet(S \cup T) /\ Cardinality(S \cup T) = Cardinality(S) + Cardinality(T) - Cardinality(S \cap T)
  BY FS_Union
<1> QED BY <1>1, <1>2

\* One list after the other has every reference as often as both together.
LEMMA PlacesConcatenated ==
  ASSUME NEW s, IsList(s), NEW t, IsList(t), NEW x
  PROVE  Cardinality(Places(s \o t, x)) = Cardinality(Places(s, x)) + Cardinality(Places(t, x))
<1> DEFINE m == Len(s)
           n == Len(t)
           U == Places(s, x)
           V == Places(t, x)
           W == {m + i : i \in V}
           f == [i \in V |-> m + i]
<1>1. m \in Nat /\ n \in Nat
  BY DEF IsList
<1>2. PICK S : s \in Seq(S) /\ t \in Seq(S)
  <2>1. s \in Seq(Elements(s)) /\ t \in Seq(Elements(t))
    BY ListIsSeq
  <2>2. PICK S : S = Elements(s) \cup Elements(t)
    OBVIOUS
  <2>3. Elements(s) \subseteq S /\ Elements(t) \subseteq S
    BY <2>2
  <2>4. s \in Seq(S) /\ t \in Seq(S)
    BY <2>1, <2>3
  <2> QED BY <2>4
<1>3. /\ Len(s \o t) = m + n
      /\ \A i \in 1..(m + n) : (s \o t)[i] = IF i <= m THEN s[i] ELSE t[i - m]
  BY <1>2
<1>4. Places(s \o t, x) = U \cup W
  <2>1. ASSUME NEW i \in Places(s \o t, x) PROVE i \in U \cup W
    <3>1. i \in 1..(m + n) /\ (s \o t)[i] = x
      BY <1>3 DEF Places
    <3>2. CASE i <= m
      BY <1>1, <1>3, <3>1, <3>2 DEF Places
    <3>3. CASE ~(i <= m)
      <4>1. i - m \in 1..n /\ t[i - m] = x /\ i = m + (i - m)
        BY <1>1, <1>3, <3>1, <3>3
      <4>2. i - m \in V
        BY <4>1 DEF Places
      <4> QED BY <4>1, <4>2
    <3> QED BY <3>2, <3>3
  <2>2. ASSUME NEW i \in U PROVE i \in Places(s \o t, x)
    <3>1. i \in 1..m /\ s[i] = x
      BY DEF Places
    <3>2. i \in 1..(m + n) /\ i <= m
      BY <1>1, <3>1
    <3>3. (s \o t)[i] = x
      BY <1>3, <3>1, <3>2
    <3> QED BY <1>3, <3>2, <3>3 DEF Places
  <2>3. ASSUME NEW i \in V PROVE m + i \in Places(s \o t, x)
    <3>1. i \in 1..n /\ t[i] = x
      BY DEF Places
    <3>2. m + i \in 1..(m + n) /\ ~(m + i <= m) /\ (m + i) - m = i
      BY <1>1, <3>1
    <3>3. (s \o t)[m + i] = t[(m + i) - m]
      BY <1>3, <3>2
    <3>4. (s \o t)[m + i] = x
      BY <3>1, <3>2, <3>3
    <3> QED BY <1>3, <3>2, <3>4 DEF Places
  <2> HIDE DEF U, V, m
  <2> QED BY <2>1, <2>2, <2>3
<1>5. IsFiniteSet(U) /\ IsFiniteSet(V)
  BY PlacesAreFinite
<1>6. U \subseteq 1..m /\ V \subseteq 1..n
  BY DEF Places
<1> HIDE DEF m, n, U, V
<1>7. f \in Bijection(V, W)
  <2>1. f \in [V -> W] /\ \A w \in W : \E i \in V : f[i] = w
    OBVIOUS
  <2>2. \A i, j \in V : f[i] = f[j] => i = j
    BY <1>1, <1>6
  <2>3. f \in Injection(V, W)
    BY <2>1, <2>2 DEF Injection, IsInjective
  <2>4. f \in Surjection(V, W)
    BY <2>1 DEF Surjection
  <2> QED BY <2>3, <2>4 DEF Bijection
<1>8. IsFiniteSet(W) /\ Cardinality(W) = Cardinality(V)
  BY <1>5, <1>7, FS_Bijection DEF ExistsBijection
<1>9. U \cap W = {}
  BY <1>1, <1>6
<1>10. Cardinality(U \cup W) = Cardinality(U) + Cardinality(W)
  <2> HIDE DEF W
  <2> QED BY <1>5, <1>8, <1>9, DisjointUnion
<1> QED BY <1>4, <1>8, <1>10 DEF U, V

\* Who is alone.
LEMMA AtMostOne ==
  ASSUME NEW S, IsFiniteSet(S), ~(Cardinality(S) > 1), NEW r \in S, NEW s \in S
  PROVE  r = s
<1> SUFFICES ASSUME r # s PROVE FALSE
  OBVIOUS
<1>1. IsFiniteSet({r}) /\ Cardinality({r}) = 1
  BY FS_Singleton
<1>2. Cardinality({r} \cup {s}) = 2
  BY <1>1, FS_AddElement
<1>3. {r} \cup {s} \in SUBSET S
  OBVIOUS
<1>4. Cardinality({r} \cup {s}) <= Cardinality(S)
  BY <1>3, FS_Subset
<1>5. Cardinality(S) \in Nat
  BY FS_CardinalityType
<1> QED BY <1>2, <1>4, <1>5

------------------------------------------------------------------------------
(* The sources of what the store knows.                                    *)

PastRemember ==
  {"version_conflict_detection", "source_verification", "trust_verification", "engineering_review",
   "human_approval_gate", "confidence_scoring", "done", "failed"}

KeysOK == \A key \in DOMAIN contents : Key(contents[key]) = key

\* What a run brought it brought to what is stored.
BroughtOK ==
  \A r \in Runs :
    /\ IsList(run[r].brought)
    /\ run[r].brought # <<>> => run[r].at \in PastRemember /\ Key(run[r].artifact) \in DOMAIN contents

BringingIsFinite == \A key, x : IsFiniteSet(Bringing(key, x))

\* As long as one run at a time looks for its duplicate and stores the result,
\* the one it found is still the stored one.
Alone == \A r, s \in InDuplicateDetection : r = s
FoundOK(r) == At(r, "remember") /\ ~Stopped(r) => run[r].found = FindExactDuplicate(run[r].artifact)

CountsOK ==
  \A key \in DOMAIN contents : \A x :
    Cardinality(Places(contents[key].refs, x)) = Cardinality(Bringing(key, x))

SourcesInvariant ==
  /\ IsFiniteSet(InDuplicateDetection)
  /\ KeysOK /\ BroughtOK /\ BringingIsFinite
  /\ ~overlapped => Alone /\ (\A r \in Runs : FoundOK(r)) /\ CountsOK

Watched == overlapped' = (overlapped \/ Cardinality(InDuplicateDetection') > 1)

LEMMA SourcesStart ==
  ASSUME Init
  PROVE  SourcesInvariant
<1>1. /\ contents = <<>>
      /\ \A r \in Runs : run[r].at = "none" /\ run[r].brought = <<>>
  BY DEF Init, GatesInit
<1>2. InDuplicateDetection = {}
  BY <1>1 DEF InDuplicateDetection
<1>3. IsFiniteSet(InDuplicateDetection) /\ Alone
  BY <1>2, FS_EmptySet DEF Alone
<1>4. DOMAIN contents = {}
  BY <1>1
<1>5. KeysOK /\ CountsOK
  BY <1>4 DEF KeysOK, CountsOK
<1>6. BroughtOK
  <2>1. IsList(<<>>)
    BY DEF IsList
  <2> QED BY <1>1, <2>1 DEF BroughtOK
<1>7. ASSUME NEW key, NEW x PROVE IsFiniteSet(Bringing(key, x))
  <2>1. Brought(key) = {}
    BY <1>1 DEF Brought
  <2>2. Bringing(key, x) = {}
    BY <2>1 DEF Bringing
  <2> QED BY <2>2, FS_EmptySet
<1>8. \A r \in Runs : FoundOK(r)
  BY <1>1 DEF FoundOK, At
<1> QED BY <1>3, <1>5, <1>6, <1>7, <1>8 DEF SourcesInvariant, BringingIsFinite

\* Who is there after one run moved is known to be alone, or it is recorded.
LEMMA StillWatched ==
  ASSUME IsFiniteSet(InDuplicateDetection), NEW r \in Runs, \A s \in Runs \ {r} : run'[s] = run[s], Watched
  PROVE  /\ IsFiniteSet(InDuplicateDetection')
         /\ ~overlapped' => ~overlapped /\ Alone'
<1>1. InDuplicateDetection' \in SUBSET (InDuplicateDetection \cup {r})
  BY DEF InDuplicateDetection
<1>2. IsFiniteSet(InDuplicateDetection \cup {r})
  BY FS_AddElement
<1>3. IsFiniteSet(InDuplicateDetection')
  BY <1>1, <1>2, FS_Subset
<1>4. ASSUME ~overlapped' PROVE ~overlapped /\ Alone'
  <2>1. PICK S : S = InDuplicateDetection'
    OBVIOUS
  <2>2. ~overlapped /\ ~(Cardinality(S) > 1)
    BY <1>4, <2>1 DEF Watched
  <2>3. \A t, u \in S : t = u
    BY <1>3, <2>1, <2>2, AtMostOne
  <2> QED BY <2>1, <2>2, <2>3 DEF Alone
<1> QED BY <1>3, <1>4

\* What is in a union of what runs brought.
LEMMA BringingMembers ==
  ASSUME NEW key, NEW x, NEW p
  PROVE  p \in Bringing(key, x) <=>
           \E s \in Runs : /\ run[s].brought # <<>> /\ Key(run[s].artifact) = key
                           /\ p \in {s} \X Places(run[s].brought, x)
BY DEF Bringing, Brought

\* A run that brought nothing new, and changed nothing its references are
\* counted by.
LEMMA SourcesCarried ==
  ASSUME SourcesInvariant, NEW r \in Runs, \A s \in Runs \ {r} : run'[s] = run[s], Watched,
         UNCHANGED contents, FoundOK(r)', run'[r].brought = run[r].brought,
         run[r].brought # <<>> =>
           run'[r].at \in PastRemember /\ Key(run'[r].artifact) = Key(run[r].artifact)
  PROVE  SourcesInvariant'
<1>1. IsFiniteSet(InDuplicateDetection') /\ (~overlapped' => ~overlapped /\ Alone')
  BY StillWatched DEF SourcesInvariant
<1>2. KeysOK'
  BY DEF SourcesInvariant, KeysOK
<1>3. \A s \in Runs : /\ run'[s].brought = run[s].brought
                      /\ run[s].brought # <<>> => Key(run'[s].artifact) = Key(run[s].artifact)
  OBVIOUS
<1>4. BroughtOK'
  <2> SUFFICES ASSUME NEW s \in Runs
               PROVE  /\ IsList(run'[s].brought)
                      /\ run'[s].brought # <<>> => run'[s].at \in PastRemember /\ Key(run'[s].artifact) \in DOMAIN contents
    BY DEF BroughtOK
  <2>1. /\ IsList(run[s].brought)
        /\ run[s].brought # <<>> => run[s].at \in PastRemember /\ Key(run[s].artifact) \in DOMAIN contents
    BY DEF SourcesInvariant, BroughtOK
  <2>2. CASE s = r
    BY <2>1, <2>2
  <2>3. CASE s # r
    BY <2>1, <2>3
  <2> QED BY <2>2, <2>3
<1>5. ASSUME NEW key, NEW x PROVE Bringing(key, x)' = Bringing(key, x)
  <2>1. ASSUME NEW p
        PROVE  p \in Bringing(key, x)' <=>
                 \E s \in Runs : /\ run'[s].brought # <<>> /\ Key(run'[s].artifact) = key
                                 /\ p \in {s} \X Places(run'[s].brought, x)
    BY DEF Bringing, Brought
  <2>2. ASSUME NEW p, NEW s \in Runs
        PROVE  /\ run'[s].brought # <<>> /\ Key(run'[s].artifact) = key
               /\ p \in {s} \X Places(run'[s].brought, x)
               <=> /\ run[s].brought # <<>> /\ Key(run[s].artifact) = key
                   /\ p \in {s} \X Places(run[s].brought, x)
    BY <1>3
  <2>3. \A p : p \in Bringing(key, x)' <=> p \in Bringing(key, x)
    BY <2>1, <2>2, BringingMembers
  <2> QED BY <2>3
<1>6. BringingIsFinite'
  BY <1>5 DEF SourcesInvariant, BringingIsFinite
<1>7. ASSUME ~overlapped' PROVE (\A s \in Runs : FoundOK(s)') /\ CountsOK'
  <2>1. \A s \in Runs : FoundOK(s)
    BY <1>1, <1>7 DEF SourcesInvariant
  <2>2. ASSUME NEW s \in Runs \ {r} PROVE FoundOK(s)'
    BY <2>1 DEF FoundOK, At, Stopped, FindExactDuplicate
  <2>3. CountsOK'
    BY <1>1, <1>5, <1>7 DEF SourcesInvariant, CountsOK
  <2> QED BY <2>2, <2>3
<1> QED BY <1>1, <1>2, <1>4, <1>6, <1>7 DEF SourcesInvariant

\* Moving a run along, or failing it, leaves what it found and brought.
LEMMA CarriedSources ==
  ASSUME RunsTyped, NEW r \in Runs, NEW a, Carry(r, a)
  PROVE  run'[r].brought = run[r].brought /\ run'[r].found = run[r].found
<1>1. run' = [run EXCEPT ![r] = [run[r] EXCEPT !.at = NextGate(@), !.artifact = a]]
  BY DEF Carry
<1>2. DOMAIN run = Runs /\ DOMAIN run[r] = RunFields
  BY DEF RunsTyped
<1>3. run'[r] = [run[r] EXCEPT !.at = NextGate(@), !.artifact = a]
  BY <1>1, <1>2
<1> QED BY <1>2, <1>3 DEF RunFields

LEMMA FailedSources ==
  ASSUME RunsTyped, NEW r \in Runs, Fail(r)
  PROVE  run'[r].brought = run[r].brought /\ run'[r].artifact = run[r].artifact
<1>1. run' = [run EXCEPT ![r] = [run[r] EXCEPT !.at = "failed"]]
  BY DEF Fail
<1>2. DOMAIN run = Runs /\ DOMAIN run[r] = RunFields
  BY DEF RunsTyped
<1>3. run'[r] = [run[r] EXCEPT !.at = "failed"]
  BY <1>1, <1>2
<1> QED BY <1>2, <1>3 DEF RunFields

\* A gate after the store carries the same content on, or fails.
LEMMA SameContent ==
  ASSUME SourcesInvariant, GatesInvariant, NEW r \in Runs, Watched, UNCHANGED contents,
         NEW a, Carry(r, a) \/ Fail(r),
         run[r].at # "remember" => Key(a) = Key(run[r].artifact),
         NEW g \in PastRemember, NextGate(run[r].at) = g
  PROVE  SourcesInvariant'
<1>1. RunsTyped
  BY DEF GatesInvariant
<1>2. \A s \in Runs \ {r} : run'[s] = run[s]
  BY <1>1, Carried, Failed
<1>3. run'[r].brought = run[r].brought
  BY <1>1, CarriedSources, FailedSources
<1>4. run'[r].at \in PastRemember
  <2>1. CASE Carry(r, a)
    BY <1>1, <2>1, Carried
  <2>2. CASE Fail(r)
    BY <1>1, <2>2, Failed DEF PastRemember
  <2> QED BY <2>1, <2>2
<1>5. run[r].brought # <<>> => Key(run'[r].artifact) = Key(run[r].artifact)
  <2>1. run[r].brought # <<>> => run[r].at # "remember"
    BY DEF SourcesInvariant, BroughtOK, PastRemember
  <2>2. CASE Carry(r, a)
    BY <1>1, <2>1, <2>2, Carried
  <2>3. CASE Fail(r)
    BY <1>1, <2>3, FailedSources
  <2> QED BY <2>2, <2>3
<1>6. FoundOK(r)'
  <2>1. run'[r].at # "remember"
    BY <1>4 DEF PastRemember
  <2> QED BY <2>1 DEF FoundOK, At
<1> QED BY <1>2, <1>3, <1>4, <1>5, <1>6, SourcesCarried

\* The fields the gates set are not what the store looks contents up by.
LEMMA KeyKept ==
  ASSUME NEW a, IsArtifact(a), NEW v
  PROVE  /\ Key([a EXCEPT !.status = v]) = Key(a)
         /\ Key([a EXCEPT !.tags = v]) = Key(a)
         /\ Key(Validated(a)) = Key(a)
<1>1. a = [f \in ArtifactFields |-> a[f]] /\ "kind" \in ArtifactFields /\ "content" \in ArtifactFields
  BY DEF IsArtifact, ArtifactFields
<1>2. [a EXCEPT !.status = v].kind = a.kind /\ [a EXCEPT !.status = v].content = a.content
  BY <1>1
<1>3. [a EXCEPT !.tags = v].kind = a.kind /\ [a EXCEPT !.tags = v].content = a.content
  BY <1>1
<1>4. PICK c : c = ConfidenceOf(a)
  OBVIOUS
<1>5. Validated(a) = [a EXCEPT !.status = "validated", !.confidence = c]
  BY <1>4 DEF Validated
<1>6. Validated(a).kind = a.kind /\ Validated(a).content = a.content
  BY <1>1, <1>5
<1> QED BY <1>2, <1>3, <1>6 DEF Key

LEMMA SourcesSubmit ==
  ASSUME SourcesInvariant, GatesInvariant, NEW r \in Runs, NEW a, Submit(r, a), Watched
  PROVE  SourcesInvariant'
<1>1. run[r].at = "none" /\ run' = [run EXCEPT ![r] = [run[r] EXCEPT !.at = "schema_validation", !.artifact = a]]
  BY DEF Submit, At, Gates
<1>2. DOMAIN run = Runs /\ DOMAIN run[r] = RunFields
  BY DEF GatesInvariant, RunsTyped
<1>3. run'[r] = [run[r] EXCEPT !.at = "schema_validation", !.artifact = a] /\ \A s \in Runs \ {r} : run'[s] = run[s]
  BY <1>1, <1>2
<1>4. run'[r].at = "schema_validation" /\ run'[r].brought = run[r].brought
  BY <1>2, <1>3 DEF RunFields
<1>5. run[r].brought = <<>>
  BY <1>1 DEF SourcesInvariant, BroughtOK, PastRemember
<1>6. UNCHANGED contents
  BY DEF Submit, store
<1>7. FoundOK(r)'
  BY <1>4 DEF FoundOK, At
<1> QED BY <1>3, <1>4, <1>5, <1>6, <1>7, SourcesCarried

LEMMA SourcesSchema ==
  ASSUME SourcesInvariant, GatesInvariant, NEW r \in Runs, SchemaValidation(r), Watched
  PROVE  SourcesInvariant'
<1>1. run[r].at = "schema_validation" /\ Carry(r, AfterSchema(run[r].artifact)) /\ UNCHANGED contents
  BY DEF SchemaValidation, At, store
<1>2. PICK a : a = AfterSchema(run[r].artifact)
  OBVIOUS
<1>3. /\ run'[r].at = "duplicate_detection" /\ run'[r].brought = run[r].brought
      /\ \A s \in Runs \ {r} : run'[s] = run[s]
  BY <1>1, <1>2, Carried, CarriedSources, GatesFollow DEF GatesInvariant
<1>4. run[r].brought = <<>>
  BY <1>1 DEF SourcesInvariant, BroughtOK, PastRemember
<1>5. FoundOK(r)'
  BY <1>3 DEF FoundOK, At
<1> QED BY <1>1, <1>3, <1>4, <1>5, SourcesCarried

LEMMA SourcesDuplicate ==
  ASSUME SourcesInvariant, GatesInvariant, NEW r \in Runs, DuplicateDetection(r), Watched
  PROVE  SourcesInvariant'
<1>1. PICK found : found = IF Stopped(r) THEN {} ELSE FindExactDuplicate(run[r].artifact)
  OBVIOUS
<1>2. /\ run[r].at = "duplicate_detection" /\ UNCHANGED contents
      /\ run' = [run EXCEPT ![r] = [run[r] EXCEPT !.at = "remember", !.found = found]]
  BY <1>1 DEF DuplicateDetection, At, store
<1>3. DOMAIN run = Runs /\ DOMAIN run[r] = RunFields
  BY DEF GatesInvariant, RunsTyped
<1>4. run'[r] = [run[r] EXCEPT !.at = "remember", !.found = found] /\ \A s \in Runs \ {r} : run'[s] = run[s]
  BY <1>2, <1>3
<1>5. run'[r].brought = run[r].brought /\ run'[r].artifact = run[r].artifact /\ run'[r].found = found
  BY <1>3, <1>4 DEF RunFields
<1>6. run[r].brought = <<>>
  BY <1>2 DEF SourcesInvariant, BroughtOK, PastRemember
<1>7. FoundOK(r)'
  BY <1>1, <1>2, <1>5 DEF FoundOK, Stopped, FindExactDuplicate
<1> QED BY <1>2, <1>4, <1>5, <1>6, <1>7, SourcesCarried

LEMMA SourcesVersions ==
  ASSUME SourcesInvariant, GatesInvariant, NEW r \in Runs, VersionConflictDetection(r), Watched
  PROVE  SourcesInvariant'
<1> DEFINE a == run[r].artifact
           b == IF ~Stopped(r) /\ a.version # None THEN AfterConflicts(a) ELSE a
<1>1. run[r].at = "version_conflict_detection" /\ UNCHANGED contents /\ (Carry(r, b) \/ Fail(r))
  BY DEF VersionConflictDetection, At, store
<1>2. NextGate(run[r].at) = "source_verification" /\ "source_verification" \in PastRemember
  BY <1>1, GatesFollow DEF PastRemember
<1>3. IsArtifact(a)
  BY <1>1 DEF GatesInvariant, RunOK, InGates, PastSchema, Ready
<1>4. Key(b) = Key(a)
  <2>1. CASE b = a
    BY <2>1
  <2>2. CASE b # a
    <3>1. PICK v : b = [a EXCEPT !.status = v]
      BY <2>2 DEF AfterConflicts
    <3> HIDE DEF a, b
    <3> QED BY <1>3, <3>1, KeyKept
  <2> QED BY <2>1, <2>2
<1> HIDE DEF b
<1> QED BY <1>1, <1>2, <1>4, SameContent

LEMMA SourcesSource ==
  ASSUME SourcesInvariant, GatesInvariant, NEW r \in Runs, SourceVerification(r), Watched
  PROVE  SourcesInvariant'
<1> DEFINE a == run[r].artifact
           b == IF Stopped(r) \/ SourceOk[a.id] THEN a ELSE Rejected(a)
<1>1. run[r].at = "source_verification" /\ UNCHANGED contents /\ Carry(r, b)
  BY DEF SourceVerification, At, store
<1>2. NextGate(run[r].at) = "trust_verification" /\ "trust_verification" \in PastRemember
  BY <1>1, GatesFollow DEF PastRemember
<1>3. IsArtifact(a)
  BY <1>1 DEF GatesInvariant, RunOK, InGates, PastSchema, Ready
<1>4. b = a \/ b = [a EXCEPT !.status = "rejected"]
  BY DEF Rejected
<1> HIDE DEF b
<1>5. Key(b) = Key(a)
  <2>1. CASE b = a
    BY <2>1
  <2>2. CASE b # a
    <3>1. PICK v : b = [a EXCEPT !.status = v]
      BY <1>4, <2>2
    <3> HIDE DEF a
    <3> QED BY <1>3, <3>1, KeyKept
  <2> QED BY <2>1, <2>2
<1> QED BY <1>1, <1>2, <1>5, SameContent

LEMMA SourcesTrust ==
  ASSUME SourcesInvariant, GatesInvariant, NEW r \in Runs, TrustVerification(r), Watched
  PROVE  SourcesInvariant'
<1> DEFINE a == run[r].artifact
           low == ~Stopped(r) /\ TrustScore[a.id] < Threshold(a)
           b == IF low THEN [a EXCEPT !.tags = @ \cup {"low-confidence"}] ELSE a
<1>1. run[r].at = "trust_verification" /\ UNCHANGED contents /\ Carry(r, b)
  BY DEF TrustVerification, At, store
<1>2. NextGate(run[r].at) = "engineering_review" /\ "engineering_review" \in PastRemember
  BY <1>1, GatesFollow DEF PastRemember
<1>3. IsArtifact(a)
  BY <1>1 DEF GatesInvariant, RunOK, InGates, PastSchema, PastSource, Ready
<1>4. b = a \/ \E v : b = [a EXCEPT !.tags = v]
  <2> HIDE DEF low
  <2> QED OBVIOUS
<1> HIDE DEF b
<1>5. Key(b) = Key(a)
  <2>1. CASE b = a
    BY <2>1
  <2>2. CASE b # a
    <3>1. PICK v : b = [a EXCEPT !.tags = v]
      BY <1>4, <2>2
    <3> HIDE DEF a
    <3> QED BY <1>3, <3>1, KeyKept
  <2> QED BY <2>1, <2>2
<1> QED BY <1>1, <1>2, <1>5, SameContent

LEMMA SourcesReview ==
  ASSUME SourcesInvariant, GatesInvariant, NEW r \in Runs, EngineeringReview(r), Watched
  PROVE  SourcesInvariant'
<1> DEFINE a == run[r].artifact
           contradicts == ~Stopped(r) /\ "contradicts-stable-rule" \in a.tags
           b == IF contradicts THEN [a EXCEPT !.status = "pending-human-approval"] ELSE a
<1>1. run[r].at = "engineering_review" /\ UNCHANGED contents /\ Carry(r, b)
  BY DEF EngineeringReview, At, store
<1>2. NextGate(run[r].at) = "human_approval_gate" /\ "human_approval_gate" \in PastRemember
  BY <1>1, GatesFollow DEF PastRemember
<1>3. IsArtifact(a)
  BY <1>1 DEF GatesInvariant, RunOK, InGates, PastSchema, PastSource, Ready
<1>4. b = a \/ b = [a EXCEPT !.status = "pending-human-approval"]
  OBVIOUS
<1> HIDE DEF b
<1>5. Key(b) = Key(a)
  <2>1. CASE b = a
    BY <2>1
  <2>2. CASE b # a
    <3>1. PICK v : b = [a EXCEPT !.status = v]
      BY <1>4, <2>2
    <3> HIDE DEF a
    <3> QED BY <1>3, <3>1, KeyKept
  <2> QED BY <2>1, <2>2
<1> QED BY <1>1, <1>2, <1>5, SameContent

LEMMA SourcesHuman ==
  ASSUME SourcesInvariant, GatesInvariant, NEW r \in Runs, HumanApprovalGate(r), Watched
  PROVE  SourcesInvariant'
<1> DEFINE a == run[r].artifact
           held == [a EXCEPT !.status = "pending-human-approval"]
<1>1. run[r].at = "human_approval_gate" /\ UNCHANGED contents /\ (Carry(r, held) \/ Fail(r) \/ Carry(r, a))
  BY DEF HumanApprovalGate, At, store
<1>2. NextGate(run[r].at) = "confidence_scoring" /\ "confidence_scoring" \in PastRemember
  BY <1>1, GatesFollow DEF PastRemember
<1>3. IsArtifact(a)
  BY <1>1 DEF GatesInvariant, RunOK, InGates, PastSchema, PastSource, PastReview, Ready
<1>4. Key(held) = Key(a)
  <2> HIDE DEF a
  <2> QED BY <1>3, KeyKept
<1> HIDE DEF held
<1> QED BY <1>1, <1>2, <1>4, SameContent

LEMMA SourcesScoring ==
  ASSUME SourcesInvariant, GatesInvariant, NEW r \in Runs, ConfidenceScoring(r), Watched
  PROVE  SourcesInvariant'
<1> DEFINE a == run[r].artifact
           result == IF Scored(a) THEN Validated(a) ELSE a
<1>1. run[r].at = "confidence_scoring" /\ UNCHANGED contents /\ (Carry(r, result) \/ Fail(r))
  BY DEF ConfidenceScoring, At, store
<1>2. NextGate(run[r].at) = "done" /\ "done" \in PastRemember
  BY <1>1, GatesFollow DEF PastRemember
<1>3. IsArtifact(a)
  BY <1>1 DEF GatesInvariant, RunOK, InGates, PastSchema, PastSource, PastReview, PastHuman, Ready
<1>4. result = a \/ result = Validated(a)
  OBVIOUS
<1> HIDE DEF result
<1>5. Key(result) = Key(a)
  <2> HIDE DEF a
  <2> QED BY <1>3, <1>4, KeyKept
<1> QED BY <1>1, <1>2, <1>5, SameContent

\* What is found is what is stored, under the artifact's own key; what is stored
\* then has the references of both.
LEMMA MergedReferences ==
  ASSUME SourcesInvariant, GatesInvariant, NEW r \in Runs, At(r, "remember"), ~Stopped(r), ~overlapped
  PROVE  LET a == run[r].artifact IN
         /\ Key(Merged(r)) = Key(a)
         /\ Key(a) \notin DOMAIN contents => Merged(r).refs = a.refs
         /\ Key(a) \in DOMAIN contents =>
              /\ IsList(contents[Key(a)].refs)
              /\ Merged(r).refs = contents[Key(a)].refs \o a.refs
<1> DEFINE a == run[r].artifact
           k == Key(a)
           m == Merged(r)
<1>1. run[r].found = {contents[key] : key \in {k} \cap DOMAIN contents}
  BY DEF SourcesInvariant, FoundOK, FindExactDuplicate
<1>2. CASE k \notin DOMAIN contents
  <2>1. run[r].found = {}
    BY <1>1, <1>2
  <2>2. m = a
    BY <2>1 DEF Merged
  <2> HIDE DEF m
  <2> QED BY <1>2, <2>2 DEF m
<1>3. CASE k \in DOMAIN contents
  <2>1. PICK e : e = contents[k]
    OBVIOUS
  <2>2. Known(e) /\ Key(e) = k
    BY <1>3, <2>1 DEF GatesInvariant, ContentsOK, SourcesInvariant, KeysOK
  <2>3. run[r].found = {e}
    BY <1>1, <1>3, <2>1
  <2>4. m = [e EXCEPT !.refs = e.refs \o a.refs]
    BY <2>3 DEF Merged, MergedRefs
  <2> HIDE DEF a, k, m
  <2>5. e = [f \in ArtifactFields |-> e[f]] /\ {"refs", "kind", "content"} \subseteq ArtifactFields /\ IsList(e.refs)
    BY <2>2 DEF Known, IsArtifact, ArtifactFields
  <2>6. PICK q : q = e.refs \o a.refs
    OBVIOUS
  <2>7. m.refs = q /\ m.kind = e.kind /\ m.content = e.content
    BY <2>4, <2>5, <2>6
  <2>8. Key(m) = Key(e)
    BY <2>7 DEF Key
  <2> QED BY <1>3, <2>1, <2>2, <2>5, <2>6, <2>7, <2>8 DEF a, k, m
<1> QED BY <1>2, <1>3

\* What a run brings is counted once more, at its own content only.
LEMMA OneMoreBrought ==
  ASSUME NEW r \in Runs, \A s \in Runs \ {r} : run'[s] = run[s],
         run[r].brought = <<>>, NEW q, q # <<>>, run'[r].brought = q,
         NEW key, NEW x
  PROVE  /\ Key(run'[r].artifact) = key =>
              /\ Bringing(key, x)' = Bringing(key, x) \cup PlacesIn(r, q, x)
              /\ Bringing(key, x) \cap PlacesIn(r, q, x) = {}
         /\ Key(run'[r].artifact) # key => Bringing(key, x)' = Bringing(key, x)
<1>1. ASSUME NEW p
      PROVE  p \in Bringing(key, x)' <=>
               \E s \in Runs : /\ run'[s].brought # <<>> /\ Key(run'[s].artifact) = key
                               /\ p \in {s} \X Places(run'[s].brought, x)
  BY DEF Bringing, Brought
<1>2. ASSUME NEW p
      PROVE  p \in Bringing(key, x) <=>
               \E s \in Runs \ {r} : /\ run'[s].brought # <<>> /\ Key(run'[s].artifact) = key
                                     /\ p \in {s} \X Places(run'[s].brought, x)
  BY BringingMembers
<1>3. CASE Key(run'[r].artifact) = key
  <2>1. ASSUME NEW p PROVE p \in Bringing(key, x)' <=> p \in Bringing(key, x) \/ p \in PlacesIn(r, q, x)
    <3>1. r \in Runs /\ run'[r].brought # <<>> /\ run'[r].brought = q
      OBVIOUS
    <3> QED BY <1>1, <1>2, <1>3, <3>1 DEF PlacesIn
  <2>2. ASSUME NEW p \in Bringing(key, x) PROVE p \notin PlacesIn(r, q, x)
    <3>1. PICK s \in Runs \ {r} : p \in {s} \X Places(run'[s].brought, x)
      BY <1>2
    <3> QED BY <3>1 DEF PlacesIn
  <2> QED BY <1>3, <2>1, <2>2
<1>4. CASE Key(run'[r].artifact) # key
  <2>1. \A p : p \in Bringing(key, x)' <=> p \in Bringing(key, x)
    BY <1>1, <1>2, <1>4
  <2>2. Bringing(key, x)' = Bringing(key, x)
    BY <2>1
  <2> QED BY <1>4, <2>2
<1> QED BY <1>3, <1>4

LEMMA SourcesRemember ==
  ASSUME SourcesInvariant, GatesInvariant, NEW r \in Runs, RememberArtifact(r), Watched
  PROVE  SourcesInvariant'
<1>1. PICK a, m, q : a = run[r].artifact /\ m = Merged(r) /\ q = a.refs
  OBVIOUS
<1>2. run[r].at = "remember" /\ run[r].brought = <<>>
  BY DEF RememberArtifact, At, SourcesInvariant, BroughtOK, PastRemember
<1>3. NextGate(run[r].at) = "version_conflict_detection" /\ "version_conflict_detection" \in PastRemember
  BY <1>2, GatesFollow DEF PastRemember
<1>4. CASE Stopped(r)
  <2>1. Carry(r, a) /\ UNCHANGED contents
    BY <1>1, <1>4 DEF RememberArtifact, store
  <2> QED BY <1>2, <1>3, <2>1, SameContent
<1>5. CASE ~Stopped(r)
  <2>1. IsList(q) /\ q # <<>>
    <3>1. Ready(a) /\ Sourced(a)
      BY <1>1, <1>2 DEF GatesInvariant, RunOK, InGates, PastSchema
    <3> QED BY <1>1, <1>5, <3>1 DEF Ready, IsArtifact, Sourced, Stopped, PassesThrough
  <2>2. /\ contents' = With(contents, Key(m), m)
        /\ run' = [run EXCEPT ![r] = [run[r] EXCEPT !.at = NextGate(@), !.artifact = m, !.brought = q]]
    BY <1>1, <1>5 DEF RememberArtifact, Remember
  <2>3. DOMAIN run = Runs /\ DOMAIN run[r] = RunFields
    BY DEF GatesInvariant, RunsTyped
  <2>4. /\ run'[r] = [run[r] EXCEPT !.at = NextGate(@), !.artifact = m, !.brought = q]
        /\ \A s \in Runs \ {r} : run'[s] = run[s]
    BY <2>2, <2>3
  <2>5. run'[r].at = "version_conflict_detection" /\ run'[r].artifact = m /\ run'[r].brought = q
    BY <1>3, <2>3, <2>4 DEF RunFields
  <2>6. /\ DOMAIN contents' = DOMAIN contents \cup {Key(m)}
        /\ \A key \in DOMAIN contents' : contents'[key] = IF key = Key(m) THEN m ELSE contents[key]
    BY <2>2 DEF With
  <2>7. IsFiniteSet(InDuplicateDetection') /\ (~overlapped' => ~overlapped /\ Alone')
    BY <2>4, StillWatched DEF SourcesInvariant
  <2>8. KeysOK'
    BY <2>6 DEF SourcesInvariant, KeysOK
  <2>9. BroughtOK'
    <3> SUFFICES ASSUME NEW s \in Runs
                 PROVE  /\ IsList(run'[s].brought)
                        /\ run'[s].brought # <<>> =>
                             run'[s].at \in PastRemember /\ Key(run'[s].artifact) \in DOMAIN contents'
      BY DEF BroughtOK
    <3>1. CASE s = r
      BY <1>3, <2>1, <2>5, <2>6, <3>1
    <3>2. CASE s # r
      BY <2>4, <2>6, <3>2 DEF SourcesInvariant, BroughtOK
    <3> QED BY <3>1, <3>2
  <2>10. ASSUME NEW key, NEW x
         PROVE  /\ Key(m) = key =>
                     /\ Bringing(key, x)' = Bringing(key, x) \cup PlacesIn(r, q, x)
                     /\ Bringing(key, x) \cap PlacesIn(r, q, x) = {}
                /\ Key(m) # key => Bringing(key, x)' = Bringing(key, x)
    <3>1. q # <<>> /\ run'[r].brought = q /\ run[r].brought = <<>> /\ \A s \in Runs \ {r} : run'[s] = run[s]
      BY <1>2, <2>1, <2>4, <2>5
    <3>2. /\ Key(run'[r].artifact) = key =>
               /\ Bringing(key, x)' = Bringing(key, x) \cup PlacesIn(r, q, x)
               /\ Bringing(key, x) \cap PlacesIn(r, q, x) = {}
          /\ Key(run'[r].artifact) # key => Bringing(key, x)' = Bringing(key, x)
      BY <3>1, OneMoreBrought
    <3> QED BY <2>5, <3>2
  <2>11. BringingIsFinite'
    <3> SUFFICES ASSUME NEW key, NEW x PROVE IsFiniteSet(Bringing(key, x)')
      BY DEF BringingIsFinite
    <3>1. IsFiniteSet(Bringing(key, x)) /\ IsFiniteSet(PlacesIn(r, q, x))
      BY <2>1, PlacesOfRun DEF SourcesInvariant, BringingIsFinite
    <3>2. IsFiniteSet(Bringing(key, x) \cup PlacesIn(r, q, x))
      BY <3>1, FS_Union
    <3> QED BY <2>10, <3>1, <3>2
  <2>12. ASSUME ~overlapped' PROVE (\A s \in Runs : FoundOK(s)') /\ CountsOK'
    <3>1. ~overlapped /\ Alone /\ CountsOK
      BY <2>7, <2>12 DEF SourcesInvariant
    <3>2. ASSUME NEW s \in Runs PROVE FoundOK(s)'
      <4>1. run'[s].at # "remember"
        <5>1. CASE s = r
          BY <2>5, <5>1
        <5>2. CASE s # r
          BY <1>2, <2>4, <3>1, <5>2 DEF Alone, InDuplicateDetection
        <5> QED BY <5>1, <5>2
      <4> QED BY <4>1 DEF FoundOK, At
    <3>3. PICK k : k = Key(a)
      OBVIOUS
    <3>4. /\ Key(m) = k
          /\ k \notin DOMAIN contents => m.refs = q
          /\ k \in DOMAIN contents => IsList(contents[k].refs) /\ m.refs = contents[k].refs \o q
      BY <1>1, <1>2, <1>5, <3>1, <3>3, MergedReferences DEF At
    <3>5. ASSUME NEW x PROVE Cardinality(Places(m.refs, x)) = Cardinality(Bringing(k, x)')
      <4>1. /\ IsFiniteSet(PlacesIn(r, q, x))
            /\ Cardinality(PlacesIn(r, q, x)) = Cardinality(Places(q, x))
        BY <2>1, PlacesOfRun
      <4>2. /\ Bringing(k, x)' = Bringing(k, x) \cup PlacesIn(r, q, x)
            /\ Bringing(k, x) \cap PlacesIn(r, q, x) = {}
        BY <2>10, <3>4
      <4>3. CASE k \notin DOMAIN contents
        <5>1. Brought(k) = {}
          BY <4>3 DEF Brought, SourcesInvariant, BroughtOK
        <5>2. Bringing(k, x) = {}
          BY <5>1 DEF Bringing
        <5>3. Bringing(k, x)' = PlacesIn(r, q, x)
          BY <4>2, <5>2
        <5> QED BY <3>4, <4>1, <4>3, <5>3
      <4>4. CASE k \in DOMAIN contents
        <5>1. PICK old : old = contents[k].refs
          OBVIOUS
        <5>2. IsList(old) /\ m.refs = old \o q
          BY <3>4, <4>4, <5>1
        <5>3. Cardinality(Places(old \o q, x)) = Cardinality(Places(old, x)) + Cardinality(Places(q, x))
          BY <2>1, <5>2, PlacesConcatenated
        <5>4. IsFiniteSet(Bringing(k, x)) /\ Cardinality(Places(old, x)) = Cardinality(Bringing(k, x))
          BY <3>1, <4>4, <5>1 DEF CountsOK, SourcesInvariant, BringingIsFinite
        <5>5. PICK B, N : B = Bringing(k, x) /\ N = PlacesIn(r, q, x)
          OBVIOUS
        <5>6. IsFiniteSet(B) /\ IsFiniteSet(N) /\ B \cap N = {} /\ Bringing(k, x)' = B \cup N
          BY <4>1, <4>2, <5>4, <5>5
        <5>7. Cardinality(B \cup N) = Cardinality(B) + Cardinality(N)
          BY <5>6, DisjointUnion
        <5> QED BY <4>1, <5>2, <5>3, <5>4, <5>5, <5>6, <5>7
      <4> QED BY <4>3, <4>4
    <3>6. CountsOK'
      <4> SUFFICES ASSUME NEW key \in DOMAIN contents', NEW x
                   PROVE  Cardinality(Places(contents'[key].refs, x)) = Cardinality(Bringing(key, x)')
        BY DEF CountsOK
      <4>1. CASE key = k
        BY <2>6, <3>4, <3>5, <4>1
      <4>2. CASE key # k
        <5>1. key \in DOMAIN contents /\ contents'[key] = contents[key]
          BY <2>6, <3>4, <4>2
        <5>2. Bringing(key, x)' = Bringing(key, x)
          BY <2>10, <3>4, <4>2
        <5>3. Cardinality(Places(contents[key].refs, x)) = Cardinality(Bringing(key, x))
          BY <3>1, <5>1 DEF CountsOK
        <5> QED BY <5>1, <5>2, <5>3
      <4> QED BY <4>1, <4>2
    <3> QED BY <3>2, <3>6
  <2> QED BY <2>7, <2>8, <2>9, <2>11, <2>12 DEF SourcesInvariant
<1> QED BY <1>4, <1>5

\* An answer to an approval touches no run and no content.
LEMMA SourcesResolved ==
  ASSUME SourcesInvariant, UNCHANGED <<run, contents>>, overlapped' = overlapped \/ Watched
  PROVE  SourcesInvariant'
<1>1. /\ InDuplicateDetection' = InDuplicateDetection
      /\ \A key : Brought(key)' = Brought(key)
  BY DEF InDuplicateDetection, Brought
<1>2. \A key, x : Bringing(key, x)' = Bringing(key, x)
  BY <1>1 DEF Bringing
<1>3. IsFiniteSet(InDuplicateDetection)' /\ BringingIsFinite'
  BY <1>1, <1>2 DEF SourcesInvariant, BringingIsFinite
<1>4. KeysOK' /\ BroughtOK'
  BY DEF SourcesInvariant, KeysOK, BroughtOK
<1>5. ASSUME ~overlapped' PROVE Alone' /\ (\A r \in Runs : FoundOK(r)') /\ CountsOK'
  <2>1. ~overlapped
    BY <1>5 DEF Watched
  <2>2. Alone'
    BY <1>1, <2>1 DEF SourcesInvariant, Alone
  <2>3. \A r \in Runs : FoundOK(r)'
    BY <2>1 DEF SourcesInvariant, FoundOK, At, Stopped, FindExactDuplicate
  <2>4. CountsOK'
    BY <1>2, <2>1 DEF SourcesInvariant, CountsOK
  <2> QED BY <2>2, <2>3, <2>4
<1> QED BY <1>3, <1>4, <1>5 DEF SourcesInvariant

LEMMA SourcesValidate ==
  ASSUME SourcesInvariant, GatesInvariant, Validate, Watched
  PROVE  SourcesInvariant'
<1>1. ASSUME NEW r \in Runs, NEW a, Submit(r, a) PROVE SourcesInvariant'
  BY <1>1, SourcesSubmit
<1>2. ASSUME NEW r \in Runs, Gate(r) PROVE SourcesInvariant'
  BY <1>2, SourcesSchema, SourcesDuplicate, SourcesRemember, SourcesVersions, SourcesSource, SourcesTrust,
     SourcesReview, SourcesHuman, SourcesScoring DEF Gate
<1>3. ASSUME NEW id, NEW decision, Resolved(id, decision) PROVE SourcesInvariant'
  BY <1>3, SourcesResolved DEF Resolved, store
<1> QED BY <1>1, <1>2, <1>3 DEF Validate

LEMMA AlwaysSources == Spec => []SourcesInvariant
<1>1. Init => SourcesInvariant
  BY SourcesStart
<1>2. SourcesInvariant /\ FactoryInvariant /\ [Next]_factory => SourcesInvariant'
  <2> SUFFICES ASSUME SourcesInvariant, FactoryInvariant, [Next]_factory PROVE SourcesInvariant'
    OBVIOUS
  <2>1. CASE Validate /\ Watched
    BY <2>1, SourcesValidate DEF FactoryInvariant
  <2>2. CASE UNCHANGED <<validation, overlapped>>
    BY <2>2, SourcesResolved DEF validation, store
  <2> QED BY <2>1, <2>2 DEF Next, factory, Watched
<1> QED BY <1>1, <1>2, AlwaysFactoryInvariant, PTL DEF Spec

\* gates.py:153: as long as no two runs were in duplicate detection at once, the
\* store has every content with all the references its submissions brought, each
\* as often as they did, whatever was merged, held, answered or failed since.
THEOREM SourcesAreKept == Spec => []SourcesAreNotLost
<1>1. SourcesInvariant => SourcesAreNotLost
  BY DEF SourcesInvariant, CountsOK, SourcesAreNotLost
<1> QED BY <1>1, AlwaysSources, PTL
------------------------------------------------------------------------------
(* Lists of lists, and the list they become.                               *)

\* What holds at the start and goes on from one to the next holds throughout.
LEMMA Climb ==
  ASSUME NEW n \in Nat, NEW G, 0 \in G, \A i \in 1..n : i - 1 \in G => i \in G
  PROVE  \A i \in 0..n : i \in G
<1> DEFINE f == [i \in 0..n |-> i]
<1>1. f[0] \in G
  OBVIOUS
<1>2. ASSUME NEW i \in 1..n, f[i - 1] \in G PROVE f[i] \in G
  <2>1. f[i - 1] = i - 1 /\ f[i] = i
    OBVIOUS
  <2> QED BY <1>2, <2>1
<1>3. \A i \in 0..n : f[i] \in G
  <2> HIDE DEF f
  <2> QED BY <1>1, <1>2, StaysIn
<1> QED BY <1>3

ListsOf(ss) == IsList(ss) /\ \A i \in 1..Len(ss) : IsList(ss[i])

LEMMA ListElements ==
  ASSUME NEW q, IsList(q)
  PROVE  ToSet(q) = Elements(q) /\ Len(q) \in Nat
<1>1. Len(q) \in Nat /\ DOMAIN q = 1..Len(q)
  BY DEF IsList
<1> QED BY <1>1 DEF ToSet, Elements

\* One after the other: the first as it was, then the second.
LEMMA Appending ==
  ASSUME NEW s, IsList(s), NEW t, IsList(t)
  PROVE  /\ IsList(s \o t) /\ Len(s) \in Nat /\ Len(t) \in Nat
         /\ Len(s \o t) = Len(s) + Len(t)
         /\ \A i \in 1..Len(s) : (s \o t)[i] = s[i]
         /\ \A i \in 1..Len(t) : (s \o t)[Len(s) + i] = t[i]
<1> DEFINE S == Elements(s) \cup Elements(t)
<1>1. s \in Seq(Elements(s)) /\ t \in Seq(Elements(t))
  BY ListIsSeq
<1> HIDE DEF S
<1>2. Elements(s) \subseteq S /\ Elements(t) \subseteq S
  BY DEF S
<1>3. s \in Seq(S) /\ t \in Seq(S)
  BY <1>1, <1>2
<1>4. IsList(s \o t)
  BY Concatenated
<1> QED BY <1>3, <1>4

\* Each place of the whole is one of the first or one of the second.
LEMMA AppendedPlaces ==
  ASSUME NEW s, IsList(s), NEW t, IsList(t), NEW k \in 1..Len(s \o t)
  PROVE  \/ k \in 1..Len(s) /\ (s \o t)[k] = s[k]
         \/ \E i \in 1..Len(t) : k = Len(s) + i /\ (s \o t)[k] = t[i]
<1>1. /\ Len(s) \in Nat /\ Len(t) \in Nat /\ Len(s \o t) = Len(s) + Len(t)
      /\ \A i \in 1..Len(s) : (s \o t)[i] = s[i]
      /\ \A i \in 1..Len(t) : (s \o t)[Len(s) + i] = t[i]
  BY Appending
<1>2. CASE k \in 1..Len(s)
  BY <1>1, <1>2
<1>3. CASE k \notin 1..Len(s)
  <2>1. k - Len(s) \in 1..Len(t) /\ k = Len(s) + (k - Len(s))
    BY <1>1, <1>3
  <2> QED BY <1>1, <2>1
<1> QED BY <1>2, <1>3

LEMMA AppendedElements ==
  ASSUME NEW s, IsList(s), NEW t, IsList(t)
  PROVE  Elements(s \o t) = Elements(s) \cup Elements(t)
<1>1. Elements(s \o t) \subseteq Elements(s) \cup Elements(t)
  BY Concatenated
<1>2. /\ Len(s) \in Nat /\ Len(t) \in Nat /\ Len(s \o t) = Len(s) + Len(t)
      /\ \A i \in 1..Len(s) : (s \o t)[i] = s[i]
      /\ \A i \in 1..Len(t) : (s \o t)[Len(s) + i] = t[i]
  BY Appending
<1>3. ASSUME NEW x \in Elements(s) PROVE x \in Elements(s \o t)
  <2>1. PICK i \in 1..Len(s) : x = s[i]
    BY DEF Elements
  <2>2. i \in 1..Len(s \o t) /\ (s \o t)[i] = x
    BY <1>2, <2>1
  <2> QED BY <2>2 DEF Elements
<1>4. ASSUME NEW x \in Elements(t) PROVE x \in Elements(s \o t)
  <2>1. PICK i \in 1..Len(t) : x = t[i]
    BY DEF Elements
  <2>2. Len(s) + i \in 1..Len(s \o t) /\ (s \o t)[Len(s) + i] = x
    BY <1>2, <2>1
  <2> QED BY <2>2 DEF Elements
<1> QED BY <1>1, <1>3, <1>4

\* f[n] is the first n of ss, one after the other.
Joins(f, ss) ==
  /\ f[0] = <<>> /\ FlattenSeq(ss) = f[Len(ss)]
  /\ \A i \in 1..Len(ss) : f[i] = f[i - 1] \o ss[i]
  /\ \A i \in 0..Len(ss) : IsList(f[i])

LEMMA NoLists ==
  ASSUME NEW ss, IsList(ss), Len(ss) = 0
  PROVE  FlattenSeq(ss) = <<>>
<1>1. ss = [i \in 1..0 |-> ss[i]]
  BY DEF IsList
<1>2. ss = <<>>
  BY <1>1
<1> QED BY <1>2 DEF FlattenSeq

LEMMA Flattening ==
  ASSUME NEW ss, ListsOf(ss)
  PROVE  \E f : Joins(f, ss)
<1>1. PICK n \in Nat : n = Len(ss)
  BY DEF ListsOf, IsList
<1> DEFINE E == UNION {Elements(ss[i]) : i \in 1..n}
           S == Seq(E)
           step == [p \in (1..n) \X S |-> p[2] \o ss[p[1]]]
           Eq(u) == u = [i \in 1..n |-> IF i = 1 THEN ss[i] ELSE u[i - 1] \o ss[i]]
           flatten == CHOOSE u : Eq(u)
<1>2. ASSUME NEW i \in 1..n PROVE ss[i] \in S
  <2>1. ss[i] \in Seq(Elements(ss[i]))
    BY <1>1, ListIsSeq DEF ListsOf
  <2>2. Elements(ss[i]) \subseteq E
    OBVIOUS
  <2> HIDE DEF E
  <2> QED BY <2>1, <2>2
<1>3. <<>> \in S
  OBVIOUS
<1>4. step \in [(1..n) \X S -> S]
  <2> HIDE DEF E
  <2>1. ASSUME NEW i \in 1..n, NEW s \in S PROVE s \o ss[i] \in S
    BY <1>2
  <2> QED BY <2>1
<1>5. PICK f \in [0..n -> S] : Unfolds(f, n, <<>>, step)
  <2> HIDE DEF step, S
  <2> QED BY <1>3, <1>4, Recursion
<1>6. f[0] = <<>> /\ \A i \in 1..n : f[i] = f[i - 1] \o ss[i]
  <2> HIDE DEF S
  <2>1. ASSUME NEW i \in 1..n PROVE f[i] = f[i - 1] \o ss[i]
    <3>1. <<i, f[i - 1]>> \in (1..n) \X S
      BY <1>5
    <3>2. step[<<i, f[i - 1]>>] = f[i - 1] \o ss[i]
      BY <3>1
    <3> QED BY <1>5, <3>2 DEF Unfolds
  <2> QED BY <1>5, <2>1 DEF Unfolds
<1>7. \A i \in 0..n : IsList(f[i])
  <2> HIDE DEF E
  <2> QED BY <1>5, SeqIsList
<1>8. CASE n = 0
  <2>1. FlattenSeq(ss) = <<>>
    BY <1>1, <1>8, NoLists DEF ListsOf
  <2> QED BY <1>1, <1>6, <1>7, <1>8, <2>1 DEF Joins
<1>9. CASE n # 0
  <2> DEFINE u == [i \in 1..n |-> f[i]]
  <2>1. n \in 1..n /\ 1 \in 1..n
    BY <1>9
  <2>2. Eq(u)
    <3>1. ASSUME NEW i \in 1..n PROVE u[i] = IF i = 1 THEN ss[i] ELSE u[i - 1] \o ss[i]
      <4>1. CASE i = 1
        <5>1. f[1] = <<>> \o ss[1]
          <6> HIDE DEF S, u, flatten, Eq, step
          <6>1. f[1] = f[1 - 1] \o ss[1]
            BY <1>6, <2>1
          <6>2. 1 - 1 = 0 /\ f[0] = <<>>
            BY <1>6
          <6> QED BY <6>1, <6>2
        <5>2. <<>> \o ss[1] = ss[1]
          <6>1. PICK s \in S : s = ss[1]
            BY <1>2, <2>1
          <6> HIDE DEF E
          <6>2. <<>> \o s = s
            OBVIOUS
          <6> QED BY <6>1, <6>2
        <5> QED BY <4>1, <5>1, <5>2
      <4>2. CASE i # 1
        <5>1. i - 1 \in 1..n
          BY <4>2
        <5> QED BY <1>6, <4>2, <5>1
      <4> QED BY <4>1, <4>2
    <3> QED BY <3>1
  <2>3. Eq(flatten)
    <3> HIDE DEF Eq
    <3> QED BY <2>2
  <2>4. FlattenSeq(ss) = flatten[n]
    BY <1>1, <1>9 DEF FlattenSeq
  <2>5. \A i \in 1..n : flatten[i] = IF i = 1 THEN ss[i] ELSE flatten[i - 1] \o ss[i]
    <3> HIDE DEF flatten
    <3> QED BY <2>3
  <2>6. \A i \in 0..n : i \in {j \in 0..n : j = 0 \/ flatten[j] = f[j]}
    <3> DEFINE G == {j \in 0..n : j = 0 \/ flatten[j] = f[j]}
    <3> HIDE DEF flatten
    <3>1. 0 \in G
      OBVIOUS
    <3>2. ASSUME NEW i \in 1..n, i - 1 \in G PROVE i \in G
      <4>1. CASE i = 1
        <5>1. u[1] = ss[1] /\ u[1] = f[1]
          BY <2>1, <2>2
        <5>2. flatten[1] = ss[1]
          BY <2>1, <2>5
        <5> QED BY <4>1, <5>1, <5>2
      <4>2. CASE i # 1
        <5>1. flatten[i - 1] = f[i - 1]
          BY <3>2, <4>2
        <5>2. flatten[i] = flatten[i - 1] \o ss[i]
          BY <2>5, <4>2
        <5> QED BY <1>6, <5>1, <5>2
      <4> QED BY <4>1, <4>2
    <3> HIDE DEF G
    <3>3. \A i \in 0..n : i \in G
      BY <3>1, <3>2, Climb
    <3> QED BY <3>3 DEF G
  <2>7. FlattenSeq(ss) = f[n]
    <3> HIDE DEF flatten
    <3> QED BY <1>9, <2>4, <2>6
  <2> QED BY <1>1, <1>6, <1>7, <2>7 DEF Joins
<1> QED BY <1>8, <1>9

LEMMA JoinOneMore ==
  ASSUME NEW ss, ListsOf(ss), NEW f, Joins(f, ss), NEW m \in 1..Len(ss)
  PROVE  /\ f[m] = f[m - 1] \o ss[m] /\ IsList(f[m - 1]) /\ IsList(ss[m])
         /\ Len(f[m - 1]) \in Nat /\ Len(ss[m]) \in Nat
         /\ Len(f[m]) = Len(f[m - 1]) + Len(ss[m])
<1>1. PICK n \in Nat : n = Len(ss)
  BY DEF ListsOf, IsList
<1>2. m \in 1..n /\ m - 1 \in 0..n
  BY <1>1
<1>3. IsList(ss[m])
  BY DEF ListsOf
<1>4. IsList(f[m - 1])
  BY <1>1, <1>2 DEF Joins
<1>5. f[m] = f[m - 1] \o ss[m]
  BY DEF Joins
<1> QED BY <1>3, <1>4, <1>5, Appending

LEMMA FlattenedIsList ==
  ASSUME NEW ss, ListsOf(ss)
  PROVE  IsList(FlattenSeq(ss)) /\ Len(FlattenSeq(ss)) \in Nat
<1>1. PICK f : Joins(f, ss)
  BY Flattening
<1>2. Len(ss) \in 0..Len(ss)
  BY DEF ListsOf, IsList
<1>3. IsList(FlattenSeq(ss))
  BY <1>1, <1>2 DEF Joins
<1> QED BY <1>3 DEF IsList

\* The elements of the whole are those of its lists.
LEMMA FlattenedElements ==
  ASSUME NEW ss, ListsOf(ss)
  PROVE  Elements(FlattenSeq(ss)) = UNION {Elements(ss[i]) : i \in 1..Len(ss)}
<1>1. PICK f : Joins(f, ss)
  BY Flattening
<1>2. PICK n \in Nat : n = Len(ss)
  BY DEF ListsOf, IsList
<1> DEFINE Upto(m) == UNION {Elements(ss[i]) : i \in 1..m}
           G == {m \in 0..n : Elements(f[m]) = Upto(m)}
<1>3. 0 \in G
  <2>1. Elements(<<>>) = {}
    BY DEF Elements
  <2> QED BY <1>1, <2>1 DEF Joins
<1>4. ASSUME NEW m \in 1..n, m - 1 \in G PROVE m \in G
  <2>1. f[m] = f[m - 1] \o ss[m] /\ IsList(f[m - 1]) /\ IsList(ss[m])
    BY <1>1, <1>2, JoinOneMore
  <2>2. Elements(f[m]) = Elements(f[m - 1]) \cup Elements(ss[m])
    BY <2>1, AppendedElements
  <2>3. 1..m = 1..(m - 1) \cup {m}
    OBVIOUS
  <2>4. Upto(m) = Upto(m - 1) \cup Elements(ss[m])
    BY <2>3
  <2>5. Elements(f[m - 1]) = Upto(m - 1)
    BY <1>4
  <2>6. Elements(f[m]) = Upto(m)
    BY <2>2, <2>4, <2>5
  <2> HIDE DEF Upto
  <2> QED BY <2>6
<1>5. \A m \in 0..n : m \in G
  <2> HIDE DEF G
  <2> QED BY <1>3, <1>4, Climb
<1>6. Elements(f[n]) = Upto(n)
  <2> HIDE DEF Upto
  <2> QED BY <1>5
<1> QED BY <1>1, <1>2, <1>6 DEF Joins

\* Exactly one place holds a member of M; none does.
One(q, M) == \E i \in 1..Len(q) : q[i] \in M /\ \A j \in 1..Len(q) : q[j] \in M => j = i
No(q, M) == \A i \in 1..Len(q) : q[i] \notin M

LEMMA NoAppended ==
  ASSUME NEW s, IsList(s), NEW t, IsList(t), NEW M, No(s, M), No(t, M)
  PROVE  No(s \o t, M)
<1> SUFFICES ASSUME NEW k \in 1..Len(s \o t) PROVE (s \o t)[k] \notin M
  BY DEF No
<1> QED BY AppendedPlaces DEF No

LEMMA OneThenNone ==
  ASSUME NEW s, IsList(s), NEW t, IsList(t), NEW M, One(s, M), No(t, M)
  PROVE  One(s \o t, M)
<1>1. PICK i \in 1..Len(s) : s[i] \in M /\ \A j \in 1..Len(s) : s[j] \in M => j = i
  BY DEF One
<1>2. i \in 1..Len(s \o t) /\ (s \o t)[i] \in M
  BY <1>1, Appending
<1>3. ASSUME NEW k \in 1..Len(s \o t), (s \o t)[k] \in M PROVE k = i
  <2>1. CASE k \in 1..Len(s) /\ (s \o t)[k] = s[k]
    BY <1>1, <1>3, <2>1
  <2>2. CASE \E l \in 1..Len(t) : k = Len(s) + l /\ (s \o t)[k] = t[l]
    BY <1>3, <2>2 DEF No
  <2> QED BY <2>1, <2>2, AppendedPlaces
<1> QED BY <1>2, <1>3 DEF One

LEMMA NoneThenOne ==
  ASSUME NEW s, IsList(s), NEW t, IsList(t), NEW M, No(s, M), One(t, M)
  PROVE  One(s \o t, M)
<1>1. PICK i \in 1..Len(t) : t[i] \in M /\ \A j \in 1..Len(t) : t[j] \in M => j = i
  BY DEF One
<1>2. Len(s) + i \in 1..Len(s \o t) /\ (s \o t)[Len(s) + i] \in M
  <2>1. /\ Len(s) \in Nat /\ Len(t) \in Nat /\ Len(s \o t) = Len(s) + Len(t)
        /\ \A k \in 1..Len(t) : (s \o t)[Len(s) + k] = t[k]
    BY Appending
  <2> QED BY <1>1, <2>1
<1>3. ASSUME NEW k \in 1..Len(s \o t), (s \o t)[k] \in M PROVE k = Len(s) + i
  <2>1. CASE k \in 1..Len(s) /\ (s \o t)[k] = s[k]
    BY <1>3, <2>1 DEF No
  <2>2. CASE \E l \in 1..Len(t) : k = Len(s) + l /\ (s \o t)[k] = t[l]
    BY <1>1, <1>3, <2>2
  <2> QED BY <2>1, <2>2, AppendedPlaces
<1> QED BY <1>2, <1>3 DEF One

\* What is once in one of the lists and not in the others is once in the whole.
LEMMA FlattenedOne ==
  ASSUME NEW ss, ListsOf(ss), NEW M, NEW j \in 1..Len(ss), One(ss[j], M),
         \A i \in 1..Len(ss) : i # j => No(ss[i], M)
  PROVE  One(FlattenSeq(ss), M)
<1>1. PICK f : Joins(f, ss)
  BY Flattening
<1>2. PICK n \in Nat : n = Len(ss)
  BY DEF ListsOf, IsList
<1> DEFINE G == {m \in 0..n : IF m < j THEN No(f[m], M) ELSE One(f[m], M)}
<1>3. 0 \in G
  <2>1. No(<<>>, M)
    BY DEF No
  <2> QED BY <1>1, <2>1 DEF Joins
<1>4. ASSUME NEW m \in 1..n, m - 1 \in G PROVE m \in G
  <2>1. f[m] = f[m - 1] \o ss[m] /\ IsList(f[m - 1]) /\ IsList(ss[m])
    BY <1>1, <1>2, JoinOneMore
  <2>2. CASE m < j
    <3>1. No(f[m - 1], M) /\ No(ss[m], M)
      BY <1>2, <1>4, <2>2
    <3>2. No(f[m], M)
      BY <2>1, <3>1, NoAppended
    <3> QED BY <2>2, <3>2
  <2>3. CASE m = j
    <3>1. No(f[m - 1], M) /\ One(ss[m], M)
      BY <1>2, <1>4, <2>3
    <3>2. One(f[m], M)
      BY <2>1, <3>1, NoneThenOne
    <3> QED BY <2>3, <3>2
  <2>4. CASE m > j
    <3>1. One(f[m - 1], M) /\ No(ss[m], M)
      BY <1>2, <1>4, <2>4
    <3>2. One(f[m], M)
      BY <2>1, <3>1, OneThenNone
    <3> QED BY <2>4, <3>2
  <2> QED BY <1>2, <2>2, <2>3, <2>4
<1>5. \A m \in 0..n : m \in G
  <2> HIDE DEF G
  <2> QED BY <1>3, <1>4, Climb
<1>6. One(f[n], M)
  <2>1. n \in 0..n /\ ~(n < j)
    BY <1>2
  <2> QED BY <1>5, <2>1
<1> QED BY <1>1, <1>2, <1>6 DEF Joins

\* One list of one, and the others empty.
LEMMA FlattenedSingle ==
  ASSUME NEW ss, ListsOf(ss), NEW j \in 1..Len(ss), Len(ss[j]) = 1,
         \A i \in 1..Len(ss) : i # j => ss[i] = <<>>
  PROVE  Len(FlattenSeq(ss)) = 1
<1>1. PICK f : Joins(f, ss)
  BY Flattening
<1>2. PICK n \in Nat : n = Len(ss)
  BY DEF ListsOf, IsList
<1> DEFINE G == {m \in 0..n : Len(f[m]) = IF m < j THEN 0 ELSE 1}
<1>3. 0 \in G
  <2>1. Len(<<>>) = 0
    OBVIOUS
  <2> QED BY <1>1, <2>1 DEF Joins
<1>4. ASSUME NEW m \in 1..n, m - 1 \in G PROVE m \in G
  <2>1. m \in 1..Len(ss)
    BY <1>2
  <2>2. Len(f[m]) = Len(f[m - 1]) + Len(ss[m])
    BY <1>1, <2>1, JoinOneMore
  <2>3. Len(ss[m]) = IF m = j THEN 1 ELSE 0
    <3>1. Len(<<>>) = 0
      OBVIOUS
    <3> QED BY <2>1, <3>1
  <2>4. Len(f[m - 1]) = IF m - 1 < j THEN 0 ELSE 1
    BY <1>4
  <2>5. Len(f[m]) = IF m < j THEN 0 ELSE 1
    BY <1>2, <2>2, <2>3, <2>4
  <2> QED BY <2>5
<1>5. \A m \in 0..n : m \in G
  <2> HIDE DEF G
  <2> QED BY <1>3, <1>4, Climb
<1>6. Len(f[n]) = 1
  <2>1. n \in 0..n /\ ~(n < j)
    BY <1>2
  <2> QED BY <1>5, <2>1
<1> QED BY <1>1, <1>2, <1>6 DEF Joins

\* As many of each, as many of all.
LEMMA FlattenedLengths ==
  ASSUME NEW ss, ListsOf(ss), NEW tt, ListsOf(tt), Len(ss) = Len(tt),
         \A i \in 1..Len(ss) : Len(ss[i]) = Len(tt[i])
  PROVE  Len(FlattenSeq(ss)) = Len(FlattenSeq(tt))
<1>1. PICK f, g : Joins(f, ss) /\ Joins(g, tt)
  BY Flattening
<1>2. PICK n \in Nat : n = Len(ss)
  BY DEF ListsOf, IsList
<1> DEFINE G == {m \in 0..n : Len(f[m]) = Len(g[m])}
<1>3. 0 \in G
  BY <1>1 DEF Joins
<1>4. ASSUME NEW m \in 1..n, m - 1 \in G PROVE m \in G
  <2>1. m \in 1..Len(ss) /\ m \in 1..Len(tt)
    BY <1>2
  <2>2. Len(f[m]) = Len(f[m - 1]) + Len(ss[m])
    BY <1>1, <2>1, JoinOneMore
  <2>3. Len(g[m]) = Len(g[m - 1]) + Len(tt[m])
    BY <1>1, <2>1, JoinOneMore
  <2>4. Len(ss[m]) = Len(tt[m]) /\ Len(f[m - 1]) = Len(g[m - 1])
    BY <1>4, <2>1
  <2>5. Len(f[m]) = Len(g[m])
    BY <2>2, <2>3, <2>4
  <2> QED BY <2>5
<1>5. \A m \in 0..n : m \in G
  <2> HIDE DEF G
  <2> QED BY <1>3, <1>4, Climb
<1>6. Len(f[n]) = Len(g[n])
  <2>1. n \in 0..n
    OBVIOUS
  <2> QED BY <1>5, <2>1
<1> QED BY <1>1, <1>2, <1>6 DEF Joins

LEMMA AppendedOne ==
  ASSUME NEW s, IsList(s), NEW t, IsList(t)
  PROVE  Len(t) = 1 => /\ Len(s \o t) = Len(s) + 1
                       /\ \A i \in 1..Len(s) : (s \o t)[i] = s[i]
                       /\ (s \o t)[Len(s) + 1] = t[1]
<1>1. /\ Len(s) \in Nat /\ Len(s \o t) = Len(s) + Len(t)
      /\ \A i \in 1..Len(s) : (s \o t)[i] = s[i]
      /\ \A i \in 1..Len(t) : (s \o t)[Len(s) + i] = t[i]
  BY Appending
<1>2. Len(t) = 1 => 1 \in 1..Len(t)
  OBVIOUS
<1>3. Len(t) = 1 => (s \o t)[Len(s) + 1] = t[1]
  BY <1>1, <1>2
<1> QED BY <1>1, <1>3

\* Lists of one each: the n-th is the one of the n-th.
LEMMA FlattenedOnes ==
  ASSUME NEW ss, ListsOf(ss), \A i \in 1..Len(ss) : Len(ss[i]) = 1
  PROVE  /\ Len(FlattenSeq(ss)) = Len(ss)
         /\ \A i \in 1..Len(ss) : FlattenSeq(ss)[i] = ss[i][1]
<1>1. PICK f : Joins(f, ss)
  BY Flattening
<1>2. PICK n \in Nat : n = Len(ss)
  BY DEF ListsOf, IsList
<1> DEFINE Ok(m) == Len(f[m]) = m /\ \A i \in 1..m : f[m][i] = ss[i][1]
           G == {m \in 0..n : Ok(m)}
<1>3. 0 \in G
  BY <1>1 DEF Joins
<1>4. ASSUME NEW m \in 1..n, m - 1 \in G PROVE m \in G
  <2>1. f[m] = f[m - 1] \o ss[m] /\ IsList(f[m - 1]) /\ IsList(ss[m])
    BY <1>1, <1>2, JoinOneMore
  <2>2. Len(ss[m]) = 1 /\ Ok(m - 1)
    BY <1>2, <1>4
  <2>3. Len(f[m - 1]) = m - 1
    BY <2>2
  <2>4. /\ Len(f[m]) = m - 1 + 1
        /\ \A i \in 1..(m - 1) : f[m][i] = f[m - 1][i]
        /\ f[m][m - 1 + 1] = ss[m][1]
    <3>1. PICK s, t, l : s = f[m - 1] /\ t = ss[m] /\ l = m - 1
      OBVIOUS
    <3>2. f[m] = s \o t /\ IsList(s) /\ IsList(t) /\ Len(s) = l /\ Len(t) = 1
      BY <2>1, <2>2, <2>3, <3>1
    <3>3. /\ Len(s \o t) = l + 1
          /\ \A i \in 1..l : (s \o t)[i] = s[i]
          /\ (s \o t)[l + 1] = t[1]
      BY <3>2, AppendedOne
    <3> QED BY <3>1, <3>2, <3>3
  <2>5. Len(f[m]) = m /\ f[m][m] = ss[m][1]
    BY <2>4
  <2>6. ASSUME NEW i \in 1..m PROVE f[m][i] = ss[i][1]
    <3>1. CASE i = m
      BY <2>5, <3>1
    <3>2. CASE i # m
      <4>1. i \in 1..(m - 1)
        BY <3>2
      <4> QED BY <2>2, <2>4, <4>1
    <3> QED BY <3>1, <3>2
  <2> QED BY <2>5, <2>6
<1>5. \A m \in 0..n : m \in G
  <2> HIDE DEF G
  <2> QED BY <1>3, <1>4, Climb
<1>6. Ok(n)
  <2> HIDE DEF Ok
  <2> QED BY <1>5
<1> QED BY <1>1, <1>2, <1>6 DEF Joins

------------------------------------------------------------------------------
(* Requirements: mentions, comparison and gaps.                            *)

Positive(r) == Above(r.score, <<0, 1>>)

\* The loop over the results of a comparison, as a function of how far it came.
LEMMA ScoresLoop ==
  ASSUME NEW results, IsList(results)
  PROVE  \E f : /\ f[0] = <<>> /\ BestScores(results) = f[Len(results)]
                /\ \A i \in 1..Len(results) : f[i] = ScoreSeen(f[i - 1], results[i])
<1>1. PICK n \in Nat : n = Len(results)
  BY DEF IsList
<1> DEFINE D == {results[i].subject : i \in 1..n}
           V == {results[i].score : i \in 1..n}
           S == UNION {[T -> V] : T \in SUBSET D}
           step == [p \in (1..n) \X S |-> ScoreSeen(p[2], results[p[1]])]
           Eq(u) == u = [i \in 0..n |-> IF i = 0 THEN <<>> ELSE ScoreSeen(u[i - 1], results[i])]
           best == CHOOSE u : Eq(u)
<1>2. <<>> \in S
  <2>1. <<>> \in [{} -> V] /\ {} \in SUBSET D
    OBVIOUS
  <2> QED BY <2>1
<1>3. step \in [(1..n) \X S -> S]
  <2>1. ASSUME NEW i \in 1..n, NEW b \in S PROVE ScoreSeen(b, results[i]) \in S
    <3>1. PICK T \in SUBSET D : b \in [T -> V]
      OBVIOUS
    <3>2. results[i].subject \in D /\ results[i].score \in V
      OBVIOUS
    <3>3. CASE Better(b, results[i])
      <4>1. PICK x, v : x = results[i].subject /\ v = results[i].score
        OBVIOUS
      <4>2. ScoreSeen(b, results[i]) = [s \in DOMAIN b \cup {x} |-> IF s = x THEN v ELSE b[s]]
        BY <3>3, <4>1 DEF ScoreSeen
      <4>3. T \cup {x} \in SUBSET D /\ v \in V
        BY <3>2, <4>1
      <4> HIDE DEF D, V
      <4>4. [s \in DOMAIN b \cup {x} |-> IF s = x THEN v ELSE b[s]] \in [T \cup {x} -> V]
        BY <3>1, <4>3
      <4> QED BY <4>2, <4>3, <4>4
    <3>4. CASE ~Better(b, results[i])
      BY <3>4 DEF ScoreSeen
    <3> QED BY <3>3, <3>4
  <2> HIDE DEF S
  <2> QED BY <2>1
<1>4. PICK f \in [0..n -> S] : Unfolds(f, n, <<>>, step)
  <2> HIDE DEF step, S
  <2> QED BY <1>2, <1>3, Recursion
<1>5. Eq(f)
  <2> HIDE DEF S
  <2>1. ASSUME NEW i \in 1..n PROVE f[i] = ScoreSeen(f[i - 1], results[i])
    <3>1. <<i, f[i - 1]>> \in (1..n) \X S
      BY <1>4
    <3>2. step[<<i, f[i - 1]>>] = ScoreSeen(f[i - 1], results[i])
      BY <3>1
    <3> QED BY <1>4, <3>2 DEF Unfolds
  <2> QED BY <1>4, <2>1 DEF Unfolds
<1>6. Eq(best)
  <2> HIDE DEF Eq
  <2> QED BY <1>5
<1>7. best[0] = <<>> /\ \A i \in 1..n : best[i] = ScoreSeen(best[i - 1], results[i])
  <2> HIDE DEF best
  <2> QED BY <1>6
<1>8. BestScores(results) = best[n]
  BY <1>1 DEF BestScores
<1> HIDE DEF best
<1> QED BY <1>1, <1>7, <1>8

\* Scored are the subjects of a result that is not zero.
LEMMA ScoredSubjects ==
  ASSUME NEW results, IsList(results)
  PROVE  DOMAIN BestScores(results) = {r.subject : r \in {q \in Elements(results) : Positive(q)}}
<1>1. PICK f : /\ f[0] = <<>> /\ BestScores(results) = f[Len(results)]
               /\ \A i \in 1..Len(results) : f[i] = ScoreSeen(f[i - 1], results[i])
  BY ScoresLoop
<1>2. PICK n \in Nat : n = Len(results)
  BY DEF IsList
<1> DEFINE Upto(m) == {results[i].subject : i \in {j \in 1..m : Positive(results[j])}}
           G == {m \in 0..n : DOMAIN f[m] = Upto(m)}
<1>3. 0 \in G
  BY <1>1
<1>4. ASSUME NEW m \in 1..n, m - 1 \in G PROVE m \in G
  <2>1. PICK b, r : b = f[m - 1] /\ r = results[m]
    OBVIOUS
  <2>2. f[m] = ScoreSeen(b, r) /\ DOMAIN b = Upto(m - 1)
    BY <1>1, <1>2, <1>4, <2>1
  <2>3. 1..m = 1..(m - 1) \cup {m}
    OBVIOUS
  <2>4. Upto(m) = Upto(m - 1) \cup (IF Positive(r) THEN {r.subject} ELSE {})
    BY <2>1, <2>3
  <2>5. r.subject \notin DOMAIN b => (Better(b, r) <=> Positive(r))
    BY DEF Better, Positive
  <2>6. DOMAIN ScoreSeen(b, r) = DOMAIN b \cup (IF Better(b, r) THEN {r.subject} ELSE {})
    BY DEF ScoreSeen
  <2>7. DOMAIN b \cup (IF Better(b, r) THEN {r.subject} ELSE {})
          = DOMAIN b \cup (IF Positive(r) THEN {r.subject} ELSE {})
    BY <2>5
  <2>8. DOMAIN f[m] = Upto(m)
    <3> HIDE DEF Upto
    <3> QED BY <2>2, <2>4, <2>6, <2>7
  <2> QED BY <2>8
<1>5. \A m \in 0..n : m \in G
  <2> HIDE DEF G
  <2> QED BY <1>3, <1>4, Climb
<1>6. DOMAIN f[n] = Upto(n)
  <2> HIDE DEF Upto
  <2> QED BY <1>5
<1>7. Upto(n) = {r.subject : r \in {q \in Elements(results) : Positive(q)}}
  BY <1>2 DEF Elements
<1> QED BY <1>1, <1>2, <1>6, <1>7

Compared(s, c) == [subject |-> s.id, candidate |-> c.id, score |-> Jaccard(s.text, c.text)]

AllPairs(subjects, candidates) ==
  {Compared(s, c) : s \in Elements(subjects), c \in Elements(candidates)}

\* Each subject is compared with each candidate.
LEMMA PairsCompared ==
  ASSUME NEW subjects, IsList(subjects), NEW candidates, IsList(candidates)
  PROVE  /\ IsList(ComparePairs(subjects, candidates))
         /\ Elements(ComparePairs(subjects, candidates)) =
              AllPairs(subjects, candidates)
<1>1. PICK n \in Nat, m \in Nat : n = Len(subjects) /\ m = Len(candidates)
  BY DEF IsList
<1> DEFINE row(i) == [j \in 1..m |-> Compared(subjects[i], candidates[j])]
           ss == [i \in 1..n |-> row(i)]
<1>2. ComparePairs(subjects, candidates) = FlattenSeq(ss)
  BY <1>1 DEF ComparePairs, Compared
<1>3. ASSUME NEW i \in 1..n
      PROVE  IsList(ss[i]) /\ Elements(ss[i]) = {Compared(subjects[i], c) : c \in Elements(candidates)}
  <2>1. ss[i] = row(i) /\ Len(row(i)) = m
    OBVIOUS
  <2> QED BY <1>1, <2>1 DEF IsList, Elements
<1>4. Len(ss) = n /\ IsList(ss)
  <2> HIDE DEF row
  <2> QED BY DEF IsList
<1>5. ListsOf(ss)
  BY <1>3, <1>4 DEF ListsOf
<1>6. IsList(FlattenSeq(ss)) /\ Elements(FlattenSeq(ss)) = UNION {Elements(ss[i]) : i \in 1..n}
  <2> HIDE DEF ss
  <2> QED BY <1>4, <1>5, FlattenedIsList, FlattenedElements
<1>7. UNION {Elements(ss[i]) : i \in 1..n} =
        AllPairs(subjects, candidates)
  <2> HIDE DEF ss
  <2>1. Elements(subjects) = {subjects[i] : i \in 1..n}
    BY <1>1 DEF Elements
  <2>2. ASSUME NEW x \in UNION {Elements(ss[i]) : i \in 1..n}
        PROVE  x \in AllPairs(subjects, candidates)
    <3>1. PICK i \in 1..n : x \in {Compared(subjects[i], c) : c \in Elements(candidates)}
      BY <1>3
    <3>2. subjects[i] \in Elements(subjects)
      BY <2>1
    <3> QED BY <3>1, <3>2 DEF AllPairs
  <2>3. ASSUME NEW s \in Elements(subjects), NEW c \in Elements(candidates)
        PROVE  Compared(s, c) \in UNION {Elements(ss[i]) : i \in 1..n}
    <3>1. PICK i \in 1..n : s = subjects[i]
      BY <2>1
    <3>2. Compared(s, c) \in Elements(ss[i])
      BY <1>3, <3>1
    <3> QED BY <3>2
  <2> DEFINE X == UNION {Elements(ss[i]) : i \in 1..n}
             Y == AllPairs(subjects, candidates)
  <2>4. ASSUME NEW y \in Y PROVE y \in X
    <3>1. PICK s \in Elements(subjects), c \in Elements(candidates) : y = Compared(s, c)
      BY DEF AllPairs
    <3> QED BY <2>3, <3>1
  <2>5. \A x \in X : x \in Y
    BY <2>2
  <2> HIDE DEF X, Y
  <2>6. X = Y
    BY <2>4, <2>5
  <2> QED BY <2>6 DEF X, Y
<1>8. IsList(ComparePairs(subjects, candidates))
  <2> HIDE DEF ss
  <2> QED BY <1>2, <1>6
<1>9. Elements(ComparePairs(subjects, candidates)) =
        AllPairs(subjects, candidates)
  <2>1. Elements(FlattenSeq(ss)) = AllPairs(subjects, candidates)
    BY <1>6, <1>7, Zenon
  <2>2. Elements(ComparePairs(subjects, candidates)) = Elements(FlattenSeq(ss))
    BY <1>2, Zenon
  <2> QED BY <2>1, <2>2, Zenon
<1> QED BY <1>8, <1>9

\* Two texts are similar iff they have a word in common.
LEMMA SimilarIsPositive ==
  ASSUME NEW s, NEW c, IsFiniteSet(s.text), IsFiniteSet(c.text)
  PROVE  Positive(Compared(s, c)) <=> c.text \cap s.text # {}
<1>1. PICK S, T : S = s.text /\ T = c.text
  OBVIOUS
<1>2. IsFiniteSet(S) /\ IsFiniteSet(T)
  BY <1>1
<1>3. IsFiniteSet(S \cup T) /\ IsFiniteSet(S \cap T)
  BY <1>2, FS_Union, FS_Intersection
<1>4. Cardinality(S \cup T) \in Nat /\ Cardinality(S \cap T) \in Nat
  BY <1>3, FS_CardinalityType
<1>5. Cardinality(S \cap T) = 0 <=> S \cap T = {}
  BY <1>3, FS_EmptySet
<1>6. Compared(s, c).score = Jaccard(S, T)
  BY <1>1 DEF Compared
<1>7. Above(Jaccard(S, T), <<0, 1>>) <=> S \cap T # {}
  <2>1. CASE S \cup T = {}
    <3>1. Jaccard(S, T) = <<0, 1>> /\ S \cap T = {}
      BY <2>1 DEF Jaccard
    <3> QED BY <3>1 DEF Above
  <2>2. CASE S \cup T # {}
    <3>1. PICK p, q : p = Cardinality(S \cap T) /\ q = Cardinality(S \cup T)
      OBVIOUS
    <3>2. Jaccard(S, T) = <<p, q>> /\ p \in Nat /\ q \in Nat
      BY <1>4, <2>2, <3>1 DEF Jaccard
    <3>3. Above(<<p, q>>, <<0, 1>>) <=> p * 1 > 0 * q
      BY DEF Above
    <3>4. p * 1 > 0 * q <=> p # 0
      BY <3>2
    <3> QED BY <1>5, <3>1, <3>2, <3>3, <3>4
  <2> QED BY <2>1, <2>2
<1> QED BY <1>1, <1>6, <1>7 DEF Positive

\* The facts of a kind, or the candidates for it.
FactList(q) == IsList(q) /\ \A i \in 1..Len(q) : IsFiniteSet(q[i].text)

Unmatched(s, candidates) == \A c \in Elements(candidates) : c.text \cap s.text = {}

LEMMA ScoredIsMatched ==
  ASSUME NEW subjects, FactList(subjects), NEW candidates, FactList(candidates),
         \A s, t \in Elements(subjects) : s.id = t.id => s.text = t.text,
         NEW s \in Elements(subjects)
  PROVE  s.id \in DOMAIN BestScores(ComparePairs(subjects, candidates)) <=> ~Unmatched(s, candidates)
<1> DEFINE R == ComparePairs(subjects, candidates)
<1>1. /\ IsList(R)
      /\ Elements(R) = AllPairs(subjects, candidates)
  BY PairsCompared DEF FactList
<1>2. DOMAIN BestScores(R) = {r.subject : r \in {q \in Elements(R) : Positive(q)}}
  <2> HIDE DEF R
  <2> QED BY <1>1, ScoredSubjects
<1>3. ASSUME NEW t \in Elements(subjects), NEW c \in Elements(candidates)
      PROVE  /\ Compared(t, c).subject = t.id
             /\ Positive(Compared(t, c)) <=> c.text \cap t.text # {}
  <2>1. IsFiniteSet(t.text) /\ IsFiniteSet(c.text)
    BY DEF FactList, Elements
  <2>2. Compared(t, c).subject = t.id
    BY DEF Compared
  <2> QED BY <2>1, <2>2, SimilarIsPositive
<1> HIDE DEF R
<1>4. ASSUME s.id \in DOMAIN BestScores(R) PROVE ~Unmatched(s, candidates)
  <2>1. PICK r \in Elements(R) : Positive(r) /\ r.subject = s.id
    BY <1>2, <1>4
  <2>2. PICK t \in Elements(subjects), c \in Elements(candidates) : r = Compared(t, c)
    BY <1>1, <2>1 DEF AllPairs
  <2>3. t.id = s.id /\ c.text \cap t.text # {}
    BY <1>3, <2>1, <2>2
  <2>4. t.text = s.text
    BY <2>3
  <2> QED BY <2>3, <2>4 DEF Unmatched
<1>5. ASSUME ~Unmatched(s, candidates) PROVE s.id \in DOMAIN BestScores(R)
  <2>1. PICK c \in Elements(candidates) : c.text \cap s.text # {}
    BY <1>5 DEF Unmatched
  <2>2. PICK r : r = Compared(s, c)
    OBVIOUS
  <2>3. r \in Elements(R) /\ Positive(r) /\ r.subject = s.id
    BY <1>1, <1>3, <2>1, <2>2 DEF AllPairs
  <2> QED BY <1>2, <2>3
<1>6. s.id \in DOMAIN BestScores(R) <=> ~Unmatched(s, candidates)
  BY <1>4, <1>5
<1> QED BY <1>6 DEF R

LEMMA GapsOfAKind ==
  ASSUME NEW subjects, IsList(subjects), NEW results
  PROVE  /\ IsList(GapsFor(subjects, results))
         /\ Elements(GapsFor(subjects, results)) =
              {s.id : s \in {t \in Elements(subjects) : t.id \notin DOMAIN BestScores(results)}}
<1>1. PICK n \in Nat : n = Len(subjects)
  BY DEF IsList
<1>2. PICK D : D = DOMAIN BestScores(results)
  OBVIOUS
<1> DEFINE ss == [i \in 1..n |-> IF subjects[i].id \in D THEN <<>> ELSE <<subjects[i].id>>]
<1>3. GapsFor(subjects, results) = FlattenSeq(ss)
  BY <1>1, <1>2 DEF GapsFor
<1>4. ASSUME NEW i \in 1..n
      PROVE  /\ IsList(ss[i])
             /\ Elements(ss[i]) = IF subjects[i].id \in D THEN {} ELSE {subjects[i].id}
  <2>1. CASE subjects[i].id \in D
    <3>1. ss[i] = <<>>
      BY <2>1
    <3> QED BY <2>1, <3>1 DEF IsList, Elements
  <2>2. CASE subjects[i].id \notin D
    <3>1. PICK x : x = subjects[i].id
      OBVIOUS
    <3>2. ss[i] = <<x>>
      BY <2>2, <3>1
    <3>3. IsList(<<x>>) /\ Elements(<<x>>) = {x}
      BY DEF IsList, Elements
    <3> QED BY <2>2, <3>1, <3>2, <3>3
  <2> QED BY <2>1, <2>2
<1>5. Len(ss) = n /\ IsList(ss)
  BY DEF IsList
<1>6. ListsOf(ss)
  <2> HIDE DEF ss
  <2> QED BY <1>4, <1>5 DEF ListsOf
<1>7. IsList(FlattenSeq(ss)) /\ Elements(FlattenSeq(ss)) = UNION {Elements(ss[i]) : i \in 1..n}
  <2> HIDE DEF ss
  <2> QED BY <1>5, <1>6, FlattenedIsList, FlattenedElements
<1>8. UNION {Elements(ss[i]) : i \in 1..n} = {s.id : s \in {t \in Elements(subjects) : t.id \notin D}}
  <2> HIDE DEF ss
  <2>1. Elements(subjects) = {subjects[i] : i \in 1..n}
    BY <1>1 DEF Elements
  <2>2. ASSUME NEW x \in UNION {Elements(ss[i]) : i \in 1..n}
        PROVE  x \in {s.id : s \in {t \in Elements(subjects) : t.id \notin D}}
    <3>1. PICK i \in 1..n : x \in Elements(ss[i])
      OBVIOUS
    <3>2. subjects[i].id \notin D /\ x = subjects[i].id
      BY <1>4, <3>1
    <3> QED BY <2>1, <3>2
  <2>3. ASSUME NEW s \in Elements(subjects), s.id \notin D
        PROVE  s.id \in UNION {Elements(ss[i]) : i \in 1..n}
    <3>1. PICK i \in 1..n : s = subjects[i]
      BY <2>1
    <3>2. s.id \in Elements(ss[i])
      BY <1>4, <2>3, <3>1
    <3> QED BY <3>2
  <2> QED BY <2>2, <2>3
<1> HIDE DEF ss
<1>9. Elements(GapsFor(subjects, results)) = {s.id : s \in {t \in Elements(subjects) : t.id \notin D}}
  BY <1>3, <1>7, <1>8, Zenon
<1> QED BY <1>2, <1>3, <1>7, <1>9

KindSet == {"entity", "process", "actor", "rule", "constraint"}

LEMMA KindsListed ==
  /\ ToSet(Kinds) = KindSet /\ ToSet(SubjectKinds) = KindSet
  /\ Len(Kinds) = 5 /\ Len(SubjectKinds) = 5
  /\ \A i \in 1..5 : Kinds[i] \in KindSet /\ SubjectKinds[i] \in KindSet
  /\ \A k \in KindSet : \E i \in 1..5 : Kinds[i] = k
  /\ \A k \in KindSet : \E i \in 1..5 : SubjectKinds[i] = k
  /\ \A i, j \in 1..5 : SubjectKinds[i] = SubjectKinds[j] => i = j
<1>1. 1..5 = {1, 2, 3, 4, 5}
  OBVIOUS
<1>2. DOMAIN Kinds = 1..5 /\ DOMAIN SubjectKinds = 1..5 /\ Len(Kinds) = 5 /\ Len(SubjectKinds) = 5
  BY DEF Kinds, SubjectKinds
<1>3. /\ Kinds[1] = "entity" /\ Kinds[2] = "process" /\ Kinds[3] = "actor" /\ Kinds[4] = "rule"
      /\ Kinds[5] = "constraint"
  BY DEF Kinds
<1>4. /\ SubjectKinds[1] = "entity" /\ SubjectKinds[2] = "process" /\ SubjectKinds[3] = "rule"
      /\ SubjectKinds[4] = "constraint" /\ SubjectKinds[5] = "actor"
  BY DEF SubjectKinds
<1>5. ToSet(Kinds) = KindSet
  BY <1>1, <1>2, <1>3 DEF ToSet, KindSet
<1>6. ToSet(SubjectKinds) = KindSet
  BY <1>1, <1>2, <1>4 DEF ToSet, KindSet
<1>7. \A i \in 1..5 : Kinds[i] \in KindSet /\ SubjectKinds[i] \in KindSet
  BY <1>1, <1>3, <1>4 DEF KindSet
<1>8. \A k \in KindSet : \E i \in 1..5 : Kinds[i] = k
  BY <1>1, <1>3 DEF KindSet
<1>9. \A k \in KindSet : \E i \in 1..5 : SubjectKinds[i] = k
  BY <1>1, <1>4 DEF KindSet
<1>10. \A i, j \in 1..5 : SubjectKinds[i] = SubjectKinds[j] => i = j
  BY <1>1, <1>4
<1> QED BY <1>2, <1>5, <1>6, <1>7, <1>8, <1>9, <1>10

\* What a requirement states of a kind.
LEMMA MentionedFacts ==
  ASSUME NEW raw \in Raws, NEW k \in KindSet
  PROVE  LET q == AnalyzeMentions(raw, k) IN
         /\ FactList(q) /\ Len(q) = Len(raw.mentions[k])
         /\ \A i \in 1..Len(q) : q[i].id # None /\ q[i].id[2] = k
         /\ \A s, t \in Elements(q) : s.id = t.id => s.text = t.text
<1>1. PICK ms : ms = raw.mentions[k]
  OBVIOUS
<1>2. /\ IsList(ms)
      /\ \A i \in 1..Len(ms) : MentionId(raw, k, i) # None /\ IsFiniteSet(ms[i].text)
  BY <1>1, KindsListed, RequirementsAssumption
<1>3. PICK n \in Nat : n = Len(ms)
  BY <1>2 DEF IsList
<1> DEFINE q == AnalyzeMentions(raw, k)
<1>4. Len(q) = n /\ IsList(q)
  BY <1>1, <1>3 DEF AnalyzeMentions, IsList
<1>5. ASSUME NEW i \in 1..n
      PROVE  q[i].id = MentionId(raw, k, i) /\ q[i].text = ms[i].text
  BY <1>1, <1>3, <1>5 DEF AnalyzeMentions, Fact
<1>6. ASSUME NEW i \in 1..n
      PROVE  /\ MentionId(raw, k, i)[2] = k
             /\ MentionId(raw, k, i) = <<raw.id, k, IF k \in {"rule", "constraint"} THEN i - 1 ELSE ms[i].text>>
  BY <1>1 DEF MentionId
<1> HIDE DEF q
<1>7. FactList(q)
  BY <1>2, <1>3, <1>4, <1>5 DEF FactList
<1>8. \A i \in 1..n : q[i].id # None /\ q[i].id[2] = k
  BY <1>2, <1>3, <1>5, <1>6
<1>9. ASSUME NEW i \in 1..n, NEW j \in 1..n, q[i].id = q[j].id PROVE q[i].text = q[j].text
  <2>1. MentionId(raw, k, i) = MentionId(raw, k, j)
    BY <1>5, <1>9
  <2>2. CASE k \in {"rule", "constraint"}
    <3>1. i - 1 = j - 1
      BY <1>6, <2>1, <2>2
    <3>2. i = j
      BY <3>1
    <3> QED BY <3>2
  <2>3. CASE k \notin {"rule", "constraint"}
    <3>1. ms[i].text = ms[j].text
      BY <1>6, <2>1, <2>3
    <3> QED BY <1>5, <3>1
  <2> QED BY <2>2, <2>3
<1>10. \A s, t \in Elements(q) : s.id = t.id => s.text = t.text
  <2>1. Elements(q) = {q[i] : i \in 1..n}
    BY <1>4 DEF Elements
  <2> QED BY <1>9, <2>1
<1>11. Len(q) = Len(raw.mentions[k]) /\ \A i \in 1..Len(q) : q[i].id # None /\ q[i].id[2] = k
  BY <1>1, <1>3, <1>4, <1>8
<1> QED BY <1>7, <1>10, <1>11 DEF q

TheAnalysis(raw) == CompareAnalysisResult(BuildAnalysisResult(raw), Candidates)

GapsOf(raw, k) == GapsFor(AnalyzeMentions(raw, k), ComparePairs(AnalyzeMentions(raw, k), Candidates[k]))

LEMMA AnalysisFields ==
  ASSUME NEW raw
  PROVE  /\ \A k \in KindSet : TheAnalysis(raw).facts[k] = AnalyzeMentions(raw, k)
         /\ TheAnalysis(raw).gaps = FlattenSeq([i \in 1..5 |-> GapsOf(raw, Kinds[i])])
<1>1. \A k \in KindSet : BuildAnalysisResult(raw).facts[k] = AnalyzeMentions(raw, k)
  BY KindsListed DEF BuildAnalysisResult
<1>2. TheAnalysis(raw).facts = BuildAnalysisResult(raw).facts
  BY DEF TheAnalysis, CompareAnalysisResult, BuildAnalysisResult
<1>3. TheAnalysis(raw).gaps =
        FlattenSeq([i \in 1..5 |-> GapsFor(BuildAnalysisResult(raw).facts[Kinds[i]],
                                           CompareKind(BuildAnalysisResult(raw), Candidates, Kinds[i]))])
  BY DEF TheAnalysis, CompareAnalysisResult, BuildAnalysisResult
<1>4. ASSUME NEW i \in 1..5
      PROVE  GapsFor(BuildAnalysisResult(raw).facts[Kinds[i]],
                     CompareKind(BuildAnalysisResult(raw), Candidates, Kinds[i])) = GapsOf(raw, Kinds[i])
  BY <1>1, KindsListed DEF CompareKind, GapsOf
<1>5. [i \in 1..5 |-> GapsFor(BuildAnalysisResult(raw).facts[Kinds[i]],
                              CompareKind(BuildAnalysisResult(raw), Candidates, Kinds[i]))]
        = [i \in 1..5 |-> GapsOf(raw, Kinds[i])]
  BY <1>4
<1> QED BY <1>1, <1>2, <1>3, <1>5

LEMMA CandidatesListed ==
  ASSUME NEW k \in KindSet
  PROVE  FactList(Candidates[k])
BY KindsListed, RequirementsAssumption DEF FactList

\* A gap is a fact no candidate of its kind has a word of.
LEMMA GapsAreUnmatched ==
  ASSUME NEW raw \in Raws, NEW k \in KindSet, NEW s \in Elements(AnalyzeMentions(raw, k))
  PROVE  s.id \in ToSet(TheAnalysis(raw).gaps) <=> Unmatched(s, Candidates[k])
<1> DEFINE ss == [i \in 1..5 |-> GapsOf(raw, Kinds[i])]
           q(l) == AnalyzeMentions(raw, l)
           scored(l) == DOMAIN BestScores(ComparePairs(q(l), Candidates[l]))
<1>1. ASSUME NEW l \in KindSet
      PROVE  /\ IsList(GapsOf(raw, l))
             /\ Elements(GapsOf(raw, l)) = {t.id : t \in {u \in Elements(q(l)) : u.id \notin scored(l)}}
  <2>1. IsList(q(l))
    BY MentionedFacts DEF FactList
  <2> QED BY <2>1, GapsOfAKind DEF GapsOf
<1>2. ListsOf(ss) /\ Len(ss) = 5
  <2>1. Len(ss) = 5 /\ IsList(ss)
    BY DEF IsList
  <2>2. \A i \in 1..5 : IsList(ss[i])
    BY <1>1, KindsListed
  <2> QED BY <2>1, <2>2 DEF ListsOf
<1>3. ToSet(TheAnalysis(raw).gaps) = UNION {Elements(ss[i]) : i \in 1..5}
  <2> HIDE DEF ss
  <2>1. IsList(FlattenSeq(ss)) /\ Elements(FlattenSeq(ss)) = UNION {Elements(ss[i]) : i \in 1..5}
    BY <1>2, FlattenedIsList, FlattenedElements
  <2>2. ToSet(FlattenSeq(ss)) = Elements(FlattenSeq(ss))
    BY <2>1, ListElements
  <2>3. TheAnalysis(raw).gaps = FlattenSeq(ss)
    BY AnalysisFields DEF ss
  <2> QED BY <2>1, <2>2, <2>3
<1>4. s.id \in scored(k) <=> ~Unmatched(s, Candidates[k])
  <2>1. FactList(q(k)) /\ FactList(Candidates[k])
    BY MentionedFacts, CandidatesListed
  <2>2. \A t, u \in Elements(q(k)) : t.id = u.id => t.text = u.text
    BY MentionedFacts
  <2> QED BY <2>1, <2>2, ScoredIsMatched
<1>5. ASSUME NEW l \in KindSet, NEW t \in Elements(q(l)) PROVE t.id[2] = l
  BY MentionedFacts DEF Elements
<1>6. ASSUME NEW i \in 1..5 PROVE ss[i] = GapsOf(raw, Kinds[i])
  OBVIOUS
<1> HIDE DEF ss, scored, q
<1>7. ASSUME Unmatched(s, Candidates[k]) PROVE s.id \in ToSet(TheAnalysis(raw).gaps)
  <2>1. PICK i \in 1..5 : Kinds[i] = k
    BY KindsListed
  <2>2. s \in Elements(q(k)) /\ s.id \notin scored(k)
    BY <1>4, <1>7 DEF q
  <2>3. s.id \in Elements(GapsOf(raw, k))
    BY <1>1, <2>2
  <2>4. s.id \in Elements(ss[i])
    BY <1>6, <2>1, <2>3
  <2> QED BY <1>3, <2>4
<1>8. ASSUME s.id \in ToSet(TheAnalysis(raw).gaps) PROVE Unmatched(s, Candidates[k])
  <2>1. PICK i \in 1..5 : s.id \in Elements(ss[i])
    BY <1>3, <1>8
  <2>2. PICK l \in KindSet : l = Kinds[i]
    BY KindsListed
  <2>3. s.id \in Elements(GapsOf(raw, l))
    BY <1>6, <2>1, <2>2
  <2>4. PICK t \in Elements(q(l)) : t.id = s.id /\ t.id \notin scored(l)
    BY <1>1, <2>3
  <2>5. s \in Elements(q(k))
    BY DEF q
  <2>6. l = k
    BY <1>5, <2>4, <2>5
  <2> QED BY <1>4, <2>4, <2>6
<1> QED BY <1>7, <1>8

------------------------------------------------------------------------------
(* Requirements: what can be asked for.                                    *)

LEMMA FlattenedAlone ==
  ASSUME NEW ss, Len(ss) = 1
  PROVE  FlattenSeq(ss) = ss[1]
<1> DEFINE Eq(u) == u = [i \in 1..1 |-> IF i = 1 THEN ss[i] ELSE u[i - 1] \o ss[i]]
           flatten == CHOOSE u : Eq(u)
<1>1. Eq([i \in 1..1 |-> ss[i]])
  OBVIOUS
<1>2. Eq(flatten)
  <2> HIDE DEF Eq
  <2> QED BY <1>1
<1>3. FlattenSeq(ss) = flatten[1]
  BY DEF FlattenSeq
<1>4. flatten[1] = ss[1]
  <2> HIDE DEF flatten
  <2> QED BY <1>2
<1> QED BY <1>3, <1>4

\* Of a set of one number the least is that number.
LEMMA LeastOfOne ==
  ASSUME NEW S, NEW j \in Nat, S = {j}
  PROVE  (IF S # {} THEN CHOOSE x \in S : \A y \in S : x <= y ELSE 0) = j
OBVIOUS

ById(list, x) == First(list, LAMBDA a : a.id = x)
ByNode(list, x) == First(list, LAMBDA n : n.node = x)

\* Found is the one with that id.
LEMMA FoundById ==
  ASSUME NEW list, NEW x, NEW j \in 1..Len(list), list[j].id = x,
         \A i \in 1..Len(list) : list[i].id = x => i = j
  PROVE  ById(list, x) = <<list[j]>>
<1> DEFINE S == {i \in 1..Len(list) : list[i].id = x}
<1>1. S = {j}
  OBVIOUS
<1>2. j \in Nat /\ j # 0
  OBVIOUS
<1>3. SelectInSeq(list, LAMBDA a : a.id = x) = IF S # {} THEN CHOOSE i \in S : \A y \in S : i <= y ELSE 0
  BY DEF SelectInSeq, Min
<1> HIDE DEF S
<1>4. SelectInSeq(list, LAMBDA a : a.id = x) = j
  BY <1>1, <1>2, <1>3, LeastOfOne
<1> QED BY <1>2, <1>4 DEF First, ById

LEMMA FoundByNode ==
  ASSUME NEW list, NEW x, NEW j \in 1..Len(list), list[j].node = x,
         \A i \in 1..Len(list) : list[i].node = x => i = j
  PROVE  ByNode(list, x) = <<list[j]>>
<1> DEFINE S == {i \in 1..Len(list) : list[i].node = x}
<1>1. S = {j}
  OBVIOUS
<1>2. j \in Nat /\ j # 0
  OBVIOUS
<1>3. SelectInSeq(list, LAMBDA n : n.node = x) = IF S # {} THEN CHOOSE i \in S : \A y \in S : i <= y ELSE 0
  BY DEF SelectInSeq, Min
<1> HIDE DEF S
<1>4. SelectInSeq(list, LAMBDA n : n.node = x) = j
  BY <1>1, <1>2, <1>3, LeastOfOne
<1> QED BY <1>2, <1>4 DEF First, ByNode

TheSnapshot(raw) == ProjectSnapshot(BuildSnapshot(TheAnalysis(raw)))

\* The one collection made of a requirement, and what is listed of it.
LEMMA SnapshotLists ==
  ASSUME NEW raw
  PROVE  LET c == TheSnapshot(raw)[1] IN
         /\ Len(TheSnapshot(raw)) = 1
         /\ c.artifacts = Workflows(TheAnalysis(raw))
         /\ c.references = AllReferences(TheAnalysis(raw))
         /\ c.nodes = [i \in 1..Len(c.artifacts) |-> NodeOf(c.artifacts[i])]
         /\ ListArtifacts(TheSnapshot(raw), None) = c.artifacts
         /\ ListNodes(TheSnapshot(raw), None) = c.nodes
<1>1. PICK b, c, z : /\ b = BuildCollection(TheAnalysis(raw)) /\ c = ProjectCollection(b) /\ z = TheSnapshot(raw)
  OBVIOUS
<1>2. z = [i \in 1..1 |-> c]
  <2>1. BuildSnapshot(TheAnalysis(raw)) = <<b>> /\ Len(<<b>>) = 1 /\ <<b>>[1] = b
    BY <1>1 DEF BuildSnapshot
  <2>2. z = [i \in 1..1 |-> ProjectCollection(<<b>>[i])]
    BY <1>1, <2>1 DEF TheSnapshot, ProjectSnapshot
  <2>3. \A i \in 1..1 : <<b>>[i] = b
    BY <2>1
  <2> QED BY <1>1, <2>2, <2>3
<1>3. Len(z) = 1 /\ z[1] = c
  BY <1>2
<1>4. /\ c.artifacts = b.artifacts /\ c.references = b.references
      /\ c.nodes = [i \in 1..Len(b.artifacts) |-> NodeOf(b.artifacts[i])]
  BY <1>1 DEF ProjectCollection, BuildCollection
<1>5. b.artifacts = Workflows(TheAnalysis(raw)) /\ b.references = AllReferences(TheAnalysis(raw))
  BY <1>1 DEF BuildCollection
<1>6. Selected(z, None) = z
  BY DEF Selected
<1>7. ListArtifacts(z, None) = c.artifacts
  <2>1. ListArtifacts(z, None) = FlattenSeq([i \in 1..1 |-> z[i].artifacts])
    BY <1>3, <1>6 DEF ListArtifacts
  <2>2. Len([i \in 1..1 |-> z[i].artifacts]) = 1
    OBVIOUS
  <2>3. FlattenSeq([i \in 1..1 |-> z[i].artifacts]) = [i \in 1..1 |-> z[i].artifacts][1]
    BY <2>2, FlattenedAlone
  <2>4. [i \in 1..1 |-> z[i].artifacts][1] = c.artifacts
    BY <1>3
  <2> QED BY <2>1, <2>3, <2>4
<1>8. ListNodes(z, None) = c.nodes
  <2>1. ListNodes(z, None) = FlattenSeq([i \in 1..1 |-> z[i].nodes])
    BY <1>3, <1>6 DEF ListNodes
  <2>2. Len([i \in 1..1 |-> z[i].nodes]) = 1
    OBVIOUS
  <2>3. FlattenSeq([i \in 1..1 |-> z[i].nodes]) = [i \in 1..1 |-> z[i].nodes][1]
    BY <2>2, FlattenedAlone
  <2>4. [i \in 1..1 |-> z[i].nodes][1] = c.nodes
    BY <1>3
  <2> QED BY <2>1, <2>3, <2>4
<1> QED BY <1>1, <1>3, <1>4, <1>5, <1>7, <1>8

\* As long as no two facts of a kind have one id, each has one reference.
LEMMA OneReference ==
  ASSUME NEW raw \in Raws, NEW k \in KindSet, Named(AnalyzeMentions(raw, k)),
         NEW s \in Elements(AnalyzeMentions(raw, k))
  PROVE  Len(ListReferences(TheSnapshot(raw), None, TheAnalysis(raw).id, s.id, k)) = 1
<1>1. PICK a, z : a = TheAnalysis(raw) /\ z = TheSnapshot(raw)
  OBVIOUS
<1> DEFINE rows == [i \in 1..5 |-> References(a, SubjectKinds[i])]
           all == FlattenSeq(rows)
           Asked(r) == Matches(r, a.id, s.id, k)
           M == {r \in UNION {Elements(rows[i]) : i \in 1..5} : Asked(r)}
           kept == [i \in 1..Len(all) |-> IF Asked(all[i]) THEN <<all[i]>> ELSE <<>>]
<1>2. ASSUME NEW l \in KindSet
      PROVE  LET q == AnalyzeMentions(raw, l) IN
             /\ IsList(References(a, l)) /\ Len(References(a, l)) = Len(q)
             /\ \A i \in 1..Len(q) : References(a, l)[i] = [analysis |-> a.id, subject |-> q[i].id, kind |-> l]
  <2>1. PICK q : q = AnalyzeMentions(raw, l)
    OBVIOUS
  <2>2. a.facts[l] = q
    BY <1>1, <2>1, AnalysisFields
  <2>3. Len(q) \in Nat
    BY <2>1, MentionedFacts DEF FactList, IsList
  <2>4. References(a, l) = [i \in 1..Len(q) |-> [analysis |-> a.id, subject |-> q[i].id, kind |-> l]]
    BY <2>2 DEF References
  <2> QED BY <2>1, <2>3, <2>4 DEF IsList
<1>3. Len(rows) = 5 /\ IsList(rows) /\ \A i \in 1..5 : rows[i] = References(a, SubjectKinds[i])
  BY DEF IsList
<1>4. ListsOf(rows)
  <2>1. \A i \in 1..5 : IsList(rows[i])
    BY <1>2, <1>3, KindsListed
  <2> HIDE DEF rows
  <2> QED BY <1>3, <2>1 DEF ListsOf
<1>5. IsList(all) /\ Elements(all) = UNION {Elements(rows[i]) : i \in 1..5} /\ Len(all) \in Nat
  <2> HIDE DEF rows
  <2> QED BY <1>3, <1>4, FlattenedIsList, FlattenedElements
<1>6. PICK j \in 1..5 : SubjectKinds[j] = k
  BY KindsListed
<1>7. One(rows[j], M)
  <2>1. PICK q, R : q = AnalyzeMentions(raw, k) /\ R = References(a, k)
    OBVIOUS
  <2>2. /\ Len(R) = Len(q) /\ rows[j] = R
        /\ \A i \in 1..Len(q) : R[i] = [analysis |-> a.id, subject |-> q[i].id, kind |-> k]
    BY <1>2, <1>3, <1>6, <2>1
  <2>3. PICK i \in 1..Len(q) : s = q[i]
    BY <2>1 DEF Elements
  <2>4. R[i] \in UNION {Elements(rows[e]) : e \in 1..5}
    <3>1. R[i] \in Elements(rows[j])
      BY <2>2, <2>3 DEF Elements
    <3> QED BY <3>1
  <2>5. Asked(R[i])
    <3>1. R[i] = [analysis |-> a.id, subject |-> s.id, kind |-> k]
      BY <2>2, <2>3
    <3>2. R[i].analysis = a.id /\ R[i].subject = s.id /\ R[i].kind = k
      BY <3>1
    <3> QED BY <3>2 DEF Matches
  <2>6. ASSUME NEW e \in 1..Len(R), R[e] \in M PROVE e = i
    <3>1. Asked(R[e])
      BY <2>6
    <3>4. R[e].subject = q[e].id
      <4>1. e \in 1..Len(q)
        BY <2>2
      <4>2. R[e] = [analysis |-> a.id, subject |-> q[e].id, kind |-> k]
        BY <2>2, <4>1
      <4> QED BY <4>2
    <3>2. s.id # None
      BY <2>1, <2>3, MentionedFacts
    <3>3. q[e].id = s.id
      BY <3>1, <3>2, <3>4 DEF Matches
    <3> QED BY <2>1, <2>2, <2>3, <3>3 DEF Named
  <2>7. R[i] \in M
    BY <2>4, <2>5
  <2> HIDE DEF M, rows
  <2> QED BY <2>2, <2>3, <2>6, <2>7 DEF One
<1>8. ASSUME NEW e \in 1..5, e # j PROVE No(rows[e], M)
  <2>1. PICK l \in KindSet : l = SubjectKinds[e]
    BY KindsListed
  <2>2. l # k
    BY <1>6, <1>8, <2>1, KindsListed
  <2>3. k # None
    BY KindsListed, RequirementsAssumption
  <2>4. ASSUME NEW i \in 1..Len(rows[e]), Asked(rows[e][i]) PROVE FALSE
    <3>1. rows[e][i].kind = l
      <4>1. PICK q : q = AnalyzeMentions(raw, l)
        OBVIOUS
      <4>2. rows[e] = References(a, l) /\ Len(References(a, l)) = Len(q)
        BY <1>2, <1>3, <2>1, <4>1
      <4>3. References(a, l)[i] = [analysis |-> a.id, subject |-> q[i].id, kind |-> l]
        BY <1>2, <4>1, <4>2
      <4> QED BY <4>2, <4>3
    <3> QED BY <2>2, <2>3, <2>4, <3>1 DEF Matches
  <2> QED BY <2>4 DEF No
<1>9. One(all, M)
  <2> HIDE DEF rows, M
  <2> QED BY <1>3, <1>4, <1>7, <1>8, FlattenedOne
<1>10. PICK i \in 1..Len(all) : all[i] \in M /\ \A e \in 1..Len(all) : all[e] \in M => e = i
  <2> HIDE DEF all, M
  <2> QED BY <1>9 DEF One
<1>11. \A e \in 1..Len(all) : Asked(all[e]) <=> e = i
  <2>1. \A e \in 1..Len(all) : all[e] \in UNION {Elements(rows[d]) : d \in 1..5}
    <3> HIDE DEF all
    <3> QED BY <1>5 DEF Elements
  <2> HIDE DEF all, rows, Asked
  <2> QED BY <1>10, <2>1
<1>12. Len(FlattenSeq(kept)) = 1
  <2> HIDE DEF all, Asked
  <2>1. Len(kept) = Len(all) /\ IsList(kept)
    BY <1>5 DEF IsList
  <2>2. kept[i] = <<all[i]>> /\ \A e \in 1..Len(all) : e # i => kept[e] = <<>>
    BY <1>11
  <2>3. \A x : IsList(<<x>>) /\ Len(<<x>>) = 1
    BY DEF IsList
  <2>4. IsList(<<>>)
    BY DEF IsList
  <2>5. \A e \in 1..Len(all) : IsList(kept[e])
    <3> HIDE DEF kept
    <3> QED BY <2>2, <2>3, <2>4
  <2> HIDE DEF kept
  <2>6. ListsOf(kept)
    BY <2>1, <2>5 DEF ListsOf
  <2>7. Len(kept[i]) = 1
    BY <2>2, <2>3
  <2> QED BY <2>1, <2>2, <2>6, <2>7, FlattenedSingle
<1>13. ListReferences(z, None, a.id, s.id, k) = FlattenSeq(kept)
  <2>1. Selected(z, None) = z /\ Len(z) = 1 /\ z[1].references = AllReferences(a)
    BY <1>1, SnapshotLists DEF Selected
  <2>2. [i_1 \in 1..Len(Selected(z, None)) |-> Selected(z, None)[i_1].references] = [i_1 \in 1..1 |-> z[i_1].references]
    BY <2>1
  <2>3. FlattenSeq([i_1 \in 1..1 |-> z[i_1].references]) = all
    <3>1. Len([i_1 \in 1..1 |-> z[i_1].references]) = 1
      OBVIOUS
    <3>2. FlattenSeq([i_1 \in 1..1 |-> z[i_1].references]) = [i_1 \in 1..1 |-> z[i_1].references][1]
      BY <3>1, FlattenedAlone
    <3>3. [i_1 \in 1..1 |-> z[i_1].references][1] = AllReferences(a)
      BY <2>1
    <3>4. AllReferences(a) = all
      BY KindsListed DEF AllReferences
    <3> HIDE DEF all
    <3> QED BY <3>2, <3>3, <3>4
  <2>4. FlattenSeq([i_1 \in 1..Len(Selected(z, None)) |-> Selected(z, None)[i_1].references]) = all
    <3> HIDE DEF all
    <3> QED BY <2>2, <2>3
  <2> HIDE DEF rows
  <2> QED BY <2>4 DEF ListReferences
<1> HIDE DEF kept
<1> QED BY <1>1, <1>12, <1>13

\* A process keeps the steps its requirement gives it.
LEMMA ProcessSteps ==
  ASSUME NEW raw \in Raws, NEW p \in Elements(AnalyzeMentions(raw, "process"))
  PROVE  IsList(p.steps)
<1>1. PICK ms : ms = raw.mentions["process"]
  OBVIOUS
<1>2. IsList(ms) /\ \A i \in 1..Len(ms) : IsList(ms[i].steps)
  <2>1. "process" \in ToSet(Kinds)
    BY KindsListed DEF KindSet
  <2> QED BY <1>1, <2>1, RequirementsAssumption
<1>3. PICK n \in Nat : n = Len(ms)
  BY <1>2 DEF IsList
<1> DEFINE q == AnalyzeMentions(raw, "process")
<1>4. Len(q) = n
  BY <1>1, <1>3 DEF AnalyzeMentions
<1>5. ASSUME NEW i \in 1..n PROVE q[i].steps = ms[i].steps
  BY <1>1, <1>3, <1>5 DEF AnalyzeMentions, Fact
<1> HIDE DEF q
<1>6. PICK i \in 1..n : p = q[i]
  BY <1>4 DEF Elements, q
<1> QED BY <1>2, <1>3, <1>5, <1>6

\* As long as no two processes have one id, each has a workflow with its steps, and a node.
LEMMA WorkflowAsked ==
  ASSUME NEW raw \in Raws, Named(AnalyzeMentions(raw, "process")),
         NEW p \in Elements(AnalyzeMentions(raw, "process"))
  PROVE  LET w == FindArtifact(TheSnapshot(raw), <<"workflow", p.id>>)[1] IN
         /\ [i \in 1..Len(w.steps) |-> w.steps[i].description] = p.steps
         /\ FindNode(TheSnapshot(raw), <<"KG", w.id>>)[1].wraps = w.id
<1>1. PICK z, q, list, nodes :
        /\ z = TheSnapshot(raw) /\ q = AnalyzeMentions(raw, "process")
        /\ list = ListArtifacts(z, None) /\ nodes = ListNodes(z, None)
  OBVIOUS
<1>2. PICK j \in 1..Len(q) : p = q[j]
  BY <1>1 DEF Elements
<1>3. Len(q) \in Nat
  BY <1>1, MentionedFacts DEF FactList, IsList, KindSet
<1>4. list = [i \in 1..Len(q) |-> WorkflowOf(q[i])]
  <2>1. list = Workflows(TheAnalysis(raw))
    BY <1>1, SnapshotLists
  <2>2. TheAnalysis(raw).facts["process"] = q
    BY <1>1, AnalysisFields DEF KindSet
  <2> QED BY <2>1, <2>2 DEF Workflows
<1>5. Len(list) = Len(q) /\ \A i \in 1..Len(q) : list[i] = WorkflowOf(q[i])
  BY <1>3, <1>4
<1>6. nodes = [i \in 1..Len(q) |-> NodeOf(list[i])]
  <2>1. PICK c : c = z[1]
    OBVIOUS
  <2>2. c.nodes = [i \in 1..Len(c.artifacts) |-> NodeOf(c.artifacts[i])]
    BY <1>1, <2>1, SnapshotLists
  <2>3. list = c.artifacts
    BY <1>1, <2>1, SnapshotLists
  <2>4. nodes = c.nodes
    BY <1>1, <2>1, SnapshotLists
  <2> QED BY <1>5, <2>2, <2>3, <2>4
<1>7. Len(nodes) = Len(q) /\ \A i \in 1..Len(q) : nodes[i] = NodeOf(list[i])
  BY <1>3, <1>6
<1>8. ASSUME NEW i \in 1..Len(q)
      PROVE  /\ list[i].id = <<"workflow", q[i].id>>
             /\ nodes[i].node = <<"KG", list[i].id>> /\ nodes[i].wraps = list[i].id
  <2>1. list[i].id = <<"workflow", q[i].id>>
    <3>1. \A r : WorkflowOf(r).id = <<"workflow", r.id>>
      BY DEF WorkflowOf
    <3> QED BY <1>5, <3>1
  <2>2. nodes[i].node = <<"KG", list[i].id>> /\ nodes[i].wraps = list[i].id
    <3>1. \A r : NodeOf(r).node = <<"KG", r.id>> /\ NodeOf(r).wraps = r.id
      BY DEF NodeOf
    <3> QED BY <1>7, <3>1
  <2> QED BY <2>1, <2>2
<1>9. \A i \in 1..Len(q) : q[i].id = q[j].id => i = j
  BY <1>1 DEF Named
<1>10. ASSUME NEW i \in 1..Len(q), <<"workflow", q[i].id>> = <<"workflow", p.id>> PROVE i = j
  <2>1. q[i].id = p.id
    BY <1>10
  <2> QED BY <1>2, <1>9, <2>1
<1>11. PICK x : x = <<"workflow", p.id>>
  OBVIOUS
<1>12. list[j].id = x /\ \A i \in 1..Len(list) : list[i].id = x => i = j
  BY <1>2, <1>5, <1>8, <1>10, <1>11
<1>13. FindArtifact(z, x) = <<list[j]>>
  <2>1. j \in 1..Len(list)
    BY <1>5
  <2>2. ById(list, x) = <<list[j]>>
    BY <1>12, <2>1, FoundById
  <2> QED BY <1>1, <2>2 DEF FindArtifact, ById, First, SelectInSeq, Min
<1>14. PICK y : y = <<"KG", x>>
  OBVIOUS
<1>15. nodes[j].node = y /\ \A i \in 1..Len(nodes) : nodes[i].node = y => i = j
  <2>1. nodes[j].node = y
    BY <1>8, <1>12, <1>14
  <2>2. ASSUME NEW i \in 1..Len(q), nodes[i].node = y PROVE i = j
    <3>1. <<"KG", list[i].id>> = <<"KG", x>>
      BY <1>8, <1>14, <2>2
    <3>2. list[i].id = x
      BY <3>1
    <3> QED BY <1>5, <1>12, <3>2
  <2> QED BY <1>7, <2>1, <2>2
<1>16. FindNode(z, y) = <<nodes[j]>>
  <2>1. j \in 1..Len(nodes)
    BY <1>7
  <2>2. ByNode(nodes, y) = <<nodes[j]>>
    BY <1>15, <2>1, FoundByNode
  <2> QED BY <1>1, <2>2 DEF FindNode, ByNode, First, SelectInSeq, Min
<1>17. [i \in 1..Len(list[j].steps) |-> list[j].steps[i].description] = p.steps
  <2>1. PICK st : st = p.steps
    OBVIOUS
  <2>2. IsList(st)
    BY <2>1, ProcessSteps
  <2>3. Len(st) \in Nat /\ st = [i \in 1..Len(st) |-> st[i]]
    BY <2>2 DEF IsList
  <2>4. list[j].steps = [i \in 1..Len(st) |-> [order |-> i - 1, description |-> st[i]]]
    <3>1. \A r : WorkflowOf(r).steps = [i \in 1..Len(r.steps) |-> [order |-> i - 1, description |-> r.steps[i]]]
      BY DEF WorkflowOf
    <3>2. list[j].steps = WorkflowOf(p).steps
      BY <1>2, <1>5
    <3> QED BY <2>1, <3>1, <3>2
  <2>5. Len(list[j].steps) = Len(st) /\ \A i \in 1..Len(st) : list[j].steps[i].description = st[i]
    BY <2>3, <2>4
  <2>6. [i \in 1..Len(list[j].steps) |-> list[j].steps[i].description] = [i \in 1..Len(st) |-> st[i]]
    BY <2>5
  <2> QED BY <2>1, <2>3, <2>6
<1>18. PICK w : w = FindArtifact(z, x)[1]
  OBVIOUS
<1>19. w = list[j]
  BY <1>13, <1>18
<1>20. FindNode(z, <<"KG", w.id>>)[1].wraps = w.id
  BY <1>8, <1>12, <1>14, <1>16, <1>19
<1> QED BY <1>1, <1>11, <1>17, <1>18, <1>19, <1>20

\* What a requirement states can be asked for.
LEMMA RequirementAnswered ==
  ASSUME NEW raw \in Raws
  PROVE  AnswersTheRequirement(raw, Candidates)
<1>1. ASSUME NEW k \in ToSet(SubjectKinds), NEW s \in ToSet(TheAnalysis(raw).facts[k])
      PROVE  /\ Named(TheAnalysis(raw).facts[k]) =>
                  Len(ListReferences(TheSnapshot(raw), None, TheAnalysis(raw).id, s.id, k)) = 1
             /\ s.id \in ToSet(TheAnalysis(raw).gaps) <=>
                  \A c \in ToSet(Candidates[k]) : c.text \cap s.text = {}
  <2>1. k \in KindSet
    BY KindsListed
  <2>2. TheAnalysis(raw).facts[k] = AnalyzeMentions(raw, k)
    BY <2>1, AnalysisFields
  <2>3. s \in Elements(AnalyzeMentions(raw, k))
    <3>1. IsList(AnalyzeMentions(raw, k))
      BY <2>1, MentionedFacts DEF FactList
    <3> QED BY <1>1, <2>2, <3>1, ListElements
  <2>4. ToSet(Candidates[k]) = Elements(Candidates[k])
    BY <2>1, CandidatesListed, ListElements DEF FactList
  <2>5. s.id \in ToSet(TheAnalysis(raw).gaps) <=> Unmatched(s, Candidates[k])
    BY <2>1, <2>3, GapsAreUnmatched
  <2>6. s.id \in ToSet(TheAnalysis(raw).gaps) <=>
          \A c \in ToSet(Candidates[k]) : c.text \cap s.text = {}
    BY <2>4, <2>5 DEF Unmatched
  <2>7. Named(TheAnalysis(raw).facts[k]) =>
          Len(ListReferences(TheSnapshot(raw), None, TheAnalysis(raw).id, s.id, k)) = 1
    BY <2>1, <2>2, <2>3, OneReference
  <2> QED BY <2>6, <2>7
<1>2. ASSUME Named(TheAnalysis(raw).facts["process"]), NEW p \in ToSet(TheAnalysis(raw).facts["process"])
      PROVE  LET w == FindArtifact(TheSnapshot(raw), <<"workflow", p.id>>)[1] IN
             /\ [i \in 1..Len(w.steps) |-> w.steps[i].description] = p.steps
             /\ FindNode(TheSnapshot(raw), <<"KG", w.id>>)[1].wraps = w.id
  <2>1. "process" \in KindSet
    BY DEF KindSet
  <2>2. TheAnalysis(raw).facts["process"] = AnalyzeMentions(raw, "process")
    BY <2>1, AnalysisFields
  <2>3. p \in Elements(AnalyzeMentions(raw, "process"))
    <3>1. IsList(AnalyzeMentions(raw, "process"))
      BY <2>1, MentionedFacts DEF FactList
    <3> QED BY <1>2, <2>2, <3>1, ListElements
  <2> QED BY <1>2, <2>2, <2>3, WorkflowAsked
<1> QED BY <1>1, <1>2 DEF AnswersTheRequirement, TheAnalysis, TheSnapshot

------------------------------------------------------------------------------
(* Several collections.                                                    *)

\* What projecting leaves and what it adds.
LEMMA CollectionProjected ==
  ASSUME NEW c, DOMAIN c = {"id", "artifacts", "references", "nodes", "edges"}, IsList(c.artifacts)
  PROVE  LET p == ProjectCollection(c) IN
         /\ p.id = c.id /\ p.artifacts = c.artifacts
         /\ IsList(p.nodes) /\ Len(p.nodes) = Len(c.artifacts)
<1>1. PICK nodes : nodes = [i \in 1..Len(c.artifacts) |-> NodeOf(c.artifacts[i])]
  OBVIOUS
<1>2. PICK arcs : arcs = FlattenSeq([i \in 1..Len(c.artifacts) |-> EdgesOf(c.artifacts[i])])
  OBVIOUS
<1>3. PICK p : p = ProjectCollection(c)
  OBVIOUS
<1>4. p = [c EXCEPT !.nodes = nodes, !.edges = arcs]
  BY <1>1, <1>2, <1>3 DEF ProjectCollection
<1>5. p.id = c.id /\ p.artifacts = c.artifacts /\ p.nodes = nodes
  BY <1>4
<1>6. IsList(nodes) /\ Len(nodes) = Len(c.artifacts)
  BY <1>1 DEF IsList
<1> QED BY <1>3, <1>5, <1>6

TheCollections == ProjectSnapshot(Collections)

\* Every collection has an id of its own, and as many nodes as artifacts.
LEMMA CollectionsListed ==
  /\ IsList(TheCollections) /\ Len(TheCollections) \in Nat
  /\ \A i \in 1..Len(TheCollections) :
       LET c == TheCollections[i] IN
       /\ c.id # None
       /\ \A j \in 1..Len(TheCollections) : TheCollections[j].id = c.id => j = i
       /\ IsList(c.artifacts) /\ IsList(c.nodes) /\ Len(c.nodes) = Len(c.artifacts)
<1>1. PICK cs, z : cs = Collections /\ z = TheCollections
  OBVIOUS
<1>2. /\ IsList(cs)
      /\ \A i \in 1..Len(cs) :
           /\ cs[i].id # None /\ DOMAIN cs[i] = {"id", "artifacts", "references", "nodes", "edges"}
           /\ IsList(cs[i].artifacts)
           /\ \A j \in 1..Len(cs) : cs[i].id = cs[j].id => i = j
  BY <1>1, RequirementsAssumption
<1>3. PICK n \in Nat : n = Len(cs)
  BY <1>2 DEF IsList
<1>4. z = [i \in 1..n |-> ProjectCollection(cs[i])]
  BY <1>1, <1>3 DEF TheCollections, ProjectSnapshot
<1>5. IsList(z) /\ Len(z) = n /\ \A i \in 1..n : z[i] = ProjectCollection(cs[i])
  BY <1>4 DEF IsList
<1>6. ASSUME NEW i \in 1..n
      PROVE  /\ z[i].id = cs[i].id /\ z[i].artifacts = cs[i].artifacts
             /\ IsList(z[i].nodes) /\ Len(z[i].nodes) = Len(cs[i].artifacts)
  <2>1. DOMAIN cs[i] = {"id", "artifacts", "references", "nodes", "edges"} /\ IsList(cs[i].artifacts)
    BY <1>2, <1>3
  <2> QED BY <1>5, <2>1, CollectionProjected
<1>7. ASSUME NEW i \in 1..n
      PROVE  /\ z[i].id # None
             /\ \A j \in 1..n : z[j].id = z[i].id => j = i
             /\ IsList(z[i].artifacts) /\ IsList(z[i].nodes) /\ Len(z[i].nodes) = Len(z[i].artifacts)
  BY <1>2, <1>3, <1>6
<1> QED BY <1>1, <1>5, <1>7

\* What is asked of one collection by its id is answered by that collection.
LEMMA CollectionAsked ==
  ASSUME NEW i \in 1..Len(TheCollections)
  PROVE  LET z == TheCollections
             c == z[i] IN
         /\ FindCollection(z, c.id) = <<c>> /\ Selected(z, c.id) = <<c>>
         /\ ListArtifacts(z, c.id) = c.artifacts /\ ListNodes(z, c.id) = c.nodes /\ ListEdges(z, c.id) = c.edges
<1>1. PICK z, c, one : z = TheCollections /\ c = z[i] /\ one = <<c>>
  OBVIOUS
<1>2. FindCollection(z, c.id) = one
  <2>1. PICK x : x = c.id
    OBVIOUS
  <2>2. z[i].id = x /\ \A j \in 1..Len(z) : z[j].id = x => j = i
    BY <1>1, <2>1, CollectionsListed
  <2>3. ById(z, x) = <<z[i]>>
    BY <1>1, <2>2, FoundById
  <2>4. FindCollection(z, x) = ById(z, x)
    BY DEF FindCollection, ById, First, SelectInSeq, Min
  <2> QED BY <1>1, <2>1, <2>3, <2>4
<1>3. Selected(z, c.id) = one
  <2>1. c.id # None
    BY <1>1, CollectionsListed
  <2> QED BY <1>2, <2>1 DEF Selected
<1>4. Len(one) = 1 /\ one[1] = c
  BY <1>1
<1>5. ListArtifacts(z, c.id) = c.artifacts
  <2>1. ListArtifacts(z, c.id) = FlattenSeq([e \in 1..1 |-> one[e].artifacts])
    BY <1>3, <1>4 DEF ListArtifacts
  <2>2. Len([e \in 1..1 |-> one[e].artifacts]) = 1
    OBVIOUS
  <2>3. FlattenSeq([e \in 1..1 |-> one[e].artifacts]) = [e \in 1..1 |-> one[e].artifacts][1]
    BY <2>2, FlattenedAlone
  <2>4. [e \in 1..1 |-> one[e].artifacts][1] = c.artifacts
    BY <1>4
  <2> QED BY <2>1, <2>3, <2>4
<1>6. ListNodes(z, c.id) = c.nodes
  <2>1. ListNodes(z, c.id) = FlattenSeq([e \in 1..1 |-> one[e].nodes])
    BY <1>3, <1>4 DEF ListNodes
  <2>2. Len([e \in 1..1 |-> one[e].nodes]) = 1
    OBVIOUS
  <2>3. FlattenSeq([e \in 1..1 |-> one[e].nodes]) = [e \in 1..1 |-> one[e].nodes][1]
    BY <2>2, FlattenedAlone
  <2>4. [e \in 1..1 |-> one[e].nodes][1] = c.nodes
    BY <1>4
  <2> QED BY <2>1, <2>3, <2>4
<1>7. ListEdges(z, c.id) = c.edges
  <2>1. ListEdges(z, c.id) = FlattenSeq([e \in 1..1 |-> one[e].edges])
    BY <1>3, <1>4 DEF ListEdges
  <2>2. Len([e \in 1..1 |-> one[e].edges]) = 1
    OBVIOUS
  <2>3. FlattenSeq([e \in 1..1 |-> one[e].edges]) = [e \in 1..1 |-> one[e].edges][1]
    BY <2>2, FlattenedAlone
  <2>4. [e \in 1..1 |-> one[e].edges][1] = c.edges
    BY <1>4
  <2> QED BY <2>1, <2>3, <2>4
<1> QED BY <1>1, <1>2, <1>3, <1>5, <1>6, <1>7

\* A kind that is counted is there.
LEMMA KindsAreCounted ==
  ASSUME NEW q, IsList(q), NEW k \in DOMAIN CountsByKind(q)
  PROVE  CountsByKind(q)[k] > 0
<1>1. PICK n \in Nat : n = Len(q)
  BY DEF IsList
<1>2. PICK S : S = {i \in 1..n : q[i].kind = k}
  OBVIOUS
<1>3. k \in {q[i].kind : i \in 1..n} /\ CountsByKind(q)[k] = Cardinality(S)
  BY <1>1, <1>2 DEF CountsByKind
<1>4. S # {} /\ S \in SUBSET (1..n)
  BY <1>2, <1>3
<1>5. IsFiniteSet(1..n)
  BY FS_Interval
<1>6. IsFiniteSet(S)
  BY <1>4, <1>5, FS_Subset
<1>7. Cardinality(S) \in Nat /\ Cardinality(S) # 0
  BY <1>4, <1>6, FS_CardinalityType, FS_EmptySet
<1> QED BY <1>3, <1>7

\* What is listed and counted of several collections.
LEMMA CollectionsCounted == CollectionsAddUp(Collections)
<1>1. PICK z, n : z = TheCollections /\ n = Len(z)
  OBVIOUS
<1>2. IsList(z) /\ n \in Nat /\ Selected(z, None) = z
  BY <1>1, CollectionsListed DEF Selected
<1>3. ASSUME NEW i \in 1..n
      PROVE  /\ FindCollection(z, z[i].id) = <<z[i]>>
             /\ ListArtifacts(z, z[i].id) = z[i].artifacts /\ ListNodes(z, z[i].id) = z[i].nodes
             /\ ListEdges(z, z[i].id) = z[i].edges
             /\ IsList(z[i].artifacts) /\ IsList(z[i].nodes) /\ Len(z[i].nodes) = Len(z[i].artifacts)
  BY <1>1, CollectionAsked, CollectionsListed
<1> DEFINE artifacts == [i \in 1..n |-> z[i].artifacts]
           nodes == [i \in 1..n |-> z[i].nodes]
           arcs == [i \in 1..n |-> z[i].edges]
           counted == [i \in 1..n |-> Statistics(z, z[i].id)]
<1>4. /\ ListArtifacts(z, None) = FlattenSeq(artifacts) /\ ListNodes(z, None) = FlattenSeq(nodes)
      /\ ListEdges(z, None) = FlattenSeq(arcs) /\ ListStatistics(z) = FlattenSeq(counted)
  BY <1>1, <1>2 DEF ListArtifacts, ListNodes, ListEdges, ListStatistics
<1>5. artifacts = [i \in 1..n |-> ListArtifacts(z, z[i].id)] /\ arcs = [i \in 1..n |-> ListEdges(z, z[i].id)]
  BY <1>3
<1>6. ListsOf(artifacts) /\ ListsOf(nodes) /\ Len(artifacts) = Len(nodes)
      /\ \A i \in 1..Len(artifacts) : Len(nodes[i]) = Len(artifacts[i])
  <2>1. IsList(artifacts) /\ IsList(nodes) /\ Len(artifacts) = n /\ Len(nodes) = n
    BY <1>2 DEF IsList
  <2>2. \A i \in 1..n : IsList(artifacts[i]) /\ IsList(nodes[i]) /\ Len(nodes[i]) = Len(artifacts[i])
    BY <1>3
  <2> HIDE DEF artifacts, nodes
  <2> QED BY <2>1, <2>2 DEF ListsOf
<1>7. Len(FlattenSeq(nodes)) = Len(FlattenSeq(artifacts))
  <2> HIDE DEF artifacts, nodes
  <2> QED BY <1>6, FlattenedLengths
<1>8. ASSUME NEW i \in 1..n
      PROVE  IsList(counted[i]) /\ Len(counted[i]) = 1 /\ counted[i][1] = StatisticsOf(z[i])
  <2>1. PICK one : one = <<z[i]>>
    OBVIOUS
  <2>2. Len(one) = 1 /\ one[1] = z[i]
    BY <2>1
  <2>3. counted[i] = [e \in 1..1 |-> StatisticsOf(one[e])]
    BY <1>3, <2>1, <2>2 DEF Statistics
  <2> QED BY <2>2, <2>3 DEF IsList
<1>9. Len(FlattenSeq(counted)) = n /\ \A i \in 1..n : FlattenSeq(counted)[i] = StatisticsOf(z[i])
  <2>1. IsList(counted) /\ Len(counted) = n
    BY <1>2 DEF IsList
  <2> HIDE DEF counted
  <2>2. ListsOf(counted) /\ \A i \in 1..Len(counted) : Len(counted[i]) = 1
    BY <1>8, <2>1 DEF ListsOf
  <2>3. /\ Len(FlattenSeq(counted)) = Len(counted)
        /\ \A i \in 1..Len(counted) : FlattenSeq(counted)[i] = counted[i][1]
    BY <2>2, FlattenedOnes
  <2> QED BY <1>8, <2>1, <2>3
<1>10. ASSUME NEW i \in 1..n
       PROVE  LET s == StatisticsOf(z[i]) IN
              /\ s.artifacts = Len(z[i].artifacts) /\ s.nodes = s.artifacts /\ s.edges = Len(z[i].edges)
              /\ \A k \in DOMAIN s.byKind : s.byKind[k] > 0
  <2>1. PICK s : s = StatisticsOf(z[i])
    OBVIOUS
  <2>2. /\ s.artifacts = Len(z[i].artifacts) /\ s.nodes = Len(z[i].nodes) /\ s.edges = Len(z[i].edges)
        /\ s.byKind = CountsByKind(z[i].artifacts)
    BY <2>1 DEF StatisticsOf
  <2>3. \A k \in DOMAIN CountsByKind(z[i].artifacts) : CountsByKind(z[i].artifacts)[k] > 0
    BY <1>3, KindsAreCounted
  <2> QED BY <1>3, <2>1, <2>2, <2>3
<1> HIDE DEF artifacts, nodes, arcs, counted
<1>11. Len(ListNodes(z, None)) = Len(ListArtifacts(z, None))
  BY <1>4, <1>7
<1>12. /\ ListArtifacts(z, None) = FlattenSeq([i \in 1..Len(z) |-> ListArtifacts(z, z[i].id)])
       /\ ListEdges(z, None) = FlattenSeq([i \in 1..Len(z) |-> ListEdges(z, z[i].id)])
  BY <1>1, <1>4, <1>5
<1>13. Len(ListStatistics(z)) = Len(z)
  BY <1>1, <1>4, <1>9
<1>14. ASSUME NEW i \in 1..Len(z)
       PROVE  LET s == ListStatistics(z)[i] IN
              /\ s.artifacts = Len(ListArtifacts(z, z[i].id))
              /\ s.nodes = s.artifacts /\ s.edges = Len(ListEdges(z, z[i].id))
              /\ \A k \in DOMAIN s.byKind : s.byKind[k] > 0
  <2>1. i \in 1..n /\ ListStatistics(z)[i] = StatisticsOf(z[i])
    BY <1>1, <1>4, <1>9, <1>14
  <2>2. ListArtifacts(z, z[i].id) = z[i].artifacts /\ ListEdges(z, z[i].id) = z[i].edges
    BY <1>3, <2>1
  <2> QED BY <1>10, <2>1, <2>2
<1> QED BY <1>1, <1>11, <1>12, <1>13, <1>14 DEF CollectionsAddUp, TheCollections

\* query/service.py:67: for any requirements, candidates and collections, what a
\* requirement states can be asked for once and with its steps, the gaps are the
\* facts that share no word with any candidate, and what is listed and counted
\* for several collections is what each has.
THEOREM RequirementsAreMet == Spec => []RequirementsAreAnswered
<1>1. RequirementsAreAnswered
  BY RequirementAnswered, CollectionsCounted DEF RequirementsAreAnswered
<1> QED BY <1>1, PTL
==============================================================================
