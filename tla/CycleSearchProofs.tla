--------------------------- MODULE CycleSearchProofs --------------------------
(***************************************************************************)
(* The depth-first search is right, for every graph and every order in     *)
(* which the dependencies of a node are followed.  D are the nodes, T the  *)
(* dependencies there may be; those outside D are passed over.             *)
(***************************************************************************)
EXTENDS CycleSearch, WellFoundedInduction, TLAPS

\* A set of numbers has a least one.
LEMMA LeastNumber ==
  ASSUME NEW T \in SUBSET Nat, T # {}
  PROVE  \E x \in T : \A y \in T : x <= y
<1> DEFINE R == OpToRel(<, Nat)
<1>1. \A x, y \in Nat : x < y => <<x, y>> \in R
  BY DEF OpToRel
<1>2. \E x \in T : \A y \in T : <<y, x>> \notin R
  <2>1. IsWellFoundedOn(R, Nat)
    BY NatLessThanWellFounded
  <2> HIDE DEF R
  <2> QED BY <2>1, WFMin
<1> HIDE DEF R
<1>3. PICK x \in T : \A y \in T : <<y, x>> \notin R
  BY <1>2
<1>4. \A y \in T : ~(y < x)
  BY <1>1, <1>3
<1> QED BY <1>4

------------------------------------------------------------------------------
(* The search.                                                             *)

Fields == {"color", "path", "todo", "cycles"}

SearchTyped(D, T, s) ==
  /\ Fields \subseteq DOMAIN s
  /\ s.color \in [D -> {"white", "gray", "black"}]
  /\ s.path \in Seq(D)
  /\ s.todo \in [D -> SUBSET T]

OnThePath(s, n) == \E i \in 1..Len(s.path) : s.path[i] = n

\* The path is one, of the gray nodes, each a dependency of the one before.
PathOK(D, deps, s) ==
  /\ \A i, j \in 1..Len(s.path) : s.path[i] = s.path[j] => i = j
  /\ \A n \in D : s.color[n] = "gray" <=> OnThePath(s, n)
  /\ \A i, j \in 1..Len(s.path) : j = i + 1 => s.path[j] \in deps[s.path[i]]

TodoOK(D, deps, s) ==
  \A n \in D :
    /\ s.todo[n] \subseteq deps[n]
    /\ s.color[n] = "white" => s.todo[n] = deps[n]
    /\ s.color[n] = "black" => s.todo[n] = {}

EnteredFrom(s, n, d) == \E i, j \in 1..Len(s.path) : j = i + 1 /\ s.path[i] = n /\ s.path[j] = d

\* A followed dependency has been left, or is the one being visited.
FollowedOK(D, deps, s) ==
  \A n \in D : s.color[n] # "white" =>
    \A d \in deps[n] \cap D : d \in s.todo[n] \/ s.color[d] = "black" \/ EnteredFrom(s, n, d)

\* No set of nodes left depends on itself.
LeftOK(D, deps, s) ==
  \A S \in SUBSET {n \in D : s.color[n] = "black"} : S # {} => \E n \in S : deps[n] \cap S = {}

CycleOK(D, deps, c) == c \in Seq(D) /\ IsCycle(deps, c)

SearchOK(D, T, deps, s) ==
  /\ SearchTyped(D, T, s) /\ PathOK(D, deps, s) /\ TodoOK(D, deps, s)
  /\ s.cycles = {} => FollowedOK(D, deps, s) /\ LeftOK(D, deps, s)
  /\ \A c \in s.cycles : CycleOK(D, deps, c)

LEMMA SearchBegins ==
  ASSUME NEW D, NEW T, NEW deps \in [D -> SUBSET T]
  PROVE  SearchOK(D, T, deps, Fresh(deps))
<1> DEFINE s == Fresh(deps)
<1>1. /\ DOMAIN deps = D
      /\ s.color = [n \in D |-> "white"] /\ s.path = <<>> /\ s.todo = deps /\ s.cycles = {}
      /\ Fields \subseteq DOMAIN s
  BY DEF Fresh, Fields
<1> HIDE DEF s
<1>2. s.path \in Seq(D) /\ Len(s.path) = 0
  BY <1>1
<1>3. SearchTyped(D, T, s)
  BY <1>1, <1>2 DEF SearchTyped
<1>4. PathOK(D, deps, s)
  BY <1>1, <1>2 DEF PathOK, OnThePath
<1>5. TodoOK(D, deps, s) /\ FollowedOK(D, deps, s) /\ LeftOK(D, deps, s)
  BY <1>1 DEF TodoOK, FollowedOK, LeftOK
<1>6. \A c \in s.cycles : CycleOK(D, deps, c)
  BY <1>1
<1>7. SearchOK(D, T, deps, s)
  BY <1>3, <1>4, <1>5, <1>6 DEF SearchOK
<1> QED BY <1>7 DEF s

\* The steps, field by field.
LEMMA EnterFields ==
  ASSUME NEW s, Fields \subseteq DOMAIN s, NEW n
  PROVE  /\ Enter(s, n).color = [s.color EXCEPT ![n] = "gray"]
         /\ Enter(s, n).path = Append(s.path, n)
         /\ Enter(s, n).todo = s.todo /\ Enter(s, n).cycles = s.cycles
         /\ Fields \subseteq DOMAIN Enter(s, n)
BY DEF Enter, Fields

LEMMA LeaveFields ==
  ASSUME NEW s, Fields \subseteq DOMAIN s
  PROVE  /\ Leave(s).color = [s.color EXCEPT ![s.path[Len(s.path)]] = "black"]
         /\ Leave(s).path = Front(s.path)
         /\ Leave(s).todo = s.todo /\ Leave(s).cycles = s.cycles
         /\ Fields \subseteq DOMAIN Leave(s)
BY DEF Leave, Fields, Last

Rest(s, d) == [s EXCEPT !.todo[Last(s.path)] = @ \ {d}]

LEMMA RestFields ==
  ASSUME NEW s, Fields \subseteq DOMAIN s, NEW d
  PROVE  /\ Rest(s, d).todo =
              [s.todo EXCEPT ![s.path[Len(s.path)]] = s.todo[s.path[Len(s.path)]] \ {d}]
         /\ Rest(s, d).color = s.color /\ Rest(s, d).path = s.path /\ Rest(s, d).cycles = s.cycles
         /\ Fields \subseteq DOMAIN Rest(s, d)
BY DEF Rest, Fields, Last

LEMMA FoundFields ==
  ASSUME NEW s, Fields \subseteq DOMAIN s, NEW c, NEW t, t = [s EXCEPT !.cycles = @ \cup {c}]
  PROVE  /\ t.cycles = s.cycles \cup {c}
         /\ t.color = s.color /\ t.path = s.path /\ t.todo = s.todo
         /\ Fields \subseteq DOMAIN t
BY DEF Fields

\* A node is entered: the first of a path, or a dependency of its last node
\* that has just been taken from those to follow.
LEMMA NodeEntered ==
  ASSUME NEW D, NEW T, NEW deps \in [D -> SUBSET T], NEW s, SearchTyped(D, T, s),
         PathOK(D, deps, s), TodoOK(D, deps, s),
         NEW n \in D, s.color[n] = "white",
         s.path # <<>> => n \in deps[s.path[Len(s.path)]],
         s.cycles = {} =>
           /\ LeftOK(D, deps, s)
           /\ \A m \in D : s.color[m] # "white" =>
                \A d \in deps[m] \cap D : d \in s.todo[m] \/ s.color[d] = "black" \/ EnteredFrom(s, m, d)
                                            \/ (d = n /\ s.path # <<>> /\ m = s.path[Len(s.path)]),
         \A c \in s.cycles : CycleOK(D, deps, c)
  PROVE  SearchOK(D, T, deps, Enter(s, n))
<1> DEFINE t == Enter(s, n)
           k == Len(s.path)
<1>1. /\ t.color = [s.color EXCEPT ![n] = "gray"] /\ t.path = Append(s.path, n)
      /\ t.todo = s.todo /\ t.cycles = s.cycles
      /\ Fields \subseteq DOMAIN t
  BY EnterFields DEF SearchTyped
<1> HIDE DEF t
<1>2. k \in Nat /\ s.path \in Seq(D)
  BY DEF SearchTyped
<1>3. /\ t.path \in Seq(D) /\ Len(t.path) = k + 1 /\ t.path[k + 1] = n
      /\ \A i \in 1..k : t.path[i] = s.path[i] /\ s.path[i] \in D
      /\ \A i : i \in 1..(k + 1) <=> i \in 1..k \/ i = k + 1
  BY <1>1, <1>2
<1>4. /\ \A m \in D : t.color[m] = IF m = n THEN "gray" ELSE s.color[m]
      /\ t.color \in [D -> {"white", "gray", "black"}]
  BY <1>1 DEF SearchTyped
<1>5. SearchTyped(D, T, t)
  BY <1>1, <1>3, <1>4 DEF SearchTyped
<1> HIDE DEF k
<1>6. \A i \in 1..k : s.path[i] # n
  BY <1>2 DEF PathOK, OnThePath, k
<1>7. PathOK(D, deps, t)
  <2>1. \A i, j \in 1..(k + 1) : t.path[i] = t.path[j] => i = j
    <3>1. \A i, j \in 1..k : s.path[i] = s.path[j] => i = j
      BY DEF PathOK, k
    <3> QED BY <1>3, <1>6, <3>1
  <2>2. ASSUME NEW m \in D PROVE t.color[m] = "gray" <=> OnThePath(t, m)
    <3>1. s.color[m] = "gray" <=> \E i \in 1..k : s.path[i] = m
      BY DEF PathOK, OnThePath, k
    <3>2. OnThePath(t, m) <=> m = n \/ \E i \in 1..k : s.path[i] = m
      BY <1>3 DEF OnThePath
    <3> QED BY <1>4, <3>1, <3>2
  <2>3. ASSUME NEW i \in 1..(k + 1), NEW j \in 1..(k + 1), j = i + 1
        PROVE  t.path[j] \in deps[t.path[i]]
    <3>1. i \in 1..k
      BY <1>2, <2>3
    <3>2. CASE j \in 1..k
      BY <1>3, <2>3, <3>1, <3>2 DEF PathOK, k
    <3>3. CASE j = k + 1
      <4>1. i = k /\ s.path # <<>>
        BY <1>2, <2>3, <3>1, <3>3 DEF k
      <4> QED BY <1>3, <3>1, <3>3, <4>1 DEF k
    <3> QED BY <1>3, <3>2, <3>3
  <2> QED BY <1>3, <2>1, <2>2, <2>3 DEF PathOK
<1>8. TodoOK(D, deps, t)
  BY <1>1, <1>4 DEF TodoOK
<1>9. ASSUME NEW m, NEW d, EnteredFrom(s, m, d) PROVE EnteredFrom(t, m, d)
  <2>1. PICK i \in 1..k : \E j \in 1..k : j = i + 1 /\ s.path[i] = m /\ s.path[j] = d
    BY <1>9 DEF EnteredFrom, k
  <2>2. i + 1 \in 1..k /\ t.path[i] = m /\ t.path[i + 1] = d
    BY <1>3, <2>1
  <2>3. i \in 1..(k + 1) /\ i + 1 \in 1..(k + 1)
    BY <1>3, <2>2
  <2> QED BY <1>3, <2>2, <2>3 DEF EnteredFrom
<1>10. ASSUME t.cycles = {} PROVE FollowedOK(D, deps, t) /\ LeftOK(D, deps, t)
  <2>1. LeftOK(D, deps, t)
    <3>1. {m \in D : t.color[m] = "black"} = {m \in D : s.color[m] = "black"}
      BY <1>4
    <3> QED BY <1>1, <1>10, <3>1 DEF LeftOK
  <2>2. ASSUME NEW m \in D, t.color[m] # "white", NEW d \in deps[m] \cap D
        PROVE  d \in t.todo[m] \/ t.color[d] = "black" \/ EnteredFrom(t, m, d)
    <3>1. CASE m = n
      BY <1>1, <3>1 DEF TodoOK
    <3>2. CASE m # n
      <4>1. s.color[m] # "white"
        BY <1>4, <2>2, <3>2
      <4>2. CASE d \in s.todo[m] \/ s.color[d] = "black"
        BY <1>1, <1>4, <4>2
      <4>3. CASE EnteredFrom(s, m, d)
        BY <1>9, <4>3
      <4>4. CASE d = n /\ s.path # <<>> /\ m = s.path[Len(s.path)]
        <5>1. k \in 1..k
          BY <1>2, <4>4 DEF k
        <5>2. t.path[k] = m /\ t.path[k + 1] = d /\ k \in 1..(k + 1) /\ k + 1 \in 1..(k + 1)
          BY <1>2, <1>3, <4>4, <5>1 DEF k
        <5> QED BY <1>3, <5>2 DEF EnteredFrom
      <4> QED BY <1>1, <1>10, <4>1, <4>2, <4>3, <4>4
    <3> QED BY <3>1, <3>2
  <2> QED BY <2>1, <2>2 DEF FollowedOK
<1>11. \A c \in t.cycles : CycleOK(D, deps, c)
  BY <1>1
<1>12. SearchOK(D, T, deps, t)
  BY <1>5, <1>7, <1>8, <1>10, <1>11 DEF SearchOK
<1> QED BY <1>12 DEF t
\* The last node of the path is left: all its dependencies have been followed.
LEMMA NodeLeft ==
  ASSUME NEW D, NEW T, NEW deps \in [D -> SUBSET T], NEW s, SearchOK(D, T, deps, s),
         s.path # <<>>, s.todo[s.path[Len(s.path)]] = {}
  PROVE  SearchOK(D, T, deps, Leave(s))
<1> DEFINE t == Leave(s)
           k == Len(s.path)
           n == s.path[k]
<1>1. /\ t.color = [s.color EXCEPT ![n] = "black"] /\ t.path = Front(s.path)
      /\ t.todo = s.todo /\ t.cycles = s.cycles /\ Fields \subseteq DOMAIN t
  BY LeaveFields DEF SearchOK, SearchTyped
<1>2. /\ SearchTyped(D, T, s) /\ PathOK(D, deps, s) /\ TodoOK(D, deps, s)
      /\ s.cycles = {} => FollowedOK(D, deps, s) /\ LeftOK(D, deps, s)
  BY DEF SearchOK
<1> HIDE DEF t
<1>3. k \in Nat /\ k > 0 /\ s.path \in Seq(D) /\ n \in D /\ s.todo[n] = {}
  <2>1. s.path \in Seq(D) /\ k \in Nat /\ k # 0
    BY <1>2 DEF SearchTyped
  <2> QED BY <2>1
<1>4. /\ t.path \in Seq(D) /\ Len(t.path) = k - 1
      /\ \A i \in 1..(k - 1) : t.path[i] = s.path[i] /\ s.path[i] \in D
      /\ \A i : i \in 1..k <=> i \in 1..(k - 1) \/ i = k
  BY <1>1, <1>3 DEF Front
<1>5. /\ \A m \in D : t.color[m] = IF m = n THEN "black" ELSE s.color[m]
      /\ t.color \in [D -> {"white", "gray", "black"}]
  BY <1>1, <1>2 DEF SearchTyped
<1>6. SearchTyped(D, T, t)
  BY <1>1, <1>2, <1>4, <1>5 DEF SearchTyped
<1>7. s.color[n] = "gray" /\ \A i \in 1..(k - 1) : s.path[i] # n
  <2>1. OnThePath(s, n)
    BY <1>3 DEF OnThePath
  <2>2. \A i, j \in 1..k : s.path[i] = s.path[j] => i = j
    BY <1>2 DEF PathOK
  <2> QED BY <1>2, <1>3, <2>1, <2>2 DEF PathOK
<1> HIDE DEF k, n
<1>8. PathOK(D, deps, t)
  <2>1. \A i, j \in 1..(k - 1) : t.path[i] = t.path[j] => i = j
    BY <1>2, <1>4 DEF PathOK, k
  <2>2. ASSUME NEW m \in D PROVE t.color[m] = "gray" <=> OnThePath(t, m)
    <3>1. s.color[m] = "gray" <=> \E i \in 1..k : s.path[i] = m
      BY <1>2 DEF PathOK, OnThePath, k
    <3>2. OnThePath(t, m) <=> \E i \in 1..(k - 1) : s.path[i] = m
      BY <1>4 DEF OnThePath
    <3>3. (\E i \in 1..k : s.path[i] = m) <=> m = n \/ \E i \in 1..(k - 1) : s.path[i] = m
      BY <1>3, <1>4 DEF n
    <3> QED BY <1>5, <1>7, <3>1, <3>2, <3>3
  <2>3. \A i, j \in 1..(k - 1) : j = i + 1 => t.path[j] \in deps[t.path[i]]
    <3>1. \A i, j \in 1..k : j = i + 1 => s.path[j] \in deps[s.path[i]]
      BY <1>2 DEF PathOK, k
    <3> QED BY <1>4, <3>1
  <2> QED BY <1>4, <2>1, <2>2, <2>3 DEF PathOK
<1>9. TodoOK(D, deps, t)
  BY <1>1, <1>2, <1>3, <1>5, <1>7 DEF TodoOK
<1>10. ASSUME t.cycles = {} PROVE FollowedOK(D, deps, t) /\ LeftOK(D, deps, t)
  <2>1. FollowedOK(D, deps, s) /\ LeftOK(D, deps, s)
    BY <1>1, <1>2, <1>10
  <2>2. ASSUME NEW m \in D, NEW d, EnteredFrom(s, m, d)
        PROVE  IF m = n THEN FALSE ELSE d = n \/ EnteredFrom(t, m, d)
    <3>1. PICK i \in 1..k, j \in 1..k : j = i + 1 /\ s.path[i] = m /\ s.path[j] = d
      BY <2>2 DEF EnteredFrom, k
    <3>2. i \in 1..(k - 1)
      BY <1>3, <3>1
    <3>3. m # n
      BY <1>7, <3>1, <3>2
    <3>4. CASE j = k
      BY <3>1, <3>3, <3>4 DEF n
    <3>5. CASE j \in 1..(k - 1)
      BY <1>4, <3>1, <3>2, <3>3, <3>5 DEF EnteredFrom
    <3> QED BY <1>4, <3>4, <3>5
  <2>3. \A d \in deps[n] \cap D : s.color[d] = "black"
    BY <1>3, <1>7, <2>1, <2>2 DEF FollowedOK
  <2>4. ASSUME NEW m \in D, t.color[m] # "white", NEW d \in deps[m] \cap D
        PROVE  d \in t.todo[m] \/ t.color[d] = "black" \/ EnteredFrom(t, m, d)
    <3>1. CASE m = n
      BY <1>5, <2>3, <3>1
    <3>2. CASE m # n
      <4>1. d \in s.todo[m] \/ s.color[d] = "black" \/ EnteredFrom(s, m, d)
        BY <1>5, <2>1, <2>4, <3>2 DEF FollowedOK
      <4> QED BY <1>1, <1>5, <2>2, <3>2, <4>1
    <3> QED BY <3>1, <3>2
  <2>5. ASSUME NEW S \in SUBSET {m \in D : t.color[m] = "black"}, S # {},
               \A m \in S : deps[m] \cap S # {}
        PROVE  FALSE
    <3> DEFINE R == S \ {n}
    <3>1. R \in SUBSET {m \in D : s.color[m] = "black"}
      BY <1>5
    <3>2. R # {}
      <4>1. CASE n \in S
        BY <1>3, <1>7, <2>3, <2>5, <4>1
      <4> QED BY <2>5, <4>1
    <3>3. ASSUME NEW m \in R PROVE deps[m] \cap R # {}
      <4>1. PICK d \in S : d \in deps[m]
        BY <2>5, <3>3
      <4>2. m \in D /\ s.color[m] = "black" /\ s.todo[m] = {} /\ d \in D
        BY <1>2, <1>5, <2>5, <3>1, <3>3 DEF TodoOK
      <4>3. ~EnteredFrom(s, m, d)
        <5>1. ~OnThePath(s, m)
          BY <1>2, <4>2 DEF PathOK
        <5> QED BY <5>1 DEF EnteredFrom, OnThePath
      <4>4. s.color[d] = "black"
        BY <2>1, <4>1, <4>2, <4>3 DEF FollowedOK
      <4> QED BY <1>7, <4>1, <4>4
    <3> QED BY <2>1, <3>1, <3>2, <3>3 DEF LeftOK
  <2> QED BY <2>4, <2>5 DEF FollowedOK, LeftOK
<1>11. \A c \in t.cycles : CycleOK(D, deps, c)
  BY <1>1 DEF SearchOK
<1>12. SearchOK(D, T, deps, t)
  BY <1>6, <1>8, <1>9, <1>10, <1>11 DEF SearchOK
<1> QED BY <1>12 DEF t
\* What a gray dependency closes is a cycle.
LEMMA CycleFound ==
  ASSUME NEW D, NEW T, NEW deps \in [D -> SUBSET T], NEW s, SearchTyped(D, T, s), PathOK(D, deps, s),
         s.path # <<>>, NEW d \in D, d \in deps[s.path[Len(s.path)]], s.color[d] = "gray"
  PROVE  CycleOK(D, deps, Cycle(s, d))
<1> DEFINE k == Len(s.path)
           start == CHOOSE i \in 1..Len(s.path) : s.path[i] = d
           p == SubSeq(s.path, start, k)
           c == Append(p, d)
<1>1. s.path \in Seq(D) /\ k \in Nat /\ k > 0 /\ DOMAIN deps = D
  <2>1. s.path \in Seq(D) /\ k \in Nat /\ k # 0
    BY DEF SearchTyped
  <2> QED BY <2>1
<1>2. start \in 1..k /\ s.path[start] = d
  BY DEF PathOK, OnThePath
<1>3. Cycle(s, d) = c
  BY DEF Cycle
<1> HIDE DEF start, k
<1>4. /\ p \in Seq(D) /\ Len(p) = k - start + 1
      /\ \A i \in 1..(k - start + 1) : p[i] = s.path[start + i - 1]
  BY <1>1, <1>2 DEF k
<1> HIDE DEF p
<1>5. /\ c \in Seq(D) /\ Len(c) = k - start + 2 /\ c[k - start + 2] = d
      /\ \A i \in 1..(k - start + 1) : c[i] = s.path[start + i - 1]
  <2>1. c \in Seq(D) /\ Len(c) = Len(p) + 1 /\ c[Len(p) + 1] = d /\ \A i \in 1..Len(p) : c[i] = p[i]
    BY <1>4
  <2>2. Len(p) = k - start + 1 /\ Len(p) + 1 = k - start + 2
    BY <1>1, <1>2, <1>4
  <2> QED BY <1>4, <2>1, <2>2
<1> HIDE DEF c
<1>6. Len(c) > 1 /\ c[1] = c[Len(c)]
  <2>1. Len(c) > 1 /\ 1 \in 1..(k - start + 1)
    BY <1>1, <1>2, <1>5
  <2>2. c[1] = s.path[start + 1 - 1] /\ start + 1 - 1 = start
    BY <1>1, <1>2, <1>5, <2>1
  <2> QED BY <1>2, <1>5, <2>1, <2>2
<1>7. ASSUME NEW i \in 1..(Len(c) - 1) PROVE c[i] \in D /\ c[i + 1] \in deps[c[i]]
  <2> DEFINE j == start + i - 1
  <2>1. i \in 1..(k - start + 1) /\ j \in 1..k
    BY <1>1, <1>2, <1>5
  <2>2. c[i] = s.path[j] /\ c[i] \in D
    BY <1>1, <1>5, <2>1 DEF k
  <2>3. CASE i = k - start + 1
    <3>1. j = k /\ i + 1 = k - start + 2
      BY <1>1, <1>2, <2>3
    <3> QED BY <1>5, <2>2, <3>1 DEF k
  <2>4. CASE i # k - start + 1
    <3>1. i + 1 \in 1..(k - start + 1) /\ start + (i + 1) - 1 = j + 1 /\ j + 1 \in 1..k
      BY <1>1, <1>2, <2>1, <2>4
    <3>2. c[i + 1] = s.path[j + 1]
      BY <1>5, <3>1
    <3>3. s.path[j + 1] \in deps[s.path[j]]
      BY <2>1, <3>1 DEF PathOK, k
    <3> QED BY <2>2, <3>2, <3>3
  <2> QED BY <2>2, <2>3, <2>4
<1> QED BY <1>1, <1>3, <1>5, <1>6, <1>7 DEF IsCycle, CycleOK

\* A dependency is followed.
LEMMA DependencyFollowed ==
  ASSUME NEW D, NEW T, NEW deps \in [D -> SUBSET T], NEW s, SearchOK(D, T, deps, s),
         s.path # <<>>, NEW d \in s.todo[s.path[Len(s.path)]]
  PROVE  SearchOK(D, T, deps, Follow(s, d))
<1> DEFINE k == Len(s.path)
           n == s.path[k]
           r == Rest(s, d)
<1>1. /\ SearchTyped(D, T, s) /\ PathOK(D, deps, s) /\ TodoOK(D, deps, s)
      /\ s.cycles = {} => FollowedOK(D, deps, s) /\ LeftOK(D, deps, s)
      /\ \A c \in s.cycles : CycleOK(D, deps, c)
  BY DEF SearchOK
<1>2. /\ r.todo = [s.todo EXCEPT ![n] = s.todo[n] \ {d}]
      /\ r.color = s.color /\ r.path = s.path /\ r.cycles = s.cycles /\ Fields \subseteq DOMAIN r
  BY <1>1, RestFields DEF SearchTyped
<1> HIDE DEF r
<1>3. k \in Nat /\ k > 0 /\ s.path \in Seq(D) /\ n \in D
  <2>1. s.path \in Seq(D) /\ k \in Nat /\ k # 0
    BY <1>1 DEF SearchTyped
  <2> QED BY <2>1
<1>4. s.color[n] = "gray" /\ d \in deps[n] /\ DOMAIN s.color = D
  <2>1. OnThePath(s, n)
    BY <1>3 DEF OnThePath
  <2> QED BY <1>1, <1>3, <2>1 DEF PathOK, TodoOK, SearchTyped
<1>5. /\ \A m \in D : r.todo[m] = IF m = n THEN s.todo[n] \ {d} ELSE s.todo[m]
      /\ r.todo \in [D -> SUBSET T]
  BY <1>1, <1>2, <1>3 DEF SearchTyped
<1> HIDE DEF n
<1>6. SearchTyped(D, T, r) /\ PathOK(D, deps, r)
  BY <1>1, <1>2, <1>5 DEF SearchTyped, PathOK, OnThePath
<1>7. TodoOK(D, deps, r)
  BY <1>1, <1>2, <1>4, <1>5 DEF TodoOK
<1>8. \A m, e : EnteredFrom(r, m, e) <=> EnteredFrom(s, m, e)
  BY <1>2 DEF EnteredFrom
<1>9. ASSUME s.cycles = {}
      PROVE  /\ LeftOK(D, deps, r)
             /\ \A m \in D : r.color[m] # "white" =>
                  \A e \in deps[m] \cap D :
                    e \in r.todo[m] \/ r.color[e] = "black" \/ EnteredFrom(r, m, e) \/ (e = d /\ m = n)
  <2>1. LeftOK(D, deps, r)
    BY <1>1, <1>2, <1>9 DEF LeftOK
  <2> QED BY <1>1, <1>2, <1>5, <1>8, <1>9, <2>1 DEF FollowedOK
<1>10. /\ Follow(s, d) = IF d \notin D THEN r
                         ELSE IF s.color[d] = "gray" THEN [r EXCEPT !.cycles = @ \cup {Cycle(s, d)}]
                         ELSE IF s.color[d] = "white" THEN Enter(r, d)
                         ELSE r
  BY <1>4 DEF Follow, Rest, OnPath, r
<1>11. CASE d \notin D \/ s.color[d] = "black"
  <2>1. Follow(s, d) = r
    BY <1>10, <1>11
  <2>2. r.cycles = {} => FollowedOK(D, deps, r)
    BY <1>2, <1>9, <1>11 DEF FollowedOK
  <2>3. r.cycles = {} => LeftOK(D, deps, r)
    BY <1>2, <1>9
  <2> QED BY <1>1, <1>2, <1>6, <1>7, <2>1, <2>2, <2>3 DEF SearchOK
<1>12. CASE d \in D /\ s.color[d] = "gray"
  <2> DEFINE t == [r EXCEPT !.cycles = @ \cup {Cycle(s, d)}]
  <2>1. /\ Follow(s, d) = t /\ t.cycles = r.cycles \cup {Cycle(s, d)}
        /\ t.color = r.color /\ t.path = r.path /\ t.todo = r.todo /\ Fields \subseteq DOMAIN t
    BY <1>2, <1>10, <1>12, FoundFields
  <2> HIDE DEF t
  <2>2. SearchTyped(D, T, t) /\ PathOK(D, deps, t) /\ TodoOK(D, deps, t)
    BY <1>6, <1>7, <2>1 DEF SearchTyped, PathOK, TodoOK, OnThePath
  <2>3. CycleOK(D, deps, Cycle(s, d))
    BY <1>1, <1>4, <1>12, CycleFound DEF n, k
  <2>4. t.cycles # {} /\ \A c \in t.cycles : CycleOK(D, deps, c)
    BY <1>1, <1>2, <2>1, <2>3
  <2> QED BY <2>1, <2>2, <2>4 DEF SearchOK
<1>13. CASE d \in D /\ s.color[d] = "white"
  <2>1. Follow(s, d) = Enter(r, d)
    BY <1>10, <1>13
  <2>2. r.color[d] = "white" /\ d \in deps[r.path[Len(r.path)]]
    BY <1>2, <1>4, <1>13 DEF n, k
  <2>3. \A c \in r.cycles : CycleOK(D, deps, c)
    BY <1>1, <1>2
  <2>4. r.cycles = {} =>
          /\ LeftOK(D, deps, r)
          /\ \A m \in D : r.color[m] # "white" =>
               \A e \in deps[m] \cap D : e \in r.todo[m] \/ r.color[e] = "black" \/ EnteredFrom(r, m, e)
                                           \/ (e = d /\ r.path # <<>> /\ m = r.path[Len(r.path)])
    BY <1>2, <1>9 DEF n, k
  <2>5. SearchOK(D, T, deps, Enter(r, d))
    BY <1>6, <1>7, <1>13, <2>2, <2>3, <2>4, NodeEntered
  <2> QED BY <2>1, <2>5
<1>14. d \in D => s.color[d] \in {"white", "gray", "black"}
  BY <1>1 DEF SearchTyped
<1> QED BY <1>11, <1>12, <1>13, <1>14
\* Every step of the search keeps what is known of it.
LEMMA SearchContinues ==
  ASSUME NEW D, NEW T, NEW deps \in [D -> SUBSET T], NEW s, SearchOK(D, T, deps, s),
         NEW t \in Continue(s)
  PROVE  SearchOK(D, T, deps, t)
<1>1. /\ SearchTyped(D, T, s) /\ PathOK(D, deps, s) /\ TodoOK(D, deps, s)
      /\ s.cycles = {} => FollowedOK(D, deps, s) /\ LeftOK(D, deps, s)
      /\ \A c \in s.cycles : CycleOK(D, deps, c)
  BY DEF SearchOK
<1>2. CASE s.path = <<>>
  <2>1. PICK n \in White(s) : t = Enter(s, n)
    BY <1>2 DEF Continue, NextRoot
  <2>2. n \in D /\ s.color[n] = "white"
    BY <1>1, <2>1 DEF White, SearchTyped
  <2>3. s.cycles = {} => 
          /\ LeftOK(D, deps, s)
          /\ \A m \in D : s.color[m] # "white" =>
               \A d \in deps[m] \cap D : d \in s.todo[m] \/ s.color[d] = "black" \/ EnteredFrom(s, m, d)
                                           \/ (d = n /\ s.path # <<>> /\ m = s.path[Len(s.path)])
    BY <1>1 DEF FollowedOK
  <2>4. SearchOK(D, T, deps, Enter(s, n))
    BY <1>1, <1>2, <2>2, <2>3, NodeEntered
  <2> QED BY <2>1, <2>4
<1>3. CASE s.path # <<>> /\ s.todo[s.path[Len(s.path)]] = {}
  BY <1>3, NodeLeft DEF Continue, Last
<1>4. CASE s.path # <<>> /\ s.todo[s.path[Len(s.path)]] # {}
  <2>1. PICK d \in s.todo[s.path[Len(s.path)]] : t = Follow(s, d)
    BY <1>4 DEF Continue, Last
  <2> QED BY <1>4, <2>1, DependencyFollowed
<1> QED BY <1>2, <1>3, <1>4

\* A cycle is a set of nodes each of which depends on a node of the set.
LEMMA CyclesAreCyclic ==
  ASSUME NEW D, NEW deps, NEW c, CycleOK(D, deps, c)
  PROVE  Cyclic(deps)
<1> DEFINE k == Len(c) - 1
           S == {c[i] : i \in 1..k}
<1>1. k \in Nat /\ k >= 1 /\ Len(c) = k + 1 /\ IsCycle(deps, c)
  BY DEF IsCycle, CycleOK
<1>2. S \in SUBSET DOMAIN deps /\ c[1] \in S
  BY <1>1 DEF IsCycle
<1>3. ASSUME NEW n \in S PROVE deps[n] \cap S # {}
  <2>1. PICK i \in 1..k : n = c[i]
    OBVIOUS
  <2> HIDE DEF k
  <2>2. c[i + 1] \in deps[n]
    BY <1>1, <2>1 DEF IsCycle
  <2>3. c[i + 1] \in S
    <3>1. CASE i = k
      BY <1>1, <1>2, <3>1 DEF IsCycle
    <3>2. CASE i # k
      <4>1. i + 1 \in 1..k
        BY <1>1, <2>1, <3>2
      <4> QED BY <4>1
    <3> QED BY <3>1, <3>2
  <2> QED BY <2>2, <2>3
<1> QED BY <1>2, <1>3 DEF Cyclic

\* planning/validation.py:151, plugin_registry.py:303: once the search is over it
\* has found a cycle exactly if there is one, and all it found are cycles; and
\* what it found before that is a cycle as well.
LEMMA SearchDecides ==
  ASSUME NEW D, NEW T, NEW deps \in [D -> SUBSET T], NEW s, SearchOK(D, T, deps, s)
  PROVE  /\ s.cycles # {} => Cyclic(deps)
         /\ Exhausted(s) /\ s.cycles = {} => ~Cyclic(deps)
         /\ \A c \in s.cycles : IsCycle(deps, c)
<1>1. DOMAIN deps = D
  OBVIOUS
<1>2. s.cycles # {} => Cyclic(deps)
  BY CyclesAreCyclic DEF SearchOK, CycleOK
<1>3. ASSUME Exhausted(s), s.cycles = {}, Cyclic(deps) PROVE FALSE
  <2>1. LeftOK(D, deps, s) /\ SearchTyped(D, T, s) /\ PathOK(D, deps, s)
    BY <1>3 DEF SearchOK
  <2>2. s.path = <<>> /\ \A n \in D : s.color[n] # "white"
    BY <1>3, <2>1 DEF Exhausted, White, SearchTyped
  <2>3. \A n \in D : s.color[n] # "gray"
    <3>1. Len(s.path) = 0
      BY <2>2
    <3> QED BY <2>1, <3>1 DEF PathOK, OnThePath
  <2>4. \A n \in D : s.color[n] = "black"
    BY <2>1, <2>2, <2>3 DEF SearchTyped
  <2>5. PICK S \in SUBSET D : S # {} /\ \A n \in S : deps[n] \cap S # {}
    BY <1>1, <1>3 DEF Cyclic
  <2> QED BY <2>1, <2>4, <2>5 DEF LeftOK
<1> QED BY <1>2, <1>3 DEF SearchOK, CycleOK
==============================================================================
