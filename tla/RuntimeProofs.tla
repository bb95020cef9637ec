----------------------------- MODULE RuntimeProofs ----------------------------
(***************************************************************************)
(* Proofs about the boot and shutdown of the Runtime, for any modules,     *)
(* manifests and configurations, whatever raises, with modules switched on *)
(* and off and shutdowns between the calls.                                *)
(***************************************************************************)
EXTENDS Runtime, CycleSearchProofs, FiniteSetTheorems, TLAPS

------------------------------------------------------------------------------
(* sorted(), and the order of the start.                                   *)

LEMMA RankOfName ==
  ASSUME NEW i \in 1..Len(Names)
  PROVE  Rank(Names[i]) = i
<1>1. Names \in Seq(Modules) /\ DOMAIN Names = 1..Len(Names)
  BY RegistryAssumption
<1>2. \A j \in 1..Len(Names) : Names[j] = Names[i] => j = i
  BY <1>1, RegistryAssumption DEF IsInjective
<1> QED BY <1>2 DEF Rank

Upto(n) == {Names[i] : i \in 1..n}

Arranged(s, S) ==
  /\ s \in [1..Cardinality(S) -> S]
  /\ ToSet(s) = S /\ \A i, j \in DOMAIN s : i < j => Rank(s[i]) < Rank(s[j])

LEMMA EmptyArrangement ==
  Arranged(<<>>, {})
<1>1. Cardinality({}) = 0
  BY FS_EmptySet
<1>2. <<>> \in [1..0 -> {}] /\ DOMAIN <<>> = {}
  OBVIOUS
<1> QED BY <1>1, <1>2 DEF Arranged, ToSet

\* What comes last of S goes to the end.
LEMMA Arrangement ==
  ASSUME NEW n \in Nat, n < Len(Names), NEW S \in SUBSET Upto(n), NEW s, Arranged(s, S)
  PROVE  /\ Arranged(Append(s, Names[n + 1]), S \cup {Names[n + 1]})
         /\ IsFiniteSet(S)
<1> DEFINE x == Names[n + 1]
           k == Cardinality(S)
           t == Append(s, x)
<1>1. Names \in Seq(Modules) /\ Len(Names) \in Nat /\ n + 1 \in 1..Len(Names)
  BY RegistryAssumption
<1>2. \A m \in S : Rank(m) \in 1..n
  <2> SUFFICES ASSUME NEW m \in S PROVE Rank(m) \in 1..n
    OBVIOUS
  <2>1. PICK i \in 1..n : m = Names[i]
    BY DEF Upto
  <2>2. i \in 1..Len(Names)
    BY <1>1
  <2> QED BY <2>1, <2>2, RankOfName
<1>3. Rank(x) = n + 1
  BY <1>1, RankOfName
<1>4. IsFiniteSet(S)
  <2>1. IsFiniteSet(1..n)
    BY FS_Interval
  <2> DEFINE f == [i \in 1..n |-> Names[i]]
  <2>2. f \in Surjection(1..n, Upto(n))
    BY DEF Surjection, Upto
  <2>3. IsFiniteSet(Upto(n))
    BY <2>1, <2>2, FS_Surjection
  <2> QED BY <2>3, FS_Subset
<1>5. k \in Nat /\ x \notin S /\ Cardinality(S \cup {x}) = k + 1
  <2>1. k \in Nat
    BY <1>4, FS_CardinalityType
  <2>2. x \notin S
    BY <1>2, <1>3
  <2> QED BY <1>4, <2>1, <2>2, FS_AddElement
<1>6. s \in Seq(S) /\ Len(s) = k /\ DOMAIN s = 1..k
  BY <1>5 DEF Arranged
<1> HIDE DEF x, k
<1>7. /\ t \in Seq(S \cup {x}) /\ Len(t) = k + 1 /\ t[k + 1] = x /\ DOMAIN t = 1..(k + 1)
      /\ \A i \in 1..k : t[i] = s[i] /\ s[i] \in S
      /\ \A i : i \in 1..(k + 1) <=> i \in 1..k \/ i = k + 1
  BY <1>5, <1>6
<1> HIDE DEF t
<1>8. t \in [1..(k + 1) -> S \cup {x}]
  BY <1>5, <1>7
<1>9. ToSet(t) = S \cup {x}
  <2>1. S = {s[i] : i \in 1..k}
    BY <1>6 DEF Arranged, ToSet
  <2> QED BY <1>7, <2>1 DEF ToSet
<1>10. ASSUME NEW i \in 1..(k + 1), NEW j \in 1..(k + 1), i < j
       PROVE  Rank(t[i]) < Rank(t[j])
  <2>1. i \in 1..k
    BY <1>5, <1>10
  <2>2. CASE j \in 1..k
    BY <1>6, <1>7, <1>10, <2>1, <2>2 DEF Arranged
  <2>3. CASE j = k + 1
    <3>1. Rank(t[i]) \in 1..n /\ Rank(t[j]) = n + 1
      BY <1>2, <1>3, <1>7, <2>1, <2>3
    <3> QED BY <3>1
  <2> QED BY <1>7, <2>2, <2>3
<1>11. Arranged(t, S \cup {x})
  BY <1>5, <1>7, <1>8, <1>9, <1>10 DEF Arranged
<1> QED BY <1>4, <1>11 DEF t, x

\* Every set of modules can be sorted: no number of names is the least up to
\* which that fails.
LEMMA ModulesCanBeSorted ==
  ASSUME NEW S \in SUBSET Modules
  PROVE  \E s : Arranged(s, S)
<1> DEFINE Sortable(n) == \A R \in SUBSET Upto(n) : \E s : Arranged(s, R)
           Bad == {n \in 0..Len(Names) : ~Sortable(n)}
<1>1. Names \in Seq(Modules) /\ Len(Names) \in Nat
  BY RegistryAssumption
<1>2. Bad = {}
  <2> SUFFICES ASSUME Bad # {} PROVE FALSE
    OBVIOUS
  <2>1. PICK n \in Bad : \A m \in Bad : n <= m
    <3>1. Bad \in SUBSET Nat
      BY <1>1
    <3> HIDE DEF Bad
    <3> QED BY <3>1, LeastNumber
  <2>2. n \in 0..Len(Names) /\ ~Sortable(n)
    BY <2>1
  <2>3. n # 0
    <3>1. Upto(0) = {}
      BY DEF Upto
    <3>2. Sortable(0)
      BY <3>1, EmptyArrangement
    <3> QED BY <2>2, <3>2
  <2>4. n - 1 \in 0..Len(Names) /\ n - 1 \in Nat /\ n - 1 < Len(Names) /\ (n - 1) + 1 = n /\ ~(n <= n - 1)
    BY <1>1, <2>2, <2>3
  <2>5. Sortable(n - 1)
    BY <2>1, <2>4
  <2>6. ASSUME NEW R \in SUBSET Upto(n) PROVE \E s : Arranged(s, R)
    <3> DEFINE x == Names[n]
    <3>1. R \ {x} \in SUBSET Upto(n - 1)
      <4>1. \A i \in 1..n : i \in 1..(n - 1) \/ i = n
        BY <2>2
      <4> QED BY <4>1 DEF Upto
    <3>2. PICK s : Arranged(s, R \ {x})
      BY <2>5, <3>1
    <3>3. CASE x \in R
      <4>1. Arranged(Append(s, x), (R \ {x}) \cup {x})
        BY <2>4, <3>1, <3>2, Arrangement
      <4> QED BY <3>3, <4>1
    <3>4. CASE x \notin R
      <4>1. R \ {x} = R
        BY <3>4
      <4> QED BY <3>2, <4>1
    <3> QED BY <3>3, <3>4
  <2> QED BY <2>2, <2>6
<1>3. Sortable(Len(Names))
  <2>1. Len(Names) \in 0..Len(Names)
    BY <1>1
  <2> HIDE DEF Sortable
  <2>2. ~Sortable(Len(Names)) => Len(Names) \in Bad
    BY <2>1
  <2> HIDE DEF Bad
  <2> QED BY <1>2, <2>2
<1>4. S \in SUBSET Upto(Len(Names))
  BY <1>1 DEF Modules, ToSet, Upto
<1> QED BY <1>3, <1>4

LEMMA ModulesAreFinite ==
  IsFiniteSet(Modules)
<1> DEFINE f == [i \in 1..Len(Names) |-> Names[i]]
<1>1. Names \in Seq(Modules) /\ Len(Names) \in Nat
  BY RegistryAssumption
<1>2. f \in [1..Len(Names) -> Modules]
  BY <1>1
<1>3. ASSUME NEW m \in Modules PROVE \E i \in 1..Len(Names) : f[i] = m
  <2>1. DOMAIN Names = 1..Len(Names)
    BY <1>1
  <2>2. PICK i \in DOMAIN Names : m = Names[i]
    BY DEF Modules, ToSet
  <2> QED BY <2>1, <2>2
<1> HIDE DEF f
<1>4. f \in Surjection(1..Len(Names), Modules)
  BY <1>2, <1>3 DEF Surjection
<1>5. IsFiniteSet(1..Len(Names))
  BY <1>1, FS_Interval
<1> QED BY <1>4, <1>5, FS_Surjection

LEMMA SortedSequence ==
  ASSUME NEW S \in SUBSET Modules
  PROVE  /\ Sorted(S) \in Seq(S) /\ ToSet(Sorted(S)) = S
         /\ \A i, j \in 1..Len(Sorted(S)) : Sorted(S)[i] = Sorted(S)[j] => i = j
<1>1. Arranged(Sorted(S), S)
  BY ModulesCanBeSorted DEF Sorted, Arranged
<1> DEFINE s == Sorted(S)
<1> HIDE DEF s
<1>2. Names \in Seq(Modules) /\ Len(Names) \in Nat
  BY RegistryAssumption
<1>3. Cardinality(S) \in Nat
  BY ModulesAreFinite, FS_Subset, FS_CardinalityType
<1>4. s \in Seq(S) /\ Len(s) = Cardinality(S) /\ DOMAIN s = 1..Len(s)
  BY <1>1, <1>3 DEF Arranged, s
<1>5. \A i, j \in 1..Len(s) : i < j => Rank(s[i]) < Rank(s[j])
  BY <1>1, <1>4 DEF Arranged, s
<1>6. \A i \in 1..Len(s) : Rank(s[i]) \in 1..Len(Names)
  <2> SUFFICES ASSUME NEW i \in 1..Len(s) PROVE Rank(s[i]) \in 1..Len(Names)
    OBVIOUS
  <2>1. s[i] \in Modules
    BY <1>4
  <2>2. PICK k \in 1..Len(Names) : s[i] = Names[k]
    BY <1>2, <2>1, SMTT(30) DEF Modules, ToSet
  <2> QED BY <2>2, RankOfName
<1>7. ASSUME NEW i \in 1..Len(s), NEW j \in 1..Len(s), s[i] = s[j] PROVE i = j
  <2>1. ~(i < j) /\ ~(j < i)
    BY <1>5, <1>6, <1>7
  <2> QED BY <1>4, <2>1
<1> QED BY <1>1, <1>4, <1>7 DEF Arranged, s
------------------------------------------------------------------------------
(* Kahn's algorithm.  D are the nodes.                                     *)

OrderTyped(D, s) ==
  /\ s.order \in Seq(D) /\ s.ready \in Seq(D)
  /\ \A i, j \in 1..Len(s.order) : s.order[i] = s.order[j] => i = j
  /\ \A i, j \in 1..Len(s.ready) : s.ready[i] = s.ready[j] => i = j
  /\ ToSet(s.order) \cap ToSet(s.ready) = {}

\* A node has been found ready exactly if all it depends on has been ordered.
OrderOK(D, deps, s) ==
  /\ OrderTyped(D, s)
  /\ \A m \in D : m \in ToSet(s.order) \cup ToSet(s.ready) <=> deps[m] \subseteq ToSet(s.order)
  /\ \A i \in 1..Len(s.order) : deps[s.order[i]] \subseteq {s.order[j] : j \in 1..(i - 1)}

LEMMA OrderBegins ==
  ASSUME NEW D \in SUBSET Modules, NEW deps \in [D -> SUBSET D]
  PROVE  OrderOK(D, deps, Ready(deps))
<1> DEFINE R == {m \in D : deps[m] = {}}
           q == Sorted(R)
           s == Ready(deps)
<1>1. s.ready = q /\ s.order = <<>>
  BY DEF Ready
<1>2. R \in SUBSET Modules /\ R \in SUBSET D
  OBVIOUS
<1> HIDE DEF R
<1>3. q \in Seq(R) /\ ToSet(q) = R /\ \A i, j \in 1..Len(q) : q[i] = q[j] => i = j
  BY <1>2, SortedSequence
<1> HIDE DEF q, s
<1>4. q \in Seq(D)
  BY <1>2, <1>3
<1>5. s.order \in Seq(D) /\ Len(s.order) = 0 /\ ToSet(s.order) = {}
  BY <1>1 DEF ToSet
<1>6. OrderTyped(D, s)
  BY <1>1, <1>3, <1>4, <1>5 DEF OrderTyped
<1>7. OrderOK(D, deps, s)
  BY <1>1, <1>3, <1>5, <1>6 DEF OrderOK, R
<1> QED BY <1>7 DEF s

\* Two sequences without repetitions and common elements, one after the other.
LEMMA Joined ==
  ASSUME NEW D, NEW p \in Seq(D), NEW q \in Seq(D),
         \A i, j \in 1..Len(p) : p[i] = p[j] => i = j,
         \A i, j \in 1..Len(q) : q[i] = q[j] => i = j,
         ToSet(p) \cap ToSet(q) = {}
  PROVE  /\ p \o q \in Seq(D) /\ ToSet(p \o q) = ToSet(p) \cup ToSet(q)
         /\ \A i, j \in 1..Len(p \o q) : (p \o q)[i] = (p \o q)[j] => i = j
<1> DEFINE t == p \o q
           m == Len(p)
           n == Len(q)
<1>1. /\ m \in Nat /\ n \in Nat /\ t \in Seq(D) /\ Len(t) = m + n
      /\ \A i \in 1..m : t[i] = p[i]
      /\ \A i \in 1..n : t[m + i] = q[i]
  OBVIOUS
<1>2. DOMAIN p = 1..m /\ DOMAIN q = 1..n /\ DOMAIN t = 1..(m + n)
  BY <1>1
<1> HIDE DEF t, m, n
<1>3. ASSUME NEW i \in 1..(m + n)
      PROVE  \/ i \in 1..m /\ t[i] = p[i] /\ t[i] \in ToSet(p)
             \/ i \notin 1..m /\ i - m \in 1..n /\ t[i] = q[i - m] /\ t[i] \in ToSet(q)
  <2>1. CASE i \in 1..m
    BY <1>1, <1>2, <2>1 DEF ToSet
  <2>2. CASE i \notin 1..m
    <3>1. i - m \in 1..n /\ m + (i - m) = i
      BY <1>1, <2>2
    <3>2. t[i] = q[i - m]
      BY <1>1, <3>1
    <3> QED BY <1>2, <2>2, <3>1, <3>2 DEF ToSet
  <2> QED BY <2>1, <2>2
<1>4. ToSet(t) = ToSet(p) \cup ToSet(q)
  <2>1. \A x \in ToSet(t) : x \in ToSet(p) \cup ToSet(q)
    BY <1>2, <1>3 DEF ToSet
  <2>2. \A i \in 1..m : i \in 1..(m + n) /\ p[i] = t[i]
    BY <1>1
  <2>3. \A i \in 1..n : m + i \in 1..(m + n) /\ q[i] = t[m + i]
    BY <1>1
  <2> QED BY <1>2, <2>1, <2>2, <2>3, SMTT(30) DEF ToSet
<1>5. ASSUME NEW i \in 1..(m + n), NEW j \in 1..(m + n), t[i] = t[j] PROVE i = j
  <2>1. CASE i \in 1..m /\ j \in 1..m
    BY <1>3, <1>5, <2>1 DEF m
  <2>2. CASE i \notin 1..m /\ j \notin 1..m
    <3>1. i - m = j - m
      BY <1>3, <1>5, <2>2 DEF n
    <3> QED BY <1>1, <3>1
  <2> QED BY <1>3, <1>5, <2>1, <2>2
<1>6. t \in Seq(D) /\ ToSet(t) = ToSet(p) \cup ToSet(q)
      /\ \A i, j \in 1..Len(t) : t[i] = t[j] => i = j
  BY <1>1, <1>4, <1>5
<1> QED BY <1>6 DEF t

LEMMA OrderGoesOn ==
  ASSUME NEW D \in SUBSET Modules, NEW deps \in [D -> SUBSET D], NEW s, OrderOK(D, deps, s),
         s.ready # <<>>
  PROVE  OrderOK(D, deps, PopReady(deps, s))
<1> DEFINE h == Head(s.ready)
           order == Append(s.order, h)
           R == {m \in D : h \in deps[m] /\ deps[m] \subseteq ToSet(order)}
           q == Sorted(R)
           rest == Tail(s.ready)
           t == PopReady(deps, s)
           n == Len(s.order)
<1>1. t.order = order /\ t.ready = rest \o q
  BY DEF PopReady, Released
<1>2. /\ s.order \in Seq(D) /\ s.ready \in Seq(D)
      /\ \A i, j \in 1..Len(s.order) : s.order[i] = s.order[j] => i = j
      /\ \A i, j \in 1..Len(s.ready) : s.ready[i] = s.ready[j] => i = j
      /\ ToSet(s.order) \cap ToSet(s.ready) = {}
      /\ n \in Nat
  BY DEF OrderOK, OrderTyped
<1>3. /\ h \in D /\ rest \in Seq(D) /\ Len(rest) = Len(s.ready) - 1
      /\ h = s.ready[1] /\ Len(s.ready) \in Nat /\ Len(s.ready) >= 1
      /\ \A i \in 1..(Len(s.ready) - 1) : rest[i] = s.ready[i + 1]
  BY <1>2
<1>4. /\ order \in Seq(D) /\ Len(order) = n + 1 /\ order[n + 1] = h
      /\ \A i \in 1..n : order[i] = s.order[i]
      /\ \A i : i \in 1..(n + 1) <=> i \in 1..n \/ i = n + 1
  BY <1>2, <1>3
<1>5. R \in SUBSET Modules /\ R \in SUBSET D
  OBVIOUS
<1> HIDE DEF R
<1>6. q \in Seq(R) /\ ToSet(q) = R /\ \A i, j \in 1..Len(q) : q[i] = q[j] => i = j
  BY <1>5, SortedSequence
<1> HIDE DEF h, order, q, rest, t, n
<1>7. ToSet(order) = ToSet(s.order) \cup {h}
  <2>1. DOMAIN order = 1..(n + 1) /\ DOMAIN s.order = 1..n
    BY <1>2, <1>4 DEF n
  <2> QED BY <1>4, <2>1 DEF ToSet
<1>8. ToSet(s.ready) = ToSet(rest) \cup {h} /\ h \notin ToSet(rest)
  <2>1. DOMAIN rest = 1..(Len(s.ready) - 1) /\ DOMAIN s.ready = 1..Len(s.ready)
    BY <1>2, <1>3
  <2>2. \A i \in 1..Len(s.ready) : i # 1 => i - 1 \in 1..(Len(s.ready) - 1) /\ (i - 1) + 1 = i
    BY <1>3
  <2>3. \A i \in 1..(Len(s.ready) - 1) : i + 1 \in 1..Len(s.ready) /\ i + 1 # 1
    BY <1>3
  <2>4. 1 \in 1..Len(s.ready)
    BY <1>3
  <2>5. h \notin ToSet(rest)
    <3> SUFFICES ASSUME h \in ToSet(rest) PROVE FALSE
      OBVIOUS
    <3>1. PICK i \in 1..(Len(s.ready) - 1) : rest[i] = h
      BY <2>1 DEF ToSet
    <3>2. s.ready[i + 1] = s.ready[1]
      BY <1>3, <3>1
    <3> QED BY <1>2, <2>3, <2>4, <3>2
  <2>6. ASSUME NEW x \in ToSet(s.ready) PROVE x \in ToSet(rest) \cup {h}
    <3>1. PICK i \in 1..Len(s.ready) : s.ready[i] = x
      BY <2>1 DEF ToSet
    <3>2. CASE i = 1
      BY <1>3, <3>1, <3>2
    <3>3. CASE i # 1
      <4>1. i - 1 \in 1..(Len(s.ready) - 1) /\ rest[i - 1] = x
        BY <1>3, <2>2, <3>1, <3>3
      <4> QED BY <2>1, <4>1 DEF ToSet
    <3> QED BY <3>2, <3>3
  <2>7. \A x \in ToSet(rest) : x \in ToSet(s.ready)
    BY <1>3, <2>1, <2>3 DEF ToSet
  <2>8. h \in ToSet(s.ready)
    BY <1>3, <2>1, <2>4 DEF ToSet
  <2> QED BY <2>5, <2>6, <2>7, <2>8
<1>9. h \notin ToSet(s.order)
  BY <1>2, <1>8
<1>10. \A m \in D : m \in ToSet(s.order) \cup ToSet(s.ready) <=> deps[m] \subseteq ToSet(s.order)
  BY DEF OrderOK
<1>11. \A i, j \in 1..Len(order) : order[i] = order[j] => i = j
  <2>1. \A i \in 1..n : s.order[i] \in ToSet(s.order)
    BY <1>2 DEF ToSet, n
  <2>2. \A i, j \in 1..n : s.order[i] = s.order[j] => i = j
    BY <1>2 DEF n
  <2> QED BY <1>4, <1>9, <2>1, <2>2
\* A node of R was not ready before: it depends on h.
<1>12. \A m \in R : m \notin ToSet(s.order) /\ m \notin ToSet(s.ready)
  BY <1>5, <1>9, <1>10 DEF R
<1>13. q \in Seq(D) /\ ToSet(rest) \cap ToSet(q) = {}
  BY <1>5, <1>6, <1>8, <1>12
<1>14. \A i, j \in 1..Len(rest) : rest[i] = rest[j] => i = j
  <2>1. \A i \in 1..(Len(s.ready) - 1) : i + 1 \in 1..Len(s.ready)
    BY <1>3
  <2>2. ASSUME NEW i \in 1..(Len(s.ready) - 1), NEW j \in 1..(Len(s.ready) - 1), rest[i] = rest[j]
        PROVE  i = j
    <3>1. i + 1 = j + 1
      BY <1>2, <1>3, <2>1, <2>2
    <3> QED BY <3>1
  <2> QED BY <1>3, <2>2
<1>15. /\ rest \o q \in Seq(D) /\ ToSet(rest \o q) = ToSet(rest) \cup R
       /\ \A i, j \in 1..Len(rest \o q) : (rest \o q)[i] = (rest \o q)[j] => i = j
  BY <1>3, <1>6, <1>13, <1>14, Joined, SMTT(30)
<1>16. OrderTyped(D, t)
  <2>1. ToSet(order) \cap ToSet(rest \o q) = {}
    BY <1>2, <1>7, <1>8, <1>12, <1>15
  <2> QED BY <1>1, <1>4, <1>11, <1>15, <2>1 DEF OrderTyped
<1>17. ASSUME NEW m \in D
       PROVE  m \in ToSet(order) \cup (ToSet(rest) \cup R) <=> deps[m] \subseteq ToSet(order)
  <2>1. CASE m \in ToSet(s.order) \cup ToSet(s.ready)
    BY <1>7, <1>8, <1>10, <2>1
  <2>2. CASE m \notin ToSet(s.order) \cup ToSet(s.ready)
    BY <1>7, <1>8, <1>10, <2>2 DEF R
  <2> QED BY <2>1, <2>2
<1>18. ASSUME NEW i \in 1..Len(order)
       PROVE  deps[order[i]] \subseteq {order[j] : j \in 1..(i - 1)}
  <2>1. CASE i \in 1..n
    <3>1. \A j \in 1..(i - 1) : order[j] = s.order[j]
      BY <1>2, <1>4, <2>1
    <3>2. deps[s.order[i]] \subseteq {s.order[j] : j \in 1..(i - 1)}
      BY <2>1 DEF OrderOK, n
    <3> QED BY <1>4, <2>1, <3>1, <3>2
  <2>2. CASE i = n + 1
    <3>1. deps[h] \subseteq ToSet(s.order)
      BY <1>3, <1>8, <1>10
    <3>2. DOMAIN s.order = 1..n /\ i - 1 = n
      BY <1>2, <2>2 DEF n
    <3>3. ToSet(s.order) = {order[j] : j \in 1..n}
      BY <1>4, <3>2 DEF ToSet
    <3> QED BY <1>4, <2>2, <3>1, <3>2, <3>3
  <2> QED BY <1>4, <2>1, <2>2
<1>19. OrderOK(D, deps, t)
  <2>1. ToSet(t.order) = ToSet(order) /\ ToSet(t.ready) = ToSet(rest) \cup R
    BY <1>1, <1>15
  <2>2. \A m \in D : m \in ToSet(t.order) \cup ToSet(t.ready) <=> deps[m] \subseteq ToSet(t.order)
    BY <1>17, <2>1
  <2>3. \A i \in 1..Len(t.order) : deps[t.order[i]] \subseteq {t.order[j] : j \in 1..(i - 1)}
    BY <1>1, <1>18
  <2> QED BY <1>16, <2>2, <2>3 DEF OrderOK
<1> QED BY <1>19 DEF t

\* Where nothing is ready any more, what was not ordered depends on itself or
\* on what does.
LEMMA OrderEnds ==
  ASSUME NEW D, NEW deps \in [D -> SUBSET D], NEW s, OrderOK(D, deps, s), s.ready = <<>>
  PROVE  /\ ToSet(s.order) = D \ UNION {S \in SUBSET D : \A m \in S : deps[m] \cap S # {}}
         /\ ~Cyclic(deps) => ToSet(s.order) = D
<1> DEFINE left == D \ ToSet(s.order)
           blocked == UNION {S \in SUBSET D : \A m \in S : deps[m] \cap S # {}}
           n == Len(s.order)
<1>1. /\ s.order \in Seq(D) /\ n \in Nat /\ DOMAIN s.order = 1..n /\ DOMAIN deps = D
      /\ ToSet(s.order) \subseteq D /\ ToSet(s.ready) = {}
  BY DEF OrderOK, OrderTyped, ToSet
<1>2. \A m \in left : deps[m] \cap left # {}
  <2> SUFFICES ASSUME NEW m \in left PROVE deps[m] \cap left # {}
    OBVIOUS
  <2>1. deps[m] \in SUBSET D /\ ~(deps[m] \subseteq ToSet(s.order))
    BY <1>1 DEF OrderOK
  <2> QED BY <2>1
<1>3. left \subseteq blocked
  BY <1>2
<1>4. ASSUME NEW S \in SUBSET D, \A m \in S : deps[m] \cap S # {}
      PROVE  S \cap ToSet(s.order) = {}
  <2> DEFINE At == {i \in 1..n : s.order[i] \in S}
  <2>1. At = {}
    <3> SUFFICES ASSUME At # {} PROVE FALSE
      OBVIOUS
    <3>1. PICK i \in At : \A j \in At : i <= j
      <4>1. At \in SUBSET Nat
        OBVIOUS
      <4> HIDE DEF At
      <4> QED BY <4>1, LeastNumber
    <3>2. PICK d : d \in deps[s.order[i]] \cap S
      BY <1>4, <3>1
    <3>3. PICK j \in 1..(i - 1) : d = s.order[j]
      BY <3>1, <3>2 DEF OrderOK
    <3>4. j \in 1..n /\ ~(i <= j)
      BY <1>1, <3>1, <3>3
    <3> QED BY <3>1, <3>2, <3>3, <3>4
  <2> QED BY <1>1, <2>1 DEF ToSet
<1>5. ToSet(s.order) = D \ blocked
  <2>1. blocked \cap ToSet(s.order) = {}
    BY <1>4
  <2> HIDE DEF blocked
  <2> QED BY <1>1, <1>3, <2>1
<1>6. ASSUME ~Cyclic(deps) PROVE ToSet(s.order) = D
  <2>1. left = {}
    BY <1>1, <1>2, <1>6 DEF Cyclic
  <2> QED BY <1>1, <2>1
<1> QED BY <1>5, <1>6
------------------------------------------------------------------------------
(* The graph of the enabled modules.                                       *)

graph == <<manifests, plugins, overrides>>

\* What validate_dependencies establishes.
Valid ==
  /\ \A m \in Enabled : \A cap \in manifests[m].requires : \E p \in Enabled : Providers(cap) = {p}
  /\ \A m \in Enabled : \A cap \in manifests[m].provides : Providers(cap) = {m}
  /\ ~Cyclic(Dependencies)

------------------------------------------------------------------------------
(* The inductive invariant.                                                *)

\* Where a call is, told by what the Runtime's lifecycle tells.
PhaseOK ==
  /\ pc \in {"idle", "boot", "validating", "ordering", "starting", "stopping"}
  /\ pc = "idle" => runtime \in {"starting", "ready", "failed", "stopped"}
  /\ pc = "boot" => runtime \in {"plugin_discovery", "config_loading", "health_checking"}
  /\ pc = "validating" => runtime \in {"dependency_validation", "config_loading"}
  /\ pc = "ordering" => runtime \in {"health_checking", "starting", "draining", "failed", "stopped"}
  /\ pc = "starting" => runtime = "health_checking"
  /\ pc = "stopping" => runtime \in {"starting", "draining", "failed", "stopped"}

LoopsOK ==
  /\ pc = "validating" => SearchOK(Enabled, Enabled, Dependencies, search)
  /\ pc = "ordering" => OrderOK(Enabled, Dependencies, sort)

\* What is enabled is validated from the start of the modules on, and stays so
\* until a module is switched on or off.
ValidOK ==
  /\ plugins \subseteq Modules
  /\ validated => Valid
  /\ runtime = "health_checking" => validated
  /\ changes = 0 /\ DOMAIN records # {} => validated

\* Before the modules are started.
NothingYet == runtime \in {"starting", "plugin_discovery", "dependency_validation", "config_loading"}

EarlyOK ==
  /\ NothingYet \/ runtime = "health_checking" => stops = <<>>
  /\ NothingYet \/ (runtime = "health_checking" /\ pc # "starting") =>
       DOMAIN records = {} /\ DOMAIN capabilities = {} /\ started = {} /\ hook = 1

\* The modules that have been started and the queue are all that is enabled,
\* and what the next in the queue depends on has been started.
QueueIn(D, deps, R, q) ==
  /\ q \in Seq(D)
  /\ \A i, j \in 1..Len(q) : q[i] = q[j] => i = j
  /\ R \cup ToSet(q) = D /\ R \cap ToSet(q) = {}
  /\ \A i \in 1..Len(q) : deps[q[i]] \subseteq R \cup {q[j] : j \in 1..(i - 1)}

QueueOK == QueueIn(Enabled, Dependencies, DOMAIN records, queue)

RegisteredFor(m) == manifests[m].provides \subseteq DOMAIN capabilities

StartedOK ==
  /\ hook \in 1..5
  /\ \A m \in DOMAIN records : records[m].state = "running" /\ RegisteredFor(m)
  /\ \A cap \in DOMAIN capabilities : capabilities[cap].by \in Providers(cap)
  /\ hook = 5 /\ queue # <<>> => RegisteredFor(Current) /\ started = DOMAIN records \cup {Current}
  /\ hook # 5 \/ queue = <<>> => started = DOMAIN records

StartOK == pc = "starting" => QueueOK /\ StartedOK

ReadyOK ==
  /\ runtime = "ready" => pc = "idle"
  /\ ReadyMeansComplete

\* Of the modules with a record, those that depend on what comes next in the
\* queue have been stopped or come before it, and none is passed over.
LeftToStop ==
  /\ DOMAIN records \subseteq Stopped \cup ToSet(queue)
  /\ \A i \in 1..Len(queue) : \A m \in DOMAIN records :
       queue[i] \in Deps(m) => m \in Stopped \cup {queue[j] : j \in 1..(i - 1)}

DependentsFirst ==
  \A i \in 1..Len(stops) : \A m \in DOMAIN records :
    stops[i].module \in Deps(m) => \E j \in 1..(i - 1) : stops[j].module = m

StopOK ==
  changes = 0 =>
    /\ DOMAIN records \subseteq Enabled
    /\ DependentsFirst
    /\ pc = "stopping" => LeftToStop

StopTyped ==
  /\ changes \in Nat
  /\ stops \in Seq([module : Modules, raised : BOOLEAN])
  /\ pc = "stopping" => queue \in Seq(Enabled)

RuntimeOK ==
  /\ PhaseOK /\ LoopsOK /\ ValidOK /\ EarlyOK /\ StartOK /\ ReadyOK /\ StopOK /\ StopTyped
------------------------------------------------------------------------------
(* The graph.                                                              *)

LEMMA GraphTyped ==
  /\ Dependencies \in [Enabled -> SUBSET Enabled]
  /\ Dependencies' \in [Enabled' -> SUBSET Enabled']
<1>1. \A cap : Providers(cap) \subseteq Enabled
  BY DEF Providers
<1>2. \A cap : Providers(cap)' \subseteq Enabled'
  BY DEF Providers
<1> QED BY <1>1, <1>2 DEF Dependencies

LEMMA SameGraph ==
  ASSUME manifests' = manifests, Enabled' = Enabled
  PROVE  /\ Dependencies' = Dependencies
         /\ \A cap : Providers(cap)' = Providers(cap)
         /\ Valid' <=> Valid
<1>1. \A cap : Providers(cap)' = Providers(cap)
  BY DEF Providers
<1>2. Dependencies' = Dependencies
  BY <1>1 DEF Dependencies
<1>3. Valid' <=> Valid
  BY <1>1, <1>2 DEF Valid
<1> QED BY <1>1, <1>2, <1>3

LEMMA GraphKept ==
  ASSUME UNCHANGED graph
  PROVE  /\ Enabled' = Enabled /\ Dependencies' = Dependencies
         /\ \A cap : Providers(cap)' = Providers(cap)
         /\ Valid' <=> Valid
<1>1. manifests' = manifests /\ plugins' = plugins /\ overrides' = overrides
  BY DEF graph
<1>2. Enabled' = Enabled
  BY <1>1 DEF Enabled, IsEnabled
<1> QED BY <1>1, <1>2, SameGraph

\* Whoever switches modules on or off loses the validation, unless nothing is
\* switched.
LEMMA Switched ==
  ASSUME NEW switches, Switch(switches)
  PROVE  plugins' = plugins /\ (validated' => validated /\ (Valid' <=> Valid))
<1>1. manifests' = manifests /\ plugins' = plugins
  BY DEF Switch
<1>2. ASSUME validated' PROVE validated /\ (Valid' <=> Valid)
  <2>1. DOMAIN switches = {} /\ validated
    BY <1>2 DEF Switch, StillValid
  <2>2. overrides' = [m \in DOMAIN overrides |-> overrides[m]]
    BY <2>1 DEF Switch
  <2>3. Enabled' = Enabled
    BY <1>1, <2>2 DEF Enabled, IsEnabled
  <2> QED BY <1>1, <2>1, <2>3, SameGraph
<1> QED BY <1>1, <1>2

LEMMA ProvidersAreFinite ==
  ASSUME plugins \subseteq Modules, NEW cap
  PROVE  IsFiniteSet(Providers(cap)) /\ Cardinality(Providers(cap)) \in Nat
<1>1. Providers(cap) \in SUBSET Modules
  BY DEF Providers, Enabled
<1> QED BY <1>1, ModulesAreFinite, FS_Subset, FS_CardinalityType

\* What a validation that passes has found.
LEMMA ReportMeansValid ==
  ASSUME plugins \subseteq Modules, SearchOK(Enabled, Enabled, Dependencies, search), SearchIsOver, ReportOk
  PROVE  Valid
<1>1. ~Cyclic(Dependencies)
  <2>1. Exhausted(search) /\ search.cycles = {}
    BY DEF SearchIsOver, ReportOk
  <2> QED BY <2>1, GraphTyped, SearchDecides
<1>2. ASSUME NEW cap, Providers(cap) # {} PROVE \E p \in Enabled : Providers(cap) = {p}
  <2>1. PICK p \in Providers(cap) : TRUE
    BY <1>2
  <2>2. p \in Enabled /\ cap \in manifests[p].provides
    BY <2>1 DEF Providers
  <2>3. cap \notin Ambiguous
    BY DEF ReportOk
  <2>4. ~(Cardinality(Providers(cap)) > 1)
    BY <2>2, <2>3 DEF Ambiguous
  <2>5. Cardinality(Providers(cap)) \in Nat /\ IsFiniteSet(Providers(cap))
    BY ProvidersAreFinite
  <2>6. Cardinality(Providers(cap)) # 0
    BY <1>2, <2>5, FS_EmptySet
  <2>7. Cardinality(Providers(cap)) = 1
    BY <2>4, <2>5, <2>6
  <2>8. PICK q : Providers(cap) = {q}
    BY <2>5, <2>7, FS_Singleton
  <2> QED BY <2>1, <2>2, <2>8
<1>3. ASSUME NEW m \in Enabled, NEW cap \in manifests[m].requires PROVE \E p \in Enabled : Providers(cap) = {p}
  <2>1. Unsatisfied = {}
    BY DEF ReportOk
  <2>2. Providers(cap) # {}
    <3> SUFFICES ASSUME Providers(cap) = {} PROVE FALSE
      OBVIOUS
    <3>1. <<m, cap>> \in Unsatisfied
      BY DEF Unsatisfied
    <3> QED BY <2>1, <3>1
  <2> QED BY <1>2, <2>2
<1>4. ASSUME NEW m \in Enabled, NEW cap \in manifests[m].provides PROVE Providers(cap) = {m}
  <2>1. m \in Providers(cap)
    BY DEF Providers
  <2> QED BY <1>2, <2>1
<1> QED BY <1>1, <1>3, <1>4 DEF Valid

LEMMA DependsOnTheProvider ==
  ASSUME NEW m \in Enabled, NEW cap \in manifests[m].requires, NEW p, Providers(cap) = {p}
  PROVE  p \in Deps(m)
<1>1. Cardinality(Providers(cap)) = 1
  BY FS_Singleton
<1> QED BY <1>1 DEF Deps, Dependencies

LEMMA ValidIsNotStale ==
  ASSUME ValidOK
  PROVE  ValidatedIsNeverStale
<1> SUFFICES ASSUME validated PROVE
      /\ \A m \in Enabled : \A cap \in manifests[m].requires : Cardinality(Providers(cap)) = 1
      /\ ~Cyclic(Dependencies)
  BY DEF ValidatedIsNeverStale, Providers
<1>1. Valid
  BY DEF ValidOK
<1>2. ASSUME NEW m \in Enabled, NEW cap \in manifests[m].requires PROVE Cardinality(Providers(cap)) = 1
  <2>1. PICK p : Providers(cap) = {p}
    BY <1>1 DEF Valid
  <2> QED BY <2>1, FS_Singleton
<1> QED BY <1>1, <1>2 DEF Valid
------------------------------------------------------------------------------
(* The steps of boot() up to the start of the modules.                     *)

\* A step after which no module is being started or stopped, that leaves the
\* records alone.
LEMMA QuietStep ==
  ASSUME RuntimeOK, UNCHANGED <<graph, changes, records, stops>>, pc' \notin {"starting", "stopping"}
  PROVE  StartOK' /\ StopOK' /\ StopTyped'
<1>1. changes' = changes /\ records' = records /\ stops' = stops
  OBVIOUS
<1>2. Enabled' = Enabled /\ Dependencies' = Dependencies
  BY GraphKept
<1>3. StopOK'
  BY <1>1, <1>2 DEF RuntimeOK, StopOK, DependentsFirst, Deps
<1>4. StopTyped'
  BY <1>1 DEF RuntimeOK, StopTyped
<1> QED BY <1>3, <1>4 DEF StartOK

\* While nothing has been started, whatever becomes of the graph.
LEMMA EarlyStep ==
  ASSUME RuntimeOK, DOMAIN records = {}, UNCHANGED <<changes, records, stops>>,
         pc' \notin {"starting", "stopping"}
  PROVE  StartOK' /\ StopOK' /\ StopTyped'
<1>1. changes' = changes /\ records' = records /\ stops' = stops
  OBVIOUS
<1>2. StopOK'
  BY <1>1 DEF StopOK, DependentsFirst
<1>3. StopTyped'
  BY <1>1 DEF RuntimeOK, StopTyped
<1> QED BY <1>2, <1>3 DEF StartOK

LEMMA DiscoverStep ==
  ASSUME RuntimeOK, Discover
  PROVE  RuntimeOK'
<1>1. /\ pc = "idle" /\ runtime = "starting"
      /\ \/ pc' = "boot" /\ runtime' = "plugin_discovery"
         \/ pc' = "idle" /\ runtime' = "failed"
      /\ UNCHANGED <<queue, hook, records, capabilities, started, stops, changes>>
  BY DEF Discover, Register, Fail, modules
<1>2. validated' = FALSE /\ plugins' \subseteq Modules
  <2>1. plugins \subseteq Modules
    BY DEF RuntimeOK, ValidOK
  <2> QED BY <2>1 DEF Discover, Register
<1>3. DOMAIN records = {} /\ DOMAIN capabilities = {} /\ started = {} /\ hook = 1 /\ stops = <<>>
  BY <1>1 DEF RuntimeOK, EarlyOK, NothingYet
<1>4. PhaseOK' /\ LoopsOK'
  BY <1>1 DEF PhaseOK, LoopsOK
<1>5. ValidOK'
  BY <1>1, <1>2, <1>3 DEF ValidOK
<1>6. EarlyOK'
  BY <1>1, <1>3 DEF EarlyOK
<1>7. ReadyOK'
  BY <1>1 DEF ReadyOK, ReadyMeansComplete
<1>8. StartOK' /\ StopOK' /\ StopTyped'
  BY <1>1, <1>3, EarlyStep
<1> QED BY <1>4, <1>5, <1>6, <1>7, <1>8 DEF RuntimeOK

LEMMA ValidateDefaultsStep ==
  ASSUME RuntimeOK, ValidateDefaults
  PROVE  RuntimeOK'
<1>1. /\ pc = "boot" /\ runtime = "plugin_discovery"
      /\ pc' = "validating" /\ runtime' = "dependency_validation"
      /\ UNCHANGED <<queue, hook, records, capabilities, started, stops, changes, validated, plugins>>
      /\ UNCHANGED graph /\ search' = Fresh(Dependencies)
  BY DEF ValidateDefaults, BeginValidation, registry, modules, graph
<1>2. Enabled' = Enabled /\ Dependencies' = Dependencies /\ (Valid' <=> Valid)
  BY <1>1, GraphKept
<1>3. DOMAIN records = {} /\ DOMAIN capabilities = {} /\ started = {} /\ hook = 1 /\ stops = <<>>
  BY <1>1 DEF RuntimeOK, EarlyOK, NothingYet
<1>4. PhaseOK'
  BY <1>1 DEF PhaseOK
<1>5. LoopsOK'
  <2>1. SearchOK(Enabled, Enabled, Dependencies, Fresh(Dependencies))
    BY GraphTyped, SearchBegins
  <2> QED BY <1>1, <1>2, <2>1 DEF LoopsOK
<1>6. ValidOK'
  BY <1>1, <1>2 DEF RuntimeOK, ValidOK
<1>7. EarlyOK'
  BY <1>1, <1>3 DEF EarlyOK
<1>8. ReadyOK'
  BY <1>1 DEF ReadyOK, ReadyMeansComplete
<1>9. StartOK' /\ StopOK' /\ StopTyped'
  BY <1>1, <1>3, EarlyStep
<1> QED BY <1>4, <1>5, <1>6, <1>7, <1>8, <1>9 DEF RuntimeOK

LEMMA ConfigLoadsStep ==
  ASSUME RuntimeOK, ConfigLoads
  PROVE  RuntimeOK'
<1>1. /\ pc = "boot" /\ runtime = "config_loading"
      /\ pc' = "validating" /\ runtime' = "config_loading"
      /\ UNCHANGED <<queue, hook, records, capabilities, started, stops, changes, plugins>>
      /\ search' = Fresh(Dependencies')
  BY DEF ConfigLoads, ApplyOverrides, Switch, modules
<1>2. plugins' = plugins /\ (validated' => validated /\ (Valid' <=> Valid))
  BY Switched DEF ConfigLoads, ApplyOverrides
<1>3. DOMAIN records = {} /\ DOMAIN capabilities = {} /\ started = {} /\ hook = 1 /\ stops = <<>>
  BY <1>1 DEF RuntimeOK, EarlyOK, NothingYet
<1>4. PhaseOK'
  BY <1>1 DEF PhaseOK
<1>5. LoopsOK'
  <2>1. SearchOK(Enabled', Enabled', Dependencies', Fresh(Dependencies'))
    BY GraphTyped, SearchBegins
  <2> QED BY <1>1, <2>1 DEF LoopsOK
<1>6. ValidOK'
  BY <1>1, <1>2, <1>3 DEF RuntimeOK, ValidOK
<1>7. EarlyOK'
  BY <1>1, <1>3 DEF EarlyOK
<1>8. ReadyOK'
  BY <1>1 DEF ReadyOK, ReadyMeansComplete
<1>9. StartOK' /\ StopOK' /\ StopTyped'
  BY <1>1, <1>3, EarlyStep
<1> QED BY <1>4, <1>5, <1>6, <1>7, <1>8, <1>9 DEF RuntimeOK

LEMMA ConfigRaisesStep ==
  ASSUME RuntimeOK, ConfigRaises
  PROVE  RuntimeOK'
<1>1. /\ pc = "boot" /\ runtime = "config_loading"
      /\ pc' = "idle" /\ runtime' = "failed"
      /\ UNCHANGED <<queue, hook, records, capabilities, started, stops, changes>>
  BY DEF ConfigRaises, ApplyOverrides, Fail, modules
<1>2. plugins' = plugins /\ (validated' => validated /\ (Valid' <=> Valid))
  BY Switched DEF ConfigRaises, ApplyOverrides
<1>3. DOMAIN records = {} /\ stops = <<>>
  BY <1>1 DEF RuntimeOK, EarlyOK, NothingYet
<1>4. PhaseOK' /\ LoopsOK' /\ EarlyOK'
  BY <1>1 DEF PhaseOK, LoopsOK, EarlyOK, NothingYet
<1>5. ValidOK'
  BY <1>1, <1>2, <1>3 DEF RuntimeOK, ValidOK
<1>6. ReadyOK'
  BY <1>1 DEF ReadyOK, ReadyMeansComplete
<1>7. StartOK' /\ StopOK' /\ StopTyped'
  BY <1>1, <1>3, EarlyStep
<1> QED BY <1>4, <1>5, <1>6, <1>7 DEF RuntimeOK

LEMMA SearchingStep ==
  ASSUME RuntimeOK, Searching
  PROVE  RuntimeOK'
<1>1. /\ pc = "validating" /\ pc' = pc /\ runtime' = runtime
      /\ UNCHANGED <<queue, hook, records, capabilities, started, stops, changes, validated, plugins>>
      /\ UNCHANGED graph /\ search' \in Continue(search)
  BY DEF Searching, SearchStep, registry, modules, graph
<1>2. Enabled' = Enabled /\ Dependencies' = Dependencies /\ (Valid' <=> Valid)
  BY <1>1, GraphKept
<1>3. PhaseOK'
  BY <1>1 DEF RuntimeOK, PhaseOK
<1>4. LoopsOK'
  <2>1. SearchOK(Enabled, Enabled, Dependencies, search)
    BY <1>1 DEF RuntimeOK, LoopsOK
  <2>2. SearchOK(Enabled, Enabled, Dependencies, search')
    BY <1>1, <2>1, GraphTyped, SearchContinues
  <2> QED BY <1>1, <1>2, <2>2 DEF LoopsOK
<1>5. ValidOK'
  BY <1>1, <1>2 DEF RuntimeOK, ValidOK
<1>6. EarlyOK'
  BY <1>1 DEF RuntimeOK, EarlyOK, NothingYet
<1>7. ReadyOK'
  BY <1>1 DEF RuntimeOK, PhaseOK, ReadyOK, ReadyMeansComplete
<1>8. StartOK' /\ StopOK' /\ StopTyped'
  BY <1>1, QuietStep
<1> QED BY <1>3, <1>4, <1>5, <1>6, <1>7, <1>8 DEF RuntimeOK

LEMMA ValidatedStep ==
  ASSUME RuntimeOK, Validated
  PROVE  RuntimeOK'
<1>1. /\ pc = "validating" /\ runtime \in {"dependency_validation", "config_loading"}
      /\ UNCHANGED <<queue, hook, records, capabilities, started, stops, changes, plugins>>
      /\ UNCHANGED graph /\ validated' = ReportOk /\ SearchIsOver
  BY DEF Validated, EndValidation, modules, graph, RuntimeOK, PhaseOK
<1>2. \/ /\ validated' /\ pc' = "boot"
         /\ runtime' \in {"config_loading", "health_checking"}
      \/ pc' = "idle" /\ runtime' = "failed"
  BY DEF Validated, GoesOn, Fail
<1>3. Valid' <=> Valid
  BY <1>1, GraphKept
<1>4. DOMAIN records = {} /\ DOMAIN capabilities = {} /\ started = {} /\ hook = 1 /\ stops = <<>>
  BY <1>1 DEF RuntimeOK, EarlyOK, NothingYet
<1>5. PhaseOK' /\ LoopsOK'
  BY <1>2 DEF PhaseOK, LoopsOK
<1>6. ValidOK'
  <2>1. validated' => Valid
    <3>1. plugins \subseteq Modules /\ SearchOK(Enabled, Enabled, Dependencies, search)
      BY <1>1 DEF RuntimeOK, ValidOK, LoopsOK
    <3> QED BY <1>1, <3>1, ReportMeansValid
  <2>2. plugins' \subseteq Modules
    BY <1>1 DEF RuntimeOK, ValidOK
  <2> QED BY <1>1, <1>2, <1>3, <1>4, <2>1, <2>2 DEF ValidOK
<1>7. EarlyOK'
  BY <1>1, <1>4 DEF EarlyOK
<1>8. ReadyOK'
  BY <1>2 DEF ReadyOK, ReadyMeansComplete
<1>9. StartOK' /\ StopOK' /\ StopTyped'
  BY <1>1, <1>2, <1>4, EarlyStep
<1> QED BY <1>5, <1>6, <1>7, <1>8, <1>9 DEF RuntimeOK
------------------------------------------------------------------------------
(* The order of the modules.                                               *)

LEMMA BeginStartStep ==
  ASSUME RuntimeOK, BeginStart
  PROVE  RuntimeOK'
<1>1. /\ pc = "boot" /\ runtime = "health_checking"
      /\ pc' = "ordering" /\ runtime' = runtime
      /\ UNCHANGED <<queue, hook, records, capabilities, started, stops, changes, validated, plugins>>
      /\ UNCHANGED graph /\ sort' = Ready(Dependencies)
  BY DEF BeginStart, BeginOrder, registry, modules, graph
<1>2. Enabled' = Enabled /\ Dependencies' = Dependencies /\ (Valid' <=> Valid)
  BY <1>1, GraphKept
<1>3. PhaseOK'
  BY <1>1 DEF PhaseOK
<1>4. LoopsOK'
  <2>1. Enabled \in SUBSET Modules
    BY DEF RuntimeOK, ValidOK, Enabled
  <2>2. OrderOK(Enabled, Dependencies, Ready(Dependencies))
    BY <2>1, GraphTyped, OrderBegins
  <2> QED BY <1>1, <1>2, <2>2 DEF LoopsOK
<1>5. ValidOK'
  BY <1>1, <1>2 DEF RuntimeOK, ValidOK
<1>6. EarlyOK'
  BY <1>1 DEF RuntimeOK, EarlyOK, NothingYet
<1>7. ReadyOK'
  BY <1>1 DEF ReadyOK, ReadyMeansComplete
<1>8. StartOK' /\ StopOK' /\ StopTyped'
  BY <1>1, QuietStep
<1> QED BY <1>3, <1>4, <1>5, <1>6, <1>7, <1>8 DEF RuntimeOK

LEMMA BeginShutdownStep ==
  ASSUME RuntimeOK, BeginShutdown
  PROVE  RuntimeOK'
<1>1. /\ pc = "idle" /\ pc' = "ordering"
      /\ runtime \in {"starting", "ready", "failed", "stopped"}
      /\ \/ runtime = "ready" /\ runtime' = "draining"
         \/ runtime \in {"starting", "failed", "stopped"} /\ runtime' = runtime
      /\ UNCHANGED <<queue, hook, records, capabilities, started, stops, changes, validated, plugins>>
      /\ UNCHANGED graph /\ sort' = Ready(Dependencies)
  BY DEF BeginShutdown, BeginOrder, registry, modules, graph, RuntimeOK, PhaseOK
<1>2. Enabled' = Enabled /\ Dependencies' = Dependencies /\ (Valid' <=> Valid)
  BY <1>1, GraphKept
<1>3. PhaseOK'
  BY <1>1 DEF PhaseOK
<1>4. LoopsOK'
  <2>1. Enabled \in SUBSET Modules
    BY DEF RuntimeOK, ValidOK, Enabled
  <2>2. OrderOK(Enabled, Dependencies, Ready(Dependencies))
    BY <2>1, GraphTyped, OrderBegins
  <2> QED BY <1>1, <1>2, <2>2 DEF LoopsOK
<1>5. ValidOK'
  BY <1>1, <1>2 DEF RuntimeOK, ValidOK
<1>6. EarlyOK'
  BY <1>1 DEF RuntimeOK, EarlyOK, NothingYet
<1>7. ReadyOK'
  BY <1>1 DEF ReadyOK, ReadyMeansComplete
<1>8. StartOK' /\ StopOK' /\ StopTyped'
  BY <1>1, QuietStep
<1> QED BY <1>3, <1>4, <1>5, <1>6, <1>7, <1>8 DEF RuntimeOK

LEMMA OrderingStep ==
  ASSUME RuntimeOK, Ordering
  PROVE  RuntimeOK'
<1>1. /\ pc = "ordering" /\ pc' = pc /\ runtime' = runtime
      /\ UNCHANGED <<queue, hook, records, capabilities, started, stops, changes, validated, plugins>>
      /\ UNCHANGED graph /\ sort.ready # <<>> /\ sort' = PopReady(Dependencies, sort)
  BY DEF Ordering, OrderStep, registry, modules, graph
<1>2. Enabled' = Enabled /\ Dependencies' = Dependencies /\ (Valid' <=> Valid)
  BY <1>1, GraphKept
<1>3. PhaseOK'
  BY <1>1 DEF RuntimeOK, PhaseOK
<1>4. LoopsOK'
  <2>1. Enabled \in SUBSET Modules
    BY DEF RuntimeOK, ValidOK, Enabled
  <2>2. OrderOK(Enabled, Dependencies, sort)
    BY <1>1 DEF RuntimeOK, LoopsOK
  <2>3. OrderOK(Enabled, Dependencies, sort')
    BY <1>1, <2>1, <2>2, GraphTyped, OrderGoesOn
  <2> QED BY <1>1, <1>2, <2>3 DEF LoopsOK
<1>5. ValidOK'
  BY <1>1, <1>2 DEF RuntimeOK, ValidOK
<1>6. EarlyOK'
  BY <1>1 DEF RuntimeOK, EarlyOK, NothingYet
<1>7. ReadyOK'
  BY <1>1 DEF RuntimeOK, PhaseOK, ReadyOK, ReadyMeansComplete
<1>8. StartOK' /\ StopOK' /\ StopTyped'
  BY <1>1, QuietStep
<1> QED BY <1>3, <1>4, <1>5, <1>6, <1>7, <1>8 DEF RuntimeOK

\* The order reversed: what depends on a module comes before it.
LEMMA ReversedOrder ==
  ASSUME NEW D, NEW deps \in [D -> SUBSET D], NEW s, OrderOK(D, deps, s), NEW q, q = Reverse(s.order)
  PROVE  /\ q \in Seq(D) /\ ToSet(q) = ToSet(s.order)
         /\ \A i \in 1..Len(q) : \A m \in ToSet(q) :
              q[i] \in deps[m] => m \in {q[j] : j \in 1..(i - 1)}
<1> DEFINE n == Len(s.order)
<1>1. /\ s.order \in Seq(D) /\ n \in Nat /\ DOMAIN s.order = 1..n
      /\ \A i, j \in 1..n : s.order[i] = s.order[j] => i = j
      /\ \A i \in 1..n : deps[s.order[i]] \subseteq {s.order[j] : j \in 1..(i - 1)}
  BY DEF OrderOK, OrderTyped
<1>2. q = [i \in 1..n |-> s.order[(n - i) + 1]]
  BY DEF Reverse
<1> HIDE DEF n
<1>3. \A i \in 1..n : (n - i) + 1 \in 1..n /\ (n - ((n - i) + 1)) + 1 = i
  BY <1>1
<1>4. q \in Seq(D) /\ Len(q) = n /\ DOMAIN q = 1..n /\ \A i \in 1..n : q[i] = s.order[(n - i) + 1]
  BY <1>1, <1>2, <1>3
<1>5. \A k \in 1..n : s.order[k] = q[(n - k) + 1]
  BY <1>3, <1>4
<1>6. ToSet(q) = ToSet(s.order)
  <2>1. ASSUME NEW x \in ToSet(q) PROVE x \in ToSet(s.order)
    <3>1. PICK i \in 1..n : x = q[i]
      BY <1>4 DEF ToSet
    <3>2. (n - i) + 1 \in DOMAIN s.order /\ x = s.order[(n - i) + 1]
      BY <1>1, <1>3, <1>4, <3>1
    <3> QED BY <3>2 DEF ToSet
  <2>2. ASSUME NEW k \in 1..n PROVE s.order[k] \in ToSet(q)
    <3>1. (n - k) + 1 \in DOMAIN q /\ s.order[k] = q[(n - k) + 1]
      BY <1>3, <1>4, <1>5
    <3> QED BY <3>1 DEF ToSet
  <2>3. \A x \in ToSet(s.order) : x \in ToSet(q)
    BY <1>1, <2>2 DEF ToSet
  <2> QED BY <2>1, <2>3
<1>7. ASSUME NEW i \in 1..n, NEW m \in ToSet(q), q[i] \in deps[m]
      PROVE  m \in {q[j] : j \in 1..(i - 1)}
  <2>1. PICK k \in 1..n : m = s.order[k]
    BY <1>1, <1>6, <1>7 DEF ToSet
  <2>2. PICK j \in 1..(k - 1) : q[i] = s.order[j]
    BY <1>1, <1>7, <2>1
  <2>3. j \in 1..n /\ (n - i) + 1 \in 1..n /\ s.order[(n - i) + 1] = s.order[j]
    BY <1>1, <1>3, <1>4, <2>2
  <2>4. (n - i) + 1 = j
    BY <1>1, <2>3
  <2>5. (n - k) + 1 \in 1..(i - 1)
    BY <1>1, <2>2, <2>4
  <2> QED BY <1>5, <2>1, <2>5
<1> QED BY <1>4, <1>6, <1>7

LEMMA OrderedStep ==
  ASSUME RuntimeOK, Ordered
  PROVE  RuntimeOK'
<1> DEFINE D == Enabled
           deps == Dependencies
<1>1. /\ pc = "ordering" /\ runtime' = runtime
      /\ UNCHANGED <<hook, records, capabilities, started, stops, changes, validated, plugins>>
      /\ UNCHANGED graph /\ sort.ready = <<>>
  BY DEF Ordered, EndOrder, registry, graph
<1>2. \/ runtime = "health_checking" /\ queue' = sort.order /\ pc' = "starting"
      \/ runtime # "health_checking" /\ queue' = Reverse(sort.order) /\ pc' = "stopping"
  BY DEF Ordered, StopOrder
<1>3. Enabled' = D /\ Dependencies' = deps /\ (Valid' <=> Valid)
  BY <1>1, GraphKept
<1>4. PhaseOK'
  BY <1>1, <1>2 DEF RuntimeOK, PhaseOK
<1>5. LoopsOK'
  BY <1>2 DEF LoopsOK
<1>6. ValidOK'
  BY <1>1, <1>3 DEF RuntimeOK, ValidOK
<1>7. EarlyOK'
  BY <1>1, <1>2 DEF RuntimeOK, EarlyOK, NothingYet
<1>8. ReadyOK'
  BY <1>1, <1>2 DEF RuntimeOK, PhaseOK, ReadyOK, ReadyMeansComplete
<1>9. deps \in [D -> SUBSET D] /\ OrderOK(D, deps, sort)
  BY <1>1, GraphTyped DEF RuntimeOK, LoopsOK
<1>10. validated => ToSet(sort.order) = D
  <2>1. validated => ~Cyclic(deps)
    BY DEF RuntimeOK, ValidOK, Valid
  <2> HIDE DEF D, deps
  <2> QED BY <1>1, <1>9, <2>1, OrderEnds
<1>11. StopTyped'
  <2>1. runtime # "health_checking" => queue' \in Seq(D)
    <3> HIDE DEF D, deps
    <3> QED BY <1>2, <1>9, ReversedOrder
  <2> QED BY <1>1, <1>2, <1>3, <2>1 DEF RuntimeOK, StopTyped
<1>12. CASE runtime = "health_checking"
  <2>1. queue' = sort.order /\ pc' = "starting" /\ ToSet(sort.order) = D
    BY <1>2, <1>10, <1>12 DEF RuntimeOK, ValidOK
  <2>2. DOMAIN records = {} /\ DOMAIN capabilities = {} /\ started = {} /\ hook = 1
    BY <1>1, <1>12 DEF RuntimeOK, EarlyOK
  <2>3. QueueOK'
    <3>1. /\ sort.order \in Seq(D)
          /\ \A i, j \in 1..Len(sort.order) : sort.order[i] = sort.order[j] => i = j
          /\ \A i \in 1..Len(sort.order) : deps[sort.order[i]] \subseteq {sort.order[j] : j \in 1..(i - 1)}
      BY <1>9 DEF OrderOK, OrderTyped
    <3>2. DOMAIN records' = {}
      BY <1>1, <2>2
    <3> HIDE DEF D, deps
    <3>3. QueueIn(D, deps, DOMAIN records', sort.order)
      BY <2>1, <3>1, <3>2 DEF QueueIn
    <3> QED BY <1>3, <2>1, <3>3 DEF QueueOK, D, deps
  <2>4. StartedOK'
    BY <1>1, <2>2 DEF StartedOK
  <2>5. StartOK'
    BY <2>3, <2>4 DEF StartOK
  <2>6. StopOK'
    <3>1. pc' # "stopping" /\ DOMAIN records' = {}
      BY <1>1, <2>1, <2>2
    <3> QED BY <3>1 DEF StopOK, DependentsFirst
  <2> QED BY <1>4, <1>5, <1>6, <1>7, <1>8, <1>11, <2>5, <2>6 DEF RuntimeOK
<1>13. CASE runtime # "health_checking"
  <2>1. queue' = Reverse(sort.order) /\ pc' = "stopping"
    BY <1>2, <1>13
  <2>2. StartOK'
    BY <2>1 DEF StartOK
  <2>3. ASSUME changes' = 0 PROVE DOMAIN records' \subseteq Enabled' /\ DependentsFirst'
    BY <1>1, <1>3, <2>3 DEF RuntimeOK, StopOK, DependentsFirst, Deps
  <2>4. ASSUME changes' = 0 PROVE LeftToStop'
    <3>1. DOMAIN records \subseteq D
      BY <1>1, <2>4 DEF RuntimeOK, StopOK
    <3>2. DOMAIN records \subseteq ToSet(sort.order)
      <4>1. CASE DOMAIN records = {}
        BY <4>1
      <4>2. CASE DOMAIN records # {}
        BY <1>1, <1>10, <2>4, <3>1, <4>2 DEF RuntimeOK, ValidOK
      <4> QED BY <4>1, <4>2
    <3> HIDE DEF D, deps
    <3>3. /\ ToSet(queue') = ToSet(sort.order)
          /\ \A i \in 1..Len(queue') : \A m \in ToSet(queue') :
               queue'[i] \in deps[m] => m \in {queue'[j] : j \in 1..(i - 1)}
      <4>1. PICK q : q = Reverse(sort.order)
        OBVIOUS
      <4>2. /\ ToSet(q) = ToSet(sort.order)
            /\ \A i \in 1..Len(q) : \A m \in ToSet(q) :
                 q[i] \in deps[m] => m \in {q[j] : j \in 1..(i - 1)}
        BY <1>9, <4>1, ReversedOrder
      <4>3. queue' = q
        BY <2>1, <4>1
      <4> QED BY <4>2, <4>3
    <3>4. DOMAIN records' = DOMAIN records
      BY <1>1
    <3>5. DOMAIN records' \subseteq Stopped' \cup ToSet(queue')
      BY <3>2, <3>3, <3>4
    <3>6. \A i \in 1..Len(queue') : \A m \in DOMAIN records' :
            queue'[i] \in Dependencies'[m] => m \in Stopped' \cup {queue'[j] : j \in 1..(i - 1)}
      BY <1>3, <3>2, <3>3, <3>4
    <3> QED BY <3>5, <3>6 DEF LeftToStop, Deps
  <2>5. StopOK'
    BY <2>3, <2>4 DEF StopOK
  <2> QED BY <1>4, <1>5, <1>6, <1>7, <1>8, <1>11, <2>2, <2>5 DEF RuntimeOK
<1> QED BY <1>12, <1>13
------------------------------------------------------------------------------
(* The start of the modules.                                               *)

\* Whatever a hook registers is registered for the module it is called on.
LEMMA HookRegisters ==
  ASSUME Current \in Enabled, hook \in 1..4, Registrations,
         \A cap \in DOMAIN capabilities : capabilities[cap].by \in Providers(cap)
  PROVE  /\ DOMAIN capabilities \subseteq DOMAIN capabilities'
         /\ \A cap \in DOMAIN capabilities' : capabilities'[cap].by \in Providers(cap)
         /\ hook = 4 => manifests[Current].provides \subseteq DOMAIN capabilities'
<1>1. \A cap \in manifests[Current].provides : Current \in Providers(cap)
  BY DEF Providers
<1>2. ASSUME NEW S \in SUBSET manifests[Current].provides, NEW specific, Provide(S, specific)
      PROVE  /\ DOMAIN capabilities' = S \cup DOMAIN capabilities
             /\ \A cap \in DOMAIN capabilities' : capabilities'[cap].by \in Providers(cap)
  <2>1. DOMAIN capabilities' = S \cup DOMAIN capabilities
    BY <1>2 DEF Provide
  <2>2. ASSUME NEW cap \in DOMAIN capabilities' PROVE capabilities'[cap].by \in Providers(cap)
    <3>1. CASE cap \in S
      <4>1. capabilities'[cap].by = Current
        BY <1>2, <2>1, <3>1 DEF Provide
      <4> QED BY <1>1, <3>1, <4>1
    <3>2. CASE cap \notin S
      <4>1. cap \in DOMAIN capabilities /\ capabilities'[cap] = capabilities[cap]
        BY <1>2, <2>1, <3>2 DEF Provide
      <4> QED BY <4>1
    <3> QED BY <3>1, <3>2
  <2> QED BY <2>1, <2>2
<1>3. CASE hook = 3
  <2>1. PICK S \in SUBSET manifests[Current].provides : Provide(S, TRUE)
    <3>1. Hooks[hook] = "init"
      BY <1>3 DEF Hooks
    <3> QED BY <3>1 DEF Registrations, Provide
  <2>2. hook # 4
    BY <1>3
  <2> QED BY <1>2, <2>1, <2>2, Zenon
<1>4. CASE hook = 4
  <2>1. Provide(FallbackFor, FALSE)
    BY <1>4 DEF Registrations, Hooks
  <2>2. FallbackFor \in SUBSET manifests[Current].provides
    BY DEF FallbackFor
  <2>3. DOMAIN capabilities' = FallbackFor \cup DOMAIN capabilities
    BY <1>2, <2>1, <2>2
  <2>4. manifests[Current].provides \subseteq DOMAIN capabilities'
    BY <2>3 DEF FallbackFor
  <2> QED BY <1>2, <2>1, <2>2, <2>3, <2>4
<1>5. CASE hook \in {1, 2}
  <2>1. Hooks[1] = "instantiate" /\ Hooks[2] = "validate"
    BY DEF Hooks
  <2>2. capabilities' = capabilities
    BY <1>5, <2>1 DEF Registrations
  <2> QED BY <1>5, <2>2
<1> QED BY <1>3, <1>4, <1>5

LEMMA AtTheCurrent ==
  ASSUME RuntimeOK, pc = "starting", queue # <<>>
  PROVE  /\ QueueOK /\ StartedOK /\ runtime = "health_checking" /\ stops = <<>> /\ validated /\ Valid
         /\ Current = queue[1] /\ Current \in Enabled /\ Current \notin DOMAIN records
         /\ Deps(Current) \subseteq DOMAIN records
<1>1. QueueOK /\ StartedOK /\ runtime = "health_checking"
  BY DEF RuntimeOK, StartOK, PhaseOK
<1>2. stops = <<>> /\ validated /\ Valid
  BY <1>1 DEF RuntimeOK, EarlyOK, ValidOK
<1>3. queue \in Seq(Enabled) /\ 1 \in 1..Len(queue) /\ 1 \in DOMAIN queue /\ Current = queue[1]
  BY <1>1 DEF QueueOK, QueueIn, Current
<1>4. Current \in Enabled /\ Current \in ToSet(queue)
  BY <1>3 DEF ToSet
<1>5. Current \notin DOMAIN records
  BY <1>1, <1>4 DEF QueueOK, QueueIn
<1>6. Deps(Current) \subseteq DOMAIN records
  BY <1>1, <1>3 DEF QueueOK, QueueIn, Deps
<1> QED BY <1>1, <1>2, <1>3, <1>4, <1>5, <1>6

LEMMA HookReturnsStep ==
  ASSUME RuntimeOK, HookReturns
  PROVE  RuntimeOK'
<1>1. /\ pc = "starting" /\ queue # <<>> /\ pc' = pc /\ runtime' = runtime
      /\ UNCHANGED <<queue, records, stops, changes, validated, plugins, manifests>>
      /\ UNCHANGED graph /\ hook' = hook + 1 /\ hook < 5 /\ Registrations
      /\ started' = IF Hooks[hook] = "start" THEN started \cup {Current} ELSE started
  BY DEF HookReturns, registry, graph, Hooks
<1>2. /\ QueueOK /\ StartedOK /\ runtime = "health_checking" /\ stops = <<>> /\ validated
      /\ Current \in Enabled
  BY <1>1, AtTheCurrent
<1>3. /\ Enabled' = Enabled /\ Dependencies' = Dependencies /\ (Valid' <=> Valid)
      /\ \A cap : Providers(cap)' = Providers(cap)
  BY <1>1, GraphKept
<1>4. hook \in 1..4 /\ hook' \in 1..5 /\ hook' # 1 /\ (hook' = 5 <=> hook = 4)
  BY <1>1, <1>2 DEF StartedOK
<1>5. PhaseOK' /\ LoopsOK' /\ EarlyOK'
  BY <1>1, <1>2 DEF RuntimeOK, PhaseOK, LoopsOK, EarlyOK, NothingYet
<1>6. ValidOK'
  BY <1>1, <1>3 DEF RuntimeOK, ValidOK
<1>7. ReadyOK'
  BY <1>1, <1>2 DEF ReadyOK, ReadyMeansComplete
<1>8. StopOK' /\ StopTyped'
  <2>1. StopOK'
    BY <1>1, <1>3 DEF RuntimeOK, StopOK, DependentsFirst, Deps
  <2> QED BY <1>1, <2>1 DEF RuntimeOK, StopTyped
<1>9. QueueOK'
  BY <1>1, <1>2, <1>3 DEF QueueOK
<1>10. StartedOK'
  <2>1. /\ DOMAIN capabilities \subseteq DOMAIN capabilities'
        /\ \A cap \in DOMAIN capabilities' : capabilities'[cap].by \in Providers(cap)
        /\ hook = 4 => manifests[Current].provides \subseteq DOMAIN capabilities'
    BY <1>1, <1>2, <1>4, HookRegisters DEF StartedOK
  <2>2. Current' = Current
    BY <1>1 DEF Current
  <2>3. \A m \in DOMAIN records' : records'[m].state = "running" /\ manifests'[m].provides \subseteq DOMAIN capabilities'
    BY <1>1, <1>2, <2>1 DEF StartedOK, RegisteredFor
  <2>4. \A cap \in DOMAIN capabilities' : capabilities'[cap].by \in Providers(cap)'
    BY <1>3, <2>1
  <2>5. started = DOMAIN records
    BY <1>2, <1>4 DEF StartedOK
  <2>6. CASE hook = 4
    <3>1. started' = DOMAIN records' \cup {Current'}
      BY <1>1, <2>2, <2>5, <2>6 DEF Hooks
    <3>2. manifests'[Current'].provides \subseteq DOMAIN capabilities'
      BY <1>1, <2>1, <2>2, <2>6
    <3>3. hook' = 5 /\ queue' # <<>>
      BY <1>1, <2>6
    <3> QED BY <1>4, <2>3, <2>4, <3>1, <3>2, <3>3 DEF StartedOK, RegisteredFor
  <2>7. CASE hook # 4
    <3>1. started' = DOMAIN records' /\ hook' # 5
      BY <1>1, <1>4, <2>5, <2>7 DEF Hooks
    <3> QED BY <1>4, <2>3, <2>4, <3>1 DEF StartedOK, RegisteredFor
  <2> QED BY <2>6, <2>7
<1> QED BY <1>5, <1>6, <1>7, <1>8, <1>9, <1>10 DEF RuntimeOK, StartOK

\* The rest of a queue.
RestOf(q, t) ==
  /\ ToSet(q) = {q[1]} \cup ToSet(t)
  /\ \A i \in 1..Len(t) : i + 1 \in 1..Len(q) /\ t[i] = q[i + 1]
  /\ \A i \in 1..Len(t) : \A j \in 1..((i + 1) - 1) :
       q[j] = q[1] \/ \E k \in 1..(i - 1) : q[j] = t[k]

LEMMA QueueShrinks ==
  ASSUME NEW D, NEW q \in Seq(D), q # <<>>
  PROVE  Tail(q) \in Seq(D) /\ q[1] = Head(q) /\ RestOf(q, Tail(q))
<1> DEFINE n == Len(q)
           t == Tail(q)
<1>1. /\ n \in Nat /\ n >= 1 /\ t \in Seq(D) /\ Len(t) = n - 1 /\ Head(q) = q[1]
      /\ \A i \in 1..(n - 1) : t[i] = q[i + 1]
      /\ DOMAIN q = 1..n /\ DOMAIN t = 1..(n - 1)
  OBVIOUS
<1>2. \A i \in 1..(n - 1) : i + 1 \in 1..n
  BY <1>1
<1>3. \A i \in 1..n : i # 1 => i - 1 \in 1..(n - 1) /\ (i - 1) + 1 = i
  BY <1>1
<1> HIDE DEF n, t
<1>4. ASSUME NEW i \in 1..n PROVE q[i] \in {q[1]} \cup ToSet(t)
  <2>1. CASE i = 1
    BY <2>1
  <2>2. CASE i # 1
    <3>1. i - 1 \in DOMAIN t /\ q[i] = t[i - 1]
      BY <1>1, <1>3, <2>2
    <3> QED BY <3>1 DEF ToSet
  <2> QED BY <2>1, <2>2
<1>5. ASSUME NEW i \in 1..(n - 1) PROVE t[i] \in ToSet(q)
  <2>1. i + 1 \in DOMAIN q /\ t[i] = q[i + 1]
    BY <1>1, <1>2
  <2> QED BY <2>1 DEF ToSet
<1>6. ToSet(q) = {q[1]} \cup ToSet(t)
  <2>1. q[1] \in ToSet(q)
    BY <1>1 DEF ToSet
  <2>2. \A x \in ToSet(q) : x \in {q[1]} \cup ToSet(t)
    BY <1>1, <1>4 DEF ToSet
  <2>3. \A x \in ToSet(t) : x \in ToSet(q)
    BY <1>1, <1>5 DEF ToSet
  <2> QED BY <2>1, <2>2, <2>3
<1>7. ASSUME NEW i \in 1..(n - 1), NEW j \in 1..((i + 1) - 1)
      PROVE  q[j] = q[1] \/ \E k \in 1..(i - 1) : q[j] = t[k]
  <2>1. CASE j = 1
    BY <2>1
  <2>2. CASE j # 1
    <3>1. j \in 1..n
      BY <1>1
    <3>2. j - 1 \in 1..(i - 1) /\ q[j] = t[j - 1]
      BY <1>1, <1>3, <2>2, <3>1
    <3> QED BY <3>2
  <2> QED BY <2>1, <2>2
<1>8. RestOf(q, t)
  BY <1>1, <1>2, <1>6, <1>7 DEF n, RestOf
<1> QED BY <1>1, <1>8 DEF t

\* The first of the queue has been started, and the rest is still to go.
LEMMA QueueGoesOn ==
  ASSUME NEW D, NEW deps \in [D -> SUBSET D], NEW R, NEW q, QueueIn(D, deps, R, q), q # <<>>
  PROVE  QueueIn(D, deps, {Head(q)} \cup R, Tail(q))
<1> DEFINE n == Len(q)
           t == Tail(q)
           S == {Head(q)} \cup R
<1>1. /\ q \in Seq(D) /\ n \in Nat /\ n >= 1 /\ \A i, j \in 1..n : q[i] = q[j] => i = j
      /\ R \cup ToSet(q) = D /\ R \cap ToSet(q) = {}
      /\ \A i \in 1..n : deps[q[i]] \subseteq R \cup {q[j] : j \in 1..(i - 1)}
  BY DEF QueueIn
<1>2. /\ t \in Seq(D) /\ q[1] = Head(q) /\ Len(t) = n - 1 /\ DOMAIN t = 1..(n - 1)
      /\ ToSet(q) = {q[1]} \cup ToSet(t)
      /\ \A i \in 1..(n - 1) : i + 1 \in 1..n /\ t[i] = q[i + 1]
      /\ \A i \in 1..(n - 1) : \A j \in 1..((i + 1) - 1) :
           q[j] = q[1] \/ \E k \in 1..(i - 1) : q[j] = t[k]
  <2>1. Len(t) = n - 1 /\ DOMAIN t = 1..(n - 1)
    BY <1>1
  <2>2. t \in Seq(D) /\ q[1] = Head(q) /\ RestOf(q, t)
    BY <1>1, QueueShrinks
  <2> QED BY <2>1, <2>2 DEF RestOf
<1> HIDE DEF n, t
<1>3. ASSUME NEW i \in 1..(n - 1), NEW j \in 1..(n - 1), t[i] = t[j] PROVE i = j
  <2>1. i + 1 = j + 1
    BY <1>1, <1>2, <1>3
  <2> QED BY <2>1
<1>4. S \cup ToSet(t) = D /\ S \cap ToSet(t) = {}
  <2>1. \A i \in 1..(n - 1) : t[i] # q[1]
    <3>1. \A i \in 1..(n - 1) : i + 1 # 1 /\ 1 \in 1..n
      BY <1>1
    <3> QED BY <1>1, <1>2, <3>1
  <2>2. q[1] \notin ToSet(t)
    BY <1>2, <2>1 DEF ToSet
  <2> QED BY <1>1, <1>2, <2>2
<1>5. ASSUME NEW i \in 1..(n - 1), NEW d \in deps[t[i]]
      PROVE  d \in S \cup {t[j] : j \in 1..(i - 1)}
  <2>1. i + 1 \in 1..n /\ d \in deps[q[i + 1]]
    BY <1>2, <1>5
  <2>2. CASE d \in R
    BY <2>2
  <2>3. CASE d \notin R
    <3>1. PICK j \in 1..((i + 1) - 1) : d = q[j]
      BY <1>1, <2>1, <2>3
    <3> QED BY <1>2, <3>1
  <2> QED BY <2>2, <2>3
<1>6. QueueIn(D, deps, S, t)
  BY <1>2, <1>3, <1>4, <1>5 DEF QueueIn
<1> QED BY <1>6 DEF t

LEMMA ModuleRunsStep ==
  ASSUME RuntimeOK, ModuleRuns
  PROVE  RuntimeOK'
<1>1. /\ pc = "starting" /\ queue # <<>> /\ pc' = pc /\ runtime' = runtime
      /\ UNCHANGED <<capabilities, started, stops, changes, validated, plugins, manifests>>
      /\ UNCHANGED graph /\ hook = 5 /\ hook' = 1 /\ queue' = Tail(queue)
  BY DEF ModuleRuns, registry, graph, Hooks
<1>2. DOMAIN records' = {Current} \cup DOMAIN records
  BY DEF ModuleRuns
<1>3. \A m \in DOMAIN records' :
        \/ m = Current /\ records'[m].state = "running"
        \/ m \in DOMAIN records /\ records'[m] = records[m]
  <2>1. PICK healthy \in BOOLEAN :
          records' = [m \in {Current} \cup DOMAIN records |->
                        IF m = Current THEN [state |-> "running", healthy |-> healthy] ELSE records[m]]
    BY DEF ModuleRuns
  <2> QED BY <2>1
<1>4. /\ QueueOK /\ StartedOK /\ runtime = "health_checking" /\ stops = <<>> /\ validated
      /\ Current \in Enabled
  BY <1>1, AtTheCurrent
<1>5. /\ Enabled' = Enabled /\ Dependencies' = Dependencies /\ (Valid' <=> Valid)
      /\ \A cap : Providers(cap)' = Providers(cap)
  BY <1>1, GraphKept
<1>6. PhaseOK' /\ LoopsOK' /\ EarlyOK'
  BY <1>1, <1>4 DEF RuntimeOK, PhaseOK, LoopsOK, EarlyOK, NothingYet
<1>7. ValidOK'
  BY <1>1, <1>4, <1>5 DEF RuntimeOK, ValidOK
<1>8. ReadyOK'
  BY <1>1, <1>4 DEF ReadyOK, ReadyMeansComplete
<1>9. StopOK' /\ StopTyped'
  <2>1. changes' = 0 => DOMAIN records' \subseteq Enabled'
    BY <1>1, <1>2, <1>4, <1>5 DEF RuntimeOK, StopOK
  <2>2. DependentsFirst'
    <3>1. Len(stops') = 0
      BY <1>1, <1>4
    <3> QED BY <3>1 DEF DependentsFirst
  <2>3. StopTyped'
    BY <1>1 DEF RuntimeOK, StopTyped
  <2> QED BY <1>1, <2>1, <2>2, <2>3 DEF StopOK
<1>10. QueueOK'
  <2>1. QueueIn(Enabled, Dependencies, {Head(queue)} \cup DOMAIN records, Tail(queue))
    BY <1>1, <1>4, GraphTyped, QueueGoesOn DEF QueueOK
  <2> QED BY <1>1, <1>2, <1>5, <2>1 DEF QueueOK, Current
<1>11. StartedOK'
  <2>1. \A m \in DOMAIN records' : records'[m].state = "running" /\ manifests'[m].provides \subseteq DOMAIN capabilities'
    BY <1>1, <1>3, <1>4 DEF StartedOK, RegisteredFor
  <2>2. \A cap \in DOMAIN capabilities' : capabilities'[cap].by \in Providers(cap)'
    BY <1>1, <1>4, <1>5 DEF StartedOK
  <2>3. started' = DOMAIN records'
    BY <1>1, <1>2, <1>4 DEF StartedOK
  <2> QED BY <1>1, <2>1, <2>2, <2>3 DEF StartedOK, RegisteredFor
<1> QED BY <1>6, <1>7, <1>8, <1>9, <1>10, <1>11 DEF RuntimeOK, StartOK

LEMMA HookRaisesStep ==
  ASSUME RuntimeOK, HookRaises
  PROVE  RuntimeOK'
<1>1. /\ pc = "starting" /\ pc' = "idle" /\ runtime' = "failed"
      /\ UNCHANGED <<records, stops, changes, validated, plugins>> /\ UNCHANGED graph
  BY DEF HookRaises, Fail, registry, graph
<1>2. Valid' <=> Valid
  BY <1>1, GraphKept
<1>3. PhaseOK' /\ LoopsOK' /\ EarlyOK'
  BY <1>1 DEF PhaseOK, LoopsOK, EarlyOK, NothingYet
<1>4. ValidOK'
  BY <1>1, <1>2 DEF RuntimeOK, ValidOK
<1>5. ReadyOK'
  BY <1>1 DEF ReadyOK, ReadyMeansComplete
<1>6. StartOK' /\ StopOK' /\ StopTyped'
  BY <1>1, QuietStep
<1> QED BY <1>3, <1>4, <1>5, <1>6 DEF RuntimeOK

LEMMA BecomeReadyStep ==
  ASSUME RuntimeOK, BecomeReady
  PROVE  RuntimeOK'
<1>1. /\ pc = "starting" /\ queue = <<>> /\ pc' = "idle" /\ runtime' = "ready"
      /\ UNCHANGED <<records, capabilities, started, stops, changes, validated, plugins, manifests>>
      /\ UNCHANGED graph
  BY DEF BecomeReady, registry, modules, graph
<1>2. Enabled' = Enabled /\ (Valid' <=> Valid)
  BY <1>1, GraphKept
<1>3. PhaseOK' /\ LoopsOK' /\ EarlyOK'
  BY <1>1 DEF PhaseOK, LoopsOK, EarlyOK, NothingYet
<1>4. ValidOK'
  BY <1>1, <1>2 DEF RuntimeOK, ValidOK
<1>5. StartOK' /\ StopOK' /\ StopTyped'
  BY <1>1, QuietStep
<1>6. QueueOK /\ StartedOK /\ Valid
  BY <1>1 DEF RuntimeOK, StartOK, PhaseOK, ValidOK
<1>7. DOMAIN records = Enabled /\ started = Enabled
  <2>1. ToSet(queue) = {}
    BY <1>1 DEF ToSet
  <2> QED BY <1>1, <1>6, <2>1 DEF QueueOK, QueueIn, StartedOK
<1>8. ASSUME NEW m \in Enabled, NEW cap \in manifests[m].provides
      PROVE  cap \in DOMAIN capabilities /\ capabilities[cap].by = m
  <2>1. cap \in DOMAIN capabilities
    BY <1>6, <1>7 DEF StartedOK, RegisteredFor
  <2>2. capabilities[cap].by \in Providers(cap) /\ Providers(cap) = {m}
    BY <1>6, <2>1 DEF StartedOK, Valid
  <2> QED BY <2>1, <2>2
<1>9. \A m \in Enabled : records[m].state = "running"
  BY <1>6, <1>7 DEF StartedOK
<1>10. ReadyOK'
  BY <1>1, <1>2, <1>7, <1>8, <1>9 DEF ReadyOK, ReadyMeansComplete
<1> QED BY <1>3, <1>4, <1>5, <1>10 DEF RuntimeOK

LEMMA BootAgainStep ==
  ASSUME RuntimeOK, BootAgain
  PROVE  RuntimeOK'
<1>1. /\ pc = "idle" /\ pc' = "idle" /\ runtime' = "failed"
      /\ UNCHANGED <<records, stops, changes, validated, plugins>> /\ UNCHANGED graph
  BY DEF BootAgain, Fail, registry, modules, graph
<1>2. Valid' <=> Valid
  BY <1>1, GraphKept
<1>3. PhaseOK' /\ LoopsOK' /\ EarlyOK'
  BY <1>1 DEF PhaseOK, LoopsOK, EarlyOK, NothingYet
<1>4. ValidOK'
  BY <1>1, <1>2 DEF RuntimeOK, ValidOK
<1>5. ReadyOK'
  BY <1>1 DEF ReadyOK, ReadyMeansComplete
<1>6. StartOK' /\ StopOK' /\ StopTyped'
  BY <1>1, QuietStep
<1> QED BY <1>3, <1>4, <1>5, <1>6 DEF RuntimeOK

LEMMA SetEnabledStep ==
  ASSUME RuntimeOK, NEW m \in Modules, NEW enabled \in BOOLEAN, SetEnabled(m, enabled)
  PROVE  RuntimeOK'
<1>1. /\ pc = "idle" /\ pc' = pc /\ runtime' = runtime
      /\ UNCHANGED <<queue, hook, records, capabilities, started, stops>>
      /\ changes' = changes + 1
      /\ Switch([n \in {m} |-> enabled])
  BY DEF SetEnabled, modules
<1>2. plugins' = plugins /\ validated' = FALSE
  <2>1. DOMAIN [n \in {m} |-> enabled] # {}
    OBVIOUS
  <2> QED BY <1>1, <2>1 DEF Switch, StillValid
<1>3. changes' \in Nat /\ changes' # 0
  BY <1>1 DEF RuntimeOK, StopTyped
<1>4. runtime # "health_checking"
  BY <1>1 DEF RuntimeOK, PhaseOK
<1>5. PhaseOK' /\ LoopsOK'
  BY <1>1 DEF RuntimeOK, PhaseOK, LoopsOK
<1>6. EarlyOK'
  BY <1>1 DEF RuntimeOK, EarlyOK, NothingYet
<1>7. ValidOK'
  BY <1>1, <1>2, <1>3, <1>4 DEF RuntimeOK, ValidOK
<1>8. ReadyOK'
  BY <1>1, <1>3 DEF RuntimeOK, ReadyOK, ReadyMeansComplete
<1>9. StartOK' /\ StopOK' /\ StopTyped'
  BY <1>1, <1>3 DEF RuntimeOK, StartOK, StopOK, StopTyped
<1> QED BY <1>5, <1>6, <1>7, <1>8, <1>9 DEF RuntimeOK
------------------------------------------------------------------------------
(* The stop of the modules.                                                *)

\* The first of the queue is stopped or has no record; the rest is still to go.
LEMMA StillLeftToStop ==
  ASSUME RuntimeOK, pc = "stopping", changes = 0, queue # <<>>, queue' = Tail(queue),
         DOMAIN records' = DOMAIN records, Enabled' = Enabled, Dependencies' = Dependencies,
         Stopped' = Stopped \cup {Current} \/ (Stopped' = Stopped /\ Current \notin DOMAIN records)
  PROVE  LeftToStop'
<1>1. PICK q, t : q = queue /\ t = Tail(q)
  OBVIOUS
<1>2. q \in Seq(Enabled) /\ q # <<>> /\ Current = Head(q) /\ queue' = t
  BY <1>1 DEF RuntimeOK, StopTyped, Current
<1>3. q[1] = Head(q) /\ RestOf(q, t)
  BY <1>1, <1>2, QueueShrinks
<1>4. /\ DOMAIN records \subseteq Stopped \cup ToSet(q)
      /\ \A i \in 1..Len(q) : \A m \in DOMAIN records :
           q[i] \in Deps(m) => m \in Stopped \cup {q[j] : j \in 1..(i - 1)}
  BY <1>1 DEF RuntimeOK, StopOK, LeftToStop
<1>5. \A m \in DOMAIN records : m \in Stopped \cup {Current} => m \in Stopped'
  OBVIOUS
<1>6. DOMAIN records' \subseteq Stopped' \cup ToSet(queue')
  BY <1>2, <1>3, <1>4, <1>5 DEF RestOf
<1>7. ASSUME NEW i \in 1..Len(t), NEW m \in DOMAIN records, t[i] \in Deps(m)
      PROVE  m \in Stopped' \/ \E k \in 1..(i - 1) : m = t[k]
  <2>1. m \in Stopped \/ \E j \in 1..((i + 1) - 1) : m = q[j]
    <3>1. i + 1 \in 1..Len(q) /\ q[i + 1] \in Deps(m)
      BY <1>3, <1>7 DEF RestOf
    <3> QED BY <1>4, <3>1
  <2>2. CASE m \in Stopped
    BY <1>5, <2>2
  <2>3. CASE m \notin Stopped
    <3>1. PICK j \in 1..((i + 1) - 1) : m = q[j]
      BY <2>1, <2>3
    <3>2. m = q[1] \/ \E k \in 1..(i - 1) : m = t[k]
      BY <1>3, <3>1 DEF RestOf
    <3> QED BY <1>2, <1>3, <1>5, <3>2
  <2> QED BY <2>2, <2>3
<1>8. ASSUME NEW i \in 1..Len(queue'), NEW m \in DOMAIN records', queue'[i] \in Dependencies'[m]
      PROVE  m \in Stopped' \cup {queue'[j] : j \in 1..(i - 1)}
  <2>1. i \in 1..Len(t) /\ m \in DOMAIN records /\ t[i] \in Deps(m)
    BY <1>2, <1>8 DEF Deps
  <2> QED BY <1>2, <1>7, <2>1
<1> QED BY <1>6, <1>8 DEF LeftToStop, Deps

LEMMA StopUnrecordedStep ==
  ASSUME RuntimeOK, StopUnrecorded
  PROVE  RuntimeOK'
<1>1. /\ pc = "stopping" /\ pc' = pc /\ runtime' = runtime /\ queue # <<>> /\ queue' = Tail(queue)
      /\ Current \notin DOMAIN records
      /\ UNCHANGED <<hook, records, capabilities, started, stops, changes, validated, plugins>>
      /\ UNCHANGED graph
  BY DEF StopUnrecorded, registry, graph
<1>2. Enabled' = Enabled /\ Dependencies' = Dependencies /\ (Valid' <=> Valid)
  BY <1>1, GraphKept
<1>3. PhaseOK' /\ LoopsOK' /\ StartOK'
  BY <1>1 DEF RuntimeOK, PhaseOK, LoopsOK, StartOK
<1>4. ValidOK'
  BY <1>1, <1>2 DEF RuntimeOK, ValidOK
<1>5. EarlyOK'
  BY <1>1 DEF RuntimeOK, EarlyOK, NothingYet
<1>6. ReadyOK'
  BY <1>1 DEF RuntimeOK, PhaseOK, ReadyOK, ReadyMeansComplete
<1>7. StopTyped'
  BY <1>1, <1>2 DEF RuntimeOK, StopTyped
<1>8. StopOK'
  <2>1. Stopped' = Stopped
    BY <1>1 DEF Stopped
  <2>2. changes' = 0 => LeftToStop'
    BY <1>1, <1>2, <2>1, StillLeftToStop
  <2> QED BY <1>1, <1>2, <2>2 DEF RuntimeOK, StopOK, DependentsFirst, Deps
<1> QED BY <1>3, <1>4, <1>5, <1>6, <1>7, <1>8 DEF RuntimeOK

LEMMA StopModuleStep ==
  ASSUME RuntimeOK, NEW raised \in BOOLEAN, StopModule(raised)
  PROVE  RuntimeOK'
<1> DEFINE e == [module |-> Current, raised |-> raised]
           n == Len(stops)
<1>1. /\ pc = "stopping" /\ pc' = pc /\ runtime' = runtime /\ queue # <<>> /\ queue' = Tail(queue)
      /\ Current \in DOMAIN records /\ stops' = Append(stops, e)
      /\ UNCHANGED <<hook, capabilities, started, changes, validated, plugins>>
      /\ UNCHANGED graph
  BY DEF StopModule, AfterRaise, registry, graph
<1>2. DOMAIN records' = DOMAIN records
  BY DEF StopModule
<1>3. Enabled' = Enabled /\ Dependencies' = Dependencies /\ (Valid' <=> Valid)
  BY <1>1, GraphKept
<1>4. Current \in Modules
  <2>1. queue \in Seq(Enabled) /\ Enabled \subseteq Modules
    BY <1>1 DEF RuntimeOK, StopTyped, ValidOK, Enabled
  <2> QED BY <1>1, <2>1 DEF Current
<1>5. PhaseOK' /\ LoopsOK' /\ StartOK'
  BY <1>1 DEF RuntimeOK, PhaseOK, LoopsOK, StartOK
<1>6. ValidOK'
  BY <1>1, <1>2, <1>3 DEF RuntimeOK, ValidOK
<1>7. EarlyOK'
  BY <1>1 DEF RuntimeOK, PhaseOK, EarlyOK, NothingYet
<1>8. ReadyOK'
  BY <1>1 DEF RuntimeOK, PhaseOK, ReadyOK, ReadyMeansComplete
<1>9. StopTyped'
  BY <1>1, <1>3, <1>4 DEF RuntimeOK, StopTyped
<1>10. /\ n \in Nat /\ Len(stops') = n + 1 /\ stops'[n + 1].module = Current
       /\ \A i \in 1..n : stops'[i] = stops[i]
       /\ \A i : i \in 1..(n + 1) <=> i \in 1..n \/ i = n + 1
  BY <1>1 DEF RuntimeOK, StopTyped
<1> HIDE DEF n, e
<1>11. StopOK'
  <2> SUFFICES ASSUME changes' = 0
               PROVE  DOMAIN records' \subseteq Enabled' /\ DependentsFirst' /\ LeftToStop'
    BY DEF StopOK
  <2>1. Stopped' = Stopped \cup {Current}
    <3>1. Stopped = {stops[i].module : i \in 1..n}
      BY DEF Stopped, n
    <3>2. Stopped' = {stops'[i].module : i \in 1..(n + 1)}
      BY <1>10 DEF Stopped
    <3> QED BY <1>10, <3>1, <3>2
  <2>2. LeftToStop'
    BY <1>1, <1>2, <1>3, <2>1, StillLeftToStop
  <2>3. DOMAIN records' \subseteq Enabled'
    BY <1>1, <1>2, <1>3 DEF RuntimeOK, StopOK
  <2>4. ASSUME NEW i \in 1..(n + 1), NEW m \in DOMAIN records, stops'[i].module \in Deps(m)
        PROVE  \E j \in 1..(i - 1) : stops'[j].module = m
    <3>1. CASE i \in 1..n
      <4>1. PICK j \in 1..(i - 1) : stops[j].module = m
        BY <1>1, <1>10, <2>4, <3>1 DEF RuntimeOK, StopOK, DependentsFirst, n
      <4>2. j \in 1..n
        BY <1>10, <3>1, <4>1
      <4> QED BY <1>10, <4>1, <4>2
    <3>2. CASE i = n + 1
      <4>1. queue \in Seq(Enabled) /\ 1 \in 1..Len(queue) /\ queue[1] = Current
        BY <1>1 DEF RuntimeOK, StopTyped, Current
      <4>2. queue[1] \in Deps(m)
        BY <1>10, <2>4, <3>2, <4>1
      <4>3. m \in Stopped
        BY <1>1, <4>1, <4>2 DEF RuntimeOK, StopOK, LeftToStop
      <4>4. PICK j \in 1..n : stops[j].module = m
        BY <4>3 DEF Stopped, n
      <4>5. j \in 1..(i - 1)
        BY <1>10, <3>2, <4>4
      <4> QED BY <1>10, <4>4, <4>5
    <3> QED BY <1>10, <3>1, <3>2
  <2>5. DependentsFirst'
    <3>1. \A m : Deps(m)' = Deps(m)
      BY <1>3 DEF Deps
    <3> QED BY <1>2, <1>10, <2>4, <3>1 DEF DependentsFirst
  <2> QED BY <2>2, <2>3, <2>5
<1> QED BY <1>5, <1>6, <1>7, <1>8, <1>9, <1>11 DEF RuntimeOK

LEMMA FinishShutdownStep ==
  ASSUME RuntimeOK, FinishShutdown
  PROVE  RuntimeOK'
<1>1. /\ pc = "stopping" /\ pc' = "idle"
      /\ \/ runtime = "draining" /\ runtime' = "stopped"
         \/ runtime \in {"starting", "failed", "stopped"} /\ runtime' = runtime
      /\ UNCHANGED <<hook, records, capabilities, started, stops, changes, validated, plugins>>
      /\ UNCHANGED graph
  BY DEF FinishShutdown, registry, modules, graph, RuntimeOK, PhaseOK
<1>2. Valid' <=> Valid
  BY <1>1, GraphKept
<1>3. PhaseOK' /\ LoopsOK'
  BY <1>1 DEF PhaseOK, LoopsOK
<1>4. ValidOK'
  BY <1>1, <1>2 DEF RuntimeOK, ValidOK
<1>5. EarlyOK'
  BY <1>1 DEF RuntimeOK, EarlyOK, NothingYet
<1>6. ReadyOK'
  BY <1>1 DEF ReadyOK, ReadyMeansComplete
<1>7. StartOK' /\ StopOK' /\ StopTyped'
  BY <1>1, QuietStep
<1> QED BY <1>3, <1>4, <1>5, <1>6, <1>7 DEF RuntimeOK

LEMMA StutteringStep ==
  ASSUME RuntimeOK, UNCHANGED vars
  PROVE  RuntimeOK'
<1>1. /\ UNCHANGED <<pc, runtime, queue, hook, records, capabilities, started, stops, changes, validated>>
      /\ UNCHANGED <<plugins, manifests, overrides, search, sort>>
  BY DEF vars, registry, loops, modules
<1>2. UNCHANGED graph
  BY <1>1 DEF graph
<1>3. /\ Enabled' = Enabled /\ Dependencies' = Dependencies /\ (Valid' <=> Valid)
      /\ \A cap : Providers(cap)' = Providers(cap)
  BY <1>2, GraphKept
<1>4. PhaseOK' /\ LoopsOK'
  BY <1>1, <1>3 DEF RuntimeOK, PhaseOK, LoopsOK
<1>5. ValidOK' /\ EarlyOK'
  BY <1>1, <1>3 DEF RuntimeOK, ValidOK, EarlyOK, NothingYet
<1>6. StartOK'
  <2>1. QueueOK' <=> QueueOK
    BY <1>1, <1>3 DEF QueueOK
  <2>2. StartedOK' <=> StartedOK
    BY <1>1, <1>3 DEF StartedOK, RegisteredFor, Current
  <2> QED BY <1>1, <2>1, <2>2 DEF RuntimeOK, StartOK
<1>7. ReadyOK'
  BY <1>1, <1>3 DEF RuntimeOK, ReadyOK, ReadyMeansComplete
<1>8. StopOK'
  BY <1>1, <1>3 DEF RuntimeOK, StopOK, DependentsFirst, LeftToStop, Stopped, Deps
<1>9. StopTyped'
  BY <1>1, <1>3 DEF RuntimeOK, StopTyped
<1> QED BY <1>4, <1>5, <1>6, <1>7, <1>8, <1>9 DEF RuntimeOK

------------------------------------------------------------------------------
(* The theorems.                                                           *)

LEMMA RuntimeBegins ==
  ASSUME RuntimeInit
  PROVE  RuntimeOK
<1>1. /\ pc = "idle" /\ runtime = "starting" /\ hook = 1 /\ records = <<>> /\ capabilities = <<>>
      /\ started = {} /\ stops = <<>> /\ plugins = {} /\ validated = FALSE /\ changes = 0
  BY DEF RuntimeInit, Init
<1>2. DOMAIN records = {} /\ DOMAIN capabilities = {}
  BY <1>1
<1>3. PhaseOK /\ LoopsOK /\ ValidOK /\ StartOK
  BY <1>1, <1>2 DEF PhaseOK, LoopsOK, ValidOK, StartOK
<1>4. EarlyOK /\ ReadyOK
  BY <1>1, <1>2 DEF EarlyOK, ReadyOK, ReadyMeansComplete
<1>5. StopOK
  BY <1>1, <1>2 DEF StopOK, DependentsFirst
<1>6. StopTyped
  BY <1>1 DEF StopTyped
<1> QED BY <1>3, <1>4, <1>5, <1>6 DEF RuntimeOK

LEMMA RuntimeGoesOn ==
  ASSUME RuntimeOK, [Next]_vars
  PROVE  RuntimeOK'
<1>1. CASE Boot
  BY <1>1, DiscoverStep, ValidateDefaultsStep, ConfigLoadsStep, ConfigRaisesStep, SearchingStep,
     ValidatedStep, BeginStartStep, HookReturnsStep, ModuleRunsStep, HookRaisesStep, BecomeReadyStep,
     BootAgainStep
  DEF Boot
<1>2. CASE Shutdown
  BY <1>2, BeginShutdownStep, StopUnrecordedStep, StopModuleStep, FinishShutdownStep DEF Shutdown
<1>3. CASE Ordering \/ Ordered
  BY <1>3, OrderingStep, OrderedStep
<1>4. CASE \E m \in Modules, enabled \in BOOLEAN : SetEnabled(m, enabled)
  BY <1>4, SetEnabledStep
<1>5. CASE UNCHANGED vars
  BY <1>5, StutteringStep
<1> QED BY <1>1, <1>2, <1>3, <1>4, <1>5 DEF Next

\* boot.py, plugin_registry.py: where a call is, what its loops have found and
\* what the modules it has started and stopped have left, in every state.
THEOREM RuntimeInvariant == Spec => []RuntimeOK
<1>1. RuntimeInit => RuntimeOK
  BY RuntimeBegins
<1>2. RuntimeOK /\ [Next]_vars => RuntimeOK'
  BY RuntimeGoesOn
<1> QED BY <1>1, <1>2, PTL DEF Spec

\* plugin_registry.py:232: what is remembered as validated is valid as it is
\* enabled now, whatever was registered, enabled or disabled since.
THEOREM ValidationIsNeverStale == Spec => []ValidatedIsNeverStale
<1>1. RuntimeOK => ValidatedIsNeverStale
  BY ValidIsNotStale DEF RuntimeOK
<1> QED BY <1>1, RuntimeInvariant, PTL

\* boot.py:197-250: a module's hooks are called only once every capability it
\* requires is registered, by its only provider, and that module runs.
THEOREM HooksFindTheirRequirements == Spec => []RequirementsAreMetBeforeInit
<1>1. ASSUME RuntimeOK PROVE RequirementsAreMetBeforeInit
  <2> SUFFICES ASSUME pc = "starting", queue # <<>>, NEW cap \in manifests[Current].requires
               PROVE  /\ cap \in DOMAIN capabilities
                      /\ Providers(cap) = {capabilities[cap].by}
                      /\ capabilities[cap].by \in DOMAIN records
                      /\ records[capabilities[cap].by].state = "running"
    BY DEF RequirementsAreMetBeforeInit
  <2>1. StartedOK /\ Valid /\ Current \in Enabled /\ Deps(Current) \subseteq DOMAIN records
    BY <1>1, AtTheCurrent
  <2>2. PICK p \in Enabled : Providers(cap) = {p}
    BY <2>1 DEF Valid
  <2>3. p \in DOMAIN records /\ records[p].state = "running" /\ RegisteredFor(p)
    BY <2>1, <2>2, DependsOnTheProvider DEF StartedOK
  <2>4. cap \in manifests[p].provides
    BY <2>2 DEF Providers
  <2>5. cap \in DOMAIN capabilities /\ capabilities[cap].by = p
    BY <2>1, <2>2, <2>3, <2>4 DEF RegisteredFor, StartedOK
  <2> QED BY <2>2, <2>3, <2>5
<1> QED BY <1>1, RuntimeInvariant, PTL

\* boot.py:120-189: the Runtime becomes READY only with all that is enabled
\* running and registered, and nothing else started.
THEOREM ReadyIsComplete == Spec => []ReadyMeansComplete
<1>1. RuntimeOK => ReadyMeansComplete
  BY DEF RuntimeOK, ReadyOK
<1> QED BY <1>1, RuntimeInvariant, PTL

\* boot.py:257-266: stop() is called on what depends on a module before it is
\* called on the module, and on everything that has a record.
THEOREM DependentsAreStoppedFirst == Spec => []ShutdownStopsDependentsFirst
<1>1. ASSUME RuntimeOK PROVE ShutdownStopsDependentsFirst
  <2>1. ASSUME pc = "stopping", queue = <<>>, changes = 0 PROVE DOMAIN records \subseteq Stopped
    <3>1. ToSet(queue) = {}
      BY <2>1 DEF ToSet
    <3> QED BY <1>1, <2>1, <3>1 DEF RuntimeOK, StopOK, LeftToStop
  <2> QED BY <1>1, <2>1 DEF RuntimeOK, StopOK, DependentsFirst, ShutdownStopsDependentsFirst
<1> QED BY <1>1, RuntimeInvariant, PTL

\* plugin_registry.py:199, 303: the search finds a cycle exactly if there is one,
\* and the order has everything that neither is on a cycle nor depends on one,
\* after what it depends on, for every graph the manifests span.
THEOREM LoopsFindWhatIsThere == Spec => []LoopsAreRight
<1>1. ASSUME RuntimeOK PROVE LoopsAreRight
  <2>1. ASSUME pc = "validating", SearchIsOver PROVE SearchIsRight
    <3>1. SearchOK(Enabled, Enabled, Dependencies, search)
      BY <1>1, <2>1 DEF RuntimeOK, LoopsOK
    <3>2. /\ search.cycles # {} => Cyclic(Dependencies)
          /\ Exhausted(search) /\ search.cycles = {} => ~Cyclic(Dependencies)
          /\ \A c \in search.cycles : IsCycle(Dependencies, c)
      BY <3>1, GraphTyped, SearchDecides
    <3> QED BY <2>1, <3>2 DEF SearchIsRight, SearchIsOver
  <2>2. ASSUME pc = "ordering", sort.ready = <<>> PROVE OrderIsRight
    <3>1. OrderOK(Enabled, Dependencies, sort) /\ Dependencies \in [Enabled -> SUBSET Enabled]
      BY <1>1, <2>2, GraphTyped DEF RuntimeOK, LoopsOK
    <3>2. ToSet(sort.order) =
            Enabled \ UNION {S \in SUBSET Enabled : \A m \in S : Dependencies[m] \cap S # {}}
      BY <2>2, <3>1, OrderEnds
    <3>3. /\ sort.order \in Seq(Enabled)
          /\ \A i, j \in 1..Len(sort.order) : sort.order[i] = sort.order[j] => i = j
          /\ \A i \in 1..Len(sort.order) : Dependencies[sort.order[i]] \subseteq {sort.order[j] : j \in 1..(i - 1)}
      BY <3>1 DEF OrderOK, OrderTyped
    <3>4. IsInjective(sort.order)
      BY <3>3 DEF IsInjective
    <3> QED BY <3>2, <3>3, <3>4 DEF OrderIsRight
  <2> QED BY <2>1, <2>2 DEF LoopsAreRight
<1> QED BY <1>1, RuntimeInvariant, PTL
==============================================================================
