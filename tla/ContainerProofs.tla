---------------------------- MODULE ContainerProofs ---------------------------
(***************************************************************************)
(* Proofs about the container, for any capabilities, threads and scopes,   *)
(* any number of registrations and instances.                              *)
(***************************************************************************)
EXTENDS Container, TLAPS

------------------------------------------------------------------------------
(* Every instance has one place: the scope it was made for.                *)

Place(scope, id) == IF scope = "singleton" THEN <<"singleton", NoScopeId>> ELSE <<scope, id>>

\* The instances in the caches and those handed out, each with its place.
Placed ==
  {<<singletons[k], <<"singleton", NoScopeId>>>> : k \in DOMAIN singletons}
  \cup {<<scoped[k], <<k[1], k[3]>>>> : k \in DOMAIN scoped}
  \cup {<<g.instance, Place(g.scope, g.id)>> : g \in handed}

PlacesOK ==
  /\ made \in Nat
  /\ \A p \in Placed : p[1].number \in 1..made
  /\ \A p, q \in Placed : p[1] = q[1] => p[2] = q[2]

\* An instance is cached under the capability it was made for.
KeysOK ==
  /\ \A k \in DOMAIN singletons : singletons[k].capability = k
  /\ \A k \in DOMAIN scoped : k[1] # "singleton" /\ k = <<k[1], scoped[k].capability, k[3]>>

\* What was evicted is in no cache.
EvictedOK ==
  \A x \in dropped :
    /\ x.number \in 1..made
    /\ \A k \in DOMAIN singletons : singletons[k] # x
    /\ \A k \in DOMAIN scoped : scoped[k] # x

Caches == PlacesOK /\ KeysOK /\ EvictedOK

\* Steps that touch no cache and hand nothing out.
LEMMA QuietCaches ==
  ASSUME Caches, UNCHANGED <<singletons, scoped, handed, dropped, made>>
  PROVE  Caches'
BY DEF Caches, PlacesOK, KeysOK, EvictedOK, Placed

\* An instance in two caches would have two places or two capabilities.
LEMMA CachedOnce ==
  ASSUME Caches
  PROVE  /\ \A j, k \in DOMAIN scoped : scoped[j] = scoped[k] => j = k
         /\ \A j, k \in DOMAIN singletons : singletons[j] = singletons[k] => j = k
         /\ \A j \in DOMAIN scoped, k \in DOMAIN singletons : scoped[j] # singletons[k]
<1>1. ASSUME NEW j \in DOMAIN scoped, NEW k \in DOMAIN scoped, scoped[j] = scoped[k] PROVE j = k
  <2>1. <<scoped[j], <<j[1], j[3]>>>> \in Placed /\ <<scoped[k], <<k[1], k[3]>>>> \in Placed
    BY DEF Placed
  <2>2. <<j[1], j[3]>> = <<k[1], k[3]>>
    BY <1>1, <2>1 DEF Caches, PlacesOK
  <2> QED BY <1>1, <2>2 DEF Caches, KeysOK
<1>2. ASSUME NEW j \in DOMAIN scoped, NEW k \in DOMAIN singletons, scoped[j] = singletons[k] PROVE FALSE
  <2>1. <<scoped[j], <<j[1], j[3]>>>> \in Placed /\ <<singletons[k], <<"singleton", NoScopeId>>>> \in Placed
    BY DEF Placed
  <2>2. <<j[1], j[3]>> = <<"singleton", NoScopeId>>
    BY <1>2, <2>1 DEF Caches, PlacesOK
  <2> QED BY <2>2 DEF Caches, KeysOK
<1> QED BY <1>1, <1>2 DEF Caches, KeysOK

\* Invalidate: at most one singleton is evicted.
LEMMA InvalidateCaches ==
  ASSUME Caches, NEW c, Invalidate(c)
  PROVE  Caches'
<1> DEFINE cap == request[c].capability
<1>1. /\ DOMAIN singletons' = DOMAIN singletons \ Stale(cap)
      /\ \A k \in DOMAIN singletons' : singletons'[k] = singletons[k]
      /\ scoped' = scoped /\ handed' = handed /\ made' = made
      /\ dropped' = dropped \cup {singletons[k] : k \in Stale(cap)}
  BY DEF Invalidate, Drop
<1> HIDE DEF cap
<1>2. Placed' \subseteq Placed
  BY <1>1 DEF Placed
<1>3. PlacesOK'
  BY <1>1, <1>2 DEF Caches, PlacesOK
<1>4. KeysOK'
  BY <1>1 DEF Caches, KeysOK
<1>5. ASSUME NEW k \in Stale(cap)
      PROVE  /\ singletons[k].number \in 1..made
             /\ \A j \in DOMAIN singletons' : singletons'[j] # singletons[k]
             /\ \A j \in DOMAIN scoped : scoped[j] # singletons[k]
  <2>1. k \in DOMAIN singletons
    BY DEF Stale
  <2>2. <<singletons[k], <<"singleton", NoScopeId>>>> \in Placed
    BY <2>1 DEF Placed
  <2> QED BY <1>1, <2>1, <2>2, CachedOnce DEF Caches, PlacesOK
<1>6. EvictedOK'
  BY <1>1, <1>5 DEF Caches, EvictedOK
<1> QED BY <1>3, <1>4, <1>6 DEF Caches

\* DeleteKey: one scoped instance is evicted, if it is still there.
LEMMA DeleteKeyCaches ==
  ASSUME Caches, NEW c, DeleteKey(c)
  PROVE  Caches'
<1>1. singletons' = singletons /\ handed' = handed /\ made' = made
  BY DEF DeleteKey
<1>2. CASE UNCHANGED <<scoped, dropped>>
  BY <1>1, <1>2, QuietCaches
<1>3. ASSUME NEW k \in DOMAIN scoped, scoped' = Drop(scoped, {k}), dropped' = dropped \cup {scoped[k]}
      PROVE  Caches'
  <2>1. /\ DOMAIN scoped' = DOMAIN scoped \ {k}
        /\ \A j \in DOMAIN scoped' : scoped'[j] = scoped[j]
    BY <1>3 DEF Drop
  <2>2. Placed' \subseteq Placed
    BY <1>1, <2>1 DEF Placed
  <2>3. PlacesOK'
    BY <1>1, <2>2 DEF Caches, PlacesOK
  <2>4. KeysOK'
    BY <1>1, <2>1 DEF Caches, KeysOK
  <2>5. <<scoped[k], <<k[1], k[3]>>>> \in Placed
    BY DEF Placed
  <2>6. /\ scoped[k].number \in 1..made
        /\ \A j \in DOMAIN scoped' : scoped'[j] # scoped[k]
        /\ \A j \in DOMAIN singletons : singletons[j] # scoped[k]
    BY <2>1, <2>5, CachedOnce DEF Caches, PlacesOK
  <2>7. EvictedOK'
    BY <1>1, <1>3, <2>1, <2>6 DEF Caches, EvictedOK
  <2> QED BY <2>3, <2>4, <2>7 DEF Caches
<1> QED BY <1>2, <1>3 DEF DeleteKey

\* ProviderReturns: the new instance has a number no other one has.
LEMMA ProviderReturnsCaches ==
  ASSUME Caches, NEW c \in Callers, ProviderReturns(c)
  PROVE  Caches'
<1> DEFINE q == request[c]
           x == [capability |-> q.capability, generation |-> q.generation, number |-> made + 1]
           place == IF q.scope = "singleton" THEN <<"singleton", NoScopeId>> ELSE <<q.scope, q.id>>
<1>1. made' = made + 1 /\ handed' = handed /\ dropped' = dropped /\ made \in Nat
  BY DEF ProviderReturns, Caches, PlacesOK
<1>2. CASE q.scope = "singleton"
  <2>1. /\ DOMAIN singletons' = DOMAIN singletons \cup {q.capability}
        /\ \A k \in DOMAIN singletons' : singletons'[k] = IF k = q.capability THEN x ELSE singletons[k]
        /\ scoped' = scoped
    BY <1>2 DEF ProviderReturns, Store
  <2>2. Placed' \subseteq Placed \cup {<<x, place>>}
    BY <1>1, <1>2, <2>1 DEF Placed
  <2> HIDE DEF place
  <2>3. PlacesOK'
    BY <1>1, <2>2 DEF Caches, PlacesOK
  <2>4. KeysOK'
    BY <2>1 DEF Caches, KeysOK
  <2>5. EvictedOK'
    BY <1>1, <2>1 DEF Caches, EvictedOK
  <2> QED BY <2>3, <2>4, <2>5 DEF Caches
<1>3. CASE q.scope # "singleton"
  <2> DEFINE key == <<q.scope, q.capability, q.id>>
  <2>1. /\ DOMAIN scoped' = DOMAIN scoped \cup {key}
        /\ \A k \in DOMAIN scoped' : scoped'[k] = IF k = key THEN x ELSE scoped[k]
        /\ singletons' = singletons
    BY <1>3 DEF ProviderReturns, Store, ScopedKey
  <2>2. key[1] = q.scope /\ key[2] = q.capability /\ key[3] = q.id
    OBVIOUS
  <2>3. Placed' \subseteq Placed \cup {<<x, place>>}
    BY <1>1, <1>3, <2>1, <2>2 DEF Placed
  <2>4. KeysOK'
    BY <1>3, <2>1, <2>2 DEF Caches, KeysOK
  <2> HIDE DEF place
  <2>5. PlacesOK'
    BY <1>1, <2>3 DEF Caches, PlacesOK
  <2>6. EvictedOK'
    BY <1>1, <2>1 DEF Caches, EvictedOK
  <2> QED BY <2>4, <2>5, <2>6 DEF Caches
<1> QED BY <1>2, <1>3

\* Read: what is handed out is in a cache, at the place it is asked for.
LEMMA ReadHandsCached ==
  ASSUME NEW c \in Callers, Read(c)
  PROVE  \/ handed' = handed
         \/ \E g : /\ handed' = handed \cup {g}
                   /\ g.scope = request[c].scope /\ g.generation = request[c].generation
                   /\ <<g.instance, Place(g.scope, g.id)>> \in Placed
                   /\ \/ /\ g.scope = "singleton"
                         /\ request[c].capability \in DOMAIN singletons
                         /\ g.instance = singletons[request[c].capability]
                      \/ /\ g.scope # "singleton"
                         /\ \E k \in DOMAIN scoped : g.instance = scoped[k]
<1> DEFINE q == request[c]
           handing(x) == [scope |-> q.scope, id |-> q.id, generation |-> q.generation, instance |-> x]
<1>1. CASE q.scope = "singleton" /\ Cached(q)
  <2>1. q.capability \in DOMAIN singletons /\ handed' = handed \cup {handing(singletons[q.capability])}
    BY <1>1 DEF Read, Cached
  <2> DEFINE g == handing(singletons[q.capability])
  <2>2. /\ g.scope = q.scope /\ g.generation = q.generation /\ g.instance = singletons[q.capability]
        /\ Place(g.scope, g.id) = <<"singleton", NoScopeId>>
    BY <1>1 DEF Place
  <2>3. <<g.instance, Place(g.scope, g.id)>> \in Placed
    BY <2>1, <2>2 DEF Placed
  <2> HIDE DEF g
  <2>4. handed' = handed \cup {g}
    BY <2>1 DEF g
  <2> QED BY <1>1, <2>1, <2>2, <2>3, <2>4
<1>2. CASE q.scope # "singleton" /\ Cached(q)
  <2>1. ScopedKey(q) \in DOMAIN scoped /\ handed' = handed \cup {handing(scoped[ScopedKey(q)])}
    BY <1>2 DEF Read, Cached
  <2>2. <<scoped[ScopedKey(q)], <<q.scope, q.id>>>> \in Placed
    BY <2>1 DEF Placed, ScopedKey
  <2> DEFINE g == handing(scoped[ScopedKey(q)])
  <2>3. /\ g.scope = q.scope /\ g.generation = q.generation /\ g.instance = scoped[ScopedKey(q)]
        /\ Place(g.scope, g.id) = <<q.scope, q.id>>
    BY <1>2 DEF Place
  <2>4. handed' = handed \cup {g}
    BY <2>1
  <2> HIDE DEF g
  <2> QED BY <1>2, <2>1, <2>2, <2>3, <2>4
<1>3. CASE ~Cached(q)
  BY <1>3 DEF Read
<1> QED BY <1>1, <1>2, <1>3

LEMMA ReadCaches ==
  ASSUME Caches, NEW c \in Callers, Read(c)
  PROVE  Caches'
<1>1. UNCHANGED <<singletons, scoped, dropped, made>>
  BY DEF Read
<1>2. Placed' \subseteq Placed
  <2>1. CASE handed' = handed
    BY <1>1, <2>1 DEF Placed
  <2>2. ASSUME NEW g, handed' = handed \cup {g}, <<g.instance, Place(g.scope, g.id)>> \in Placed
        PROVE  Placed' \subseteq Placed
    BY <1>1, <2>2 DEF Placed, Place
  <2> QED BY <2>1, <2>2, ReadHandsCached
<1> QED BY <1>1, <1>2 DEF Caches, PlacesOK, KeysOK, EvictedOK

LEMMA CachesInductive ==
  ASSUME Caches, [Next]_container
  PROVE  Caches'
<1>1. ASSUME NEW c \in Callers, NEW cap, NEW scope, Register(c, cap, scope) PROVE Caches'
  BY <1>1, QuietCaches DEF Register
<1>2. ASSUME NEW c \in Callers, NEW cap, NEW id, Lookup(c, cap, id) PROVE Caches'
  BY <1>2, QuietCaches DEF Lookup
<1>3. ASSUME NEW c \in Callers, Resolving(c) PROVE Caches'
  <2>1. CASE Check(c)
    BY <2>1, QuietCaches DEF Check
  <2>2. CASE ProviderReturns(c)
    BY <2>2, ProviderReturnsCaches
  <2>3. CASE ProviderRaises(c)
    BY <2>3, QuietCaches DEF ProviderRaises
  <2>4. CASE Read(c)
    BY <2>4, ReadCaches
  <2> QED BY <1>3, <2>1, <2>2, <2>3, <2>4 DEF Resolving
<1>4. ASSUME NEW c \in Callers, NEW scope, NEW id, CloseScope(c, scope, id) PROVE Caches'
  BY <1>4, QuietCaches DEF CloseScope
<1>5. ASSUME NEW c \in Callers, ListKey(c) \/ Leave(c) PROVE Caches'
  BY <1>5, QuietCaches DEF ListKey, Leave
<1>6. CASE UNCHANGED container
  BY <1>6, QuietCaches DEF container
<1> QED BY <1>1, <1>2, <1>3, <1>4, <1>5, <1>6, InvalidateCaches, DeleteKeyCaches DEF Next

LEMMA CachesAlways == Spec => []Caches
<1>1. Init => Caches
  BY DEF Init, ContainerInit, Caches, PlacesOK, KeysOK, EvictedOK, Placed
<1> QED BY <1>1, CachesInductive, PTL DEF Spec

\* di.py: an instance made for one pipeline run or request is never handed to
\* another, however many threads resolve, register and close scopes at once.
THEOREM ScopesStayApart == Spec => []ScopedInstancesAreNotShared
<1>1. Caches => ScopedInstancesAreNotShared
  <2> SUFFICES ASSUME Caches, NEW g \in handed, NEW h \in handed,
                      g.scope # "singleton", g.instance = h.instance
               PROVE  g.id = h.id
    BY DEF ScopedInstancesAreNotShared
  <2>1. <<g.instance, Place(g.scope, g.id)>> \in Placed /\ <<h.instance, Place(h.scope, h.id)>> \in Placed
    BY DEF Placed
  <2>2. Place(g.scope, g.id) = Place(h.scope, h.id)
    BY <2>1 DEF Caches, PlacesOK
  <2> QED BY <2>2 DEF Place
<1> QED BY <1>1, CachesAlways, PTL

\* di.py:117: what close_scope or an override evicted is never handed out again,
\* even by a resolve() that was under way at the time.
THEOREM EvictedStayGone == Spec => EvictedInstancesStayGone
<1>1. Caches /\ [Next]_container => [\A h \in handed' \ handed : h.instance \notin dropped]_container
  <2> SUFFICES ASSUME Caches, [Next]_container, NEW h \in handed', h \notin handed
               PROVE  h.instance \notin dropped
    OBVIOUS
  <2>1. PICK c \in Callers : Read(c)
    BY DEF Next, container, Register, Invalidate, Lookup, Resolving, Check, ProviderReturns, ProviderRaises,
           Leave, CloseScope, ListKey, DeleteKey
  <2> QED BY <2>1, ReadHandsCached DEF Caches, EvictedOK
<1> QED BY <1>1, CachesAlways, PTL DEF Spec, EvictedInstancesStayGone
------------------------------------------------------------------------------
(* Singletons, while no two calls overlap.                                 *)

Resolves(c) == request[c].state \in {"checking", "making", "reading"}

Registers(c) == request[c].state = "registering"

GenerationsOK == \A cap \in DOMAIN registrations : registrations[cap].generation \in Nat

RequestsOK == overlap \in BOOLEAN /\ request = [c \in Callers |-> request[c]]

\* One call at a time, of the latest registration; it makes only what there is not.
CallsOK ==
  /\ \A c, d \in Callers : Busy(c) /\ Busy(d) => c = d
  /\ \A c \in Callers : Resolves(c) =>
       /\ {"state", "capability", "id", "scope", "generation"} \subseteq DOMAIN request[c]
       /\ request[c] = [f \in DOMAIN request[c] |-> request[c][f]]
       /\ request[c].capability \in DOMAIN registrations
       /\ request[c].generation = registrations[request[c].capability].generation
       /\ request[c].state = "making" => MustMake(request[c])

\* Before it invalidates the cache, a registration is newer than all handed out.
RegistersOK ==
  \A c \in Callers : Registers(c) =>
    \A g \in handed : g.scope = "singleton" /\ g.instance.capability = request[c].capability =>
      g.generation < registrations[g.instance.capability].generation

\* The cache has instances of the latest registrations, or is about to drop them.
CachedOK ==
  \A k \in DOMAIN singletons :
    \/ k \in DOMAIN registrations /\ singletons[k].generation = registrations[k].generation
    \/ \E c \in Callers : Registers(c) /\ request[c].capability = k

\* What was handed out is cached as long as its registration stands.
HandedOK ==
  \A g \in handed : g.scope = "singleton" =>
    /\ g.instance.generation = g.generation
    /\ g.instance.capability \in DOMAIN registrations
    /\ g.generation \in Nat /\ g.generation <= registrations[g.instance.capability].generation
    /\ g.generation = registrations[g.instance.capability].generation =>
         /\ g.instance.capability \in DOMAIN singletons
         /\ singletons[g.instance.capability] = g.instance

SameInstance ==
  \A g, h \in handed :
    /\ g.scope = "singleton" /\ h.scope = "singleton"
    /\ g.instance.capability = h.instance.capability
    /\ g.generation = h.generation
    => g.instance = h.instance

Apart == CallsOK /\ RegistersOK /\ CachedOK /\ HandedOK /\ SameInstance

Singletons == GenerationsOK /\ RequestsOK /\ (overlap \/ Apart)

\* Steps of calls that are no registration and have nothing to return: what
\* else there is of the call may change.
LEMMA OtherCalls ==
  ASSUME Singletons, NEW c \in Callers,
         UNCHANGED <<registrations, singletons, handed>>,
         request' = [request EXCEPT ![c] = request'[c]],
         ~Registers(c), ~Registers(c)', ~Resolves(c)',
         scoped' = scoped \/ Busy(c),
         Busy(c)' => Busy(c) \/ \A d \in Callers : ~Busy(d),
         overlap' \in BOOLEAN, ~overlap' => ~overlap
  PROVE  Singletons'
<1>1. GenerationsOK' /\ RequestsOK'
  BY DEF Singletons, GenerationsOK, RequestsOK
<1>2. \A d \in Callers : d # c => request'[d] = request[d]
  BY DEF Singletons, RequestsOK
<1>3. ASSUME ~overlap' PROVE Apart'
  <2>1. Apart
    BY <1>3 DEF Singletons
  <2>2. \A d, e \in Callers : Busy(d)' /\ Busy(e)' => d = e
    BY <1>2, <2>1 DEF Apart, CallsOK, Busy
  <2>3. ASSUME NEW d \in Callers, Resolves(d)'
        PROVE  d # c /\ Resolves(d) /\ request'[d] = request[d] /\ scoped' = scoped
    BY <1>2, <2>1, <2>3 DEF Apart, CallsOK, Busy, Resolves
  <2>4. CallsOK'
    BY <2>1, <2>2, <2>3 DEF Apart, CallsOK, MustMake, Cached
  <2>5. \A d \in Callers : Registers(d)' <=> Registers(d)
    BY <1>2 DEF Registers
  <2>6. RegistersOK'
    BY <1>2, <2>1, <2>5 DEF Apart, RegistersOK
  <2>7. CachedOK'
    BY <1>2, <2>1, <2>5 DEF Apart, CachedOK
  <2> QED BY <2>1, <2>4, <2>6, <2>7 DEF Apart, HandedOK, SameInstance
<1> QED BY <1>1, <1>3 DEF Singletons, RequestsOK

\* While one call resolves nobody registers.
LEMMA NobodyRegisters ==
  ASSUME Apart, NEW c \in Callers, Resolves(c)
  PROVE  \A d \in Callers : ~Registers(d)
BY DEF Apart, CallsOK, Busy, Resolves, Registers

LEMMA RegisterSingletons ==
  ASSUME Singletons, NEW c \in Callers, NEW cap, NEW scope, Register(c, cap, scope)
  PROVE  Singletons'
<1>1. /\ DOMAIN registrations' = DOMAIN registrations \cup {cap}
      /\ \A k \in DOMAIN registrations : k # cap => registrations'[k] = registrations[k]
      /\ registrations'[cap].generation = Generation(cap) + 1
      /\ UNCHANGED <<singletons, handed>>
  BY DEF Register, Store
<1>2. /\ Generation(cap) \in Nat
      /\ cap \in DOMAIN registrations => Generation(cap) = registrations[cap].generation
  BY DEF Singletons, GenerationsOK, Generation
<1>3. /\ request' = [request EXCEPT ![c] = request'[c]]
      /\ request'[c].state = "registering" /\ request'[c].capability = cap
      /\ \A d \in Callers : d # c => request'[d] = request[d]
  BY DEF Register, Then, Singletons, RequestsOK
<1>4. GenerationsOK' /\ RequestsOK'
  <2>1. GenerationsOK'
    BY <1>1, <1>2 DEF Singletons, GenerationsOK
  <2>2. overlap' \in BOOLEAN
    BY DEF Register, CallStarts
  <2> QED BY <1>3, <2>1, <2>2 DEF Singletons, RequestsOK
<1>5. ASSUME ~overlap' PROVE Apart'
  <2>1. Apart /\ \A d \in Callers : ~Busy(d)
    BY <1>5 DEF Singletons, RequestsOK, Register, CallStarts
  <2>2. CallsOK'
    BY <1>3, <2>1 DEF CallsOK, Busy, Resolves
  <2>3. ASSUME NEW g \in handed, g.scope = "singleton"
        PROVE  /\ g.instance.generation = g.generation
               /\ g.instance.capability \in DOMAIN registrations'
               /\ g.generation \in Nat /\ g.generation <= registrations'[g.instance.capability].generation
               /\ g.generation = registrations'[g.instance.capability].generation =>
                    /\ g.instance.capability \in DOMAIN singletons'
                    /\ singletons'[g.instance.capability] = g.instance
               /\ g.instance.capability = cap => g.generation < registrations'[g.instance.capability].generation
    <3> DEFINE k == g.instance.capability
    <3>1. /\ g.instance.generation = g.generation /\ k \in DOMAIN registrations
          /\ g.generation \in Nat /\ g.generation <= registrations[k].generation
          /\ g.generation = registrations[k].generation => k \in DOMAIN singletons /\ singletons[k] = g.instance
      BY <2>1, <2>3 DEF Apart, HandedOK
    <3> HIDE DEF k
    <3>2. CASE k = cap
      <4>1. g.generation < registrations'[k].generation
        BY <1>1, <1>2, <3>1, <3>2
      <4> QED BY <1>1, <1>2, <3>1, <3>2, <4>1 DEF k
    <3>3. CASE k # cap
      BY <1>1, <3>1, <3>3 DEF k
    <3> QED BY <3>2, <3>3
  <2>4. HandedOK'
    BY <1>1, <2>3 DEF HandedOK
  <2>5. \A d \in Callers : Registers(d)' => d = c
    BY <1>3, <2>1 DEF Registers, Busy
  <2>6. RegistersOK'
    BY <1>1, <1>3, <2>3, <2>5 DEF RegistersOK
  <2>7. CachedOK'
    <3> SUFFICES ASSUME NEW k \in DOMAIN singletons
                 PROVE  \/ k \in DOMAIN registrations' /\ singletons[k].generation = registrations'[k].generation
                        \/ \E d \in Callers : Registers(d)' /\ request'[d].capability = k
      BY <1>1 DEF CachedOK
    <3>1. k \in DOMAIN registrations /\ singletons[k].generation = registrations[k].generation
      BY <2>1 DEF Apart, CachedOK, Registers, Busy
    <3>2. CASE k = cap
      BY <1>3, <3>2 DEF Registers
    <3>3. CASE k # cap
      BY <1>1, <3>1, <3>3
    <3> QED BY <3>2, <3>3
  <2>8. SameInstance'
    BY <1>1, <2>1 DEF Apart, SameInstance
  <2> QED BY <2>2, <2>4, <2>6, <2>7, <2>8 DEF Apart
<1> QED BY <1>4, <1>5 DEF Singletons, RequestsOK

LEMMA InvalidateSingletons ==
  ASSUME Singletons, NEW c \in Callers, Invalidate(c)
  PROVE  Singletons'
<1> DEFINE cap == request[c].capability
<1>1. /\ UNCHANGED <<registrations, scoped, handed, overlap>> /\ Registers(c)
      /\ request' = [request EXCEPT ![c] = request'[c]]
      /\ ~Busy(c)'
      /\ \A d \in Callers : d # c => request'[d] = request[d]
  BY DEF Invalidate, CallGoesOn, Then, Registers, Busy, Idle, Singletons, RequestsOK
<1>2. /\ DOMAIN singletons' = DOMAIN singletons \ {cap}
      /\ \A k \in DOMAIN singletons' : singletons'[k] = singletons[k]
  BY DEF Invalidate, Drop, Stale
<1> HIDE DEF cap
<1>3. GenerationsOK' /\ RequestsOK'
  BY <1>1 DEF Singletons, GenerationsOK, RequestsOK
<1>4. ASSUME ~overlap PROVE Apart'
  <2>1. Apart
    BY <1>4 DEF Singletons
  <2>2. \A d \in Callers : Busy(d) => d = c
    BY <1>1, <2>1 DEF Apart, CallsOK, Busy, Registers
  <2>3. \A d \in Callers : ~Busy(d)'
    BY <1>1, <2>2 DEF Busy
  <2>4. CallsOK' /\ RegistersOK'
    BY <2>3 DEF CallsOK, RegistersOK, Resolves, Registers, Busy
  <2>5. CachedOK'
    <3> SUFFICES ASSUME NEW k \in DOMAIN singletons'
                 PROVE  k \in DOMAIN registrations /\ singletons[k].generation = registrations[k].generation
      BY <1>1, <1>2 DEF CachedOK
    <3>1. \A d \in Callers : Registers(d) => request[d].capability # k
      BY <1>2, <2>2 DEF cap, Busy, Registers
    <3> QED BY <1>2, <2>1, <3>1 DEF Apart, CachedOK
  <2>6. HandedOK'
    <3> SUFFICES ASSUME NEW g \in handed, g.scope = "singleton"
                 PROVE  /\ g.instance.generation = g.generation
                        /\ g.instance.capability \in DOMAIN registrations
                        /\ g.generation \in Nat /\ g.generation <= registrations[g.instance.capability].generation
                        /\ g.generation = registrations[g.instance.capability].generation =>
                             /\ g.instance.capability \in DOMAIN singletons'
                             /\ singletons'[g.instance.capability] = g.instance
      BY <1>1 DEF HandedOK
    <3>1. /\ g.instance.generation = g.generation
          /\ g.instance.capability \in DOMAIN registrations
          /\ g.generation \in Nat /\ g.generation <= registrations[g.instance.capability].generation
          /\ g.generation = registrations[g.instance.capability].generation =>
               /\ g.instance.capability \in DOMAIN singletons
               /\ singletons[g.instance.capability] = g.instance
      BY <2>1 DEF Apart, HandedOK
    <3>2. registrations[g.instance.capability].generation \in Nat
      BY <3>1 DEF Singletons, GenerationsOK
    <3>3. g.instance.capability = cap => g.generation < registrations[g.instance.capability].generation
      BY <1>1, <2>1 DEF Apart, RegistersOK, cap
    <3> QED BY <1>2, <3>1, <3>2, <3>3
  <2> QED BY <1>1, <2>1, <2>4, <2>5, <2>6 DEF Apart, SameInstance
<1> QED BY <1>1, <1>3, <1>4 DEF Singletons, RequestsOK

LEMMA LookupSingletons ==
  ASSUME Singletons, NEW c \in Callers, NEW cap, NEW id, Lookup(c, cap, id)
  PROVE  Singletons'
<1>1. /\ UNCHANGED <<registrations, singletons, scoped, handed>>
      /\ request' = [request EXCEPT ![c] = request'[c]]
      /\ \A d \in Callers : d # c => request'[d] = request[d]
  BY DEF Lookup, Then, Singletons, RequestsOK
<1>2. /\ Resolves(c)' => /\ {"state", "capability", "id", "scope", "generation"} \subseteq DOMAIN request'[c]
                         /\ request'[c] = [f \in DOMAIN request'[c] |-> request'[c][f]]
                         /\ cap \in DOMAIN registrations
                         /\ request'[c].capability = cap
                         /\ request'[c].generation = registrations[cap].generation
      /\ request'[c].state # "making" /\ ~Registers(c)'
  <2>1. request'[c] = IF cap \notin DOMAIN registrations
                         \/ (registrations[cap].scope # "singleton" /\ id = NoScopeId)
                      THEN [state |-> "raised"]
                      ELSE [state |-> "checking", capability |-> cap, id |-> id,
                            scope |-> registrations[cap].scope,
                            generation |-> registrations[cap].generation]
    BY DEF Lookup, Then, Raised, Singletons, RequestsOK
  <2> QED BY <2>1 DEF Resolves, Registers
<1>3. GenerationsOK' /\ RequestsOK'
  BY <1>1 DEF Singletons, GenerationsOK, RequestsOK, Lookup, CallStarts
<1>4. ASSUME ~overlap' PROVE Apart'
  <2>1. Apart /\ \A d \in Callers : ~Busy(d)
    BY <1>4 DEF Singletons, RequestsOK, Lookup, CallStarts
  <2>2. \A d \in Callers : Busy(d)' => d = c
    BY <1>1, <2>1 DEF Busy
  <2>3. CallsOK'
    BY <1>1, <1>2, <2>2 DEF CallsOK, Resolves, Busy
  <2>4. \A d \in Callers : ~Registers(d) /\ ~Registers(d)'
    BY <1>2, <2>1, <2>2 DEF Registers, Busy
  <2>5. RegistersOK' /\ CachedOK'
    BY <1>1, <2>1, <2>4 DEF Apart, RegistersOK, CachedOK
  <2> QED BY <1>1, <2>1, <2>3, <2>5 DEF Apart, HandedOK, SameInstance
<1> QED BY <1>3, <1>4 DEF Singletons, RequestsOK

\* Check and ProviderReturns go on with the call they are in.
LEMMA ResolvingGoesOn ==
  ASSUME Singletons, NEW c \in Callers, Apart, Resolves(c), NEW place,
         place \in {"making", "reading"}, request' = [request EXCEPT ![c].state = place]
  PROVE  /\ request' = [d \in Callers |-> request'[d]]
         /\ request'[c].state = place
         /\ request'[c].capability = request[c].capability
         /\ request'[c].generation = request[c].generation
         /\ request'[c].id = request[c].id /\ request'[c].scope = request[c].scope
         /\ {"state", "capability", "id", "scope", "generation"} \subseteq DOMAIN request'[c]
         /\ request'[c] = [f \in DOMAIN request'[c] |-> request'[c][f]]
         /\ \A d \in Callers : d # c => request'[d] = request[d]
         /\ \A d \in Callers : Busy(d)' => d = c
         /\ \A d \in Callers : ~Registers(d) /\ ~Registers(d)'
<1>1. request' = [d \in Callers |-> request'[d]] /\ \A d \in Callers : d # c => request'[d] = request[d]
  BY DEF Singletons, RequestsOK
<1>2. request'[c] = [request[c] EXCEPT !.state = place]
  BY DEF Singletons, RequestsOK
<1>3. /\ {"state", "capability", "id", "scope", "generation"} \subseteq DOMAIN request[c]
      /\ request[c] = [f \in DOMAIN request[c] |-> request[c][f]]
  BY DEF Apart, CallsOK
<1>4. /\ request'[c].state = place
      /\ request'[c].capability = request[c].capability
      /\ request'[c].generation = request[c].generation
      /\ request'[c].id = request[c].id /\ request'[c].scope = request[c].scope
      /\ {"state", "capability", "id", "scope", "generation"} \subseteq DOMAIN request'[c]
      /\ request'[c] = [f \in DOMAIN request'[c] |-> request'[c][f]]
  BY <1>2, <1>3
<1>5. \A d \in Callers : Busy(d)' => d = c
  BY <1>1 DEF Apart, CallsOK, Busy, Resolves
<1>6. \A d \in Callers : ~Registers(d) /\ ~Registers(d)'
  BY <1>1, <1>4, NobodyRegisters DEF Registers
<1> QED BY <1>1, <1>4, <1>5, <1>6

LEMMA CheckSingletons ==
  ASSUME Singletons, NEW c \in Callers, Check(c)
  PROVE  Singletons'
<1>1. UNCHANGED <<registrations, singletons, scoped, handed, overlap>> /\ Resolves(c)
  BY DEF Check, CallGoesOn, Resolves
<1>2. request' = [d \in Callers |-> request'[d]]
  BY DEF Check, Singletons, RequestsOK
<1>3. ASSUME ~overlap PROVE Apart'
  <2>1. Apart
    BY <1>3 DEF Singletons
  <2> DEFINE place == IF MustMake(request[c]) THEN "making" ELSE "reading"
  <2>2. place \in {"making", "reading"} /\ request' = [request EXCEPT ![c].state = place]
        /\ (place = "making" => MustMake(request[c]))
    BY DEF Check
  <2> HIDE DEF place
  <2>3. /\ request'[c].state = place
        /\ request'[c].capability = request[c].capability
        /\ request'[c].generation = request[c].generation
        /\ request'[c].id = request[c].id /\ request'[c].scope = request[c].scope
        /\ {"state", "capability", "id", "scope", "generation"} \subseteq DOMAIN request'[c]
        /\ request'[c] = [f \in DOMAIN request'[c] |-> request'[c][f]]
        /\ \A d \in Callers : Busy(d)' => d = c
        /\ \A d \in Callers : ~Registers(d) /\ ~Registers(d)'
    BY <1>1, <2>1, <2>2, ResolvingGoesOn
  <2>4. place = "making" => MustMake(request[c])'
    BY <1>1, <2>2, <2>3 DEF MustMake, Cached, ScopedKey
  <2>5. CallsOK'
    <3>1. /\ request[c].capability \in DOMAIN registrations
          /\ request[c].generation = registrations[request[c].capability].generation
      BY <1>1, <2>1 DEF Apart, CallsOK
    <3>2. \A d \in Callers : Resolves(d)' => d = c
      BY <2>3 DEF Resolves, Busy
    <3>3. \A d, e \in Callers : Busy(d)' /\ Busy(e)' => d = e
      BY <2>3
    <3>4. request'[c].state = "making" => MustMake(request[c])'
      BY <2>3, <2>4
    <3>5. /\ request'[c].capability \in DOMAIN registrations'
          /\ request'[c].generation = registrations'[request'[c].capability].generation
      BY <1>1, <2>3, <3>1
    <3> QED BY <2>3, <3>2, <3>3, <3>4, <3>5 DEF CallsOK
  <2>6. RegistersOK' /\ CachedOK'
    BY <1>1, <2>1, <2>3 DEF Apart, RegistersOK, CachedOK
  <2> QED BY <1>1, <2>1, <2>5, <2>6 DEF Apart, HandedOK, SameInstance
<1> QED BY <1>1, <1>2, <1>3 DEF Singletons, GenerationsOK, RequestsOK

LEMMA ProviderReturnsSingletons ==
  ASSUME Singletons, Caches, NEW c \in Callers, ProviderReturns(c)
  PROVE  Singletons'
<1> DEFINE q == request[c]
           x == [capability |-> q.capability, generation |-> q.generation, number |-> made + 1]
<1>1. /\ UNCHANGED <<registrations, handed, overlap>> /\ Resolves(c)
      /\ request' = [request EXCEPT ![c].state = "reading"]
  BY DEF ProviderReturns, CallGoesOn, Resolves
<1>2. GenerationsOK' /\ RequestsOK'
  BY <1>1 DEF Singletons, GenerationsOK, RequestsOK
<1>3. ASSUME ~overlap PROVE Apart'
  <2>1. Apart
    BY <1>3 DEF Singletons
  <2>2. /\ request'[c].state = "reading"
        /\ request'[c].capability = request[c].capability
        /\ request'[c].generation = request[c].generation
        /\ {"state", "capability", "id", "scope", "generation"} \subseteq DOMAIN request'[c]
        /\ request'[c] = [f \in DOMAIN request'[c] |-> request'[c][f]]
        /\ \A d \in Callers : Busy(d)' => d = c
        /\ \A d \in Callers : ~Registers(d) /\ ~Registers(d)'
    BY <1>1, <2>1, ResolvingGoesOn
  <2>3. CallsOK'
    <3>1. \A d \in Callers : Resolves(d)' => d = c
      BY <2>2 DEF Busy, Resolves
    <3>2. /\ request'[c].capability \in DOMAIN registrations'
          /\ request'[c].generation = registrations'[request'[c].capability].generation
          /\ request'[c].state # "making"
      BY <1>1, <2>1, <2>2 DEF Apart, CallsOK
    <3> QED BY <2>2, <3>1, <3>2, ZenonT(60) DEF CallsOK
  <2>4. RegistersOK'
    BY <2>2 DEF RegistersOK
  <2>5. CASE q.scope # "singleton"
    <3>1. UNCHANGED singletons
      BY <2>5 DEF ProviderReturns
    <3> QED BY <1>1, <2>1, <2>2, <2>3, <2>4, <3>1 DEF Apart, CachedOK, HandedOK, SameInstance
  <2>6. CASE q.scope = "singleton"
    <3>1. /\ DOMAIN singletons' = DOMAIN singletons \cup {q.capability}
          /\ \A k \in DOMAIN singletons' : singletons'[k] = IF k = q.capability THEN x ELSE singletons[k]
      BY <2>6 DEF ProviderReturns, Store
    <3>2. /\ q.capability \in DOMAIN registrations /\ q.generation = registrations[q.capability].generation
          /\ q.capability \notin DOMAIN singletons
      BY <1>1, <2>1, <2>6 DEF Apart, CallsOK, ProviderReturns, CallGoesOn, MustMake, Cached
    <3>3. CachedOK'
      BY <1>1, <2>1, <2>2, <3>1, <3>2 DEF Apart, CachedOK
    <3>4. HandedOK'
      BY <1>1, <2>1, <3>1, <3>2 DEF Apart, HandedOK
    <3> QED BY <1>1, <2>1, <2>3, <2>4, <3>3, <3>4 DEF Apart, SameInstance
  <2> QED BY <2>5, <2>6
<1> QED BY <1>1, <1>2, <1>3 DEF Singletons, RequestsOK

LEMMA ReadSingletons ==
  ASSUME Singletons, Caches, NEW c \in Callers, Read(c)
  PROVE  Singletons'
<1>1. /\ UNCHANGED <<registrations, singletons, scoped, overlap>> /\ Resolves(c)
      /\ request' = [request EXCEPT ![c] = request'[c]]
      /\ ~Busy(c)'
      /\ \A d \in Callers : d # c => request'[d] = request[d]
  BY DEF Read, CallGoesOn, Then, Raised, Busy, Resolves, Singletons, RequestsOK
<1>2. GenerationsOK' /\ RequestsOK'
  BY <1>1 DEF Singletons, GenerationsOK, RequestsOK
<1>3. ASSUME ~overlap PROVE Apart'
  <2>1. Apart
    BY <1>3 DEF Singletons
  <2>2. \A d \in Callers : ~Busy(d)'
    BY <1>1, <2>1 DEF Apart, CallsOK, Busy, Resolves
  <2>3. \A d \in Callers : ~Registers(d)
    BY <1>1, <2>1, NobodyRegisters
  <2>4. CallsOK' /\ RegistersOK'
    BY <2>2 DEF CallsOK, RegistersOK, Resolves, Registers, Busy
  <2>5. CachedOK'
    BY <1>1, <2>1, <2>3 DEF Apart, CachedOK
  <2>6. CASE handed' = handed
    BY <1>1, <2>1, <2>4, <2>5, <2>6 DEF Apart, HandedOK, SameInstance
  <2>7. ASSUME NEW g, handed' = handed \cup {g}, g.scope # "singleton" PROVE Apart'
    BY <1>1, <2>1, <2>4, <2>5, <2>7 DEF Apart, HandedOK, SameInstance
  <2>8. ASSUME NEW g, handed' = handed \cup {g}, g.scope = "singleton",
               g.generation = request[c].generation,
               request[c].capability \in DOMAIN singletons,
               g.instance = singletons[request[c].capability]
        PROVE  Apart'
    <3> DEFINE k == request[c].capability
    <3>1. g.instance.capability = k /\ k \in DOMAIN singletons
      BY <2>8 DEF Caches, KeysOK
    <3>2. /\ k \in DOMAIN registrations /\ g.generation = registrations[k].generation
          /\ g.instance.generation = g.generation /\ g.generation \in Nat
      <4>1. k \in DOMAIN registrations /\ singletons[k].generation = registrations[k].generation
        BY <2>1, <2>3, <2>8 DEF Apart, CachedOK
      <4>2. request[c].generation = registrations[k].generation
        BY <1>1, <2>1 DEF Apart, CallsOK
      <4> QED BY <2>8, <4>1, <4>2 DEF Singletons, GenerationsOK
    <3>3. HandedOK'
      <4>1. \A h \in handed' : h \in handed \/ h = g
        BY <2>8
      <4> QED BY <1>1, <2>1, <2>8, <3>1, <3>2, <4>1 DEF Apart, HandedOK
    <3>4. SameInstance'
      <4>1. \A h \in handed' : h \in handed \/ h = g
        BY <2>8
      <4>2. \A h \in handed : h.scope = "singleton" /\ h.instance.capability = k /\ h.generation = g.generation
              => h.instance = g.instance
        BY <2>1, <2>8, <3>2 DEF Apart, HandedOK
      <4> QED BY <2>1, <3>1, <4>1, <4>2 DEF Apart, SameInstance
    <3> QED BY <2>4, <2>5, <3>3, <3>4 DEF Apart
  <2> QED BY <2>6, <2>7, <2>8, ReadHandsCached
<1> QED BY <1>1, <1>2, <1>3 DEF Singletons, RequestsOK

\* The steps of close_scope, a provider that raises, and a caller that goes on.
LEMMA OtherSingletons ==
  ASSUME Singletons, NEW c \in Callers,
         \/ ProviderRaises(c) \/ Leave(c) \/ ListKey(c) \/ DeleteKey(c)
         \/ \E scope, id : CloseScope(c, scope, id)
  PROVE  Singletons'
<1>1. CASE ProviderRaises(c) \/ Leave(c)
  <2>1. /\ UNCHANGED <<registrations, singletons, scoped, handed, overlap>>
        /\ ~Registers(c) /\ ~Busy(c)'
    BY <1>1 DEF ProviderRaises, Leave, CallGoesOn, Then, Busy, Idle, Raised, Registers, Singletons, RequestsOK
  <2>2. request' = [request EXCEPT ![c] = request'[c]]
    BY <1>1 DEF ProviderRaises, Leave, Then, Singletons, RequestsOK
  <2>3. ~Registers(c)' /\ ~Resolves(c)' /\ overlap \in BOOLEAN
    BY <2>1 DEF Busy, Registers, Resolves, Singletons, RequestsOK
  <2> QED BY <2>1, <2>2, <2>3, OtherCalls
<1>2. CASE ListKey(c) \/ DeleteKey(c)
  <2>1. /\ UNCHANGED <<registrations, singletons, handed, overlap>>
        /\ ~Registers(c) /\ Busy(c)
    BY <1>2 DEF ListKey, DeleteKey, CallGoesOn, Busy, Registers
  <2>2. request' = [request EXCEPT ![c] = request'[c]]
    BY <1>2 DEF ListKey, DeleteKey, Then, Singletons, RequestsOK
  <2>3. request'[c].state \notin {"registering", "checking", "making", "reading"}
    <3>1. CASE DeleteKey(c)
      BY <3>1 DEF DeleteKey, Then, Deleting, Idle, Raised, Singletons, RequestsOK
    <3>2. CASE ListKey(c)
      BY <3>2 DEF ListKey, Listing, Then, Deleting, Idle, Raised, Singletons, RequestsOK
    <3> QED BY <1>2, <3>1, <3>2
  <2>4. ~Registers(c)' /\ ~Resolves(c)' /\ overlap \in BOOLEAN
    BY <2>3 DEF Registers, Resolves, Singletons, RequestsOK
  <2> QED BY <2>1, <2>2, <2>4, OtherCalls
<1>3. ASSUME NEW scope, NEW id, CloseScope(c, scope, id) PROVE Singletons'
  <2>1. /\ UNCHANGED <<registrations, singletons, scoped, handed>>
        /\ ~Registers(c) /\ overlap' \in BOOLEAN /\ (~overlap' => ~overlap)
    BY <1>3 DEF CloseScope, CallStarts, Registers
  <2>2. /\ request' = [request EXCEPT ![c] = request'[c]]
        /\ request'[c].state = "listing"
    BY <1>3 DEF CloseScope, Listing, Then, Singletons, RequestsOK
  <2>3. ~Registers(c)' /\ ~Resolves(c)'
    BY <2>2 DEF Registers, Resolves
  <2>4. CASE ~overlap'
    <3>1. \A d \in Callers : ~Busy(d)
      BY <1>3, <2>4 DEF CloseScope, CallStarts
    <3> QED BY <2>1, <2>2, <2>3, <3>1, OtherCalls
  <2>5. CASE overlap'
    BY <2>1, <2>2, <2>5 DEF Singletons, GenerationsOK, RequestsOK
  <2> QED BY <2>4, <2>5
<1> QED BY <1>1, <1>2, <1>3

\* di.py:26, 74-77: while no two calls overlap, whoever resolves a singleton is
\* handed the one instance of its registration, and an override replaces it for
\* everybody who resolves it later.
THEOREM SingletonsFollow == Spec => []SingletonsFollowTheirRegistration
<1>1. Init => Singletons
  <2> SUFFICES ASSUME Init PROVE Singletons
    OBVIOUS
  <2>1. \A c \in Callers : request[c] = [state |-> "idle"]
    BY DEF Init, ContainerInit, Idle
  <2>2. /\ DOMAIN registrations = {} /\ DOMAIN singletons = {} /\ handed = {}
        /\ overlap \in BOOLEAN /\ request = [c \in Callers |-> request[c]]
    <3>1. DOMAIN registrations = {} /\ DOMAIN singletons = {}
      BY DEF Init, ContainerInit
    <3>2. handed = {} /\ overlap \in BOOLEAN
      BY DEF Init, ContainerInit
    <3>3. request = [c \in Callers |-> Idle]
      BY DEF Init, ContainerInit
    <3>4. request = [c \in Callers |-> request[c]]
      BY <3>3
    <3> QED BY <3>1, <3>2, <3>4
  <2>3. Apart
    BY <2>1, <2>2 DEF Busy, Resolves, Registers, Apart, CallsOK, RegistersOK, CachedOK, HandedOK, SameInstance
  <2> QED BY <2>2, <2>3 DEF Singletons, GenerationsOK, RequestsOK
<1>2. Singletons /\ Caches /\ [Next]_container => Singletons'
  <2> SUFFICES ASSUME Singletons, Caches, [Next]_container PROVE Singletons'
    OBVIOUS
  <2>1. ASSUME NEW c \in Callers, NEW cap, NEW scope, Register(c, cap, scope) PROVE Singletons'
    BY <2>1, RegisterSingletons
  <2>2. ASSUME NEW c \in Callers, NEW cap, NEW id, Lookup(c, cap, id) PROVE Singletons'
    BY <2>2, LookupSingletons
  <2>3. ASSUME NEW c \in Callers, Check(c) \/ ProviderReturns(c) \/ Read(c) PROVE Singletons'
    BY <2>3, CheckSingletons, ProviderReturnsSingletons, ReadSingletons
  <2>4. CASE UNCHANGED container
    BY <2>4 DEF container, Singletons, GenerationsOK, RequestsOK, Apart, CallsOK, RegistersOK, CachedOK, HandedOK,
                SameInstance, Busy, Resolves, Registers, MustMake, Cached
  <2> QED BY <2>1, <2>2, <2>3, <2>4, InvalidateSingletons, OtherSingletons DEF Next, Resolving
<1>3. Singletons => SingletonsFollowTheirRegistration
  BY DEF Singletons, RequestsOK, Apart, HandedOK, SameInstance, SingletonsFollowTheirRegistration
<1> QED BY <1>1, <1>2, <1>3, CachesAlways, PTL DEF Spec
==============================================================================
