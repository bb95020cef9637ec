------------------------------ MODULE Container ------------------------------
(***************************************************************************)
(* runtime/container/di.py: capabilities registered with a provider and a  *)
(* scope, instances made on first use and cached.  There is no lock, so    *)
(* every read and write of a dict that another thread could come between   *)
(* is a step: resolve() looks up the registration, checks the cache, calls *)
(* the provider and reads the cache again; register() writes, then         *)
(* invalidates; close_scope() goes over the keys, then deletes them.  An   *)
(* instance is told apart by the registration it was made from and its     *)
(* place among all instances.                                              *)
(***************************************************************************)
EXTENDS Naturals, FiniteSets, TLC

CONSTANTS
  Capabilities,
  Callers,    \* threads that call into the container
  ScopeIds,   \* pipeline run ids and request ids
  NoScopeId,  \* scope_id=None
  MaxGeneration, MaxMade \* bounds: registrations of a capability, provider calls

ASSUME ContainerAssumption ==
  /\ NoScopeId \notin ScopeIds
  /\ MaxGeneration \in Nat /\ MaxMade \in Nat

VARIABLES
  registrations, \* _registrations: capability -> [scope, generation]
  singletons,    \* _singleton_cache: capability -> instance
  scoped,        \* _scoped_cache: <<scope, capability, scope id>> -> instance
  request,       \* request[c]: the call that c is in
  made,          \* instances made so far
  handed,        \* history: what every resolve() returned
  dropped,       \* history: instances taken out of a cache
  overlap        \* history: some call started while another was under way

container == <<registrations, singletons, scoped, request, made, handed, dropped, overlap>>

Scopes == {"singleton", "pipeline_run", "request"}
Idle == [state |-> "idle"]
Raised == [state |-> "raised"]

Generation(cap) ==
  IF cap \in DOMAIN registrations THEN registrations[cap].generation ELSE 0

Drop_Kept(cache, keys) == cache \* mutant: what is evicted stays cached

Drop(cache, keys) == [k \in DOMAIN cache \ keys |-> cache[k]]

Store(cache, key, value) == [k \in DOMAIN cache \cup {key} |-> IF k = key THEN value ELSE cache[k]]

ContainerInit ==
  /\ singletons = <<>> /\ scoped = <<>>
  /\ request = [c \in Callers |-> Idle]
  /\ made = 0
  /\ handed = {} /\ dropped = {}

Init == registrations = <<>> /\ ContainerInit /\ overlap = FALSE

Busy(c) == request[c].state \notin {"idle", "answered", "raised"}

\* A call starts: into the middle of another one, if some thread is in one.
CallStarts(c) ==
  /\ request[c].state = "idle"
  /\ overlap' = (overlap \/ \E d \in Callers : Busy(d))

CallGoesOn(c, place) == request[c].state = place /\ overlap' = overlap

Then(c, next) == request' = [request EXCEPT ![c] = next]

\* Mutant: a new registration leaves the old singleton in the cache.
Stale_Kept(cap) == {}

Stale(cap) == {cap} \cap DOMAIN singletons

\* A second registration that does not say override=True raises and changes
\* nothing; scoped instances made from the old registration stay cached.
Register(c, cap, scope) ==
  /\ CallStarts(c)
  /\ Generation(cap) < MaxGeneration
  /\ registrations' = Store(registrations, cap, [scope |-> scope, generation |-> Generation(cap) + 1])
  /\ Then(c, [state |-> "registering", capability |-> cap])
  /\ UNCHANGED <<singletons, scoped, made, handed, dropped>>

Invalidate(c) ==
  LET cap == request[c].capability
  IN /\ CallGoesOn(c, "registering")
     /\ singletons' = Drop(singletons, Stale(cap))
     /\ dropped' = dropped \cup {singletons[k] : k \in Stale(cap)}
     /\ Then(c, Idle)
     /\ UNCHANGED <<registrations, scoped, made, handed>>

\* Mutant: the scope id is left out of the key.
ScopedKey_NoId(q) == <<q.scope, q.capability, "any">>

ScopedKey(q) == <<q.scope, q.capability, q.id>>

Cached(q) ==
  IF q.scope = "singleton" THEN q.capability \in DOMAIN singletons
  ELSE ScopedKey(q) \in DOMAIN scoped

MustMake(q) == ~Cached(q)

Lookup(c, cap, id) ==
  /\ CallStarts(c)
  /\ IF cap \notin DOMAIN registrations
        \/ (registrations[cap].scope # "singleton" /\ id = NoScopeId)
     THEN Then(c, Raised)
     ELSE Then(c, [state |-> "checking", capability |-> cap, id |-> id,
                   scope |-> registrations[cap].scope,
                   generation |-> registrations[cap].generation])
  /\ UNCHANGED <<registrations, singletons, scoped, made, handed, dropped>>

Check(c) ==
  /\ CallGoesOn(c, "checking")
  /\ request' = [request EXCEPT ![c].state = IF MustMake(request[c]) THEN "making" ELSE "reading"]
  /\ UNCHANGED <<registrations, singletons, scoped, made, handed, dropped>>

ProviderReturns(c) ==
  /\ CallGoesOn(c, "making")
  /\ made < MaxMade
  /\ made' = made + 1
  /\ LET q == request[c]
         instance == [capability |-> q.capability, generation |-> q.generation, number |-> made']
     IN IF q.scope = "singleton"
        THEN singletons' = Store(singletons, q.capability, instance) /\ UNCHANGED scoped
        ELSE scoped' = Store(scoped, ScopedKey(q), instance) /\ UNCHANGED singletons
  /\ request' = [request EXCEPT ![c].state = "reading"]
  /\ UNCHANGED <<registrations, handed, dropped>>

ProviderRaises(c) ==
  /\ CallGoesOn(c, "making")
  /\ Then(c, Raised)
  /\ UNCHANGED <<registrations, singletons, scoped, made, handed, dropped>>

\* The entry may be gone by now: then the read raises KeyError.
Read(c) ==
  LET q == request[c]
      instance == IF q.scope = "singleton" THEN singletons[q.capability] ELSE scoped[ScopedKey(q)]
  IN /\ CallGoesOn(c, "reading")
     /\ IF Cached(q)
        THEN /\ Then(c, [state |-> "answered", instance |-> instance])
             /\ handed' = handed \cup {[scope |-> q.scope, id |-> q.id,
                                        generation |-> q.generation, instance |-> instance]}
        ELSE Then(c, Raised) /\ UNCHANGED handed
     /\ UNCHANGED <<registrations, singletons, scoped, made, dropped>>

\* The caller goes on with the instance, or with the exception.
Leave(c) ==
  /\ CallGoesOn(c, "answered") \/ CallGoesOn(c, "raised")
  /\ Then(c, Idle)
  /\ UNCHANGED <<registrations, singletons, scoped, made, handed, dropped>>

Resolving(c) == Check(c) \/ ProviderReturns(c) \/ ProviderRaises(c) \/ Read(c)

Listing(scope, id, size, passed, keys) ==
  [state |-> "listing", scope |-> scope, id |-> id, size |-> size, passed |-> passed, keys |-> keys]

CloseScope(c, scope, id) ==
  /\ CallStarts(c)
  /\ Then(c, Listing(scope, id, Cardinality(DOMAIN scoped), {}, {}))
  /\ UNCHANGED <<registrations, singletons, scoped, made, handed, dropped>>

InScope(q, k) == k[1] = q.scope /\ k[3] = q.id

Deleting(keys) == IF keys = {} THEN Idle ELSE [state |-> "closing", keys |-> keys]

\* The next key of the dict, whose iterator raises RuntimeError when it finds
\* the dict's size changed.
ListKey(c) ==
  LET q == request[c]
      left == DOMAIN scoped \ q.passed
  IN /\ CallGoesOn(c, "listing")
     /\ \/ Cardinality(DOMAIN scoped) # q.size /\ Then(c, Raised)
        \/ /\ Cardinality(DOMAIN scoped) = q.size
           /\ \/ left = {} /\ Then(c, Deleting(q.keys))
              \/ \E k \in left :
                   Then(c, Listing(q.scope, q.id, q.size, q.passed \cup {k},
                                   q.keys \cup {j \in {k} : InScope(q, j)}))
     /\ UNCHANGED <<registrations, singletons, scoped, made, handed, dropped>>

\* A key that another close_scope() deleted first raises KeyError.
DeleteKey(c) ==
  /\ CallGoesOn(c, "closing")
  /\ \E k \in request[c].keys :
       IF k \in DOMAIN scoped
       THEN /\ scoped' = Drop(scoped, {k})
            /\ dropped' = dropped \cup {scoped[k]}
            /\ Then(c, Deleting(request[c].keys \ {k}))
       ELSE Then(c, Raised) /\ UNCHANGED <<scoped, dropped>>
  /\ UNCHANGED <<registrations, singletons, made, handed>>

Next == \E c \in Callers :
  \/ \E cap \in Capabilities, scope \in Scopes : Register(c, cap, scope)
  \/ Invalidate(c)
  \/ \E cap \in Capabilities, id \in ScopeIds \cup {NoScopeId} : Lookup(c, cap, id)
  \/ Resolving(c)
  \/ Leave(c)
  \/ \E scope \in Scopes \ {"singleton"}, id \in ScopeIds : CloseScope(c, scope, id)
  \/ ListKey(c)
  \/ DeleteKey(c)

Spec == Init /\ [][Next]_container

\* No thread and no scope id is special: what TLC may identify.
Symmetry == Permutations(Callers) \cup Permutations(ScopeIds)

------------------------------------------------------------------------------
(* Properties.                                                             *)

\* di.py: an instance resolved for one pipeline run or request is never handed
\* to another (DEPENDENCY_INJECTION.md, section 3), threads interleaved or not.
ScopedInstancesAreNotShared ==
  \A g, h \in handed : g.scope # "singleton" /\ g.instance = h.instance => g.id = h.id

\* di.py:26, 74-77: a singleton is resolved once and by its latest provider.
\* As long as its registration stands everybody who resolves it is handed the
\* same instance, providers that raise included, and a resolve() that sees a
\* new registration never returns an instance of an earlier provider; unless
\* calls of two threads overlapped: the cache check and the store are not one
\* step, and a late store survives an override.
SingletonsFollowTheirRegistration ==
  overlap \/ \A g \in handed : g.scope = "singleton" =>
    /\ g.instance.generation = g.generation
    /\ \A h \in handed :
         /\ h.scope = "singleton"
         /\ g.instance.capability = h.instance.capability
         /\ g.generation = h.generation
         => g.instance = h.instance

\* di.py:117: an instance evicted from a cache is never handed out again.
EvictedInstancesStayGone ==
  [][\A h \in handed' \ handed : h.instance \notin dropped]_container
==============================================================================
